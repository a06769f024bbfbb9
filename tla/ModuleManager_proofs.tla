------------------------- MODULE ModuleManager_proofs -------------------------
(***************************************************************************)
(* Proofs about the module manager, for any number of threads, modules and *)
(* outstanding requests.  All of them need the mutex initialised before    *)
(* the threads start (LockReady).  The agreement of list, libraries and    *)
(* callers, and the refinement of the abstract registry, also need that    *)
(* libraries open (CleanFailures): a failed dlopen leaves a node that      *)
(* breaks them.                                                            *)
(***************************************************************************)
EXTENDS ModuleManager, FiniteSetTheorems, TLAPS

CleanFailures == Failures \subseteq {"list_add"}

HasNull(l) == \E i \in 1..Len(l) : l[i] = NULL

Lists == Seq(Modules \cup {NULL})

-----------------------------------------------------------------------------
(***************************************************************************)
(* Walking, appending to and unlinking from the list                       *)
(***************************************************************************)

\* The nodes of a module are finitely many positions of the list.
LEMMA MatchesFinite ==
    ASSUME NEW l \in Lists, NEW m
    PROVE  /\ IsFiniteSet(Matches(l, m))
           /\ Cardinality(Matches(l, m)) \in Nat
           /\ Cardinality(Matches(l, m)) = 0 <=> Matches(l, m) = {}
  <1>1. Matches(l, m) \subseteq 1..Len(l)
    BY DEF Matches
  <1>2. IsFiniteSet(1..Len(l))
    BY FS_Interval DEF Lists
  <1>3. IsFiniteSet(Matches(l, m))
    BY <1>1, <1>2, FS_Subset
  <1>. QED
    BY <1>3, FS_CardinalityType, FS_EmptySet

\* A search that neither finds a module nor faults has passed no zeroed node.
LEMMA NoMatchNoNull ==
    ASSUME NEW l \in Lists, NEW m \in Modules,
           ~DerefsNull(l, m), Matches(l, m) = {}
    PROVE  ~HasNull(l)
  BY DEF DerefsNull, Matches, HasNull, Lists

\* artik_list_add appends one node of one module.
LEMMA AppendNode ==
    ASSUME NEW l \in Lists, NEW x \in Modules \cup {NULL}
    PROVE  /\ Append(l, x) \in Lists
           /\ Matches(Append(l, x), x) = Matches(l, x) \cup {Len(l) + 1}
           /\ \A m : m # x => Matches(Append(l, x), m) = Matches(l, m)
           /\ HasNull(Append(l, x)) <=> HasNull(l) \/ x = NULL
  <1>. DEFINE a == Append(l, x)
  <1>1. /\ a \in Lists
        /\ Len(a) = Len(l) + 1
        /\ Len(l) \in Nat
        /\ \A i \in 1..Len(l) : a[i] = l[i]
        /\ a[Len(l) + 1] = x
    BY DEF Lists
  <1>2. \A i : i \in 1..Len(a) <=> i \in 1..Len(l) \/ i = Len(l) + 1
    BY <1>1
  <1>3. Len(l) + 1 \notin 1..Len(l)
    BY <1>1
  <1>. HIDE DEF a
  <1>4. /\ Matches(a, x) = Matches(l, x) \cup {Len(l) + 1}
        /\ \A m : m # x => Matches(a, m) = Matches(l, m)
    BY <1>1, <1>2, <1>3 DEF Matches
  <1>5. HasNull(a) <=> HasNull(l) \/ x = NULL
    BY <1>1, <1>2 DEF HasNull
  <1>. QED
    BY <1>1, <1>4, <1>5 DEF a

\* The number of nodes of the appended module grows by one.
LEMMA AppendCount ==
    ASSUME NEW l \in Lists, NEW x \in Modules \cup {NULL}, NEW m
    PROVE  Cardinality(Matches(Append(l, x), m)) =
             Cardinality(Matches(l, m)) + (IF x = m THEN 1 ELSE 0)
  <1>1. CASE x = m
    <2>1. Matches(Append(l, x), m) = Matches(l, m) \cup {Len(l) + 1}
      BY <1>1, AppendNode
    <2>2. Len(l) + 1 \notin Matches(l, m)
      BY DEF Matches, Lists
    <2>3. IsFiniteSet(Matches(l, m)) /\ Cardinality(Matches(l, m)) \in Nat
      BY MatchesFinite, FS_CardinalityType
    <2>4. Cardinality(Matches(l, m) \cup {Len(l) + 1}) = Cardinality(Matches(l, m)) + 1
      BY <2>2, <2>3, FS_AddElement
    <2>. QED
      BY <1>1, <2>1, <2>4
  <1>2. CASE x # m
    <2>1. Matches(Append(l, x), m) = Matches(l, m)
      BY <1>2, AppendNode
    <2>. QED
      BY <1>2, <2>1, MatchesFinite
  <1>. QED
    BY <1>1, <1>2

\* artik_list_delete_check removes one node and no other.
LEMMA UnlinkNode ==
    ASSUME NEW l \in Lists, NEW m \in Modules, NEW k \in Matches(l, m)
    PROVE  /\ Unlink(l, k) \in Lists
           /\ \A n : Cardinality(Matches(Unlink(l, k), n)) =
                       Cardinality(Matches(l, n)) - (IF n = m THEN 1 ELSE 0)
           /\ HasNull(Unlink(l, k)) <=> HasNull(l)
  <1>. DEFINE u == Unlink(l, k)
  <1>1. /\ Len(l) \in Nat
        /\ k \in 1..Len(l)
        /\ l[k] = m
        /\ m # NULL
        /\ \A i \in 1..Len(l) : l[i] \in Modules \cup {NULL}
    BY ConstantsAssumption DEF Matches, Lists
  <1>2. /\ u \in Lists
        /\ Len(u) = Len(l) - 1
        /\ \A j \in 1..(Len(l) - 1) : u[j] = IF j < k THEN l[j] ELSE l[j + 1]
    BY <1>1 DEF Unlink, Lists
  <1>. HIDE DEF u
  <1>3. ASSUME NEW n
        PROVE  Cardinality(Matches(u, n)) =
                 Cardinality(Matches(l, n)) - (IF n = m THEN 1 ELSE 0)
    <2>. DEFINE S == Matches(l, n) \ {k}
                T == Matches(u, n)
                f == [i \in S |-> IF i < k THEN i ELSE i - 1]
    <2>1. f \in [S -> T]
      BY <1>1, <1>2 DEF Matches
    <2>2. \A i, j \in S : f[i] = f[j] => i = j
      BY <1>1 DEF Matches
    <2>3. \A j \in T : \E i \in S : f[i] = j
      <3>1. SUFFICES ASSUME NEW j \in T
                     PROVE  \E i \in S : f[i] = j
        OBVIOUS
      <3>2. CASE j < k
        <4>1. j \in S /\ f[j] = j
          BY <1>1, <1>2, <3>2 DEF Matches
        <4>. QED
          BY <4>1
      <3>3. CASE ~(j < k)
        <4>1. j + 1 \in S /\ f[j + 1] = j
          BY <1>1, <1>2, <3>3 DEF Matches
        <4>. QED
          BY <4>1
      <3>. QED
        BY <3>2, <3>3
    <2>4. ExistsBijection(S, T)
      <3>. HIDE DEF f
      <3>1. f \in Bijection(S, T)
        BY <2>1, <2>2, <2>3 DEF Bijection, Injection, Surjection, IsInjective
      <3>. QED
        BY <3>1 DEF ExistsBijection
    <2>5. /\ IsFiniteSet(S)
          /\ Cardinality(S) = IF k \in Matches(l, n)
                              THEN Cardinality(Matches(l, n)) - 1
                              ELSE Cardinality(Matches(l, n))
      BY MatchesFinite, FS_RemoveElement
    <2>6. k \in Matches(l, n) <=> n = m
      BY <1>1 DEF Matches
    <2>7. Cardinality(T) = Cardinality(S)
      BY <2>4, <2>5, FS_Bijection
    <2>8. Cardinality(Matches(l, n)) \in Nat
      BY MatchesFinite
    <2>. QED
      BY <2>5, <2>6, <2>7, <2>8
  <1>4. HasNull(u) <=> HasNull(l)
    <2>1. ASSUME HasNull(u) PROVE HasNull(l)
      BY <1>1, <1>2, <2>1 DEF HasNull
    <2>2. ASSUME HasNull(l) PROVE HasNull(u)
      <3>1. PICK i \in 1..Len(l) : l[i] = NULL
        BY <2>2 DEF HasNull
      <3>2. CASE i < k
        BY <1>1, <1>2, <3>1, <3>2 DEF HasNull
      <3>3. CASE i > k
        <4>1. i - 1 \in 1..Len(u) /\ u[i - 1] = NULL
          BY <1>1, <1>2, <3>1, <3>3
        <4>. QED
          BY <4>1 DEF HasNull
      <3>. QED
        BY <1>1, <3>1, <3>2, <3>3
    <2>. QED
      BY <2>1, <2>2
  <1>. QED
    BY <1>2, <1>3, <1>4 DEF u

-----------------------------------------------------------------------------
(***************************************************************************)
(* Type correctness, but for the signs of the two counters, which depend   *)
(* on the mutex                                                            *)
(***************************************************************************)
Typed ==
    /\ lock_initialized \in BOOLEAN
    /\ holder \in Threads \cup {NULL}
    /\ requested_node \in Seq(Modules \cup {NULL})
    /\ dl \in [Modules -> Int]
    /\ refs \in [Modules -> Int]
    /\ pc \in [Threads -> Steps]
    /\ op \in [Threads -> {"request", "release"}]
    /\ arg \in [Threads -> Modules]
    /\ found \in [Threads -> BOOLEAN]
    /\ fault \in BOOLEAN

LEMMA TypedInit == Init => Typed
  <1>. SUFFICES ASSUME Init PROVE Typed
    OBVIOUS
  <1>1. requested_node \in Seq(Modules \cup {NULL})
    BY DEF Init
  <1>2. found \in [Threads -> BOOLEAN]
    BY Zenon DEF Init
  <1>3. lock_initialized \in BOOLEAN /\ fault \in BOOLEAN
    BY ConstantsAssumption DEF Init
  <1>. QED
    BY <1>1, <1>2, <1>3 DEF Init, Typed, Steps

LEMMA TypedNext == Typed /\ [Next]_vars => Typed'
  <1>. SUFFICES ASSUME Typed, [Next]_vars PROVE Typed'
    OBVIOUS
  <1>. USE ConstantsAssumption DEF Typed, Steps
  <1>1. ASSUME NEW t \in Threads, NEW m \in Modules,
               Request(t, m) \/ Release(t, m)
        PROVE  Typed'
    <2>1. PICK o \in {"request", "release"} : Call(t, o, m)
      BY <1>1 DEF Request, Release
    <2>2. pc' \in [Threads -> Steps]
      BY <2>1 DEF Call, Goto
    <2>3. op' \in [Threads -> {"request", "release"}] /\ arg' \in [Threads -> Modules]
      BY <2>1 DEF Call
    <2>4. UNCHANGED <<found, shared>>
      BY <2>1 DEF Call
    <2>. QED
      BY <2>2, <2>3, <2>4 DEF shared
  <1>2. ASSUME NEW t \in Threads,
               CheckFlag(t) \/ InitMutex(t) \/ SetFlag(t) \/ Lock(t)
        PROVE  Typed'
    BY <1>2 DEF CheckFlag, InitMutex, SetFlag, Lock, Goto, shared
  <1>3. ASSUME NEW t \in Threads, RequestFind(t) \/ SearchFaults(t)
        PROVE  Typed'
    BY <1>3 DEF RequestFind, SearchFaults, Goto, shared, locals
  <1>4. ASSUME NEW t \in Threads, RequestDone(t)
        PROVE  Typed'
    <2>1. requested_node' \in Seq(Modules \cup {NULL})
      BY <1>4, AppendNode DEF RequestDone, Lists
    <2>2. dl' \in [Modules -> Int] /\ refs' \in [Modules -> Int]
      BY <1>4 DEF RequestDone
    <2>. QED
      BY <1>4, <2>1, <2>2 DEF RequestDone, UnlockReturn, Goto
  <1>5. ASSUME NEW t \in Threads, RequestNoNode(t) \/ ReleaseInvalid(t)
        PROVE  Typed'
    BY <1>5 DEF RequestNoNode, ReleaseInvalid, UnlockReturn, Goto
  <1>6. ASSUME NEW t \in Threads, RequestFails(t)
        PROVE  Typed'
    <2>1. requested_node' \in Seq(Modules \cup {NULL})
      BY <1>6, AppendNode DEF RequestFails, Lists
    <2>2. dl' \in [Modules -> Int]
      BY <1>6 DEF RequestFails
    <2>. QED
      BY <1>6, <2>1, <2>2 DEF RequestFails, UnlockReturn, Goto
  <1>7. ASSUME NEW t \in Threads, ReleaseUnlink(t)
        PROVE  Typed'
    <2>1. requested_node' \in Seq(Modules \cup {NULL})
      <3>1. PICK k \in Matches(requested_node, arg[t]) :
                   requested_node' = Unlink(requested_node, k)
        BY <1>7 DEF ReleaseUnlink, IsFirstMatch
      <3>. QED
        BY <3>1, UnlinkNode DEF Lists
    <2>2. refs' \in [Modules -> Int]
      BY <1>7 DEF ReleaseUnlink
    <2>. QED
      BY <1>7, <2>1, <2>2 DEF ReleaseUnlink, Goto
  <1>8. ASSUME NEW t \in Threads, ReleaseClose(t)
        PROVE  Typed'
    <2>1. dl' \in [Modules -> Int]
      BY <1>8 DEF ReleaseClose
    <2>. QED
      BY <1>8, <2>1 DEF ReleaseClose, UnlockReturn, Goto
  <1>9. CASE UNCHANGED vars
    BY <1>9 DEF vars
  <1>. QED
    BY <1>1, <1>2, <1>3, <1>4, <1>5, <1>6, <1>7, <1>8, <1>9 DEF Next, Step

LEMMA TypedHolds == Spec => []Typed
  BY TypedInit, TypedNext, PTL DEF Spec
-----------------------------------------------------------------------------
(***************************************************************************)
(* The mutex: once it is initialised, the thread inside the protected code *)
(* is the one that holds it, and there is at most one.                     *)
(***************************************************************************)
LockInv ==
    /\ lock_initialized
    /\ \A t \in Threads : /\ pc[t] \notin {"init", "flag"}
                          /\ InCS(t) => holder = t

LEMMA LockInvInit == ASSUME LockReady PROVE Init => LockInv
  BY DEF Init, LockInv, InCS

LEMMA LockInvNext == Typed /\ LockInv /\ [Next]_vars => LockInv'
  <1>. SUFFICES ASSUME Typed, LockInv, [Next]_vars PROVE LockInv'
    OBVIOUS
  <1>. USE ConstantsAssumption DEF Typed, LockInv, InCS
  <1>1. ASSUME NEW t \in Threads, NEW m \in Modules,
               Request(t, m) \/ Release(t, m)
        PROVE  LockInv'
    BY <1>1 DEF Request, Release, Call, Goto, shared
  <1>2. ASSUME NEW t \in Threads, CheckFlag(t) \/ Lock(t)
        PROVE  LockInv'
    BY <1>2 DEF CheckFlag, Lock, Goto, shared
  <1>3. ASSUME NEW t \in Threads, InitMutex(t) \/ SetFlag(t)
        PROVE  LockInv'
    BY <1>3 DEF InitMutex, SetFlag
  <1>4. ASSUME NEW t \in Threads,
               RequestFind(t) \/ SearchFaults(t) \/ ReleaseUnlink(t)
        PROVE  LockInv'
    BY <1>4 DEF RequestFind, SearchFaults, ReleaseUnlink, Goto, shared, locals
  <1>5. ASSUME NEW t \in Threads,
               \/ RequestDone(t) \/ RequestNoNode(t) \/ RequestFails(t)
               \/ ReleaseInvalid(t) \/ ReleaseClose(t)
        PROVE  LockInv'
    <2>1. InCS(t)
      BY <1>5 DEF RequestDone, RequestNoNode, RequestFails, ReleaseInvalid,
                  ReleaseClose
    <2>2. /\ pc' = [pc EXCEPT ![t] = "idle"]
          /\ UNCHANGED lock_initialized
      BY <1>5 DEF RequestDone, RequestNoNode, RequestFails, ReleaseInvalid,
                  ReleaseClose, UnlockReturn, Goto
    <2>. QED
      BY <2>1, <2>2
  <1>6. CASE UNCHANGED vars
    BY <1>6 DEF vars
  <1>. QED
    BY <1>1, <1>2, <1>3, <1>4, <1>5, <1>6 DEF Next, Step

\* No two threads are ever between mutex_lock and mutex_unlock together, when
\* the mutex was initialised before they started.
THEOREM MutexExcludes ==
    ASSUME LockReady
    PROVE  Spec => []MutualExclusion
  <1>1. LockInv => MutualExclusion
    BY DEF LockInv, MutualExclusion
  <1>. QED
    BY <1>1, LockInvInit, LockInvNext, TypedHolds, PTL DEF Spec

-----------------------------------------------------------------------------
(***************************************************************************)
(* The list and the libraries.  Only a thread at "finish" has read the     *)
(* list without having acted on what it read, so what it read still holds. *)
(***************************************************************************)
Finishing(t, o) == pc[t] = "finish" /\ op[t] = o

FoundHolds ==
    \A t \in Threads : Finishing(t, "request") =>
        IF found[t]
        THEN Matches(requested_node, arg[t]) # {}
        ELSE Matches(requested_node, arg[t]) = {} /\ ~HasNull(requested_node)

ClosingIsOpen ==
    \A t \in Threads : Finishing(t, "release") => dl[arg[t]] = 1

Counted == \A m \in Modules : refs[m] = Cardinality(Matches(requested_node, m))

ListedIsOpen ==
    \A m \in Modules : /\ dl[m] \in {0, 1}
                       /\ Matches(requested_node, m) # {} => dl[m] = 1

UnlistedIsClosed ==
    \A m \in Modules :
        /\ Matches(requested_node, m) = {}
        /\ ~HasNull(requested_node)
        /\ \A t \in Threads : Finishing(t, "release") => arg[t] # m
        => dl[m] = 0

ListInv == FoundHolds /\ ClosingIsOpen /\ Counted /\ ListedIsOpen
             /\ UnlistedIsClosed

IInv == Typed /\ LockInv /\ ListInv

LEMMA ListInvInit == Init => ListInv
  <1>. SUFFICES ASSUME Init PROVE ListInv
    OBVIOUS
  <1>1. \A m : Matches(requested_node, m) = {}
    BY DEF Init, Matches
  <1>2. Cardinality({}) = 0
    BY FS_EmptySet
  <1>. QED
    BY <1>1, <1>2 DEF Init, ListInv, FoundHolds, ClosingIsOpen, Counted,
                      ListedIsOpen, UnlistedIsClosed, Finishing

\* A step that leaves list and libraries alone, and every finishing thread
\* what it was, keeps the invariant.
LEMMA ListInvQuiet ==
    ASSUME ListInv,
           UNCHANGED <<requested_node, dl, refs>>,
           \A t \in Threads : /\ pc'[t] = "finish" <=> pc[t] = "finish"
                              /\ pc[t] = "finish" =>
                                   /\ op'[t] = op[t] /\ arg'[t] = arg[t]
                                   /\ found'[t] = found[t]
    PROVE  ListInv'
  <1>1. FoundHolds' /\ ClosingIsOpen'
    BY DEF ListInv, FoundHolds, ClosingIsOpen, Finishing
  <1>2. Counted' /\ ListedIsOpen'
    BY DEF ListInv, Counted, ListedIsOpen
  <1>3. UnlistedIsClosed'
    BY DEF ListInv, UnlistedIsClosed, Finishing
  <1>. QED
    BY <1>1, <1>2, <1>3 DEF ListInv
\* Nobody else is inside the protected code.
LEMMA AloneInside ==
    ASSUME LockInv, NEW t \in Threads, InCS(t)
    PROVE  \A u \in Threads : pc[u] = "finish" => u = t
  BY DEF LockInv, InCS

LEMMA ListInvRequestFind ==
    ASSUME IInv, NEW t \in Threads, RequestFind(t)
    PROVE  ListInv'
  <1>. USE DEF IInv, Typed, Finishing
  <1>1. \A u \in Threads : pc[u] # "finish"
    BY AloneInside DEF RequestFind, InCS
  <1>2. /\ pc' = [pc EXCEPT ![t] = "finish"]
        /\ found' = [found EXCEPT ![t] = Matches(requested_node, arg[t]) # {}]
        /\ op[t] = "request" /\ ~DerefsNull(requested_node, arg[t])
        /\ UNCHANGED <<op, arg, requested_node, dl, refs>>
    BY DEF RequestFind, Goto, shared
  <1>3. FoundHolds'
    <2>1. found'[t] = (Matches(requested_node, arg[t]) # {})
      BY <1>2
    <2>2. ~found'[t] => ~HasNull(requested_node)
      BY <1>2, <2>1, NoMatchNoNull DEF Lists
    <2>. QED
      BY <1>1, <1>2, <2>1, <2>2 DEF FoundHolds
  <1>4. ClosingIsOpen' /\ UnlistedIsClosed'
    BY <1>1, <1>2 DEF ListInv, ClosingIsOpen, UnlistedIsClosed
  <1>5. Counted' /\ ListedIsOpen'
    BY <1>2 DEF ListInv, Counted, ListedIsOpen
  <1>. QED
    BY <1>3, <1>4, <1>5 DEF ListInv

\* After the last step of a call nobody is inside the protected code, so the
\* facts about finishing threads are void.
LEMMA ReturnEmpties ==
    ASSUME Typed, LockInv, NEW t \in Threads, InCS(t), UnlockReturn(t)
    PROVE  /\ \A u \in Threads : pc'[u] # "finish"
           /\ FoundHolds' /\ ClosingIsOpen'
  <1>1. \A u \in Threads : pc'[u] # "finish"
    BY AloneInside DEF Typed, UnlockReturn, Goto
  <1>. QED
    BY <1>1 DEF FoundHolds, ClosingIsOpen, Finishing

LEMMA ListInvRequestDone ==
    ASSUME IInv, NEW t \in Threads, RequestDone(t)
    PROVE  ListInv'
  <1>. DEFINE m0 == arg[t]
  <1>1. /\ Finishing(t, "request") /\ InCS(t) /\ UnlockReturn(t)
        /\ requested_node' = Append(requested_node, m0)
        /\ dl' = IF found[t] THEN dl ELSE [dl EXCEPT ![m0] = @ + 1]
        /\ refs' = [refs EXCEPT ![m0] = @ + 1]
        /\ m0 \in Modules /\ m0 # NULL /\ requested_node \in Lists
    BY ConstantsAssumption DEF IInv, Typed, RequestDone, Finishing, InCS, Lists
  <1>2. \A u \in Threads : Finishing(u, "release") => FALSE
    BY <1>1, AloneInside DEF IInv, Finishing
  <1>3. dl[m0] = IF found[t] THEN 1 ELSE 0
    BY <1>1, <1>2 DEF IInv, ListInv, FoundHolds, ListedIsOpen, UnlistedIsClosed
  <1>4. \A m \in Modules : dl'[m] = IF m = m0 THEN 1 ELSE dl[m]
    BY <1>1, <1>3 DEF IInv, Typed
  <1>5. \A m \in Modules : m # m0 =>
            Matches(requested_node', m) = Matches(requested_node, m)
    BY <1>1, AppendNode
  <1>6. Matches(requested_node', m0) # {}
    BY <1>1, AppendNode
  <1>7. HasNull(requested_node') <=> HasNull(requested_node)
    BY <1>1, AppendNode
  <1>8. Counted'
    <2>. SUFFICES ASSUME NEW m \in Modules
                  PROVE  refs'[m] = Cardinality(Matches(requested_node', m))
      BY DEF Counted
    <2>1. Cardinality(Matches(requested_node', m)) =
            Cardinality(Matches(requested_node, m)) + (IF m0 = m THEN 1 ELSE 0)
      BY <1>1, AppendCount
    <2>2. /\ refs[m] = Cardinality(Matches(requested_node, m))
          /\ refs[m] \in Int
      BY DEF IInv, ListInv, Counted, Typed
    <2>. QED
      BY <1>1, <2>1, <2>2 DEF IInv, Typed
  <1>9. ListedIsOpen'
    BY <1>4, <1>5 DEF IInv, Typed, ListInv, ListedIsOpen
  <1>10. UnlistedIsClosed'
    BY <1>2, <1>4, <1>5, <1>6, <1>7
    DEF IInv, Typed, ListInv, UnlistedIsClosed
  <1>. QED
    BY <1>1, <1>8, <1>9, <1>10, ReturnEmpties DEF IInv, ListInv
LEMMA ListInvRequestFails ==
    ASSUME IInv, NEW t \in Threads, RequestFails(t)
    PROVE  ListInv'
  <1>. DEFINE m0 == arg[t]
  <1>1. /\ Finishing(t, "request") /\ InCS(t) /\ UnlockReturn(t) /\ ~found[t]
        /\ requested_node' = Append(requested_node, NULL)
        /\ dl' = dl \/ dl' = [dl EXCEPT ![m0] = @ + 1]
        /\ refs' = refs
        /\ m0 \in Modules /\ NULL \notin Modules /\ requested_node \in Lists
    BY ConstantsAssumption DEF IInv, Typed, RequestFails, Finishing, InCS, Lists
  <1>2. \A u \in Threads : Finishing(u, "release") => FALSE
    BY <1>1, AloneInside DEF IInv, Finishing
  <1>3. Matches(requested_node, m0) = {} /\ dl[m0] = 0
    BY <1>1, <1>2 DEF IInv, ListInv, FoundHolds, UnlistedIsClosed
  <1>4. \A m \in Modules : /\ dl'[m] \in {0, 1}
                           /\ m # m0 => dl'[m] = dl[m]
    BY <1>1, <1>3 DEF IInv, Typed, ListInv, ListedIsOpen
  <1>5. \A m \in Modules :
            Matches(requested_node', m) = Matches(requested_node, m)
    BY <1>1, AppendNode
  <1>6. HasNull(requested_node')
    BY <1>1, AppendNode
  <1>7. Counted'
    BY <1>1, <1>5 DEF IInv, ListInv, Counted
  <1>8. ListedIsOpen'
    <2>. SUFFICES ASSUME NEW m \in Modules
                  PROVE  /\ dl'[m] \in {0, 1}
                         /\ Matches(requested_node', m) # {} => dl'[m] = 1
      BY DEF ListedIsOpen
    <2>1. Matches(requested_node, m) # {} => m # m0 /\ dl[m] = 1
      BY <1>3 DEF IInv, ListInv, ListedIsOpen
    <2>. QED
      BY <1>4, <1>5, <2>1
  <1>9. UnlistedIsClosed'
    BY <1>6 DEF UnlistedIsClosed
  <1>. QED
    BY <1>1, <1>7, <1>8, <1>9, ReturnEmpties DEF IInv, ListInv

LEMMA ListInvReleaseUnlink ==
    ASSUME IInv, NEW t \in Threads, ReleaseUnlink(t)
    PROVE  ListInv' /\ refs[arg[t]] > 0
  <1>. DEFINE m0 == arg[t]
  <1>1. PICK k \in Matches(requested_node, m0) :
               requested_node' = Unlink(requested_node, k)
    BY DEF ReleaseUnlink, IsFirstMatch
  <1>2. /\ op[t] = "release" /\ pc[t] = "find"
        /\ pc' = [pc EXCEPT ![t] = "finish"]
        /\ refs' = [refs EXCEPT ![m0] = @ - 1]
        /\ UNCHANGED <<op, arg, dl>>
        /\ m0 \in Modules /\ requested_node \in Lists
    BY DEF IInv, Typed, ReleaseUnlink, Goto, Lists
  <1>3. \A u \in Threads : pc[u] # "finish"
    BY <1>2, AloneInside DEF IInv, InCS
  <1>4. \A u \in Threads : pc'[u] = "finish" => u = t
    BY <1>2, <1>3 DEF IInv, Typed
  <1>5. dl[m0] = 1
    BY <1>1, <1>2 DEF IInv, ListInv, ListedIsOpen
  <1>6. /\ requested_node' \in Lists
        /\ \A m \in Modules :
             Cardinality(Matches(requested_node', m)) =
               Cardinality(Matches(requested_node, m)) - (IF m = m0 THEN 1 ELSE 0)
        /\ HasNull(requested_node') <=> HasNull(requested_node)
    BY <1>1, <1>2, UnlinkNode
  <1>7. /\ \A m \in Modules : /\ Cardinality(Matches(requested_node, m)) \in Nat
                              /\ Cardinality(Matches(requested_node, m)) = 0
                                    <=> Matches(requested_node, m) = {}
        /\ \A m \in Modules : Cardinality(Matches(requested_node', m)) = 0
                                    <=> Matches(requested_node', m) = {}
    BY <1>2, <1>6, MatchesFinite
  <1>8. Counted'
    BY <1>2, <1>6, <1>7 DEF IInv, Typed, ListInv, Counted
  <1>9. \A m \in Modules : m # m0 =>
            (Matches(requested_node', m) = {} <=> Matches(requested_node, m) = {})
    BY <1>6, <1>7
  <1>10. ListedIsOpen'
    BY <1>2, <1>5, <1>9 DEF IInv, ListInv, ListedIsOpen
  <1>11. UnlistedIsClosed'
    BY <1>2, <1>3, <1>6, <1>9
    DEF IInv, Typed, ListInv, UnlistedIsClosed, Finishing
  <1>12. FoundHolds' /\ ClosingIsOpen'
    BY <1>2, <1>4, <1>5 DEF FoundHolds, ClosingIsOpen, Finishing
  <1>13. refs[m0] > 0
    BY <1>1, <1>2, <1>7 DEF IInv, ListInv, Counted
  <1>. QED
    BY <1>8, <1>10, <1>11, <1>12, <1>13 DEF ListInv

LEMMA ListInvReleaseClose ==
    ASSUME IInv, NEW t \in Threads, ReleaseClose(t)
    PROVE  ListInv'
  <1>. DEFINE m0 == arg[t]
  <1>1. /\ Finishing(t, "release") /\ InCS(t) /\ UnlockReturn(t)
        /\ dl' = IF Matches(requested_node, m0) = {}
                 THEN [dl EXCEPT ![m0] = @ - 1] ELSE dl
        /\ UNCHANGED <<requested_node, refs>>
        /\ m0 \in Modules
    BY DEF IInv, Typed, ReleaseClose, Finishing, InCS
  <1>2. \A u \in Threads : Finishing(u, "release") => u = t
    BY <1>1, AloneInside DEF IInv, Finishing
  <1>3. dl[m0] = 1
    BY <1>1 DEF IInv, ListInv, ClosingIsOpen
  <1>4. \A m \in Modules :
            dl'[m] = IF m = m0 /\ Matches(requested_node, m) = {}
                     THEN 0 ELSE dl[m]
    BY <1>1, <1>3 DEF IInv, Typed
  <1>5. ListedIsOpen'
    BY <1>1, <1>4 DEF IInv, ListInv, ListedIsOpen
  <1>6. UnlistedIsClosed'
    <2>. SUFFICES ASSUME NEW m \in Modules, m # m0,
                         Matches(requested_node, m) = {},
                         ~HasNull(requested_node)
                  PROVE  dl'[m] = 0
      BY <1>1, <1>4 DEF UnlistedIsClosed
    <2>1. \A u \in Threads : Finishing(u, "release") => arg[u] # m
      BY <1>2
    <2>. QED
      BY <1>4, <2>1 DEF IInv, ListInv, UnlistedIsClosed
  <1>7. Counted'
    BY <1>1 DEF IInv, ListInv, Counted
  <1>. QED
    BY <1>1, <1>5, <1>6, <1>7, ReturnEmpties DEF IInv, ListInv

LEMMA ListInvNoChange ==
    ASSUME IInv, NEW t \in Threads, RequestNoNode(t) \/ ReleaseInvalid(t)
    PROVE  ListInv'
  <1>1. /\ InCS(t) /\ UnlockReturn(t) /\ ~Finishing(t, "release")
        /\ UNCHANGED <<requested_node, dl, refs>>
    BY DEF RequestNoNode, ReleaseInvalid, InCS, Finishing
  <1>2. \A u \in Threads : ~Finishing(u, "release")
    BY <1>1, AloneInside DEF IInv, Finishing
  <1>3. Counted' /\ ListedIsOpen' /\ UnlistedIsClosed'
    BY <1>1, <1>2 DEF IInv, ListInv, Counted, ListedIsOpen, UnlistedIsClosed
  <1>. QED
    BY <1>1, <1>3, ReturnEmpties DEF IInv, ListInv

LEMMA ListInvNext == IInv /\ [Next]_vars => ListInv'
  <1>. SUFFICES ASSUME IInv, [Next]_vars PROVE ListInv'
    OBVIOUS
  <1>1. ASSUME NEW t \in Threads, NEW m \in Modules,
               Request(t, m) \/ Release(t, m)
        PROVE  ListInv'
    BY <1>1, ListInvQuiet DEF IInv, Typed, Request, Release, Call, Goto, shared
  <1>2. ASSUME NEW t \in Threads,
               CheckFlag(t) \/ InitMutex(t) \/ SetFlag(t) \/ Lock(t)
        PROVE  ListInv'
    BY <1>2, ListInvQuiet
    DEF IInv, Typed, CheckFlag, InitMutex, SetFlag, Lock, Goto, shared
  <1>3. ASSUME NEW t \in Threads, SearchFaults(t)
        PROVE  ListInv'
    BY <1>3, ListInvQuiet DEF IInv, SearchFaults, locals
  <1>4. CASE UNCHANGED vars
    BY <1>4, ListInvQuiet DEF IInv, vars
  <1>. QED
    BY <1>1, <1>2, <1>3, <1>4, ListInvRequestFind, ListInvRequestDone,
       ListInvRequestFails, ListInvReleaseUnlink, ListInvReleaseClose,
       ListInvNoChange
    DEF Next, Step

\* The inductive invariant, whatever step of a request may fail.
THEOREM IInvHolds ==
    ASSUME LockReady
    PROVE  Spec => []IInv
  <1>1. Init => IInv
    BY TypedInit, LockInvInit, ListInvInit DEF IInv
  <1>2. IInv /\ [Next]_vars => IInv'
    BY TypedNext, LockInvNext, ListInvNext DEF IInv
  <1>. QED
    BY <1>1, <1>2, PTL DEF Spec

\* The list holds modules and zeroed nodes, every thread is at one of the
\* steps of the two functions, no library is closed more often than it was
\* opened and no more releases are accepted than requests succeeded.
THEOREM TypeCorrect ==
    ASSUME LockReady
    PROVE  Spec => []TypeOK
  <1>1. IInv => TypeOK
    <2>. SUFFICES ASSUME IInv PROVE TypeOK
      OBVIOUS
    <2>1. \A m \in Modules : dl[m] \in Nat
      BY DEF IInv, ListInv, ListedIsOpen
    <2>2. \A m \in Modules : refs[m] \in Nat
      BY MatchesFinite DEF IInv, Typed, ListInv, Counted, Lists
    <2>3. dl \in [Modules -> Nat] /\ refs \in [Modules -> Nat]
      BY <2>1, <2>2 DEF IInv, Typed
    <2>. QED
      BY <2>3 DEF IInv, Typed, TypeOK
  <1>. QED
    BY <1>1, IInvHolds, PTL

\* A library is opened for the first request of a module only, even when a
\* request has failed before.
THEOREM LibraryOpenedOnce ==
    ASSUME LockReady
    PROVE  Spec => []OpenedOnce
  <1>1. IInv => OpenedOnce
    BY DEF IInv, ListInv, ListedIsOpen, OpenedOnce
  <1>. QED
    BY <1>1, IInvHolds, PTL

\* The operations of a module stay callable until the last holder releases
\* them, whatever requests fail and however often others release.
THEOREM HeldStaysOpen ==
    ASSUME LockReady
    PROVE  Spec => []HeldIsOpen
  <1>1. IInv => HeldIsOpen
    <2>. SUFFICES ASSUME IInv, NEW m \in Modules, refs[m] > 0
                  PROVE  dl[m] > 0
      BY DEF HeldIsOpen
    <2>1. Cardinality(Matches(requested_node, m)) > 0
      BY DEF IInv, ListInv, Counted
    <2>2. Matches(requested_node, m) # {}
      BY <2>1, FS_EmptySet
    <2>. QED
      BY <2>2 DEF IInv, ListInv, ListedIsOpen
  <1>. QED
    BY <1>1, IInvHolds, PTL
-----------------------------------------------------------------------------
(***************************************************************************)
(* When libraries open, no node is ever left zeroed                        *)
(***************************************************************************)
NoNull == ~HasNull(requested_node)

LEMMA NoNullNext ==
    ASSUME CleanFailures, IInv, NoNull, [Next]_vars
    PROVE  NoNull'
  <1>1. ASSUME NEW t \in Threads, RequestDone(t)
        PROVE  NoNull'
    <2>1. /\ arg[t] \in Modules /\ arg[t] # NULL /\ requested_node \in Lists
          /\ requested_node' = Append(requested_node, arg[t])
      BY <1>1, ConstantsAssumption DEF RequestDone, IInv, Typed, Lists
    <2>. QED
      BY <2>1, AppendNode DEF NoNull
  <1>2. ASSUME NEW t \in Threads, ReleaseUnlink(t)
        PROVE  NoNull'
    <2>1. PICK k \in Matches(requested_node, arg[t]) :
                 requested_node' = Unlink(requested_node, k)
      BY <1>2 DEF ReleaseUnlink, IsFirstMatch
    <2>. QED
      BY <2>1, UnlinkNode DEF IInv, Typed, Lists, NoNull
  <1>3. ASSUME NEW t \in Threads, RequestFails(t)
        PROVE  FALSE
    BY <1>3 DEF RequestFails, CleanFailures
  <1>4. CASE UNCHANGED requested_node
    BY <1>4 DEF NoNull
  <1>5. \/ \E t \in Threads :
             RequestDone(t) \/ ReleaseUnlink(t) \/ RequestFails(t)
        \/ UNCHANGED requested_node
    BY DEF Next, vars, Step, Request, Release, Call, CheckFlag, InitMutex,
           SetFlag, Lock, RequestFind, RequestNoNode, ReleaseInvalid,
           ReleaseClose, SearchFaults, shared
  <1>. QED
    BY <1>1, <1>2, <1>3, <1>4, <1>5

LEMMA NeverNull ==
    ASSUME LockReady, CleanFailures
    PROVE  Spec => []NoNull
  <1>1. Init => NoNull
    BY DEF Init, HasNull, NoNull
  <1>2. IInv /\ NoNull /\ [Next]_vars
          => NoNull'
    BY NoNullNext
  <1>. QED
    BY <1>1, <1>2, IInvHolds, PTL DEF Spec

\* Between calls the callers, the list and the open libraries agree: a call
\* that ended has leaked neither a node nor a library.
THEOREM CallsLeakNothing ==
    ASSUME LockReady, CleanFailures
    PROVE  Spec => []QuiescentAgreement
  <1>1. IInv /\ NoNull => QuiescentAgreement
    BY DEF IInv, ListInv, Counted, ListedIsOpen, UnlistedIsClosed, Finishing,
           QuiescentAgreement, InCS, NoNull
  <1>. QED
    BY <1>1, IInvHolds, NeverNull, PTL

-----------------------------------------------------------------------------
(***************************************************************************)
(* Refinement of the abstract registry                                     *)
(***************************************************************************)
OpenSet == {m \in Modules : dl[m] > 0}

LEMMA RegistryStep ==
    ASSUME CleanFailures, IInv, NoNull, [Next]_vars
    PROVE  [Registry!Next]_(Registry!vars)
  <1>0. ASSUME NEW t \in Threads,
               \/ Registry!Request(arg[t]) \/ Registry!Release(arg[t])
               \/ Registry!Close(arg[t])
        PROVE  Registry!Next
    <2>1. arg[t] \in Modules
      BY DEF IInv, Typed
    <2>. QED
      BY <1>0, <2>1, Zenon
      DEF Registry!Next, Registry!Request, Registry!Release, Registry!Close
  <1>1. ASSUME NEW t \in Threads, RequestDone(t)
        PROVE  Registry!Request(arg[t])
    <2>1. /\ Finishing(t, "request") /\ InCS(t) /\ arg[t] \in Modules
          /\ dl' = IF found[t] THEN dl ELSE [dl EXCEPT ![arg[t]] = @ + 1]
          /\ refs' = [refs EXCEPT ![arg[t]] = @ + 1]
      BY <1>1 DEF RequestDone, Finishing, InCS, IInv, Typed
    <2>2. dl[arg[t]] = IF found[t] THEN 1 ELSE 0
      <3>1. \A u \in Threads : Finishing(u, "release") => FALSE
        BY <2>1, AloneInside DEF IInv, Finishing
      <3>. QED
        BY <2>1, <3>1
        DEF IInv, ListInv, FoundHolds, ListedIsOpen, UnlistedIsClosed, NoNull
    <2>3. {m \in Modules : dl'[m] > 0} = OpenSet \cup {arg[t]}
      BY <2>1, <2>2 DEF OpenSet, IInv, Typed
    <2>. QED
      BY <2>1, <2>3 DEF Registry!Request, OpenSet
  <1>2. ASSUME NEW t \in Threads, ReleaseUnlink(t)
        PROVE  Registry!Release(arg[t])
    BY <1>2, ListInvReleaseUnlink DEF Registry!Release, ReleaseUnlink
  <1>3. ASSUME NEW t \in Threads, ReleaseClose(t)
        PROVE  Registry!Close(arg[t]) \/ UNCHANGED Registry!vars
    <2>1. /\ Finishing(t, "release") /\ arg[t] \in Modules /\ refs' = refs
          /\ dl' = IF Matches(requested_node, arg[t]) = {}
                   THEN [dl EXCEPT ![arg[t]] = @ - 1] ELSE dl
      BY <1>3 DEF ReleaseClose, Finishing, IInv, Typed
    <2>2. dl[arg[t]] = 1
      BY <2>1 DEF IInv, ListInv, ClosingIsOpen
    <2>3. CASE Matches(requested_node, arg[t]) = {}
      <3>1. refs[arg[t]] = 0
        BY <2>1, <2>3, FS_EmptySet DEF IInv, ListInv, Counted
      <3>2. {m \in Modules : dl'[m] > 0} = OpenSet \ {arg[t]}
        BY <2>1, <2>2, <2>3 DEF OpenSet, IInv, Typed
      <3>. QED
        BY <2>1, <2>2, <3>1, <3>2 DEF Registry!Close, OpenSet
    <2>4. CASE Matches(requested_node, arg[t]) # {}
      BY <2>1, <2>4 DEF Registry!vars
    <2>. QED
      BY <2>3, <2>4
  <1>4. CASE UNCHANGED <<dl, refs>>
    BY <1>4 DEF Registry!vars
  <1>5. ASSUME NEW t \in Threads, RequestFails(t)
        PROVE  FALSE
    BY <1>5 DEF RequestFails, CleanFailures
  <1>6. \/ \E t \in Threads : \/ RequestDone(t) \/ ReleaseUnlink(t)
                              \/ RequestFails(t) \/ ReleaseClose(t)
        \/ UNCHANGED <<dl, refs>>
    BY DEF Next, vars, Step, Request, Release, Call, CheckFlag, InitMutex,
           SetFlag, Lock, RequestFind, RequestNoNode, ReleaseInvalid,
           SearchFaults, shared
  <1>. QED
    BY <1>0, <1>1, <1>2, <1>3, <1>4, <1>5, <1>6

\* The manager's lists, mutex and library references implement the abstract
\* registry: a library is closed only when nobody holds its module.
THEOREM ImplementsRegistry ==
    ASSUME LockReady, CleanFailures
    PROVE  Spec => RegistrySpec
  <1>1. Init => Registry!Init
    BY DEF Init, Registry!Init
  <1>2. IInv /\ NoNull /\ [Next]_vars
          => [Registry!Next]_(Registry!vars)
    BY RegistryStep
  <1>. QED
    BY <1>1, <1>2, IInvHolds, NeverNull, PTL DEF Spec, RegistrySpec, Registry!Spec

\* The manager's safety as a whole: exclusion, one reference per library, open
\* libraries for what is held, and agreement between calls.
THEOREM ManagerIsSafe ==
    ASSUME LockReady, CleanFailures
    PROVE  Spec => []ManagerSafe
  BY TypeCorrect, MutexExcludes, LibraryOpenedOnce, HeldStaysOpen,
     CallsLeakNothing, PTL DEF ManagerSafe
=============================================================================
