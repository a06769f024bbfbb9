---------------------------- MODULE Base_proofs ----------------------------
(***************************************************************************)
(* Proofs about the base library: the main loop on Linux (Loop), for any   *)
(* number of sources, the generic list (ArtikList), for any number of      *)
(* nodes and handles, time (Time), for any length of the day, clock and    *)
(* width of a delay, and the main loop on TizenRT (TinyLoop), for any      *)
(* number of sources and ids and any width of a vector's length.           *)
(***************************************************************************)
EXTENDS Loop, ArtikList, TinyLoop, Time, FiniteSetTheorems, SequenceTheorems, WellFoundedInduction, TLAPS

-----------------------------------------------------------------------------
(* Loop.  NothingLeaks is inductive with the types; OneShot is what has to *)
(* be known of the past of a timeout to show that it is not dispatched     *)
(* again.                                                                  *)

\* An id not handed out yet has no history, and a timeout waiting to be
\* dispatched has not been dispatched before.
OneShot ==
    \A i \in Ids :
        /\ kind[i] = "none" => i \notin attached /\ fired[i] = 0
        /\ kind[i] = "timeout" => /\ fired[i] <= 1
                                  /\ i \in attached /\ i # current => fired[i] = 0

IInv == TypeOK /\ NothingLeaks /\ OneShot

-----------------------------------------------------------------------------
\* An iteration dispatches a sequence of ids (Iterate, g_main_context_iteration).
LEMMA BatchIsSeq ==
    ASSUME TypeOK,
           NEW s \in [1..Cardinality(Best) -> Best]
    PROVE  s \in Seq(Ids)
<1>1. Best \subseteq Ids
  BY DEF TypeOK, Best, Ids
<1>2. IsFiniteSet(Ids)
  BY MaxIdAssumption, FS_Interval DEF Ids
<1>3. Cardinality(Best) \in Nat
  BY <1>1, <1>2, FS_Subset, FS_CardinalityType
<1>4. s \in [1..Cardinality(Best) -> Ids]
  BY <1>1
<1> QED
  BY <1>3, <1>4

\* The invariant holds before anything was added.
LEMMA InitInv == Init => IInv
<1> SUFFICES ASSUME Init PROVE IInv
  OBVIOUS
<1> USE DEF Init
<1>1. TypeOK
  <2>1. batch \in Seq(Ids)
    OBVIOUS
  <2>2. fired \in [Ids -> 0..2]
    OBVIOUS
  <2> QED
    BY <2>1, <2>2, Zenon DEF TypeOK
<1>2. NothingLeaks
  BY DEF NothingLeaks, Ids
<1>3. OneShot
  BY DEF OneShot
<1> QED
  BY <1>1, <1>2, <1>3 DEF IInv

\* Adding a source of any kind (the five os_add functions).
LEMMA AddInv ==
    ASSUME IInv, NEW k \in Kinds, Add(k)
    PROVE  IInv'
<1> USE DEF Ids
<1>1. PICK i \in NextIds :
         /\ kind' = [kind EXCEPT ![i] = k]
         /\ attached' = attached \cup {i}
         /\ closure' = [closure EXCEPT ![i] = "live"]
         /\ ready' = IF k = "idle" THEN ready \cup {i} ELSE ready
  BY DEF Add
<1>2. i \in Ids /\ kind[i] = "none"
  BY <1>1 DEF NextIds
<1>3. UNCHANGED <<batch, current, fired, mainloop, is_running, in_run, quitting>>
  BY DEF Add, runner
<1>4. TypeOK'
  BY <1>1, <1>2, <1>3 DEF IInv, TypeOK
<1>5. NothingLeaks'
  BY <1>1, <1>2, <1>3 DEF IInv, TypeOK, NothingLeaks
<1>6. OneShot'
  BY <1>1, <1>2, <1>3 DEF IInv, TypeOK, OneShot, Kinds
<1> QED
  BY <1>4, <1>5, <1>6 DEF IInv

\* Removing a source, the one being dispatched included (the os_remove functions).
LEMMA RemoveInv ==
    ASSUME IInv, NEW i \in Ids, Remove(i)
    PROVE  IInv'
<1> USE DEF Remove, g_source_remove, runner
<1>1. TypeOK'
  BY DEF IInv, TypeOK
<1>2. NothingLeaks'
  BY DEF IInv, TypeOK, NothingLeaks
<1>3. OneShot'
  BY DEF IInv, TypeOK, OneShot
<1> QED
  BY <1>1, <1>2, <1>3 DEF IInv

\* run, quit and the return of run touch the loop's flags only (os_loop_run,
\* os_loop_quit).
LEMMA RunnerInv ==
    ASSUME IInv, os_loop_run \/ os_loop_quit \/ RunReturns
    PROVE  IInv'
<1>1. UNCHANGED <<kind, attached, closure, ready, batch, current, fired>>
  BY DEF os_loop_run, os_loop_quit, RunReturns, sources
<1>2. /\ mainloop' \in BOOLEAN
      /\ is_running' \in BOOLEAN
      /\ in_run' \in BOOLEAN
      /\ quitting' \in BOOLEAN
  BY DEF IInv, TypeOK, os_loop_run, os_loop_quit, RunReturns
<1>3. TypeOK'
  BY <1>1, <1>2 DEF IInv, TypeOK
<1>4. NothingLeaks'
  BY <1>1 DEF IInv, NothingLeaks
<1>5. OneShot'
  BY <1>1 DEF IInv, OneShot
<1> QED
  BY <1>3, <1>4, <1>5 DEF IInv

\* An event, the choice of a batch and a source passed over change nothing the
\* closures depend on (g_main_context_iteration).
LEMMA WaitingInv ==
    ASSUME IInv, (\E i \in Ids : Event(i)) \/ Iterate \/ SkipDestroyed
    PROVE  IInv'
<1>1. UNCHANGED <<kind, attached, closure, current, fired, mainloop, is_running,
                  in_run, quitting>>
  BY DEF Event, Iterate, SkipDestroyed, sources, runner
<1>2. batch' \in Seq(Ids)
  <2>1. CASE \E i \in Ids : Event(i)
    BY <2>1 DEF Event, IInv, TypeOK
  <2>2. CASE Iterate
    <3>1. PICK s \in [1..Cardinality(Best) -> Best] : batch' = s
      BY <2>2 DEF Iterate
    <3> QED
      BY <3>1, BatchIsSeq DEF IInv
  <2>3. CASE SkipDestroyed
    BY <2>3 DEF SkipDestroyed, IInv, TypeOK
  <2> QED
    BY <2>1, <2>2, <2>3
<1>3. ready' \subseteq Ids /\ ready' \subseteq attached \cup {current}
  BY DEF Event, Iterate, SkipDestroyed, IInv, TypeOK
<1>4. TypeOK'
  BY <1>1, <1>2, <1>3 DEF IInv, TypeOK
<1>5. NothingLeaks'
  BY <1>1 DEF IInv, NothingLeaks
<1>6. OneShot'
  BY <1>1 DEF IInv, OneShot
<1> QED
  BY <1>4, <1>5, <1>6 DEF IInv

\* A callback is called: its source is attached, so its closure lives
\* (g_main_dispatch and the five callback wrappers).
LEMMA DispatchInv ==
    ASSUME IInv, Dispatch
    PROVE  IInv'
<1> DEFINE i == Head(batch)
<1>1. /\ i \in Ids
      /\ i \in attached
      /\ Tail(batch) \in Seq(Ids)
      /\ current = 0
      /\ current' = i
      /\ batch' = Tail(batch)
      /\ fired' = [fired EXCEPT ![i] = IF @ < 2 THEN @ + 1 ELSE 2]
      /\ UNCHANGED <<kind, attached, closure, ready, mainloop, is_running, in_run,
                     quitting>>
  BY DEF Dispatch, IInv, TypeOK, sources, runner
<1> HIDE DEF i
<1>2. fired \in [Ids -> 0..2]
  BY DEF IInv, TypeOK
<1>3. fired' \in [Ids -> 0..2]
  BY <1>1, <1>2
<1>4. TypeOK'
  <2>1. ready' \subseteq Ids /\ ready' \subseteq attached' \cup {current'}
    BY <1>1 DEF IInv, TypeOK, Ids
  <2> QED
    BY <1>1, <1>3, <2>1 DEF IInv, TypeOK
<1>5. NothingLeaks'
  BY <1>1 DEF IInv, TypeOK, NothingLeaks, Ids
<1>6. OneShot'
  <2> SUFFICES ASSUME NEW j \in Ids
               PROVE  /\ kind[j] = "none" => j \notin attached /\ fired'[j] = 0
                      /\ kind[j] = "timeout" =>
                           /\ fired'[j] <= 1
                           /\ j \in attached /\ j # i => fired'[j] = 0
    BY <1>1 DEF OneShot
  <2>1. CASE j = i
    BY <1>1, <1>2, <2>1 DEF IInv, OneShot, Ids
  <2>2. CASE j # i
    BY <1>1, <1>2, <2>2 DEF IInv, OneShot, Ids
  <2> QED
    BY <2>1, <2>2
<1> QED
  BY <1>4, <1>5, <1>6 DEF IInv

\* A callback returns: the source is kept, or goes with its closure.
LEMMA ReturnInv ==
    ASSUME IInv, NEW ret \in {-1, 0, 1}, Return(ret)
    PROVE  IInv'
<1> DEFINE kept == current \in attached /\ Keeps(kind[current], ret)
<1>1. /\ current \in Ids
      /\ attached' = IF kept THEN attached ELSE attached \ {current}
      /\ closure' = IF kept THEN closure
                    ELSE [closure EXCEPT ![current] = "freed"]
      /\ ready' = IF kept /\ kind[current] = "idle" THEN ready
                  ELSE ready \ {current}
      /\ current' = 0
      /\ UNCHANGED <<kind, batch, fired, mainloop, is_running, in_run, quitting>>
  BY DEF Return, IInv, TypeOK, runner
<1>2. kept => current \in attached /\ kind[current] # "timeout"
  BY DEF Keeps
<1> HIDE DEF kept
<1>3. TypeOK'
  BY <1>1, <1>2 DEF IInv, TypeOK
<1>4. NothingLeaks'
  BY <1>1, <1>2 DEF IInv, TypeOK, NothingLeaks, Ids
<1>5. OneShot'
  BY <1>1, <1>2 DEF IInv, TypeOK, OneShot
<1> QED
  BY <1>3, <1>4, <1>5 DEF IInv

\* Every step keeps the invariant.
LEMMA NextInv == IInv /\ [Next]_vars => IInv'
<1> SUFFICES ASSUME IInv, [Next]_vars
             PROVE  IInv'
  OBVIOUS
<1>1. ASSUME NEW k \in Kinds, Add(k)
      PROVE  IInv'
  BY <1>1, AddInv
<1>2. CASE \/ os_add_timeout_callback \/ os_add_periodic_callback
           \/ os_add_fd_watch \/ os_add_signal_watch \/ os_add_idle_callback
  BY <1>1, <1>2 DEF os_add_timeout_callback, os_add_periodic_callback,
     os_add_fd_watch, os_add_signal_watch, os_add_idle_callback, Kinds
<1>3. CASE \E i \in Ids : Remove(i)
  BY <1>3, RemoveInv
<1>4. CASE (\E i \in Ids : Event(i)) \/ Iterate \/ SkipDestroyed
  BY <1>4, WaitingInv
<1>5. CASE os_loop_run \/ os_loop_quit \/ RunReturns
  BY <1>5, RunnerInv
<1>6. CASE Dispatch
  BY <1>6, DispatchInv
<1>7. CASE \E ret \in {-1, 0, 1} : Return(ret)
  BY <1>7, ReturnInv
<1>8. CASE UNCHANGED vars
  BY <1>8 DEF IInv, TypeOK, NothingLeaks, OneShot, vars
<1> QED
  BY <1>2, <1>3, <1>4, <1>5, <1>6, <1>7, <1>8 DEF Next

\* The invariant holds in every reachable state of the loop.
THEOREM LoopInvariant == Spec => []IInv
  BY InitInv, NextInv, PTL DEF Spec

\* Every variable of the loop keeps its type, for any bound on the sources.
THEOREM LoopTypeCorrect == Spec => []TypeOK
<1>1. IInv => TypeOK
  BY DEF IInv
<1> QED
  BY <1>1, LoopInvariant, PTL

\* A closure lives exactly while its source is attached or being dispatched
\* (the destroy callbacks of linux_loop.c).
THEOREM ClosuresFreedWithSource == Spec => []NothingLeaks
<1>1. IInv => NothingLeaks
  BY DEF IInv
<1> QED
  BY <1>1, LoopInvariant, PTL

\* No callback wrapper of linux_loop.c runs on a freed closure.
THEOREM ClosuresLiveWhileUsed == Spec => []NoUseAfterFree
<1>1. IInv => NoUseAfterFree
  BY DEF IInv, TypeOK, NothingLeaks, NoUseAfterFree
<1> QED
  BY <1>1, LoopInvariant, PTL

\* A timeout is dispatched at most once (_timeout_callback).
THEOREM TimeoutsAreOneShot == Spec => []TimeoutFiresOnce
<1>1. IInv => TimeoutFiresOnce
  BY DEF IInv, OneShot, TimeoutFiresOnce
<1> QED
  BY <1>1, LoopInvariant, PTL

\* A callback whose result is not 1 is taken off the loop (Return, Keeps), and
\* a source that has gone is not dispatched again, not even by the iteration
\* that had collected it (SkipDestroyed, Dispatch), since ids are not reused.
THEOREM CancelledStaysCancelled == Spec => CancelledStays
<1> DEFINE Cancels == \A ret \in {-1, 0} : Return(ret) => current \notin attached'
           Gone(i) == kind[i] # "none" /\ i \notin attached
           StaysGone(i) == i \notin attached' /\ (current' = i => current = i)
<1>1. Cancels
  BY DEF Return, Keeps
<1>2. ASSUME Next, NEW i \in Ids, Gone(i)
      PROVE  StaysGone(i)
  <2>1. ASSUME NEW k \in Kinds, Add(k)
        PROVE  StaysGone(i)
    BY <1>2, <2>1 DEF Add, NextIds
  <2>2. CASE \/ os_add_timeout_callback \/ os_add_periodic_callback
             \/ os_add_fd_watch \/ os_add_signal_watch \/ os_add_idle_callback
    BY <2>1, <2>2 DEF os_add_timeout_callback, os_add_periodic_callback,
                      os_add_fd_watch, os_add_signal_watch, os_add_idle_callback,
                      Kinds
  <2>3. CASE \E j \in Ids : Remove(j) \/ Event(j)
    BY <1>2, <2>3 DEF Remove, g_source_remove, Event, sources
  <2>4. CASE os_loop_run \/ os_loop_quit \/ Iterate \/ RunReturns \/ SkipDestroyed
    BY <1>2, <2>4 DEF os_loop_run, os_loop_quit, Iterate, RunReturns,
                      SkipDestroyed, sources
  <2>5. CASE Dispatch
    BY <1>2, <2>5 DEF Dispatch, sources
  <2>6. CASE \E ret \in {-1, 0, 1} : Return(ret)
    BY <1>2, <2>6 DEF Return, Ids
  <2> QED
    BY <1>2, <2>2, <2>3, <2>4, <2>5, <2>6 DEF Next
<1>3. [Next]_vars =>
        [Cancels /\ \A i \in Ids : Gone(i) => StaysGone(i)]_vars
  BY <1>1, <1>2
<1> QED
  BY <1>3, PTL DEF Spec, CancelledStays

\* The loop's safety as a whole: types, the life of every closure, and
\* timeouts that fire once.
THEOREM LoopIsSafe == Spec => []LoopSafe
  BY LoopTypeCorrect, ClosuresLiveWhileUsed, ClosuresFreedWithSource,
     TimeoutsAreOneShot, PTL DEF LoopSafe

-----------------------------------------------------------------------------
(* ArtikList.  The pointers spell a sequence of distinct nodes: s names    *)
(* the node after every number of links.                                   *)
Spells(s) ==
  /\ s \in Seq(Nodes)
  /\ \A i, j \in 1..Len(s) : s[i] = s[j] => i = j
  /\ list = IF Len(s) = 0 THEN NULL ELSE s[1]
  /\ \A i \in 1..Len(s) : next[s[i]] = IF i < Len(s) THEN s[i + 1] ELSE NULL

\* The nodes of the list and the copy's node are the ones allocated.
Accounts(s) ==
  /\ \A i \in 1..Len(s) : s[i] \in alive /\ s[i] # dest
  /\ \A n \in alive : n = dest \/ \E i \in 1..Len(s) : s[i] = n
  /\ dest # NULL => dest \in alive

AlInv == AlTypeOK /\ \E s : Spells(s) /\ Accounts(s)

\* A set of numbers that is not empty has a least one.
LEMMA LeastOf ==
  ASSUME NEW S, S \subseteq Nat, S # {}
  PROVE  \E i \in S : \A j \in S : i <= j
<1>1. PICK i \in S : \A j \in S : ~(<<j, i>> \in OpToRel(<, Nat))
  BY WFMin, NatLessThanWellFounded, Zenon
<1>2. ASSUME NEW j \in S PROVE i <= j
  <2>1. <<j, i>> \in Nat \X Nat
    OBVIOUS
  <2>2. ~(j < i)
    BY <1>1, <2>1 DEF OpToRel
  <2> QED BY <2>2
<1> QED BY <1>2

\* Following n links (elem = elem->next) leads to the node the sequence has
\* there, and to the null pointer behind its end.
LEMMA AtIsNth ==
  ASSUME AlTypeOK, NEW s, Spells(s), NEW n \in Nat
  PROVE  At(list, n) = IF n < Len(s) THEN s[n + 1] ELSE NULL
<1> DEFINE Nth(k) == IF k < Len(s) THEN s[k + 1] ELSE NULL
           IsAt(g) == g = [k \in 0..n |-> IF k = 0 THEN list
                                          ELSE IF g[k - 1] = NULL THEN NULL ELSE next[g[k - 1]]]
<1>1. At(list, n) = (CHOOSE g : IsAt(g))[n]
  BY Zenon DEF At
<1>2. \A k \in 0..n : k # 0 => k - 1 \in 0..n
  OBVIOUS
<1>3. Nth(0) = list
  BY DEF Spells
<1>4. ASSUME NEW k \in 0..n, k # 0
      PROVE  Nth(k) = IF Nth(k - 1) = NULL THEN NULL ELSE next[Nth(k - 1)]
  <2>1. CASE k - 1 < Len(s)
    <3>1. k \in 1..Len(s) /\ Nth(k - 1) = s[k]
      BY <1>4, <2>1 DEF Spells
    <3>2. s[k] \in Nodes /\ next[s[k]] = IF k < Len(s) THEN s[k + 1] ELSE NULL
      BY <3>1 DEF Spells
    <3>3. s[k] # NULL
      BY <3>2, ListAssumption
    <3> QED BY <3>1, <3>2, <3>3
  <2>2. CASE ~(k - 1 < Len(s))
    <3>1. ~(k < Len(s))
      BY <2>2 DEF Spells
    <3> QED BY <2>2, <3>1
  <2> QED BY <2>1, <2>2
<1>5. IsAt([k \in 0..n |-> Nth(k)])
  BY <1>2, <1>3, <1>4
<1>6. ASSUME NEW g, IsAt(g) PROVE g[n] = Nth(n)
  <2> DEFINE Wrong == {k \in 0..n : g[k] # Nth(k)}
  <2>1. \A k \in 0..n : g[k] = IF k = 0 THEN list
                               ELSE IF g[k - 1] = NULL THEN NULL ELSE next[g[k - 1]]
    BY <1>6
  <2> HIDE DEF IsAt, Nth
  <2>2. Wrong = {}
    <3> SUFFICES ASSUME Wrong # {} PROVE FALSE
      OBVIOUS
    <3>1. PICK k \in Wrong : \A j \in Wrong : k <= j
      <4>1. Wrong \subseteq Nat
        OBVIOUS
      <4> HIDE DEF Wrong
      <4> QED BY <4>1, LeastOf
    <3>2. k # 0
      BY <1>3, <2>1, <3>1
    <3>3. k - 1 \in 0..n /\ k - 1 \notin Wrong
      BY <3>1, <3>2
    <3>4. g[k - 1] = Nth(k - 1)
      BY <3>3
    <3> QED BY <1>4, <2>1, <3>1, <3>2, <3>4
  <2> QED BY <2>2
<1> HIDE DEF IsAt, Nth
<1>7. IsAt(CHOOSE g : IsAt(g))
  BY <1>5, Zenon
<1>8. At(list, n) = Nth(n)
  BY <1>1, <1>6, <1>7
<1> QED BY <1>8 DEF Nth

\* The list has no more elements than there are nodes.
LEMMA LengthFits ==
  ASSUME NEW s, Spells(s)
  PROVE  Len(s) \in Lengths /\ Len(s) \in Nat /\ Lengths \subseteq Nat
<1>1. Len(s) \in Nat /\ s \in [1..Len(s) -> Nodes]
  BY DEF Spells
<1>2. s \in Injection(1..Len(s), Nodes)
  BY <1>1 DEF Spells, Injection, IsInjective
<1>3. Cardinality(1..Len(s)) = Len(s)
  BY <1>1, FS_Interval, SMTT(30)
<1>4. Cardinality(1..Len(s)) <= Cardinality(Nodes)
  BY <1>2, ListAssumption, FS_Injection
<1>5. Cardinality(Nodes) \in Nat
  BY ListAssumption, FS_CardinalityType
<1> QED BY <1>1, <1>3, <1>4, <1>5 DEF Lengths

\* The loop "while (elem && !test)" stops at the first node that passes the
\* test, or behind the end.
FirstOf(s, S, n) ==
  /\ n \in 0..Len(s)
  /\ n < Len(s) => s[n + 1] \in S
  /\ \A k \in 0..(n - 1) : s[k + 1] \notin S

LEMMA FirstIsOne ==
  ASSUME NEW s, Len(s) \in Nat, NEW S, NEW m, NEW n, FirstOf(s, S, m), FirstOf(s, S, n)
  PROVE  m = n
BY DEF FirstOf

LEMMA StepsToFirst ==
  ASSUME AlTypeOK, NEW s, Spells(s), NEW S, S \subseteq Nodes
  PROVE  FirstOf(s, S, Steps(list, S)) /\ Steps(list, S) \in Lengths
<1> DEFINE Stops(n) == /\ At(list, n) \in S \cup {NULL}
                       /\ \A k \in 0..(n - 1) : At(list, k) \notin S \cup {NULL}
           Hits == {n \in 0..Len(s) : n < Len(s) => s[n + 1] \in S}
<1>1. Len(s) \in Nat /\ Len(s) \in Lengths /\ Lengths \subseteq Nat /\ 0..Len(s) \subseteq Lengths
  BY LengthFits, ListAssumption, FS_CardinalityType DEF Lengths
<1>2. \A n \in 0..(Len(s) - 1) : s[n + 1] \in Nodes /\ s[n + 1] # NULL
  BY <1>1, ListAssumption DEF Spells
<1>3. ASSUME NEW n \in Lengths PROVE Stops(n) <=> FirstOf(s, S, n)
  <2>1. n \in Nat
    BY <1>1
  <2>2. \A k \in Nat : At(list, k) = IF k < Len(s) THEN s[k + 1] ELSE NULL
    BY AtIsNth
  <2>3. ASSUME FirstOf(s, S, n) PROVE Stops(n)
    <3>1. At(list, n) \in S \cup {NULL}
      BY <2>1, <2>2, <2>3 DEF FirstOf
    <3>2. ASSUME NEW k \in 0..(n - 1) PROVE At(list, k) \notin S \cup {NULL}
      <4>1. k \in Nat /\ k < Len(s) /\ s[k + 1] \notin S
        BY <1>1, <2>1, <2>3 DEF FirstOf
      <4> QED BY <1>2, <2>2, <4>1
    <3> QED BY <3>1, <3>2
  <2>4. ASSUME Stops(n) PROVE FirstOf(s, S, n)
    <3>1. n <= Len(s)
      <4> SUFFICES ASSUME n > Len(s) PROVE FALSE
        BY <1>1, <2>1
      <4>1. Len(s) \in 0..(n - 1) /\ At(list, Len(s)) = NULL
        BY <1>1, <2>1, <2>2
      <4> QED BY <2>4, <4>1
    <3>2. n < Len(s) => s[n + 1] \in S
      BY <1>2, <2>1, <2>2, <2>4
    <3>3. ASSUME NEW k \in 0..(n - 1) PROVE s[k + 1] \notin S
      <4>1. k \in Nat /\ k < Len(s)
        BY <1>1, <2>1, <3>1
      <4>2. At(list, k) \notin S
        BY <2>4
      <4> QED BY <2>2, <4>1, <4>2
    <3> QED BY <1>1, <2>1, <3>1, <3>2, <3>3 DEF FirstOf
  <2> HIDE DEF Stops
  <2> QED BY <2>3, <2>4
<1>4. PICK n \in Hits : \A m \in Hits : n <= m
  <2>1. Len(s) \in Hits /\ Hits \subseteq Nat
    BY <1>1
  <2> HIDE DEF Hits
  <2> QED BY <2>1, LeastOf
<1>5. FirstOf(s, S, n)
  <2>1. ASSUME NEW k \in 0..(n - 1), s[k + 1] \in S PROVE FALSE
    <3>1. k \in Hits /\ k < n
      BY <1>1, <1>4, <2>1
    <3> QED BY <1>4, <3>1
  <2> QED BY <1>4, <2>1 DEF FirstOf
<1>6. n \in Lengths
  BY <1>1, <1>4
<1>7. Steps(list, S) = CHOOSE m \in Lengths : Stops(m)
  BY Zenon DEF Steps
<1> HIDE DEF Stops, Hits
<1>8. Steps(list, S) \in Lengths /\ Stops(Steps(list, S))
  BY <1>3, <1>5, <1>6, <1>7
<1> QED BY <1>3, <1>8

\* What the loops of the list find, by the sequence.
LEMMA FoundIsFirst ==
  ASSUME AlTypeOK, NEW s, Spells(s), NEW S, S \subseteq Nodes, NEW n, FirstOf(s, S, n)
  PROVE  /\ Steps(list, S) = n
         /\ Found(list, S) = IF n < Len(s) THEN s[n + 1] ELSE NULL
<1>1. Len(s) \in Nat
  BY DEF Spells
<1>2. Steps(list, S) = n
  BY <1>1, StepsToFirst, FirstIsOne
<1>3. n \in Nat
  BY <1>1 DEF FirstOf
<1> QED BY <1>2, <1>3, AtIsNth DEF Found

LEMMA SizeIsLength ==
  ASSUME AlTypeOK, NEW s, Spells(s)
  PROVE  artik_list_size(list) = Len(s)
<1>1. FirstOf(s, {}, Len(s))
  BY DEF FirstOf, Spells
<1> QED BY <1>1, FoundIsFirst DEF artik_list_size

LEMMA EndIsLast ==
  ASSUME AlTypeOK, NEW s, Spells(s)
  PROVE  artik_list_end(list) = IF Len(s) = 0 THEN NULL ELSE s[Len(s)]
<1> DEFINE S == {n \in Nodes : next[n] = NULL}
<1>1. Len(s) \in Nat /\ \A i \in 1..Len(s) : s[i] \in Nodes /\ s[i] # NULL
  BY ListAssumption DEF Spells
<1>2. CASE Len(s) = 0
  BY <1>2 DEF artik_list_end, Spells
<1>3. CASE Len(s) # 0
  <2>1. s[Len(s)] \in S
    BY <1>1, <1>3 DEF Spells
  <2>2. ASSUME NEW k \in 0..(Len(s) - 1 - 1) PROVE s[k + 1] \notin S
    <3>1. k + 1 \in 1..Len(s) /\ k + 2 \in 1..Len(s) /\ (k + 1) + 1 = k + 2
      BY <1>1
    <3>2. next[s[k + 1]] = s[k + 2] /\ s[k + 2] # NULL
      BY <1>1, <3>1 DEF Spells
    <3> QED BY <3>2
  <2>3. FirstOf(s, S, Len(s) - 1)
    BY <1>1, <1>3, <2>1, <2>2 DEF FirstOf
  <2> HIDE DEF S
  <2>4. Found(list, S) = s[Len(s)]
    <3>1. S \subseteq Nodes
      BY DEF S
    <3>2. Found(list, S) = IF Len(s) - 1 < Len(s) THEN s[Len(s) - 1 + 1] ELSE NULL
      BY <2>3, <3>1, FoundIsFirst
    <3>3. Len(s) - 1 < Len(s) /\ Len(s) - 1 + 1 = Len(s)
      BY <1>1
    <3> QED BY <3>2, <3>3
  <2>5. list # NULL
    BY <1>1, <1>3 DEF Spells
  <2> QED BY <1>3, <2>4, <2>5 DEF artik_list_end, S
<1> QED BY <1>2, <1>3

LEMMA ReachedIsRange ==
  ASSUME AlTypeOK, NEW s, Spells(s)
  PROVE  Reached(list) = {s[i] : i \in 1..Len(s)}
<1>1. Len(s) \in Nat /\ \A i \in 1..Len(s) : s[i] # NULL /\ i - 1 \in Lengths
  <2>1. Len(s) \in Nat /\ Len(s) <= Cardinality(Nodes) + 1 /\ Cardinality(Nodes) \in Nat
    BY LengthFits, ListAssumption, FS_CardinalityType DEF Lengths
  <2>2. \A i \in 1..Len(s) : s[i] # NULL
    BY <2>1, ListAssumption DEF Spells
  <2> QED BY <2>1, <2>2 DEF Lengths
<1>2. \A n \in Lengths : n \in Nat /\ At(list, n) = IF n < Len(s) THEN s[n + 1] ELSE NULL
  BY LengthFits, AtIsNth
<1>3. ASSUME NEW x \in Reached(list) PROVE x \in {s[i] : i \in 1..Len(s)}
  <2>1. PICK n \in Lengths : x = At(list, n) /\ x # NULL
    BY <1>3 DEF Reached
  <2>2. n < Len(s) /\ x = s[n + 1]
    BY <1>2, <2>1
  <2> QED BY <1>1, <1>2, <2>2
<1>4. ASSUME NEW i \in 1..Len(s) PROVE s[i] \in Reached(list)
  <2>1. i - 1 \in Lengths /\ i - 1 < Len(s) /\ (i - 1) + 1 = i /\ s[i] # NULL
    BY <1>1
  <2>2. At(list, i - 1) = s[i]
    BY <1>2, <2>1
  <2> QED BY <2>1, <2>2 DEF Reached
<1> QED BY <1>3, <1>4

\* artik_list_add appends a node.
LEMMA AddAppends ==
  ASSUME AlTypeOK, NEW s, Spells(s), Accounts(s), NEW h \in Handles \cup {NULL}, artik_list_add(h)
  PROVE  \E n \in Nodes :
           /\ \A i \in 1..Len(s) : s[i] # n
           /\ handle' = [handle EXCEPT ![n] = IF h = NULL THEN n ELSE h]
           /\ AlTypeOK' /\ Spells(Append(s, n))' /\ Accounts(Append(s, n))'
<1> DEFINE last == artik_list_end(list)
<1>1. PICK n \in Nodes \ alive :
        /\ alive' = alive \cup {n}
        /\ handle' = [handle EXCEPT ![n] = IF h = NULL THEN n ELSE h]
        /\ next' = IF last = NULL THEN [next EXCEPT ![n] = NULL]
                   ELSE [next EXCEPT ![n] = NULL, ![last] = n]
        /\ list' = IF last = NULL THEN n ELSE list
        /\ UNCHANGED dest
  BY Zenon DEF artik_list_add
<1>2. last = IF Len(s) = 0 THEN NULL ELSE s[Len(s)]
  BY EndIsLast
<1> HIDE DEF last
<1> DEFINE t == Append(s, n)
<1>3. /\ Len(s) \in Nat /\ \A i \in 1..Len(s) : s[i] \in Nodes /\ s[i] # NULL /\ s[i] # n
      /\ n # NULL /\ n # dest
  BY <1>1, ListAssumption DEF Spells, Accounts, AlTypeOK
<1>4. /\ t \in Seq(Nodes) /\ Len(t) = Len(s) + 1 /\ t[Len(s) + 1] = n
      /\ \A i \in 1..Len(s) : t[i] = s[i]
  BY <1>1 DEF Spells
<1> HIDE DEF t
<1>5. last = NULL <=> Len(s) = 0
  BY <1>2, <1>3
<1>6. AlTypeOK'
  <2>1. last \in Nodes \cup {NULL}
    BY <1>2, <1>3
  <2> QED BY <1>1, <2>1 DEF AlTypeOK, Pointers
<1>7. Spells(t)'
  <2>1. \A i, j \in 1..Len(t) : t[i] = t[j] => i = j
    BY <1>3, <1>4 DEF Spells
  <2>2. list' = IF Len(t) = 0 THEN NULL ELSE t[1]
    BY <1>1, <1>3, <1>4, <1>5 DEF Spells
  <2>3. ASSUME NEW i \in 1..Len(t) PROVE next'[t[i]] = IF i < Len(t) THEN t[i + 1] ELSE NULL
    <3>1. CASE i = Len(s) + 1
      <4>1. next'[n] = NULL
        BY <1>1, <1>2, <1>3, <1>5 DEF AlTypeOK
      <4> QED BY <1>3, <1>4, <3>1, <4>1
    <3>2. CASE i = Len(s)
      <4>1. last = s[i] /\ last # NULL /\ last # n
        BY <1>2, <1>3, <1>5, <2>3, <3>2
      <4>2. next'[last] = n
        BY <1>1, <1>3, <2>3, <3>2, <4>1 DEF AlTypeOK
      <4> QED BY <1>3, <1>4, <2>3, <3>2, <4>1, <4>2
    <3>3. CASE i < Len(s)
      <4>1. i \in 1..Len(s) /\ Len(s) \in 1..Len(s)
        BY <1>3, <1>4, <2>3, <3>3
      <4>2. s[i] # last /\ s[i] # n
        BY <1>2, <1>3, <3>3, <4>1 DEF Spells
      <4>3. next'[s[i]] = next[s[i]]
        BY <1>1, <1>3, <4>1, <4>2 DEF AlTypeOK
      <4> QED BY <1>3, <1>4, <3>3, <4>1, <4>3 DEF Spells
    <3> QED BY <1>3, <1>4, <3>1, <3>2, <3>3
  <2> QED BY <1>4, <2>1, <2>2, <2>3 DEF Spells
<1>8. Accounts(t)'
  <2>1. \A i \in 1..Len(t) : t[i] \in alive' /\ t[i] # dest'
    BY <1>1, <1>3, <1>4 DEF Accounts
  <2>2. \A x \in alive' : x = dest' \/ \E i \in 1..Len(t) : t[i] = x
    <3> SUFFICES ASSUME NEW x \in alive', x # dest PROVE \E i \in 1..Len(t) : t[i] = x
      BY <1>1
    <3>1. CASE x = n
      BY <1>3, <1>4, <3>1
    <3>2. CASE x # n
      <4>1. PICK i \in 1..Len(s) : s[i] = x
        BY <1>1, <3>2 DEF Accounts
      <4> QED BY <1>3, <1>4, <4>1
    <3> QED BY <3>1, <3>2
  <2> QED BY <1>1, <2>1, <2>2 DEF Accounts
<1> QED BY <1>1, <1>3, <1>6, <1>7, <1>8 DEF t

\* A sequence without its i-th element.
Dropped(s, i) == [j \in 1..(Len(s) - 1) |-> IF j < i THEN s[j] ELSE s[j + 1]]

LEMMA DroppedIsSeq ==
  ASSUME NEW S, NEW s \in Seq(S), NEW i \in 1..Len(s)
  PROVE  /\ Dropped(s, i) \in Seq(S) /\ Len(Dropped(s, i)) = Len(s) - 1
         /\ \A j \in 1..(Len(s) - 1) : Dropped(s, i)[j] = IF j < i THEN s[j] ELSE s[j + 1]
<1>1. Len(s) \in Nat /\ Len(s) - 1 \in Nat
  OBVIOUS
<1>2. \A j \in 1..(Len(s) - 1) : j \in 1..Len(s) /\ j + 1 \in 1..Len(s)
  BY <1>1
<1>3. \A j \in 1..Len(s) : s[j] \in S
  OBVIOUS
<1>4. Dropped(s, i) \in [1..(Len(s) - 1) -> S]
  BY <1>2, <1>3 DEF Dropped
<1> QED BY <1>1, <1>4 DEF Dropped

\* Unlinking the node after k links takes one element out of the sequence.
LEMMA UnlinkDrops ==
  ASSUME AlTypeOK, NEW s, Spells(s), Accounts(s), NEW k \in Nat, k < Len(s), Unlink(k)
  PROVE  /\ AlTypeOK' /\ Spells(Dropped(s, k + 1))' /\ Accounts(Dropped(s, k + 1))'
         /\ \A i \in 1..Len(s) : i # k + 1 => handle'[s[i]] = handle[s[i]]
<1> DEFINE elem == s[k + 1]
           t == Dropped(s, k + 1)
           links == IF k = 0 THEN next ELSE [next EXCEPT ![s[k]] = next[elem]]
<1>1. Len(s) \in Nat /\ k + 1 \in 1..Len(s) /\ \A i \in 1..Len(s) : s[i] \in Nodes /\ s[i] # NULL
  BY ListAssumption DEF Spells
<1>2. At(list, k) = elem /\ (k # 0 => At(list, k - 1) = s[k])
  <2>1. k # 0 => k - 1 \in Nat /\ k - 1 < Len(s) /\ (k - 1) + 1 = k
    BY <1>1
  <2> QED BY <1>1, <2>1, AtIsNth
<1>3. /\ alive' = alive \ {elem} /\ dest' = dest
      /\ next' = [n \in Nodes |-> IF n = elem THEN NULL ELSE links[n]]
      /\ handle' = [n \in Nodes |-> IF n = elem THEN n ELSE handle[n]]
      /\ list' = IF elem = list THEN next[elem] ELSE list
  <2>1. /\ Free({elem}, links) /\ UNCHANGED dest
        /\ list' = IF elem = list THEN next[elem] ELSE list
    BY <1>2 DEF Unlink
  <2> QED BY <2>1 DEF Free
<1>4. /\ t \in Seq(Nodes) /\ Len(t) = Len(s) - 1
      /\ \A j \in 1..(Len(s) - 1) : t[j] = IF j < k + 1 THEN s[j] ELSE s[j + 1]
  BY <1>1, DroppedIsSeq DEF Spells
<1>5. \A i, j \in 1..Len(s) : s[i] = s[j] => i = j
  BY DEF Spells
<1>6. next[elem] = IF k + 1 < Len(s) THEN s[k + 2] ELSE NULL
  <2>1. next[s[k + 1]] = IF k + 1 < Len(s) THEN s[(k + 1) + 1] ELSE NULL
    BY <1>1 DEF Spells
  <2>2. (k + 1) + 1 = k + 2
    OBVIOUS
  <2> QED BY <2>1, <2>2
<1>7. elem \in Nodes /\ elem # NULL /\ elem # dest
  BY <1>1 DEF Accounts
<1>8. elem = list <=> k = 0
  <2>1. list = s[1] /\ 1 \in 1..Len(s)
    BY <1>1 DEF Spells
  <2> QED BY <1>1, <1>5, <2>1
<1> HIDE DEF t, elem
<1>9. AlTypeOK'
  <2>1. next[elem] \in Nodes \cup {NULL}
    BY <1>7 DEF AlTypeOK, Pointers
  <2>2. links \in [Nodes -> Pointers]
    BY <2>1 DEF AlTypeOK, Pointers
  <2> HIDE DEF links
  <2> QED BY <1>3, <2>1, <2>2 DEF AlTypeOK, Pointers
<1>10. Spells(t)'
  <2>1. \A i, j \in 1..Len(t) : t[i] = t[j] => i = j
    <3> SUFFICES ASSUME NEW i \in 1..Len(t), NEW j \in 1..Len(t), t[i] = t[j] PROVE i = j
      OBVIOUS
    <3> DEFINE was(x) == IF x < k + 1 THEN x ELSE x + 1
    <3>1. \A x \in 1..Len(t) : was(x) \in 1..Len(s) /\ t[x] = s[was(x)]
      BY <1>1, <1>4, SMTT(30)
    <3>2. was(i) = was(j)
      <4> HIDE DEF was
      <4> QED BY <1>5, <3>1
    <3> QED BY <1>1, <1>4, <3>2
  <2>2. list' = IF Len(t) = 0 THEN NULL ELSE t[1]
    <3>1. CASE k = 0
      BY <1>1, <1>3, <1>4, <1>6, <1>8, <3>1
    <3>2. CASE k # 0
      <4>1. list' = s[1]
        BY <1>1, <1>3, <1>8, <3>2 DEF Spells
      <4>2. Len(t) # 0 /\ 1 \in 1..(Len(s) - 1) /\ 1 < k + 1
        BY <1>1, <1>4, <3>2
      <4>3. t[1] = s[1]
        BY <1>4, <4>2
      <4> QED BY <4>1, <4>2, <4>3
    <3> QED BY <3>1, <3>2
  <2>3. ASSUME NEW j \in 1..Len(t) PROVE next'[t[j]] = IF j < Len(t) THEN t[j + 1] ELSE NULL
    <3>0. j \in Nat /\ j >= 1 /\ j <= Len(s) - 1 /\ Len(s) \in 1..Len(s)
      BY <1>1, <1>4
    <3>1. CASE j > k
      <4>1. t[j] = s[j + 1] /\ j + 1 \in 1..Len(s) /\ t[j] # elem /\ t[j] \in Nodes
        BY <1>1, <1>4, <1>5, <3>0, <3>1 DEF elem
      <4>2. k # 0 => t[j] # s[k]
        BY <1>1, <1>5, <3>0, <3>1, <4>1
      <4>3. next'[t[j]] = next[s[j + 1]]
        BY <1>3, <4>1, <4>2 DEF AlTypeOK
      <4>4. next[s[j + 1]] = IF j + 1 < Len(s) THEN s[(j + 1) + 1] ELSE NULL
        BY <4>1 DEF Spells
      <4>5. j < Len(t) => t[j + 1] = s[(j + 1) + 1]
        BY <1>1, <1>4, <3>0, <3>1
      <4> QED BY <1>1, <1>4, <3>0, <4>3, <4>4, <4>5
    <3>2. CASE j = k
      <4>1. t[j] = s[k] /\ k \in 1..Len(s) /\ t[j] # elem /\ t[j] \in Nodes /\ k # 0
        BY <1>1, <1>4, <1>5, <3>0, <3>2 DEF elem
      <4>2. next'[t[j]] = next[elem]
        BY <1>3, <4>1 DEF AlTypeOK
      <4>3. j < Len(t) => t[j + 1] = s[k + 2]
        <5>1. j < Len(t) => j + 1 \in 1..(Len(s) - 1) /\ ~(j + 1 < k + 1) /\ (j + 1) + 1 = k + 2
          BY <1>1, <1>4, <3>0, <3>2
        <5> QED BY <1>4, <5>1
      <4> QED BY <1>1, <1>4, <1>6, <3>0, <3>2, <4>2, <4>3
    <3>3. CASE j < k
      <4>1. t[j] = s[j] /\ j \in 1..Len(s) /\ t[j] # elem /\ t[j] # s[k] /\ t[j] \in Nodes
        BY <1>1, <1>4, <1>5, <3>0, <3>3 DEF elem
      <4>2. next'[t[j]] = next[s[j]]
        BY <1>3, <4>1 DEF AlTypeOK
      <4>3. next[s[j]] = s[j + 1]
        BY <1>1, <3>0, <3>3, <4>1 DEF Spells
      <4>4. j < Len(t) /\ t[j + 1] = s[j + 1]
        BY <1>1, <1>4, <3>0, <3>3
      <4> QED BY <4>2, <4>3, <4>4
    <3> QED BY <3>0, <3>1, <3>2, <3>3
  <2> QED BY <1>4, <2>1, <2>2, <2>3 DEF Spells
<1>11. Accounts(t)'
  <2>1. ASSUME NEW j \in 1..Len(t) PROVE t[j] \in alive' /\ t[j] # dest'
    <3>1. PICK i \in 1..Len(s) : t[j] = s[i] /\ i # k + 1
      <4>0. j \in 1..(Len(s) - 1) /\ j \in Nat
        BY <1>4
      <4>1. CASE j < k + 1
        <5>1. j \in 1..Len(s) /\ t[j] = s[j] /\ j # k + 1
          BY <1>1, <1>4, <4>0, <4>1
        <5> QED BY <5>1
      <4>2. CASE ~(j < k + 1)
        <5>1. j + 1 \in 1..Len(s) /\ t[j] = s[j + 1] /\ j + 1 # k + 1
          BY <1>1, <1>4, <4>0, <4>2
        <5> QED BY <5>1
      <4> QED BY <4>1, <4>2
    <3> QED BY <1>1, <1>3, <1>5, <3>1 DEF Accounts, elem
  <2>2. ASSUME NEW x \in alive', x # dest' PROVE \E j \in 1..Len(t) : t[j] = x
    <3>1. PICK i \in 1..Len(s) : s[i] = x
      BY <1>3, <2>2 DEF Accounts
    <3>2. i # k + 1
      BY <1>3, <2>2, <3>1 DEF elem
    <3>3. CASE i < k + 1
      <4>0. i \in 1..(Len(s) - 1) /\ i < k + 1
        BY <1>1, <3>1, <3>3
      <4>1. i \in 1..Len(t) /\ t[i] = s[i]
        BY <1>4, <4>0
      <4> QED BY <3>1, <4>1
    <3>4. CASE i > k + 1
      <4>1. i - 1 \in 1..Len(t) /\ t[i - 1] = s[i]
        <5>1. i - 1 \in 1..(Len(s) - 1) /\ ~(i - 1 < k + 1) /\ (i - 1) + 1 = i
          BY <1>1, <3>4
        <5> QED BY <1>4, <5>1
      <4> QED BY <3>1, <4>1
    <3> QED BY <1>1, <3>2, <3>3, <3>4
  <2>3. dest' # NULL => dest' \in alive'
    BY <1>3, <1>7 DEF Accounts
  <2> QED BY <2>1, <2>2, <2>3 DEF Accounts
<1>12. \A i \in 1..Len(s) : i # k + 1 => handle'[s[i]] = handle[s[i]]
  BY <1>1, <1>3, <1>5 DEF elem
<1> QED BY <1>9, <1>10, <1>11, <1>12 DEF t

\* delete_all leaves nothing but the copy's node.
LEMMA DeleteAllEmpties ==
  ASSUME AlTypeOK, NEW s, Spells(s), Accounts(s), artik_list_delete_all
  PROVE  AlTypeOK' /\ Spells(<<>>)' /\ Accounts(<<>>)'
<1> DEFINE F == {s[i] : i \in 1..Len(s)}
<1>1. Free(F, next) /\ list' = NULL /\ dest' = dest
  BY ReachedIsRange DEF artik_list_delete_all
<1>2. F \subseteq Nodes /\ dest \notin F
  BY DEF Spells, Accounts
<1>3. AlTypeOK'
  BY <1>1, <1>2 DEF Free, AlTypeOK, Pointers
<1>4. Spells(<<>>)'
  BY <1>1 DEF Spells
<1>5. Accounts(<<>>)'
  BY <1>1, <1>2 DEF Free, Accounts
<1> QED BY <1>3, <1>4, <1>5

\* artik_list_cpy changes the copy's node only.
LEMMA CopyKeeps ==
  ASSUME AlTypeOK, NEW s, Spells(s), Accounts(s), artik_list_cpy
  PROVE  /\ AlTypeOK' /\ Spells(s)' /\ Accounts(s)'
         /\ \A i \in 1..Len(s) : handle'[s[i]] = handle[s[i]]
<1>1. PICK n \in (IF dest = NULL THEN Nodes \ alive ELSE {dest}) :
        /\ alive' = alive \cup {n} /\ next' = [next EXCEPT ![n] = next[list]]
        /\ handle' = [handle EXCEPT ![n] = handle[list]] /\ dest' = n
  BY Zenon DEF artik_list_cpy
<1>2. list' = list /\ list \in Nodes
  <2>1. list # NULL /\ list' = list
    BY DEF artik_list_cpy
  <2> QED BY <2>1 DEF AlTypeOK, Pointers
<1>3. n \in Nodes /\ n # NULL /\ \A i \in 1..Len(s) : s[i] # n /\ s[i] \in Nodes
  BY <1>1, ListAssumption DEF AlTypeOK, Pointers, Accounts, Spells
<1>4. AlTypeOK'
  BY <1>1, <1>2, <1>3 DEF AlTypeOK, Pointers
<1>5. \A i \in 1..Len(s) : handle'[s[i]] = handle[s[i]] /\ next'[s[i]] = next[s[i]]
  BY <1>1, <1>3 DEF AlTypeOK
<1>6. Spells(s)'
  BY <1>2, <1>5 DEF Spells
<1>7. Accounts(s)'
  <2>1. \A i \in 1..Len(s) : s[i] \in alive' /\ s[i] # dest'
    BY <1>1, <1>3 DEF Accounts
  <2>2. ASSUME NEW x \in alive', x # dest' PROVE \E i \in 1..Len(s) : s[i] = x
    <3>1. x \in alive /\ x # dest
      BY <1>1, <2>2, ListAssumption DEF AlTypeOK
    <3> QED BY <3>1 DEF Accounts
  <2> QED BY <1>1, <2>1, <2>2 DEF Accounts
<1> QED BY <1>4, <1>5, <1>6, <1>7

\* A deletion that finds a node unlinks it.
LEMMA DeleteUnlinks ==
  ASSUME AlTypeOK, NEW s, Spells(s),
         \/ \E n \in Nodes : artik_list_delete_node(n)
         \/ \E h \in Handles \cup Nodes : artik_list_delete_handle(h)
         \/ \E S \in SUBSET Nodes : artik_list_delete_check(S)
         \/ \E pos \in Lengths : artik_list_delete_pos(pos)
  PROVE  \E k \in Nat : k < Len(s) /\ Unlink(k)
<1>1. ASSUME NEW S, S \subseteq Nodes, DeleteWhere(S) PROVE \E k \in Nat : k < Len(s) /\ Unlink(k)
  <2> DEFINE k == Steps(list, S)
  <2>1. k \in Nat
    BY <1>1, StepsToFirst, LengthFits
  <2>2. At(list, k) # NULL /\ Unlink(k)
    BY <1>1, Zenon DEF DeleteWhere
  <2> HIDE DEF k
  <2>3. k < Len(s)
    BY <2>1, <2>2, AtIsNth
  <2> QED BY <2>1, <2>2, <2>3
<1>2. ASSUME NEW pos \in Lengths, artik_list_delete_pos(pos) PROVE pos \in Nat /\ pos < Len(s) /\ Unlink(pos)
  BY <1>2, LengthFits, SizeIsLength DEF artik_list_delete_pos
<1>3. ASSUME NEW n \in Nodes, artik_list_delete_node(n) PROVE \E k \in Nat : k < Len(s) /\ Unlink(k)
  BY <1>1, <1>3 DEF artik_list_delete_node
<1>4. ASSUME NEW h \in Handles \cup Nodes, artik_list_delete_handle(h)
      PROVE  \E k \in Nat : k < Len(s) /\ Unlink(k)
  <2>1. {n \in Nodes : handle[n] = h} \subseteq Nodes
    OBVIOUS
  <2> QED BY <1>1, <1>4, <2>1, Zenon DEF artik_list_delete_handle
<1>5. ASSUME NEW S \in SUBSET Nodes, artik_list_delete_check(S)
      PROVE  \E k \in Nat : k < Len(s) /\ Unlink(k)
  BY <1>1, <1>5 DEF artik_list_delete_check
<1> QED BY <1>2, <1>3, <1>4, <1>5

LEMMA AlInductive == AlSpec => []AlInv
<1>1. AlInit => AlInv
  <2> SUFFICES ASSUME AlInit PROVE AlInv
    OBVIOUS
  <2>1. AlTypeOK
    BY DEF AlInit, AlTypeOK, Pointers
  <2>2. Spells(<<>>) /\ Accounts(<<>>)
    BY DEF AlInit, Spells, Accounts
  <2> QED BY <2>1, <2>2 DEF AlInv
<1>2. AlInv /\ [AlNext]_alVars => AlInv'
  <2> SUFFICES ASSUME AlInv, [AlNext]_alVars PROVE AlInv'
    OBVIOUS
  <2>0. AlTypeOK
    BY DEF AlInv
  <2>1. PICK s : Spells(s) /\ Accounts(s)
    BY DEF AlInv
  <2>2. ASSUME UNCHANGED alVars PROVE AlTypeOK' /\ Spells(s)' /\ Accounts(s)'
    BY <2>0, <2>1, <2>2 DEF alVars, AlTypeOK, Spells, Accounts
  <2>3. ASSUME NEW h \in Handles \cup {NULL}, artik_list_add(h)
        PROVE  \E t : AlTypeOK' /\ Spells(t)' /\ Accounts(t)'
    BY <2>0, <2>1, <2>3, AddAppends
  <2>4. ASSUME \/ \E n \in Nodes : artik_list_delete_node(n)
               \/ \E h \in Handles \cup Nodes : artik_list_delete_handle(h)
               \/ \E S \in SUBSET Nodes : artik_list_delete_check(S)
               \/ \E pos \in Lengths : artik_list_delete_pos(pos)
        PROVE  \E t : AlTypeOK' /\ Spells(t)' /\ Accounts(t)'
    <3>1. PICK k \in Nat : k < Len(s) /\ Unlink(k)
      BY <2>0, <2>1, <2>4, DeleteUnlinks
    <3> QED BY <2>0, <2>1, <3>1, UnlinkDrops
  <2>5. ASSUME artik_list_delete_all PROVE \E t : AlTypeOK' /\ Spells(t)' /\ Accounts(t)'
    BY <2>0, <2>1, <2>5, DeleteAllEmpties
  <2>6. ASSUME artik_list_cpy PROVE \E t : AlTypeOK' /\ Spells(t)' /\ Accounts(t)'
    BY <2>0, <2>1, <2>6, CopyKeeps
  <2>7. \E t : AlTypeOK' /\ Spells(t)' /\ Accounts(t)'
    BY <2>2, <2>3, <2>4, <2>5, <2>6 DEF AlNext
  <2> QED BY <2>7 DEF AlInv
<1> QED BY <1>1, <1>2, PTL DEF AlSpec

\* What the pointers spell, by the sequence.
Listing(s) == [k \in 1..Len(s) |-> [node |-> s[k], handle |-> handle[s[k]]]]

LEMMA ContentIsListing ==
  ASSUME AlTypeOK, NEW s, Spells(s)
  PROVE  Content = Listing(s)
<1>1. artik_list_size(list) = Len(s) /\ Len(s) \in Nat
  BY SizeIsLength, LengthFits
<1>2. \A k \in 1..Len(s) : At(list, k - 1) = s[k]
  <2> SUFFICES ASSUME NEW k \in 1..Len(s) PROVE At(list, k - 1) = s[k]
    OBVIOUS
  <2>1. k - 1 \in Nat /\ k - 1 < Len(s) /\ (k - 1) + 1 = k
    BY <1>1
  <2> QED BY <2>1, AtIsNth
<1> QED BY <1>1, <1>2 DEF Content, Listing

\* A query answers with the first element that passes its test.
LEMMA QueryIsFirst ==
  ASSUME AlTypeOK, NEW s, Spells(s), NEW S, S \subseteq Nodes, NEW I,
         I = {i \in 1..Len(s) : s[i] \in S}
  PROVE  Found(list, S) = IF I = {} THEN NULL ELSE s[CHOOSE i \in I : \A j \in I : i <= j]
<1> DEFINE n == Steps(list, S)
           First(i) == i \in I /\ \A j \in I : i <= j
<1>1. FirstOf(s, S, n) /\ Len(s) \in Nat
  BY StepsToFirst, LengthFits
<1>2. Found(list, S) = IF n < Len(s) THEN s[n + 1] ELSE NULL
  BY <1>1, FoundIsFirst
<1> HIDE DEF n
<1>3. CASE n < Len(s)
  <2>1. First(n + 1)
    <3>1. n + 1 \in I
      BY <1>1, <1>3 DEF FirstOf
    <3>2. ASSUME NEW j \in I, j < n + 1 PROVE FALSE
      <4>1. j - 1 \in 0..(n - 1) /\ (j - 1) + 1 = j /\ s[j] \in S
        BY <1>1, <3>2 DEF FirstOf
      <4> QED BY <1>1, <4>1 DEF FirstOf
    <3>3. \A j \in I : j \in Int /\ n \in Int
      BY <1>1 DEF FirstOf
    <3> QED BY <3>1, <3>2, <3>3
  <2>2. \A i : First(i) => i = n + 1
    BY <1>1, <2>1 DEF FirstOf
  <2>3. (CHOOSE i \in I : \A j \in I : i <= j) = n + 1
    BY <2>1, <2>2
  <2> QED BY <1>2, <1>3, <2>1, <2>3
<1>4. CASE ~(n < Len(s))
  <2>1. I = {}
    <3> SUFFICES ASSUME NEW i \in I PROVE FALSE
      OBVIOUS
    <3>1. i - 1 \in 0..(n - 1) /\ (i - 1) + 1 = i /\ s[i] \in S
      BY <1>1, <1>4 DEF FirstOf
    <3> QED BY <1>1, <3>1 DEF FirstOf
  <2> QED BY <1>2, <1>4, <2>1
<1> QED BY <1>3, <1>4

\* The queries answer what a search of the sequence would.
LEMMA QueriesSearch == AlInv => QueriesAgree
<1> SUFFICES ASSUME AlInv PROVE QueriesAgree
  OBVIOUS
<1>0. AlTypeOK
  BY DEF AlInv
<1>1. PICK t : Spells(t) /\ Accounts(t)
  BY DEF AlInv
<1> DEFINE s == Content
           FirstIn(I) == IF I = {} THEN NULL ELSE s[CHOOSE i \in I : \A j \in I : i <= j].node
<1>2. s = Listing(t)
  BY <1>0, <1>1, ContentIsListing
<1>3. Len(t) \in Nat /\ Lengths \subseteq Nat /\ t \in Seq(Nodes)
  BY <1>1, LengthFits DEF Spells
<1>4. /\ DOMAIN s = 1..Len(t) /\ Len(s) = Len(t)
      /\ \A i \in 1..Len(t) : s[i].node = t[i] /\ s[i].handle = handle[t[i]]
  <2>1. s = [k \in 1..Len(t) |-> [node |-> t[k], handle |-> handle[t[k]]]]
    BY <1>2 DEF Listing
  <2> HIDE DEF s
  <2>2. DOMAIN s = 1..Len(t) /\ \A i \in 1..Len(t) : s[i].node = t[i] /\ s[i].handle = handle[t[i]]
    BY <2>1
  <2>3. Len(s) = Len(t)
    BY <1>3, <2>1
  <2> QED BY <2>2, <2>3
<1>5. s = <<>> <=> Len(t) = 0
  BY <1>3, <1>4
<1> HIDE DEF s
<1>6. artik_list_end(list) = IF s = <<>> THEN NULL ELSE s[Len(s)].node
  <2>1. Len(t) # 0 => Len(t) \in 1..Len(t)
    BY <1>3
  <2> QED BY <1>0, <1>1, <1>4, <1>5, <2>1, EndIsLast
<1>7. ASSUME NEW pos \in Lengths
      PROVE  artik_list_get_by_pos(list, pos) = IF pos < Len(s) THEN s[pos + 1].node ELSE NULL
  <2>1. pos \in Nat /\ artik_list_size(list) = Len(t)
    BY <1>0, <1>1, <1>3, SizeIsLength
  <2>2. At(list, pos) = IF pos < Len(t) THEN t[pos + 1] ELSE NULL
    BY <1>0, <1>1, <2>1, AtIsNth
  <2>3. pos < Len(t) => s[pos + 1].node = t[pos + 1]
    BY <1>3, <1>4, <2>1
  <2> QED BY <1>3, <1>4, <2>1, <2>2, <2>3 DEF artik_list_get_by_pos
<1>8. ASSUME NEW S, S \subseteq Nodes, NEW I, I = {i \in 1..Len(t) : t[i] \in S}
      PROVE  Found(list, S) = FirstIn(I)
  <2>1. Found(list, S) = IF I = {} THEN NULL ELSE t[CHOOSE i \in I : \A j \in I : i <= j]
    BY <1>0, <1>1, <1>8, QueryIsFirst
  <2>2. I # {} => (CHOOSE i \in I : \A j \in I : i <= j) \in I
    <3> SUFFICES ASSUME I # {} PROVE \E i \in I : \A j \in I : i <= j
      OBVIOUS
    <3>1. I \subseteq Nat
      BY <1>3, <1>8
    <3> QED BY <3>1, LeastOf
  <2>3. \A i \in I : i \in 1..Len(t)
    BY <1>8
  <2> QED BY <1>4, <2>1, <2>2, <2>3
<1>9. ASSUME NEW h \in Handles \cup Nodes
      PROVE  artik_list_get_by_handle(list, h) = FirstIn({i \in DOMAIN s : s[i].handle = h})
  <2> DEFINE S == {n \in Nodes : handle[n] = h}
             I == {i \in DOMAIN s : s[i].handle = h}
  <2>1. \A i \in 1..Len(t) : t[i] \in Nodes
    BY <1>3
  <2>2. I = {i \in 1..Len(t) : t[i] \in S}
    BY <1>4, <2>1
  <2>3. S \subseteq Nodes
    OBVIOUS
  <2>4. artik_list_get_by_handle(list, h) = Found(list, S)
    BY Zenon DEF artik_list_get_by_handle
  <2> HIDE DEF S, I, FirstIn
  <2> QED BY <1>8, <2>2, <2>3, <2>4 DEF I
<1>10. ASSUME NEW S \in SUBSET Nodes
       PROVE  artik_list_get_by_check(list, S) = FirstIn({i \in DOMAIN s : s[i].node \in S})
  <2> DEFINE I == {i \in DOMAIN s : s[i].node \in S}
  <2>1. I = {i \in 1..Len(t) : t[i] \in S}
    BY <1>4
  <2> HIDE DEF I, FirstIn
  <2> QED BY <1>8, <2>1 DEF artik_list_get_by_check, I
<1> QED BY <1>6, <1>7, <1>9, <1>10 DEF QueriesAgree, s

\* artik_list.h: after any sequence of additions, deletions and copies no link
\* dangles, no allocated node is out of reach but the copy's own, and the
\* queries answer for the sequence the pointers spell.
THEOREM ListIsSound == AlSpec => []ListSound
<1>1. AlInv => ListSound
  <2> SUFFICES ASSUME AlInv PROVE ListSound
    OBVIOUS
  <2>0. AlTypeOK /\ QueriesAgree
    BY QueriesSearch DEF AlInv
  <2>1. PICK s : Spells(s) /\ Accounts(s)
    BY DEF AlInv
  <2>2. Reached(list) = {s[i] : i \in 1..Len(s)}
    BY <2>0, <2>1, ReachedIsRange
  <2>3. At(list, Len(s)) = NULL /\ Len(s) \in Lengths
    BY <2>0, <2>1, AtIsNth, LengthFits
  <2>4. NothingDangles
    BY <2>1, <2>2, <2>3 DEF NothingDangles, Accounts
  <2>5. NothingIsLost
    BY <2>1, <2>2 DEF NothingIsLost, Accounts
  <2> QED BY <2>0, <2>4, <2>5 DEF ListSound
<1> QED BY <1>1, AlInductive, PTL

\* Taking out an element as the sequence does it is dropping it.
LEMMA RemoveAtDrops ==
  ASSUME NEW S, NEW s \in Seq(S), NEW i \in 1..Len(s)
  PROVE  Sequence!RemoveAt(s, i) = Dropped(s, i)
<1> DEFINE f == SubSeq(s, 1, i - 1)
           g == SubSeq(s, i + 1, Len(s))
<1>1. f \in Seq(S) /\ Len(f) = i - 1 /\ \A j \in 1..(i - 1) : f[j] = s[j]
  OBVIOUS
<1>2. g \in Seq(S) /\ Len(g) = Len(s) - i /\ \A j \in 1..(Len(s) - i) : g[j] = s[i + j]
  OBVIOUS
<1>3. Sequence!RemoveAt(s, i) = f \o g
  BY DEF Sequence!RemoveAt
<1> HIDE DEF f, g
<1>4. f \o g \in Seq(S) /\ Len(f \o g) = Len(s) - 1
  <2>1. f \o g \in Seq(S) /\ Len(f \o g) = Len(f) + Len(g)
    BY <1>1, <1>2, ConcatProperties
  <2>2. Len(s) \in Nat
    OBVIOUS
  <2> QED BY <1>1, <1>2, <2>1, <2>2
<1>5. ASSUME NEW j \in 1..(Len(s) - 1) PROVE (f \o g)[j] = Dropped(s, i)[j]
  <2>0. Dropped(s, i)[j] = IF j < i THEN s[j] ELSE s[j + 1]
    BY DroppedIsSeq
  <2>1. CASE j < i
    BY <1>1, <1>2, <2>0, <2>1
  <2>2. CASE j >= i
    <3>1. (f \o g)[j] = g[j - (i - 1)]
      BY <1>1, <1>2, <2>2
    <3>2. g[j - (i - 1)] = s[i + (j - (i - 1))] /\ i + (j - (i - 1)) = j + 1
      BY <1>2, <2>2
    <3>3. ~(j < i)
      BY <2>2
    <3> QED BY <2>0, <3>1, <3>2, <3>3
  <2>3. j < i \/ j >= i
    OBVIOUS
  <2> QED BY <2>1, <2>2, <2>3, Zenon
<1>6. Dropped(s, i) \in Seq(S) /\ Len(Dropped(s, i)) = Len(s) - 1
  BY DroppedIsSeq
<1>7. f \o g = Dropped(s, i)
  <2> DEFINE d == Dropped(s, i)
  <2>1. f \o g \in Seq(S) /\ d \in Seq(S) /\ Len(f \o g) = Len(d)
    BY <1>4, <1>6
  <2>2. \A j \in 1..Len(f \o g) : (f \o g)[j] = d[j]
    BY <1>4, <1>5
  <2> HIDE DEF d
  <2>3. f \o g = d
    BY <2>1, <2>2, SeqEqual
  <2> QED BY <2>3 DEF d
<1> QED BY <1>3, <1>7

LEMMA ContentRule == AlTypeOK => \A s : Spells(s) => Content = Listing(s)
BY ContentIsListing

\* One operation of the list is one of the sequence.
LEMMA AlStepsMap ==
  ASSUME AlInv, AlInv', [AlNext]_alVars,
         AlTypeOK' => \A s : Spells(s)' => Content' = Listing(s)'
  PROVE  [Sequence!Next]_Content
<1>0. AlTypeOK /\ AlTypeOK'
  BY DEF AlInv
<1>1. PICK s : Spells(s) /\ Accounts(s)
  BY DEF AlInv
<1>2. Content = Listing(s)
  BY <1>0, <1>1, ContentRule
<1>3. /\ Len(s) \in Nat /\ \A i \in 1..Len(s) : s[i] \in Nodes /\ handle[s[i]] \in Handles \cup Nodes
  BY <1>0, <1>1 DEF Spells, AlTypeOK
<1>4. ASSUME Spells(s)', \A i \in 1..Len(s) : handle'[s[i]] = handle[s[i]] PROVE Content' = Content
  <2>1. Content' = Listing(s)'
    BY <1>0, <1>4
  <2>2. Listing(s)' = Listing(s)
    BY <1>4 DEF Listing
  <2> QED BY <1>2, <2>1, <2>2
<1>5. ASSUME UNCHANGED alVars PROVE Content' = Content
  <2>1. Spells(s)' /\ \A i \in 1..Len(s) : handle'[s[i]] = handle[s[i]]
    BY <1>1, <1>5 DEF alVars, Spells
  <2> QED BY <1>4, <2>1
<1>6. ASSUME artik_list_cpy PROVE Content' = Content
  BY <1>0, <1>1, <1>4, <1>6, CopyKeeps
<1>7. ASSUME artik_list_delete_all PROVE Sequence!Clear
  <2>1. Spells(<<>>)'
    BY <1>0, <1>1, <1>7, DeleteAllEmpties
  <2>2. Content' = Listing(<<>>)'
    BY <1>0, <2>1
  <2>3. Listing(<<>>)' = <<>>
    BY DEF Listing
  <2> QED BY <2>2, <2>3 DEF Sequence!Clear
<1>8. ASSUME NEW h \in Handles \cup {NULL}, artik_list_add(h)
      PROVE  \E n \in Nodes, x \in Handles \cup Nodes : Sequence!Add(n, x)
  <2> DEFINE x(n) == IF h = NULL THEN n ELSE h
  <2>1. PICK n \in Nodes : /\ \A i \in 1..Len(s) : s[i] # n
                           /\ handle' = [handle EXCEPT ![n] = x(n)]
                           /\ Spells(Append(s, n))'
    BY <1>0, <1>1, <1>8, AddAppends
  <2> DEFINE t == Append(s, n)
             e == [node |-> n, handle |-> x(n)]
  <2>2. x(n) \in Handles \cup Nodes
    BY <1>8
  <2>3. Content' = Listing(t)'
    BY <1>0, <2>1
  <2>4. /\ Len(t) = Len(s) + 1 /\ t[Len(s) + 1] = n /\ \A i \in 1..Len(s) : t[i] = s[i]
    BY <1>1, <2>1 DEF Spells
  <2>5. /\ handle'[n] = x(n) /\ \A i \in 1..Len(s) : handle'[s[i]] = handle[s[i]]
    BY <1>0, <1>3, <2>1 DEF AlTypeOK
  <2> HIDE DEF t, x
  <2>6. Listing(t)' = [k \in 1..(Len(s) + 1) |-> IF k = Len(s) + 1 THEN e
                                                ELSE [node |-> s[k], handle |-> handle[s[k]]]]
    <3>1. \A k \in 1..(Len(s) + 1) : k = Len(s) + 1 \/ k \in 1..Len(s)
      BY <1>3
    <3>2. ASSUME NEW k \in 1..(Len(s) + 1)
          PROVE  [node |-> t[k], handle |-> handle'[t[k]]] =
                   IF k = Len(s) + 1 THEN e ELSE [node |-> s[k], handle |-> handle[s[k]]]
      BY <2>4, <2>5, <3>1
    <3> HIDE DEF e
    <3> QED BY <2>4, <3>2 DEF Listing
  <2>7. Append(Listing(s), e) = [k \in 1..(Len(s) + 1) |-> IF k = Len(s) + 1 THEN e
                                                ELSE [node |-> s[k], handle |-> handle[s[k]]]]
    <3> HIDE DEF e
    <3>1. Len(Listing(s)) = Len(s) /\ Listing(s) \in Seq({Listing(s)[i] : i \in 1..Len(s)})
      BY <1>3 DEF Listing
    <3>2. Append(Listing(s), e) = [k \in 1..(Len(s) + 1) |-> IF k = Len(s) + 1 THEN e ELSE Listing(s)[k]]
      <4> DEFINE l == Listing(s)
                 S == {l[i] : i \in 1..Len(s)} \cup {e}
                 f == [k \in 1..(Len(s) + 1) |-> IF k = Len(s) + 1 THEN e ELSE l[k]]
      <4>1. Len(l) = Len(s) /\ l = [k \in 1..Len(s) |-> l[k]]
        BY <1>3, <3>1 DEF Listing
      <4> HIDE DEF l
      <4>2. \A k \in 1..Len(s) : l[k] \in S
        OBVIOUS
      <4>3. e \in S
        OBVIOUS
      <4> HIDE DEF S
      <4>4. l \in Seq(S)
        <5>1. l \in [1..Len(s) -> S]
          BY <4>1, <4>2
        <5> QED BY <1>3, <5>1
      <4>5. f \in Seq(S) /\ Len(f) = Len(s) + 1
        <5>1. f \in [1..(Len(s) + 1) -> S]
          BY <1>3, <4>2, <4>3
        <5>2. Len(s) + 1 \in Nat
          BY <1>3
        <5> HIDE DEF f
        <5> QED BY <5>1, <5>2
      <4>6. /\ Append(l, e) \in Seq(S) /\ Len(Append(l, e)) = Len(s) + 1
            /\ \A k \in 1..Len(s) : Append(l, e)[k] = l[k]
            /\ Append(l, e)[Len(s) + 1] = e
        BY <4>1, <4>3, <4>4, AppendProperties
      <4>7. \A k \in 1..(Len(s) + 1) : Append(l, e)[k] = f[k]
        <5>1. \A k \in 1..(Len(s) + 1) : k = Len(s) + 1 \/ k \in 1..Len(s)
          BY <1>3
        <5> QED BY <4>6, <5>1
      <4> HIDE DEF f
      <4>8. Append(l, e) = f
        BY <4>5, <4>6, <4>7, SeqEqual
      <4> QED BY <4>8 DEF f, l
    <3>3. \A k \in 1..(Len(s) + 1) : k # Len(s) + 1 =>
            Listing(s)[k] = [node |-> s[k], handle |-> handle[s[k]]]
      BY <1>3 DEF Listing
    <3> QED BY <3>2, <3>3
  <2>8. Content' = Append(Content, e)
    BY <1>2, <2>3, <2>6, <2>7
  <2>9. \A i \in DOMAIN Content : Content[i].node # n
    BY <1>2, <2>1 DEF Listing
  <2> QED BY <2>2, <2>8, <2>9, Zenon DEF Sequence!Add
<1>9. ASSUME NEW k \in Nat, k < Len(s), Unlink(k) PROVE \E i \in DOMAIN Content : Sequence!Delete(i)
  <2> DEFINE t == Dropped(s, k + 1)
  <2>1. Spells(t)' /\ \A i \in 1..Len(s) : i # k + 1 => handle'[s[i]] = handle[s[i]]
    BY <1>0, <1>1, <1>9, UnlinkDrops
  <2>2. Content' = Listing(t)'
    BY <1>0, <2>1
  <2>3. k + 1 \in 1..Len(s) /\ s \in Seq(Nodes)
    BY <1>1, <1>3, <1>9 DEF Spells
  <2>4. /\ Len(t) = Len(s) - 1
        /\ \A j \in 1..(Len(s) - 1) : t[j] = IF j < k + 1 THEN s[j] ELSE s[j + 1]
    BY <2>3, DroppedIsSeq
  <2> HIDE DEF t
  <2>5. DOMAIN Listing(s) = 1..Len(s) /\ Len(Listing(s)) = Len(s)
        /\ Listing(s) \in Seq({Listing(s)[i] : i \in 1..Len(s)})
    BY <1>3 DEF Listing
  <2>6. Listing(t)' = Dropped(Listing(s), k + 1)
    <3>1. ASSUME NEW j \in 1..(Len(s) - 1)
          PROVE  [node |-> t[j], handle |-> handle'[t[j]]] =
                   IF j < k + 1 THEN Listing(s)[j] ELSE Listing(s)[j + 1]
      <4>1. j \in 1..Len(s) /\ j + 1 \in 1..Len(s) /\ (j < k + 1 => j # k + 1)
              /\ (~(j < k + 1) => j + 1 # k + 1)
        BY <1>3, <1>9
      <4> QED BY <2>1, <2>4, <4>1 DEF Listing
    <3> QED BY <2>4, <2>5, <3>1 DEF Listing, Dropped
  <2>7. Sequence!RemoveAt(Listing(s), k + 1) = Dropped(Listing(s), k + 1)
    BY <2>3, <2>5, RemoveAtDrops
  <2> QED BY <1>2, <2>2, <2>3, <2>5, <2>6, <2>7 DEF Sequence!Delete
<1>10. CASE \/ \E n \in Nodes : artik_list_delete_node(n)
            \/ \E h \in Handles \cup Nodes : artik_list_delete_handle(h)
            \/ \E S \in SUBSET Nodes : artik_list_delete_check(S)
            \/ \E pos \in Lengths : artik_list_delete_pos(pos)
  <2>1. PICK k \in Nat : k < Len(s) /\ Unlink(k)
    BY <1>0, <1>1, <1>10, DeleteUnlinks
  <2> QED BY <1>9, <2>1 DEF Sequence!Next
<1> QED BY <1>5, <1>6, <1>7, <1>8, <1>10 DEF AlNext, Sequence!Next

\* artik_list.h: additions, deletions and clearing of the linked nodes are
\* those of a sequence, which every other step leaves as it is: the list
\* implements SeqList.
THEOREM ListIsSequence == AlSpec => SequenceSpec
<1>1. AlInit => Sequence!Init
  <2> SUFFICES ASSUME AlInit PROVE Content = <<>>
    BY DEF Sequence!Init
  <2>1. AlTypeOK /\ Spells(<<>>)
    BY DEF AlInit, AlTypeOK, Pointers, Spells
  <2>2. Content = Listing(<<>>)
    BY <2>1, ContentRule
  <2> QED BY <2>2 DEF Listing
<1>2. (AlTypeOK => \A s : Spells(s) => Content = Listing(s))'
  BY ContentRule, PTL
<1>3. AlInv /\ AlInv' /\ [AlNext]_alVars => [Sequence!Next]_Content
  BY <1>2, AlStepsMap
<1> QED BY <1>1, <1>3, AlInductive, PTL DEF AlSpec, SequenceSpec, Sequence!Spec


-----------------------------------------------------------------------------
(* Time.  A day has HoursPerDay hours: what the quotient and the rest of a *)
(* time are, and from it what the zone does to the date.                   *)

\* The day and the hour of a time are the only ones it is made of.
LEMMA DayHourOf ==
  ASSUME TimeAssumption, NEW t \in Int, NEW q \in Int, NEW h \in 0..(HoursPerDay - 1),
         t = q * HoursPerDay + h
  PROVE  DayOf(t) = q /\ HourOf(t) = h
<1>1. HoursPerDay \in Nat /\ HoursPerDay > 0
  BY DEF TimeAssumption
<1>2. DayOf(t) \in Int /\ HourOf(t) \in 0..(HoursPerDay - 1) /\ t = DayOf(t) * HoursPerDay + HourOf(t)
  BY <1>1, SMTT(30) DEF DayOf, HourOf
<1> DEFINE k == DayOf(t) - q
<1>3. k \in Int /\ DayOf(t) = q + k /\ k * HoursPerDay = h - HourOf(t)
  BY <1>1, <1>2, SMTT(30)
<1> HIDE DEF k
<1>4. ~(k >= 1)
  <2> SUFFICES ASSUME k >= 1 PROVE FALSE
    OBVIOUS
  <2>1. k * HoursPerDay >= HoursPerDay
    BY <1>1, <1>3
  <2> QED BY <1>1, <1>2, <1>3, <2>1
<1>5. ~(k <= -1)
  <2> SUFFICES ASSUME k <= -1 PROVE FALSE
    OBVIOUS
  <2>1. k * HoursPerDay <= -HoursPerDay
    BY <1>1, <1>3
  <2> QED BY <1>1, <1>2, <1>3, <2>1
<1>6. k = 0
  BY <1>3, <1>4, <1>5
<1>7. h = HourOf(t)
  BY <1>1, <1>2, <1>3, <1>6
<1>8. DayOf(t) = q
  BY <1>3, <1>6
<1> QED BY <1>7, <1>8

LEMMA DayHour ==
  ASSUME TimeAssumption, NEW t \in Int
  PROVE  /\ DayOf(t) \in Int /\ HourOf(t) \in 0..(HoursPerDay - 1)
         /\ t = DayOf(t) * HoursPerDay + HourOf(t)
<1>1. HoursPerDay \in Nat /\ HoursPerDay > 0
  BY DEF TimeAssumption
<1> QED BY <1>1, SMTT(30) DEF DayOf, HourOf

\* What os_time_get_sys returns: the time of the zone, a day early when the
\* zone is in the next day.
LEMMA SysIs ==
  ASSUME TimeAssumption, tmClock \in Int, NEW z \in Zones
  PROVE  LET h == HourOf(tmClock)
             s == os_time_get_sys(z)
         IN  /\ s = IF h + z >= HoursPerDay THEN tmClock + z - HoursPerDay ELSE tmClock + z
             /\ DayOf(s) = DayOf(tmClock)
             /\ HourOf(s) = HourOf(tmClock + z)
<1> DEFINE H == HoursPerDay
           h == HourOf(tmClock)
           D == DayOf(tmClock)
           g == IF h + z >= H THEN h + z - H ELSE h + z
<1>1. H \in Nat /\ H > 0 /\ z \in 0..(H - 1)
  BY DEF TimeAssumption, Zones
<1>2. D \in Int /\ h \in 0..(H - 1) /\ tmClock = D * H + h
  BY DayHour
<1> HIDE DEF h, D
<1>3. g \in 0..(H - 1) /\ H \in Int
  BY <1>1, <1>2
<1> DEFINE one == IF h + z >= H THEN 1 ELSE 0
<1>4. one \in Int /\ h + z \in Int /\ h + z = one * H + g
      /\ D + one \in Int /\ tmClock + z \in Int /\ tmClock + z = (D + one) * H + g
      /\ D * H + g \in Int
  BY <1>1, <1>2, SMTT(30)
<1> HIDE DEF g, H, one
<1>5. HourOf(h + z) = g /\ HourOf(tmClock + z) = g
  BY <1>3, <1>4, DayHourOf, Zenon DEF H
<1>6. os_time_get_sys(z) = D * H + g
  BY <1>5 DEF os_time_get_sys, HourOf, D, h, H
<1>7. DayOf(D * H + g) = D /\ HourOf(D * H + g) = g
  <2> DEFINE t == D * H + g
  <2>1. t \in Int /\ t = D * H + g
    BY <1>4
  <2> HIDE DEF t
  <2>2. DayOf(t) = D /\ HourOf(t) = g
    BY <1>2, <1>3, <2>1, DayHourOf, Zenon DEF H
  <2> QED BY <2>2 DEF t
<1>8. D * H + g = IF h + z >= H THEN tmClock + z - H ELSE tmClock + z
  BY <1>1, <1>2 DEF g
<1> QED BY <1>5, <1>6, <1>7, <1>8 DEF h, D, H

\* A delay whose milliseconds fit the unsigned int is the one asked for.
LEMMA DelayIs ==
  ASSUME TimeAssumption, NEW sec \in Nat
  PROVE  Delay(sec) \in Nat /\ (sec * Second < UInt => Delay(sec) = sec)
<1>1. Second \in Nat /\ Second > 0 /\ UInt \in Nat /\ UInt > 0
  BY DEF TimeAssumption
<1> DEFINE p == sec * Second
<1>2. p \in Nat
  BY <1>1
<1> HIDE DEF p
<1>3. p % UInt \in Nat /\ (p < UInt => p % UInt = p)
  BY <1>1, <1>2, SMTT(30)
<1>4. \A n \in Nat : n \div Second \in Nat
  BY <1>1, SMTT(30)
<1>5. p \div Second = sec
  BY <1>1, SMTT(30) DEF p
<1> QED BY <1>3, <1>4, <1>5 DEF Delay, p

-----------------------------------------------------------------------------
(* The clock and the alarms.                                               *)

TmAlarm ==
  [zone : Zones, asked : Nat, date : Int, dateAlarm : Int, due : Nat, utc : Int,
   off : BOOLEAN, moved : BOOLEAN, deleted : BOOLEAN, fired : BOOLEAN]

TmTypes ==
  /\ tmClock \in Clocks /\ tmNow \in 0..MaxNow /\ tmSocks \in 0..MaxSyncs
  /\ tmAlarms \in Seq(TmAlarm)

\* What a date is to the clock while it is the last that was set.
SetHolds ==
  tmSet # NoDate =>
    /\ tmSet \in [day : 0..MaxDay, hour : 0..(HoursPerDay - 1), zone : Zones]
    /\ tmClock = tmSet.day * HoursPerDay + UtcHour(tmSet.hour, tmSet.zone)

\* An alarm that has not been called is not late, its time and the clock move
\* together, and its date is a day early if the zone was in the next day.
AlarmRight(m, now, clock) ==
  /\ ~m.fired => m.due >= now
  /\ ~m.moved /\ m.asked * Second < UInt => m.due - now = m.utc - clock
  /\ m.dateAlarm = m.utc + m.zone - (IF m.off THEN HoursPerDay ELSE 0)
  /\ m.date # -1 => m.utc = m.date - m.zone \/ m.off

AlarmsRight == \A i \in DOMAIN tmAlarms : AlarmRight(tmAlarms[i], tmNow, tmClock)

\* A socket belongs to one call, and a reply to it is not older than the call.
SyncHolds ==
  /\ tmSync \in [sock : 0..tmSocks, since : 0..tmNow]
  /\ ~TmFree => tmNow - tmSync.since <= NtpTimeout /\ tmSync.sock # 0
  /\ tmNet \subseteq [sock : 1..tmSocks, time : 0..tmNow]
  /\ \A r \in tmNet : r.sock = tmSync.sock => r.time >= tmSync.since
  /\ tmSynced <= NtpTimeout /\ tmSynced \in Int

TmInvariant == TmTypes /\ SetHolds /\ AlarmsRight /\ SyncHolds

\* The bounds as numbers.
LEMMA TmBounds ==
  ASSUME TimeAssumption
  PROVE  /\ HoursPerDay \in Nat /\ HoursPerDay > 0 /\ MaxZone \in 0..(HoursPerDay - 1)
         /\ MaxDay \in Nat /\ MaxNow \in Nat /\ MaxSyncs \in Nat /\ NtpTimeout \in Nat
         /\ Second \in Nat /\ Second > 0 /\ UInt \in Nat /\ UInt > 0
         /\ (MaxDay + 1) * HoursPerDay \in Nat /\ MaxNow < (MaxDay + 1) * HoursPerDay
         /\ \A n \in 0..MaxNow : n \in Clocks
         /\ \A d \in 0..MaxDay, h \in 0..(HoursPerDay - 1) :
              d * HoursPerDay + h \in Clocks
<1>1. /\ HoursPerDay \in Nat /\ HoursPerDay > 0 /\ MaxZone \in 0..(HoursPerDay - 1)
      /\ MaxDay \in Nat /\ MaxSyncs \in Nat /\ NtpTimeout \in Nat
      /\ Second \in Nat /\ Second > 0 /\ UInt \in Nat /\ UInt > 0
      /\ MaxNow \in 0..((MaxDay + 1) * HoursPerDay - 1)
  BY DEF TimeAssumption
<1>2. (MaxDay + 1) * HoursPerDay \in Nat
  BY <1>1
<1>3. MaxNow \in Nat /\ MaxNow < (MaxDay + 1) * HoursPerDay
  BY <1>1, <1>2
<1>4. \A n \in 0..MaxNow : n \in Clocks
  BY <1>2, <1>3 DEF Clocks
<1>5. ASSUME NEW d \in 0..MaxDay, NEW h \in 0..(HoursPerDay - 1)
      PROVE  d * HoursPerDay + h \in Clocks
  <2>1. d * HoursPerDay \in Nat /\ d * HoursPerDay <= MaxDay * HoursPerDay
    BY <1>1
  <2>2. (MaxDay + 1) * HoursPerDay = MaxDay * HoursPerDay + HoursPerDay /\ MaxDay * HoursPerDay \in Nat
    BY <1>1
  <2> QED BY <1>1, <2>1, <2>2 DEF Clocks
<1> QED BY <1>1, <1>2, <1>3, <1>4, <1>5

\* An alarm once it is marked as moved, deleted or fired.
SameAlarm(m, n) ==
  /\ n \in TmAlarm
  /\ n.zone = m.zone /\ n.asked = m.asked /\ n.date = m.date /\ n.dateAlarm = m.dateAlarm
  /\ n.due = m.due /\ n.utc = m.utc /\ n.off = m.off
  /\ m.fired => n.fired
  /\ n.moved \/ n.moved = m.moved

LEMMA MarkedIs ==
  ASSUME NEW m \in TmAlarm
  PROVE  /\ SameAlarm(m, m) /\ SameAlarm(m, [m EXCEPT !.deleted = TRUE])
         /\ SameAlarm(m, [m EXCEPT !.fired = TRUE])
         /\ SameAlarm(m, [m EXCEPT !.moved = TRUE]) /\ [m EXCEPT !.moved = TRUE].moved
<1>1. TRUE \in BOOLEAN
  BY Zenon
<1>2. SameAlarm(m, m)
  BY DEF TmAlarm, SameAlarm
<1>3. SameAlarm(m, [m EXCEPT !.deleted = TRUE])
  BY <1>1 DEF TmAlarm, SameAlarm
<1>4. SameAlarm(m, [m EXCEPT !.fired = TRUE])
  BY <1>1 DEF TmAlarm, SameAlarm
<1>5. SameAlarm(m, [m EXCEPT !.moved = TRUE]) /\ [m EXCEPT !.moved = TRUE].moved
  BY <1>1 DEF TmAlarm, SameAlarm
<1> QED BY <1>2, <1>3, <1>4, <1>5

\* A step that only marks alarms, and keeps the clock but for those it moves.
LEMMA AlarmsKept ==
  ASSUME TmInvariant, tmNow' = tmNow, tmAlarms' = [i \in DOMAIN tmAlarms |-> tmAlarms'[i]],
         \A i \in DOMAIN tmAlarms : SameAlarm(tmAlarms[i], tmAlarms'[i])
                                    /\ (tmAlarms'[i].moved \/ tmClock' = tmClock)
  PROVE  tmAlarms' \in Seq(TmAlarm) /\ AlarmsRight'
<1>1. tmAlarms \in Seq(TmAlarm) /\ DOMAIN tmAlarms = 1..Len(tmAlarms) /\ Len(tmAlarms) \in Nat
  BY DEF TmInvariant, TmTypes
<1>2. ASSUME NEW i \in DOMAIN tmAlarms PROVE AlarmRight(tmAlarms'[i], tmNow', tmClock')
  <2>1. AlarmRight(tmAlarms[i], tmNow, tmClock)
    BY DEF TmInvariant, AlarmsRight
  <2> QED BY <2>1 DEF AlarmRight, SameAlarm
<1>3. \A i \in DOMAIN tmAlarms : tmAlarms'[i] \in TmAlarm
  BY DEF SameAlarm
<1>4. tmAlarms' \in Seq(TmAlarm) /\ DOMAIN tmAlarms' = DOMAIN tmAlarms
  BY <1>1, <1>3
<1> QED BY <1>2, <1>4 DEF AlarmsRight

\* Setting the clock moves every alarm.
LEMMA AllMoved ==
  ASSUME TmInvariant, tmNow' = tmNow,
         tmAlarms' = [i \in DOMAIN tmAlarms |-> [tmAlarms[i] EXCEPT !.moved = TRUE]]
  PROVE  tmAlarms' \in Seq(TmAlarm) /\ AlarmsRight'
<1>1. tmAlarms \in Seq(TmAlarm)
  BY DEF TmInvariant, TmTypes
<1>2. ASSUME NEW i \in DOMAIN tmAlarms
      PROVE  SameAlarm(tmAlarms[i], tmAlarms'[i]) /\ tmAlarms'[i].moved
  <2>1. tmAlarms'[i] = [tmAlarms[i] EXCEPT !.moved = TRUE] /\ tmAlarms[i] \in TmAlarm
    BY <1>1
  <2> QED BY <2>1, MarkedIs, Zenon
<1>3. tmAlarms' = [i \in DOMAIN tmAlarms |-> tmAlarms'[i]]
  OBVIOUS
<1> QED BY <1>2, <1>3, AlarmsKept

\* delete_alarm and the function called.
LEMMA AlarmMarked ==
  ASSUME TmInvariant, tmNow' = tmNow, tmClock' = tmClock, NEW i \in DOMAIN tmAlarms,
         \/ tmAlarms' = [tmAlarms EXCEPT ![i].deleted = TRUE]
         \/ tmAlarms' = [tmAlarms EXCEPT ![i].fired = TRUE]
  PROVE  tmAlarms' \in Seq(TmAlarm) /\ AlarmsRight'
<1>1. tmAlarms \in Seq(TmAlarm)
  BY DEF TmInvariant, TmTypes
<1>2. tmAlarms' = [j \in DOMAIN tmAlarms |-> tmAlarms'[j]]
  BY <1>1
<1>3. ASSUME NEW j \in DOMAIN tmAlarms PROVE SameAlarm(tmAlarms[j], tmAlarms'[j])
  <2>1. tmAlarms[j] \in TmAlarm
    BY <1>1
  <2>2. \/ tmAlarms'[j] = tmAlarms[j]
        \/ tmAlarms'[j] = [tmAlarms[j] EXCEPT !.deleted = TRUE]
        \/ tmAlarms'[j] = [tmAlarms[j] EXCEPT !.fired = TRUE]
    <3>1. CASE j = i
      BY <3>1
    <3>2. CASE j # i
      BY <3>2
    <3> QED BY <3>1, <3>2
  <2> QED BY <2>1, <2>2, MarkedIs, Zenon
<1> QED BY <1>2, <1>3, AlarmsKept

\* The rest of the invariant when neither the clock, the date nor the sockets change.
LEMMA OnlyAlarms ==
  ASSUME TmInvariant, UNCHANGED <<tmNow, tmClock, tmSet, tmSets, tmSync, tmSocks, tmNet, tmSynced>>,
         tmAlarms' \in Seq(TmAlarm), AlarmsRight'
  PROVE  TmInvariant'
BY DEF TmInvariant, TmTypes, SetHolds, SyncHolds, TmFree

\* The alarm that is made is due when its delay has passed, at its date.
LEMMA CreateStep ==
  ASSUME TimeAssumption, TmInvariant, NEW z \in Zones, NEW sec \in Int, NEW date \in Int,
         date # -1 => sec = date - os_time_get_sys(z),
         os_time_create_alarm_second(z, sec, date)
  PROVE  TmInvariant'
<1> DEFINE h == HourOf(tmClock)
           off == h + z >= HoursPerDay
           due == tmNow + Delay(sec)
           m == [zone |-> z, asked |-> sec, date |-> date, dateAlarm |-> os_time_get_sys(z) + sec,
                 due |-> due, utc |-> tmClock + sec,
                 off |-> off, moved |-> FALSE, deleted |-> FALSE, fired |-> FALSE]
<1>1. /\ tmClock \in Int /\ tmNow \in Nat /\ sec \in Nat /\ z \in Int /\ HoursPerDay \in Nat
      /\ tmAlarms \in Seq(TmAlarm) /\ h \in Int
  <2>1. tmClock \in Int /\ tmNow \in Nat
    BY TmBounds DEF TmInvariant, TmTypes, Clocks
  <2> QED BY <2>1, TmBounds, DayHour DEF os_time_create_alarm_second, Zones, TmInvariant, TmTypes
<1>2. os_time_get_sys(z) = tmClock + z - (IF off THEN HoursPerDay ELSE 0)
  <2>1. tmClock \in Int
    BY <1>1
  <2>2. os_time_get_sys(z) = IF h + z >= HoursPerDay THEN tmClock + z - HoursPerDay ELSE tmClock + z
    BY <2>1, SysIs
  <2> QED BY <1>1, <2>2
<1>3. due \in Nat /\ (sec * Second < UInt => due = tmNow + sec) /\ due >= tmNow
  <2>1. Delay(sec) \in Nat /\ (sec * Second < UInt => Delay(sec) = sec)
    BY <1>1, DelayIs
  <2> QED BY <1>1, <2>1
<1>4. off \in BOOLEAN /\ FALSE \in BOOLEAN
  <2>1. off \in BOOLEAN
    OBVIOUS
  <2>2. FALSE \in BOOLEAN
    BY Zenon
  <2> QED BY <2>1, <2>2
<1>5. os_time_get_sys(z) \in Int
  BY <1>1, <1>2
<1>6. tmAlarms' = Append(tmAlarms, m) /\ UNCHANGED <<tmNow, tmClock, tmSet, tmSets, tmSync, tmSocks, tmNet, tmSynced>>
  BY DEF os_time_create_alarm_second
<1> HIDE DEF off, due
<1>7. m \in TmAlarm /\ ~m.fired /\ ~m.moved /\ m.due = due /\ m.utc = tmClock + sec /\ m.asked = sec
      /\ m.dateAlarm = os_time_get_sys(z) + sec /\ m.zone = z /\ m.off = off /\ m.date = date
  BY <1>1, <1>3, <1>4, <1>5 DEF TmAlarm
<1> HIDE DEF m
<1>8. AlarmRight(m, tmNow', tmClock')
  <2>1. m.due >= tmNow' /\ (m.asked * Second < UInt => m.due - tmNow' = m.utc - tmClock')
    BY <1>1, <1>3, <1>6, <1>7
  <2>2. m.dateAlarm = m.utc + m.zone - (IF m.off THEN HoursPerDay ELSE 0)
    BY <1>1, <1>2, <1>7
  <2>3. m.date # -1 => m.utc = m.date - m.zone \/ m.off
    BY <1>1, <1>2, <1>7
  <2> QED BY <2>1, <2>2, <2>3 DEF AlarmRight
<1>9. tmAlarms' \in Seq(TmAlarm) /\ AlarmsRight'
  <2>1. tmAlarms' \in Seq(TmAlarm) /\ DOMAIN tmAlarms' = 1..(Len(tmAlarms) + 1)
        /\ tmAlarms'[Len(tmAlarms) + 1] = m /\ \A i \in 1..Len(tmAlarms) : tmAlarms'[i] = tmAlarms[i]
        /\ DOMAIN tmAlarms = 1..Len(tmAlarms) /\ Len(tmAlarms) \in Nat
    BY <1>1, <1>6, <1>7
  <2>2. \A i \in 1..Len(tmAlarms) : AlarmRight(tmAlarms'[i], tmNow', tmClock')
    BY <1>6, <2>1 DEF TmInvariant, AlarmsRight, AlarmRight
  <2> QED BY <1>8, <2>1, <2>2 DEF AlarmsRight
<1> QED BY <1>6, <1>9, OnlyAlarms

\* A date of the application is a time of the clock.
LEMMA SetTimeStep ==
  ASSUME TimeAssumption, TmInvariant, NEW d \in 0..MaxDay, NEW h \in 0..(HoursPerDay - 1), NEW z \in Zones,
         os_time_set_time(d, h, z)
  PROVE  TmInvariant'
<1>1. UtcHour(h, z) \in 0..(HoursPerDay - 1)
  BY TmBounds DEF UtcHour, Zones
<1>2. tmClock' = d * HoursPerDay + UtcHour(h, z) /\ tmClock' \in Clocks
  BY <1>1, TmBounds DEF os_time_set_time
<1>3. tmAlarms' \in Seq(TmAlarm) /\ AlarmsRight'
  BY AllMoved DEF os_time_set_time
<1>4. tmSet' = [day |-> d, hour |-> h, zone |-> z] /\ UNCHANGED <<tmNow, tmSync, tmSocks, tmNet, tmSynced>>
  BY DEF os_time_set_time
<1>5. SetHolds'
  BY <1>2, <1>4 DEF SetHolds
<1> QED BY <1>2, <1>3, <1>4, <1>5 DEF TmInvariant, TmTypes, SyncHolds, TmFree

\* The clock and the loop's go on together, and no alarm is passed over.
LEMMA PassStep ==
  ASSUME TimeAssumption, TmInvariant, Pass
  PROVE  TmInvariant'
<1>1. /\ tmNow' = tmNow + 1 /\ tmClock' = tmClock + 1 /\ tmSet' = NoDate
      /\ UNCHANGED <<tmSets, tmAlarms, tmSync, tmSocks, tmNet, tmSynced>>
      /\ tmNow \in Nat /\ tmNow < MaxNow /\ MaxNow \in Nat /\ tmClock \in Int /\ NtpTimeout \in Nat
  BY TmBounds DEF Pass, TmInvariant, TmTypes, Clocks
<1>2. TmTypes'
  BY <1>1, SMTT(30) DEF Pass, TmInvariant, TmTypes
<1>3. SetHolds'
  BY <1>1 DEF SetHolds
<1>4. ASSUME NEW i \in DOMAIN tmAlarms PROVE AlarmRight(tmAlarms'[i], tmNow', tmClock')
  <2>1. AlarmRight(tmAlarms[i], tmNow, tmClock) /\ tmAlarms[i].due \in Nat /\ tmAlarms[i].utc \in Int
    <3>1. tmAlarms[i] \in TmAlarm
      BY DEF TmInvariant, TmTypes
    <3> QED BY <3>1 DEF TmInvariant, AlarmsRight, TmAlarm
  <2>2. tmAlarms[i].fired \/ tmAlarms[i].due > tmNow
    BY DEF Pass
  <2> QED BY <1>1, <2>1, <2>2 DEF AlarmRight
<1>5. SyncHolds'
  <2>1. tmSync \in [sock : 0..tmSocks, since : 0..tmNow] /\ (tmSync # NoSync => tmNow - tmSync.since < NtpTimeout)
    BY DEF TmInvariant, SyncHolds, Pass
  <2>2. tmSync' \in [sock : 0..tmSocks', since : 0..tmNow'] /\ (~TmFree' => tmNow' - tmSync'.since <= NtpTimeout)
    BY <1>1, <2>1 DEF TmFree
  <2>3. tmNet' \subseteq [sock : 1..tmSocks', time : 0..tmNow']
    BY <1>1 DEF TmInvariant, SyncHolds
  <2> QED BY <1>1, <2>2, <2>3 DEF TmInvariant, SyncHolds, TmFree
<1> QED BY <1>1, <1>2, <1>3, <1>4, <1>5 DEF TmInvariant, AlarmsRight

\* A call has a socket of its own, so no reply is there for it yet.
LEMMA SyncStep ==
  ASSUME TimeAssumption, TmInvariant, os_time_sync_ntp \/ SyncTimesOut
  PROVE  TmInvariant'
<1>1. /\ UNCHANGED <<tmNow, tmClock, tmSet, tmAlarms, tmSynced>>
      /\ tmNow \in Nat /\ tmSocks \in Nat /\ MaxSyncs \in Nat /\ NtpTimeout \in Nat
  BY TmBounds DEF os_time_sync_ntp, SyncTimesOut, TmInvariant, TmTypes
<1>2. SyncHolds
  BY DEF TmInvariant
<1>3. CASE SyncTimesOut
  <2>1. tmSync' = NoSync /\ UNCHANGED <<tmSocks, tmNet>>
    BY <1>3 DEF SyncTimesOut
  <2>2. NoSync \in [sock : 0..tmSocks, since : 0..tmNow] /\ \A r \in tmNet : r.sock # 0
    BY <1>1, <1>2 DEF NoSync, SyncHolds
  <2>3. SyncHolds'
    BY <1>1, <1>2, <2>1, <2>2 DEF SyncHolds, TmFree, NoSync
  <2> QED BY <1>1, <2>1, <2>3 DEF TmInvariant, TmTypes, SetHolds, AlarmsRight, AlarmRight
<1>4. CASE os_time_sync_ntp
  <2>1. /\ TmFree /\ tmSocks' = tmSocks + 1 /\ tmSocks < MaxSyncs
        /\ tmSync' \in {tmSync, [sock |-> tmSocks + 1, since |-> tmNow]}
        /\ tmNet' \subseteq tmNet \cup {[sock |-> tmSocks + 1, time |-> tmNow]}
        /\ tmSync' = tmSync => tmNet' = tmNet \/ tmSync' = [sock |-> tmSocks + 1, since |-> tmNow]
    BY <1>4 DEF os_time_sync_ntp
  <2>2. tmSync = NoSync /\ \A r \in tmNet : r.sock \in 1..tmSocks /\ r.time \in 0..tmNow
                                           /\ r \in [sock : 1..(tmSocks + 1), time : 0..tmNow]
    BY <1>1, <1>2, <2>1 DEF SyncHolds, TmFree
  <2>3. tmNet' \subseteq [sock : 1..tmSocks', time : 0..tmNow']
    BY <1>1, <2>1, <2>2
  <2>4. CASE tmSync' = [sock |-> tmSocks + 1, since |-> tmNow]
    <3>1. tmSync'.sock = tmSocks + 1 /\ tmSync'.since = tmNow /\ tmSync' \in [sock : 0..tmSocks', since : 0..tmNow']
      BY <1>1, <2>1, <2>4
    <3>2. \A r \in tmNet' : r.sock = tmSocks + 1 => r.time = tmNow
      BY <1>1, <2>1, <2>2
    <3> QED BY <1>1, <1>2, <2>1, <2>3, <3>1, <3>2 DEF SyncHolds, TmFree, TmInvariant, TmTypes, SetHolds, AlarmsRight, AlarmRight
  <2>5. CASE tmSync' = tmSync /\ tmNet' = tmNet
    <3>1. tmSync' \in [sock : 0..tmSocks', since : 0..tmNow']
      BY <1>1, <2>1, <2>2, <2>5 DEF NoSync
    <3> QED BY <1>1, <1>2, <2>1, <2>2, <2>3, <2>5, <3>1 DEF SyncHolds, TmFree, TmInvariant, TmTypes, SetHolds, AlarmsRight, AlarmRight
  <2> QED BY <2>1, <2>4, <2>5
<1> QED BY <1>3, <1>4

\* The reply is to the call that waits, so it is as old as that at most.
LEMMA ReceiveStep ==
  ASSUME TimeAssumption, TmInvariant, SyncReceives
  PROVE  TmInvariant'
<1>1. /\ tmSync' = NoSync /\ tmSet' = NoDate /\ UNCHANGED <<tmNow, tmSets, tmSocks>>
      /\ tmNow \in 0..MaxNow /\ tmSocks \in Nat /\ NtpTimeout \in Nat /\ MaxNow \in Nat
  BY TmBounds DEF SyncReceives, TmInvariant, TmTypes
<1>2. PICK r \in tmNet : r.sock = tmSync.sock /\ tmNet' = tmNet \ {r} /\ tmClock' = r.time /\ tmSynced' = tmNow - r.time
  BY DEF SyncReceives
<1>3. /\ r.time \in 0..tmNow /\ r.time >= tmSync.since /\ tmNow - tmSync.since <= NtpTimeout
      /\ tmSync.since \in Nat
  BY <1>1, <1>2 DEF TmInvariant, SyncHolds, SyncReceives
<1>4. tmClock' \in Clocks /\ tmSynced' <= NtpTimeout /\ tmSynced' \in Int
  <2>1. r.time \in 0..MaxNow
    BY <1>1, <1>3
  <2>2. r.time \in Clocks
    BY <2>1, TmBounds
  <2> QED BY <1>1, <1>2, <1>3, <2>2
<1>5. tmAlarms' \in Seq(TmAlarm) /\ AlarmsRight'
  BY <1>1, AllMoved DEF SyncReceives
<1>6. SyncHolds'
  <2>1. NoSync \in [sock : 0..tmSocks, since : 0..tmNow] /\ NoSync.sock = 0 /\ \A n \in tmNet : n.sock # 0
    BY <1>1 DEF NoSync, TmInvariant, SyncHolds
  <2>2. tmNet' \subseteq [sock : 1..tmSocks', time : 0..tmNow']
    BY <1>1, <1>2 DEF TmInvariant, SyncHolds
  <2> QED BY <1>1, <1>2, <1>4, <2>1, <2>2 DEF SyncHolds, TmFree
<1> QED BY <1>1, <1>4, <1>5, <1>6 DEF TmInvariant, TmTypes, SetHolds

LEMMA TmStep ==
  ASSUME TimeAssumption, TmInvariant, [TmNext]_tmVars
  PROVE  TmInvariant'
<1>1. ASSUME NEW d \in 0..MaxDay, NEW h \in 0..(HoursPerDay - 1), NEW z \in Zones,
             os_time_create_alarm_date(d, h, z)
      PROVE  TmInvariant'
  <2> DEFINE date == d * HoursPerDay + h
             sec == date - os_time_get_sys(z)
  <2>1. date \in Int /\ os_time_get_sys(z) \in Int
    <3>1. tmClock \in Int /\ z \in Int /\ HoursPerDay \in Int
      BY TmBounds DEF TmInvariant, TmTypes, Clocks, Zones
    <3>2. os_time_get_sys(z) \in Int
      BY <3>1, SysIs
    <3> QED BY <3>1, <3>2
  <2>2. os_time_create_alarm_second(z, sec, date)
    BY <1>1 DEF os_time_create_alarm_date
  <2>3. sec \in Int /\ (date # -1 => sec = date - os_time_get_sys(z))
    BY <2>1
  <2> HIDE DEF date, sec
  <2> QED BY <2>1, <2>2, <2>3, CreateStep
<1>2. ASSUME NEW z \in Zones, NEW s \in 1..(UInt \div Second + 1), os_time_create_alarm_second(z, s, -1)
      PROVE  TmInvariant'
  <2>1. s \in Int /\ -1 \in Int
    BY TmBounds
  <2> QED BY <1>2, <2>1, CreateStep
<1>3. ASSUME NEW i \in DOMAIN tmAlarms, os_time_delete_alarm(i) \/ Fires(i)
      PROVE  TmInvariant'
  <2>1. /\ UNCHANGED <<tmNow, tmClock, tmSet, tmSets, tmSync, tmSocks, tmNet, tmSynced>>
        /\ \/ tmAlarms' = [tmAlarms EXCEPT ![i].deleted = TRUE]
           \/ tmAlarms' = [tmAlarms EXCEPT ![i].fired = TRUE]
    BY <1>3 DEF os_time_delete_alarm, Fires
  <2> QED BY <2>1, AlarmMarked, OnlyAlarms
<1>4. ASSUME UNCHANGED tmVars PROVE TmInvariant'
  BY <1>4 DEF tmVars, TmInvariant, TmTypes, SetHolds, AlarmsRight, SyncHolds, TmFree
<1> QED
  BY <1>1, <1>2, <1>3, <1>4, SetTimeStep, SyncStep, ReceiveStep, PassStep
  DEF TmNext, os_time_get_time_str, os_time_get_tick

\* The day of a date that was set is read back, the hour with it, unless its
\* zone was in the next day.
LEMMA InvariantReadsBack ==
  ASSUME TimeAssumption, TmInvariant
  PROVE  SetIsReadBack
<1> SUFFICES ASSUME tmSet # NoDate, ~(tmSet.hour < tmSet.zone)
             PROVE  os_time_get_time(tmSet.zone) = tmSet
  BY DEF SetIsReadBack
<1> DEFINE d == tmSet.day
           h == tmSet.hour
           z == tmSet.zone
           H == HoursPerDay
<1>1. /\ tmSet = [day |-> d, hour |-> h, zone |-> z]
      /\ d \in 0..MaxDay /\ h \in 0..(H - 1) /\ z \in Zones
      /\ tmClock = d * H + UtcHour(h, z)
  BY DEF TmInvariant, SetHolds
<1>2. H \in Nat /\ H > 0 /\ MaxDay \in Nat /\ z \in 0..(H - 1) /\ ~(h < z)
  BY <1>1, TmBounds DEF Zones
<1> HIDE DEF d, h, z
<1>3. UtcHour(h, z) = h - z /\ h - z \in 0..(H - 1) /\ d \in Int
  BY <1>1, <1>2 DEF UtcHour
<1>4. tmClock \in Int /\ tmClock = d * H + (h - z) /\ tmClock + z \in Int /\ tmClock + z = d * H + h
  BY <1>1, <1>2, <1>3
<1>5. DayOf(tmClock) = d /\ HourOf(tmClock) = h - z
  <2> HIDE DEF H
  <2> DEFINE g == h - z
  <2>1. g \in 0..(H - 1) /\ tmClock = d * H + g
    BY <1>3, <1>4
  <2> HIDE DEF g
  <2>2. DayOf(tmClock) = d /\ HourOf(tmClock) = g
    BY <1>3, <1>4, <2>1, DayHourOf, Zenon DEF H
  <2> QED BY <2>2 DEF g
<1>6. DayOf(tmClock + z) = d /\ HourOf(tmClock + z) = h
  BY <1>1, <1>3, <1>4, DayHourOf, Zenon
<1>7. DayOf(os_time_get_sys(z)) = d /\ HourOf(os_time_get_sys(z)) = h
  <2>1. /\ DayOf(os_time_get_sys(z)) = DayOf(tmClock)
        /\ HourOf(os_time_get_sys(z)) = HourOf(tmClock + z)
    BY <1>1, <1>4, SysIs
  <2> QED BY <1>5, <1>6, <2>1
<1> QED BY <1>1, <1>7 DEF os_time_get_time, z

LEMMA InvariantZone ==
  ASSUME TimeAssumption, TmInvariant
  PROVE  ZoneIsRight
<1>1. tmClock \in Int
  BY TmBounds DEF TmInvariant, TmTypes, Clocks
<1>2. ASSUME NEW z \in Zones
      PROVE  LET got == os_time_get_time(z)
             IN  /\ got.hour = HourOf(tmClock + z)
                 /\ got.day = DayOf(tmClock + z) \/ HourOf(tmClock) + z >= HoursPerDay
  <2>1. /\ HourOf(os_time_get_sys(z)) = HourOf(tmClock + z)
        /\ ~(HourOf(tmClock) + z >= HoursPerDay) => os_time_get_sys(z) = tmClock + z
    BY <1>1, SysIs
  <2>2. os_time_get_time(z).hour = HourOf(os_time_get_sys(z)) /\ os_time_get_time(z).day = DayOf(os_time_get_sys(z))
    BY DEF os_time_get_time
  <2> QED BY <2>1, <2>2
<1> QED BY <1>2 DEF ZoneIsRight

LEMMA InvariantAlarms ==
  ASSUME TimeAssumption, TmInvariant
  PROVE  DueAsAsked /\ DelayIsRight
<1>1. tmClock \in Int /\ tmNow \in Nat /\ HoursPerDay \in Nat
  BY TmBounds DEF TmInvariant, TmTypes, Clocks
<1>2. ASSUME NEW i \in DOMAIN tmAlarms
      PROVE  tmAlarms[i] \in TmAlarm /\ AlarmRight(tmAlarms[i], tmNow, tmClock)
  BY DEF TmInvariant, TmTypes, AlarmsRight
<1>3. DueAsAsked
  BY <1>2 DEF DueAsAsked, AlarmRight
<1>4. ASSUME NEW i \in DOMAIN tmAlarms, NEW m, m = tmAlarms[i], ~m.moved, ~m.fired, m.asked * Second < UInt,
             m.off = (HourOf(tmClock) + m.zone >= HoursPerDay)
      PROVE  os_time_get_delay_alarm(i) = m.due - tmNow
  <2>1. m \in TmAlarm /\ m.due >= tmNow /\ m.due - tmNow = m.utc - tmClock
        /\ m.dateAlarm = m.utc + m.zone - (IF m.off THEN HoursPerDay ELSE 0)
    BY <1>2, <1>4 DEF AlarmRight
  <2>2. m.zone \in Zones /\ m.zone \in Int /\ m.due \in Int /\ m.utc \in Int
    BY <2>1, TmBounds DEF TmAlarm, Zones
  <2>3. os_time_get_sys(m.zone) = IF HourOf(tmClock) + m.zone >= HoursPerDay
                                  THEN tmClock + m.zone - HoursPerDay ELSE tmClock + m.zone
    BY <1>1, <2>2, SysIs
  <2>4. m.dateAlarm - os_time_get_sys(m.zone) = m.utc - tmClock
    <3>1. CASE m.off
      <4>1. HourOf(tmClock) + m.zone >= HoursPerDay
        BY <1>4, <3>1
      <4> QED BY <1>1, <2>1, <2>2, <2>3, <3>1, <4>1
    <3>2. CASE ~m.off
      <4>1. ~(HourOf(tmClock) + m.zone >= HoursPerDay)
        BY <1>4, <3>2
      <4> QED BY <1>1, <2>1, <2>2, <2>3, <3>2, <4>1
    <3> QED BY <3>1, <3>2
  <2>5. os_time_get_delay_alarm(i) = IF m.utc - tmClock <= 0 THEN 0 ELSE m.utc - tmClock
    BY <1>4, <2>4, Zenon DEF os_time_get_delay_alarm
  <2>6. m.utc - tmClock = m.due - tmNow /\ m.due - tmNow >= 0
    BY <1>1, <2>1, <2>2
  <2>7. m.due - tmNow <= 0 => m.due - tmNow = 0
    BY <1>1, <2>2, <2>6
  <2> QED BY <2>5, <2>6, <2>7
<1> QED BY <1>3, <1>4 DEF DelayIsRight

LEMMA InvariantTypes ==
  ASSUME TimeAssumption, TmInvariant
  PROVE  TmTypeOK
<1>1. \A i \in DOMAIN tmAlarms : tmAlarms[i] \in TmAlarm
  BY DEF TmInvariant, TmTypes
<1>2. tmNow \in 0..MaxNow /\ MaxNow \in Nat
  BY TmBounds DEF TmInvariant, TmTypes
<1>3. tmSync.sock \in 0..tmSocks /\ tmSync.since \in 0..tmNow
      /\ (~TmFree => tmNow - tmSync.since <= NtpTimeout)
  BY DEF TmInvariant, SyncHolds
<1>4. tmNow - tmSync.since <= IF TmFree THEN MaxNow ELSE NtpTimeout
  BY <1>2, <1>3
<1> QED BY <1>1, <1>3, <1>4 DEF TmTypeOK, TmInvariant, TmTypes, TmAlarm

\* The dates that are compared differ first in some field, and the fields
\* after it weigh less than it does.
LEMMA ComparesStep ==
  ASSUME NEW a \in Date, NEW b \in Date, tmPair' = [a |-> a, b |-> b, result |-> artik_time_compare_dates(a, b)]
  PROVE  ComparesAsTime'
<1> DEFINE differ == {f \in 1..7 : a[f] # b[f]}
           first == CHOOSE f \in differ : \A g \in differ : f <= g
           weight(d) == d[1] * 64 + d[2] * 32 + d[3] * 16 + d[4] * 8 + d[5] * 4 + d[6] * 2 + d[7]
           diff == weight(a) - weight(b)
           result == artik_time_compare_dates(a, b)
<1>1. \A f \in 1..7 : a[f] \in {0, 1} /\ b[f] \in {0, 1}
  BY DEF Date
<1>2. result = IF differ = {} THEN 0 ELSE IF a[first] > b[first] THEN 1 ELSE -1
  BY DEF artik_time_compare_dates
<1>3. tmPair'.a = a /\ tmPair'.b = b /\ tmPair'.result = result
  OBVIOUS
<1>4. result = IF diff > 0 THEN 1 ELSE IF diff < 0 THEN -1 ELSE 0
  <2> HIDE DEF result
  <2>1. CASE differ = {}
    <3>1. a[1] = b[1] /\ a[2] = b[2] /\ a[3] = b[3] /\ a[4] = b[4] /\ a[5] = b[5] /\ a[6] = b[6] /\ a[7] = b[7]
      BY <2>1
    <3> QED BY <1>1, <1>2, <2>1, <3>1
  <2>2. ASSUME NEW f \in 1..7, a[f] # b[f], \A g \in 1..7 : a[g] # b[g] => f <= g
        PROVE  result = IF diff > 0 THEN 1 ELSE IF diff < 0 THEN -1 ELSE 0
    <3>1. first = f
      BY <2>2
    <3>2. result = IF a[f] > b[f] THEN 1 ELSE -1
      BY <1>2, <2>2, <3>1
    <3> HIDE DEF first, differ
    <3>3. \A g \in 1..7 : g < f => a[g] = b[g]
      BY <2>2
    <3>4. (f = 1) \/ (f = 2) \/ (f = 3) \/ (f = 4) \/ (f = 5) \/ (f = 6) \/ (f = 7)
      OBVIOUS
    <3>5. CASE f = 1
      BY <1>1, <2>2, <3>2, <3>3, <3>5, SMTT(30)
    <3>6. CASE f = 2
      BY <1>1, <2>2, <3>2, <3>3, <3>6, SMTT(30)
    <3>7. CASE f = 3
      BY <1>1, <2>2, <3>2, <3>3, <3>7, SMTT(30)
    <3>8. CASE f = 4
      BY <1>1, <2>2, <3>2, <3>3, <3>8, SMTT(30)
    <3>9. CASE f = 5
      BY <1>1, <2>2, <3>2, <3>3, <3>9, SMTT(30)
    <3>10. CASE f = 6
      BY <1>1, <2>2, <3>2, <3>3, <3>10, SMTT(30)
    <3>11. CASE f = 7
      BY <1>1, <2>2, <3>2, <3>3, <3>11, SMTT(30)
    <3> QED BY <3>4, <3>5, <3>6, <3>7, <3>8, <3>9, <3>10, <3>11
  <2>3. CASE differ # {}
    <3>1. \E f \in differ : \A g \in differ : f <= g
      <4>1. PICK f \in 1..7 : f \in differ
        BY <2>3
      <4> QED BY <4>1
    <3> QED BY <2>2, <3>1
  <2> QED BY <2>1, <2>3
<1> HIDE DEF result
<1> QED BY <1>3, <1>4 DEF ComparesAsTime

\* Whatever is set, alarmed and synchronised in whatever order, the clock, the
\* alarms and the comparison answer as asked but for the cases the parts name
\* (linux_time.c, artik_time.c).
THEOREM TimeIsSound == TmSpec /\ TmDateSpec => []TimeSound
<1>1. TmInit => TmInvariant
  <2> SUFFICES ASSUME TmInit PROVE TmInvariant
    OBVIOUS
  <2>1. tmAlarms \in Seq(TmAlarm) /\ DOMAIN tmAlarms = {}
    BY DEF TmInit
  <2>2. tmClock \in Clocks
    BY TimeAssumption, TmBounds DEF TmInit
  <2>3. tmSync = NoSync /\ tmSync \in [sock : 0..tmSocks, since : 0..tmNow]
    BY DEF TmInit, NoSync
  <2> QED BY TimeAssumption, TmBounds, <2>1, <2>2, <2>3
       DEF TmInit, TmInvariant, TmTypes, SetHolds, AlarmsRight, SyncHolds, TmFree
<1>2. TmInvariant /\ [TmNext]_tmVars => TmInvariant'
  BY TimeAssumption, TmStep
<1>3. TmDateInit => ComparesAsTime
  BY DEF TmDateInit, NoPair, ComparesAsTime
<1>4. ComparesAsTime /\ [TmDateNext]_tmPair => ComparesAsTime'
  BY ComparesStep DEF TmDateNext, ComparesAsTime
<1>5. TmInvariant /\ ComparesAsTime => TimeSound
  BY TimeAssumption, InvariantTypes, InvariantReadsBack, InvariantZone, InvariantAlarms
  DEF TimeSound, TmInvariant, SyncHolds, SyncIsFresh
<1> QED BY <1>1, <1>2, <1>3, <1>4, <1>5, PTL DEF TmSpec, TmDateSpec

-----------------------------------------------------------------------------
(***************************************************************************)
(* TinyLoop.  What a removal takes is named by an id; ids are distinct     *)
(* until they are counted around.  The room of a vector is a function of   *)
(* its length, which each deletion restores.                               *)
(***************************************************************************)

SrcSet == [kind : TlKinds, id : Nat, given : 0..(IdLimit - 1), state : {"live", "removed", "lost", "fired"}]

TlShapes ==
  /\ tlSrc \in Seq(SrcSet)
  /\ tlVec \in [TlKinds -> Seq(Nat)]
  /\ tlCap \in [TlKinds -> Nat]
  /\ tlNextId \in [TlKinds -> 0..IdLimit]
  /\ tlCall \in 0..Len(tlSrc) /\ tlRunning \in BOOLEAN /\ tlFault \in BOOLEAN
  /\ tlAsked \subseteq Sources

IdIsGiven == \A n \in Sources : tlSrc[n].kind # "idle" => tlSrc[n].id = tlSrc[n].given

\* Until the ids of a kind are counted around no two of its sources share one.
IdsDistinct ==
  \A m, n \in Sources :
    tlSrc[n].kind \notin tlWrapped =>
      /\ tlSrc[n].given < tlNextId[tlSrc[n].kind]
      /\ tlSrc[m].kind = tlSrc[n].kind /\ tlSrc[m].given = tlSrc[n].given => m = n

\* The structure of a callback that runs is freed by its own end only.
CallIsOpen == tlCall # 0 => tlSrc[tlCall].state # "fired"

TlInv ==
  /\ TlShapes /\ IdIsGiven /\ IdsDistinct /\ CallIsOpen
  /\ TlFaultHasCause /\ VectorIsLive /\ VectorFits /\ LostHasCause /\ RemovedIsGone

-----------------------------------------------------------------------------
(* TinyLoop: the room of a vector.                                         *)

LEMMA WidthIsNat == UshrtMax \in Nat
BY TinyLoopAssumption

LEMMA AlignsUp ==
  ASSUME NEW u \in Nat, u <= 65536
  PROVE  align_power2_uint(u) \in Nat /\ u <= align_power2_uint(u)
<1>1. CASE u <= 1
  BY <1>1 DEF align_power2_uint
<1>2. CASE u > 1
  <2>1. \E p \in Powers : p >= u /\ \A q \in Powers : q >= u => p <= q
    BY <1>2 DEF Powers
  <2> DEFINE Reaches(p) == p >= u /\ \A q \in Powers : q >= u => p <= q
             up == CHOOSE p \in Powers : Reaches(p)
  <2>2. align_power2_uint(u) = up
    BY <1>2 DEF align_power2_uint
  <2>3. up \in Powers /\ Reaches(up)
    <3> HIDE DEF Reaches
    <3>1. \E p \in Powers : Reaches(p)
      BY <2>1 DEF Reaches
    <3> QED BY <3>1
  <2> HIDE DEF up
  <2>4. up \in Nat
    BY <2>3 DEF Powers
  <2> QED BY <2>2, <2>3, <2>4
<1> QED BY <1>1, <1>2

LEMMA RoomIs ==
  ASSUME NEW u \in Nat, u <= UshrtMax
  PROVE  align_power2(u) \in 0..UshrtMax /\ u <= align_power2(u) /\ align_power2(0) = 0
<1>1. UshrtMax \in Nat /\ UshrtMax <= 65535
  BY TinyLoopAssumption
<1>2. align_power2_uint(u) \in Nat /\ u <= align_power2_uint(u)
  BY <1>1, AlignsUp
<1>3. align_power2_uint(0) = 0
  BY DEF align_power2_uint
<1> QED BY <1>1, <1>2, <1>3 DEF align_power2

\* One deletion leaves the room the vector had when it had grown that far.
LEMMA ShrinksBack ==
  ASSUME NEW len \in Nat, len + 1 <= UshrtMax
  PROVE  _vector_shrink(len, align_power2(len + 1)) = align_power2(len)
<1>1. UshrtMax \in Nat
  BY TinyLoopAssumption
<1>2. CASE len = 0
  BY <1>1, <1>2, RoomIs DEF _vector_shrink
<1>3. CASE len # 0 /\ align_power2(len) = align_power2_uint(len + 1)
  <2>1. align_power2(len) \in 0..UshrtMax
    BY <1>1, RoomIs
  <2>2. align_power2(len + 1) = align_power2_uint(len + 1)
    BY <1>3, <2>1 DEF align_power2
  <2> QED BY <1>3, <2>2 DEF _vector_shrink
<1>4. CASE len # 0 /\ align_power2(len) # align_power2_uint(len + 1)
  BY <1>4 DEF _vector_shrink
<1> QED BY <1>2, <1>3, <1>4

LEMMA ShrinksAll ==
  ASSUME NEW n \in Nat, n <= UshrtMax, NEW to \in 0..n,
         NEW room \in [to..n -> 0..UshrtMax], room[n] = align_power2(n),
         \A len \in to..(n - 1) : room[len] = _vector_shrink(len, room[len + 1])
  PROVE  room[to] = align_power2(to)
<1>0. UshrtMax \in Nat
  BY WidthIsNat
<1> DEFINE S == {d \in 0..(n - to) : room[n - d] # align_power2(n - d)}
<1>1. SUFFICES ASSUME S # {} PROVE FALSE
  <2>1. n - to \in 0..(n - to) /\ n - (n - to) = to
    OBVIOUS
  <2> QED BY <1>1, <2>1
<1>2. PICK d \in S : \A e \in S : d <= e
  <2>1. S \subseteq Nat
    OBVIOUS
  <2> HIDE DEF S
  <2> QED BY <1>1, <2>1, LeastOf
<1>3. d \in 1..(n - to)
  <2>1. d # 0
    <3>1. n - 0 = n
      OBVIOUS
    <3> QED BY <1>2, <3>1
  <2> QED BY <1>2, <2>1
<1>4. PICK len \in Nat : len = n - d /\ len \in to..(n - 1) /\ len + 1 = n - (d - 1) /\ len + 1 <= UshrtMax
  <2>1. n - d \in to..(n - 1) /\ n - d \in Nat /\ (n - d) + 1 = n - (d - 1) /\ (n - d) + 1 <= n
    BY <1>3
  <2>2. (n - d) + 1 <= UshrtMax
    BY <2>1, <1>0
  <2> QED BY <2>1, <2>2
<1>5. room[len + 1] = align_power2(len + 1)
  <2>1. d - 1 \in 0..(n - to) /\ ~(d <= d - 1)
    BY <1>3
  <2>2. d - 1 \notin S
    BY <1>2, <2>1
  <2> QED BY <1>4, <2>1, <2>2
<1>6. room[len] = _vector_shrink(len, align_power2(len + 1))
  BY <1>4, <1>5, Zenon
<1>7. room[len] = align_power2(len)
  BY <1>4, <1>6, ShrinksBack, Zenon
<1> QED BY <1>2, <1>4, <1>7

-----------------------------------------------------------------------------
(* TinyLoop: an element more, and those of an id less.                     *)

LEMMA SourcesAre ==
  ASSUME TlShapes
  PROVE  /\ Len(tlSrc) \in Nat /\ DOMAIN tlSrc = Sources
         /\ \A n \in Sources : n \in Nat /\ n # 0 /\ tlSrc[n] \in SrcSet
         /\ \A k \in TlKinds : tlVec[k] \in Seq(Nat) /\ Len(tlVec[k]) \in Nat
                               /\ DOMAIN tlVec[k] = 1..Len(tlVec[k]) /\ tlCap[k] \in Nat
BY LenProperties, ElementOfSeq DEF TlShapes, Sources

LEMMA VectorIsShort ==
  ASSUME TlShapes, VectorFits, ~tlFault, NEW k \in TlKinds
  PROVE  Len(tlVec[k]) <= UshrtMax
<1>1. Len(tlVec[k]) \in Nat /\ tlCap[k] \in Nat /\ UshrtMax \in Nat
  BY SourcesAre, WidthIsNat
<1>2. Len(tlVec[k]) <= tlCap[k] /\ tlCap[k] = align_power2(Len(tlVec[k]))
  BY DEF VectorFits
<1>3. align_power2(Len(tlVec[k])) <= UshrtMax
  <2>1. CASE align_power2_uint(Len(tlVec[k])) <= UshrtMax
    BY <2>1 DEF align_power2
  <2>2. CASE ~(align_power2_uint(Len(tlVec[k])) <= UshrtMax)
    BY <1>1, <2>2 DEF align_power2
  <2> QED BY <2>1, <2>2
<1> QED BY <1>1, <1>2, <1>3

LEMMA Unwrapped ==
  ASSUME NEW l \in Nat, NEW u \in Nat, l < u
  PROVE  (l + 1) % (u + 1) = l + 1
OBVIOUS

\* The room follows the length, until it wraps.
LEMMA GrowsTo ==
  ASSUME TlShapes, VectorFits, ~tlFault, NEW k \in TlKinds
  PROVE  /\ Len(tlVec[k]) = UshrtMax => _vector_grow(k).len = 0
         /\ Len(tlVec[k]) < UshrtMax =>
              /\ _vector_grow(k).len = Len(tlVec[k]) + 1
              /\ _vector_grow(k).cap = align_power2(Len(tlVec[k]) + 1)
<1>1. Len(tlVec[k]) \in Nat /\ UshrtMax \in Nat /\ UshrtMax # 0
  <2>1. Len(tlVec[k]) \in Nat
    BY SourcesAre, Zenon
  <2> QED BY <2>1, WidthIsNat, TinyLoopAssumption
<1>2. tlCap[k] = align_power2(Len(tlVec[k]))
  BY DEF VectorFits
<1> DEFINE l == Len(tlVec[k])
<1>3. l = UshrtMax => (l + 1) % (UshrtMax + 1) = 0
  BY <1>1
<1>4. l < UshrtMax => (l + 1) % (UshrtMax + 1) = l + 1
  BY <1>1, Unwrapped, Zenon
<1> HIDE DEF l
<1>5. /\ _vector_grow(k).len = (l + 1) % (UshrtMax + 1)
      /\ _vector_grow(k).cap = IF align_power2((l + 1) % (UshrtMax + 1)) # align_power2(l)
                               THEN align_power2((l + 1) % (UshrtMax + 1)) ELSE tlCap[k]
  BY DEF _vector_grow, l
<1>6. l < UshrtMax => _vector_grow(k).cap = align_power2(l + 1)
  BY <1>2, <1>4, <1>5 DEF l
<1> QED BY <1>3, <1>4, <1>5, <1>6 DEF l

LEMMA Appends ==
  ASSUME TlShapes, VectorFits, ~tlFault, NEW k \in TlKinds, NEW n \in Nat, _ptr_vector_append(k, n)
  PROVE  \/ tlFault' = TRUE /\ tlVec' = tlVec /\ Len(tlVec[k]) = UshrtMax
         \/ /\ tlFault' = tlFault /\ Len(tlVec[k]) < UshrtMax
            /\ tlVec' = [tlVec EXCEPT ![k] = Append(@, n)]
            /\ tlCap' = [tlCap EXCEPT ![k] = align_power2(Len(tlVec[k]) + 1)]
<1>1. Len(tlVec[k]) \in Nat /\ UshrtMax \in Nat /\ Len(tlVec[k]) <= UshrtMax
  BY SourcesAre, WidthIsNat, VectorIsShort
<1>2. /\ tlCap' = [tlCap EXCEPT ![k] = _vector_grow(k).cap]
      /\ _vector_grow(k).len = 0 => tlFault' = TRUE /\ tlVec' = tlVec
      /\ _vector_grow(k).len # 0 => tlVec' = [tlVec EXCEPT ![k] = Append(@, n)] /\ tlFault' = tlFault
  BY Zenon DEF _ptr_vector_append
<1>3. CASE Len(tlVec[k]) = UshrtMax
  BY <1>2, <1>3, GrowsTo, Zenon
<1>4. CASE Len(tlVec[k]) < UshrtMax
  <2>1. Len(tlVec[k]) + 1 # 0
    BY <1>1
  <2> QED BY <1>2, <1>4, <2>1, GrowsTo, Zenon
<1>5. Len(tlVec[k]) = UshrtMax \/ Len(tlVec[k]) < UshrtMax
  BY <1>1
<1> QED BY <1>3, <1>4, <1>5, Zenon

\* w is what a clean-up leaves of v when the positions in stay do, in order.
IsCut(v, stay, len, pos, w) ==
  /\ v \in Seq(Nat) /\ stay \in SUBSET DOMAIN v /\ len \in 0..Len(v) /\ pos \in [1..len -> stay]
  /\ \A i, j \in 1..len : i < j => pos[i] < pos[j]
  /\ \A p \in stay : \E i \in 1..len : pos[i] = p
  /\ w = [i \in 1..len |-> v[pos[i]]]
  /\ \A i, j \in DOMAIN v : v[i] = v[j] => i = j

LEMMA CutVector ==
  ASSUME NEW v, NEW stay, NEW len, NEW pos, NEW w, IsCut(v, stay, len, pos, w)
  PROVE  /\ w \in Seq(Nat) /\ Len(w) = len /\ DOMAIN w = 1..len
         /\ {w[i] : i \in DOMAIN w} = {v[p] : p \in stay}
         /\ \A i, j \in DOMAIN w : w[i] = w[j] => i = j
<1> USE DEF IsCut
<1>1. Len(v) \in Nat /\ DOMAIN v = 1..Len(v) /\ \A i \in DOMAIN v : v[i] \in Nat
  BY LenProperties, ElementOfSeq
<1>2. \A i \in 1..len : pos[i] \in DOMAIN v /\ pos[i] \in Nat
  BY <1>1
<1>3. w \in [1..len -> Nat] /\ len \in Nat
  BY <1>1, <1>2
<1>4. w \in Seq(Nat) /\ Len(w) = len /\ DOMAIN w = 1..len
  <2>1. w \in Seq(Nat)
    BY <1>3, IsASeq
  <2> QED BY <1>3, <2>1, LenProperties
<1>5. {w[i] : i \in DOMAIN w} = {v[p] : p \in stay}
  <2>1. ASSUME NEW i \in DOMAIN w PROVE pos[i] \in stay /\ w[i] = v[pos[i]]
    BY <1>4
  <2>2. ASSUME NEW p \in stay PROVE \E i \in DOMAIN w : w[i] = v[p]
    <3>1. PICK i \in 1..len : pos[i] = p
      OBVIOUS
    <3> QED BY <3>1, <1>4
  <2> QED BY <2>1, <2>2
<1>6. ASSUME NEW i \in DOMAIN w, NEW j \in DOMAIN w, w[i] = w[j] PROVE i = j
  <2>1. pos[i] = pos[j]
    BY <1>2, <1>4, <1>6
  <2>2. i \in 1..len /\ j \in 1..len /\ i \in Nat /\ j \in Nat
    BY <1>4
  <2>3. ~(pos[i] < pos[j]) /\ ~(pos[j] < pos[i])
    BY <2>1, <1>2, <2>2
  <2>4. ~(i < j) /\ ~(j < i)
    BY <2>2, <2>3
  <2> QED BY <2>2, <2>4
<1> QED BY <1>4, <1>5, <1>6

-----------------------------------------------------------------------------
(* TinyLoop: a clean-up.                                                   *)

\* A source that a clean-up of kind k takes: the one that ended, or one that
\* is found by the id.
Taken(n, k, id, ended) ==
  n = ended \/ (tlSrc[n].state = "live" /\ tlSrc[n].kind = k /\ tlSrc[n].id = id)

LEMMA CleansSources ==
  ASSUME TlInv, ~tlFault, NEW k \in TlKinds, NEW id, NEW by, NEW ended,
         ended # 0 => ended \in Sources /\ tlSrc[ended].kind = k /\ id = 0,
         cleanup(k, id, by, ended)
  PROVE  /\ tlSrc' \in Seq(SrcSet) /\ Len(tlSrc') = Len(tlSrc) /\ Sources' = Sources
         /\ \A n \in Sources :
              /\ tlSrc'[n].kind = tlSrc[n].kind /\ tlSrc'[n].id = tlSrc[n].id /\ tlSrc'[n].given = tlSrc[n].given
              /\ n = ended => tlSrc'[n].state = "fired"
              /\ n # ended /\ Taken(n, k, id, ended) => tlSrc'[n].state = IF n = by THEN "removed" ELSE "lost"
              /\ ~Taken(n, k, id, ended) => tlSrc'[n].state = tlSrc[n].state
<1>1. /\ Len(tlSrc) \in Nat /\ DOMAIN tlSrc = Sources
      /\ \A n \in Sources : n \in Nat /\ n # 0 /\ tlSrc[n] \in SrcSet
  BY SourcesAre, Zenon DEF TlInv
<1>2. InVector(k) = {n \in TlLive : tlSrc[n].kind = k}
  BY DEF TlInv, VectorIsLive
<1> DEFINE Sought(n) == n \in InVector(k) /\ tlSrc[n].state = "live"
                       /\ (IF n = ended THEN 0 ELSE IdRead(n)) = id
<1>3. tlSrc' = [n \in Sources |->
         IF n = ended THEN [tlSrc[n] EXCEPT !.state = "fired"]
         ELSE IF Sought(n) THEN [tlSrc[n] EXCEPT !.state = IF n = by THEN "removed" ELSE "lost"]
         ELSE tlSrc[n]]
  BY Zenon DEF cleanup
<1>4. \A n \in Sources : n # ended => (Sought(n) <=> Taken(n, k, id, ended))
  BY <1>2 DEF Taken, IdRead, TlLive
<1> HIDE DEF Sought
<1>5. ASSUME NEW n \in Sources
      PROVE  /\ tlSrc'[n] \in SrcSet
             /\ tlSrc'[n].kind = tlSrc[n].kind /\ tlSrc'[n].id = tlSrc[n].id /\ tlSrc'[n].given = tlSrc[n].given
             /\ n = ended => tlSrc'[n].state = "fired"
             /\ n # ended /\ Taken(n, k, id, ended) => tlSrc'[n].state = IF n = by THEN "removed" ELSE "lost"
             /\ ~Taken(n, k, id, ended) => tlSrc'[n].state = tlSrc[n].state
  <2>1. tlSrc[n] \in SrcSet /\ (n # ended => (Sought(n) <=> Taken(n, k, id, ended))) /\ (n = ended => Taken(n, k, id, ended))
    BY <1>1, <1>4 DEF Taken
  <2>2. tlSrc'[n] = IF n = ended THEN [tlSrc[n] EXCEPT !.state = "fired"]
                    ELSE IF Sought(n) THEN [tlSrc[n] EXCEPT !.state = IF n = by THEN "removed" ELSE "lost"]
                    ELSE tlSrc[n]
    BY <1>3, Zenon
  <2> QED BY <2>1, <2>2 DEF SrcSet
<1>6. tlSrc' \in [1..Len(tlSrc) -> SrcSet]
  BY <1>1, <1>3, <1>5 DEF Sources
<1>7. tlSrc' \in Seq(SrcSet) /\ Len(tlSrc') = Len(tlSrc)
  <2>1. tlSrc' \in Seq(SrcSet)
    BY <1>1, <1>6, IsASeq
  <2> QED BY <1>1, <1>6, <2>1, LenProperties
<1>8. Sources' = Sources
  BY <1>7 DEF Sources
<1> QED BY <1>5, <1>7, <1>8

LEMMA CleansVector ==
  ASSUME TlInv, ~tlFault, NEW k \in TlKinds, NEW id, NEW by, NEW ended,
         ended # 0 => ended \in Sources /\ tlSrc[ended].kind = k /\ id = 0,
         cleanup(k, id, by, ended)
  PROVE  /\ tlVec' \in [TlKinds -> Seq(Nat)] /\ tlCap' \in [TlKinds -> Nat]
         /\ \A j \in TlKinds \ {k} : tlVec'[j] = tlVec[j] /\ tlCap'[j] = tlCap[j]
         /\ InVector(k)' = {n \in InVector(k) : ~Taken(n, k, id, ended)}
         /\ \A i, j \in DOMAIN tlVec'[k] : tlVec'[k][i] = tlVec'[k][j] => i = j
         /\ Len(tlVec'[k]) <= tlCap'[k] /\ tlCap'[k] = align_power2(Len(tlVec'[k]))
<1>1. /\ tlVec[k] \in Seq(Nat) /\ Len(tlVec[k]) \in Nat /\ DOMAIN tlVec[k] = 1..Len(tlVec[k])
      /\ Len(tlVec[k]) <= UshrtMax
  BY SourcesAre, VectorIsShort, Zenon DEF TlInv
<1>2. /\ InVector(k) = {n \in TlLive : tlSrc[n].kind = k}
      /\ \A i, j \in DOMAIN tlVec[k] : tlVec[k][i] = tlVec[k][j] => i = j
  BY DEF TlInv, VectorIsLive
<1> DEFINE stay == {i \in DOMAIN tlVec[k] : (IF tlVec[k][i] = ended THEN 0 ELSE IdRead(tlVec[k][i])) # id}
<1>3. \E len \in 0..Len(tlVec[k]) : \E pos \in [1..len -> stay] :
           /\ \A i, j \in 1..len : i < j => pos[i] < pos[j]
           /\ \A p \in stay : \E i \in 1..len : pos[i] = p
           /\ tlVec' = [tlVec EXCEPT ![k] = [i \in 1..len |-> tlVec[k][pos[i]]]]
           /\ _vector_del(k, len)
  BY Zenon DEF cleanup
<1>4. stay \in SUBSET DOMAIN tlVec[k]
  OBVIOUS
<1>5. {tlVec[k][p] : p \in stay} = {n \in InVector(k) : ~Taken(n, k, id, ended)}
  <2>1. ASSUME NEW n \in InVector(k)
        PROVE  (IF n = ended THEN 0 ELSE IdRead(n)) # id <=> ~Taken(n, k, id, ended)
    <3>1. n \in Sources /\ tlSrc[n].state = "live" /\ tlSrc[n].kind = k /\ n # 0
      BY <1>2, SourcesAre DEF TlInv, TlLive
    <3> QED BY <3>1 DEF Taken, IdRead
  <2>2. \A p \in stay : tlVec[k][p] \in InVector(k) /\ ~Taken(tlVec[k][p], k, id, ended)
    BY <2>1 DEF InVector
  <2>3. ASSUME NEW n \in InVector(k), ~Taken(n, k, id, ended) PROVE \E p \in stay : tlVec[k][p] = n
    <3>1. PICK p \in DOMAIN tlVec[k] : tlVec[k][p] = n
      BY DEF InVector
    <3> QED BY <2>1, <2>3, <3>1
  <2> HIDE DEF stay
  <2> QED BY <2>2, <2>3
<1> HIDE DEF stay
<1>0. PICK len \in 0..Len(tlVec[k]) : \E pos \in [1..len -> stay] :
           /\ \A i, j \in 1..len : i < j => pos[i] < pos[j]
           /\ \A p \in stay : \E i \in 1..len : pos[i] = p
           /\ tlVec' = [tlVec EXCEPT ![k] = [i \in 1..len |-> tlVec[k][pos[i]]]]
           /\ _vector_del(k, len)
  BY <1>3, Zenon
<1>6. PICK pos \in [1..len -> stay] :
           /\ \A i, j \in 1..len : i < j => pos[i] < pos[j]
           /\ \A p \in stay : \E i \in 1..len : pos[i] = p
           /\ tlVec' = [tlVec EXCEPT ![k] = [i \in 1..len |-> tlVec[k][pos[i]]]]
           /\ _vector_del(k, len)
  BY <1>0, Zenon
<1>7. PICK w : w = [i \in 1..len |-> tlVec[k][pos[i]]]
  OBVIOUS
<1>8. /\ w \in Seq(Nat) /\ Len(w) = len /\ DOMAIN w = 1..len
      /\ {w[i] : i \in DOMAIN w} = {tlVec[k][p] : p \in stay}
      /\ \A i, j \in DOMAIN w : w[i] = w[j] => i = j
  <2> DEFINE v == tlVec[k]
  <2>1. v \in Seq(Nat) /\ stay \in SUBSET DOMAIN v /\ len \in 0..Len(v) /\ \A i, j \in DOMAIN v : v[i] = v[j] => i = j
    BY <1>1, <1>2, <1>4, Zenon
  <2>2. /\ \A i, j \in 1..len : i < j => pos[i] < pos[j]
        /\ \A p \in stay : \E i \in 1..len : pos[i] = p
        /\ pos \in [1..len -> stay]
    BY <1>6, Zenon
  <2>3. w = [i \in 1..len |-> v[pos[i]]]
    BY <1>7, Zenon
  <2> HIDE DEF v
  <2>4. /\ w \in Seq(Nat) /\ Len(w) = len /\ DOMAIN w = 1..len
        /\ {w[i] : i \in DOMAIN w} = {v[p] : p \in stay}
        /\ \A i, j \in DOMAIN w : w[i] = w[j] => i = j
    <3>1. IsCut(v, stay, len, pos, w)
      BY <2>1, <2>2, <2>3, Zenon DEF IsCut
    <3> QED BY <3>1, CutVector, Zenon
  <2> QED BY <2>4 DEF v
<1>9. tlVec' = [tlVec EXCEPT ![k] = w] /\ tlVec \in [TlKinds -> Seq(Nat)]
  BY <1>6, <1>7, Zenon DEF TlInv, TlShapes
<1>10. /\ tlVec' \in [TlKinds -> Seq(Nat)] /\ tlVec'[k] = w
       /\ \A j \in TlKinds \ {k} : tlVec'[j] = tlVec[j]
  BY <1>8, <1>9, Zenon
<1>11. InVector(k)' = {n \in InVector(k) : ~Taken(n, k, id, ended)}
  <2>1. InVector(k)' = {w[i] : i \in DOMAIN w}
    BY <1>10, Zenon DEF InVector
  <2> QED BY <2>1, <1>5, <1>8, Zenon
<1>12. PICK room \in [len..Len(tlVec[k]) -> 0..UshrtMax] :
         /\ room[Len(tlVec[k])] = tlCap[k]
         /\ \A l \in len..(Len(tlVec[k]) - 1) : room[l] = _vector_shrink(l, room[l + 1])
         /\ tlCap' = [tlCap EXCEPT ![k] = room[len]]
  BY <1>6, Zenon DEF _vector_del
<1>13. room[len] = align_power2(len)
  <2>1. tlCap[k] = align_power2(Len(tlVec[k]))
    BY DEF TlInv, VectorFits
  <2> QED BY <1>1, <1>6, <1>12, <2>1, ShrinksAll, ZenonT(60)
<1>14. align_power2(len) \in Nat /\ len <= align_power2(len)
  BY <1>1, <1>6, WidthIsNat, RoomIs
<1>15. tlCap \in [TlKinds -> Nat]
  BY Zenon DEF TlInv, TlShapes
<1>16. tlCap' \in [TlKinds -> Nat] /\ tlCap'[k] = align_power2(len) /\ \A j \in TlKinds \ {k} : tlCap'[j] = tlCap[j]
  BY <1>12, <1>13, <1>14, <1>15, Zenon
<1> QED BY <1>8, <1>10, <1>11, <1>14, <1>16, Zenon

-----------------------------------------------------------------------------
(* TinyLoop: the steps.                                                    *)

LEMMA TlStarts == TlInit => TlInv
<1> SUFFICES ASSUME TlInit PROVE TlInv
  OBVIOUS
<1> USE DEF TlInit
<1>1. tlSrc = <<>> /\ Len(tlSrc) = 0 /\ Sources = {}
  BY DEF Sources
<1>2. \A k \in TlKinds : tlVec[k] = <<>> /\ Len(tlVec[k]) = 0 /\ DOMAIN tlVec[k] = {} /\ tlCap[k] = 0 /\ tlNextId[k] = 0
  OBVIOUS
<1>3. TlShapes
  <2>1. tlVec \in [TlKinds -> Seq(Nat)]
    OBVIOUS
  <2>2. tlNextId \in [TlKinds -> 0..IdLimit] /\ tlCap \in [TlKinds -> Nat]
    BY TinyLoopAssumption
  <2>3. tlSrc \in Seq(SrcSet)
    BY <1>1, EmptySeq, Zenon
  <2>4. tlCall \in 0..Len(tlSrc) /\ tlRunning \in BOOLEAN /\ tlFault \in BOOLEAN /\ tlAsked \subseteq Sources
    <3>1. 0 \in 0..0
      OBVIOUS
    <3>2. tlCall \in 0..Len(tlSrc)
      BY <1>1, <3>1, Zenon
    <3>3. tlAsked \subseteq Sources /\ tlRunning \in BOOLEAN /\ tlFault \in BOOLEAN
      BY Zenon
    <3> QED BY <3>2, <3>3
  <2> QED BY <2>1, <2>2, <2>3, <2>4, Zenon DEF TlShapes
<1>4. IdIsGiven /\ IdsDistinct /\ CallIsOpen /\ TlFaultHasCause /\ LostHasCause /\ RemovedIsGone
  BY <1>1, Zenon DEF IdIsGiven, IdsDistinct, CallIsOpen, TlFaultHasCause, LostHasCause, RemovedIsGone
<1>5. VectorIsLive
  BY <1>1, <1>2 DEF VectorIsLive, InVector, TlLive
<1>6. VectorFits
  <2>1. align_power2(0) = 0
    BY RoomIs, WidthIsNat
  <2> QED BY <1>2, <2>1 DEF VectorFits
<1> QED BY <1>3, <1>4, <1>5, <1>6 DEF TlInv

LEMMA NewIdIs ==
  ASSUME TlShapes, NEW k \in TlKinds
  PROVE  /\ NewId(k) \in 0..(IdLimit - 1) /\ NewId(k) + 1 \in 0..IdLimit
         /\ tlNextId[k] < IdLimit => NewId(k) = tlNextId[k]
         /\ tlNextId[k] \in Nat /\ IdLimit \in Nat
<1>1. tlNextId[k] \in 0..IdLimit
  BY Zenon DEF TlShapes
<1> QED BY <1>1, TinyLoopAssumption DEF NewId

LEMMA AddsKeeps ==
  ASSUME TlInv, NEW k \in TlKinds, NEW field \in Nat, k # "idle" => field = NewId(k), Adds(k, field)
  PROVE  TlInv'
<1> DEFINE new == Len(tlSrc) + 1
           s == [kind |-> k, id |-> field, given |-> NewId(k), state |-> "live"]
<1>1. /\ Len(tlSrc) \in Nat /\ DOMAIN tlSrc = Sources /\ tlSrc \in Seq(SrcSet)
      /\ \A n \in Sources : n \in Nat /\ n # 0 /\ tlSrc[n] \in SrcSet
      /\ \A j \in TlKinds : tlVec[j] \in Seq(Nat) /\ Len(tlVec[j]) \in Nat
                               /\ DOMAIN tlVec[j] = 1..Len(tlVec[j]) /\ tlCap[j] \in Nat
  BY SourcesAre, Zenon DEF TlInv, TlShapes
<1>2. /\ NewId(k) \in 0..(IdLimit - 1) /\ NewId(k) + 1 \in 0..IdLimit
      /\ tlNextId[k] < IdLimit => NewId(k) = tlNextId[k]
      /\ tlNextId[k] \in Nat /\ IdLimit \in Nat
  BY NewIdIs, Zenon DEF TlInv
<1>3. /\ ~tlFault /\ tlSrc' = Append(tlSrc, s)
      /\ tlNextId' = [tlNextId EXCEPT ![k] = NewId(k) + 1]
      /\ tlWrapped' = IF tlNextId[k] >= IdLimit THEN tlWrapped \cup {k} ELSE tlWrapped
      /\ tlCall' = tlCall /\ tlRunning' = tlRunning /\ tlAsked' = tlAsked
      /\ _ptr_vector_append(k, new)
  BY Zenon DEF Adds, TlApp
<1>4. s \in SrcSet
  BY <1>2 DEF SrcSet
<1>5. /\ tlSrc' \in Seq(SrcSet) /\ Len(tlSrc') = new /\ Sources' = Sources \cup {new} /\ new \notin Sources
      /\ tlSrc'[new] = s /\ new \in Nat /\ new # 0
      /\ \A n \in Sources : tlSrc'[n] = tlSrc[n]
  <2> HIDE DEF s
  <2>1. /\ tlSrc' \in Seq(SrcSet) /\ Len(tlSrc') = new /\ tlSrc'[new] = s
        /\ \A n \in 1..Len(tlSrc) : tlSrc'[n] = tlSrc[n]
    BY <1>1, <1>3, <1>4, AppendProperties
  <2>2. Sources' = 1..new
    BY <2>1, Zenon DEF Sources
  <2> QED BY <1>1, <2>1, <2>2 DEF Sources
<1>6. \/ tlFault' = TRUE /\ tlVec' = tlVec /\ Len(tlVec[k]) = UshrtMax
      \/ /\ tlFault' = tlFault /\ Len(tlVec[k]) < UshrtMax
         /\ tlVec' = [tlVec EXCEPT ![k] = Append(@, new)]
         /\ tlCap' = [tlCap EXCEPT ![k] = align_power2(Len(tlVec[k]) + 1)]
  BY <1>3, <1>5, Appends, Zenon DEF TlInv
<1>7. tlCap' \in [TlKinds -> Nat]
  <2>1. tlCap' = [tlCap EXCEPT ![k] = _vector_grow(k).cap]
    BY <1>3, Zenon DEF _ptr_vector_append
  <2>2. _vector_grow(k).cap \in Nat
    <3>1. CASE Len(tlVec[k]) = UshrtMax
      <4>1. (Len(tlVec[k]) + 1) % (UshrtMax + 1) = 0
        BY <1>1, <3>1, WidthIsNat
      <4>2. align_power2(0) = 0 /\ tlCap[k] \in Nat
        BY <1>1, RoomIs, WidthIsNat
      <4> QED BY <4>1, <4>2 DEF _vector_grow
    <3>2. CASE Len(tlVec[k]) < UshrtMax
      <4>1. _vector_grow(k).cap = align_power2(Len(tlVec[k]) + 1)
        BY <1>3, <3>2, GrowsTo, Zenon DEF TlInv
      <4>2. align_power2(Len(tlVec[k]) + 1) \in 0..UshrtMax
        BY <1>1, <3>2, RoomIs, WidthIsNat
      <4> QED BY <4>1, <4>2, WidthIsNat
    <3> QED BY <1>6, <3>1, <3>2, Zenon
  <2>3. tlCap \in [TlKinds -> Nat]
    BY Zenon DEF TlInv, TlShapes
  <2> QED BY <2>1, <2>2, <2>3, Zenon
<1>8. tlVec' \in [TlKinds -> Seq(Nat)]
  <2>1. tlVec \in [TlKinds -> Seq(Nat)]
    BY Zenon DEF TlInv, TlShapes
  <2>2. Append(tlVec[k], new) \in Seq(Nat)
    BY <1>1, <1>5, AppendProperties
  <2>3. tlVec' = tlVec \/ tlVec' = [tlVec EXCEPT ![k] = Append(@, new)]
    BY <1>6, Zenon
  <2> HIDE DEF new
  <2> QED BY <2>1, <2>2, <2>3, Zenon
<1>9. TlShapes'
  <2>1. tlNextId' \in [TlKinds -> 0..IdLimit]
    <3>1. tlNextId \in [TlKinds -> 0..IdLimit]
      BY Zenon DEF TlInv, TlShapes
    <3> QED BY <1>2, <1>3, <3>1, Zenon
  <2>2. tlCall' \in 0..Len(tlSrc') /\ tlAsked' \subseteq Sources' /\ tlRunning' \in BOOLEAN /\ tlFault' \in BOOLEAN
    <3>1. tlCall \in 0..Len(tlSrc) /\ tlAsked \subseteq Sources /\ tlRunning \in BOOLEAN /\ tlFault \in BOOLEAN
      BY Zenon DEF TlInv, TlShapes
    <3>2. tlCall \in 0..new
      BY <1>1, <3>1
    <3>3. tlFault' \in BOOLEAN
      BY <1>6, <3>1, Zenon
    <3> HIDE DEF new, s
    <3> QED BY <1>3, <1>5, <3>1, <3>2, <3>3, Zenon
  <2> QED BY <1>5, <1>7, <1>8, <2>1, <2>2, Zenon DEF TlShapes
<1>10. IdIsGiven'
  <2>1. tlSrc'[new].kind = k /\ tlSrc'[new].id = field /\ tlSrc'[new].given = NewId(k)
    BY <1>5
  <2> HIDE DEF new, s
  <2> QED BY <1>5, <2>1 DEF TlInv, IdIsGiven
<1>11. IdsDistinct'
  <2>1. SUFFICES ASSUME NEW m \in Sources', NEW n \in Sources', tlSrc'[n].kind \notin tlWrapped'
                 PROVE  /\ tlSrc'[n].given < tlNextId'[tlSrc'[n].kind]
                        /\ tlSrc'[m].kind = tlSrc'[n].kind /\ tlSrc'[m].given = tlSrc'[n].given => m = n
    BY DEF IdsDistinct
  <2>2. /\ tlNextId'[k] = NewId(k) + 1 /\ \A j \in TlKinds \ {k} : tlNextId'[j] = tlNextId[j]
        /\ tlWrapped \subseteq tlWrapped' /\ (k \notin tlWrapped' => NewId(k) = tlNextId[k])
    <3>1. tlNextId \in [TlKinds -> 0..IdLimit]
      BY Zenon DEF TlInv, TlShapes
    <3>2. tlNextId[k] >= IdLimit \/ tlNextId[k] < IdLimit
      BY <1>2
    <3> QED BY <1>2, <1>3, <3>1, <3>2
  <2>3. \A a, b \in Sources :
          tlSrc[b].kind \notin tlWrapped =>
            /\ tlSrc[b].given < tlNextId[tlSrc[b].kind]
            /\ tlSrc[a].kind = tlSrc[b].kind /\ tlSrc[a].given = tlSrc[b].given => a = b
    BY Zenon DEF TlInv, IdsDistinct
  <2>4. \A a \in Sources : tlSrc[a].kind \in TlKinds /\ tlSrc[a].given \in Nat
    BY <1>1, <1>2 DEF SrcSet
  <2>5. \A a \in Sources' : a = new \/ a \in Sources
    BY <1>5
  <2>6. tlSrc'[new].kind = k /\ tlSrc'[new].given = NewId(k)
    BY <1>5
  <2> HIDE DEF s, new
  <2>7. CASE n = new /\ m = new
    BY <1>2, <2>2, <2>6, <2>7
  <2>8. CASE n = new /\ m \in Sources
    BY <1>2, <1>5, <2>1, <2>2, <2>3, <2>4, <2>6, <2>8
  <2>9. CASE n \in Sources /\ m = new
    BY <1>2, <1>5, <2>1, <2>2, <2>3, <2>4, <2>6, <2>9
  <2>10. CASE n \in Sources /\ m \in Sources
    BY <1>2, <1>5, <2>1, <2>2, <2>3, <2>4, <2>10, SMTT(30)
  <2> QED BY <2>5, <2>7, <2>8, <2>9, <2>10
<1>12. CallIsOpen'
  <2>1. tlCall # 0 => tlCall \in Sources
    BY <1>1 DEF TlInv, TlShapes, Sources
  <2> QED BY <1>3, <1>5, <2>1 DEF TlInv, CallIsOpen
<1>13. TlFaultHasCause'
  <2>1. CASE tlFault' = TRUE /\ tlVec' = tlVec /\ Len(tlVec[k]) = UshrtMax
    BY <2>1, Zenon DEF TlFaultHasCause
  <2>2. CASE tlFault' = tlFault
    BY <1>3, <2>2, Zenon DEF TlFaultHasCause
  <2> QED BY <1>6, <2>1, <2>2, Zenon
<1>14. VectorIsLive' /\ VectorFits'
  <2>1. SUFFICES ASSUME ~tlFault' PROVE VectorIsLive' /\ VectorFits'
    BY Zenon DEF VectorIsLive, VectorFits
  <2>2. /\ Len(tlVec[k]) < UshrtMax
        /\ tlVec' = [tlVec EXCEPT ![k] = Append(@, new)]
        /\ tlCap' = [tlCap EXCEPT ![k] = align_power2(Len(tlVec[k]) + 1)]
    BY <1>6, <2>1, Zenon
  <2>3. /\ tlVec'[k] = Append(tlVec[k], new) /\ tlCap'[k] = align_power2(Len(tlVec[k]) + 1)
        /\ \A j \in TlKinds \ {k} : tlVec'[j] = tlVec[j] /\ tlCap'[j] = tlCap[j]
    <3> HIDE DEF new
    <3> QED BY <2>2, Zenon DEF TlInv, TlShapes
  <2>4. /\ DOMAIN tlVec'[k] = 1..(Len(tlVec[k]) + 1) /\ Len(tlVec'[k]) = Len(tlVec[k]) + 1
        /\ tlVec'[k][Len(tlVec[k]) + 1] = new
        /\ \A i \in DOMAIN tlVec[k] : i \in DOMAIN tlVec'[k] /\ tlVec'[k][i] = tlVec[k][i]
        /\ \A i \in DOMAIN tlVec'[k] : i \in DOMAIN tlVec[k] \/ i = Len(tlVec[k]) + 1
    <3>1. DOMAIN tlVec[k] = 1..Len(tlVec[k]) /\ tlVec[k] \in Seq(Nat) /\ Len(tlVec[k]) \in Nat
      BY <1>1, Zenon
    <3> HIDE DEF new
    <3>2. new \in Nat
      BY <1>5
    <3> QED BY <2>3, <3>1, <3>2, AppendProperties
  <2>5. \A j \in TlKinds :
          /\ InVector(j) = {n \in TlLive : tlSrc[n].kind = j}
          /\ \A a, b \in DOMAIN tlVec[j] : tlVec[j][a] = tlVec[j][b] => a = b
    BY <1>3 DEF TlInv, VectorIsLive
  <2>6. InVector(k)' = InVector(k) \cup {new}
    <3>1. Len(tlVec[k]) + 1 \in DOMAIN tlVec'[k]
      BY <1>1, <2>4
    <3> HIDE DEF new
    <3> QED BY <2>4, <3>1 DEF InVector
  <2>7. \A j \in TlKinds \ {k} : InVector(j)' = InVector(j)
    BY <2>3, Zenon DEF InVector
  <2>8. TlLive' = TlLive \cup {new} /\ new \notin TlLive /\ \A n \in TlLive : n \in Sources
    BY <1>5 DEF TlLive
  <2>9. ASSUME NEW j \in TlKinds
        PROVE  /\ InVector(j)' = {n \in TlLive' : tlSrc'[n].kind = j}
               /\ \A a, b \in DOMAIN tlVec'[j] : tlVec'[j][a] = tlVec'[j][b] => a = b
    <3>1. CASE j = k
      <4>1. {n \in TlLive' : tlSrc'[n].kind = k} = {n \in TlLive : tlSrc[n].kind = k} \cup {new}
        BY <1>5, <2>8
      <4>2. new \notin InVector(k)
        BY <2>5, <2>8
      <4>3. ASSUME NEW a \in DOMAIN tlVec'[k], NEW b \in DOMAIN tlVec'[k], tlVec'[k][a] = tlVec'[k][b] PROVE a = b
        <5>1. \A i \in DOMAIN tlVec[k] : tlVec[k][i] # new
          BY <4>2 DEF InVector
        <5> HIDE DEF new
        <5> QED BY <2>4, <2>5, <4>3, <5>1
      <4> QED BY <2>5, <2>6, <3>1, <4>1, <4>3
    <3>2. CASE j # k
      <4>1. {n \in TlLive' : tlSrc'[n].kind = j} = {n \in TlLive : tlSrc[n].kind = j}
        BY <1>5, <2>8, <3>2
      <4> QED BY <2>3, <2>5, <2>7, <3>2, <4>1
    <3> QED BY <3>1, <3>2
  <2>10. ASSUME NEW j \in TlKinds
         PROVE  Len(tlVec'[j]) <= tlCap'[j] /\ tlCap'[j] = align_power2(Len(tlVec'[j]))
    <3>1. CASE j = k
      <4>1. Len(tlVec[k]) + 1 \in Nat /\ Len(tlVec[k]) + 1 <= UshrtMax
        BY <1>1, <2>2, WidthIsNat
      <4>2. Len(tlVec[k]) + 1 <= align_power2(Len(tlVec[k]) + 1)
        BY <4>1, RoomIs, Zenon
      <4> QED BY <2>3, <2>4, <3>1, <4>2
    <3>2. CASE j # k
      BY <1>3, <2>3, <3>2 DEF TlInv, VectorFits
    <3> QED BY <3>1, <3>2
  <2> QED BY <2>9, <2>10, Zenon DEF VectorIsLive, VectorFits
<1>15. LostHasCause'
  <2>1. tlWrapped \subseteq tlWrapped'
    BY <1>3
  <2> QED BY <1>5, <2>1 DEF TlInv, LostHasCause
<1>16. RemovedIsGone'
  BY <1>3, <1>5 DEF TlInv, TlShapes, RemovedIsGone
<1> QED BY <1>9, <1>10, <1>11, <1>12, <1>13, <1>14, <1>15, <1>16, Zenon DEF TlInv

\* A clean-up on behalf of the source "by", or of the one that ends.
LEMMA CleanupKeeps ==
  ASSUME TlInv, ~tlFault, NEW k \in TlKinds, NEW id, NEW by, NEW ended,
         ended # 0 => ended \in Sources /\ tlSrc[ended].kind = k /\ id = 0,
         \A n \in Sources : n # by /\ n # ended /\ Taken(n, k, id, ended) =>
           id = 0 \/ k \in tlWrapped \cup {"idle"},
         by # 0 => tlAsked' = tlAsked \cup {by} /\ by \in Sources /\ (Taken(by, k, id, ended) \/ tlSrc[by].kind = "idle"),
         by = 0 => tlAsked' = tlAsked,
         ended # 0 => tlCall' = 0,
         ended = 0 => tlCall' = tlCall,
         tlNextId' = tlNextId, tlWrapped' = tlWrapped, tlRunning' = tlRunning, tlFault' = tlFault,
         cleanup(k, id, by, ended)
  PROVE  TlInv'
<1>1. /\ Len(tlSrc) \in Nat /\ \A n \in Sources : n \in Nat /\ n # 0 /\ tlSrc[n] \in SrcSet
  BY SourcesAre, Zenon DEF TlInv
<1>2. /\ tlSrc' \in Seq(SrcSet) /\ Len(tlSrc') = Len(tlSrc) /\ Sources' = Sources
      /\ \A n \in Sources :
           /\ tlSrc'[n].kind = tlSrc[n].kind /\ tlSrc'[n].id = tlSrc[n].id /\ tlSrc'[n].given = tlSrc[n].given
           /\ n = ended => tlSrc'[n].state = "fired"
           /\ n # ended /\ Taken(n, k, id, ended) => tlSrc'[n].state = IF n = by THEN "removed" ELSE "lost"
           /\ ~Taken(n, k, id, ended) => tlSrc'[n].state = tlSrc[n].state
  BY CleansSources, Zenon
<1>3. /\ tlVec' \in [TlKinds -> Seq(Nat)] /\ tlCap' \in [TlKinds -> Nat]
      /\ \A j \in TlKinds \ {k} : tlVec'[j] = tlVec[j] /\ tlCap'[j] = tlCap[j]
      /\ InVector(k)' = {n \in InVector(k) : ~Taken(n, k, id, ended)}
      /\ \A i, j \in DOMAIN tlVec'[k] : tlVec'[k][i] = tlVec'[k][j] => i = j
      /\ Len(tlVec'[k]) <= tlCap'[k] /\ tlCap'[k] = align_power2(Len(tlVec'[k]))
  BY CleansVector, Zenon
<1>4. TlShapes'
  <2>1. /\ tlNextId \in [TlKinds -> 0..IdLimit] /\ tlRunning \in BOOLEAN /\ tlFault \in BOOLEAN
        /\ tlCall \in 0..Len(tlSrc) /\ tlAsked \subseteq Sources
    BY Zenon DEF TlInv, TlShapes
  <2>2. tlCall' \in 0..Len(tlSrc)
    BY <1>1, <2>1
  <2>3. tlAsked' \subseteq Sources
    BY <2>1
  <2> QED BY <1>2, <1>3, <2>1, <2>2, <2>3, Zenon DEF TlShapes
<1>5. IdIsGiven'
  <2>1. IdIsGiven
    BY DEF TlInv
  <2> QED BY <1>2, <2>1 DEF IdIsGiven
<1>6. IdsDistinct'
  <2>1. IdsDistinct
    BY DEF TlInv
  <2> QED BY <1>2, <2>1 DEF IdsDistinct
<1>7. CallIsOpen'
  <2>1. SUFFICES ASSUME tlCall # 0, ended = 0, tlCall' = tlCall PROVE tlSrc'[tlCall].state # "fired"
    BY Zenon DEF CallIsOpen
  <2>2. tlCall \in Sources /\ tlSrc[tlCall].state # "fired" /\ tlCall # ended
    BY <1>1, <2>1 DEF TlInv, TlShapes, CallIsOpen, Sources
  <2> QED BY <1>2, <2>2
<1>8. TlFaultHasCause'
  BY Zenon DEF TlFaultHasCause
<1>9. VectorIsLive'
  <2>1. ASSUME NEW j \in TlKinds
        PROVE  /\ InVector(j)' = {n \in TlLive' : tlSrc'[n].kind = j}
               /\ \A a, b \in DOMAIN tlVec'[j] : tlVec'[j][a] = tlVec'[j][b] => a = b
    <3>1. /\ InVector(j) = {n \in TlLive : tlSrc[n].kind = j}
          /\ \A a, b \in DOMAIN tlVec[j] : tlVec[j][a] = tlVec[j][b] => a = b
      BY DEF TlInv, VectorIsLive
    <3>2. \A n \in Sources : Taken(n, k, id, ended) => tlSrc[n].kind = k /\ tlSrc'[n].state # "live"
      BY <1>1, <1>2 DEF Taken
    <3>3. TlLive' = {n \in TlLive : ~Taken(n, k, id, ended)}
      BY <1>2, <3>2 DEF TlLive
    <3>4. {n \in TlLive' : tlSrc'[n].kind = j} = {n \in TlLive : tlSrc[n].kind = j /\ ~Taken(n, k, id, ended)}
      BY <1>2, <3>3 DEF TlLive
    <3>5. CASE j = k
      <4>1. InVector(k)' = {n \in TlLive : tlSrc[n].kind = k /\ ~Taken(n, k, id, ended)}
        BY <1>3, <3>1, <3>5
      <4> QED BY <1>3, <3>4, <3>5, <4>1, Zenon
    <3>6. CASE j # k
      <4>0. tlVec'[j] = tlVec[j]
        <5>1. j \in TlKinds \ {k}
          BY <3>6
        <5> QED BY <1>3, <5>1, Zenon
      <4>1. InVector(j)' = InVector(j) /\ tlVec'[j] = tlVec[j]
        BY <4>0, Zenon DEF InVector
      <4>2. {n \in TlLive : tlSrc[n].kind = j /\ ~Taken(n, k, id, ended)} = {n \in TlLive : tlSrc[n].kind = j}
        BY <3>2, <3>6 DEF TlLive
      <4> QED BY <3>1, <3>4, <4>1, <4>2, Zenon
    <3> QED BY <3>5, <3>6
  <2> QED BY <2>1, Zenon DEF VectorIsLive
<1>10. VectorFits'
  <2>1. \A j \in TlKinds : Len(tlVec[j]) <= tlCap[j] /\ tlCap[j] = align_power2(Len(tlVec[j]))
    BY Zenon DEF TlInv, VectorFits
  <2>2. ASSUME NEW j \in TlKinds PROVE Len(tlVec'[j]) <= tlCap'[j] /\ tlCap'[j] = align_power2(Len(tlVec'[j]))
    <3>1. j = k \/ j \in TlKinds \ {k}
      OBVIOUS
    <3> QED BY <1>3, <2>1, <3>1, Zenon
  <2> QED BY <2>2, Zenon DEF VectorFits
<1>11. LostHasCause'
  <2>1. SUFFICES ASSUME NEW n \in Sources, tlSrc'[n].state = "lost"
                 PROVE  tlSrc[n].id = 0 \/ tlSrc[n].kind \in tlWrapped \cup {"idle"}
    BY <1>2, Zenon DEF LostHasCause
  <2>2. CASE ~Taken(n, k, id, ended)
    BY <1>2, <2>1, <2>2 DEF TlInv, LostHasCause
  <2>3. CASE Taken(n, k, id, ended)
    <3>1. n # ended /\ n # by
      BY <1>2, <2>1, <2>3
    <3>2. tlSrc[n].kind = k /\ tlSrc[n].id = id
      BY <2>3, <3>1 DEF Taken
    <3> QED BY <2>3, <3>1, <3>2
  <2> QED BY <2>2, <2>3
<1>12. RemovedIsGone'
  <2>1. SUFFICES ASSUME NEW n \in tlAsked' PROVE tlSrc'[n].state # "live" \/ tlSrc'[n].kind = "idle"
    BY DEF RemovedIsGone
  <2>2. n \in Sources /\ (n \in tlAsked \/ (n = by /\ by # 0))
    BY DEF TlInv, TlShapes
  <2>3. CASE Taken(n, k, id, ended)
    BY <1>2, <2>2, <2>3
  <2>4. CASE ~Taken(n, k, id, ended)
    BY <1>2, <2>2, <2>4 DEF TlInv, RemovedIsGone
  <2> QED BY <2>3, <2>4
<1> QED BY <1>4, <1>5, <1>6, <1>7, <1>8, <1>9, <1>10, <1>11, <1>12, Zenon DEF TlInv

LEMMA RemoveKeeps ==
  ASSUME TlInv, NEW n \in Sources, tiny_remove(n)
  PROVE  TlInv'
<1> DEFINE k == tlSrc[n].kind
           id == tlSrc[n].given
<1>1. /\ n \in Nat /\ n # 0 /\ tlSrc[n] \in SrcSet /\ \A m \in Sources : tlSrc[m] \in SrcSet
  BY SourcesAre, Zenon DEF TlInv
<1>2. k \in TlKinds
  BY <1>1 DEF SrcSet
<1>3. /\ ~tlFault /\ tlSrc[n].state = "live" /\ cleanup(k, id, n, 0)
      /\ tlAsked' = tlAsked \cup {n} /\ tlNextId' = tlNextId /\ tlWrapped' = tlWrapped
      /\ tlCall' = tlCall /\ tlRunning' = tlRunning /\ tlFault' = tlFault
  BY Zenon DEF tiny_remove, TlApp
<1>4. ASSUME NEW m \in Sources, m # n, m # 0, Taken(m, k, id, 0)
      PROVE  id = 0 \/ k \in tlWrapped \cup {"idle"}
  <2>1. tlSrc[m].kind = k /\ tlSrc[m].id = id
    BY <1>4 DEF Taken
  <2>2. k # "idle" => tlSrc[m].given = id
    BY <2>1 DEF TlInv, IdIsGiven
  <2>3. k \notin tlWrapped /\ tlSrc[m].given = id => m = n
    BY <2>1, Zenon DEF TlInv, IdsDistinct
  <2> QED BY <1>4, <2>2, <2>3, Zenon
<1>5. Taken(n, k, id, 0) \/ tlSrc[n].kind = "idle"
  BY <1>3 DEF TlInv, IdIsGiven, Taken
<1>6. \A m \in Sources : m # 0
  BY SourcesAre, Zenon DEF TlInv
<1> HIDE DEF k, id
<1> QED BY <1>1, <1>2, <1>3, <1>4, <1>5, <1>6, CleanupKeeps, Zenon

LEMMA EndsKeeps ==
  ASSUME TlInv, NEW k \in TlKinds, Ends(k)
  PROVE  TlInv'
<1>1. tlCall \in Sources /\ tlCall # 0 /\ tlSrc[tlCall].state \in {"live", "removed", "lost"}
  <2>1. tlCall # 0
    BY Zenon DEF Ends
  <2>2. tlCall \in Sources
    BY <2>1, SourcesAre DEF TlInv, TlShapes, Sources
  <2>3. tlSrc[tlCall] \in SrcSet
    BY <2>2, SourcesAre, Zenon DEF TlInv
  <2> QED BY <2>1, <2>2, <2>3 DEF TlInv, CallIsOpen, SrcSet
<1>2. /\ ~tlFault /\ tlSrc[tlCall].kind = k
      /\ tlNextId' = tlNextId /\ tlWrapped' = tlWrapped /\ tlRunning' = tlRunning /\ tlAsked' = tlAsked
  BY Zenon DEF Ends
<1>3. CASE tlSrc[tlCall].state = "live"
  <2>1. cleanup(k, 0, 0, tlCall) /\ tlCall' = 0 /\ tlFault' = tlFault
    BY <1>3, Zenon DEF Ends
  <2> QED BY <1>1, <1>2, <2>1, CleanupKeeps, Zenon
<1>4. CASE tlSrc[tlCall].state # "live"
  <2>1. tlFault' = TRUE /\ tlSrc' = tlSrc /\ tlVec' = tlVec /\ tlCap' = tlCap /\ tlCall' = tlCall
    BY <1>4, Zenon DEF Ends
  <2>2. TlFaultHasCause'
    BY <1>1, <1>4, <2>1 DEF TlFaultHasCause
  <2>3. TlShapes' /\ IdIsGiven' /\ IdsDistinct' /\ CallIsOpen' /\ LostHasCause' /\ RemovedIsGone'
    BY <1>2, <2>1 DEF TlInv, TlShapes, IdIsGiven, IdsDistinct, CallIsOpen, LostHasCause, RemovedIsGone, Sources
  <2>4. VectorIsLive' /\ VectorFits'
    BY <2>1, Zenon DEF VectorIsLive, VectorFits
  <2> QED BY <2>2, <2>3, <2>4, Zenon DEF TlInv
<1> QED BY <1>3, <1>4

\* Steps that only start or end a run or a callback.
LEMMA TurnsKeep ==
  ASSUME TlInv, ~tlFault,
         tlSrc' = tlSrc, tlVec' = tlVec, tlCap' = tlCap, tlNextId' = tlNextId, tlWrapped' = tlWrapped,
         tlAsked' = tlAsked, tlFault' = tlFault, tlRunning' \in BOOLEAN,
         tlCall' \in 0..Len(tlSrc), tlCall' # 0 => tlSrc[tlCall'].state # "fired"
  PROVE  TlInv'
<1>1. TlShapes'
  BY Zenon DEF TlInv, TlShapes, Sources
<1>2. CallIsOpen'
  BY Zenon DEF CallIsOpen
<1>3. VectorIsLive' /\ VectorFits' /\ TlFaultHasCause'
  BY DEF TlInv, VectorIsLive, VectorFits, TlFaultHasCause, InVector, TlLive, Sources
<1>4. IdIsGiven' /\ IdsDistinct' /\ LostHasCause' /\ RemovedIsGone'
  BY DEF TlInv, IdIsGiven, IdsDistinct, LostHasCause, RemovedIsGone, Sources
<1> QED BY <1>1, <1>2, <1>3, <1>4, Zenon DEF TlInv

LEMMA TlStep == TlInv /\ [TlNext]_tlVars => TlInv'
<1> SUFFICES ASSUME TlInv, [TlNext]_tlVars PROVE TlInv'
  OBVIOUS
<1>1. CASE UNCHANGED tlVars
  <2>1. /\ tlSrc' = tlSrc /\ tlVec' = tlVec /\ tlCap' = tlCap /\ tlNextId' = tlNextId /\ tlWrapped' = tlWrapped
        /\ tlCall' = tlCall /\ tlRunning' = tlRunning /\ tlAsked' = tlAsked /\ tlFault' = tlFault
    BY <1>1, Zenon DEF tlVars
  <2>2. TlShapes'
    BY <2>1, Zenon DEF TlInv, TlShapes, Sources
  <2>3. VectorIsLive' /\ VectorFits' /\ TlFaultHasCause'
    BY <2>1 DEF TlInv, VectorIsLive, VectorFits, TlFaultHasCause, InVector, TlLive, Sources
  <2>4. IdIsGiven' /\ IdsDistinct' /\ CallIsOpen' /\ LostHasCause' /\ RemovedIsGone'
    BY <2>1 DEF TlInv, IdIsGiven, IdsDistinct, CallIsOpen, LostHasCause, RemovedIsGone, Sources
  <2> QED BY <2>2, <2>3, <2>4, Zenon DEF TlInv
<1>2. /\ "timeout" \in TlKinds /\ "periodic" \in TlKinds /\ "watch" \in TlKinds /\ "idle" \in TlKinds
      /\ "timeout" # "idle" /\ "periodic" # "idle" /\ "watch" # "idle"
  BY DEF TlKinds
<1>3. \A k \in TlKinds : NewId(k) \in Nat
  BY NewIdIs DEF TlInv
<1>4. CASE tiny_add_timeout_callback \/ tiny_add_periodic_callback \/ tiny_add_fd_watch
  BY <1>2, <1>3, <1>4, AddsKeeps, Zenon
     DEF tiny_add_timeout_callback, tiny_add_periodic_callback, tiny_add_fd_watch
<1>5. CASE tiny_add_idle_callback
  <2>1. PICK garbage \in {0, 1, IdLimit} : Adds("idle", garbage)
    BY <1>5, Zenon DEF tiny_add_idle_callback
  <2>2. garbage \in Nat
    BY TinyLoopAssumption
  <2> QED BY <1>2, <2>1, <2>2, AddsKeeps, Zenon
<1>6. ASSUME NEW n \in Sources, tiny_remove(n) PROVE TlInv'
  BY <1>6, RemoveKeeps, Zenon
<1>7. ASSUME NEW n \in Sources, Reports(n) PROVE TlInv'
  <2>1. /\ ~tlFault /\ tlCall' = n /\ n \in TlLive
        /\ tlSrc' = tlSrc /\ tlVec' = tlVec /\ tlCap' = tlCap /\ tlNextId' = tlNextId /\ tlWrapped' = tlWrapped
        /\ tlAsked' = tlAsked /\ tlFault' = tlFault /\ tlRunning' = tlRunning
    BY <1>7, Zenon DEF Reports
  <2>2. tlRunning \in BOOLEAN /\ n \in 0..Len(tlSrc) /\ tlSrc[n].state # "fired"
    BY <2>1, SourcesAre DEF TlInv, TlShapes, TlLive, Sources
  <2> QED BY <2>1, <2>2, TurnsKeep, Zenon
<1>8. CASE tiny_loop_run \/ RunEnds
  <2>1. /\ ~tlFault /\ tlCall' = tlCall /\ tlRunning' \in BOOLEAN
        /\ tlSrc' = tlSrc /\ tlVec' = tlVec /\ tlCap' = tlCap /\ tlNextId' = tlNextId /\ tlWrapped' = tlWrapped
        /\ tlAsked' = tlAsked /\ tlFault' = tlFault
    BY <1>8, Zenon DEF tiny_loop_run, RunEnds
  <2>2. tlCall \in 0..Len(tlSrc) /\ (tlCall # 0 => tlSrc[tlCall].state # "fired")
    BY Zenon DEF TlInv, TlShapes, CallIsOpen
  <2> QED BY <2>1, <2>2, TurnsKeep, Zenon
<1>9. CASE tiny_loop_quit
  BY <1>1, <1>9, Zenon DEF tiny_loop_quit
<1>10. CASE Stays
  <2>1. /\ ~tlFault /\ tlCall' = 0 /\ tlRunning' = tlRunning
        /\ tlSrc' = tlSrc /\ tlVec' = tlVec /\ tlCap' = tlCap /\ tlNextId' = tlNextId /\ tlWrapped' = tlWrapped
        /\ tlAsked' = tlAsked /\ tlFault' = tlFault
    BY <1>10, Zenon DEF Stays
  <2>2. tlRunning \in BOOLEAN /\ 0 \in 0..Len(tlSrc)
    BY SourcesAre DEF TlInv, TlShapes
  <2> QED BY <2>1, <2>2, TurnsKeep, Zenon
<1>11. CASE _timeout_callback \/ _periodic_callback \/ _watch_callback \/ _idle_callback
  BY <1>2, <1>11, EndsKeeps, Zenon DEF _timeout_callback, _periodic_callback, _watch_callback, _idle_callback
<1> QED BY <1>1, <1>4, <1>5, <1>6, <1>7, <1>8, <1>9, <1>10, <1>11, Zenon DEF TlNext

LEMMA TlInvTypes == TlInv => TlTypeOK
<1> SUFFICES ASSUME TlInv PROVE TlTypeOK
  OBVIOUS
<1>1. \A n \in Sources : tlSrc[n] \in SrcSet
  BY SourcesAre, Zenon DEF TlInv
<1>2. \A n \in Sources : tlSrc[n].kind \in TlKinds /\ tlSrc[n].given \in 0..(IdLimit - 1)
  BY <1>1 DEF SrcSet
<1> QED BY <1>2, Zenon DEF TlInv, TlShapes, IdIsGiven, TlTypeOK

\* On TizenRT the vector of each kind points to its live sources and fits its
\* memory, and a source is lost or freed memory used only in the ways the
\* parts name, for any number of sources, any limit of the ids and any width
\* of a vector's length up to 16 bits (tinyara_loop.c).
THEOREM TinyLoopIsSound == TlSpec => []TinyLoopSound
<1>1. TlInv => TinyLoopSound
  BY TlInvTypes DEF TlInv, TinyLoopSound
<1> QED BY <1>1, TlStarts, TlStep, PTL DEF TlSpec

=============================================================================
