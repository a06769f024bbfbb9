---------------------------- MODULE ModuleManager ----------------------------
(***************************************************************************)
(* The SDK's module manager, src/src/modules/base/module/linux_module.c.   *)
(* Every thread of an application obtains the operations of a module by    *)
(* name and gives them back later.  The manager appends one node to a      *)
(* global list for each request, opens the module's shared library for the *)
(* first one only and closes it with the last one.  A mutex that the first *)
(* caller initialises protects the list.                                   *)
(*                                                                         *)
(* Abstractions: a node is the module it was filled in for, NULL when it   *)
(* was left zeroed by an error path; dl_handle, dl_symbol and the shared   *)
(* module_name string of a module are obtained and given back together and *)
(* are one counter, dl.                                                    *)
(***************************************************************************)
EXTENDS Integers, Sequences, FiniteSets

CONSTANTS Threads,    \* application threads
          Modules,    \* names of the platform's module table
          Resident,   \* modules of libartik-sdk-base, which stays mapped
          NULL,       \* the null pointer
          Failures,   \* the steps of a request that may fail in this instance
          LockReady,  \* the mutex was initialised before the threads started
          MaxNodes    \* bound on the length of the list

FailureKinds == {"list_add", "dlopen", "dlsym", "malloc"}

ASSUME ConstantsAssumption ==
    /\ NULL \notin Threads
    /\ NULL \notin Modules
    /\ Resident \subseteq Modules
    /\ Failures \subseteq FailureKinds
    /\ LockReady \in BOOLEAN
    /\ MaxNodes \in Nat

VARIABLES
    lock_initialized, \* the static flag of mutex_lock
    holder,           \* the thread that holds the mutex, or NULL
    requested_node,   \* the static list: a sequence of modules and NULLs
    dl,               \* dlopen calls minus dlclose calls, for each module
    refs,             \* history: requests that succeeded minus accepted releases
    pc, op, arg,      \* where each thread is, in which function, for which module
    found,            \* the local dl_handle of a request is not NULL
    fault             \* a null pointer was dereferenced: the process died

locals == <<pc, op, arg, found>>
shared == <<lock_initialized, holder, requested_node, dl, refs, fault>>
vars == <<lock_initialized, holder, requested_node, dl, refs, pc, op, arg,
          found, fault>>

Steps == {"idle", "check", "init", "flag", "lock", "find", "finish"}

InCS(t) == pc[t] \in {"find", "finish"}

(***************************************************************************)
(* Walking the list.  artik_compare_module_name and                        *)
(* artik_compare_module_ops both read through a pointer of every node they *)
(* pass, so a zeroed node before the first match is fatal.                 *)
(***************************************************************************)
Matches(l, m) == {i \in 1..Len(l) : l[i] = m}

DerefsNull(l, m) ==
    \E i \in 1..Len(l) : l[i] = NULL /\ \A j \in 1..i : l[j] # m

IsFirstMatch(l, m, k) ==
    k \in Matches(l, m) /\ \A j \in Matches(l, m) : k <= j

\* artik_list_delete_check unlinks the first node that matches.
Unlink(l, k) == [j \in 1..(Len(l) - 1) |-> IF j < k THEN l[j] ELSE l[j + 1]]

-----------------------------------------------------------------------------
Init ==
    /\ lock_initialized = LockReady
    /\ holder = NULL
    /\ requested_node = <<>>
    /\ dl = [m \in Modules |-> 0]
    /\ refs = [m \in Modules |-> 0]
    /\ pc = [t \in Threads |-> "idle"]
    /\ op = [t \in Threads |-> "request"]
    /\ arg \in [Threads -> Modules]
    /\ found = [t \in Threads |-> FALSE]
    /\ fault = FALSE

Goto(t, step) == pc' = [pc EXCEPT ![t] = step]

Call(t, o, m) ==
    /\ pc[t] = "idle"
    /\ Goto(t, "check")
    /\ op' = [op EXCEPT ![t] = o]
    /\ arg' = [arg EXCEPT ![t] = m]
    /\ UNCHANGED <<found, shared>>

\* artik_request_api_module: the name is one of the platform's table.  The
\* bound counts the requests already on their way.
Request(t, m) ==
    /\ Len(requested_node)
         + Cardinality({u \in Threads : pc[u] # "idle" /\ op[u] = "request"})
         < MaxNodes
    /\ Call(t, "request", m)

\* artik_release_api_module.  The operations pointer is only readable while
\* the library is mapped: a module outside libartik-sdk-base is released by a
\* caller that still holds it, one inside may be released once too often.
Releasing(m) == {u \in Threads : pc[u] # "idle" /\ op[u] = "release" /\ arg[u] = m}

Release(t, m) ==
    /\ m \in Resident \/ Cardinality(Releasing(m)) < refs[m]
    /\ Call(t, "release", m)

(***************************************************************************)
(* mutex_lock: the flag is read, the mutex initialised and the flag set    *)
(* without protection.  Initialising a mutex again makes it free, whoever  *)
(* holds it.                                                               *)
(***************************************************************************)
CheckFlag(t) ==
    /\ pc[t] = "check"
    /\ Goto(t, IF lock_initialized THEN "lock" ELSE "init")
    /\ UNCHANGED <<op, arg, found, shared>>

InitMutex(t) ==
    /\ pc[t] = "init"
    /\ holder' = NULL
    /\ Goto(t, "flag")
    /\ UNCHANGED <<lock_initialized, requested_node, dl, refs, op, arg, found,
                   fault>>

SetFlag(t) ==
    /\ pc[t] = "flag"
    /\ lock_initialized' = TRUE
    /\ Goto(t, "lock")
    /\ UNCHANGED <<holder, requested_node, dl, refs, op, arg, found, fault>>

Lock(t) ==
    /\ pc[t] = "lock"
    /\ holder = NULL
    /\ holder' = t
    /\ Goto(t, "find")
    /\ UNCHANGED <<lock_initialized, requested_node, dl, refs, op, arg, found,
                   fault>>

\* mutex_unlock and the return to the caller.
UnlockReturn(t) ==
    /\ holder' = NULL
    /\ Goto(t, "idle")

-----------------------------------------------------------------------------
(***************************************************************************)
(* os_request_api_module, under the mutex                                  *)
(***************************************************************************)
RequestFind(t) ==
    /\ pc[t] = "find" /\ op[t] = "request"
    /\ ~DerefsNull(requested_node, arg[t])
    /\ found' = [found EXCEPT ![t] = Matches(requested_node, arg[t]) # {}]
    /\ Goto(t, "finish")
    /\ UNCHANGED <<op, arg, shared>>

\* A node is appended and filled in; the library is opened unless the search
\* found it open.
RequestDone(t) ==
    /\ pc[t] = "finish" /\ op[t] = "request"
    /\ requested_node' = Append(requested_node, arg[t])
    /\ dl' = IF found[t] THEN dl ELSE [dl EXCEPT ![arg[t]] = @ + 1]
    /\ refs' = [refs EXCEPT ![arg[t]] = @ + 1]
    /\ UnlockReturn(t)
    /\ UNCHANGED <<lock_initialized, op, arg, found, fault>>

\* Mutant of RequestNoNode: an early return without mutex_unlock.
KeepsMutex(t) ==
    /\ pc[t] = "finish" /\ op[t] = "request"
    /\ "list_add" \in Failures
    /\ Goto(t, "idle")
    /\ UNCHANGED <<lock_initialized, holder, requested_node, dl, refs, op, arg,
                   found, fault>>

\* artik_list_add found no memory.
RequestNoNode(t) ==
    /\ pc[t] = "finish" /\ op[t] = "request"
    /\ "list_add" \in Failures
    /\ UnlockReturn(t)
    /\ UNCHANGED <<lock_initialized, requested_node, dl, refs, op, arg, found,
                   fault>>

\* dlopen failed, or dlsym or malloc after it: INVALID_MODULE is returned and
\* the node that was just appended stays in the list, zeroed.
RequestFails(t) ==
    /\ pc[t] = "finish" /\ op[t] = "request"
    /\ ~found[t]
    /\ \E f \in Failures \ {"list_add"} :
         dl' = IF f = "dlopen" THEN dl ELSE [dl EXCEPT ![arg[t]] = @ + 1]
    /\ requested_node' = Append(requested_node, NULL)
    /\ UnlockReturn(t)
    /\ UNCHANGED <<lock_initialized, refs, op, arg, found, fault>>

-----------------------------------------------------------------------------
(***************************************************************************)
(* os_release_api_module, under the mutex                                  *)
(***************************************************************************)
ReleaseUnlink(t) ==
    /\ pc[t] = "find" /\ op[t] = "release"
    /\ ~DerefsNull(requested_node, arg[t])
    /\ \E k \in 1..Len(requested_node) :
         /\ IsFirstMatch(requested_node, arg[t], k)
         /\ requested_node' = Unlink(requested_node, k)
    /\ refs' = [refs EXCEPT ![arg[t]] = @ - 1]
    /\ Goto(t, "finish")
    /\ UNCHANGED <<lock_initialized, holder, dl, op, arg, found, fault>>

\* "releasing invalid module"
ReleaseInvalid(t) ==
    /\ pc[t] = "find" /\ op[t] = "release"
    /\ ~DerefsNull(requested_node, arg[t])
    /\ Matches(requested_node, arg[t]) = {}
    /\ UnlockReturn(t)
    /\ UNCHANGED <<lock_initialized, requested_node, dl, refs, op, arg, found,
                   fault>>

\* Mutant of ReleaseClose: dlclose without the second search.
ClosesAlways(t) ==
    /\ pc[t] = "finish" /\ op[t] = "release"
    /\ dl' = [dl EXCEPT ![arg[t]] = @ - 1]
    /\ UnlockReturn(t)
    /\ UNCHANGED <<lock_initialized, requested_node, refs, op, arg, found,
                   fault>>

\* Mutant of ReleaseClose: the library is never given back.
NeverCloses(t) ==
    /\ pc[t] = "finish" /\ op[t] = "release"
    /\ UnlockReturn(t)
    /\ UNCHANGED <<lock_initialized, requested_node, dl, refs, op, arg, found,
                   fault>>

\* The second search: the last node of a module takes the library with it.
ReleaseClose(t) ==
    /\ pc[t] = "finish" /\ op[t] = "release"
    /\ ~DerefsNull(requested_node, arg[t])
    /\ dl' = IF Matches(requested_node, arg[t]) = {}
             THEN [dl EXCEPT ![arg[t]] = @ - 1] ELSE dl
    /\ UnlockReturn(t)
    /\ UNCHANGED <<lock_initialized, requested_node, refs, op, arg, found,
                   fault>>

\* Any of the searches meets a zeroed node: strncmp or memcmp of NULL.
SearchFaults(t) ==
    /\ pc[t] = "find" \/ (pc[t] = "finish" /\ op[t] = "release")
    /\ DerefsNull(requested_node, arg[t])
    /\ fault' = TRUE
    /\ UNCHANGED <<lock_initialized, holder, requested_node, dl, refs, locals>>

-----------------------------------------------------------------------------
Step(t) ==
    \/ CheckFlag(t)
    \/ InitMutex(t)
    \/ SetFlag(t)
    \/ Lock(t)
    \/ RequestFind(t)
    \/ RequestDone(t)
    \/ RequestNoNode(t)
    \/ RequestFails(t)
    \/ ReleaseUnlink(t)
    \/ ReleaseInvalid(t)
    \/ ReleaseClose(t)
    \/ SearchFaults(t)

Next ==
    /\ ~fault
    /\ \E t \in Threads :
         \/ \E m \in Modules : Request(t, m) \/ Release(t, m)
         \/ Step(t)

\* A thread inside a call keeps running; whether it makes another call is its
\* own affair, and the mutex gives no turn to any waiter in particular.
Fairness == \A t \in Threads : WF_vars(~fault /\ Step(t))

Spec == Init /\ [][Next]_vars

FairSpec == Spec /\ Fairness

-----------------------------------------------------------------------------
\* In particular no library is closed more often than it was opened, and no
\* more releases are accepted than requests succeeded.
TypeOK ==
    /\ lock_initialized \in BOOLEAN
    /\ holder \in Threads \cup {NULL}
    /\ requested_node \in Seq(Modules \cup {NULL})
    /\ dl \in [Modules -> Nat]
    /\ refs \in [Modules -> Nat]
    /\ pc \in [Threads -> Steps]
    /\ op \in [Threads -> {"request", "release"}]
    /\ arg \in [Threads -> Modules]
    /\ found \in [Threads -> BOOLEAN]
    /\ fault \in BOOLEAN

\* The list is only walked and changed by one thread at a time (mutex_lock,
\* mutex_unlock around both functions).
MutualExclusion ==
    \A t, u \in Threads : InCS(t) /\ InCS(u) => t = u

\* A library is opened for the first request only, "don't need to call DL
\* again": two requests of a module never hold two dlopen references.
OpenedOnce == \A m \in Modules : dl[m] \in {0, 1}

\* The operations handed out by a request stay callable until they are
\* released: the library of a module somebody holds is open.
HeldIsOpen == \A m \in Modules : refs[m] > 0 => dl[m] > 0

\* When no call is under way the list, the open libraries and the callers
\* agree: one node for each outstanding request, an open library exactly for
\* the modules on the list, so that nothing is leaked by a call that ended.
QuiescentAgreement ==
    (\A t \in Threads : ~InCS(t)) =>
        \A m \in Modules :
            /\ refs[m] = Cardinality(Matches(requested_node, m))
            /\ dl[m] > 0 <=> Matches(requested_node, m) # {}

\* "a pointer to a structure containing the module operations" is what a
\* request returns; no call may end the process instead.
NeverFaults == ~fault

\* Every return of the two functions passes through mutex_unlock.
MutexIsReleased == (holder # NULL) ~> (holder = NULL)

\* The manager implements the abstract registry: its list is the count and
\* its dlopen references the open set.
Registry == INSTANCE ModuleRegistry
              WITH count <- refs, open <- {m \in Modules : dl[m] > 0}

RegistrySpec == Registry!Spec

\* With an initialised mutex and libraries that open, whatever the threads do:
\* one at a time is inside the protected part, libraries are opened once, what
\* a caller holds is open, and between calls the list, the libraries and the
\* callers agree (os_request_api_module, os_release_api_module).
ManagerSafe ==
  /\ TypeOK /\ MutualExclusion /\ OpenedOnce /\ HeldIsOpen
  /\ QuiescentAgreement

=============================================================================
