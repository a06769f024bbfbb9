--------------------------- MODULE ModuleRegistry ---------------------------
(***************************************************************************)
(* What the module manager promises its callers, without lists, locks or   *)
(* threads: a module has a number of outstanding requests, its shared      *)
(* library is open whenever that number is not zero, and it is opened at   *)
(* most once whatever the number.                                          *)
(***************************************************************************)
EXTENDS Naturals

CONSTANT Modules    \* names of the platform's module table

VARIABLES count,    \* outstanding successful requests of each module
          open      \* modules whose library is open

vars == <<count, open>>

Init ==
    /\ count = [m \in Modules |-> 0]
    /\ open = {}

\* artik_request_api_module succeeds: the library is open when it returns.
Request(m) ==
    /\ count' = [count EXCEPT ![m] = @ + 1]
    /\ open' = open \cup {m}

\* artik_release_api_module returns S_OK.
Release(m) ==
    /\ count[m] > 0
    /\ count' = [count EXCEPT ![m] = @ - 1]
    /\ UNCHANGED open

\* The library of a module nobody holds any more is closed.
Close(m) ==
    /\ m \in open
    /\ count[m] = 0
    /\ open' = open \ {m}
    /\ UNCHANGED count

Next == \E m \in Modules : Request(m) \/ Release(m) \/ Close(m)

Spec == Init /\ [][Next]_vars
=============================================================================
