-------------------------------- MODULE Loop --------------------------------
(***************************************************************************)
(* The main loop, src/src/modules/base/loop/linux_loop.c over GLib's main  *)
(* context.  Every add function allocates a closure (the callback and its  *)
(* user data), attaches a GLib source that points to it and hands the      *)
(* source's id out; every remove function removes the source of any kind   *)
(* by that id.  GLib frees the closure through the destroy callback when   *)
(* the source has gone and is not being dispatched.                        *)
(*                                                                         *)
(* External, modelled from how the code uses it: the order in which GLib   *)
(* dispatches (all ready sources of the best ready priority, by id), the   *)
(* reference it keeps on a closure while its callback runs, and that       *)
(* g_main_loop_quit takes effect at the end of an iteration.               *)
(***************************************************************************)
EXTENDS Integers, Sequences, FiniteSets

CONSTANT MaxId    \* bound on the sources ever attached

ASSUME MaxIdAssumption == MaxId \in Nat \ {0}

Ids == 1..MaxId

VARIABLES
    kind,       \* kind of the source with each id, "none" before it is added
    attached,   \* ids of the sources attached to the context
    closure,    \* the struct of each source: "none", "live" or "freed"
    ready,      \* sources whose event has happened
    batch,      \* what is left to dispatch in this iteration, in order
    current,    \* the source whose callback is running, 0 for none
    mainloop,   \* g_main_loop_new has been called
    is_running, \* the flag of the GMainLoop
    in_run,     \* g_main_loop_run has not returned
    quitting,   \* history: quit was called since run was
    fired       \* history: how often each source was dispatched, up to 2

sources == <<kind, attached, closure>>
runner == <<mainloop, is_running, in_run, quitting>>
vars == <<kind, attached, closure, ready, batch, current, mainloop, is_running,
          in_run, quitting, fired>>

Kinds == {"timeout", "periodic", "watch", "signal", "idle"}

\* G_PRIORITY_HIGH, G_PRIORITY_DEFAULT and G_PRIORITY_DEFAULT_IDLE, best first.
Priority(k) == CASE k \in {"timeout", "periodic", "watch"} -> 1
                 [] k = "signal" -> 2
                 [] OTHER -> 3

Init ==
    /\ kind = [i \in Ids |-> "none"]
    /\ attached = {}
    /\ closure = [i \in Ids |-> "none"]
    /\ ready = {}
    /\ batch = <<>>
    /\ current = 0
    /\ mainloop = FALSE
    /\ is_running = FALSE
    /\ in_run = FALSE
    /\ quitting = FALSE
    /\ fired = [i \in Ids |-> 0]

\* Application code runs before run, after it, and inside callbacks.
AppRuns == ~in_run \/ current # 0

-----------------------------------------------------------------------------
(***************************************************************************)
(* Adding and removing                                                     *)
(***************************************************************************)
NextIds == {i \in Ids : kind[i] = "none" /\ \A j \in Ids : kind[j] = "none" => i <= j}

Add(k) ==
    /\ AppRuns
    /\ \E i \in NextIds :
         /\ kind' = [kind EXCEPT ![i] = k]
         /\ attached' = attached \cup {i}
         /\ closure' = [closure EXCEPT ![i] = "live"]
         /\ ready' = IF k = "idle" THEN ready \cup {i} ELSE ready
    /\ UNCHANGED <<batch, current, fired, runner>>

os_add_timeout_callback == Add("timeout")
os_add_periodic_callback == Add("periodic")
os_add_fd_watch == Add("watch")
os_add_signal_watch == Add("signal")
os_add_idle_callback == Add("idle")

\* Mutant of g_source_remove: the closure is freed at once.
RemoveFrees(i) ==
    /\ i \in attached
    /\ attached' = attached \ {i}
    /\ ready' = ready \ {i}
    /\ closure' = [closure EXCEPT ![i] = "freed"]

\* g_source_remove finds the id and runs the destroy callback, later when the
\* source is being dispatched.
g_source_remove(i) ==
    /\ i \in attached
    /\ attached' = attached \ {i}
    /\ ready' = ready \ {i}
    /\ closure' = IF i = current THEN closure ELSE [closure EXCEPT ![i] = "freed"]

\* The five os_remove functions; an id that is not attached is refused.
Remove(i) ==
    /\ AppRuns
    /\ g_source_remove(i)
    /\ UNCHANGED <<kind, batch, current, fired, runner>>

-----------------------------------------------------------------------------
(***************************************************************************)
(* Running                                                                 *)
(***************************************************************************)
os_loop_run ==
    /\ ~in_run
    /\ mainloop' = TRUE
    /\ is_running' = TRUE
    /\ in_run' = TRUE
    /\ quitting' = FALSE
    /\ UNCHANGED <<sources, ready, batch, current, fired>>

\* Mutant of os_loop_quit: the test of mainloop is inverted.
QuitIgnored ==
    /\ AppRuns
    /\ is_running' = (is_running /\ mainloop)
    /\ quitting' = in_run
    /\ UNCHANGED <<sources, ready, batch, current, mainloop, in_run, fired>>

os_loop_quit ==
    /\ AppRuns
    /\ is_running' = (is_running /\ ~mainloop)
    /\ quitting' = in_run
    /\ UNCHANGED <<sources, ready, batch, current, mainloop, in_run, fired>>

\* A timer expires, a descriptor becomes ready, a signal is delivered.
Event(i) ==
    /\ i \in attached \ ready
    /\ ready' = ready \cup {i}
    /\ UNCHANGED <<sources, batch, current, runner, fired>>

Best == {i \in ready : \A j \in ready : Priority(kind[i]) <= Priority(kind[j])}

Ordered(s) == \A a, b \in DOMAIN s : a < b => s[a] < s[b]

Iterating == in_run /\ current = 0 /\ batch = <<>>

\* One iteration of g_main_context_iteration collects what it will dispatch.
Iterate ==
    /\ Iterating
    /\ is_running
    /\ ready # {}
    /\ \E s \in [1..Cardinality(Best) -> Best] : Ordered(s) /\ batch' = s
    /\ UNCHANGED <<sources, ready, current, runner, fired>>

RunReturns ==
    /\ Iterating
    /\ ~is_running
    /\ in_run' = FALSE
    /\ quitting' = FALSE
    /\ UNCHANGED <<sources, ready, batch, current, mainloop, is_running, fired>>

\* A source removed by an earlier callback of the iteration is passed over.
SkipDestroyed ==
    /\ current = 0 /\ batch # <<>>
    /\ Head(batch) \notin attached
    /\ batch' = Tail(batch)
    /\ UNCHANGED <<sources, ready, current, runner, fired>>

Dispatch ==
    /\ current = 0 /\ batch # <<>>
    /\ Head(batch) \in attached
    /\ current' = Head(batch)
    /\ batch' = Tail(batch)
    /\ fired' = [fired EXCEPT ![Head(batch)] = IF @ < 2 THEN @ + 1 ELSE 2]
    /\ UNCHANGED <<sources, ready, runner>>

\* _timeout_callback always returns FALSE; the others TRUE for 1 only.
Keeps(k, ret) == k # "timeout" /\ ret = 1

\* The application's callback returns: 1 renews, 0 cancels, and -1 stands for
\* the error codes some callbacks of the SDK return.
Return(ret) ==
    /\ current # 0
    /\ LET kept == current \in attached /\ Keeps(kind[current], ret) IN
         /\ attached' = IF kept THEN attached ELSE attached \ {current}
         /\ closure' = IF kept THEN closure
                       ELSE [closure EXCEPT ![current] = "freed"]
         /\ ready' = IF kept /\ kind[current] = "idle" THEN ready
                     ELSE ready \ {current}
    /\ current' = 0
    /\ UNCHANGED <<kind, batch, runner, fired>>

-----------------------------------------------------------------------------
Next ==
    \/ os_add_timeout_callback
    \/ os_add_periodic_callback
    \/ os_add_fd_watch
    \/ os_add_signal_watch
    \/ os_add_idle_callback
    \/ \E i \in Ids : Remove(i) \/ Event(i)
    \/ os_loop_run
    \/ os_loop_quit
    \/ Iterate
    \/ RunReturns
    \/ SkipDestroyed
    \/ Dispatch
    \/ \E ret \in {-1, 0, 1} : Return(ret)

Spec == Init /\ [][Next]_vars

\* The loop's own steps are taken, and callbacks return.  Nothing says that
\* events happen or that the application calls anything.
Fairness ==
    /\ WF_vars(Iterate \/ RunReturns \/ SkipDestroyed \/ Dispatch)
    /\ WF_vars(\E ret \in {-1, 0, 1} : Return(ret))

FairSpec == Spec /\ Fairness

-----------------------------------------------------------------------------
TypeOK ==
    /\ kind \in [Ids -> Kinds \cup {"none"}]
    /\ attached \subseteq Ids
    /\ closure \in [Ids -> {"none", "live", "freed"}]
    /\ ready \subseteq Ids /\ ready \subseteq attached \cup {current}
    /\ batch \in Seq(Ids)
    /\ current \in Ids \cup {0}
    /\ mainloop \in BOOLEAN /\ is_running \in BOOLEAN /\ in_run \in BOOLEAN
    /\ quitting \in BOOLEAN
    /\ fired \in [Ids -> 0..2]

\* A callback never runs on a freed closure, even when it removes its own
\* source (the destroy callbacks clear and free the struct).
NoUseAfterFree == current # 0 => closure[current] = "live"

\* Every closure is freed once its source has gone, on every way a source can
\* go: removed, cancelled by its callback's result, or expired.
NothingLeaks ==
    \A i \in Ids : closure[i] = "live" <=> i \in attached \/ i = current

\* "Calls a function after a specified number of milliseconds": once.
TimeoutFiresOnce == \A i \in Ids : kind[i] = "timeout" => fired[i] <= 1

\* A callback that did not return 1 leaves the loop, and a source that has left
\* it, in whatever way and even when it is due later in the same iteration, is
\* neither dispatched nor attached again.
CancelledStays ==
    [][/\ \A ret \in {-1, 0} : Return(ret) => current \notin attached'
       /\ \A i \in Ids : kind[i] # "none" /\ i \notin attached =>
            i \notin attached' /\ (current' = i => current = i)]_vars

\* "Runs a main loop until quit is called": a quit from inside a callback makes
\* run return, however many sources are ready and renewed.
QuitEnds == quitting ~> ~in_run

\* Closures live exactly as long as their source or its running callback, none
\* is used after it was freed, and a timeout fires once (the add, remove,
\* callback and destroy functions).
LoopSafe ==
  /\ TypeOK /\ NoUseAfterFree /\ NothingLeaks /\ TimeoutFiresOnce

\* A source that was removed is not dispatched again, and run returns after
\* quit however many sources stay ready (os_loop_quit, os_remove_*).
LoopSteps ==
  /\ CancelledStays /\ QuitEnds

=============================================================================
