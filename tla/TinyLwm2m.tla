----------------------------- MODULE TinyLwm2m -----------------------------
(***************************************************************************)
(* lwm2m on TizenRT (tinyara_lwm2m.c): a client is serviced by a thread of *)
(* its own, which stops it when quit is set, by disconnect or after an     *)
(* error.  Wakaama calls the handlers from that thread, and the callbacks  *)
(* of the application run in it, where they may call the module.  The      *)
(* other thread of the application makes one call at a time; a callback    *)
(* disconnects no client but its own.  A join of the calling thread fails  *)
(* (EDEADLK).  Use of a freed node or of a stopped client ends the         *)
(* behaviour.                                                              *)
(***************************************************************************)
EXTENDS Integers, FiniteSets

CONSTANTS
  TyAddrs,      \* addresses a node may get
  MaxTyEvents,  \* events Wakaama reports in a behaviour
  MaxTyStarts   \* clients started in a behaviour

ASSUME TinyLwm2mAssumption ==
  IsFiniteSet(TyAddrs) /\ MaxTyEvents \in Nat /\ MaxTyStarts \in Nat

TyEvents == {"error", "execute", "changed"}

VARIABLES
  tyNodes,   \* the list of nodes: callbacks and quit
  tyThreads, \* where the thread of each address is: "none" once it is gone
  tyClients, \* Wakaama's clients: "none", "up" or "stopped"
  tyRegs,    \* what Wakaama has registered for each client
  tyJoin,    \* the nodes the application waits for in disconnect
  tyEvents,  \* events reported so far
  tyStarts,  \* clients started so far
  tyLeaks,   \* clients whose connect failed after they had started
  tyFault,   \* a freed node or a stopped client was used
  tyCause    \* what happened that explains a fault

tyVars == <<tyNodes, tyThreads, tyClients, tyRegs, tyJoin, tyEvents, tyStarts, tyLeaks, tyFault, tyCause>>

TyLive == DOMAIN tyNodes

TyInit ==
  /\ tyNodes = <<>>
  /\ tyThreads = [a \in TyAddrs |-> "none"]
  /\ tyClients = [a \in TyAddrs |-> "none"]
  /\ tyRegs = [a \in TyAddrs |-> {}]
  /\ tyJoin = {} /\ tyEvents = 0 /\ tyStarts = 0 /\ tyLeaks = 0
  /\ tyFault = FALSE /\ tyCause = {}

\* The application's own thread is not in a call, or the thread of node a is
\* in a callback: the caller of an operation.
Callers == (IF tyJoin = {} THEN {"app"} ELSE {})
             \cup {a \in TyAddrs : tyThreads[a] \in {"error", "event"}}

TyMay(c, a) == ~tyFault /\ c \in Callers /\ a \in TyLive

-----------------------------------------------------------------------------
(* Connecting and disconnecting.                                           *)

\* A client that does not start leaves nothing.  Where the mutex, the
\* attributes or the thread cannot be made the node is deleted: disconnect,
\* called with the client or the node, stops no client, which is left to the
\* thread.
tiny_client_connect(c, a) ==
  /\ ~tyFault /\ c \in Callers /\ a \notin TyLive /\ tyThreads[a] = "none"
  /\ tyStarts < MaxTyStarts
  /\ tyStarts' = tyStarts + 1
  /\ \/ UNCHANGED <<tyNodes, tyThreads, tyClients, tyRegs, tyLeaks>>
     \/ tyLeaks' = tyLeaks + 1 /\ UNCHANGED <<tyNodes, tyThreads, tyClients, tyRegs>>
     \/ /\ tyNodes' = [x \in TyLive \cup {a} |-> IF x = a THEN [cbs |-> {}, quit |-> FALSE] ELSE tyNodes[x]]
        /\ tyThreads' = [tyThreads EXCEPT ![a] = "loop"]
        /\ tyClients' = [tyClients EXCEPT ![a] = "up"]
        /\ tyRegs' = [tyRegs EXCEPT ![a] = {}]
        /\ UNCHANGED tyLeaks
  /\ UNCHANGED <<tyJoin, tyEvents, tyFault, tyCause>>

TyDelete(a) == tyNodes' = [x \in TyLive \ {a} |-> tyNodes[x]]

\* Mutant: the thread is not waited for.
DisconnectUnjoined(c, a) ==
  /\ TyMay(c, a)
  /\ TyDelete(a)
  /\ UNCHANGED <<tyThreads, tyClients, tyRegs, tyJoin, tyEvents, tyStarts, tyLeaks, tyFault, tyCause>>

\* Mutant: quit is not set, the thread is waited for all the same.
DisconnectWithoutQuit(c, a) ==
  /\ TyMay(c, a)
  /\ tyJoin' = tyJoin \cup {a}
  /\ UNCHANGED <<tyNodes, tyThreads, tyClients, tyRegs, tyEvents, tyStarts, tyLeaks, tyFault, tyCause>>

\* quit is set and the thread joined; in a callback of the thread itself the
\* join fails and the node is deleted under it.
tiny_client_disconnect(c, a) ==
  /\ TyMay(c, a) /\ a \notin tyJoin
  /\ IF c = a
     THEN /\ TyDelete(a)
          /\ tyCause' = tyCause \cup {"in callback"}
          /\ UNCHANGED tyJoin
     ELSE /\ c = "app"
          /\ tyNodes' = [tyNodes EXCEPT ![a].quit = TRUE]
          /\ tyJoin' = tyJoin \cup {a}
          /\ UNCHANGED tyCause
  /\ UNCHANGED <<tyThreads, tyClients, tyRegs, tyEvents, tyStarts, tyLeaks, tyFault>>

\* pthread_join returns, and the node is deleted.
DisconnectReturns(a) ==
  /\ ~tyFault /\ a \in tyJoin /\ tyThreads[a] = "none"
  /\ tyJoin' = tyJoin \ {a}
  /\ IF a \in TyLive THEN TyDelete(a) /\ UNCHANGED tyFault
     ELSE tyFault' = TRUE /\ UNCHANGED tyNodes
  /\ UNCHANGED <<tyThreads, tyClients, tyRegs, tyEvents, tyStarts, tyLeaks, tyCause>>

-----------------------------------------------------------------------------
(* The servicing thread.                                                   *)

ThreadTo(a, pc) == tyThreads' = [tyThreads EXCEPT ![a] = pc]

\* One turn of the loop: quit is read, Wakaama serviced.  An error is
\* reported where the application wants it, and sets quit in any case.
_lwm2m_service_thread(a) ==
  /\ ~tyFault /\ tyThreads[a] = "loop"
  /\ IF a \notin TyLive
     THEN tyFault' = TRUE /\ UNCHANGED tyThreads
     ELSE /\ UNCHANGED tyFault
          /\ IF tyNodes[a].quit THEN ThreadTo(a, "stop")
             ELSE \/ UNCHANGED tyThreads
                  \/ ThreadTo(a, IF "error" \in tyNodes[a].cbs THEN "error" ELSE "failed")
  /\ UNCHANGED <<tyNodes, tyClients, tyRegs, tyJoin, tyEvents, tyStarts, tyLeaks, tyCause>>

\* A callback of the application returns: the error is followed by quit, and
\* on_lwm2m_event reads nothing more of the node.
CallbackEnds(a) ==
  /\ ~tyFault /\ tyThreads[a] \in {"error", "event"}
  /\ ThreadTo(a, IF tyThreads[a] = "error" THEN "failed" ELSE "loop")
  /\ UNCHANGED <<tyNodes, tyClients, tyRegs, tyJoin, tyEvents, tyStarts, tyLeaks, tyFault, tyCause>>

ThreadFailed(a) ==
  /\ ~tyFault /\ tyThreads[a] = "failed"
  /\ IF a \in TyLive
     THEN tyNodes' = [tyNodes EXCEPT ![a].quit = TRUE] /\ ThreadTo(a, "stop") /\ UNCHANGED tyFault
     ELSE tyFault' = TRUE /\ UNCHANGED <<tyNodes, tyThreads>>
  /\ UNCHANGED <<tyClients, tyRegs, tyJoin, tyEvents, tyStarts, tyLeaks, tyCause>>

\* lwm2m_client_stop and pthread_exit.
ThreadStops(a) ==
  /\ ~tyFault /\ tyThreads[a] = "stop"
  /\ ThreadTo(a, "none")
  /\ tyClients' = [tyClients EXCEPT ![a] = "stopped"]
  /\ tyFault' = (a \notin TyLive)
  /\ tyCause' = IF ~(a \in tyJoin) THEN tyCause \cup {"after error"} ELSE tyCause
  /\ UNCHANGED <<tyNodes, tyRegs, tyJoin, tyEvents, tyStarts, tyLeaks>>

\* Wakaama calls a handler while it is serviced: the application's callback
\* is called at once, if it is set.
on_lwm2m_event(a, event) ==
  /\ ~tyFault /\ tyThreads[a] = "loop" /\ tyEvents < MaxTyEvents
  /\ a \in TyLive /\ ~tyNodes[a].quit
  /\ event \in tyRegs[a] \cap tyNodes[a].cbs
  /\ tyEvents' = tyEvents + 1
  /\ ThreadTo(a, "event")
  /\ UNCHANGED <<tyNodes, tyClients, tyRegs, tyJoin, tyStarts, tyLeaks, tyFault, tyCause>>

tiny_exec_factory_reset(a) == on_lwm2m_event(a, "execute")
tiny_exec_device_reboot(a) == on_lwm2m_event(a, "execute")
tiny_exec_firmware_update(a) == on_lwm2m_event(a, "execute")
tiny_resource_changed(a) == on_lwm2m_event(a, "changed")

-----------------------------------------------------------------------------
(* What the application may do with a client.                              *)

\* The client is used under the mutex, which does not say whether it runs.
UsesClient(c, a) ==
  /\ TyMay(c, a)
  /\ tyFault' = (tyClients[a] # "up")
  /\ tyCause' = IF a \in tyJoin THEN tyCause \cup {"disconnecting"} ELSE tyCause

tiny_write_resource(c, a) ==
  UsesClient(c, a) /\ UNCHANGED <<tyNodes, tyThreads, tyClients, tyRegs, tyJoin, tyEvents, tyStarts, tyLeaks>>

tiny_read_resource(c, a) ==
  UsesClient(c, a) /\ UNCHANGED <<tyNodes, tyThreads, tyClients, tyRegs, tyJoin, tyEvents, tyStarts, tyLeaks>>

\* The test of a constant is the one of the Linux build.
TyWakaamaOf(event) == IF event = "execute" THEN "execute" ELSE "changed"

tiny_set_callback(c, a, event) ==
  /\ UsesClient(c, a)
  /\ tyNodes' = [tyNodes EXCEPT ![a].cbs = @ \cup {event}]
  /\ tyRegs' = [tyRegs EXCEPT ![a] = @ \cup {TyWakaamaOf(event)}]
  /\ UNCHANGED <<tyThreads, tyClients, tyJoin, tyEvents, tyStarts, tyLeaks>>

tiny_unset_callback(c, a, event) ==
  /\ UsesClient(c, a)
  /\ tyNodes' = [tyNodes EXCEPT ![a].cbs = @ \ {event}]
  /\ tyRegs' = [tyRegs EXCEPT ![a] = @ \ {TyWakaamaOf(event)}]
  /\ UNCHANGED <<tyThreads, tyClients, tyJoin, tyEvents, tyStarts, tyLeaks>>

TyThread(a) ==
  \/ _lwm2m_service_thread(a) \/ CallbackEnds(a) \/ ThreadFailed(a) \/ ThreadStops(a)

TyNext ==
  \E a \in TyAddrs :
    \/ TyThread(a)
    \/ DisconnectReturns(a)
    \/ tiny_exec_factory_reset(a) \/ tiny_exec_device_reboot(a)
    \/ tiny_exec_firmware_update(a) \/ tiny_resource_changed(a)
    \/ \E c \in Callers :
         \/ tiny_client_connect(c, a) \/ tiny_client_disconnect(c, a)
         \/ tiny_write_resource(c, a) \/ tiny_read_resource(c, a)
         \/ \E e \in TyEvents : tiny_set_callback(c, a, e) \/ tiny_unset_callback(c, a, e)

TySpec == TyInit /\ [][TyNext]_tyVars

\* Every thread goes on: servicing returns after 100 ms at the latest, and
\* the callbacks of the application return.  Nothing says that servicing ever
\* fails, so a turn of the loop that does not find quit may change nothing.
TyGoesOn(a) ==
  /\ tyThreads[a] = "loop" /\ a \in TyLive => tyNodes[a].quit
  /\ TyThread(a)

TyFairness == \A a \in TyAddrs : WF_tyVars(TyGoesOn(a)) /\ WF_tyVars(DisconnectReturns(a))

-----------------------------------------------------------------------------
(* Properties.                                                             *)

\* A node on the list has a client, and only a thread that has not ended has
\* a client that runs.
TyTypeOK ==
  /\ TyLive \subseteq TyAddrs
  /\ \A a \in TyAddrs : /\ tyThreads[a] \in {"none", "loop", "error", "event", "failed", "stop"}
                        /\ tyRegs[a] \subseteq {"execute", "changed"}
                        /\ a \in TyLive => tyClients[a] # "none"
                        /\ tyClients[a] = "up" => tyThreads[a] # "none"
  /\ tyLeaks <= tyStarts /\ tyFault \in BOOLEAN

\* A freed node or a stopped client is used only where the application
\* disconnected in a callback of the client's own thread, went on to use a
\* client whose thread had ended with an error, or used one in the callback
\* of another client's thread while it was being disconnected.
TyFaultHasCause == tyFault => tyCause # {}

\* When disconnect has returned, the thread has ended and its client is
\* stopped: no callback of a client comes later, unless the application
\* disconnected in one.
DisconnectedIsQuiet ==
  \A a \in TyAddrs : a \notin TyLive \cup tyJoin /\ "in callback" \notin tyCause =>
    tyThreads[a] = "none" /\ tyClients[a] # "up"

\* A client is stopped by its thread at its end, not before: while it has a
\* thread that services it, it runs.
ServicedIsUp == \A a \in TyAddrs : tyThreads[a] # "none" => tyClients[a] = "up"

\* disconnect returns, also while the thread is in a callback or has ended
\* with an error, if nothing freed is used.
TinyDisconnectEnds == \A a \in TyAddrs : (a \in tyJoin) ~> (tyFault \/ a \notin tyJoin)

\* A client whose disconnect has returned gets no more callbacks, a client
\* that is serviced is up, and a freed node is met only after the disconnects
\* the parts name (tinyara_lwm2m.c).
TinyLwm2mSound ==
  /\ TyTypeOK /\ TyFaultHasCause /\ DisconnectedIsQuiet /\ ServicedIsUp

=============================================================================
