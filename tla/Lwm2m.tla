------------------------------- MODULE Lwm2m -------------------------------
(***************************************************************************)
(* lwm2m on Linux (linux_lwm2m.c): client nodes, the timeout that services *)
(* Wakaama and renews itself, and the idle callbacks Wakaama's receiving   *)
(* thread posts to the main loop.  That thread is cut where the idle       *)
(* source is attached and its id not yet stored.  Wakaama is external: it  *)
(* calls what is registered while its client runs, and stopping a client   *)
(* waits for the callback its thread is in.  A freed address may be        *)
(* allocated again.  The application acts from the main loop, inside its   *)
(* callbacks too.  After a use of freed memory the behaviour ends.         *)
(***************************************************************************)
EXTENDS Integers, FiniteSets

CONSTANTS
  LwAddrs,      \* addresses a node may get
  MaxLwTimers,  \* timeouts added in a behaviour
  MaxLwPosts,   \* events Wakaama reports in a behaviour
  MaxLwObjects  \* objects the application holds at a time

ASSUME Lwm2mAssumption ==
  /\ IsFiniteSet(LwAddrs)
  /\ MaxLwTimers \in Nat /\ MaxLwPosts \in Nat /\ MaxLwObjects \in Nat

LwEvents == {"error", "execute", "changed"}

VARIABLES
  lwNodes,    \* the list of nodes: address, callbacks, service_cbk_id
  lwRegs,     \* what Wakaama has registered for the client of each node
  lwTimers,   \* service timeouts on the loop: id and node
  lwNextId,   \* the id the next timeout gets
  lwIdles,    \* idle callbacks on the loop: id, node, event, id stored
  lwPosts,    \* events reported so far
  lwCall,     \* the callback of the application that runs, and for what
  lwRefs,     \* references to the loop module
  lwObjects,  \* the objects the application holds, each with its contents
  lwFault,    \* a node or an id was used that was freed or not yet written
  lwCause,    \* what happened that explains a fault or a loss
  lwFailed    \* nodes whose servicing ended with an error, and failed starts

lwVars == <<lwNodes, lwRegs, lwTimers, lwNextId, lwIdles, lwPosts, lwCall, lwRefs,
            lwObjects, lwFault, lwCause, lwFailed>>

NoCall == [kind |-> "none", idle |-> 0]

LwLive == DOMAIN lwNodes

LwInit ==
  /\ lwNodes = <<>> /\ lwRegs = [a \in LwAddrs |-> {}]
  /\ lwTimers = {} /\ lwNextId = 1
  /\ lwIdles = {} /\ lwPosts = 0
  /\ lwCall = NoCall /\ lwRefs = 0 /\ lwObjects = {}
  /\ lwFault = FALSE /\ lwCause = {}
  /\ lwFailed = [nodes |-> {}, starts |-> 0]

\* The main loop is free to dispatch, or the application has the control.
LwFree == ~lwFault /\ lwCall = NoCall
LwApp == ~lwFault

Without(f, a) == [x \in DOMAIN f \ {a} |-> f[x]]

\* The application has the handle of a node that was connected.
Known(a) == LwApp /\ a \in LwLive /\ lwNodes[a].cbkId # 0

-----------------------------------------------------------------------------
(* Connecting and disconnecting.                                           *)

\* Where Wakaama does not start, the node goes and the reference to the loop
\* stays.  Where the timeout is refused, disconnect is given the client and
\* finds no node of that handle: the node stays on the list, unserviced, and
\* its handle is not returned.
os_lwm2m_client_connect(a) ==
  /\ LwApp /\ a \notin LwLive /\ lwNextId <= MaxLwTimers /\ lwRefs < Cardinality(LwAddrs) + 1
  /\ lwRefs' = lwRefs + 1
  /\ \/ /\ lwFailed' = [lwFailed EXCEPT !.starts = @ + 1]
        /\ UNCHANGED <<lwNodes, lwTimers, lwNextId>>
     \/ \E ok \in BOOLEAN :
          /\ lwNodes' = [x \in LwLive \cup {a} |->
                           IF x = a THEN [cbs |-> {}, cbkId |-> IF ok THEN lwNextId ELSE 0]
                                    ELSE lwNodes[x]]
          /\ lwTimers' = IF ok THEN lwTimers \cup {[id |-> lwNextId, node |-> a]} ELSE lwTimers
          /\ lwNextId' = IF ok THEN lwNextId + 1 ELSE lwNextId
          /\ lwFailed' = [lwFailed EXCEPT !.nodes = IF ok THEN @ \ {a} ELSE @ \cup {a}]
  /\ UNCHANGED <<lwRegs, lwIdles, lwPosts, lwCall, lwObjects, lwFault, lwCause>>

\* The timeout and the posted callbacks stay on the loop with the address.
os_lwm2m_client_disconnect(a) ==
  /\ Known(a)
  /\ \A i \in lwIdles : i.node = a => i.stored
  /\ lwNodes' = Without(lwNodes, a)
  /\ lwRegs' = [lwRegs EXCEPT ![a] = {}]
  /\ lwRefs' = lwRefs - 1
  /\ lwCause' = IF (\E t \in lwTimers : t.node = a) \/ (\E i \in lwIdles : i.node = a)
                THEN lwCause \cup {"left"} ELSE lwCause
  /\ lwFailed' = [lwFailed EXCEPT !.nodes = @ \ {a}]
  /\ UNCHANGED <<lwTimers, lwNextId, lwIdles, lwPosts, lwCall, lwObjects, lwFault>>

-----------------------------------------------------------------------------
(* Servicing.                                                              *)

\* Mutant: a new timeout is added only after an error.
ServiceStops(t) ==
  /\ LwFree /\ t \in lwTimers
  /\ lwTimers' = lwTimers \ {t}
  /\ lwFault' = (t.node \notin LwLive)
  /\ UNCHANGED <<lwNodes, lwRegs, lwNextId, lwIdles, lwPosts, lwCall, lwRefs, lwObjects, lwCause, lwFailed>>

\* The timeout leaves the loop as it fires.  An error ends the servicing and
\* is reported, where the application wants it; otherwise the next timeout is
\* added, and where that fails disconnect finds no node, as above.
on_lwm2m_service_callback(t) ==
  /\ LwFree /\ t \in lwTimers
  /\ \/ /\ t.node \notin LwLive
        /\ lwFault' = TRUE
        /\ lwTimers' = lwTimers \ {t}
        /\ UNCHANGED <<lwNextId, lwCall, lwNodes, lwFailed>>
     \/ /\ t.node \in LwLive
        /\ lwTimers' = lwTimers \ {t}
        /\ lwFailed' = [lwFailed EXCEPT !.nodes = @ \cup {t.node}]
        /\ lwCall' = IF "error" \in lwNodes[t.node].cbs THEN [kind |-> "error", idle |-> 0] ELSE NoCall
        /\ UNCHANGED <<lwNextId, lwFault, lwNodes>>
     \/ /\ t.node \in LwLive /\ lwNextId <= MaxLwTimers
        /\ \E ok \in BOOLEAN :
             /\ lwTimers' = {u \in lwTimers : u # t /\ u.id # lwNodes[t.node].cbkId}
                              \cup (IF ok THEN {[id |-> lwNextId, node |-> t.node]} ELSE {})
             /\ lwNextId' = IF ok THEN lwNextId + 1 ELSE lwNextId
             /\ lwNodes' = IF ok THEN [lwNodes EXCEPT ![t.node].cbkId = lwNextId] ELSE lwNodes
             /\ lwFailed' = IF ok THEN lwFailed ELSE [lwFailed EXCEPT !.nodes = @ \cup {t.node}]
        /\ UNCHANGED <<lwCall, lwFault>>
  /\ UNCHANGED <<lwRegs, lwIdles, lwPosts, lwRefs, lwObjects, lwCause>>

-----------------------------------------------------------------------------
(* Events of Wakaama.                                                      *)

\* Wakaama calls one of the four handlers from its own thread: the idle
\* source is attached here and its id stored in the next step.
Post(a, event) ==
  /\ ~lwFault /\ lwPosts < MaxLwPosts
  /\ a \in LwLive /\ event \in lwRegs[a] /\ event \in lwNodes[a].cbs
  /\ \A i \in lwIdles : i.node = a => i.stored
  /\ lwPosts' = lwPosts + 1
  /\ lwIdles' = lwIdles \cup {[id |-> lwPosts + 1, node |-> a, event |-> event, stored |-> FALSE]}
  /\ UNCHANGED <<lwNodes, lwRegs, lwTimers, lwNextId, lwCall, lwRefs, lwObjects, lwFault, lwCause, lwFailed>>

on_exec_factory_reset(a) == Post(a, "execute")

on_exec_device_reboot(a) == Post(a, "execute")

on_exec_firmware_update(a) == Post(a, "execute")

on_resource_changed(a) == Post(a, "changed")

\* os_add_idle_callback returns: params->id is written.
os_add_idle_callback(i) ==
  /\ ~lwFault /\ i \in lwIdles /\ ~i.stored
  /\ lwIdles' = (lwIdles \ {i}) \cup {[i EXCEPT !.stored = TRUE]}
  /\ UNCHANGED <<lwNodes, lwRegs, lwTimers, lwNextId, lwPosts, lwCall, lwRefs, lwObjects, lwFault, lwCause, lwFailed>>

\* The node is read, the application's callback called if it is still set.
on_idle_callback(i) ==
  /\ LwFree /\ i \in lwIdles
  /\ IF i.node \in LwLive
     THEN lwCall' = [kind |-> IF i.event \in lwNodes[i.node].cbs THEN "event" ELSE "quiet", idle |-> i.id]
          /\ UNCHANGED <<lwFault, lwIdles>>
     ELSE lwFault' = TRUE /\ lwIdles' = lwIdles \ {i} /\ UNCHANGED lwCall
  /\ UNCHANGED <<lwNodes, lwRegs, lwTimers, lwNextId, lwPosts, lwRefs, lwObjects, lwCause, lwFailed>>

\* The callback is back: the node is read again for the loop module, and the
\* source removed by an id that the other thread may not have written yet.
IdleEnds ==
  /\ ~lwFault /\ lwCall.kind \in {"event", "quiet"}
  /\ \E i \in lwIdles :
       /\ i.id = lwCall.idle
       /\ lwFault' = (i.node \notin LwLive \/ ~i.stored)
       /\ lwCause' = IF i.stored THEN lwCause ELSE lwCause \cup {"overtaken"}
       /\ lwIdles' = lwIdles \ {i}
  /\ lwCall' = NoCall
  /\ UNCHANGED <<lwNodes, lwRegs, lwTimers, lwNextId, lwPosts, lwRefs, lwObjects, lwFailed>>

\* The error callback is back, which ends on_lwm2m_service_callback.
ErrorEnds ==
  /\ ~lwFault /\ lwCall.kind = "error"
  /\ lwCall' = NoCall
  /\ UNCHANGED <<lwNodes, lwRegs, lwTimers, lwNextId, lwIdles, lwPosts, lwRefs, lwObjects, lwFault, lwCause, lwFailed>>

-----------------------------------------------------------------------------
(* The application's callbacks, and what it reads and writes.              *)

\* "else if (ARTIK_LWM2M_EVENT_RESOURCE_CHANGED)" tests a constant: setting
\* the error callback registers on_resource_changed as well.
WakaamaOf(event) == IF event = "execute" THEN "execute" ELSE "changed"

os_lwm2m_set_callback(a, event) ==
  /\ Known(a)
  /\ lwNodes' = [lwNodes EXCEPT ![a].cbs = @ \cup {event}]
  /\ lwRegs' = [lwRegs EXCEPT ![a] = @ \cup {WakaamaOf(event)}]
  /\ UNCHANGED <<lwTimers, lwNextId, lwIdles, lwPosts, lwCall, lwRefs, lwObjects, lwFault, lwCause, lwFailed>>

\* Unsetting the error callback unregisters on_resource_changed as well.
os_lwm2m_unset_callback(a, event) ==
  /\ Known(a)
  /\ lwNodes' = [lwNodes EXCEPT ![a].cbs = @ \ {event}]
  /\ lwRegs' = [lwRegs EXCEPT ![a] = @ \ {WakaamaOf(event)}]
  /\ lwCause' = IF event = "error" /\ "changed" \in lwNodes[a].cbs THEN lwCause \cup {"unset"} ELSE lwCause
  /\ UNCHANGED <<lwTimers, lwNextId, lwIdles, lwPosts, lwCall, lwRefs, lwObjects, lwFault, lwFailed>>

\* Reads and writes of resources leave the node as it is; the buffer of a
\* read is freed on every path.
os_lwm2m_client_write_resource(a) == Known(a) /\ UNCHANGED lwVars

os_lwm2m_client_read_resource(a) == Known(a) /\ UNCHANGED lwVars

os_serialize_tlv_int == LwApp /\ UNCHANGED lwVars

os_serialize_tlv_string == LwApp /\ UNCHANGED lwVars

\* An object is two blocks.  Where the second is refused, the first is freed.
Creates(kind, contents) ==
  /\ LwApp /\ Cardinality(lwObjects) < MaxLwObjects
  /\ lwObjects' = lwObjects \cup {[kind |-> kind, contents |-> contents]}
  /\ UNCHANGED <<lwNodes, lwRegs, lwTimers, lwNextId, lwIdles, lwPosts, lwCall, lwRefs, lwFault, lwCause, lwFailed>>

os_lwm2m_create_device_object == Creates("device", {})

os_lwm2m_create_firmware_object == Creates("firmware", {})

\* Which parameter each field of a monitoring object is given, for n IP and
\* r router addresses: the numbers are one place off, and both IP addresses
\* go to the second field, the last one staying.
MonitoringFields(n, r) ==
  {<<"avl_network_bearer", "netbearer">>, <<"radio_signal_strength", "avlnetbearer">>,
   <<"link_quality", "signalstrength">>, <<"link_utilization", "linkquality">>,
   <<"cell_id", "cellid">>, <<"smnc", "smnc">>, <<"smcc", "smcc">>, <<"apn", "apn">>}
  \cup (IF n = 0 THEN {} ELSE {<<"ip_addr2", IF n = 1 THEN "ipaddr[0]" ELSE "ipaddr[1]">>})
  \cup (IF r >= 1 THEN {<<"router_ip_addr", "routeaddr[0]">>} ELSE {})
  \cup (IF r >= 2 THEN {<<"router_ip_addr2", "routeaddr[1]">>} ELSE {})

os_lwm2m_create_connectivity_monitoring_object(n, r) == Creates("monitoring", MonitoringFields(n, r))

os_lwm2m_free_object(o) ==
  /\ LwApp /\ o \in lwObjects
  /\ lwObjects' = lwObjects \ {o}
  /\ UNCHANGED <<lwNodes, lwRegs, lwTimers, lwNextId, lwIdles, lwPosts, lwCall, lwRefs, lwFault, lwCause, lwFailed>>

\* The module's table forwards every call.
LwObjectNext ==
  \/ os_lwm2m_create_device_object \/ os_lwm2m_create_firmware_object
  \/ \E n, r \in 0..2 : os_lwm2m_create_connectivity_monitoring_object(n, r)
  \/ \E o \in lwObjects : os_lwm2m_free_object(o)

LwApplication ==
  \/ \E a \in LwAddrs :
       \/ os_lwm2m_client_connect(a) \/ os_lwm2m_client_disconnect(a)
       \/ os_lwm2m_client_write_resource(a) \/ os_lwm2m_client_read_resource(a)
       \/ \E e \in LwEvents : os_lwm2m_set_callback(a, e) \/ os_lwm2m_unset_callback(a, e)
  \/ os_serialize_tlv_int \/ os_serialize_tlv_string

LwDispatch ==
  \/ \E t \in lwTimers : on_lwm2m_service_callback(t)
  \/ \E i \in lwIdles : on_idle_callback(i)
  \/ IdleEnds \/ ErrorEnds

LwClientNext ==
  \/ LwApplication
  \/ LwDispatch
  \/ \E a \in LwAddrs : \/ on_exec_factory_reset(a) \/ on_exec_device_reboot(a)
                        \/ on_exec_firmware_update(a) \/ on_resource_changed(a)
  \/ \E i \in lwIdles : os_add_idle_callback(i)

LwSpec == LwInit /\ [][LwClientNext \/ LwObjectNext]_lwVars

\* The main loop dispatches every source that stays ready, and callbacks of
\* the application return; Wakaama's thread goes on.
LwFairness ==
  /\ \A n \in 1..MaxLwPosts : SF_lwVars(\E i \in lwIdles : i.id = n /\ on_idle_callback(i))
  /\ WF_lwVars(IdleEnds \/ ErrorEnds)
  /\ WF_lwVars(\E i \in lwIdles : os_add_idle_callback(i))

-----------------------------------------------------------------------------
(* Properties.                                                             *)

\* Nodes are on the list once, every timeout and idle callback names an
\* address, and Wakaama has registrations for clients that run only.
LwTypeOK ==
  /\ LwLive \subseteq LwAddrs
  /\ \A a \in LwLive : lwNodes[a].cbs \subseteq LwEvents /\ lwNodes[a].cbkId \in 0..MaxLwTimers
  /\ \A a \in LwAddrs : lwRegs[a] \subseteq IF a \in LwLive THEN {"execute", "changed"} ELSE {}
  /\ \A t \in lwTimers : t.id \in 1..(lwNextId - 1) /\ t.node \in LwAddrs
  /\ \A i \in lwIdles : i.id \in 1..lwPosts /\ i.node \in LwAddrs
  /\ lwCall.kind \in {"none", "error", "event", "quiet"}
  /\ lwRefs \in Nat /\ lwFault \in BOOLEAN
  /\ lwCause \subseteq {"left", "overtaken", "unset"}

\* A node that is freed is used only where it was disconnected with its
\* timeout or a posted event on the loop, and an id before it is written only
\* where the loop overtook Wakaama's thread: a client disconnected in or after
\* its error callback, with nothing posted, is never used again.
LwFaultHasCause == lwFault => lwCause \cap {"left", "overtaken"} # {}

\* A connected client whose servicing has not failed has the timeout that
\* service_cbk_id names on the loop, or is being serviced, also where the
\* timeout of an earlier node at its address is on the loop too.
KeepsServicing ==
  \A a \in LwLive : a \in lwFailed.nodes \/ \E t \in lwTimers : t.node = a /\ t.id = lwNodes[a].cbkId

\* While the application has a callback for changed resources or executed
\* ones set, Wakaama reports them, unless the error callback was unset.
WantedIsRegistered ==
  \A a \in LwLive : "unset" \in lwCause \/ (lwNodes[a].cbs \ {"error"}) \subseteq lwRegs[a]

\* The loop module is held once for every node and once for every client
\* that Wakaama refused to start.
LwLoopBalanced == lwRefs = Cardinality(LwLive) + lwFailed.starts

\* A monitoring object keeps every router address it is given and the last IP
\* address, and no two parameters share a field.
MonitoringKeeps ==
  \A o \in lwObjects : o.kind = "monitoring" =>
    /\ \A x, y \in o.contents : (x[1] = y[1]) = (x[2] = y[2])
    /\ \A x \in o.contents : x[1] = "router_ip_addr" => x[2] = "routeaddr[0]"

\* What Wakaama posted leaves the loop: the application is told, or the
\* event is dropped, unless the behaviour has ended in a fault.
PostedIsReported ==
  \A n \in 1..MaxLwPosts : (\E i \in lwIdles : i.id = n) ~> (lwFault \/ \A i \in lwIdles : i.id # n)

\* A connected client has a service timeout, the callbacks it set are
\* registered, and references to the loop balance; a freed node is met only
\* after the disconnects the parts name (linux_lwm2m.c).
Lwm2mSound ==
  /\ LwTypeOK /\ LwFaultHasCause /\ KeepsServicing /\ WantedIsRegistered
  /\ LwLoopBalanced /\ MonitoringKeeps

=============================================================================
