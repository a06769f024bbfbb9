----------------------------- MODULE Websocket -----------------------------
(***************************************************************************)
(* A websocket stream, connectivity/websocket/linux_websocket.c and the    *)
(* handles of artik_websocket.c.  libwebsockets is served from an idle     *)
(* callback of the loop; its callbacks leave what happened in one slot for *)
(* each direction and in four event descriptors, whose watches call the    *)
(* application.  Every connection has a node in a global list, found by    *)
(* the address of its lws (wsi) and never removed.                         *)
(*                                                                         *)
(* External: libwebsockets (which callbacks it makes, when it frees a wsi) *)
(* and the loop, which serves idle callbacks only when no watch is ready.  *)
(* Messages are numbered in the order in which they arrive or are written. *)
(***************************************************************************)
EXTENDS Integers, Sequences

CONSTANTS Addrs,     \* addresses libwebsockets can get for a wsi
          NULL,      \* the null pointer
          MaxOpen,   \* bound on the streams opened
          MaxMsg     \* bound on the messages in each direction

ASSUME WebsocketAssumption ==
    /\ NULL \notin Addrs
    /\ MaxOpen \in Nat /\ MaxMsg \in Nat

Fds == {"close", "connect", "receive", "error"}

VARIABLES
    opened,     \* streams opened so far
    wsi,        \* interface->wsi of the open stream, NULL without one
    wsi_alive,  \* libwebsockets has not freed it
    conn,       \* "connecting", "established", "closing" or "gone"
    nodes,      \* requested_node: [handle, error_connect] of every stream
    idle,       \* os_websocket_process_stream is on the loop
    in_service, \* lws_service is running
    watches,    \* descriptors with a watch
    events,     \* descriptors whose counter is not zero
    send_message, receive_message,   \* the slots, 0 when empty
    writable,   \* lws_callback_on_writable is pending
    got,        \* messages libwebsockets has read
    delivered,  \* messages the application's callback was given
    written,    \* messages websocket_write_stream accepted
    wire,       \* messages handed to lws_write
    reported,   \* states the connection callback was called with
    fault       \* the first invalid memory access, "none" so far

link == <<wsi, wsi_alive, conn, nodes>>
slots == <<send_message, receive_message, writable>>
history == <<got, delivered, written, wire, reported>>
vars == <<opened, wsi, wsi_alive, conn, nodes, idle, in_service, watches, events,
          send_message, receive_message, writable, got, delivered, written, wire,
          reported, fault>>

Init ==
    /\ opened = 0
    /\ wsi = NULL
    /\ wsi_alive = FALSE
    /\ conn = "gone"
    /\ nodes = <<>>
    /\ idle = FALSE
    /\ in_service = FALSE
    /\ watches = {}
    /\ events = {}
    /\ send_message = 0
    /\ receive_message = 0
    /\ writable = FALSE
    /\ got = 0
    /\ delivered = <<>>
    /\ written = 0
    /\ wire = <<>>
    /\ reported = {}
    /\ fault = "none"

IsOpen == wsi # NULL

\* artik_list_get_by_handle: the first node of this address, whose ever it was.
NodeOf(w) == CHOOSE i \in DOMAIN nodes :
                /\ nodes[i].handle = w
                /\ \A j \in 1..(i - 1) : nodes[j].handle # w

WithError == [nodes EXCEPT ![NodeOf(wsi)].error_connect = TRUE]

-----------------------------------------------------------------------------
(***************************************************************************)
(* Operations of the application, called between dispatches or in one of   *)
(* its callbacks.                                                          *)
(***************************************************************************)
App == ~in_service

\* A stream that cannot be set up leaves no state behind.
os_websocket_open_stream(w) ==
    /\ App
    /\ ~IsOpen
    /\ opened < MaxOpen
    /\ opened' = opened + 1
    /\ wsi' = w
    /\ wsi_alive' = TRUE
    /\ conn' = "connecting"
    /\ nodes' = Append(nodes, [handle |-> w, error_connect |-> FALSE])
    /\ idle' = TRUE
    /\ reported' = {}
    /\ UNCHANGED <<in_service, watches, events, slots, got, delivered, written,
                   wire, fault>>

SetWatch(fds) ==
    /\ App
    /\ IsOpen
    /\ fds \cap watches = {}
    /\ watches' = watches \cup fds
    /\ UNCHANGED <<opened, link, idle, in_service, events, slots, history, fault>>

os_websocket_set_connection_callback == SetWatch({"close", "connect", "error"})
os_websocket_set_receive_callback == SetWatch({"receive"})

\* A message that finds the slot taken replaces what is there.
os_websocket_write_stream ==
    /\ App
    /\ IsOpen
    /\ ~nodes[NodeOf(wsi)].error_connect
    /\ written < MaxMsg
    /\ written' = written + 1
    /\ send_message' = written'
    /\ writable' = TRUE
    /\ fault' = IF wsi_alive THEN fault ELSE "freed_wsi"
    /\ UNCHANGED <<opened, link, idle, in_service, watches, events,
                   receive_message, got, delivered, wire, reported>>

\* lws_cleanup: lws_context_destroy calls back for the wsi it frees; the
\* descriptors are closed and the slots go with private_data.
CloseLive ==
    /\ App
    /\ IsOpen /\ wsi_alive
    /\ nodes' = WithError
    /\ wsi' = NULL
    /\ wsi_alive' = FALSE
    /\ conn' = "gone"
    /\ idle' = FALSE
    /\ watches' = {}
    /\ events' = {}
    /\ send_message' = 0 /\ receive_message' = 0 /\ writable' = FALSE
    /\ UNCHANGED <<opened, in_service, history, fault>>

\* lws_cleanup starts by asking a wsi that is freed for its protocol.
CloseFreed ==
    /\ App
    /\ IsOpen /\ ~wsi_alive
    /\ fault' = "freed_wsi"
    /\ UNCHANGED <<opened, link, idle, in_service, watches, events, slots, history>>

os_websocket_close_stream == CloseLive \/ CloseFreed

-----------------------------------------------------------------------------
(***************************************************************************)
(* os_websocket_process_stream: one call of lws_service, during which      *)
(* libwebsockets may call back any number of times.                        *)
(***************************************************************************)
ServiceStarts ==
    /\ idle /\ ~in_service
    /\ events \cap watches = {}
    /\ in_service' = TRUE
    /\ UNCHANGED <<opened, link, idle, watches, events, slots, history, fault>>

\* A negative result takes the idle callback off the loop.
ServiceEnds(n) ==
    /\ in_service
    /\ conn # "closing"
    /\ in_service' = FALSE
    /\ idle' = (n >= 0)
    /\ UNCHANGED <<opened, link, watches, events, slots, history, fault>>

LwsEvent(fds) ==
    /\ in_service
    /\ events' = events \cup fds
    /\ UNCHANGED <<opened, idle, in_service, watches, fault>>

ClientEstablished ==
    /\ conn = "connecting"
    /\ LwsEvent({"connect"})
    /\ conn' = "established"
    /\ UNCHANGED <<wsi, wsi_alive, nodes, slots, history>>

\* Mutant of ClientWriteable: the slot is not emptied.
WriteableKeeps ==
    /\ conn = "established" /\ writable
    /\ LwsEvent({})
    /\ wire' = IF send_message # 0 THEN Append(wire, send_message) ELSE wire
    /\ writable' \in BOOLEAN
    /\ Len(wire') <= MaxMsg + 1
    /\ UNCHANGED <<link, send_message, receive_message, got, delivered, written,
                   reported>>

ClientWriteable ==
    /\ conn = "established" /\ writable
    /\ LwsEvent({})
    /\ wire' = IF send_message # 0 THEN Append(wire, send_message) ELSE wire
    /\ send_message' = 0
    /\ writable' = FALSE
    /\ UNCHANGED <<link, receive_message, got, delivered, written, reported>>

\* Mutant of ClientReceive: the event is not set.
ReceiveUnsignalled ==
    /\ conn = "established"
    /\ got < MaxMsg
    /\ LwsEvent({})
    /\ got' = got + 1
    /\ receive_message' = got'
    /\ UNCHANGED <<link, send_message, writable, delivered, written, wire, reported>>

\* A message that finds the slot taken replaces what is there.
ClientReceive ==
    /\ conn = "established"
    /\ got < MaxMsg
    /\ LwsEvent({"receive"})
    /\ got' = got + 1
    /\ receive_message' = got'
    /\ UNCHANGED <<link, send_message, writable, delivered, written, wire, reported>>

\* LWS_CALLBACK_CLIENT_CONNECTION_ERROR and LWS_CALLBACK_CLOSED.
Closed ==
    /\ conn \in {"connecting", "established"}
    /\ LwsEvent({"close"})
    /\ conn' = "closing"
    /\ UNCHANGED <<wsi, wsi_alive, nodes, slots, history>>

\* A fatal alert of the TLS handshake; the connection is then given up.
ssl_ctx_info_callback ==
    /\ conn = "connecting"
    /\ LwsEvent({"error"})
    /\ conn' = "closing"
    /\ UNCHANGED <<wsi, wsi_alive, nodes, slots, history>>

\* LWS_CALLBACK_WSI_DESTROY, after which libwebsockets frees the wsi.
WsiDestroy ==
    /\ conn = "closing"
    /\ LwsEvent({"close"})
    /\ nodes' = WithError
    /\ wsi_alive' = FALSE
    /\ conn' = "gone"
    /\ writable' = FALSE
    /\ UNCHANGED <<wsi, send_message, receive_message, history>>

-----------------------------------------------------------------------------
(***************************************************************************)
(* The watch callbacks; reading an event descriptor clears it.             *)
(***************************************************************************)
Dispatch(fd) ==
    /\ ~in_service
    /\ fd \in events \cap watches
    /\ events' = events \ {fd}
    /\ UNCHANGED <<opened, link, idle, in_service, slots, got, written, wire, fault>>

\* os_websocket_close_callback, os_websocket_connection_callback and
\* os_websocket_error_callback.
ConnectionCallback(fd) ==
    /\ fd \in {"close", "connect", "error"}
    /\ Dispatch(fd)
    /\ reported' = reported \cup {fd}
    /\ UNCHANGED <<watches, delivered>>

\* The slot keeps its pointer; the application owns and frees the message.
os_websocket_receive_callback ==
    /\ Dispatch("receive")
    /\ delivered' = Append(delivered, receive_message)
    /\ UNCHANGED <<watches, reported>>

-----------------------------------------------------------------------------
Callbacks == (\E fd \in Fds : ConnectionCallback(fd)) \/ os_websocket_receive_callback

\* What libwebsockets has begun it finishes.
ServiceWork == (\E n \in {-1, 0} : ServiceEnds(n)) \/ ClientWriteable \/ WsiDestroy

Next ==
    /\ fault = "none"
    /\ \/ \E w \in Addrs : os_websocket_open_stream(w)
       \/ os_websocket_set_connection_callback
       \/ os_websocket_set_receive_callback
       \/ os_websocket_write_stream
       \/ os_websocket_close_stream
       \/ ServiceStarts
       \/ ServiceWork
       \/ ClientEstablished
       \/ ClientReceive
       \/ Closed
       \/ ssl_ctx_info_callback
       \/ Callbacks

Spec == Init /\ [][Next]_vars

\* The loop dispatches and serves what is ready, lws_service returns, and a
\* connected socket takes data again and again.
Fairness ==
    /\ WF_vars(fault = "none" /\ Callbacks)
    /\ WF_vars(fault = "none" /\ ServiceStarts)
    /\ WF_vars(fault = "none" /\ ServiceWork)
    /\ SF_vars(fault = "none" /\ ClientWriteable)

FairSpec == Spec /\ Fairness

-----------------------------------------------------------------------------
TypeOK ==
    /\ opened \in 0..MaxOpen
    /\ wsi \in Addrs \cup {NULL}
    /\ wsi_alive \in BOOLEAN
    /\ conn \in {"connecting", "established", "closing", "gone"}
    /\ nodes \in Seq([handle : Addrs, error_connect : BOOLEAN])
    /\ idle \in BOOLEAN /\ in_service \in BOOLEAN /\ writable \in BOOLEAN
    /\ watches \subseteq Fds /\ events \subseteq Fds
    /\ send_message \in 0..MaxMsg /\ receive_message \in 0..MaxMsg
    /\ got \in 0..MaxMsg /\ written \in 0..MaxMsg
    /\ delivered \in Seq(1..MaxMsg) /\ wire \in Seq(1..MaxMsg)
    /\ reported \subseteq Fds
    /\ fault \in {"none", "freed_wsi"}

Increasing(s) == \A i, j \in DOMAIN s : i < j => s[i] < s[j]

\* Messages reach the application, and the server, in order and at most once,
\* although the slots are not locked and the receive slot is never emptied
\* (os_websocket_receive_callback, lws_callback).
InOrderOnce == Increasing(delivered) /\ Increasing(wire)

\* A closed stream leaves nothing on the loop that would run with its freed
\* interface (lws_cleanup).
ClosedIsQuiet == ~IsOpen => ~idle /\ watches = {} /\ ~in_service

\* write_stream never hands libwebsockets a wsi it has freed: error_connect of
\* the node it finds was set before, even when that is another stream's node.
WriteIsSafe ==
    [][written' # written => wsi_alive]_vars

\* A message that was received is followed by its delivery or that of a newer
\* one, unless the stream is closed, is not watched or fails.
ReceivedIsDelivered ==
    \A m \in 1..MaxMsg :
        (receive_message = m /\ "receive" \in watches) ~>
            \/ \E i \in DOMAIN delivered : delivered[i] >= m
            \/ ~IsOpen \/ fault # "none"

\* A message that was accepted, or a newer one, reaches lws_write, unless the
\* connection does not come up or goes.
WrittenIsSent ==
    \A m \in 1..MaxMsg :
        (send_message = m /\ conn = "established") ~>
            \/ \E i \in DOMAIN wire : wire[i] >= m
            \/ conn # "established" \/ ~idle \/ fault # "none"

\* A connection that ends, also in its handshake, is reported to the
\* connection callback as closed.
CloseIsReported ==
    (conn = "gone" /\ IsOpen /\ "close" \in watches) ~>
        \/ "close" \in reported \/ ~IsOpen \/ fault # "none"

\* Messages arrive in order and at most once in both directions, and a closed
\* stream has nothing left on the loop (os_websocket_open_stream,
\* os_websocket_close_stream and the callbacks between).
StreamSound ==
  /\ TypeOK /\ InOrderOnce /\ ClosedIsQuiet

=============================================================================
