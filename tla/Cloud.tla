------------------------------- MODULE Cloud --------------------------------
(***************************************************************************)
(* connectivity/cloud: the REST calls of artik_cloud.c, and its streams    *)
(* over artik_websocket.c and the set-up of a websocket.                   *)
(***************************************************************************)
EXTENDS Integers, Sequences, FiniteSets

(***************************************************************************)
(* The REST calls of artik_cloud.c.  A call takes a reference on the http  *)
(* module, checks its arguments, makes one request and looks at the status *)
(* of the answer.  The cloud is external: it accepts or denies a request,  *)
(* and requests and answers get lost on the way.                           *)
(***************************************************************************)

CONSTANTS
  Devices,       \* names of devices
  MaxMessages,   \* messages and actions the cloud has got
  MaxHttpHeld    \* references on the http module that were not given back

ASSUME CloudAssumption == MaxMessages \in Nat /\ MaxHttpHeld \in Nat

VARIABLES
  server,        \* the cloud: devices, their tokens, messages, the registration
  told,          \* what the application was told last
  lastStatus,    \* the status the cloud gave the last request, if it got there
  httpHeld,      \* references not given back
  httpRefused,   \* calls with bad arguments or without memory
  acked,         \* messages the application was told S_OK for
  unsure         \* messages that arrived and whose answer was lost

cloudVars == <<server, told, lastStatus, httpHeld, httpRefused, acked, unsure>>

CloudInit ==
  /\ server = [devices |-> {}, tokens |-> {}, messages |-> 0, reg |-> "none"]
  /\ told = "none"
  /\ lastStatus = 0 /\ httpHeld = 0 /\ httpRefused = 0 /\ acked = 0 /\ unsure = 0

\* How a call translates the status; a conflict means something only to
\* sdr_start_registration.
StatusError(op, status) ==
  CASE status = 200                                    -> "S_OK"
    [] status = 409 /\ op = "sdr_start_registration"   -> "E_BUSY"
    [] OTHER                                           -> "E_HTTP_ERROR"

\* One call: `after' is the cloud once it accepted the request, `status' its
\* answer.  Bad arguments and a body there is no memory for are found after the
\* reference was taken, and return with it.
Calls(op, after, status) ==
  \/ /\ httpHeld < MaxHttpHeld
     /\ \E ret \in {"E_BAD_ARGS", "E_NO_MEM"} : told' = ret
     /\ httpHeld' = httpHeld + 1 /\ httpRefused' = httpRefused + 1
     /\ UNCHANGED <<server, lastStatus, acked, unsure>>
  \/ /\ server' = after /\ lastStatus' = status
     /\ told' = StatusError(op, status)
     /\ acked' = acked + after.messages - server.messages
     /\ UNCHANGED <<httpHeld, httpRefused, unsure>>
  \/ /\ told' = "E_HTTP_ERROR"
     /\ \/ UNCHANGED <<server, lastStatus, unsure>>
        \/ /\ server' = after /\ lastStatus' = status
           /\ unsure' = unsure + after.messages - server.messages
     /\ UNCHANGED <<httpHeld, httpRefused, acked>>

\* The cloud does what a request asks if it can, and may always deny it.
Asks(op, can, after) ==
  \/ can /\ Calls(op, after, 200)
  \/ Calls(op, server, 401)

get_current_user_profile == Asks("get_current_user_profile", TRUE, server)
get_user_devices == Asks("get_user_devices", TRUE, server)
get_user_device_types == Asks("get_user_device_types", TRUE, server)
get_user_application_properties == Asks("get_user_application_properties", TRUE, server)
get_device(d) == Asks("get_device", d \in server.devices, server)
get_device_token(d) == Asks("get_device_token", d \in server.tokens, server)
add_device(d) == Asks("add_device", TRUE, [server EXCEPT !.devices = @ \cup {d}])

Tells(op, d) ==
  Asks(op, d \in server.devices /\ server.messages < MaxMessages, [server EXCEPT !.messages = @ + 1])
cloud_send_message(d) == Tells("send_message", d)
send_action(d) == Tells("send_action", d)

update_device_token(d) ==
  Asks("update_device_token", d \in server.devices, [server EXCEPT !.tokens = @ \cup {d}])
delete_device_token(d) ==
  Asks("delete_device_token", d \in server.tokens, [server EXCEPT !.tokens = @ \ {d}])

delete_device(d) ==
  Asks("delete_device", d \in server.devices,
       [server EXCEPT !.devices = @ \ {d}, !.tokens = @ \ {d}])

\* Registration with the secure element: started, confirmed by the user in the
\* cloud, completed.  A device that has a registration is a conflict.
sdr_start_registration ==
  \/ Asks("sdr_start_registration", server.reg = "none", [server EXCEPT !.reg = "started"])
  \/ server.reg # "none" /\ Calls("sdr_start_registration", server, 409)
sdr_registration_status == Asks("sdr_registration_status", server.reg # "none", server)
sdr_complete_registration ==
  Asks("sdr_complete_registration", server.reg = "confirmed", [server EXCEPT !.reg = "complete"])

UserConfirms ==
  /\ server.reg = "started" /\ server' = [server EXCEPT !.reg = "confirmed"]
  /\ UNCHANGED <<told, lastStatus, httpHeld, httpRefused, acked, unsure>>

CloudNext ==
  \/ get_current_user_profile \/ get_user_devices \/ get_user_device_types
  \/ get_user_application_properties
  \/ \E d \in Devices :
       \/ get_device(d) \/ get_device_token(d) \/ add_device(d) \/ cloud_send_message(d) \/ send_action(d)
       \/ update_device_token(d) \/ delete_device_token(d) \/ delete_device(d)
  \/ sdr_start_registration \/ sdr_registration_status \/ sdr_complete_registration
  \/ UserConfirms

-----------------------------------------------------------------------------
\* Tokens belong to devices of the cloud, and counts keep their bounds.
CloudTypeOK ==
  /\ server.tokens \subseteq server.devices /\ server.devices \subseteq Devices
  /\ server.messages \in 0..MaxMessages
  /\ httpHeld \in 0..MaxHttpHeld

\* A call reports success only when the cloud answered 200 to it, and busy only
\* for a registration the cloud already has.
ToldWhatHappened ==
  /\ told = "S_OK" => lastStatus = 200
  /\ told = "E_BUSY" => lastStatus = 409 /\ server.reg # "none"

\* References on the http module are left only by calls with bad arguments or
\* without memory, one by each (every check comes after the reference).
HttpHeldByRefused == httpHeld = httpRefused

\* The cloud has got each message the application was told S_OK for exactly
\* once, and others only when their answer was lost: nothing is sent again.
MessagesAccounted == server.messages = acked + unsure

(***************************************************************************)
(* The set-up of websocket streams and the cloud's use of them:            *)
(* artik_websocket.c, websocket_parse_uri, setup_ssl_ctx and the stages of *)
(* os_websocket_open_stream, and the streams of artik_cloud.c, which keep  *)
(* a node whose address is the user data of the connection callback.  What *)
(* an open stream does with its messages is Websocket's subject; here each *)
(* direction is one slot.  Calls run on the thread of the loop.            *)
(***************************************************************************)

CONSTANTS
  Streams,     \* handles of artik_websocket.c
  Uris,        \* what applications connect to: [ok, tls, port], port 0 if not given
  MaxSent,     \* messages the server has got
  MaxHeld      \* references on the websocket module that were not given back

ASSUME CloudStreamAssumption ==
  /\ MaxSent \in Nat /\ MaxHeld \in Nat
  /\ \A u \in Uris : u \in [ok : BOOLEAN, tls : BOOLEAN, port : Nat]

VARIABLES
  ws,        \* the nodes of artik_websocket.c and their streams
  cloud,     \* the nodes of artik_cloud.c: no node, live, or freed
  sent,      \* what the server of a stream has got
  wsHeld,    \* references on the websocket module calls of the cloud did not give back
  refused,   \* calls of the cloud that were refused or found no memory
  early,     \* the application wrote to a cloud stream before it was connected
  halfSet,   \* set_connection_callback of a cloud stream failed after its first watch
  noMemory,  \* an allocation of the set-up failed
  leftSec,   \* an open failed after the handle on the secure element was taken
  wsFault

csVars == <<ws, cloud, sent, wsHeld, refused, early, halfSet, noMemory, leftSec, wsFault>>

NoStream == [node |-> FALSE, uri |-> [ok |-> FALSE, tls |-> FALSE, port |-> 0], open |-> FALSE,
             tls |-> FALSE, port |-> 0, sec |-> FALSE, watches |-> {}, data |-> "none",
             state |-> "none", told |-> FALSE, events |-> {}, slot |-> "none"]

CloudStreamInit ==
  /\ ws = [h \in Streams |-> NoStream]
  /\ cloud = [h \in Streams |-> "none"]
  /\ sent = [h \in Streams |-> <<>>]
  /\ wsHeld = 0 /\ refused = 0
  /\ early = [h \in Streams |-> FALSE] /\ halfSet = [h \in Streams |-> FALSE]
  /\ noMemory = FALSE /\ leftSec = FALSE /\ wsFault = "none"

-----------------------------------------------------------------------------
(* Setting up a stream *)

Default(tls) == IF tls THEN 443 ELSE 80

\* The scheme decides about TLS and, without a port, about the port.  Every
\* part is copied to memory of its own: without memory for the scheme TLS stays
\* off, without memory for the port the port of the URI is not read.
websocket_parse_uri(u, mem) ==
  CASE ~u.ok         -> {}
    [] u.ok /\ mem   -> {[tls |-> u.tls, port |-> IF u.port = 0 THEN Default(u.tls) ELSE u.port]}
    [] OTHER         -> {[tls |-> FALSE, port |-> IF u.port = 0 THEN Default(FALSE) ELSE u.port],
                         [tls |-> u.tls, port |-> Default(u.tls)]}

\* With use_se the certificate and the key come from the secure element, whose
\* handle stays when a step after the request fails.
SetupElement == {[ctx |-> FALSE, sec |-> FALSE], [ctx |-> FALSE, sec |-> TRUE], [ctx |-> TRUE, sec |-> TRUE]}

\* A context with the certificates of the application, or none if one of them
\* is not right.
setup_ssl_ctx(se) ==
  IF se THEN SetupElement ELSE {[ctx |-> ctx, sec |-> FALSE] : ctx \in BOOLEAN}

\* URI, interface, protocols, TLS context, libwebsockets context, proxy,
\* connection, descriptors, node, idle callback: a stage that fails leaves what
\* the stages before it have taken, and private_data unset.
OpenOutcomes(u, se) ==
  {[ok |-> FALSE, tls |-> FALSE, port |-> 0, sec |-> c.sec, mem |-> TRUE] : c \in setup_ssl_ctx(se)}
  \cup UNION {{[ok |-> TRUE, tls |-> p.tls, port |-> p.port, sec |-> se, mem |-> mem] :
                 p \in websocket_parse_uri(u, mem)} : mem \in BOOLEAN}

Opened(s, o, se) ==
  IF o.ok
  THEN [s EXCEPT !.open = TRUE, !.tls = o.tls, !.port = o.port, !.sec = se, !.state = "connecting",
                 !.told = FALSE, !.watches = {}, !.data = "none", !.events = {}, !.slot = "none"]
  ELSE [s EXCEPT !.sec = @ \/ o.sec]

\* The watches of the close, connect and error descriptors are added one by one
\* and the first that cannot be added ends the call.
ConnectionWatches == {{}, {"close"}, {"close", "connect"}, {"close", "connect", "error"}}

-----------------------------------------------------------------------------
(* artik_websocket.c, called by applications *)

Frame(S) == wsFault = "none" /\ UNCHANGED <<wsHeld, refused>> /\ UNCHANGED S

artik_websocket_request(h, u) ==
  /\ ~ws[h].node
  /\ ws' = [ws EXCEPT ![h] = [NoStream EXCEPT !.node = TRUE, !.uri = u]]
  /\ sent' = [sent EXCEPT ![h] = <<>>] /\ early' = [early EXCEPT ![h] = FALSE]
  /\ halfSet' = [halfSet EXCEPT ![h] = FALSE]
  /\ Frame(<<cloud, noMemory, leftSec, wsFault>>)

artik_websocket_open_stream(h, se) ==
  /\ ws[h].node /\ ~ws[h].open /\ cloud[h] = "none"
  /\ \E o \in OpenOutcomes(ws[h].uri, se) :
       /\ ws' = [ws EXCEPT ![h] = Opened(@, o, se)]
       /\ noMemory' = (noMemory \/ ~o.mem)
       /\ leftSec' = (leftSec \/ (o.sec /\ ~o.ok))
  /\ Frame(<<cloud, sent, early, halfSet, wsFault>>)

Written(s, m) == IF s.state = "gone" THEN s ELSE [s EXCEPT !.slot = m]

artik_websocket_write_stream(h) ==
  /\ ws[h].node /\ ws[h].open /\ cloud[h] = "none"
  /\ ws' = [ws EXCEPT ![h] = Written(@, "message")]
  /\ Frame(<<cloud, sent, early, halfSet, noMemory, leftSec, wsFault>>)

artik_websocket_set_connection_callback(h) ==
  /\ ws[h].node /\ ws[h].open /\ ws[h].watches \cap {"close", "connect", "error"} = {}
  /\ cloud[h] = "none"
  /\ \E w \in ConnectionWatches :
       ws' = [ws EXCEPT ![h].watches = @ \cup w, ![h].data = "app"]
  /\ Frame(<<cloud, sent, early, halfSet, noMemory, leftSec, wsFault>>)

artik_websocket_set_receive_callback(h) ==
  /\ ws[h].node /\ ws[h].open /\ "receive" \notin ws[h].watches
  /\ ws' = [ws EXCEPT ![h].watches = @ \cup {"receive"}]
  /\ Frame(<<cloud, sent, early, halfSet, noMemory, leftSec, wsFault>>)

\* lws_cleanup does nothing for a stream that is not open; then the node goes.
Cleaned(s) == IF s.open THEN NoStream ELSE [NoStream EXCEPT !.sec = s.sec]

artik_websocket_close_stream(h) ==
  /\ ws[h].node /\ cloud[h] = "none"
  /\ ws' = [ws EXCEPT ![h] = Cleaned(@)]
  /\ Frame(<<cloud, sent, early, halfSet, noMemory, leftSec, wsFault>>)

-----------------------------------------------------------------------------
(* Streams of artik_cloud.c *)

CloudUri == [ok |-> TRUE, tls |-> TRUE, port |-> 443]

CanHold == wsHeld < MaxHeld /\ wsFault = "none"

\* The stream is opened before there is a node and a callback: events wait in
\* their descriptors.  Without memory for the node the call returns at once;
\* when a watch cannot be added the node goes and the stream stays.
websocket_open_stream(h, se) ==
  /\ CanHold /\ ~ws[h].node /\ cloud[h] = "none"
  /\ \E o \in OpenOutcomes(CloudUri, se) :
       LET s == Opened([NoStream EXCEPT !.node = TRUE, !.uri = CloudUri], o, se)
       IN /\ noMemory' = (noMemory \/ ~o.mem)
          /\ leftSec' = (leftSec \/ (o.sec /\ ~o.ok))
          /\ \/ /\ ~o.ok
                /\ ws' = [ws EXCEPT ![h] = s]
                /\ UNCHANGED <<cloud, halfSet, wsHeld, refused>>
             \/ /\ o.ok
                /\ \E w \in ConnectionWatches :
                     LET all == w = {"close", "connect", "error"}
                     IN /\ ws' = [ws EXCEPT ![h] = [s EXCEPT !.watches = w, !.data = "cloud"]]
                        /\ cloud' = [cloud EXCEPT ![h] = IF all THEN "live" ELSE "freed"]
                        /\ halfSet' = [halfSet EXCEPT ![h] = ~all]
                /\ UNCHANGED <<wsHeld, refused>>
             \/ /\ o.ok
                /\ ws' = [ws EXCEPT ![h] = s]
                /\ wsHeld' = wsHeld + 1 /\ refused' = refused + 1
                /\ UNCHANGED <<cloud, halfSet>>
  /\ sent' = [sent EXCEPT ![h] = <<>>]
  /\ early' = [early EXCEPT ![h] = FALSE]
  /\ UNCHANGED wsFault

\* Without a node the call returns with its reference.
websocket_send_message(h) ==
  /\ CanHold
  /\ \/ /\ cloud[h] # "live"
        /\ wsHeld' = wsHeld + 1 /\ refused' = refused + 1
        /\ UNCHANGED <<ws, early>>
     \/ /\ cloud[h] = "live"
        /\ ws' = [ws EXCEPT ![h] = Written(@, "message")]
        /\ early' = [early EXCEPT ![h] = @ \/ ~ws[h].told \/ ws[h].slot = "register"]
        /\ UNCHANGED <<wsHeld, refused>>
  /\ UNCHANGED <<cloud, sent, halfSet, noMemory, leftSec, wsFault>>

\* The application's callback is kept in the node; which one is set does not
\* matter here.
websocket_set_connection_callback(h) == wsFault = "none" /\ UNCHANGED csVars

websocket_set_receive_callback(h) ==
  /\ CanHold /\ ws[h].node /\ ws[h].open /\ "receive" \notin ws[h].watches
  /\ ws' = [ws EXCEPT ![h].watches = @ \cup {"receive"}]
  /\ UNCHANGED <<cloud, sent, wsHeld, refused, early, halfSet, noMemory, leftSec, wsFault>>

\* The node goes first, then the stream with its watches.
websocket_close_stream(h) ==
  /\ CanHold
  /\ \/ /\ cloud[h] # "live"
        /\ wsHeld' = wsHeld + 1 /\ refused' = refused + 1
        /\ UNCHANGED <<ws, cloud>>
     \/ /\ cloud[h] = "live"
        /\ ws' = [ws EXCEPT ![h] = Cleaned(@)] /\ cloud' = [cloud EXCEPT ![h] = "none"]
        /\ UNCHANGED <<wsHeld, refused>>
  /\ UNCHANGED <<sent, early, halfSet, noMemory, leftSec, wsFault>>

\* Mutant: the registration is left to the application's callback.
CallbackDoesNotRegister(h, fd) ==
  /\ fd \in ws[h].events \cap ws[h].watches /\ ws[h].data = "cloud"
  /\ ws' = [ws EXCEPT ![h].events = @ \ {fd}, ![h].told = @ \/ fd = "connect"]
  /\ wsFault' = IF cloud[h] = "live" THEN "none" ELSE "callback"

\* The connection callback of a cloud stream uses the node; connected, it
\* writes the registration over whatever waits in the slot, and tells the
\* application.
Informed(s, fd) ==
  LET t == IF fd = "connect" THEN Written(s, "register") ELSE s
  IN [t EXCEPT !.events = @ \ {fd}, !.told = @ \/ fd = "connect"]

websocket_connection_callback(h, fd) ==
  /\ fd \in ws[h].events \cap ws[h].watches /\ ws[h].data = "cloud"
  /\ ws' = [ws EXCEPT ![h] = Informed(@, fd)]
  /\ wsFault' = IF cloud[h] = "live" THEN "none" ELSE "callback"

ConnectionEvent(h, fd) ==
  /\ wsFault = "none"
  /\ \/ websocket_connection_callback(h, fd)
     \/ /\ fd \in ws[h].events \cap ws[h].watches /\ ws[h].data = "app"
        /\ ws' = [ws EXCEPT ![h].events = @ \ {fd}] /\ UNCHANGED wsFault
  /\ UNCHANGED <<cloud, sent, wsHeld, refused, early, halfSet, noMemory, leftSec>>

-----------------------------------------------------------------------------
(* libwebsockets *)

LwsStep(h) ==
  /\ wsFault = "none"
  /\ \/ /\ ws[h].state = "connecting"
        /\ ws' = [ws EXCEPT ![h].state = "established", ![h].events = @ \cup {"connect"}]
        /\ UNCHANGED sent
     \/ /\ ws[h].state \in {"connecting", "established"}
        /\ \E e \in {"close", "error"} :
             ws' = [ws EXCEPT ![h].state = "gone", ![h].events = @ \cup {e, "close"}]
        /\ UNCHANGED sent
     \/ /\ ws[h].state = "established" /\ ws[h].slot # "none" /\ Len(sent[h]) < MaxSent
        /\ sent' = [sent EXCEPT ![h] = Append(@, ws[h].slot)]
        /\ ws' = [ws EXCEPT ![h].slot = "none"]
  /\ UNCHANGED <<cloud, wsHeld, refused, early, halfSet, noMemory, leftSec, wsFault>>

CloudStreamNext ==
  \E h \in Streams :
    \/ \E u \in Uris : artik_websocket_request(h, u)
    \/ \E se \in BOOLEAN : artik_websocket_open_stream(h, se) \/ websocket_open_stream(h, se)
    \/ artik_websocket_write_stream(h) \/ artik_websocket_set_connection_callback(h)
    \/ artik_websocket_set_receive_callback(h) \/ artik_websocket_close_stream(h)
    \/ websocket_send_message(h) \/ websocket_set_connection_callback(h)
    \/ websocket_set_receive_callback(h) \/ websocket_close_stream(h)
    \/ \E fd \in {"close", "connect", "error"} : ConnectionEvent(h, fd)
    \/ LwsStep(h)

-----------------------------------------------------------------------------
\* Only open streams have a state, watches and a slot; counts keep their bounds.
CloudStreamTypeOK ==
  /\ \A h \in Streams :
       /\ ws[h].state # "none" <=> ws[h].open
       /\ ws[h].open => ws[h].node
       /\ ws[h].watches \subseteq {"close", "connect", "error", "receive"}
       /\ cloud[h] = "live" => ws[h].open
       /\ Len(sent[h]) <= MaxSent
  /\ wsHeld \in 0..MaxHeld

\* The server of a cloud stream gets the registration before any message,
\* unless the application sent before the registration had gone out.
RegisteredFirst ==
  \A h \in Streams : cloud[h] = "live" /\ sent[h] # <<>> /\ ~early[h] => sent[h][1] = "register"

\* The connection callback finds its node alive, unless one of the three
\* watches could not be added: then websocket_open_stream deletes the node and
\* leaves the others.
CallbackDataLives == wsFault = "callback" => \E h \in Streams : halfSet[h]

\* References on the websocket module are left only by calls that were refused
\* or found no memory, one by each.
HeldByRefused == wsHeld = refused

\* A stream connects with TLS exactly when its URI says wss, to the port of its
\* URI, or to the default port, unless an allocation failed while it was parsed.
ConnectsAsAsked ==
  \A h \in Streams : ws[h].open /\ ~noMemory =>
    LET u == ws[h].uri
    IN ws[h].tls = u.tls /\ ws[h].port = (IF u.port # 0 THEN u.port ELSE IF u.tls THEN 443 ELSE 80)

\* A handle on the secure element belongs to an open stream, unless an open
\* failed after taking it.
ElementIsReturned == \A h \in Streams : ws[h].sec /\ ~leftSec => ws[h].open

\* Calls and streams share no variable, and interleave.
CloudSpec ==
  /\ CloudInit /\ CloudStreamInit
  /\ [][\/ CloudNext /\ UNCHANGED csVars
        \/ CloudStreamNext /\ UNCHANGED cloudVars]_<<cloudVars, csVars>>

\* The application is told what the cloud did, messages are not sent twice, a
\* stream connects as its URI says and registers first, and references and
\* nodes outlive a call only where a part says which failure left them
\* (artik_cloud.c, the set-up of a stream).
CloudSound ==
  /\ CloudTypeOK /\ ToldWhatHappened /\ HttpHeldByRefused /\ MessagesAccounted
  /\ CloudStreamTypeOK /\ RegisteredFirst /\ CallbackDataLives
  /\ HeldByRefused /\ ConnectsAsAsked /\ ElementIsReturned

=============================================================================
