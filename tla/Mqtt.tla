-------------------------------- MODULE Mqtt --------------------------------
(***************************************************************************)
(* The MQTT client, src/src/modules/mqtt/linux/mqtt_client.c.  A client is *)
(* a node of a global list, found again by its address; it owns a          *)
(* libmosquitto instance, a reference to the loop module and one           *)
(* descriptor watch on that loop, whose handler lets libmosquitto read,    *)
(* write and do its housekeeping.  libmosquitto calls back into the        *)
(* module, which calls the application, which may call the module again.   *)
(*                                                                         *)
(* External: libmosquitto (what it owes a caller, when it calls back, when *)
(* it closes its socket) and the loop, which dispatches one watch at a     *)
(* time.  Every successful connection gets a fresh number, which names     *)
(* both its socket and the watch on it.                                    *)
(***************************************************************************)
EXTENDS Integers, Sequences, SequencesExt, FiniteSets

CONSTANTS
    Addrs,       \* addresses malloc can return for a client
    NoAddr,      \* the null pointer
    Kinds,       \* the callbacks the application uses
    Fails,       \* calls that may fail: "mosquitto_new", "option", "socket"
    UseTls,      \* the configurations carry certificates
    CallbackOps, \* what the application calls from each callback
    Reconnects,  \* the application may connect a client again
    MaxConn      \* bound on the connections ever made

AllKinds == {"connect", "subscribe", "unsubscribe", "publish", "message",
             "disconnect"}

Operations == {"destroy", "disconnect", "connect", "ask"}

ASSUME MqttAssumption ==
    /\ NoAddr \notin Addrs
    /\ Kinds \subseteq AllKinds
    /\ Fails \subseteq {"mosquitto_new", "option", "socket"}
    /\ UseTls \in BOOLEAN /\ Reconnects \in BOOLEAN
    /\ CallbackOps \in [AllKinds -> SUBSET Operations]
    /\ MaxConn \in Nat

Conns == 1..MaxConn

VARIABLES
    nodes,      \* requested_node: the clients in the list, by address
    freed,      \* nodes freed while still in the list
    client,     \* the fields of each client
    known,      \* handles the application has and did not destroy
    loop_refs,  \* requests of the loop module not yet released
    attached,   \* watches on the loop
    owner,      \* the user data of each watch: a client address
    last,       \* number of the last connection
    handler,    \* the watch callback under way: its watch, client and place
    cb,         \* the application callback under way, "none" outside
    tls_files,  \* whose certificates the temporary files hold
    loaded,     \* history: whose certificates the last connect read
    mqttFault   \* the first invalid memory access, "none" so far

mqttVars == <<nodes, freed, client, known, loop_refs, attached, owner, last, handler, cb,
          tls_files, loaded, mqttFault>>

NoClient == [loop |-> FALSE, sock |-> 0, watch_id |-> 0, on |-> {}, owed |-> {}]

Idle == [watch |-> 0, client |-> NoAddr, at |-> "idle"]

Listed == {nodes[i] : i \in DOMAIN nodes} \ freed

MqttInit ==
    /\ nodes = <<>>
    /\ freed = {}
    /\ client = [a \in Addrs |-> NoClient]
    /\ known = {}
    /\ loop_refs = 0
    /\ attached = {}
    /\ owner = [w \in Conns |-> NoAddr]
    /\ last = 0
    /\ handler = Idle
    /\ cb = "none"
    /\ tls_files = NoAddr
    /\ loaded = NoAddr
    /\ mqttFault = "none"

\* Application code runs between two dispatches of the loop and in callbacks.
App(op) == (handler.at = "idle" /\ cb = "none") \/ (cb # "none" /\ op \in CallbackOps[cb])

\* artik_list_get_by_handle reads every node up to the one it returns.
WalkFaults(a) ==
    \E i \in DOMAIN nodes :
        /\ nodes[i] \in freed
        /\ \A j \in 1..(i - 1) : nodes[j] # a \/ nodes[j] \in freed

Found(a) == ~WalkFaults(a) /\ a \in Listed

Crash(why) ==
    /\ mqttFault' = why
    /\ UNCHANGED <<nodes, freed, client, known, loop_refs, attached, owner, last,
                   handler, cb, tls_files, loaded>>

-----------------------------------------------------------------------------
(***************************************************************************)
(* Creating and destroying                                                 *)
(***************************************************************************)

\* open without O_TRUNC: what was longer in the old file stays at its end.
tls_write_temp_cert_files(a) ==
    tls_files' \in IF ~UseTls THEN {tls_files}
                   ELSE IF tls_files = NoAddr THEN {a} ELSE {a, "mixed"}

mqtt_create_client(a) ==
    /\ App("create")
    /\ a \notin Listed \cup freed
    /\ freed = {}
    /\ nodes' = Append(nodes, a)
    /\ client' = [client EXCEPT ![a] = [NoClient EXCEPT !.loop = TRUE]]
    /\ known' = known \cup {a}
    /\ loop_refs' = loop_refs + 1
    /\ tls_write_temp_cert_files(a)
    /\ UNCHANGED <<freed, attached, owner, last, handler, cb, loaded, mqttFault>>

\* mosquitto_new returned NULL: the node is freed and stays in the list.
CreateNoInstance(a) ==
    /\ App("create")
    /\ "mosquitto_new" \in Fails
    /\ a \notin Listed \cup freed
    /\ freed = {}
    /\ nodes' = Append(nodes, a)
    /\ freed' = freed \cup {a}
    /\ UNCHANGED <<client, known, loop_refs, attached, owner, last, handler, cb,
                   tls_files, loaded, mqttFault>>

\* An option is refused: mqtt_destroy_client calls through client->loop, which
\* is set at the end of mqtt_create_client only.
CreateBadOption(a) ==
    /\ App("create")
    /\ "option" \in Fails
    /\ a \notin Listed \cup freed
    /\ freed = {}
    /\ Crash("null_loop")

\* artik_list_add and artik_list_get_by_handle read a freed node.
WalkFreedNode(a) ==
    /\ App("create")
    /\ WalkFaults(a)
    /\ Crash("freed_node")

\* artik_list_delete_node: the list without the node of a.
Unlinked(a) == RemoveAt(nodes, CHOOSE i \in DOMAIN nodes : nodes[i] = a)

\* Mutant of Destroy: the loop module is not released.
DestroyKeepsLoop(a) ==
    /\ nodes' = Unlinked(a)
    /\ client' = [client EXCEPT ![a] = NoClient]
    /\ attached' = attached \ {client[a].watch_id}
    /\ tls_files' = IF UseTls THEN NoAddr ELSE tls_files
    /\ UNCHANGED loop_refs

\* Mutant of Destroy: the watch stays on the loop.
DestroyKeepsWatch(a) ==
    /\ nodes' = Unlinked(a)
    /\ client' = [client EXCEPT ![a] = NoClient]
    /\ loop_refs' = loop_refs - 1
    /\ tls_files' = IF UseTls THEN NoAddr ELSE tls_files
    /\ UNCHANGED attached

\* The body of mqtt_destroy_client and destroy_client for a client found.
Destroy(a) ==
    /\ nodes' = Unlinked(a)
    /\ client' = [client EXCEPT ![a] = NoClient]
    /\ attached' = attached \ {client[a].watch_id}
    /\ loop_refs' = loop_refs - 1
    /\ tls_files' = IF UseTls THEN NoAddr ELSE tls_files

mqtt_destroy_client(a) ==
    /\ App("destroy")
    /\ Found(a)
    /\ Destroy(a)
    /\ known' = known \ {a}
    /\ UNCHANGED <<freed, owner, last, handler, cb, loaded, mqttFault>>

-----------------------------------------------------------------------------
(***************************************************************************)
(* Operations of a client                                                  *)
(***************************************************************************)

\* The six mqtt_set functions.
mqtt_set(a, k) ==
    /\ App("set")
    /\ Found(a)
    /\ k \notin client[a].on
    /\ client' = [client EXCEPT ![a].on = @ \cup {k}]
    /\ UNCHANGED <<nodes, freed, known, loop_refs, attached, owner, last, handler, cb,
                   tls_files, loaded, mqttFault>>

\* libmosquitto closes the socket of an earlier connection and reads the
\* certificate files when it connects.
mqtt_connect(a) ==
    /\ App("connect")
    /\ Found(a)
    /\ last < MaxConn
    /\ Reconnects \/ client[a].watch_id = 0
    /\ last' = last + 1
    /\ client' = [client EXCEPT ![a].sock = last', ![a].watch_id = last',
                                ![a].owed = {"connect"}]
    /\ attached' = attached \cup {last'}
    /\ owner' = [owner EXCEPT ![last'] = a]
    /\ loaded' = IF UseTls THEN <<a, tls_files>> ELSE loaded
    /\ UNCHANGED <<nodes, freed, known, loop_refs, handler, cb, tls_files, mqttFault>>

\* libmosquitto has no socket after a connect that it accepted: the client is
\* destroyed, and the application is told only that connect failed.
ConnectNoSocket(a) ==
    /\ App("connect")
    /\ "socket" \in Fails
    /\ Found(a)
    /\ Destroy(a)
    /\ UNCHANGED <<known, freed, owner, last, handler, cb, loaded, mqttFault>>

\* mosquitto_connect fails, after it gave up the connection it had.
ConnectRefused(a) ==
    /\ App("connect")
    /\ Found(a)
    /\ Reconnects /\ client[a].sock # 0
    /\ client' = [client EXCEPT ![a].sock = 0, ![a].owed = {}]
    /\ UNCHANGED <<nodes, freed, known, loop_refs, attached, owner, last, handler, cb,
                   tls_files, loaded, mqttFault>>

\* The application's callback of a kind, when it is set.
Notify(a, k) == cb' = IF k \in client[a].on THEN k ELSE "none"

Closed(a) == [client EXCEPT ![a].sock = 0, ![a].owed = {}]

\* Outside callbacks libmosquitto sends the packet, closes the socket and
\* calls back at once; inside one the packet waits for mosquitto_loop_write.
mqtt_disconnect(a) ==
    /\ App("disconnect")
    /\ Found(a)
    /\ client[a].sock # 0
    /\ \/ /\ cb = "none"
          /\ client' = Closed(a)
          /\ Notify(a, "disconnect")
       \/ /\ cb # "none"
          /\ client' = [client EXCEPT ![a].owed = @ \cup {"disconnect"}]
          /\ UNCHANGED cb
    /\ UNCHANGED <<nodes, freed, known, loop_refs, attached, owner, last, handler,
                   tls_files, loaded, mqttFault>>

\* mqtt_disconnect alone uses the client without having found it.
DisconnectStale(a) ==
    /\ App("disconnect")
    /\ a \in known \ Listed /\ ~WalkFaults(a)
    /\ Crash("null_client")

\* mqtt_subscribe, mqtt_unsubscribe and mqtt_publish hand a packet to
\* libmosquitto, which owes the answer.
Ask(a, k) ==
    /\ App("ask")
    /\ Found(a)
    /\ k \in Kinds
    /\ client[a].sock # 0 /\ k \notin client[a].owed
    /\ client' = [client EXCEPT ![a].owed = @ \cup {k}]
    /\ UNCHANGED <<nodes, freed, known, loop_refs, attached, owner, last, handler, cb,
                   tls_files, loaded, mqttFault>>

mqtt_subscribe(a) == Ask(a, "subscribe")
mqtt_unsubscribe(a) == Ask(a, "unsubscribe")
mqtt_publish(a, payload_len) == payload_len # 0 /\ Ask(a, "publish")

-----------------------------------------------------------------------------
(***************************************************************************)
(* loop_handler, a watch callback.  client->mosq is read before each of    *)
(* the three calls of libmosquitto.                                        *)
(***************************************************************************)
Place(p) == handler' = [handler EXCEPT !.at = p]

others == <<nodes, freed, known, loop_refs, attached, owner, last, tls_files, loaded,
            mqttFault>>

HandlerStart(w) ==
    /\ handler.at = "idle" /\ cb = "none"
    /\ w \in attached
    /\ ~WalkFaults(owner[w])
    /\ handler' = [watch |-> w, client |-> owner[w],
                   at |-> IF owner[w] \in Listed THEN "read" ELSE "return 0"]
    /\ UNCHANGED <<client, cb, others>>

\* mosquitto_loop_read, mosquitto_loop_write or mosquitto_loop_misc loses the
\* connection, or finds it lost already, and fails.
LibraryFails ==
    LET a == handler.client IN
    /\ cb = "none" /\ handler.at \in {"read", "write", "misc"}
    /\ a \in Listed
    /\ IF client[a].sock = 0 THEN UNCHANGED cb ELSE Notify(a, "disconnect")
    /\ client' = Closed(a)
    /\ Place("return 0")
    /\ UNCHANGED others

\* mosquitto_loop_read receives nothing, an answer that was owed, or a message.
LoopRead ==
    LET a == handler.client IN
    /\ cb = "none" /\ handler.at = "read"
    /\ a \in Listed /\ client[a].sock # 0
    /\ \/ UNCHANGED <<cb, client>>
       \/ \E k \in client[a].owed \ {"disconnect"} :
            /\ Notify(a, k)
            /\ client' = [client EXCEPT ![a].owed = @ \ {k}]
       \/ /\ Notify(a, "message")
          /\ UNCHANGED client
    /\ Place("write")
    /\ UNCHANGED others

\* mosquitto_loop_write sends what is queued; a DISCONNECT closes the socket.
LoopWrite ==
    LET a == handler.client IN
    /\ cb = "none" /\ handler.at = "write"
    /\ a \in Listed /\ client[a].sock # 0
    /\ IF "disconnect" \in client[a].owed
       THEN client' = Closed(a) /\ Notify(a, "disconnect")
       ELSE UNCHANGED <<client, cb>>
    /\ Place("misc")
    /\ UNCHANGED others

LoopMisc ==
    /\ cb = "none" /\ handler.at = "misc"
    /\ handler.client \in Listed /\ client[handler.client].sock # 0
    /\ Place("return 1")
    /\ UNCHANGED <<client, cb, others>>

\* The client was destroyed by a callback: client->mosq is freed memory.
HandlerUsesFreed ==
    /\ cb = "none" /\ handler.at \in {"read", "write", "misc"}
    /\ handler.client \notin Listed
    /\ Crash("freed_client")

\* The loop removes the watch of a handler that returns 0.
HandlerReturns ==
    /\ cb = "none" /\ handler.at \in {"return 0", "return 1"}
    /\ attached' = IF handler.at = "return 0"
                   THEN attached \ {handler.watch} ELSE attached
    /\ handler' = Idle
    /\ UNCHANGED <<client, cb, nodes, freed, known, loop_refs, owner, last, tls_files,
                   loaded, mqttFault>>

CallbackReturns ==
    /\ cb # "none"
    /\ cb' = "none"
    /\ UNCHANGED <<client, handler, others>>

-----------------------------------------------------------------------------
HandlerSteps == LibraryFails \/ LoopRead \/ LoopWrite \/ LoopMisc
                  \/ HandlerUsesFreed \/ HandlerReturns \/ CallbackReturns

MqttNext ==
    /\ mqttFault = "none"
    /\ \/ \E a \in Addrs :
            \/ mqtt_create_client(a)
            \/ CreateNoInstance(a)
            \/ CreateBadOption(a)
            \/ WalkFreedNode(a)
            \/ mqtt_destroy_client(a)
            \/ \E k \in Kinds : mqtt_set(a, k)
            \/ mqtt_connect(a)
            \/ ConnectNoSocket(a)
            \/ ConnectRefused(a)
            \/ mqtt_disconnect(a)
            \/ DisconnectStale(a)
            \/ mqtt_subscribe(a)
            \/ mqtt_unsubscribe(a)
            \/ \E len \in 0..1 : mqtt_publish(a, len)
       \/ \E w \in Conns : HandlerStart(w)
       \/ HandlerSteps

MqttSpec == MqttInit /\ [][MqttNext]_mqttVars

\* A watch whose socket was closed is always ready (POLLNVAL), and a handler
\* that was started, or a callback, comes to its end.
Stale(w) == w \in attached /\ (owner[w] \notin Listed \/ client[owner[w]].sock # w)

MqttFairness ==
    /\ WF_mqttVars(mqttFault = "none" /\ HandlerSteps)
    /\ \A w \in Conns : SF_mqttVars(mqttFault = "none" /\ Stale(w) /\ HandlerStart(w))

MqttFairSpec == MqttSpec /\ MqttFairness

-----------------------------------------------------------------------------
MqttTypeOK ==
    /\ nodes \in Seq(Addrs)
    /\ freed \subseteq Addrs /\ known \subseteq Addrs
    /\ \A a \in Addrs :
         /\ client[a].loop \in BOOLEAN
         /\ client[a].sock \in 0..MaxConn /\ client[a].watch_id \in 0..MaxConn
         /\ client[a].on \subseteq Kinds /\ client[a].owed \subseteq AllKinds
    /\ loop_refs \in Nat
    /\ attached \subseteq Conns
    /\ owner \in [Conns -> Addrs \cup {NoAddr}]
    /\ last \in 0..MaxConn
    /\ handler.watch \in 0..MaxConn /\ handler.client \in Addrs \cup {NoAddr}
    /\ cb \in AllKinds \cup {"none"}
    /\ mqttFault \in {"none", "null_loop", "null_client", "freed_client", "freed_node"}

\* No operation, in any order and from any callback, reads memory that is not
\* a live client's.
NoFault == mqttFault = "none"

\* Every client holds one reference to the loop module, and gives it back.
LoopBalanced == loop_refs = Cardinality({a \in Listed : client[a].loop})

\* destroy_client leaves no watch of the client on the loop, so that nothing
\* is dispatched for a handle that is gone.
DestroyedIsUnwatched ==
    handler.at = "idle" => \A w \in attached : owner[w] \in Listed

\* The watch of a connection that was lost, or left with disconnect, goes:
\* otherwise the loop would dispatch a closed descriptor for ever.
StaleWatchGoes == \A w \in Conns : Stale(w) ~> ~Stale(w)

\* A user's on_disconnect may destroy the client, as the tests do.
DestroyInCallback == mqttFault # "freed_client"

\* A client connects with the certificates of its own configuration: creation
\* writes the shared files without truncating them, connect reads them, and
\* destruction has to have removed the ones of the client before.
OwnCertificates == loaded = NoAddr \/ loaded[1] = loaded[2]

\* As long as no callback destroys a client and no client connects again: no
\* freed client or closed instance is used, nothing of a destroyed client is
\* left on the loop, and every connection is made with the client's own
\* certificates (mqtt_client.c).
MqttSound ==
  /\ MqttTypeOK /\ NoFault /\ DestroyedIsUnwatched /\ OwnCertificates

=============================================================================
