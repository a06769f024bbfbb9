------------------------------- MODULE BtGatt -------------------------------
(***************************************************************************)
(* bluetooth: the GATT server (gatt_server.c).  hci.gatt_services is a     *)
(* list of services with lists of characteristics and descriptors, built   *)
(* by the application, that BlueZ reaches through D-Bus objects.  A read   *)
(* or write of the remote side is a request: the library answers it, or    *)
(* gives it to the application, which answers it later.                    *)
(***************************************************************************)
EXTENDS Integers, Sequences, FiniteSets

CONSTANTS
  MaxServices,  \* services that are added
  MaxAttrs,     \* characteristics and descriptors that are added
  MaxReqs,      \* requests the remote side makes
  GattValues,   \* values of a characteristic or descriptor
  FirstValue    \* the one it is added with

ASSUME GattServerAssumption ==
  FirstValue \in GattValues /\ GattValues \subseteq Nat \ {0} /\ MaxServices \in Nat /\ MaxAttrs \in Nat /\ MaxReqs \in Nat

VARIABLES
  gattServices, \* hci.gatt_services: number in the path, characteristics
  attrs,        \* characteristics and descriptors ever allocated
  objects,      \* D-Bus paths with an object
  handed,       \* ids the application was given, with those they are under
  asked,        \* services BlueZ calls GetManagedObjects for
  requests,     \* requests that wait for an answer of the application
  asks,         \* requests made
  served,       \* requests answered
  gattFault,    \* NULL or freed memory was used
  cause         \* what the application did that may lead to it

gattVars == <<gattServices, attrs, objects, handed, asked, requests, asks, served, gattFault, cause>>

Unknown == 0
Blocks == 1..Len(attrs)

GattInit ==
  /\ gattServices = <<>>
  /\ attrs = <<>>
  /\ objects = {}
  /\ handed = {}
  /\ asked = {}
  /\ requests = {}
  /\ asks = 0
  /\ served = {}
  /\ gattFault = FALSE
  /\ cause = {}

Fault == gattFault' = TRUE /\ UNCHANGED <<gattServices, attrs, objects, handed, asked, requests, asks, served, cause>>

-----------------------------------------------------------------------------
(* g_slist_nth_data: the elements of a list are counted from 0, and past   *)
(* the end there is NULL.                                                  *)

NULL == 0
Nth(list, n) == IF n < Len(list) THEN list[n + 1] ELSE NULL

\* NULL: E_BAD_ARGS.  The test lets an id equal to the length pass.
Crash == -1

_find_chr_list_by_id(svc, chr) ==
  IF Len(gattServices) < svc THEN NULL
  ELSE IF Len(gattServices) = svc THEN Crash
  ELSE Nth(gattServices[svc + 1].chars, chr)

_find_desc_list_by_id(svc, chr, desc) ==
  LET c == _find_chr_list_by_id(svc, chr) IN
  IF c \in {NULL, Crash} THEN c ELSE Nth(attrs[c].descs, desc)

InList(b) ==
  \E s \in DOMAIN gattServices :
    \/ \E i \in DOMAIN gattServices[s].chars : gattServices[s].chars[i] = b
    \/ \E i \in DOMAIN gattServices[s].chars :
         \E j \in DOMAIN attrs[gattServices[s].chars[i]].descs :
           attrs[gattServices[s].chars[i]].descs[j] = b

\* _find_chr_list_by_path and _find_desc_list: by the path of the object.
Find(path) == {b \in Blocks : InList(b) /\ attrs[b].path = path}

-----------------------------------------------------------------------------
(* Building the list.                                                      *)

\* The path ends in the length of the list.  Objects are never taken away
\* again, so that a number can be used once.
bt_gatt_add_service ==
  LET n == Len(gattServices) IN
  /\ n < MaxServices
  /\ <<n>> \notin objects
  /\ objects' = objects \cup {<<n>>}
  /\ gattServices' = Append(gattServices, [num |-> n, chars |-> <<>>])
  /\ handed' = handed \cup {<<n>>}
  /\ UNCHANGED <<attrs, asked, requests, asks, served, gattFault, cause>>

Attr(path) == [path |-> path, descs |-> <<>>, value |-> FirstValue, seen |-> Unknown, cbs |-> {}, live |-> TRUE]

\* The service the application names is not looked at: it is the first.
bt_gatt_add_characteristic(svc) ==
  LET chars == gattServices[1].chars
      path == <<0, Len(chars)>>
  IN /\ Len(attrs) < MaxAttrs
     /\ IF gattServices = <<>> THEN Fault
        ELSE /\ path \notin objects
             /\ objects' = objects \cup {path}
             /\ attrs' = Append(attrs, Attr(path))
             /\ gattServices' = [gattServices EXCEPT ![1].chars = Append(@, Len(attrs) + 1)]
             /\ handed' = handed \cup {<<svc, Len(chars)>>}
             /\ cause' = IF svc # 0 THEN cause \cup {"misplaced"} ELSE cause
             /\ UNCHANGED <<asked, requests, asks, served, gattFault>>

\* Neither the service nor the characteristic is tested for NULL.
bt_gatt_add_descriptor(svc, chr) ==
  LET c == IF svc < Len(gattServices) THEN Nth(gattServices[svc + 1].chars, chr) ELSE NULL
  IN /\ Len(attrs) < MaxAttrs
     /\ IF c = NULL THEN Fault
        ELSE LET path == <<svc, chr, Len(attrs[c].descs)>> IN
             /\ path \notin objects
             /\ objects' = objects \cup {path}
             /\ attrs' = Append([attrs EXCEPT ![c].descs = Append(@, Len(attrs) + 1)], Attr(path))
             /\ handed' = handed \cup {path}
             /\ UNCHANGED <<gattServices, asked, requests, asks, served, gattFault, cause>>

SetCallback(b, which) ==
  \/ b = Crash /\ Fault
  \/ /\ b \in Blocks
     /\ attrs' = [attrs EXCEPT ![b].cbs = @ \cup {which}]
     /\ UNCHANGED <<gattServices, objects, handed, asked, requests, asks, served, gattFault, cause>>

bt_gatt_set_chr_on_read_request(svc, chr) == SetCallback(_find_chr_list_by_id(svc, chr), "read")
bt_gatt_set_chr_on_write_request(svc, chr) == SetCallback(_find_chr_list_by_id(svc, chr), "write")
bt_gatt_set_desc_on_read_request(svc, chr, d) == SetCallback(_find_desc_list_by_id(svc, chr, d), "read")
bt_gatt_set_desc_on_write_request(svc, chr, d) == SetCallback(_find_desc_list_by_id(svc, chr, d), "write")

\* RegisterApplication is not waited for; BlueZ reads the objects next.
bt_gatt_register_service(svc) ==
  /\ asked' = asked \cup {svc}
  /\ UNCHANGED <<gattServices, attrs, objects, handed, requests, asks, served, gattFault, cause>>

\* GetManagedObjects uses the number in the path as a position.
_serv_method_call(svc) ==
  /\ <<svc>> \in objects
  /\ IF svc >= Len(gattServices) THEN Fault
     ELSE /\ asked' = asked \ {svc}
          /\ UNCHANGED <<gattServices, attrs, objects, handed, requests, asks, served, gattFault, cause>>

\* The services behind move up, and the blocks are freed while requests may
\* point to them.
_free_service(svc) ==
  LET gone == IF svc < Len(gattServices)
              THEN {gattServices[svc + 1].chars[i] : i \in DOMAIN gattServices[svc + 1].chars}
              ELSE {}
      freed == gone \cup UNION {{attrs[b].descs[j] : j \in DOMAIN attrs[b].descs} : b \in gone}
  IN /\ gattServices' = IF svc >= Len(gattServices) THEN gattServices
                        ELSE SubSeq(gattServices, 1, svc) \o
                             SubSeq(gattServices, svc + 2, Len(gattServices))
     /\ attrs' = [b \in Blocks |-> [attrs[b] EXCEPT !.live = @ /\ b \notin freed]]
     /\ cause' = cause
          \cup (IF svc < Len(gattServices) - 1 THEN {"shifted"} ELSE {})
          \cup (IF \E r \in requests : r.block \in freed THEN {"orphaned"} ELSE {})
          \cup (IF svc \in asked THEN {"unregistered while asked"} ELSE {})

bt_gatt_unregister_service(svc) ==
  /\ _free_service(svc)
  /\ handed' = {id \in handed : id[1] # svc}
  /\ UNCHANGED <<objects, asked, requests, asks, served, gattFault>>

-----------------------------------------------------------------------------
(* Requests.                                                               *)

\* The value a reader gets, or that a writer is told was written.
Shown(b, v) == [attrs EXCEPT ![b].value = v, ![b].seen = v]

\* A request for an object without a block is answered at once; so is one
\* without a callback.  _desc_method_call does the same for descriptors.
WriteValue(path, v) ==
  /\ asks < MaxReqs /\ asks' = asks + 1
  /\ \/ Find(path) = {} /\ served' = served \cup {asks + 1} /\ UNCHANGED <<attrs, requests>>
     \/ \E b \in Find(path) :
          IF "write" \in attrs[b].cbs
          THEN /\ requests' = requests \cup {[id |-> asks + 1, type |-> "WRITE", block |-> b, value |-> v]}
               /\ UNCHANGED <<attrs, served>>
          ELSE attrs' = Shown(b, v) /\ served' = served \cup {asks + 1} /\ UNCHANGED requests
  /\ UNCHANGED <<gattServices, objects, handed, asked, gattFault, cause>>

ReadValue(path) ==
  /\ asks < MaxReqs /\ asks' = asks + 1
  /\ \/ Find(path) = {} /\ served' = served \cup {asks + 1} /\ UNCHANGED <<attrs, requests>>
     \/ \E b \in Find(path) :
          IF "read" \in attrs[b].cbs
          THEN /\ requests' = requests \cup {[id |-> asks + 1, type |-> "READ", block |-> b, value |-> Unknown]}
               /\ UNCHANGED <<attrs, served>>
          ELSE attrs' = Shown(b, attrs[b].value) /\ served' = served \cup {asks + 1} /\ UNCHANGED requests
  /\ UNCHANGED <<gattServices, objects, handed, asked, gattFault, cause>>

_char_method_call(path) == Len(path) = 2 /\ (ReadValue(path) \/ \E v \in GattValues : WriteValue(path, v))
_desc_method_call(path) == Len(path) = 3 /\ (ReadValue(path) \/ \E v \in GattValues : WriteValue(path, v))

_send_request(r) ==
  /\ served' = served \cup {r.id}
  /\ requests' = requests \ {r}
  /\ UNCHANGED <<gattServices, objects, handed, asked, asks, gattFault, cause>>

\* E_BAD_ARGS for a write.  The value is kept, then the reader answered.
bt_gatt_req_set_value(r, v) ==
  /\ r.type = "READ"
  /\ IF ~attrs[r.block].live THEN Fault
     ELSE attrs' = Shown(r.block, v) /\ _send_request(r)

\* _return_dbus_state: success is for a write only (E_BAD_ARGS, and the
\* request still waits), the errors for both.
bt_gatt_req_set_result(r, ok) ==
  /\ ok => r.type = "WRITE"
  /\ IF ok /\ ~attrs[r.block].live THEN Fault
     ELSE /\ attrs' = IF ok THEN Shown(r.block, r.value) ELSE attrs
          /\ _send_request(r)

bt_gatt_notify(svc, chr, v) ==
  LET b == _find_chr_list_by_id(svc, chr) IN
  \/ b = Crash /\ Fault
  \/ /\ b \in Blocks
     /\ attrs' = Shown(b, v)
     /\ UNCHANGED <<gattServices, objects, handed, asked, requests, asks, served, gattFault, cause>>

-----------------------------------------------------------------------------
\* The application passes ids it was given and has not given back.
os_bt_gatt_service(svc) ==
  \/ bt_gatt_add_characteristic(svc)
  \/ bt_gatt_register_service(svc) \/ bt_gatt_unregister_service(svc)

os_bt_gatt_characteristic(svc, chr) ==
  \/ bt_gatt_set_chr_on_read_request(svc, chr) \/ bt_gatt_set_chr_on_write_request(svc, chr)
  \/ bt_gatt_add_descriptor(svc, chr)
  \/ \E v \in GattValues : bt_gatt_notify(svc, chr, v)

os_bt_gatt_descriptor(svc, chr, desc) ==
  \/ bt_gatt_set_desc_on_read_request(svc, chr, desc)
  \/ bt_gatt_set_desc_on_write_request(svc, chr, desc)

GattAnswers(r) ==
  \/ \E v \in GattValues : bt_gatt_req_set_value(r, v)
  \/ \E ok \in BOOLEAN : bt_gatt_req_set_result(r, ok)

artik_bluetooth_gatt ==
  \/ bt_gatt_add_service
  \/ \E id \in handed : \/ Len(id) = 1 /\ os_bt_gatt_service(id[1])
                        \/ Len(id) = 2 /\ os_bt_gatt_characteristic(id[1], id[2])
                        \/ Len(id) = 3 /\ os_bt_gatt_descriptor(id[1], id[2], id[3])
  \/ \E r \in requests : GattAnswers(r)

GattNext ==
  /\ ~gattFault
  /\ \/ artik_bluetooth_gatt
     \/ \E svc \in asked : _serv_method_call(svc)
     \/ \E path \in objects : _char_method_call(path) \/ _desc_method_call(path)

\* The application answers every request it is given.
GattFairness == \A id \in 1..MaxReqs :
  WF_gattVars(~gattFault /\ \E r \in requests : r.id = id /\ GattAnswers(r))

GattSpec == GattInit /\ [][GattNext]_gattVars /\ GattFairness

-----------------------------------------------------------------------------
(* The kinds of the variables; every request that was made waits or has    *)
(* been answered, and only once.                                           *)
GattTypeOK ==
  /\ \A i \in DOMAIN gattServices :
       /\ gattServices[i].num \in 0..(MaxServices - 1)
       /\ \A j \in DOMAIN gattServices[i].chars : gattServices[i].chars[j] \in Blocks
  /\ \A b \in Blocks : attrs[b].value \in GattValues /\ attrs[b].cbs \subseteq {"read", "write"}
  /\ \A id \in handed : Len(id) \in 1..3
  /\ asked \subseteq 0..(MaxServices - 1)
  /\ {r.id : r \in requests} \cup served = 1..asks
  /\ {r.id : r \in requests} \cap served = {}

(* No two services share a path, however services come and go: a request   *)
(* for a path reaches the one characteristic or descriptor that has it.    *)
PathsDistinct ==
  /\ \A i, j \in DOMAIN gattServices : gattServices[i].num = gattServices[j].num => i = j
  /\ \A path \in objects : Cardinality(Find(path)) <= 1

(* An application that takes services away last first, and only when BlueZ *)
(* is not reading them, can use the ids it was given as positions.         *)
PositionIsPath ==
  "shifted" \notin cause => \A i \in DOMAIN gattServices : gattServices[i].num = i - 1

(* Memory is used wrongly only after a service was taken away out of       *)
(* order, with a request waiting or while BlueZ was reading it, or after a *)
(* characteristic was meant for another service than the first.            *)
FaultHasCause == gattFault => cause # {}

(* What the remote side was shown last - a value it wrote and that was     *)
(* acknowledged, read or was notified of - is the value that is kept, with *)
(* any number of reads and writes waiting for the application.             *)
ValueIsShown == \A b \in Blocks : attrs[b].seen # Unknown => attrs[b].value = attrs[b].seen

(* Every read and every write is answered, when the application answers    *)
(* what it is given.                                                       *)
EveryRequestServed == \A id \in 1..MaxReqs : asks >= id ~> (id \in served \/ gattFault)

(***************************************************************************)
(* bluetooth: the GATT client (gatt_client.c, gatt.c), the signals of      *)
(* BlueZ it lives on (core.c) and the settings of the adapter that end     *)
(* connections (adapter.c).  hci.gatt_clients is a list of characteristics *)
(* with their D-Bus paths.  StartNotify and StopNotify are sent without    *)
(* waiting; BlueZ's signals wait for the main loop.  A characteristic is   *)
(* a device and a uuid: devices have the same uuids.                       *)
(***************************************************************************)

CONSTANTS
  Peers,       \* remote devices
  Uuids,       \* uuids of characteristics
  HeartRate,   \* UUID_HEART_RATE_MEASUREMENT, one of them
  MaxClients,  \* calls of start_notify and stop_notify
  MaxSignals   \* signals that wait

ASSUME GattClientAssumption == HeartRate \in Uuids /\ MaxClients \in Nat /\ MaxSignals \in Nat

VARIABLES
  powered, scanning,  \* BlueZ: the adapter
  resolved,   \* BlueZ: devices whose services have objects
  notifying,  \* BlueZ: characteristics it notifies this process of
  sent,       \* StartNotify and StopNotify on their way to BlueZ
  clients,    \* hci.gatt_clients: how many nodes have each path
  clientCalls,
  wanted,     \* characteristics the application started and did not stop
  signals,    \* signals of BlueZ for the main loop
  timer,      \* hci.source is attached
  news,       \* services whose discovery the application was not told of
  gotten,     \* deliveries of the signal that was dispatched last
  cliFault, cliCause

bluezVars == <<powered, scanning, resolved, notifying, sent>>
gattClientVars == <<bluezVars, clients, clientCalls, wanted, signals, timer, news, gotten, cliFault, cliCause>>

Chars == Peers \X Uuids

GattClientInit ==
  /\ powered = TRUE /\ scanning = FALSE
  /\ resolved = {} /\ notifying = {} /\ sent = <<>>
  /\ clients = [c \in Chars |-> 0] /\ clientCalls = 0 /\ wanted = {}
  /\ signals = <<>> /\ timer = FALSE /\ news = FALSE /\ gotten = 0
  /\ cliFault = FALSE /\ cliCause = {}

\* _get_gatt_path finds the service of the device and the characteristic
\* under it among the objects of BlueZ.
_get_gatt_path(c) == c[1] \in resolved

-----------------------------------------------------------------------------
(* The application.                                                        *)

\* A characteristic that is in the list gets another node.
bt_gatt_start_notify(c) ==
  /\ clientCalls < MaxClients
  /\ _get_gatt_path(c)
  /\ clients' = [clients EXCEPT ![c] = @ + 1]
  /\ sent' = Append(sent, [start |-> TRUE, char |-> c])
  /\ clientCalls' = clientCalls + 1
  /\ wanted' = wanted \cup {c}
  /\ gotten' = 0
  /\ UNCHANGED <<powered, scanning, resolved, notifying, signals, timer, news, cliFault, cliCause>>

\* Every client with the uuid, of whatever device.
_remove_notify(u) == [c \in Chars |-> IF c[2] = u THEN 0 ELSE clients[c]]

bt_gatt_stop_notify(c) ==
  /\ clientCalls < MaxClients
  /\ _get_gatt_path(c)
  /\ sent' = Append(sent, [start |-> FALSE, char |-> c])
  /\ clients' = _remove_notify(c[2])
  /\ clientCalls' = clientCalls + 1
  /\ wanted' = wanted \ {c}
  /\ cliCause' = IF \E k \in wanted : k[2] = c[2] /\ k # c THEN cliCause \cup {"shared uuid"} ELSE cliCause
  /\ gotten' = 0
  /\ UNCHANGED <<powered, scanning, resolved, notifying, signals, timer, news, cliFault>>

Signal(s) == Len(signals) < MaxSignals /\ signals' = Append(signals, s)

\* The remote side tells its subscribers.
bt_gatt_char_write_value(c) ==
  /\ _get_gatt_path(c)
  /\ c \in notifying
  /\ Signal([kind |-> "value", char |-> c])
  /\ gotten' = 0
  /\ UNCHANGED <<bluezVars, clients, clientCalls, wanted, timer, news, cliFault, cliCause>>

\* Connections end, and the objects of the services with them.
PeersGone(gone) ==
  /\ resolved' = resolved \ gone
  /\ notifying' = {c \in notifying : c[1] \notin gone}
  /\ cliCause' = IF gone \cap resolved # {} THEN cliCause \cup {"peer gone"} ELSE cliCause
  /\ gotten' = 0

bt_set_powered(on) ==
  /\ powered' = on
  /\ scanning' = (scanning /\ on)
  /\ PeersGone(IF on THEN {} ELSE Peers)
  /\ UNCHANGED <<sent, clients, clientCalls, wanted, signals, timer, news, cliFault>>

\* bt_start_scan and bt_stop_scan look at Discovering first.
ScanSwitch(on) ==
  /\ scanning # on
  /\ powered
  /\ scanning' = on
  /\ UNCHANGED <<powered, resolved, notifying, sent, clients, clientCalls, wanted, signals, timer, news, gotten, cliFault, cliCause>>

-----------------------------------------------------------------------------
(* The main loop.                                                          *)

\* Each service starts the 30 ms anew.
_on_interface_added == timer' = TRUE /\ news' = TRUE

_on_timeout ==
  /\ timer
  /\ timer' = FALSE
  /\ news' = FALSE
  /\ gotten' = 0
  /\ UNCHANGED <<bluezVars, clients, clientCalls, wanted, signals, cliFault, cliCause>>

\* Mutant: the search goes on after the first client.
DeliversToAll(c) ==
  /\ IF c[1] \notin resolved
     THEN cliFault' = TRUE /\ gotten' = 0
     ELSE /\ gotten' = clients[c]
          /\ UNCHANGED cliFault

\* The uuid is asked for, and the answer is used where there is none.  The
\* heart rate has a callback of its own; others go to the first client.
_gatt_properties_changed(c) ==
  /\ IF c[1] \notin resolved
     THEN cliFault' = TRUE /\ gotten' = 0
     ELSE /\ gotten' = IF c[2] = HeartRate \/ clients[c] > 0 THEN 1 ELSE 0
          /\ UNCHANGED cliFault

_dbus_signal_callback ==
  /\ signals # <<>>
  /\ LET s == Head(signals) IN
     \/ s.kind = "service" /\ _on_interface_added /\ gotten' = 0 /\ UNCHANGED cliFault
     \/ s.kind = "value" /\ _gatt_properties_changed(s.char) /\ UNCHANGED <<timer, news>>
  /\ signals' = Tail(signals)
  /\ UNCHANGED <<bluezVars, clients, clientCalls, wanted, cliCause>>

-----------------------------------------------------------------------------
(* BlueZ.                                                                  *)

\* A device connects and its services are found.
ServicesFound(d) ==
  /\ powered
  /\ d \notin resolved
  /\ resolved' = resolved \cup {d}
  /\ Signal([kind |-> "service", char |-> <<d, HeartRate>>])
  /\ gotten' = 0
  /\ UNCHANGED <<powered, scanning, notifying, sent, clients, clientCalls, wanted, timer, news, cliFault, cliCause>>

PeerLeaves(d) ==
  /\ d \in resolved
  /\ PeersGone({d})
  /\ UNCHANGED <<powered, scanning, sent, clients, clientCalls, wanted, signals, timer, news, cliFault>>

BluezHandles ==
  /\ sent # <<>>
  /\ LET m == Head(sent) IN
     notifying' = IF m.start /\ m.char[1] \in resolved THEN notifying \cup {m.char} ELSE notifying \ {m.char}
  /\ sent' = Tail(sent)
  /\ gotten' = 0
  /\ UNCHANGED <<powered, scanning, resolved, clients, clientCalls, wanted, signals, timer, news, cliFault, cliCause>>

-----------------------------------------------------------------------------
os_bt_gatt_client(c) ==
  bt_gatt_start_notify(c) \/ bt_gatt_stop_notify(c) \/ bt_gatt_char_write_value(c)

GattClientApplication ==
  \/ \E c \in Chars : os_bt_gatt_client(c)
  \/ \E on \in BOOLEAN : bt_set_powered(on) \/ ScanSwitch(on)

GattClientNext ==
  /\ ~cliFault
  /\ \/ GattClientApplication
     \/ _dbus_signal_callback \/ _on_timeout
     \/ \E d \in Peers : ServicesFound(d) \/ PeerLeaves(d)
     \/ BluezHandles

\* The main loop dispatches signals and timers.
GattClientFairness ==
  /\ WF_gattClientVars(~cliFault /\ _dbus_signal_callback)
  /\ WF_gattClientVars(~cliFault /\ _on_timeout)

GattClientSpec == GattClientInit /\ [][GattClientNext]_gattClientVars /\ GattClientFairness

-----------------------------------------------------------------------------
(* The kinds of the variables; an adapter that is off has no connections   *)
(* and does not scan.                                                      *)
GattClientTypeOK ==
  /\ powered \in BOOLEAN /\ scanning \in BOOLEAN /\ timer \in BOOLEAN /\ news \in BOOLEAN
  /\ resolved \subseteq Peers
  /\ notifying \subseteq {c \in Chars : c[1] \in resolved}
  /\ clients \in [Chars -> 0..clientCalls]
  /\ Len(signals) <= MaxSignals
  /\ ~powered => ~scanning /\ resolved = {}

(* A characteristic the application started and did not stop has a client  *)
(* that its values are given to.  The one way to lose it is to stop the    *)
(* same uuid of another device, which removes the clients of both.         *)
WantedHasClient == "shared uuid" \notin cliCause => wanted \subseteq {c \in Chars : clients[c] > 0}

(* A value is given to the application at most once, also when the         *)
(* application started the same characteristic several times.              *)
DeliveredOnce == gotten <= 1

(* The answer that is not there is used only for a characteristic whose    *)
(* device went away while the signal waited for the main loop.             *)
ClientFaultHasCause == cliFault => "peer gone" \in cliCause

(* The application is told once services were found, however the 30 ms     *)
(* begin anew with each service.                                           *)
ServicesTold == news ~> ~news \/ cliFault

\* Services keep distinct paths and the positions their ids name, values are
\* those written last, wanted notifications have a client and are delivered
\* once, but for the removals the parts name (gatt_server.c, gatt_client.c).
GattSound ==
  /\ GattTypeOK /\ PathsDistinct /\ PositionIsPath /\ FaultHasCause
  /\ ValueIsShown /\ GattClientTypeOK /\ WantedHasClient /\ DeliveredOnce
  /\ ClientFaultHasCause

=============================================================================
