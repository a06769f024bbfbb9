-------------------------------- MODULE Wifi --------------------------------
(***************************************************************************)
(* wifi on Linux: linux_wifi.c over wifi.c over the two sockets wpa_cli.c  *)
(* keeps to wpa_supplicant.  Commands and replies go over the control      *)
(* socket, where an answer that comes after the ten seconds of its request *)
(* stays and is read by the next one; events come over the monitor socket, *)
(* which eloop.c watches on the main loop (the build defines               *)
(* CONFIG_ELOOP_GMAINLOOP).  wifi.c has its own copy of the pointer to the *)
(* control connection.  A call of the application is one thread with the   *)
(* loop; wifi_connect is one step per command.                             *)
(***************************************************************************)
EXTENDS Integers, Sequences, FiniteSets

CONSTANTS
  Ssids,        \* names applications connect to
  NameContains, \* <<s, t>>: the name s has the name t as a part
  MaxNets,      \* network profiles the supplicant has room for
  MaxEvents     \* events on the monitor socket

ASSUME WifiAssumption == /\ MaxNets \in Nat \ {0} /\ MaxEvents \in Nat
                         /\ NameContains \subseteq Ssids \X Ssids
                         /\ \A s \in Ssids : <<s, s>> \in NameContains
                         /\ "unset" \notin Ssids /\ "none" \notin Ssids

VARIABLES
  wifi,      \* linux_wifi.c and wifi.c: flags, mode, ctrl_ifname, copied pointer
  cli,       \* wpa_cli.c: ctrl_conn, mon_conn with its watch, active_scan
  replies,   \* answers on the control socket no request has read
  wEvents,   \* events on the monitor socket
  handling,  \* an event whose callback is running, and if its connection is still there
  call,      \* wifi_connect in progress
  supp,      \* wpa_supplicant: alive, scanning, profiles, the selected one
  slipped,   \* a request of this connection timed out
  lostNets,  \* a profile was overwritten that has nothing to do with the name asked for
  closedBy,  \* who closed the last connection
  wFault

wifiVars == <<wifi, cli, replies, wEvents, handling, call, supp, slipped, lostNets, closedBy, wFault>>

Ids == 0..(MaxNets - 1)
NoNet == [ssid |-> "none", keyed |-> FALSE]
NoCall == [step |-> "none", ssid |-> "none", id |-> 0, refused |-> FALSE]
NotHandling == [event |-> "none", open |-> TRUE]

WifiInit ==
  /\ wifi = [initialized |-> FALSE, connected |-> FALSE, mode |-> "none", ifname |-> FALSE, ctrl |-> "null"]
  /\ cli = [conn |-> FALSE, mon |-> FALSE, scan |-> FALSE]
  /\ replies = <<>> /\ wEvents = <<>>
  /\ handling = NotHandling /\ call = NoCall
  /\ supp = [alive |-> TRUE, scanning |-> FALSE, nets |-> [i \in Ids |-> NoNet], selected |-> -1]
  /\ slipped = FALSE /\ lostNets = FALSE /\ closedBy = "nobody" /\ wFault = "none"

Runs == wFault = "none" /\ call.step = "none"

-----------------------------------------------------------------------------
(* wpa_ctrl.c, wpa_cli.c, eloop.c *)

Reply(kind, id, nets) == [kind |-> kind, id |-> id, nets |-> nets]
Plain(kind) == Reply(kind, 0, {})

\* wpa_ctrl_request: the command is not sent, or the supplicant acts and
\* answers with r.  The first answer on the socket is taken; when there is
\* none for ten seconds the request fails and r comes later.
wpa_ctrl_request(r, after) ==
  {[ok |-> FALSE, reply |-> Plain("none"), replies |-> replies, supp |-> supp, slip |-> slipped]}
  \cup (IF ~supp.alive THEN {}
        ELSE IF replies # <<>>
        THEN {[ok |-> TRUE, reply |-> Head(replies), replies |-> Append(Tail(replies), r),
               supp |-> after, slip |-> slipped]}
        ELSE {[ok |-> TRUE, reply |-> r, replies |-> <<>>, supp |-> after, slip |-> slipped],
              [ok |-> FALSE, reply |-> Plain("none"), replies |-> <<r>>, supp |-> after,
               slip |-> TRUE]})

Sent(o) == replies' = o.replies /\ supp' = o.supp /\ slipped' = o.slip

\* _wifi_send_cmd uses wifi.c's copy of the pointer: null is an error, a
\* connection that was closed since is freed memory.
_wifi_send_cmd(r, after) ==
  CASE wifi.ctrl = "live" -> wpa_ctrl_request(r, after)
    [] wifi.ctrl = "null" -> {[ok |-> FALSE, reply |-> Plain("none"), replies |-> replies,
                               supp |-> supp, slip |-> slipped]}
    [] wifi.ctrl = "freed" -> {}

UsesFreed ==
  /\ wifi.ctrl = "freed" /\ wFault' = "request"
  /\ UNCHANGED <<replies, supp, slipped, wifi, cli, call>>

\* Both sockets are closed with what is on them and the watch is removed; the
\* copy in wifi.c keeps its value, and so does a wpa_cli_recv_pending below.
wpa_cli_close_connection(by) ==
  IF ~cli.conn
  THEN UNCHANGED <<cli, wifi, replies, wEvents, slipped, closedBy, handling>>
  ELSE /\ cli' = [cli EXCEPT !.conn = FALSE, !.mon = FALSE]
       /\ wifi' = [wifi EXCEPT !.ctrl = IF @ = "live" THEN "freed" ELSE @]
       /\ handling' = [handling EXCEPT !.open = @ /\ handling = NotHandling]
       /\ replies' = <<>> /\ wEvents' = <<>> /\ slipped' = FALSE /\ closedBy' = by

\* check_event calls back for the end of a scan that was asked for and for
\* changes of the link; which callbacks are set is left open.
check_event(e) ==
  {NotHandling} \cup IF e = "scan_results" => cli.scan THEN {[event |-> e, open |-> TRUE]} ELSE {}

\* Mutant: active_scan is left set by the event that ends the scan.
ReceiveKeepsScan ==
  /\ Runs /\ handling = NotHandling /\ cli.mon /\ wEvents # <<>>
  /\ wEvents' = Tail(wEvents)
  /\ UNCHANGED <<wifi, cli, replies, handling, call, supp, slipped, lostNets, closedBy, wFault>>

\* wpa_cli_mon_receive: one message of the monitor socket.  The messages after
\* it are taken by the same loop, and nothing else runs on this thread between.
wpa_cli_recv_pending ==
  LET e == Head(wEvents)
  IN /\ Runs /\ handling = NotHandling /\ cli.mon /\ wEvents # <<>>
     /\ IF e = "terminating"
        THEN wpa_cli_close_connection("terminating")
        ELSE /\ wEvents' = Tail(wEvents)
             /\ cli' = [cli EXCEPT !.scan = @ /\ e # "scan_results"]
             /\ handling' \in check_event(e)
             /\ UNCHANGED <<wifi, replies, slipped, closedBy>>
     /\ UNCHANGED <<call, supp, lostNets, wFault>>

\* The callback returns and wpa_ctrl_pending looks at the connection again.
CallbackReturns ==
  /\ Runs /\ handling # NotHandling
  /\ wFault' = IF handling.open THEN "none" ELSE "pending"
  /\ handling' = NotHandling
  /\ UNCHANGED <<wifi, cli, replies, wEvents, call, supp, slipped, lostNets, closedBy>>

-----------------------------------------------------------------------------
(* wifi.c and linux_wifi.c *)

\* Socket, bind and connect; a supplicant that is down refuses.
wpa_ctrl_open2 == IF supp.alive THEN BOOLEAN ELSE {FALSE}

\* The control connection, the monitor connection (without one there are no
\* events) and ATTACH, which closes both when it fails.
wpa_cli_open_connection ==
  {[conn |-> FALSE, mon |-> FALSE]}
  \cup {[conn |-> conn, mon |-> conn /\ mon] : conn, mon \in wpa_ctrl_open2}

\* ctrl_ifname is set first and stays set when a later step fails.
wifi_initialize(mode) ==
  IF wifi.ifname
  THEN UNCHANGED <<wifi, cli>>
  ELSE \E c \in wpa_cli_open_connection :
         /\ cli' = [cli EXCEPT !.conn = c.conn, !.mon = c.mon,
                               !.scan = IF c.conn THEN FALSE ELSE @]
         /\ wifi' = IF c.conn
                    THEN [wifi EXCEPT !.ifname = TRUE, !.ctrl = "live", !.initialized = TRUE,
                                      !.mode = mode]
                    ELSE [wifi EXCEPT !.ifname = TRUE]

os_wifi_init(mode) ==
  /\ Runs /\ ~wifi.initialized
  /\ wifi_initialize(mode)
  /\ UNCHANGED <<replies, wEvents, handling, call, supp, slipped, lostNets, closedBy, wFault>>

\* wifi_connected is left as it is.
os_wifi_deinit ==
  /\ Runs /\ wifi.initialized
  /\ cli' = [cli EXCEPT !.conn = FALSE, !.mon = FALSE]
  /\ wifi' = [wifi EXCEPT !.initialized = FALSE, !.mode = "none", !.ifname = FALSE,
                          !.ctrl = IF cli.conn THEN "freed" ELSE @]
  /\ handling' = [handling EXCEPT !.open = @ /\ (handling = NotHandling \/ ~cli.conn)]
  /\ replies' = <<>> /\ wEvents' = <<>> /\ slipped' = FALSE
  /\ closedBy' = IF cli.conn THEN "deinit" ELSE closedBy
  /\ UNCHANGED <<call, supp, lostNets, wFault>>

Idles(S) == UNCHANGED <<wEvents, handling, lostNets, closedBy>> /\ UNCHANGED S

\* active_scan follows a reply that begins with OK, whichever request it answers.
os_wifi_scan_request ==
  /\ Runs /\ wifi.mode = "station"
  /\ \/ \E o \in _wifi_send_cmd(Plain(IF supp.scanning THEN "fail" ELSE "ok"),
                                [supp EXCEPT !.scanning = TRUE]) :
          /\ Sent(o)
          /\ cli' = [cli EXCEPT !.scan = @ \/ o.reply.kind = "ok"]
          /\ UNCHANGED <<wifi, call, wFault>>
     \/ UsesFreed
  /\ Idles(<<>>)

\* A list of profiles where the results of a scan are expected has no fields
\* to cut an address from.
os_wifi_get_scan_result ==
  /\ Runs /\ wifi.mode = "station"
  /\ \/ \E o \in _wifi_send_cmd(Plain("scan"), supp) :
          /\ Sent(o)
          /\ wFault' = IF o.reply.kind = "list" /\ o.reply.nets # {} THEN "parse" ELSE "none"
          /\ UNCHANGED <<wifi, cli, call>>
     \/ UsesFreed
  /\ Idles(<<>>)

os_wifi_connect(s) ==
  /\ Runs /\ wifi.mode = "station" /\ ~wifi.connected
  /\ call' = [NoCall EXCEPT !.step = "list", !.ssid = s]
  /\ UNCHANGED <<wifi, cli, replies, wEvents, handling, supp, slipped, lostNets, closedBy, wFault>>

Listed == {<<i, supp.nets[i].ssid>> : i \in {j \in Ids : supp.nets[j] # NoNet}}

\* Mutant: the first profile is taken whatever its name.
ListTakesFirst ==
  /\ wFault = "none" /\ call.step = "list"
  /\ \/ \E o \in _wifi_send_cmd(Reply("list", 0, Listed), supp) :
          /\ Sent(o)
          /\ call' = IF ~o.ok THEN NoCall
                     ELSE [call EXCEPT !.step = IF o.reply.nets = {} THEN "add" ELSE "ssid"]
          /\ UNCHANGED <<wifi, cli, wFault>>
     \/ UsesFreed
  /\ Idles(<<>>)

\* os_strstr finds the name anywhere in the answer: the first profile whose
\* name contains it.  In the results of a scan it would cut an address for an
\* id that does not fit its buffer.
wifi_connect_list ==
  /\ wFault = "none" /\ call.step = "list"
  /\ \/ \E o \in _wifi_send_cmd(Reply("list", 0, Listed), supp) :
          LET hits == {n[1] : n \in {m \in o.reply.nets : <<m[2], call.ssid>> \in NameContains}}
          IN /\ Sent(o)
             /\ call' = IF ~o.ok THEN NoCall
                        ELSE IF hits = {} THEN [call EXCEPT !.step = "add"]
                        ELSE [call EXCEPT !.step = "ssid",
                                          !.id = CHOOSE i \in hits : \A j \in hits : i <= j]
             /\ wFault' \in {"none"} \cup IF o.reply.kind = "scan" THEN {"parse"} ELSE {}
             /\ UNCHANGED <<wifi, cli>>
     \/ UsesFreed
  /\ Idles(<<>>)

FreeIds == {i \in Ids : supp.nets[i] = NoNet}
NewId == CHOOSE i \in FreeIds : \A j \in FreeIds : i <= j

\* atoi of an answer that is not a number is 0.
wifi_connect_add ==
  /\ wFault = "none" /\ call.step = "add"
  /\ \/ \E o \in IF FreeIds # {}
               THEN _wifi_send_cmd(Reply("id", NewId, {}),
                                   [supp EXCEPT !.nets[NewId] = [ssid |-> "unset", keyed |-> FALSE]])
               ELSE _wifi_send_cmd(Plain("fail"), supp) :
          /\ Sent(o)
          /\ call' = IF o.ok THEN [call EXCEPT !.step = "ssid", !.id = o.reply.id,
                                               !.refused = o.reply.kind = "fail"]
                     ELSE NoCall
          /\ UNCHANGED <<wifi, cli, wFault>>
     \/ UsesFreed
  /\ Idles(<<>>)

\* One command of wifi_connect about the profile: it goes on to `next' when the
\* answer begins with OK, whichever request it answers.
Step(at, next, after) ==
  /\ wFault = "none" /\ call.step = at
  /\ \/ \E o \in _wifi_send_cmd(Plain("fail"), supp)
                \cup (IF supp.nets[call.id] = NoNet THEN {} ELSE _wifi_send_cmd(Plain("ok"), after)) :
          /\ Sent(o)
          /\ call' = IF o.ok /\ o.reply.kind = "ok" THEN [call EXCEPT !.step = next] ELSE NoCall
          /\ UNCHANGED <<wifi, cli, wFault>>
     \/ UsesFreed

\* The ghost lostNets notes a profile that goes although its name does not
\* contain the one asked for, no answer is late and ADD_NETWORK was not refused.
wifi_connect_ssid ==
  LET old == supp.nets[call.id].ssid
      after == [supp EXCEPT !.nets[call.id].ssid = call.ssid]
  IN /\ Step("ssid", "key", after)
     /\ lostNets' = (lostNets \/ /\ supp' = after /\ old \in Ssids
                                 /\ <<old, call.ssid>> \notin NameContains
                                 /\ ~slipped /\ ~call.refused)
     /\ UNCHANGED <<wEvents, handling, closedBy>>

wifi_connect_key ==
  /\ Step("key", "select", [supp EXCEPT !.nets[call.id].keyed = TRUE])
  /\ Idles(<<>>)

wifi_connect_select ==
  /\ Step("select", "save", [supp EXCEPT !.selected = call.id])
  /\ Idles(<<>>)

\* save_profile, when it is asked for, may fail like any command; then
\* os_wifi_connect sets wifi_connected.
wifi_connect_save ==
  /\ wFault = "none" /\ call.step = "save"
  /\ \/ /\ call' = NoCall
        /\ wifi' = [wifi EXCEPT !.connected = TRUE]
        /\ UNCHANGED <<cli, replies, supp, slipped, wFault>>
     \/ \E o \in _wifi_send_cmd(Plain("ok"), supp) :
          /\ Sent(o) /\ call' = NoCall
          /\ wifi' = [wifi EXCEPT !.connected = o.ok /\ o.reply.kind = "ok"]
          /\ UNCHANGED <<cli, wFault>>
     \/ UsesFreed
  /\ Idles(<<>>)

\* A disconnect also leaves the mode, with the module still initialized.
os_wifi_disconnect ==
  /\ Runs /\ wifi.connected
  /\ \/ \E o \in _wifi_send_cmd(Plain("ok"), [supp EXCEPT !.selected = -1]) :
          /\ Sent(o) /\ call' = NoCall
          /\ wifi' = IF o.ok /\ o.reply.kind = "ok"
                     THEN [wifi EXCEPT !.connected = FALSE, !.mode = "none"] ELSE wifi
          /\ UNCHANGED <<cli, wFault>>
     \/ UsesFreed
  /\ Idles(<<>>)

os_wifi_set_callback == Runs /\ UNCHANGED wifiVars

\* DISABLE, SET ... and ENABLE to hostapd on a connection of its own: no answer
\* is looked at, and what hostapd makes of them is not part of the model.
os_wifi_start_ap == Runs /\ wifi.mode = "ap" /\ UNCHANGED wifiVars

-----------------------------------------------------------------------------
\* An event goes to the monitor socket if there is one.
Tells(e) == wEvents' = IF cli.mon THEN Append(wEvents, e) ELSE wEvents

ScanEnds ==
  /\ supp.alive /\ supp.scanning /\ Len(wEvents) < MaxEvents /\ wFault = "none"
  /\ supp' = [supp EXCEPT !.scanning = FALSE]
  /\ Tells("scan_results")
  /\ UNCHANGED <<wifi, cli, replies, handling, call, slipped, lostNets, closedBy, wFault>>

\* The link comes and goes, and the supplicant ends, or is started again with
\* the profiles it has.
SupplicantEvent ==
  /\ wFault = "none" /\ Len(wEvents) < MaxEvents
  /\ \/ supp.alive /\ cli.mon /\ Tells("link") /\ UNCHANGED supp
     \/ /\ supp.alive /\ Tells("terminating")
        /\ supp' = [supp EXCEPT !.alive = FALSE, !.scanning = FALSE]
     \/ /\ ~supp.alive /\ supp' = [supp EXCEPT !.alive = TRUE]
        /\ UNCHANGED wEvents
  /\ UNCHANGED <<wifi, cli, replies, handling, call, slipped, lostNets, closedBy, wFault>>

ConnectStep ==
  \/ wifi_connect_list \/ wifi_connect_add \/ wifi_connect_ssid \/ wifi_connect_key
  \/ wifi_connect_select \/ wifi_connect_save

WifiNext ==
  \/ \E mode \in {"station", "ap"} : os_wifi_init(mode)
  \/ os_wifi_deinit \/ os_wifi_scan_request \/ os_wifi_get_scan_result
  \/ \E s \in Ssids : os_wifi_connect(s)
  \/ ConnectStep
  \/ os_wifi_disconnect
  \/ os_wifi_set_callback \/ os_wifi_start_ap
  \/ wpa_cli_recv_pending \/ CallbackReturns
  \/ ScanEnds \/ SupplicantEvent

WifiSpec == WifiInit /\ [][WifiNext]_wifiVars

\* The supplicant finishes its scans and the loop dispatches, however often
\* other events and calls of the application come first; callbacks and commands end.
WifiFairness == /\ SF_wifiVars(ScanEnds)
                /\ SF_wifiVars(wpa_cli_recv_pending \/ CallbackReturns)
                /\ WF_wifiVars(ConnectStep)

\* Flags, modes, sockets and profiles keep their types, and at most one answer
\* is late: the next request takes it before it waits.
WifiTypeOK ==
  /\ wifi.mode \in {"none", "station", "ap"} /\ wifi.ctrl \in {"null", "live", "freed"}
  /\ cli.mon => cli.conn
  /\ Len(replies) <= 1 /\ Len(wEvents) <= MaxEvents
  /\ \A i \in Ids : supp.nets[i].ssid \in Ssids \cup {"unset", "none"}
  /\ supp.selected \in Ids \cup {-1}
  /\ wFault \in {"none", "request", "parse", "pending"}

\* Memory of a closed connection is used only after the supplicant ended, by a
\* disconnect after a deinit, or when a callback deinitialized the module; an
\* answer is misread only after a request timed out.
WifiFaultHasCause ==
  /\ wFault = "request" => closedBy = "terminating" \/ (closedBy = "deinit" /\ wifi.connected)
  /\ wFault = "pending" => closedBy = "deinit"
  /\ wFault = "parse" => slipped

\* A profile is overwritten by one for another name only if its name contains
\* that name, a request had timed out and its answer was taken for another, or
\* ADD_NETWORK was refused, which reads as profile 0.
ProfileLostHasCause == ~lostNets

\* While no answer is late, a connect that succeeded left the supplicant on a
\* profile with the name asked for and its key.
ConnectSelects ==
  [][wifi'.connected /\ ~wifi.connected /\ ~slipped
       => /\ supp'.selected \in Ids
          /\ LET n == supp'.nets[supp'.selected] IN n.ssid = call.ssid /\ n.keyed]_wifiVars

\* A scan that was started is answered, unless the connection goes or memory of
\* a closed one is used.
ScanIsAnswered == cli.scan /\ cli.mon /\ supp.scanning ~> ~cli.scan \/ ~cli.mon \/ wFault # "none"

\* The control connection is used after its end, and a profile lost, only
\* after the late answers and callbacks the parts name (wifi.c, wpa_cli.c).
WifiSound ==
  /\ WifiTypeOK /\ WifiFaultHasCause /\ ProfileLostHasCause

\* A connect that reports success selected the network it was asked for, and a
\* scan is answered, but for the late answers the parts name (wifi_connect,
\* wpa_cli_action).
WifiServes ==
  /\ ConnectSelects /\ ScanIsAnswered

=============================================================================
