------------------------------ MODULE BtDevice ------------------------------
(***************************************************************************)
(* bluetooth: remote devices.  The process (core.c, device.c, the scan of  *)
(* adapter.c) keeps one hci.state for all devices; BlueZ keeps the         *)
(* devices.  Pair, Connect and ConnectProfile are sent without waiting and *)
(* the main loop dispatches their replies in the order they came; every    *)
(* other call blocks.  CreateSession of the ftp client is here for what it *)
(* does to hci.state.                                                      *)
(***************************************************************************)
EXTENDS Integers, Sequences, FiniteSets

CONSTANTS
  Addrs,      \* addresses of remote devices
  NoAddr,
  MaxCalls    \* calls the application makes that are answered later

ASSUME BtDeviceAssumption == NoAddr \notin Addrs /\ MaxCalls \in Nat

VARIABLES
  hciState,   \* hci.state
  known,      \* BlueZ: devices with an object
  paired,     \* BlueZ: Paired
  connected,  \* BlueZ: Connected
  calls,      \* calls BlueZ has not answered yet
  made,       \* how many have been made
  replies,    \* replies the main loop has to dispatch
  answered,   \* calls whose outcome the user's callback was given
  scan,       \* the loop of bt_remove_unpaired_devices
  answer      \* whether what a call told the user without waiting was so

btVars == <<hciState, known, paired, connected, calls, made, replies, answered, scan, answer>>

BlueZ == <<known, paired, connected>>

States == {"IDLE", "PAIRING", "PAIRED", "CONNECTING", "CONNECTED"}
Methods == {"Pair", "Connect", "CreateSession"}
Call == [id : 1..MaxCalls, method : Methods, dev : Addrs]

NoScan == [todo |-> {}, victim |-> NoAddr, keep |-> {}]

BtInit ==
  /\ hciState = "IDLE"
  /\ known = {} /\ paired = {} /\ connected = {}
  /\ calls = {} /\ made = 0
  /\ replies = <<>>
  /\ answered = {}
  /\ scan = NoScan
  /\ answer = "none"

\* The application's thread also runs the main loop: while it is inside a
\* call that blocks nothing else of the library runs.
Running == scan = NoScan

\* _user_callback with TRUE before the call returns.
_user_callback(event, d) ==
  /\ answer' = IF d \in (IF event = "BOND" THEN paired ELSE connected) THEN "true" ELSE "untrue"
  /\ UNCHANGED <<hciState, calls, made>>

\* What BlueZ says of its objects when it is asked.
_get_object_path(d) == d \in known
_is_paired(d) == d \in paired
_is_connected(d) == d \in connected
_get_devices == {d \in Addrs : _get_object_path(d)}

Send(method, d, state) ==
  /\ made < MaxCalls
  /\ made' = made + 1
  /\ calls' = calls \cup {[id |-> made + 1, method |-> method, dev |-> d]}
  /\ hciState' = state
  /\ answer' = "none"

\* E_IN_PROGRESS while pairing, E_BT_ERROR for an unknown device.
bt_start_bond(d) ==
  /\ Running
  /\ hciState # "PAIRING"
  /\ \/ hciState = "PAIRED" /\ _user_callback("BOND", d)
     \/ hciState # "PAIRED" /\ _is_paired(d) /\ _user_callback("BOND", d)
     \/ hciState # "PAIRED" /\ _get_object_path(d) /\ ~_is_paired(d) /\ Send("Pair", d, "PAIRING")
  /\ UNCHANGED <<BlueZ, replies, answered, scan>>

bt_connect(d) ==
  /\ Running
  /\ hciState # "CONNECTING"
  /\ \/ hciState = "CONNECTED" /\ _user_callback("CONNECT", d)
     \/ hciState = "IDLE" /\ _is_connected(d) /\ _user_callback("CONNECT", d)
     \/ /\ hciState # "CONNECTED" /\ _get_object_path(d)
        /\ ~(hciState = "IDLE" /\ _is_connected(d))
        /\ Send("Connect", d, "CONNECTING")
  /\ UNCHANGED <<BlueZ, replies, answered, scan>>

\* ConnectProfile differs from Connect in the method BlueZ runs only.
bt_connect_profile(d) == bt_connect(d)

\* hci.state is set without a look at what it was.
FtpSession(d) ==
  /\ Running
  /\ _get_object_path(d)
  /\ Send("CreateSession", d, "CONNECTING")
  /\ UNCHANGED <<BlueZ, replies, answered, scan>>

\* When BlueZ refuses, hci.state is left alone.
bt_disconnect(d) ==
  /\ Running
  /\ _get_object_path(d)
  /\ connected' = connected \ {d}
  /\ hciState' = "IDLE"
  /\ answer' = "none"
  /\ UNCHANGED <<known, paired, calls, made, replies, answered, scan>>

Answer(c, ok) ==
  /\ calls' = calls \ {c}
  /\ replies' = Append(replies, [call |-> c, ok |-> ok])

\* CancelPairing: BlueZ answers the Pair call with an error, or refuses.
bt_stop_bond(d) ==
  /\ Running
  /\ _get_object_path(d)
  /\ hciState' = "IDLE"
  /\ answer' = "none"
  /\ \/ \E c \in calls : c.method = "Pair" /\ c.dev = d /\ Answer(c, FALSE)
     \/ UNCHANGED <<calls, replies>>
  /\ UNCHANGED <<BlueZ, made, answered, scan>>

\* A connected device is disconnected first, which sets hci.state.
RemoveAll(devices) ==
  /\ known' = known \ devices
  /\ paired' = paired \ devices
  /\ connected' = connected \ devices
  /\ hciState' = IF devices \cap connected # {} THEN "IDLE" ELSE hciState

bt_remove_device(d) ==
  /\ Running
  /\ _get_object_path(d)
  /\ RemoveAll({d})
  /\ answer' = "none"
  /\ UNCHANGED <<calls, made, replies, answered, scan>>

bt_remove_devices ==
  /\ Running
  /\ RemoveAll(_get_devices)
  /\ answer' = "none"
  /\ UNCHANGED <<calls, made, replies, answered, scan>>

-----------------------------------------------------------------------------
(* bt_start_scan first removes the unpaired devices, one blocking call     *)
(* after the other, on the list BlueZ gave when it began.                  *)

\* _get_devices, with the devices that are paired now kept for KeepsPaired.
bt_start_scan ==
  /\ Running
  /\ _get_devices # {}
  /\ scan' = [todo |-> _get_devices, victim |-> NoAddr, keep |-> paired]
  /\ answer' = "none"
  /\ UNCHANGED <<hciState, BlueZ, calls, made, replies, answered>>

\* bt_is_paired of the next device.
bt_remove_unpaired_devices(d) ==
  /\ scan.victim = NoAddr
  /\ scan' = IF ~_is_paired(d) THEN [scan EXCEPT !.todo = @ \ {d}, !.victim = d]
             ELSE IF scan.todo = {d} THEN NoScan
             ELSE [scan EXCEPT !.todo = @ \ {d}, !.keep = @ \ {d}]
  /\ UNCHANGED <<hciState, BlueZ, calls, made, replies, answered, answer>>

\* bt_remove_device of that device, some time later.
ScanRemoves ==
  /\ scan.victim # NoAddr
  /\ RemoveAll({scan.victim})
  /\ scan' = IF scan.todo = {} THEN NoScan ELSE [scan EXCEPT !.victim = NoAddr]
  /\ UNCHANGED <<calls, made, replies, answered, answer>>

-----------------------------------------------------------------------------
(* BlueZ.                                                                  *)

Found(d) ==
  /\ d \notin known
  /\ known' = known \cup {d}
  /\ answer' = "none"
  /\ UNCHANGED <<hciState, paired, connected, calls, made, replies, answered, scan>>

\* The remote side connects or disconnects.
Link(d) ==
  /\ d \in known
  /\ connected' = IF d \in connected THEN connected \ {d} ELSE connected \cup {d}
  /\ answer' = "none"
  /\ UNCHANGED <<hciState, known, paired, calls, made, replies, answered, scan>>

\* The remote side pairs.
RemotePairs(d) ==
  /\ d \in known \ paired
  /\ paired' = paired \cup {d}
  /\ answer' = "none"
  /\ UNCHANGED <<hciState, known, connected, calls, made, replies, answered, scan>>

Reply(c, ok) ==
  /\ ok => c.dev \in known
  /\ Answer(c, ok)
  /\ paired' = IF ok /\ c.method = "Pair" THEN paired \cup {c.dev} ELSE paired
  /\ connected' = IF ok /\ c.method = "Connect" THEN connected \cup {c.dev} ELSE connected
  /\ answer' = "none"
  /\ UNCHANGED <<hciState, known, made, answered, scan>>

-----------------------------------------------------------------------------
(* The main loop.                                                          *)

\* Mutant: only a successful pairing is told to the user.
BondFailureSilent(c, ok) ==
  /\ hciState' = IF ok THEN "PAIRED" ELSE "IDLE"
  /\ answered' = IF ok THEN answered \cup {c.id} ELSE answered

bt_bond_callback(c, ok) ==
  /\ hciState' = IF ok THEN "PAIRED" ELSE "IDLE"
  /\ answered' = answered \cup {c.id}

\* Mutant: a connection that failed leaves the state as it is.
ConnectKeepsState(c, ok) ==
  /\ hciState' = IF ok THEN "CONNECTED" ELSE hciState
  /\ answered' = answered \cup {c.id}

bt_connect_callback(c, ok) ==
  /\ hciState' = IF ok THEN "CONNECTED" ELSE "IDLE"
  /\ answered' = answered \cup {c.id}

_ftp_session_callback(c, ok) ==
  /\ hciState' = IF ok THEN "CONNECTED" ELSE "IDLE"
  /\ answered' = answered \cup {c.id}

Dispatch ==
  /\ Running
  /\ replies # <<>>
  /\ LET c == Head(replies).call
         ok == Head(replies).ok
     IN \/ c.method = "Pair" /\ bt_bond_callback(c, ok)
        \/ c.method = "Connect" /\ bt_connect_callback(c, ok)
        \/ c.method = "CreateSession" /\ _ftp_session_callback(c, ok)
  /\ replies' = Tail(replies)
  /\ answer' = "none"
  /\ UNCHANGED <<BlueZ, calls, made, scan>>

-----------------------------------------------------------------------------
os_bt_device(d) ==
  \/ bt_start_bond(d) \/ bt_stop_bond(d)
  \/ bt_connect(d) \/ bt_connect_profile(d) \/ bt_disconnect(d)
  \/ bt_remove_device(d) \/ FtpSession(d)

artik_bluetooth_device ==
  \/ \E d \in Addrs : os_bt_device(d)
  \/ bt_remove_devices
  \/ bt_start_scan

BtLibrary ==
  \/ \E d \in scan.todo : bt_remove_unpaired_devices(d)
  \/ ScanRemoves
  \/ Dispatch

BtNext ==
  \/ artik_bluetooth_device
  \/ BtLibrary
  \/ \E d \in Addrs : Found(d) \/ Link(d) \/ RemotePairs(d)
  \/ \E c \in calls, ok \in BOOLEAN : Reply(c, ok)

\* BlueZ answers every call in the end, Pair and Connect have timeouts of
\* their own there; a call that blocks returns.  The main loop dispatches
\* what is ready before it looks for new events, so an application that
\* scans over and over cannot keep a reply waiting for ever.
BtFairness ==
  /\ \A id \in 1..MaxCalls :
       WF_btVars(\E c \in calls, ok \in BOOLEAN : c.id = id /\ Reply(c, ok))
  /\ WF_btVars(BtLibrary)
  /\ SF_btVars(Dispatch)

BtSpec == BtInit /\ [][BtNext]_btVars /\ BtFairness

-----------------------------------------------------------------------------
(* The kinds of the variables; only devices with an object are paired or   *)
(* connected.                                                              *)
BtTypeOK ==
  /\ hciState \in States
  /\ known \subseteq Addrs /\ paired \subseteq known /\ connected \subseteq known
  /\ calls \subseteq Call /\ made \in 0..MaxCalls
  /\ replies \in Seq([call : Call, ok : BOOLEAN])
  /\ answered \subseteq 1..made
  /\ scan \in [todo : SUBSET Addrs, victim : Addrs \cup {NoAddr}, keep : SUBSET Addrs]
  /\ answer \in {"none", "true", "untrue"}

\* Calls whose reply has not been dispatched.
Outstanding == calls \cup {replies[i].call : i \in DOMAIN replies}

(* bt_start_bond and bt_connect return E_IN_PROGRESS for as long as        *)
(* hci.state says so: it does only while a reply is still to come, however *)
(* many calls for however many devices write the one state.                *)
ProgressHasCall ==
  /\ hciState = "PAIRING" => \E c \in Outstanding : c.method = "Pair"
  /\ hciState = "CONNECTING" => \E c \in Outstanding : c.method # "Pair"

(* bt_start_scan does not remove a device that was paired when the scan    *)
(* began and has been paired since, whatever BlueZ does between the list,  *)
(* the test and the removal.                                               *)
ScanKeepsPaired == scan.victim \notin scan.keep

(* Every bonding and every connection that was begun is told to the user,  *)
(* the failed ones too (the comments in bt_bond_callback and               *)
(* bt_connect_callback).                                                   *)
EveryCallAnswered == \A id \in 1..MaxCalls : made >= id ~> id \in answered

\* While a device is pairing or connecting a call is on its way, and a scan
\* removes no device that was paired since it began, but for the overlaps the
\* parts name (device.c, adapter.c).
DevicesSound ==
  /\ BtTypeOK /\ ProgressHasCall /\ ScanKeepsPaired

=============================================================================
