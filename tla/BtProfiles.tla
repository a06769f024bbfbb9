----------------------------- MODULE BtProfiles -----------------------------
(***************************************************************************)
(* bluetooth: the personal area network (pan.c) and the remote control of  *)
(* media players (avrcp.c).  pan.c keeps the path of one device; avrcp.c   *)
(* keeps the paths of the items it listed last, which are in the memory of *)
(* the list it gave the application, and looks for the connected player    *)
(* again in every call.                                                    *)
(***************************************************************************)
EXTENDS Integers, FiniteSets, Sequences

CONSTANTS
  MediaDevs,   \* remote devices
  NoDev,
  MaxLists     \* lists of items that are asked for

ASSUME MediaAssumption == NoDev \notin MediaDevs /\ MaxLists \in Nat

VARIABLES
  panPath,   \* _network_path: of a device, malformed, or empty
  panLinks,  \* BlueZ: network connections this process asked for
  panRoles,  \* BlueZ: the network server is registered
  panRefused,\* BlueZ refused to disconnect, or a malformed path was made
  players,   \* BlueZ: devices with a media control that is connected
  folder,    \* BlueZ: the folder each player is in
  playing,   \* BlueZ: players that play, and those that repeat
  itemsList, \* items: the list they are in, the player it came from, its folder
  lists,     \* lists the application was given, and those it has not freed
  moved,     \* a folder or connection changed since the last list
  avFault, avCause

panVars == <<panPath, panLinks, panRoles, panRefused>>
avVars == <<players, folder, playing, itemsList, lists, moved, avFault, avCause>>
mediaVars == <<panVars, avVars>>

Malformed == "malformed"
Folders == 0..1
NoItems == [list |-> 0, dev |-> NoDev, folder |-> 0]

MediaInit ==
  /\ panPath = NoDev /\ panLinks = {} /\ panRoles = FALSE /\ panRefused = FALSE
  /\ players = {} /\ folder = [d \in MediaDevs |-> 0] /\ playing = {}
  /\ itemsList = NoItems /\ lists = [given |-> 0, alive |-> {}]
  /\ moved = FALSE /\ avFault = FALSE /\ avCause = {}

-----------------------------------------------------------------------------
(* pan.                                                                    *)

_is_network_path_valid == panPath # NoDev

bt_pan_register == ~panRoles /\ panRoles' = TRUE /\ UNCHANGED <<panPath, panLinks, panRefused>>
bt_pan_unregister == panRoles /\ panRoles' = FALSE /\ UNCHANGED <<panPath, panLinks, panRefused>>

\* The prefix is written before the address is looked at.
_generate_device_path(d) == panPath' = d

_pan_connect(d) == \E ok \in BOOLEAN : panLinks' = IF ok THEN panLinks \cup {d} ELSE panLinks

\* A path that was made stays, whether the connection was or not.
bt_pan_connect(d) ==
  /\ ~_is_network_path_valid
  /\ _generate_device_path(d)
  /\ IF d = Malformed THEN UNCHANGED panLinks ELSE _pan_connect(d)
  /\ UNCHANGED <<panRoles, panRefused>>

\* The path is cleared also when BlueZ refuses.
bt_pan_disconnect ==
  /\ _is_network_path_valid
  /\ \/ panLinks' = panLinks \ {panPath} /\ UNCHANGED panRefused
     \/ panPath \in panLinks /\ panRefused' = TRUE /\ UNCHANGED panLinks
  /\ panPath' = NoDev
  /\ UNCHANGED panRoles

\* bt_pan_get_connected, get_interface and get_UUID ask for a property of
\* the path: the network of the answer.
_get_pan_property == IF _is_network_path_valid THEN panLinks \cap {panPath} ELSE {}

PanLinkLost(d) ==
  /\ d \in panLinks
  /\ panLinks' = panLinks \ {d}
  /\ UNCHANGED <<panPath, panRoles, panRefused>>

-----------------------------------------------------------------------------
(* avrcp.                                                                  *)

\* The first device whose control is connected, in the order of BlueZ.
_get_control_path(d) == d \in players

_get_player_path(d) == _get_control_path(d)

\* Whether a path is among the items; every path is compared.
FindItem == itemsList # NoItems

\* The paths of the items point into the list that is returned.
_parse_list(d) == [list |-> lists.given + 1, dev |-> d, folder |-> folder[d]]

bt_avrcp_controller_list_item(d) ==
  /\ lists.given < MaxLists
  /\ _get_player_path(d)
  /\ itemsList' = _parse_list(d)
  /\ lists' = [given |-> lists.given + 1, alive |-> lists.alive \cup {lists.given + 1}]
  /\ moved' = FALSE
  /\ UNCHANGED <<players, folder, playing, avFault, avCause>>

Dangling == FindItem /\ itemsList.list \notin lists.alive

ItemFault == avFault' = TRUE /\ UNCHANGED <<players, folder, playing, itemsList, lists, moved, avCause>>

\* BlueZ changes the folder of a player only to a path under it.
bt_avrcp_controller_change_folder(d) ==
  \/ Dangling /\ ItemFault
  \/ /\ FindItem /\ ~Dangling
     /\ _get_player_path(d)
     /\ itemsList.dev = d /\ itemsList.folder = folder[d]
     /\ folder' = [folder EXCEPT ![d] = 1 - @]
     /\ moved' = TRUE
     /\ UNCHANGED <<players, playing, itemsList, lists, avFault, avCause>>

\* get_property, play_item and add_to_playing change nothing here.
bt_avrcp_controller_item == Dangling /\ ItemFault

Toggle(e) == playing' = IF e \in playing THEN playing \ {e} ELSE playing \cup {e}

\* Play, Pause, Stop and the other commands.
_invoke_remote_control(d) ==
  /\ _get_player_path(d)
  /\ Toggle(<<d, "play">>)
  /\ UNCHANGED <<players, folder, itemsList, lists, moved, avFault, avCause>>

bt_avrcp_controller_set_repeat(d) ==
  /\ _get_player_path(d)
  /\ Toggle(<<d, "repeat">>)
  /\ UNCHANGED <<players, folder, itemsList, lists, moved, avFault, avCause>>

PlayerConnects(d) ==
  /\ players' = IF d \in players THEN players \ {d} ELSE players \cup {d}
  /\ folder' = [folder EXCEPT ![d] = 0]
  /\ playing' = playing \ ({d} \X {"play", "repeat"})
  /\ moved' = TRUE
  /\ UNCHANGED <<itemsList, lists, avFault, avCause>>

\* There is no function that frees a list: the application does.
ListFreed(n) ==
  /\ n \in lists.alive
  /\ lists' = [lists EXCEPT !.alive = @ \ {n}]
  /\ avCause' = IF n = lists.given THEN avCause \cup {"last list freed"} ELSE avCause
  /\ UNCHANGED <<players, folder, playing, itemsList, moved, avFault>>

-----------------------------------------------------------------------------
os_bt_pan ==
  \/ bt_pan_register \/ bt_pan_unregister \/ bt_pan_disconnect
  \/ \E d \in MediaDevs \cup {Malformed} : bt_pan_connect(d)

artik_bluetooth_pan == os_bt_pan

PanNext == artik_bluetooth_pan \/ \E d \in MediaDevs : PanLinkLost(d)

os_bt_avrcp_controller ==
  \/ \E d \in MediaDevs :
       \/ bt_avrcp_controller_list_item(d) \/ bt_avrcp_controller_change_folder(d)
       \/ bt_avrcp_controller_set_repeat(d) \/ _invoke_remote_control(d)
  \/ bt_avrcp_controller_item

artik_bluetooth_avrcp_controller == os_bt_avrcp_controller

AvrcpNext ==
  \/ artik_bluetooth_avrcp_controller
  \/ \E d \in MediaDevs : PlayerConnects(d)
  \/ \E n \in 1..MaxLists : ListFreed(n)

MediaNext ==
  \/ PanNext /\ UNCHANGED avVars
  \/ ~avFault /\ AvrcpNext /\ UNCHANGED panVars

MediaSpec == MediaInit /\ [][MediaNext]_mediaVars

-----------------------------------------------------------------------------
(* The kinds of the variables.                                             *)
MediaTypeOK ==
  /\ panPath \in MediaDevs \cup {NoDev, Malformed}
  /\ panLinks \subseteq MediaDevs
  /\ playing \subseteq players \X {"play", "repeat"}
  /\ players \subseteq MediaDevs /\ folder \in [MediaDevs -> Folders]
  /\ lists.given \in 0..MaxLists /\ lists.alive \subseteq 1..lists.given
  /\ itemsList.list \in 0..lists.given
  /\ panRoles \in BOOLEAN /\ panRefused \in BOOLEAN /\ moved \in BOOLEAN /\ avFault \in BOOLEAN

(* The device of a network connection stays named by _network_path, so     *)
(* that it can be disconnected and asked about; only where BlueZ refused   *)
(* to disconnect one is there a connection the library has forgotten.      *)
LinkHasPath == ~panRefused => _get_pan_property = panLinks

(* Until a folder or a connection changes, the items are those of the      *)
(* folder the player is in, whichever device was listed before.            *)
ItemsAreFresh ==
  FindItem /\ ~moved => itemsList.list = lists.given /\ itemsList.folder = folder[itemsList.dev]

(* The path of an item is read from freed memory only after the            *)
(* application freed the list it was given last; earlier lists it may free *)
(* at any time.                                                            *)
ItemFaultHasCause == avFault => avCause # {}

(***************************************************************************)
(* bluetooth: the audio source endpoint (a2dp.c) and the advertisements    *)
(* (advertisement.c).  Both give BlueZ objects whose handlers read memory  *)
(* that this process or the application frees, and neither object is ever  *)
(* taken away again.  BlueZ's calls wait for the main loop.                *)
(***************************************************************************)

CONSTANTS
  MaxTransports,   \* transports BlueZ makes
  MaxAdverts       \* advertisements the application registers

ASSUME EndpointAssumption == MaxTransports \in Nat /\ MaxAdverts \in Nat

VARIABLES
  endpoint,    \* _endpoint: NULL, or the transport_path it keeps (0: NULL)
  epObject,    \* the endpoint object is exported
  epKnown,     \* BlueZ knows the endpoint
  epCalls,     \* calls of BlueZ for the main loop, in order
  transports,  \* transports BlueZ made, and those it still has
  acquired,    \* the transport whose descriptor the application has, or 0
  epFault,     \* NULL was used
  epCause,
  advs,        \* hci.advertisements: path, freed, and the user's structure
  advKnown,    \* paths BlueZ advertises
  advReads,    \* properties BlueZ is about to read, by path
  advFault,    \* freed memory was used
  advCause

epVars == <<endpoint, epObject, epKnown, epCalls, transports, acquired, epFault, epCause>>
advVars == <<advs, advKnown, advReads, advFault, advCause>>
endpointVars == <<epVars, advVars>>

NoEndpoint == -1
Endpoint == endpoint # NoEndpoint

EndpointInit ==
  /\ endpoint = NoEndpoint
  /\ epObject = FALSE /\ epKnown = FALSE
  /\ epCalls = <<>>
  /\ transports = [made |-> 0, live |-> {}]
  /\ acquired = 0
  /\ epFault = FALSE /\ epCause = {}
  /\ advs = <<>> /\ advKnown = {} /\ advReads = {}
  /\ advFault = FALSE /\ advCause = {}

\* _endpoint->... where _endpoint is NULL.
Deref(cause) ==
  /\ epFault' = TRUE
  /\ epCause' = IF cause = "none" THEN epCause ELSE epCause \cup {cause}
  /\ UNCHANGED <<endpoint, epObject, epKnown, epCalls, transports, acquired>>

-----------------------------------------------------------------------------
(* a2dp.                                                                   *)

\* One that exists is kept as it is.
bt_a2dp_source_create == IF Endpoint THEN endpoint ELSE 0

\* RegisterEndpoint, refused or not, then the export.  Where the object is
\* still exported the call fails, and BlueZ knows the endpoint all the same.
bt_a2dp_source_register ==
  /\ endpoint' = bt_a2dp_source_create
  /\ \E refused \in BOOLEAN :
       /\ epKnown => refused
       /\ epKnown' = (epKnown \/ ~refused)
       /\ epObject' = (epObject \/ ~refused)
  /\ UNCHANGED <<epCalls, transports, acquired, epFault, epCause>>

bt_a2dp_source_destroy == endpoint' = NoEndpoint

\* The object stays.  BlueZ drops the transports of the endpoint.
bt_a2dp_source_unregister ==
  IF ~Endpoint THEN Deref("no endpoint")
  ELSE /\ epKnown
       /\ epKnown' = FALSE
       /\ bt_a2dp_source_destroy
       /\ transports' = [transports EXCEPT !.live = {}]
       /\ epCause' = IF epCalls # <<>> THEN epCause \cup {"unregistered"} ELSE epCause
       /\ acquired' = 0
       /\ UNCHANGED <<epObject, epCalls, epFault>>

\* The state of a transport that is gone is read through NULL.  An active
\* one is not acquired again.
bt_a2dp_source_acquire ==
  IF ~Endpoint THEN Deref("no endpoint")
  ELSE /\ endpoint # 0
       /\ IF endpoint \notin transports.live THEN Deref("none")
          ELSE /\ acquired # endpoint
               /\ acquired' = endpoint
               /\ UNCHANGED <<endpoint, epObject, epKnown, epCalls, transports, epFault, epCause>>

bt_a2dp_source_get_properties ==
  IF ~Endpoint THEN Deref("no endpoint")
  ELSE /\ endpoint # 0
       /\ endpoint \notin transports.live
       /\ Deref("none")

bt_a2dp_source_release ==
  IF ~Endpoint THEN Deref("no endpoint")
  ELSE /\ endpoint # 0
       /\ acquired = endpoint
       /\ acquired' = 0
       /\ UNCHANGED <<endpoint, epObject, epKnown, epCalls, transports, epFault, epCause>>

\* Mutant: the path of the first configuration is kept.
KeepsFirstTransport(t) == endpoint' = IF endpoint = 0 THEN t ELSE endpoint

_handle_set_configuration(t) == endpoint' = t

\* The path of the transport stays after ClearConfiguration.
_handle_clear_configuration == endpoint' = endpoint

EndpointCall ==
  /\ epCalls # <<>>
  /\ LET c == Head(epCalls) IN
     IF ~Endpoint
     THEN epFault' = TRUE /\ UNCHANGED endpoint
     ELSE /\ \/ c.method = "select" /\ UNCHANGED endpoint
             \/ c.method = "set" /\ _handle_set_configuration(c.transport)
             \/ c.method = "clear" /\ _handle_clear_configuration
          /\ UNCHANGED epFault
  /\ epCalls' = Tail(epCalls)
  /\ UNCHANGED <<epObject, epKnown, transports, acquired, epCause>>

\* The remote side asks for a stream: SelectConfiguration, then the
\* transport and SetConfiguration.
StreamOpens ==
  /\ epKnown
  /\ transports.live = {} /\ transports.made < MaxTransports
  /\ transports' = [made |-> transports.made + 1, live |-> {transports.made + 1}]
  /\ epCalls' = epCalls \o <<[method |-> "select", transport |-> 0],
                             [method |-> "set", transport |-> transports.made + 1]>>
  /\ UNCHANGED <<endpoint, epObject, epKnown, acquired, epFault, epCause>>

\* The remote side goes away.
StreamCloses ==
  /\ transports.live # {}
  /\ transports' = [transports EXCEPT !.live = {}]
  /\ epCalls' = Append(epCalls, [method |-> "clear", transport |-> transports.made])
  /\ acquired' = 0
  /\ epCause' = epCause \cup {"transport gone"}
  /\ UNCHANGED <<endpoint, epObject, epKnown, epFault>>

-----------------------------------------------------------------------------
(* advertisement.                                                          *)

\* The path ends in the length of the list, and the id is that number.
\* RegisterAdvertisement is not waited for and may be refused.
bt_register_advertisement ==
  /\ Len(advs) < MaxAdverts
  /\ advs' = Append(advs, [path |-> Len(advs), freed |-> FALSE, asked |-> FALSE, struct |-> TRUE])
  /\ \/ advKnown' = advKnown \cup {Len(advs)}
     \/ UNCHANGED advKnown
  /\ UNCHANGED <<advReads, advFault, advCause>>

\* UnregisterAdvertisement is not waited for.  The element is freed and
\* stays in the list, so that ids stay positions; one that is freed already
\* is freed again.
bt_unregister_advertisement(id) ==
  /\ id \in DOMAIN advs
  /\ advFault' = (advFault \/ advs[id].freed)
  /\ advs' = [advs EXCEPT ![id].freed = TRUE, ![id].asked = TRUE]
  /\ advCause' = IF advs[id].freed THEN advCause \cup {"unregistered twice"} ELSE advCause
  /\ UNCHANGED <<advKnown, advReads>>

\* The object keeps the pointer to the application's structure.
_handle_get_property(p) ==
  /\ p \in advReads
  /\ advReads' = advReads \ {p}
  /\ advFault' = (advFault \/ \E i \in DOMAIN advs : advs[i].path = p /\ ~advs[i].struct)
  /\ UNCHANGED <<advs, advKnown, advCause>>

\* BlueZ reads the properties of what it advertises.
BluezReads(p) ==
  /\ p \in advKnown
  /\ advReads' = advReads \cup {p}
  /\ UNCHANGED <<advs, advKnown, advFault, advCause>>

\* BlueZ handles UnregisterAdvertisement.
BluezDrops(p) ==
  /\ p \in advKnown
  /\ \E i \in DOMAIN advs : advs[i].path = p /\ advs[i].freed
  /\ advKnown' = advKnown \ {p}
  /\ UNCHANGED <<advs, advReads, advFault, advCause>>

\* The application frees its structure once it has unregistered it.
StructFreed(id) ==
  /\ id \in DOMAIN advs
  /\ advs[id].freed /\ advs[id].struct
  /\ advs' = [advs EXCEPT ![id].struct = FALSE]
  /\ advCause' = IF advs[id].path \in advReads \cup advKnown THEN advCause \cup {"freed while known"} ELSE advCause
  /\ UNCHANGED <<advKnown, advReads, advFault>>

-----------------------------------------------------------------------------
os_bt_a2dp_source ==
  \/ bt_a2dp_source_register \/ bt_a2dp_source_unregister
  \/ bt_a2dp_source_acquire \/ bt_a2dp_source_get_properties \/ bt_a2dp_source_release

A2dpNext == os_bt_a2dp_source \/ EndpointCall \/ StreamOpens \/ StreamCloses

artik_bluetooth_advertisement ==
  bt_register_advertisement \/ \E id \in 1..MaxAdverts : bt_unregister_advertisement(id)

AdvertNext ==
  \/ artik_bluetooth_advertisement
  \/ \E id \in 1..MaxAdverts : StructFreed(id)
  \/ \E p \in 0..MaxAdverts : _handle_get_property(p) \/ BluezReads(p) \/ BluezDrops(p)

EndpointNext ==
  \/ ~epFault /\ A2dpNext /\ UNCHANGED advVars
  \/ ~advFault /\ AdvertNext /\ UNCHANGED epVars

\* The main loop dispatches what arrived.
EndpointFairness ==
  /\ WF_endpointVars(~epFault /\ EndpointCall /\ UNCHANGED advVars)
  /\ \A p \in 0..MaxAdverts : WF_endpointVars(~advFault /\ _handle_get_property(p) /\ UNCHANGED epVars)

EndpointSpec == EndpointInit /\ [][EndpointNext]_endpointVars /\ EndpointFairness

-----------------------------------------------------------------------------
(* The kinds of the variables.                                             *)
EndpointTypeOK ==
  /\ endpoint \in {NoEndpoint} \cup 0..transports.made
  /\ epObject \in BOOLEAN /\ epKnown \in BOOLEAN
  /\ transports.made \in 0..MaxTransports /\ transports.live \subseteq 1..transports.made
  /\ acquired \in {0} \cup transports.live
  /\ epCause \subseteq {"no endpoint", "unregistered", "transport gone"}
  /\ \A i \in DOMAIN advs : advs[i].path \in 0..MaxAdverts
  /\ advKnown \cup advReads \subseteq 0..MaxAdverts

(* BlueZ knows the endpoint only while _endpoint is there for the handlers *)
(* of its calls.                                                           *)
KnownHasEndpoint == epKnown => Endpoint /\ epObject

(* NULL is used only when the application called without a registered      *)
(* endpoint, unregistered it while a call of BlueZ waited for the main     *)
(* loop, or used a transport whose remote side had gone.                   *)
EndpointFaultHasCause == epFault => epCause # {}

(* Once the main loop has caught up, transport_path names the transport    *)
(* BlueZ has, so that acquire and release reach the stream of the remote   *)
(* side that is there, through any number of reconnections.                *)
PathFollows == epCalls = <<>> /\ epKnown /\ transports.live # {} => endpoint \in transports.live

(* The id of an advertisement stays the position and the number in the     *)
(* path of its element: what is freed, and taken from BlueZ, is what the   *)
(* application asked for, in any order of registering and unregistering.   *)
IdIsPath == \A i \in DOMAIN advs : advs[i].path = i - 1 /\ (advs[i].freed <=> advs[i].asked)

(* Freed memory is used only when an id is unregistered twice, or when the *)
(* application frees its structure, after unregistering it, before BlueZ   *)
(* has handled that.                                                       *)
AdvertFaultHasCause == advFault => advCause # {}

\* A network link has its path, items and transports are looked up in what
\* BlueZ has now, advertisements keep their ids, and freed memory is met only
\* after the calls the parts name (pan.c, avrcp.c, a2dp.c, advertisement.c).
ProfilesSound ==
  /\ MediaTypeOK /\ LinkHasPath /\ ItemsAreFresh /\ ItemFaultHasCause
  /\ EndpointTypeOK /\ KnownHasEndpoint /\ EndpointFaultHasCause
  /\ PathFollows /\ IdIsPath /\ AdvertFaultHasCause

=============================================================================
