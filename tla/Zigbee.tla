------------------------------- MODULE Zigbee -------------------------------
(***************************************************************************)
(* zigbee/linux/linux_zigbee.c over the zigbee daemon's library: endpoints *)
(* and the clusters they hold, the network, the binding table, reports     *)
(* configured at remote devices and os_reset_local, which is several calls *)
(* of the library with events of the stack between them.  The library is   *)
(* external: a call does what its name says or fails with an EZ_ code.     *)
(***************************************************************************)
EXTENDS Integers, FiniteSets

CONSTANTS
  Handles,     \* endpoint handles, one per local endpoint
  ClientOf,    \* clusters the endpoint of a handle holds as a client
  ServerOf,    \* clusters it holds as a server
  ReportTypes  \* reporting types applications ask for

Clusters == {"identify", "onoff", "groups", "level", "color", "illum", "occupancy",
             "thermostat", "fan", "temp", "basic"}

ASSUME ZigbeeAssumption == /\ ClientOf \in [Handles -> SUBSET Clusters]
                           /\ ServerOf \in [Handles -> SUBSET Clusters]

VARIABLES
  registered,     \* handles get_device_info_by_handle knows
  zbReady,        \* zigbee_initialize succeeded
  zbNet,          \* artik_zigbee_network_state of the stack
  scanning,
  changed,        \* endpoints with a local attribute that is not the default
  bound,          \* the binding table has an entry
  commissioning,  \* an ezmode or find-and-bind started and not stopped
  discovering,
  reports,        \* <<handle, type>>: a remote device reports to the endpoint
  unfit,          \* clusters of requests sent by an endpoint without them
  reset,          \* os_reset_local: next call, endpoints to go, state it read
  wiped           \* the last reset returned S_OK and nothing was asked since

zbVars == <<registered, zbReady, zbNet, scanning, changed, bound, commissioning,
            discovering, reports, unfit, reset, wiped>>

Joined == {"JOINED_NETWORK", "JOINED_NETWORK_NO_PARENT"}
NetStates == Joined \cup {"NO_NETWORK", "JOINING_NETWORK", "LEAVING_NETWORK"}

EZ == {"EZ_OK", "EZ_NO_MESSAGE", "EZ_INVALID_VALUE", "EZ_ERR_SOCK"}

\* Codes the library shares with artik_error get their counterpart, every
\* other one is E_ZIGBEE_ERROR.
_convert_error(err) ==
  CASE err = "EZ_OK" -> "S_OK"
    [] err = "EZ_NO_MESSAGE" -> "E_ZIGBEE_NO_MESSAGE"
    [] err = "EZ_INVALID_VALUE" -> "E_INVALID_VALUE"
    [] OTHER -> "E_ZIGBEE_ERROR"

NotResetting == [call |-> "none", left |-> {}, state |-> "none", commissioning |-> FALSE]

ZigbeeInit ==
  /\ registered = {} /\ zbReady = FALSE /\ zbNet = "NO_NETWORK"
  /\ scanning = FALSE /\ changed = {} /\ bound = FALSE /\ commissioning = FALSE
  /\ discovering = FALSE /\ reports = {} /\ unfit = {}
  /\ reset = NotResetting /\ wiped = FALSE

\* The application calls one operation at a time.
Free == reset.call = "none"

\* A library call that succeeds does its effect, any other leaves the state.
Fails == (\E err \in EZ \ {"EZ_OK"} : _convert_error(err) # "S_OK") /\ UNCHANGED zbVars

os_set_local_endpoint(hs) ==
  /\ Free /\ ~zbReady
  /\ registered' = hs /\ wiped' = FALSE
  /\ UNCHANGED <<zbReady, zbNet, scanning, changed, bound, commissioning, discovering,
                 reports, unfit, reset>>

os_zigbee_initialize ==
  /\ Free /\ ~zbReady
  /\ \/ /\ zbReady' = TRUE
        /\ UNCHANGED <<registered, zbNet, scanning, changed, bound, commissioning,
                       discovering, reports, unfit, reset, wiped>>
     \/ Fails

os_deinitialize ==
  /\ Free /\ zbReady
  /\ zbReady' = FALSE /\ registered' = {} /\ discovering' = FALSE
  /\ UNCHANGED <<zbNet, scanning, changed, bound, commissioning, reports, unfit,
                 reset, wiped>>

\* A device that is still in its network looks for other devices at once.
\* (*state is written even when the start failed, with what was on the stack.)
os_zigbee_network_start ==
  /\ Free /\ zbReady
  /\ \/ discovering' = (discovering \/ zbNet = "JOINED_NETWORK")
     \/ UNCHANGED discovering
  /\ UNCHANGED <<registered, zbReady, zbNet, scanning, changed, bound, commissioning,
                 reports, unfit, reset, wiped>>

\* A call that makes the stack form, join or look for a network.
Seeks(net, scan) ==
  /\ Free /\ zbReady
  /\ \/ /\ zbNet' = net /\ scanning' = scan /\ wiped' = FALSE
        /\ UNCHANGED <<registered, zbReady, changed, bound, commissioning, discovering,
                       reports, unfit, reset>>
     \/ Fails

os_zigbee_network_form == zbNet = "NO_NETWORK" /\ Seeks("JOINED_NETWORK", scanning)

os_zigbee_network_permitjoin == Free /\ Fails

os_zigbee_network_leave ==
  /\ zbNet \in Joined
  /\ Seeks("LEAVING_NETWORK", scanning)

os_zigbee_network_join == zbNet = "NO_NETWORK" /\ Seeks("JOINING_NETWORK", TRUE)

os_zigbee_network_join_manually == zbNet = "NO_NETWORK" /\ Seeks("JOINING_NETWORK", scanning)

os_zigbee_network_stop_scan == Seeks(zbNet, FALSE)

os_zigbee_network_find == Seeks(zbNet, TRUE)

os_network_steering == Seeks(IF zbNet = "NO_NETWORK" THEN "JOINING_NETWORK" ELSE zbNet, TRUE)

os_zigbee_device_discover ==
  /\ Free /\ zbReady
  /\ \/ /\ discovering' = TRUE
        /\ UNCHANGED <<registered, zbReady, zbNet, scanning, changed, bound, commissioning,
                       reports, unfit, reset, wiped>>
     \/ Fails

\* Status, discovered devices, node type and the like: answers, no effect.
os_zigbee_queries == Free /\ zbReady /\ UNCHANGED zbVars

\* An operation on a handle: refused when the endpoint is unknown or does not
\* hold the cluster it is checked for, else the library does its effect.
OnCluster(h, holds, cluster, Effect) ==
  /\ Free /\ zbReady
  /\ \/ (h \notin registered \/ cluster \notin holds[h]) /\ UNCHANGED zbVars
     \/ h \in registered /\ cluster \in holds[h] /\ (Effect \/ Fails)

\* A request to a remote device, by an endpoint that was checked for `cluster'
\* when the request is one of the cluster `sends'.
Sends(h, cluster, sends) ==
  OnCluster(h, ClientOf, cluster,
    /\ unfit' = unfit \cup ({sends} \ ClientOf[h])
    /\ UNCHANGED <<registered, zbReady, zbNet, scanning, changed, bound, commissioning,
                   discovering, reports, reset, wiped>>)

\* A local attribute is read, or written.
Reads(h, cluster) == OnCluster(h, ServerOf, cluster, UNCHANGED zbVars)

Writes(h, cluster) ==
  OnCluster(h, ServerOf, cluster,
    /\ changed' = changed \cup {h} /\ wiped' = FALSE
    /\ UNCHANGED <<registered, zbReady, zbNet, scanning, bound, commissioning, discovering,
                   reports, unfit, reset>>)

os_identify(h) == Sends(h, "identify", "identify")
os_onoff_command(h) == Sends(h, "onoff", "onoff")
os_groups_local_name_support(h) == Reads(h, "groups") \/ Writes(h, "groups")
os_onoff_get_value(h) == Reads(h, "onoff")
os_level_control(h) == Sends(h, "level", "level") \/ Reads(h, "level")

\* The request is checked for the level control cluster.
os_color_control(h) == Sends(h, "level", "color") \/ Reads(h, "color")

os_illum(h) == Writes(h, "illum") \/ Reads(h, "illum")
os_occupancy(h) == Writes(h, "occupancy")
os_thermostat_get(h) == Reads(h, "thermostat")
os_fan_get(h) == Reads(h, "fan")

os_fan_remote(h) == Sends(h, "fan", "fan")
os_thermostat_local(h) == Writes(h, "thermostat") \/ Reads(h, "thermostat")
os_thermostat_mode(h) == Writes(h, "thermostat") \/ Reads(h, "thermostat")
os_temperature_set(h) == Writes(h, "temp")
os_reset_to_factory_default(h) == Sends(h, "basic", "basic")
os_thermostat_remote(h) == Sends(h, "thermostat", "thermostat")
os_thermostat_remote_mode(h) == Sends(h, "thermostat", "thermostat")

\* Commissioning runs in the stack until it is stopped or has found a device.
Commissions(h, start) ==
  /\ Free /\ zbReady
  /\ \/ h \notin registered /\ UNCHANGED zbVars
     \/ /\ h \in registered
        /\ \/ /\ commissioning' = start /\ wiped' = (wiped /\ ~start)
              /\ UNCHANGED <<registered, zbReady, zbNet, scanning, changed, bound,
                             discovering, reports, unfit, reset>>
           \/ Fails

os_ezmode_commissioning(h, start) == Commissions(h, start)
os_find_bind(h, start) == Commissions(h, start)

\* Permit-join, address and descriptor requests, identify query: broadcast or
\* sent, with nothing kept.
os_zigbee_broadcasts(h) == Free /\ zbReady /\ UNCHANGED zbVars

os_zigbee_bindings ==
  /\ Free /\ zbReady
  /\ \/ /\ bound' \in BOOLEAN /\ wiped' = (wiped /\ ~bound')
        /\ UNCHANGED <<registered, zbReady, zbNet, scanning, changed, commissioning,
                       discovering, reports, unfit, reset>>
     \/ Fails

ClusterOf(t) == CASE t = "thermostat_temperature" -> "thermostat"
                  [] t = "occupancy_sensing" -> "occupancy"
                  [] t = "measured_illuminance" -> "illum"
                  [] t = "measured_temperature" -> "temp"
                  [] OTHER -> "none"

MaxThreshold == 2  \* stands for TEMPERATURE_ and ILLUMINANCE_MAX_THRESHOLD

\* The checks of os_request_reporting; occupancy has no threshold to check.
Accepts(h, t, min, max, change) ==
  /\ h \in registered
  /\ min <= max
  /\ ClusterOf(t) # "none"
  /\ ClusterOf(t) # "occupancy" => change \in 0..MaxThreshold
  /\ ClusterOf(t) \in ClientOf[h]

\* Intervals and thresholds applications pass: valid ones, an interval the wrong
\* way round, a threshold out of range.
ReportArgs == {<<0, 1, 0>>, <<0, 1, 1>>, <<1, 0, 0>>, <<0, 1, MaxThreshold + 1>>}

\* The interval 0..0xFFFF takes the report back.
Configures(h, t, min, max, change) ==
  /\ reports' = IF min = 0 /\ max = 65535 THEN reports \ {<<h, t>>}
                                          ELSE reports \cup {<<h, t>>}
  /\ UNCHANGED <<registered, zbReady, zbNet, scanning, changed, bound, commissioning,
                 discovering, unfit, reset, wiped>>

os_request_reporting(h, t, min, max, change) ==
  /\ Free /\ zbReady
  /\ \/ ~Accepts(h, t, min, max, change) /\ UNCHANGED zbVars
     \/ Accepts(h, t, min, max, change) /\ (Configures(h, t, min, max, change) \/ Fails)

os_stop_reporting(h, t) == os_request_reporting(h, t, 0, 65535, 0)

\* zigbee_factory_reset clears the binding table.
os_factory_reset == bound' = FALSE

\* os_reset_local begins with zigbee_network_stop_scan.
os_reset_local ==
  /\ Free /\ zbReady
  /\ \/ /\ scanning' = FALSE /\ wiped' = FALSE
        /\ reset' = [NotResetting EXCEPT !.call = "attributes", !.left = registered,
                                         !.commissioning = commissioning]
        /\ UNCHANGED <<registered, zbReady, zbNet, changed, bound, commissioning,
                       discovering, reports, unfit>>
     \/ Fails

\* Mutant: the walk of the endpoints ends before the last one.
ResetSkipsLast ==
  /\ reset.call = "attributes"
  /\ IF Cardinality(reset.left) <= 1
     THEN reset' = [reset EXCEPT !.call = "status"] /\ UNCHANGED changed
     ELSE \E h \in reset.left : /\ changed' = changed \ {h}
                                /\ reset' = [reset EXCEPT !.left = @ \ {h}]
  /\ UNCHANGED <<registered, zbReady, zbNet, scanning, bound, commissioning, discovering,
                 reports, unfit, wiped>>

\* The walk of zigbee_get_handle_list; an error ends the reset.
ResetAttributes ==
  /\ reset.call = "attributes"
  /\ \/ /\ reset.left = {} /\ reset' = [reset EXCEPT !.call = "status"]
        /\ UNCHANGED changed
     \/ \E h \in reset.left :
          \/ /\ changed' = changed \ {h}
             /\ reset' = [reset EXCEPT !.left = @ \ {h}]
          \/ reset' = NotResetting /\ UNCHANGED changed
  /\ UNCHANGED <<registered, zbReady, zbNet, scanning, bound, commissioning, discovering,
                 reports, unfit, wiped>>

ResetStatus ==
  /\ reset.call = "status"
  /\ \/ reset' = [reset EXCEPT !.state = zbNet,
                               !.call = IF zbNet \in Joined THEN "leave" ELSE "factory"]
     \/ reset' = NotResetting
  /\ UNCHANGED <<registered, zbReady, zbNet, scanning, changed, bound, commissioning,
                 discovering, reports, unfit, wiped>>

\* The stack refuses to leave when it has left meanwhile.
ResetLeave ==
  /\ reset.call = "leave"
  /\ \/ /\ zbNet \in Joined /\ zbNet' = "LEAVING_NETWORK"
        /\ reset' = [reset EXCEPT !.call = "factory"]
     \/ reset' = NotResetting /\ UNCHANGED zbNet
  /\ UNCHANGED <<registered, zbReady, scanning, changed, bound, commissioning, discovering,
                 reports, unfit, wiped>>

ResetFactory ==
  /\ reset.call = "factory"
  /\ \/ os_factory_reset /\ wiped' = TRUE /\ reset' = [reset EXCEPT !.call = "none"]
     \/ reset' = NotResetting /\ UNCHANGED <<bound, wiped>>
  /\ UNCHANGED <<registered, zbReady, zbNet, scanning, changed, commissioning, discovering,
                 reports, unfit>>

\* What the stack does by itself: a join ends, the parent is lost and found
\* again, the device is told to leave, leaving ends, a commissioning binds.
StackEvent ==
  \/ /\ \E net \in NetStates :
          /\ <<zbNet, net>> \in {<<"JOINING_NETWORK", "JOINED_NETWORK">>,
                                 <<"JOINING_NETWORK", "NO_NETWORK">>,
                                 <<"JOINED_NETWORK", "JOINED_NETWORK_NO_PARENT">>,
                                 <<"JOINED_NETWORK_NO_PARENT", "JOINED_NETWORK">>,
                                 <<"JOINED_NETWORK", "NO_NETWORK">>,
                                 <<"LEAVING_NETWORK", "NO_NETWORK">>}
          /\ zbNet' = net
     /\ UNCHANGED <<bound, commissioning>>
  \/ commissioning /\ commissioning' = FALSE /\ bound' = TRUE /\ UNCHANGED zbNet

Stack ==
  /\ zbReady /\ StackEvent
  /\ UNCHANGED <<registered, zbReady, scanning, changed, discovering, reports, unfit,
                 reset, wiped>>

Network ==
  \/ os_zigbee_network_start \/ os_zigbee_network_form \/ os_zigbee_network_permitjoin
  \/ os_zigbee_network_leave \/ os_zigbee_network_join \/ os_zigbee_network_join_manually
  \/ os_zigbee_network_stop_scan \/ os_zigbee_network_find \/ os_network_steering
  \/ os_zigbee_device_discover \/ os_zigbee_queries \/ os_zigbee_bindings

Cluster(h) ==
  \/ os_identify(h) \/ os_onoff_command(h) \/ os_groups_local_name_support(h)
  \/ os_onoff_get_value(h) \/ os_level_control(h) \/ os_color_control(h) \/ os_illum(h)
  \/ os_occupancy(h) \/ os_thermostat_get(h) \/ os_fan_get(h) \/ os_fan_remote(h)
  \/ os_thermostat_local(h) \/ os_thermostat_mode(h) \/ os_thermostat_remote_mode(h)
  \/ os_temperature_set(h) \/ os_reset_to_factory_default(h)
  \/ os_thermostat_remote(h) \/ os_zigbee_broadcasts(h)

ZigbeeNext ==
  \/ \E hs \in SUBSET Handles : os_set_local_endpoint(hs)
  \/ os_zigbee_initialize \/ os_deinitialize
  \/ Network
  \/ \E h \in Handles : Cluster(h)
  \/ \E h \in Handles, start \in BOOLEAN : os_ezmode_commissioning(h, start)
  \/ \E h \in Handles, start \in BOOLEAN : os_find_bind(h, start)
  \/ \E h \in Handles, t \in ReportTypes, a \in ReportArgs :
       os_request_reporting(h, t, a[1], a[2], a[3])
  \/ \E h \in Handles, t \in ReportTypes : os_stop_reporting(h, t)
  \/ os_reset_local \/ ResetAttributes \/ ResetStatus \/ ResetLeave \/ ResetFactory
  \/ Stack

ZigbeeSpec == ZigbeeInit /\ [][ZigbeeNext]_zbVars

\* Handles, network states and the reset in progress keep their types, and an
\* endpoint that is known is one the application registered.
ZigbeeTypeOK ==
  /\ registered \subseteq Handles /\ changed \subseteq Handles /\ reset.left \subseteq registered
  /\ zbNet \in NetStates
  /\ reports \subseteq Handles \X ReportTypes /\ unfit \subseteq Clusters
  /\ reset.call \in {"none", "attributes", "status", "leave", "factory"}
  /\ zbReady \in BOOLEAN /\ scanning \in BOOLEAN /\ bound \in BOOLEAN
  /\ commissioning \in BOOLEAN /\ discovering \in BOOLEAN /\ wiped \in BOOLEAN

\* A request goes out only from an endpoint that holds its cluster as a
\* client, the colour requests excepted: those are checked for level control.
RequestFits == unfit \subseteq {"color"}

\* After os_reset_local returned S_OK, and until the application asks for
\* something new, no endpoint has an attribute of its own, the device is in a
\* network only if it was joining when the reset asked, and the binding table
\* has entries only if a commissioning was left running.
ResetIsClean ==
  wiped => /\ changed \cap registered = {}
           /\ zbNet \in Joined => reset.state = "JOINING_NETWORK"
           /\ bound => reset.commissioning

\* What os_request_reporting accepted, os_stop_reporting does not refuse as
\* long as the endpoint is registered: no report is left that cannot be stopped.
ReportCanBeStopped ==
  \A r \in reports : r[1] \in registered => Accepts(r[1], r[2], 0, 65535, 0)

\* Requests go out from endpoints that can make them, a reset leaves no
\* network and no bindings, and a report that was configured can be stopped,
\* but for the cases the parts name (linux_zigbee.c).
ZigbeeSound ==
  /\ ZigbeeTypeOK /\ RequestFits /\ ResetIsClean /\ ReportCanBeStopped

=============================================================================
