--------------------------- MODULE Devices_proofs ---------------------------
(***************************************************************************)
(* Proofs about the devices: the sound that plays (Media), the zigbee      *)
(* endpoints, their reports and their reset (Zigbee), the buses (Bus), the *)
(* gpio and serial drivers over one loop (Systemio), the wifi client over  *)
(* the sockets to wpa_supplicant (Wifi), and the sensors' drivers and the  *)
(* C++ objects over them (Sensor).                                         *)
(***************************************************************************)
EXTENDS Media, Zigbee, Systemio, Wifi, Sensor, FiniteSetTheorems, WellFoundedInduction, TLAPS

-----------------------------------------------------------------------------
(* Media.  While the element plays nothing of its sound was posted or      *)
(* told; what is on the bus is the one end of the sound that is held, and  *)
(* the callback runs only after that was taken from the bus.               *)

MdTypes ==
  /\ MdTypeOK
  /\ mdSounds \in 0..MaxSounds /\ mdIn \in BOOLEAN
  /\ mdTold \in [1..MaxSounds -> Nat] /\ mdFailed \subseteq 1..mdSounds
  /\ mdBus \subseteq [kind : {"eos", "error"}, sound : 1..MaxSounds]

\* The sound that is held is the last one, and its end is reported once.
MdHeld ==
  /\ mdPlayer = "playing" => mdBus = {} /\ ~mdIn
  /\ mdPlayer # "none" => mdSounds >= 1
  /\ mdIn => mdPlayer = "over" /\ mdBus = {}
  /\ mdBus # {} => mdPlayer = "over"
  /\ \A m, n \in mdBus : m = n
  /\ \A m \in mdBus : (m.kind = "error") <=> (mdSounds \in mdFailed)

MdCounts ==
  /\ ToldOnce
  /\ \A s \in 1..MaxSounds : s > mdSounds => mdTold[s] = 0
  /\ mdPlayer = "playing" \/ mdBus # {} => mdTold[mdSounds] = 0
  /\ mdPlayer = "playing" => mdSounds \notin mdFailed

MdInv == MdTypes /\ MdHeld /\ MdCounts

LEMMA MediaStep ==
  ASSUME MdInv, MdNext
  PROVE  MdInv'
<1> USE MediaAssumption
<1>1. CASE os_play_sound_file
  <2>1. MdTypes'
    BY <1>1 DEF os_play_sound_file, MdInv, MdTypes, MdTypeOK, MdHeld
  <2>2. MdHeld'
    BY <1>1 DEF os_play_sound_file, MdInv, MdTypes, MdTypeOK, MdHeld
  <2>3. MdCounts'
    BY <1>1 DEF os_play_sound_file, MdInv, MdTypes, MdTypeOK, MdHeld, MdCounts, ToldOnce
  <2> QED BY <2>1, <2>2, <2>3 DEF MdInv
<1>2. CASE os_set_finished_callback
  <2>1. MdTypes' /\ MdHeld'
    BY <1>2 DEF os_set_finished_callback, MdInv, MdTypes, MdTypeOK, MdHeld
  <2>2. MdCounts'
    BY <1>2 DEF os_set_finished_callback, MdInv, MdCounts, ToldOnce
  <2> QED BY <2>1, <2>2 DEF MdInv
<1>3. CASE GstEnds
  <2>1. PICK k \in {"eos", "error"} :
          /\ mdBus' = {[kind |-> k, sound |-> mdSounds]}
          /\ mdFailed' = IF k = "error" THEN mdFailed \cup {mdSounds} ELSE mdFailed
    BY <1>3 DEF GstEnds, MdInv, MdHeld
  <2>2. mdSounds \in 1..MaxSounds /\ mdSounds \notin mdFailed /\ mdTold[mdSounds] = 0 /\ ~mdIn
    BY <1>3 DEF GstEnds, MdInv, MdTypes, MdHeld, MdCounts
  <2>3. MdTypes'
    BY <1>3, <2>1, <2>2 DEF GstEnds, MdInv, MdTypes, MdTypeOK
  <2>4. MdHeld'
    BY <1>3, <2>1, <2>2 DEF GstEnds, MdInv, MdTypes, MdHeld
  <2>5. MdCounts'
    BY <1>3, <2>1, <2>2 DEF GstEnds, MdInv, MdTypes, MdCounts, ToldOnce
  <2> QED BY <2>3, <2>4, <2>5 DEF MdInv
<1>4. ASSUME NEW m \in mdBus, handle_message(m)
      PROVE  MdInv'
  <2>1. /\ mdBus' = {} /\ mdBus # {} /\ mdPlayer = "over" /\ m.sound = mdSounds /\ ~mdIn
        /\ mdTold[mdSounds] = 0 /\ mdSounds \in 1..MaxSounds /\ mdData # "none"
        /\ (m.kind = "error") <=> (mdSounds \in mdFailed)
    BY <1>4 DEF handle_message, MdInv, MdTypes, MdTypeOK, MdHeld, MdCounts
  <2>2. MdTypes'
    <3>1. mdTold' \in [1..MaxSounds -> Nat]
      BY <1>4, <2>1 DEF handle_message, MdInv, MdTypes
    <3>2. MdTypeOK'
      BY <1>4, <2>1 DEF handle_message, MdInv, MdTypes, MdTypeOK
    <3>3. mdIn' \in BOOLEAN /\ UNCHANGED <<mdSounds, mdFailed>>
      BY <1>4 DEF handle_message, MdInv, MdTypes
    <3> QED BY <2>1, <3>1, <3>2, <3>3 DEF MdInv, MdTypes
  <2>3. MdHeld'
    BY <1>4, <2>1 DEF handle_message, MdInv, MdTypes, MdHeld
  <2>4. MdCounts'
    BY <1>4, <2>1 DEF handle_message, MdInv, MdTypes, MdCounts, ToldOnce
  <2> QED BY <2>2, <2>3, <2>4 DEF MdInv
<1>5. CASE FinishedReturns
  <2>1. MdTypes'
    BY <1>5 DEF FinishedReturns, MdInv, MdTypes, MdTypeOK, MdHeld
  <2>2. MdHeld' /\ MdCounts'
    BY <1>5 DEF FinishedReturns, MdInv, MdHeld, MdCounts, ToldOnce
  <2> QED BY <2>1, <2>2 DEF MdInv
<1> QED BY <1>1, <1>2, <1>3, <1>4, <1>5 DEF MdNext

(* linux_media.c: the data of a sound and its element come and go          *)
(* together, freed data is not used when the finished callback returns,    *)
(* and the end of a sound is reported at most once, that of a failed one   *)
(* never, whatever the application does in its callback.                   *)
THEOREM MediaIsSound == MdSpec => []MediaSound
<1>1. MdInit => MdInv
  <2>1. MdInit => mdTold \in [1..MaxSounds -> Nat]
    BY DEF MdInit
  <2>2. MdInit => MdTypeOK /\ MdHeld
    BY DEF MdInit, MdTypeOK, MdHeld
  <2>3. MdInit => MdTypes
    <3>1. MdInit => mdSounds \in 0..MaxSounds /\ mdFailed \subseteq 1..mdSounds
      BY MediaAssumption DEF MdInit
    <3>2. MdInit => mdIn \in BOOLEAN /\ mdBus \subseteq [kind : {"eos", "error"}, sound : 1..MaxSounds]
      BY Zenon DEF MdInit
    <3> QED BY <2>1, <2>2, <3>1, <3>2, Zenon DEF MdTypes
  <2>4. MdInit => MdCounts
    BY DEF MdInit, MdCounts, ToldOnce
  <2> QED BY <2>2, <2>3, <2>4 DEF MdInv
<1>2. MdInv /\ [MdNext]_mdVars => MdInv'
  <2>1. MdInv /\ UNCHANGED mdVars => MdInv'
    BY DEF mdVars, MdInv, MdTypes, MdTypeOK, MdHeld, MdCounts, ToldOnce
  <2> QED BY <2>1, MediaStep
<1>3. MdInv => MediaSound
  BY DEF MdInv, MdTypes, MdCounts, MediaSound
<1> QED BY <1>1, <1>2, <1>3, PTL DEF MdSpec

-----------------------------------------------------------------------------
(* Zigbee.  What the reset still has to do bounds what may be left: the    *)
(* endpoints changed are among those it has not come to, and from the      *)
(* factory call on the device is out of every network but one it was       *)
(* joining when the reset asked.                                           *)

\* What the reset read and where it is.
ZbReset ==
  /\ reset = [call |-> reset.call, left |-> reset.left, state |-> reset.state,
              commissioning |-> reset.commissioning]
  /\ reset.commissioning \in BOOLEAN
  /\ reset.call # "attributes" => reset.left = {}
  /\ reset.call # "none" => ~wiped

\* From the walk on no endpoint that was passed has an attribute of its own.
ZbClean ==
  /\ reset.call = "attributes" => changed \cap registered \subseteq reset.left
  /\ reset.call \in {"status", "leave", "factory"} \/ wiped => changed \cap registered = {}

\* The network the reset left, and the commissioning that was left running.
ZbLeft ==
  /\ reset.call = "factory" \/ wiped =>
       zbNet \in {"NO_NETWORK", "LEAVING_NETWORK"} \/ reset.state = "JOINING_NETWORK"
  /\ reset.call # "none" \/ wiped => (commissioning => reset.commissioning)
  /\ wiped => (bound => reset.commissioning)

\* Every report was accepted for a cluster the endpoint holds as a client.
ZbReports ==
  \A r \in reports : ClusterOf(r[2]) # "none" /\ ClusterOf(r[2]) \in ClientOf[r[1]]

ZbInv == ZigbeeTypeOK /\ RequestFits /\ ZbReset /\ ZbClean /\ ZbLeft /\ ZbReports

LEMMA ZigbeeStays ==
  ASSUME ZbInv, UNCHANGED zbVars
  PROVE  ZbInv'
BY DEF ZbInv, zbVars, ZigbeeTypeOK, RequestFits, ZbReset, ZbClean, ZbLeft, ZbReports

LEMMA ZigbeeFails ==
  ASSUME ZbInv, Fails
  PROVE  ZbInv'
BY ZigbeeStays DEF Fails

\* The call that seeks a network ends what the reset promised.
LEMMA ZigbeeSeeks ==
  ASSUME ZbInv, NEW net \in NetStates, NEW scan \in BOOLEAN, Seeks(net, scan)
  PROVE  ZbInv'
<1>1. CASE Fails BY <1>1, ZigbeeFails
<1>2. CASE ~Fails
  <2>1. /\ reset.call = "none" /\ zbNet' = net /\ scanning' = scan /\ wiped' = FALSE
        /\ UNCHANGED <<registered, zbReady, changed, bound, commissioning, discovering,
                       reports, unfit, reset>>
    BY <1>2 DEF Seeks, Free
  <2>2. ZigbeeTypeOK' BY <2>1, Zenon DEF ZbInv, ZigbeeTypeOK
  <2>3. RequestFits' /\ ZbReports' BY <2>1 DEF ZbInv, RequestFits, ZbReports
  <2>4. ZbReset' /\ ZbClean' /\ ZbLeft' BY <2>1 DEF ZbInv, ZbReset, ZbClean, ZbLeft
  <2> QED BY <2>2, <2>3, <2>4 DEF ZbInv
<1> QED BY <1>1, <1>2

\* A request that goes out: of the cluster it was checked for, or of colour.
LEMMA ZigbeeSends ==
  ASSUME ZbInv, NEW h \in Handles, NEW c \in Clusters, NEW s \in {c, "color"}, Sends(h, c, s)
  PROVE  ZbInv'
<1>1. CASE Fails \/ UNCHANGED zbVars BY <1>1, ZigbeeFails, ZigbeeStays
<1>2. CASE ~Fails /\ ~UNCHANGED zbVars
  <2>1. /\ c \in ClientOf[h] /\ unfit' = unfit \cup ({s} \ ClientOf[h])
        /\ UNCHANGED <<registered, zbReady, zbNet, scanning, changed, bound, commissioning,
                       discovering, reports, reset, wiped>>
    BY <1>2 DEF Sends, OnCluster
  <2>2. {s} \ ClientOf[h] \subseteq {"color"} BY <2>1
  <2>3. RequestFits' BY <2>1, <2>2 DEF ZbInv, RequestFits
  <2>4. ZigbeeTypeOK'
    <3>1. unfit' \subseteq Clusters BY <2>3 DEF RequestFits, Clusters
    <3> QED BY <2>1, <3>1 DEF ZbInv, ZigbeeTypeOK
  <2>5. ZbReset' /\ ZbClean' /\ ZbLeft' /\ ZbReports'
    BY <2>1 DEF ZbInv, ZbReset, ZbClean, ZbLeft, ZbReports
  <2> QED BY <2>3, <2>4, <2>5 DEF ZbInv
<1> QED BY <1>1, <1>2

LEMMA ZigbeeReads ==
  ASSUME ZbInv, NEW h, NEW c, Reads(h, c)
  PROVE  ZbInv'
BY ZigbeeFails, ZigbeeStays DEF Reads, OnCluster

LEMMA ZigbeeWrites ==
  ASSUME ZbInv, NEW h \in Handles, NEW c, Writes(h, c)
  PROVE  ZbInv'
<1>1. CASE Fails \/ UNCHANGED zbVars BY <1>1, ZigbeeFails, ZigbeeStays
<1>2. CASE ~Fails /\ ~UNCHANGED zbVars
  <2>1. /\ reset.call = "none" /\ changed' = changed \cup {h} /\ wiped' = FALSE
        /\ UNCHANGED <<registered, zbReady, zbNet, scanning, bound, commissioning,
                       discovering, reports, unfit, reset>>
    BY <1>2 DEF Writes, OnCluster, Free
  <2>2. ZigbeeTypeOK' BY <2>1 DEF ZbInv, ZigbeeTypeOK
  <2>3. RequestFits' /\ ZbReports' BY <2>1 DEF ZbInv, RequestFits, ZbReports
  <2>4. ZbReset' /\ ZbClean' /\ ZbLeft' BY <2>1 DEF ZbInv, ZbReset, ZbClean, ZbLeft
  <2> QED BY <2>2, <2>3, <2>4 DEF ZbInv
<1> QED BY <1>1, <1>2

LEMMA ZigbeeCluster ==
  ASSUME ZbInv, NEW h \in Handles, Cluster(h)
  PROVE  ZbInv'
<1> USE DEF Clusters
<1>1. CASE \/ os_identify(h) \/ os_onoff_command(h) \/ os_fan_remote(h)
           \/ os_reset_to_factory_default(h) \/ os_thermostat_remote(h)
           \/ os_thermostat_remote_mode(h)
  BY <1>1, ZigbeeSends DEF os_identify, os_onoff_command, os_fan_remote,
     os_reset_to_factory_default, os_thermostat_remote, os_thermostat_remote_mode
<1>2. CASE os_level_control(h) \/ os_color_control(h)
  BY <1>2, ZigbeeSends, ZigbeeReads DEF os_level_control, os_color_control
<1>3. CASE \/ os_onoff_get_value(h) \/ os_thermostat_get(h) \/ os_fan_get(h)
  BY <1>3, ZigbeeReads DEF os_onoff_get_value, os_thermostat_get, os_fan_get
<1>4. CASE \/ os_groups_local_name_support(h) \/ os_illum(h) \/ os_occupancy(h)
           \/ os_thermostat_local(h) \/ os_thermostat_mode(h) \/ os_temperature_set(h)
  BY <1>4, ZigbeeReads, ZigbeeWrites DEF os_groups_local_name_support, os_illum,
     os_occupancy, os_thermostat_local, os_thermostat_mode, os_temperature_set
<1>5. CASE os_zigbee_broadcasts(h)
  BY <1>5, ZigbeeStays DEF os_zigbee_broadcasts
<1> QED BY <1>1, <1>2, <1>3, <1>4, <1>5 DEF Cluster

LEMMA ZigbeeNetwork ==
  ASSUME ZbInv, Network
  PROVE  ZbInv'
<1> zbNet \in NetStates /\ scanning \in BOOLEAN BY DEF ZbInv, ZigbeeTypeOK
<1>1. CASE os_zigbee_network_start \/ os_zigbee_device_discover
  <2>1. CASE Fails BY <2>1, ZigbeeFails
  <2>2. CASE ~Fails
    <3>1. /\ discovering' \in BOOLEAN
          /\ UNCHANGED <<registered, zbReady, zbNet, scanning, changed, bound, commissioning,
                         reports, unfit, reset, wiped>>
      BY <1>1, <2>2, Zenon
      DEF os_zigbee_network_start, os_zigbee_device_discover, ZbInv, ZigbeeTypeOK
    <3>2. ZigbeeTypeOK' BY <3>1 DEF ZbInv, ZigbeeTypeOK
    <3> QED BY <3>1, <3>2 DEF ZbInv, RequestFits, ZbReset, ZbClean, ZbLeft, ZbReports
  <2> QED BY <2>1, <2>2
<1>2. CASE os_zigbee_network_permitjoin \/ os_zigbee_queries
  BY <1>2, ZigbeeFails, ZigbeeStays DEF os_zigbee_network_permitjoin, os_zigbee_queries
<1>3. CASE \/ os_zigbee_network_form \/ os_zigbee_network_leave \/ os_zigbee_network_join
           \/ os_zigbee_network_join_manually \/ os_zigbee_network_stop_scan
           \/ os_zigbee_network_find \/ os_network_steering
  <2>1. PICK net \in NetStates, scan \in BOOLEAN : Seeks(net, scan)
    BY <1>3, Zenon DEF os_zigbee_network_form, os_zigbee_network_leave, os_zigbee_network_join,
       os_zigbee_network_join_manually, os_zigbee_network_stop_scan,
       os_zigbee_network_find, os_network_steering, NetStates, Joined
  <2> QED BY <2>1, ZigbeeSeeks
<1>4. CASE os_zigbee_bindings
  <2>1. CASE Fails BY <2>1, ZigbeeFails
  <2>2. CASE ~Fails
    <3>1. /\ bound' \in BOOLEAN /\ wiped' = (wiped /\ ~bound')
          /\ UNCHANGED <<registered, zbReady, zbNet, scanning, changed, commissioning,
                         discovering, reports, unfit, reset>>
      BY <1>4, <2>2 DEF os_zigbee_bindings
    <3>2. ZigbeeTypeOK' BY <3>1 DEF ZbInv, ZigbeeTypeOK
    <3> QED BY <3>1, <3>2 DEF ZbInv, RequestFits, ZbReset, ZbClean, ZbLeft, ZbReports
  <2> QED BY <2>1, <2>2
<1> QED BY <1>1, <1>2, <1>3, <1>4 DEF Network

LEMMA ZigbeeCommissions ==
  ASSUME ZbInv, NEW h \in Handles, NEW start \in BOOLEAN, Commissions(h, start)
  PROVE  ZbInv'
<1>1. CASE Fails \/ UNCHANGED zbVars BY <1>1, ZigbeeFails, ZigbeeStays
<1>2. CASE ~Fails /\ ~UNCHANGED zbVars
  <2>1. /\ reset.call = "none" /\ commissioning' = start /\ wiped' = (wiped /\ ~start)
        /\ UNCHANGED <<registered, zbReady, zbNet, scanning, changed, bound,
                       discovering, reports, unfit, reset>>
    BY <1>2 DEF Commissions, Free
  <2>2. ZigbeeTypeOK' BY <2>1 DEF ZbInv, ZigbeeTypeOK
  <2>3. RequestFits' /\ ZbReports' BY <2>1 DEF ZbInv, RequestFits, ZbReports
  <2>4. ZbReset' /\ ZbClean' /\ ZbLeft' BY <2>1 DEF ZbInv, ZbReset, ZbClean, ZbLeft
  <2> QED BY <2>2, <2>3, <2>4 DEF ZbInv
<1> QED BY <1>1, <1>2

LEMMA ZigbeeReporting ==
  ASSUME ZbInv, NEW h \in Handles, NEW t \in ReportTypes, NEW min, NEW max, NEW change,
         os_request_reporting(h, t, min, max, change)
  PROVE  ZbInv'
<1>1. CASE Fails \/ UNCHANGED zbVars BY <1>1, ZigbeeFails, ZigbeeStays
<1>2. CASE ~Fails /\ ~UNCHANGED zbVars
  <2>1. /\ ClusterOf(t) # "none" /\ ClusterOf(t) \in ClientOf[h]
        /\ reports' \subseteq reports \cup {<<h, t>>}
        /\ UNCHANGED <<registered, zbReady, zbNet, scanning, changed, bound, commissioning,
                       discovering, unfit, reset, wiped>>
    <3>1. Accepts(h, t, min, max, change) /\ Configures(h, t, min, max, change)
      BY <1>2, Zenon DEF os_request_reporting
    <3>2. ClusterOf(t) # "none" /\ ClusterOf(t) \in ClientOf[h] BY <3>1, Zenon DEF Accepts
    <3>3. reports' = reports \ {<<h, t>>} \/ reports' = reports \cup {<<h, t>>}
      <4>1. reports' = IF min = 0 /\ max = 65535 THEN reports \ {<<h, t>>}
                                                ELSE reports \cup {<<h, t>>}
        BY <3>1, SMT DEF Configures
      <4>2. CASE min = 0 /\ max = 65535 BY <4>1, <4>2, SMT
      <4>3. CASE ~(min = 0 /\ max = 65535) BY <4>1, <4>3, SMT
      <4> QED BY <4>2, <4>3
    <3> QED BY <3>1, <3>2, <3>3 DEF Configures
  <2>2. ZigbeeTypeOK' BY <2>1 DEF ZbInv, ZigbeeTypeOK
  <2>3. ZbReports'
    <3>1. SUFFICES ASSUME NEW r \in reports'
                   PROVE  ClusterOf(r[2]) # "none" /\ ClusterOf(r[2]) \in ClientOf[r[1]]
      BY DEF ZbReports
    <3>2. CASE r \in reports BY <3>2 DEF ZbInv, ZbReports
    <3>3. CASE r = <<h, t>>
      <4>1. r[1] = h /\ r[2] = t BY <3>3
      <4> QED BY <4>1, <2>1
    <3> QED BY <2>1, <3>2, <3>3
  <2>4. RequestFits' /\ ZbReset' /\ ZbClean' /\ ZbLeft'
    BY <2>1 DEF ZbInv, RequestFits, ZbReset, ZbClean, ZbLeft
  <2> QED BY <2>2, <2>3, <2>4 DEF ZbInv
<1> QED BY <1>1, <1>2

\* Steps of the reset itself.
LEMMA ZigbeeResets ==
  ASSUME ZbInv,
         os_reset_local \/ ResetAttributes \/ ResetStatus \/ ResetLeave \/ ResetFactory
  PROVE  ZbInv'
<1>1. CASE Fails BY <1>1, ZigbeeFails
<1>2. CASE os_reset_local /\ ~Fails
  <2>1. /\ scanning' = FALSE /\ wiped' = FALSE
        /\ reset' = [call |-> "attributes", left |-> registered, state |-> "none",
                     commissioning |-> commissioning]
        /\ UNCHANGED <<registered, zbReady, zbNet, changed, bound, commissioning,
                       discovering, reports, unfit>>
    BY <1>2 DEF os_reset_local, NotResetting
  <2>2. ZigbeeTypeOK' BY <2>1 DEF ZbInv, ZigbeeTypeOK
  <2>3. RequestFits' /\ ZbReports' BY <2>1 DEF ZbInv, RequestFits, ZbReports
  <2>4. ZbReset' /\ ZbClean' /\ ZbLeft'
    BY <2>1 DEF ZbInv, ZbReset, ZbClean, ZbLeft, ZigbeeTypeOK
  <2> QED BY <2>2, <2>3, <2>4 DEF ZbInv
<1>3. CASE ResetAttributes
  <2>0. /\ reset.call = "attributes" /\ ~wiped
        /\ UNCHANGED <<registered, zbReady, zbNet, scanning, bound, commissioning, discovering,
                       reports, unfit, wiped>>
    BY <1>3 DEF ResetAttributes, ZbInv, ZbReset
  <2>1. CASE reset.left = {} /\ reset' = [reset EXCEPT !.call = "status"] /\ UNCHANGED changed
    <3>1. reset' = [call |-> "status", left |-> {}, state |-> reset.state,
                    commissioning |-> reset.commissioning]
      BY <2>1 DEF ZbInv, ZbReset
    <3>2. ZigbeeTypeOK' BY <2>0, <2>1, <3>1 DEF ZbInv, ZigbeeTypeOK
    <3>3. RequestFits' /\ ZbReports' BY <2>0 DEF ZbInv, RequestFits, ZbReports
    <3>4. ZbReset' /\ ZbClean' /\ ZbLeft'
      BY <2>0, <2>1, <3>1 DEF ZbInv, ZbReset, ZbClean, ZbLeft
    <3> QED BY <3>2, <3>3, <3>4 DEF ZbInv
  <2>2. ASSUME NEW h \in reset.left, changed' = changed \ {h},
               reset' = [reset EXCEPT !.left = @ \ {h}]
        PROVE  ZbInv'
    <3>1. reset' = [call |-> "attributes", left |-> reset.left \ {h}, state |-> reset.state,
                    commissioning |-> reset.commissioning]
      BY <2>0, <2>2 DEF ZbInv, ZbReset
    <3>2. ZigbeeTypeOK' BY <2>0, <2>2, <3>1 DEF ZbInv, ZigbeeTypeOK
    <3>3. RequestFits' /\ ZbReports' BY <2>0 DEF ZbInv, RequestFits, ZbReports
    <3>4. ZbReset' /\ ZbClean' /\ ZbLeft'
      BY <2>0, <2>2, <3>1 DEF ZbInv, ZbReset, ZbClean, ZbLeft
    <3> QED BY <3>2, <3>3, <3>4 DEF ZbInv
  <2>3. CASE reset' = NotResetting /\ UNCHANGED changed
    <3>1. ZigbeeTypeOK' BY <2>0, <2>3 DEF ZbInv, ZigbeeTypeOK, NotResetting
    <3>2. RequestFits' /\ ZbReports' BY <2>0 DEF ZbInv, RequestFits, ZbReports
    <3>3. ZbReset' /\ ZbClean' /\ ZbLeft'
      BY <2>0, <2>3 DEF ZbReset, ZbClean, ZbLeft, NotResetting
    <3> QED BY <3>1, <3>2, <3>3 DEF ZbInv
  <2> QED BY <1>3, <2>1, <2>2, <2>3 DEF ResetAttributes
<1>4. CASE ResetStatus
  <2>0. /\ reset.call = "status" /\ ~wiped
        /\ UNCHANGED <<registered, zbReady, zbNet, scanning, changed, bound, commissioning,
                       discovering, reports, unfit, wiped>>
    BY <1>4 DEF ResetStatus, ZbInv, ZbReset
  <2>1. /\ reset' = [call |-> reset'.call, left |-> {}, state |-> reset'.state,
                     commissioning |-> reset'.commissioning]
        /\ reset'.call \in {"none", "leave", "factory"} /\ reset'.commissioning \in BOOLEAN
        /\ reset'.call = "none" \/ reset'.commissioning = reset.commissioning
        /\ reset'.call = "factory" => zbNet \notin Joined /\ reset'.state = zbNet
    <3>1. CASE reset' = NotResetting
      <4>1. FALSE \in BOOLEAN BY Zenon
      <4> QED BY <3>1, <4>1 DEF NotResetting
    <3>2. CASE reset' = [reset EXCEPT !.state = zbNet,
                               !.call = IF zbNet \in Joined THEN "leave" ELSE "factory"]
      <4>1. reset' = [call |-> IF zbNet \in Joined THEN "leave" ELSE "factory", left |-> {},
                      state |-> zbNet, commissioning |-> reset.commissioning]
        BY <3>2, <2>0 DEF ZbInv, ZbReset
      <4>2. reset.commissioning \in BOOLEAN BY DEF ZbInv, ZbReset
      <4>3. reset'.call = IF zbNet \in Joined THEN "leave" ELSE "factory" BY <4>1
      <4>4. reset'.state = zbNet /\ reset'.commissioning = reset.commissioning BY <4>1
      <4> QED BY <4>1, <4>2, <4>3, <4>4
    <3> QED BY <1>4, <3>1, <3>2 DEF ResetStatus
  <2>2. ZigbeeTypeOK' BY <2>0, <2>1 DEF ZbInv, ZigbeeTypeOK
  <2>3. RequestFits' /\ ZbReports' BY <2>0 DEF ZbInv, RequestFits, ZbReports
  <2>4. ZbReset' /\ ZbClean' BY <2>0, <2>1 DEF ZbInv, ZbReset, ZbClean
  <2>5. ZbLeft' BY <2>0, <2>1 DEF ZbInv, ZbLeft, ZigbeeTypeOK, NetStates, Joined
  <2> QED BY <2>2, <2>3, <2>4, <2>5 DEF ZbInv
<1>5. CASE ResetLeave
  <2>0. /\ reset.call = "leave" /\ ~wiped
        /\ UNCHANGED <<registered, zbReady, scanning, changed, bound, commissioning,
                       discovering, reports, unfit, wiped>>
    BY <1>5 DEF ResetLeave, ZbInv, ZbReset
  <2>1. /\ reset' = [call |-> reset'.call, left |-> {}, state |-> reset'.state,
                     commissioning |-> reset'.commissioning]
        /\ reset'.call \in {"none", "factory"} /\ reset'.commissioning \in BOOLEAN
        /\ reset'.call = "none" \/ reset'.commissioning = reset.commissioning
        /\ reset'.call = "factory" => zbNet' = "LEAVING_NETWORK"
        /\ zbNet' \in NetStates
    <3>1. CASE reset' = NotResetting /\ UNCHANGED zbNet
      <4>1. FALSE \in BOOLEAN BY Zenon
      <4>2. zbNet \in NetStates BY DEF ZbInv, ZigbeeTypeOK
      <4> QED BY <3>1, <4>1, <4>2 DEF NotResetting
    <3>2. CASE zbNet' = "LEAVING_NETWORK" /\ reset' = [reset EXCEPT !.call = "factory"]
      <4>1. reset' = [call |-> "factory", left |-> {},
                      state |-> reset.state, commissioning |-> reset.commissioning]
        BY <3>2, <2>0 DEF ZbInv, ZbReset
      <4>2. reset.commissioning \in BOOLEAN BY DEF ZbInv, ZbReset
      <4>3. zbNet' \in NetStates BY <3>2 DEF NetStates
      <4>4. reset'.call = "factory" /\ reset'.commissioning = reset.commissioning BY <4>1
      <4> QED BY <3>2, <4>1, <4>2, <4>3, <4>4
    <3> QED BY <1>5, <3>1, <3>2 DEF ResetLeave
  <2>2. ZigbeeTypeOK' BY <2>0, <2>1 DEF ZbInv, ZigbeeTypeOK
  <2>3. RequestFits' /\ ZbReports' BY <2>0 DEF ZbInv, RequestFits, ZbReports
  <2>4. ZbReset' /\ ZbClean' BY <2>0, <2>1 DEF ZbInv, ZbReset, ZbClean
  <2>5. ZbLeft' BY <2>0, <2>1 DEF ZbInv, ZbLeft
  <2> QED BY <2>2, <2>3, <2>4, <2>5 DEF ZbInv
<1>6. CASE ResetFactory
  <2>0. /\ reset.call = "factory" /\ ~wiped
        /\ UNCHANGED <<registered, zbReady, zbNet, scanning, changed, commissioning,
                       discovering, reports, unfit>>
    BY <1>6 DEF ResetFactory, ZbInv, ZbReset
  <2>1. CASE reset' = NotResetting /\ UNCHANGED <<bound, wiped>>
    <3>1. ZigbeeTypeOK' BY <2>0, <2>1 DEF ZbInv, ZigbeeTypeOK, NotResetting
    <3>2. RequestFits' /\ ZbReports' BY <2>0 DEF ZbInv, RequestFits, ZbReports
    <3>3. ZbReset' /\ ZbClean' /\ ZbLeft'
      BY <2>0, <2>1 DEF ZbReset, ZbClean, ZbLeft, NotResetting
    <3> QED BY <3>1, <3>2, <3>3 DEF ZbInv
  <2>2. CASE bound' = FALSE /\ wiped' = TRUE /\ reset' = [reset EXCEPT !.call = "none"]
    <3>1. reset' = [call |-> "none", left |-> {},
                    state |-> reset.state, commissioning |-> reset.commissioning]
      BY <2>2, <2>0 DEF ZbInv, ZbReset
    <3>2. ZigbeeTypeOK' BY <2>0, <2>2, <3>1 DEF ZbInv, ZigbeeTypeOK
    <3>3. RequestFits' /\ ZbReports' BY <2>0 DEF ZbInv, RequestFits, ZbReports
    <3>4. ZbReset' /\ ZbClean' /\ ZbLeft'
      BY <2>0, <2>2, <3>1 DEF ZbInv, ZbReset, ZbClean, ZbLeft
    <3> QED BY <3>2, <3>3, <3>4 DEF ZbInv
  <2> QED BY <1>6, <2>1, <2>2 DEF ResetFactory, os_factory_reset
<1> QED BY <1>1, <1>2, <1>3, <1>4, <1>5, <1>6

\* The stack by itself: it leaves a network the reset left no other way round.
LEMMA ZigbeeStack ==
  ASSUME ZbInv, Stack
  PROVE  ZbInv'
<1>0. UNCHANGED <<registered, zbReady, scanning, changed, discovering, reports, unfit,
                  reset, wiped>>
  BY DEF Stack
<1>1. CASE UNCHANGED <<bound, commissioning>> /\ zbNet' \in NetStates
           /\ (zbNet \in {"NO_NETWORK", "LEAVING_NETWORK"} => zbNet' = "NO_NETWORK")
  <2>1. ZigbeeTypeOK' BY <1>0, <1>1 DEF ZbInv, ZigbeeTypeOK
  <2>2. RequestFits' /\ ZbReports' /\ ZbReset' /\ ZbClean'
    BY <1>0 DEF ZbInv, RequestFits, ZbReports, ZbReset, ZbClean
  <2>3. ZbLeft' BY <1>0, <1>1 DEF ZbInv, ZbLeft
  <2> QED BY <2>1, <2>2, <2>3 DEF ZbInv
<1>2. CASE commissioning /\ commissioning' = FALSE /\ bound' = TRUE /\ UNCHANGED zbNet
  <2>1. ZigbeeTypeOK' BY <1>0, <1>2 DEF ZbInv, ZigbeeTypeOK
  <2>2. RequestFits' /\ ZbReports' /\ ZbReset' /\ ZbClean'
    BY <1>0 DEF ZbInv, RequestFits, ZbReports, ZbReset, ZbClean
  <2>3. ZbLeft' BY <1>0, <1>2 DEF ZbInv, ZbLeft
  <2> QED BY <2>1, <2>2, <2>3 DEF ZbInv
<1>3. StackEvent => \/ /\ UNCHANGED <<bound, commissioning>> /\ zbNet' \in NetStates
                       /\ (zbNet \in {"NO_NETWORK", "LEAVING_NETWORK"} => zbNet' = "NO_NETWORK")
                    \/ commissioning /\ commissioning' = FALSE /\ bound' = TRUE /\ UNCHANGED zbNet
  BY DEF StackEvent
<1> QED BY <1>1, <1>2, <1>3 DEF Stack

LEMMA ZigbeeStep ==
  ASSUME ZbInv, ZigbeeNext
  PROVE  ZbInv'
<1>1. CASE \E hs \in SUBSET Handles : os_set_local_endpoint(hs)
  <2>1. PICK hs \in SUBSET Handles : os_set_local_endpoint(hs) BY <1>1
  <2>2. /\ reset.call = "none" /\ registered' = hs /\ wiped' = FALSE
        /\ UNCHANGED <<zbReady, zbNet, scanning, changed, bound, commissioning, discovering,
                       reports, unfit, reset>>
    BY <2>1 DEF os_set_local_endpoint, Free
  <2>3. ZigbeeTypeOK' BY <2>2 DEF ZbInv, ZigbeeTypeOK, ZbReset
  <2>4. RequestFits' /\ ZbReports' BY <2>2 DEF ZbInv, RequestFits, ZbReports
  <2>5. ZbReset' /\ ZbClean' /\ ZbLeft' BY <2>2 DEF ZbInv, ZbReset, ZbClean, ZbLeft
  <2> QED BY <2>3, <2>4, <2>5 DEF ZbInv
<1>2. CASE os_zigbee_initialize
  <2>1. CASE Fails BY <2>1, ZigbeeFails
  <2>2. CASE ~Fails
    <3>1. /\ zbReady' = TRUE
          /\ UNCHANGED <<registered, zbNet, scanning, changed, bound, commissioning,
                         discovering, reports, unfit, reset, wiped>>
      BY <1>2, <2>2 DEF os_zigbee_initialize
    <3>2. ZigbeeTypeOK' BY <3>1 DEF ZbInv, ZigbeeTypeOK
    <3> QED BY <3>1, <3>2 DEF ZbInv, RequestFits, ZbReset, ZbClean, ZbLeft, ZbReports
  <2> QED BY <2>1, <2>2
<1>3. CASE os_deinitialize
  <2>1. /\ reset.call = "none" /\ zbReady' = FALSE /\ registered' = {} /\ discovering' = FALSE
        /\ UNCHANGED <<zbNet, scanning, changed, bound, commissioning, reports, unfit,
                       reset, wiped>>
    BY <1>3 DEF os_deinitialize, Free
  <2>2. ZigbeeTypeOK' BY <2>1 DEF ZbInv, ZigbeeTypeOK, ZbReset
  <2>3. RequestFits' /\ ZbReports' BY <2>1 DEF ZbInv, RequestFits, ZbReports
  <2>4. ZbReset' /\ ZbClean' /\ ZbLeft' BY <2>1 DEF ZbInv, ZbReset, ZbClean, ZbLeft
  <2> QED BY <2>2, <2>3, <2>4 DEF ZbInv
<1>4. CASE Network BY <1>4, ZigbeeNetwork
<1>5. CASE \E h \in Handles : Cluster(h) BY <1>5, ZigbeeCluster
<1>6. CASE \E h \in Handles, start \in BOOLEAN :
             os_ezmode_commissioning(h, start) \/ os_find_bind(h, start)
  BY <1>6, ZigbeeCommissions DEF os_ezmode_commissioning, os_find_bind
<1>7. CASE \E h \in Handles, t \in ReportTypes, a \in ReportArgs :
             os_request_reporting(h, t, a[1], a[2], a[3])
  BY <1>7, ZigbeeReporting
<1>8. CASE \E h \in Handles, t \in ReportTypes : os_stop_reporting(h, t)
  BY <1>8, ZigbeeReporting DEF os_stop_reporting
<1>9. CASE os_reset_local \/ ResetAttributes \/ ResetStatus \/ ResetLeave \/ ResetFactory
  BY <1>9, ZigbeeResets
<1>10. CASE Stack BY <1>10, ZigbeeStack
<1> QED
  BY <1>1, <1>2, <1>3, <1>4, <1>5, <1>6, <1>7, <1>8, <1>9, <1>10 DEF ZigbeeNext

\* A request goes out only from an endpoint that holds its cluster, the colour
\* requests excepted; a reset that returned S_OK left no attribute, no network
\* and no binding but what the parts name; every report can be stopped
\* (linux_zigbee.c): in every state, for any endpoints and report types.
THEOREM ZigbeeIsSound == ZigbeeSpec => []ZigbeeSound
<1>1. ZigbeeInit => ZbInv
  <2>1. ZigbeeInit => ZigbeeTypeOK
    <3>1. FALSE \in BOOLEAN /\ "NO_NETWORK" \in NetStates BY Zenon DEF NetStates
    <3>2. NotResetting.call = "none" /\ NotResetting.left = {} BY DEF NotResetting
    <3> QED BY <3>1, <3>2 DEF ZigbeeInit, ZigbeeTypeOK
  <2> QED BY <2>1 DEF ZigbeeInit, ZbInv, RequestFits, ZbReset, ZbClean, ZbLeft, ZbReports,
         NotResetting
<1>2. ZbInv /\ [ZigbeeNext]_zbVars => ZbInv'
  BY ZigbeeStep, ZigbeeStays
<1>3. ZbInv => ZigbeeSound
  <2> SUFFICES ASSUME ZbInv PROVE ZigbeeSound
    OBVIOUS
  <2>1. ResetIsClean BY DEF ZbInv, ZbClean, ZbLeft, ResetIsClean, Joined
  <2>2. ReportCanBeStopped
    BY DEF ZbInv, ZbReports, ReportCanBeStopped, Accepts, MaxThreshold
  <2> QED BY <2>1, <2>2 DEF ZbInv, ZigbeeSound
<1> QED BY <1>1, <1>2, <1>3, PTL DEF ZigbeeSpec

-----------------------------------------------------------------------------
(* Bus.  A pwm handle in the list has its channel exported by this process *)
(* and no other handle has, so that a request for a channel that is taken  *)
(* never gets to the list; an i2c handle whose slave a kernel driver holds *)
(* was there first.                                                        *)

ChannelStates == [owner : {"nobody", "us", "other"}, on : BOOLEAN, period : Nat, duty : Nat]

BusTypes ==
  /\ IsFiniteSet(pwmList) /\ pwmList \subseteq [pin : PwmPins, intact : BOOLEAN]
  /\ pwmChan \in [Channels -> ChannelStates]
  /\ i2cList \subseteq [id : Buses, address : Addresses]
  /\ leaked \in 0..BusFds /\ adcList \subseteq AdcPins

\* A listed handle owns its channel.
PwmOwned == \A n \in pwmList : pwmChan[Channel(n.pin)].owner = "us"

BoundIsStolen == \A n \in i2cList : <<n.id, n.address>> \in i2cBound => stolen

BusInv == BusTypes /\ OneHandlePerChannel /\ PwmOwned /\ ReleasedIsOff /\ BoundIsStolen
          /\ FaultNeedsDriver

LEMMA ChannelIs == \A n \in [pin : PwmPins, intact : BOOLEAN] : Channel(n.pin) \in Channels
BY DEF Channels

\* There is a descriptor left, so that one more may leak.
LEMMA FdsLeft ==
  ASSUME BusTypes, NEW n \in Nat \ {0}, FreeFds(n)
  PROVE  leaked \in Nat /\ leaked + 1 \in 0..BusFds
<1>1. Cardinality(pwmList) \in Nat BY FS_CardinalityType DEF BusTypes
<1>2. leaked \in Nat /\ BusFds \in Nat BY BusAssumption DEF BusTypes
<1>3. 4 * Cardinality(pwmList) + leaked + n <= BusFds BY DEF FreeFds
<1>4. ASSUME NEW c \in Nat, NEW l \in Nat, NEW b \in Nat, 4 * c + l + n <= b
      PROVE  l + 1 \in 0..b
  BY <1>4
<1> QED BY <1>1, <1>2, <1>3, <1>4

\* Steps that touch neither the pwm channels nor the i2c handles.
LEMMA BusRest ==
  ASSUME BusInv, UNCHANGED <<pwmVars, i2cList, i2cBound, stolen, ioError, busFault>>,
         leaked' \in 0..BusFds, adcList' \subseteq AdcPins
  PROVE  BusInv'
<1>1. BusTypes' BY DEF BusInv, BusTypes, pwmVars
<1>2. OneHandlePerChannel' /\ PwmOwned' /\ ReleasedIsOff'
  BY DEF BusInv, OneHandlePerChannel, PwmOwned, ReleasedIsOff, pwmVars
<1>3. BoundIsStolen' /\ FaultNeedsDriver' BY DEF BusInv, BoundIsStolen, FaultNeedsDriver
<1> QED BY <1>1, <1>2, <1>3 DEF BusInv

\* A listed handle's channel gets another state; who is listed stays.
LEMMA PwmChanges ==
  ASSUME BusInv, NEW n \in pwmList, NEW k \in ChannelStates, k.owner = "us",
         pwmChan' = [pwmChan EXCEPT ![Channel(n.pin)] = k],
         UNCHANGED <<pwmList, i2cList, i2cBound, stolen, spiList, adcList, leaked, busFault,
                     ioError>>
  PROVE  BusInv'
<1>0. Channel(n.pin) \in Channels BY ChannelIs DEF BusInv, BusTypes
<1>1. BusTypes' BY <1>0 DEF BusInv, BusTypes
<1>2. OneHandlePerChannel' BY DEF BusInv, OneHandlePerChannel
<1>3. PwmOwned' BY <1>0, ChannelIs DEF BusInv, BusTypes, PwmOwned
<1>4. ReleasedIsOff' BY <1>0 DEF BusInv, BusTypes, ReleasedIsOff
<1>5. BoundIsStolen' /\ FaultNeedsDriver' BY DEF BusInv, BoundIsStolen, FaultNeedsDriver
<1> QED BY <1>1, <1>2, <1>3, <1>4, <1>5 DEF BusInv

LEMMA PwmSets ==
  ASSUME BusInv, NEW n \in pwmList, NEW k \in ChannelStates, k.owner = "us", PwmSet(n, k)
  PROVE  BusInv'
<1>0. Channel(n.pin) \in Channels /\ pwmChan[Channel(n.pin)] \in ChannelStates
      /\ pwmChan[Channel(n.pin)].owner = "us"
  BY ChannelIs DEF BusInv, BusTypes, PwmOwned
<1>1. TRUE \in BOOLEAN /\ FALSE \in BOOLEAN BY Zenon
<1>2. PICK j \in ChannelStates : j.owner = "us" /\ pwmChan' = [pwmChan EXCEPT ![Channel(n.pin)] = j]
  <2>1. ASSUME NEW s \in ChannelStates, NEW b \in BOOLEAN
        PROVE  [s EXCEPT !.on = b] \in ChannelStates /\ [s EXCEPT !.on = b].owner = s.owner
    BY DEF ChannelStates
  <2>2. CASE pwmChan' = [pwmChan EXCEPT ![Channel(n.pin)] = [k EXCEPT !.on = TRUE]]
    BY <1>1, <2>1, <2>2
  <2>3. CASE pwmChan' = [pwmChan EXCEPT ![Channel(n.pin)].on = TRUE]
    <3>1. pwmChan' = [pwmChan EXCEPT ![Channel(n.pin)] = [pwmChan[Channel(n.pin)] EXCEPT !.on = TRUE]]
      BY <2>3
    <3> QED BY <1>0, <1>1, <2>1, <3>1
  <2>4. CASE pwmChan' = [pwmChan EXCEPT ![Channel(n.pin)] = [k EXCEPT !.on = FALSE]]
    BY <1>1, <2>1, <2>4
  <2> QED BY <2>2, <2>3, <2>4 DEF PwmSet
<1> QED BY <1>2, PwmChanges DEF PwmSet

LEMMA PwmCalls ==
  ASSUME BusInv, NEW n \in pwmList, NEW v \in PwmValues,
         artik_pwm_set_period(n, v) \/ artik_pwm_set_duty_cycle(n, v)
  PROVE  BusInv'
<1> DEFINE k == pwmChan[Channel(n.pin)]
<1>0. k \in ChannelStates /\ k.owner = "us" /\ v \in Nat
  BY ChannelIs, BusAssumption DEF BusInv, BusTypes, PwmOwned
<1>1. CASE artik_pwm_set_period(n, v)
  <2>1. PwmSet(n, IF k.duty <= v THEN [k EXCEPT !.period = v] ELSE k)
    BY <1>1 DEF artik_pwm_set_period, os_pwm_set_period
  <2>2. [k EXCEPT !.period = v] \in ChannelStates /\ [k EXCEPT !.period = v].owner = "us"
    BY <1>0 DEF ChannelStates
  <2> QED BY <1>0, <2>1, <2>2, PwmSets
<1>2. CASE artik_pwm_set_duty_cycle(n, v)
  <2>1. PwmSet(n, IF v <= k.period THEN [k EXCEPT !.duty = v] ELSE k)
    BY <1>2 DEF artik_pwm_set_duty_cycle, os_pwm_set_duty_cycle
  <2>2. [k EXCEPT !.duty = v] \in ChannelStates /\ [k EXCEPT !.duty = v].owner = "us"
    BY <1>0 DEF ChannelStates
  <2> QED BY <1>0, <2>1, <2>2, PwmSets
<1> QED BY <1>1, <1>2

LEMMA PwmKeeps ==
  ASSUME BusInv, NEW n \in pwmList,
         artik_pwm_set_polarity(n) \/ artik_pwm_enable(n) \/ artik_pwm_disable(n)
  PROVE  BusInv'
<1> DEFINE k == pwmChan[Channel(n.pin)]
<1>0. k \in ChannelStates /\ k.owner = "us"
  BY ChannelIs DEF BusInv, BusTypes, PwmOwned
<1>3. CASE artik_pwm_set_polarity(n)
  BY <1>0, <1>3, PwmSets DEF artik_pwm_set_polarity, os_pwm_set_polarity
<1>4. CASE artik_pwm_enable(n) \/ artik_pwm_disable(n)
  <2>1. PICK on \in BOOLEAN : os_pwm_enable(n, on)
    BY <1>4, Zenon DEF artik_pwm_enable, artik_pwm_disable
  <2>2. pwmChan' = [pwmChan EXCEPT ![Channel(n.pin)] = [k EXCEPT !.on = on]]
    BY <2>1 DEF os_pwm_enable
  <2>3. [k EXCEPT !.on = on] \in ChannelStates /\ [k EXCEPT !.on = on].owner = "us"
    BY <1>0 DEF ChannelStates
  <2>4. UNCHANGED <<pwmList, i2cList, i2cBound, stolen, spiList, adcList, leaked, busFault,
                    ioError>>
    BY <2>1 DEF os_pwm_enable
  <2> QED BY <2>2, <2>3, <2>4, PwmChanges
<1> QED BY <1>3, <1>4

\* The configured state of a channel that a request is granted.
LEMMA DutyIsNat ==
  ASSUME NEW period \in Nat, NEW duty \in Nat
  PROVE  DutyOf(period, duty) \in Nat
BY DEF DutyOf

LEMMA PwmRequest ==
  ASSUME BusInv, NEW pin \in PwmPins, NEW period \in PwmValues, NEW duty \in PwmValues,
         artik_pwm_request(pin, period, duty)
  PROVE  BusInv'
<1> DEFINE c == Channel(pin)
<1>0. c \in Channels BY DEF Channels
<1>1. TRUE \in BOOLEAN /\ FALSE \in BOOLEAN BY Zenon
<1>2. leaked \in Nat /\ leaked + 1 \in 0..BusFds
  BY FdsLeft DEF BusInv, artik_pwm_request
<1>3. UNCHANGED <<i2cList, i2cBound, stolen, spiList, adcList, busFault>>
  BY DEF artik_pwm_request
<1>4. CASE os_pwm_request(pin, period, DutyOf(period, duty))
  <2> DEFINE k == [owner |-> "us", on |-> TRUE, period |-> period, duty |-> DutyOf(period, duty)]
             n == [pin |-> pin, intact |-> TRUE]
  <2>1. /\ pwmChan[c].owner = "nobody" /\ pwmChan' = [pwmChan EXCEPT ![c] = k]
        /\ pwmList' = pwmList \cup {n} /\ UNCHANGED <<leaked, ioError>>
    BY <1>4 DEF os_pwm_request
  <2>2. k \in ChannelStates /\ k.owner = "us"
    BY <1>1, BusAssumption, DutyIsNat DEF ChannelStates
  <2>3. n \in [pin : PwmPins, intact : BOOLEAN] /\ n.pin = pin BY <1>1
  <2>4. \A j \in pwmList : Channel(j.pin) # c /\ Channel(j.pin) \in Channels
    BY <2>1, ChannelIs DEF BusInv, PwmOwned, BusTypes
  <2> HIDE DEF k, n
  <2>5. BusTypes'
    <3>1. IsFiniteSet(pwmList') BY <2>1, FS_AddElement DEF BusInv, BusTypes
    <3> QED BY <1>0, <1>3, <2>1, <2>2, <2>3, <3>1 DEF BusInv, BusTypes
  <2>6. OneHandlePerChannel' BY <2>1, <2>3, <2>4 DEF BusInv, OneHandlePerChannel
  <2>7. PwmOwned' BY <1>0, <2>1, <2>2, <2>3, <2>4 DEF BusInv, PwmOwned, BusTypes
  <2>8. ReleasedIsOff' BY <1>0, <2>1, <2>3 DEF BusInv, ReleasedIsOff, BusTypes
  <2>9. BoundIsStolen' /\ FaultNeedsDriver'
    BY <1>3, <2>1 DEF BusInv, BoundIsStolen, FaultNeedsDriver
  <2> QED BY <2>5, <2>6, <2>7, <2>8, <2>9 DEF BusInv
<1>5. CASE PwmRefused(pin)
  <2>1. pwmChan[c].owner = "nobody" /\ leaked' = leaked + 1 /\ pwmList' = pwmList
    BY <1>5 DEF PwmRefused, os_pwm_clean
  <2>2. CASE pwmChan' = pwmChan /\ UNCHANGED ioError
    BY <1>2, <1>3, <2>1, <2>2, BusRest DEF pwmVars, BusInv, BusTypes
  <2>3. CASE (\E on \in BOOLEAN : pwmChan' = [pwmChan EXCEPT ![c] = [Idle("us") EXCEPT !.on = on]])
             /\ ioError' = TRUE
    <3>1. PICK on \in BOOLEAN : pwmChan' = [pwmChan EXCEPT ![c] = [Idle("us") EXCEPT !.on = on]]
      BY <2>3
    <3>2. /\ [Idle("us") EXCEPT !.on = on] \in ChannelStates
          /\ [Idle("us") EXCEPT !.on = on].owner = "us"
      BY DEF Idle, ChannelStates
    <3>3. BusTypes' BY <1>0, <1>2, <1>3, <2>1, <3>1, <3>2 DEF BusInv, BusTypes
    <3>4. OneHandlePerChannel' BY <2>1 DEF BusInv, OneHandlePerChannel
    <3>5. PwmOwned' BY <1>0, <2>1, <3>1, <3>2, ChannelIs DEF BusInv, PwmOwned, BusTypes
    <3>6. ReleasedIsOff' /\ FaultNeedsDriver' BY <2>3 DEF ReleasedIsOff, FaultNeedsDriver
    <3>7. BoundIsStolen' BY <1>3 DEF BusInv, BoundIsStolen
    <3> QED BY <3>3, <3>4, <3>5, <3>6, <3>7 DEF BusInv
  <2> QED BY <1>5, <2>2, <2>3 DEF PwmRefused
<1>6. CASE PwmExportRefused(pin)
  <2>1. leaked' = leaked + 1 /\ UNCHANGED ioError BY <1>6 DEF PwmExportRefused
  <2>2. CASE pwmList' = pwmList /\ pwmChan' = pwmChan
    BY <1>2, <1>3, <2>1, <2>2, BusRest DEF pwmVars, BusInv, BusTypes
  <2>3. ASSUME NEW n \in pwmList,
               pwmList' = (pwmList \ {n}) \cup {[n EXCEPT !.intact = FALSE]},
               pwmChan' = [pwmChan EXCEPT ![Channel(n.pin)].on = FALSE]
        PROVE  BusInv'
    <3>1. PICK j : j = [n EXCEPT !.intact = FALSE] OBVIOUS
    <3>2. j \in [pin : PwmPins, intact : BOOLEAN] /\ j.pin = n.pin
      BY <1>1, <3>1 DEF BusInv, BusTypes
    <3>3. PICK k : k = [pwmChan[Channel(n.pin)] EXCEPT !.on = FALSE] OBVIOUS
    <3>4. /\ Channel(n.pin) \in Channels /\ pwmChan[Channel(n.pin)] \in ChannelStates
          /\ pwmChan[Channel(n.pin)].owner = "us"
      BY ChannelIs DEF BusInv, BusTypes, PwmOwned
    <3>5. k \in ChannelStates /\ k.owner = "us" /\ k.on = FALSE
      BY <1>1, <3>3, <3>4 DEF ChannelStates
    <3>6. pwmChan' = [pwmChan EXCEPT ![Channel(n.pin)] = k] BY <2>3, <3>3
    <3>7. pwmList' = (pwmList \ {n}) \cup {j} BY <2>3, <3>1
    <3>8. BusTypes'
      <4>1. IsFiniteSet(pwmList \ {n}) BY FS_RemoveElement DEF BusInv, BusTypes
      <4>2. IsFiniteSet(pwmList') BY <4>1, <3>7, FS_AddElement
      <4> QED BY <1>2, <1>3, <2>1, <3>2, <3>4, <3>5, <3>6, <3>7, <4>2 DEF BusInv, BusTypes
    <3>9. OneHandlePerChannel' BY <3>2, <3>7 DEF BusInv, OneHandlePerChannel
    <3>10. PwmOwned'
      BY <3>2, <3>4, <3>5, <3>6, <3>7, ChannelIs DEF BusInv, PwmOwned, BusTypes
    <3>11. ReleasedIsOff'
      <4>1. ASSUME NEW d \in Channels, \E m \in pwmList : Channel(m.pin) = d
            PROVE  \E m \in pwmList' : Channel(m.pin) = d
        BY <4>1, <3>2, <3>7
      <4>2. \E m \in pwmList : Channel(m.pin) = Channel(n.pin) OBVIOUS
      <4> QED BY <2>1, <3>4, <3>6, <4>1, <4>2 DEF BusInv, ReleasedIsOff, BusTypes
    <3>12. BoundIsStolen' /\ FaultNeedsDriver'
      BY <1>3, <2>1 DEF BusInv, BoundIsStolen, FaultNeedsDriver
    <3> QED BY <3>8, <3>9, <3>10, <3>11, <3>12 DEF BusInv
  <2> QED BY <1>6, <2>2, <2>3 DEF PwmExportRefused
<1> QED BY <1>4, <1>5, <1>6 DEF artik_pwm_request

LEMMA PwmRelease ==
  ASSUME BusInv, NEW n \in pwmList, artik_pwm_release(n)
  PROVE  BusInv'
<1> DEFINE c == Channel(n.pin)
<1>0. /\ c \in Channels /\ pwmChan[c] \in ChannelStates /\ pwmChan[c].owner = "us"
      /\ \A j \in pwmList \ {n} : Channel(j.pin) # c
  BY ChannelIs DEF BusInv, BusTypes, PwmOwned, OneHandlePerChannel
<1>1. leaked' = leaked + 1 /\ pwmList' = pwmList \ {n}
      /\ UNCHANGED <<i2cList, i2cBound, stolen, spiList, adcList, busFault>>
  BY DEF artik_pwm_release, os_pwm_release, os_pwm_clean
<1>2. leaked' \in 0..BusFds BY <1>1, FdsLeft DEF BusInv, artik_pwm_release
<1>3. IsFiniteSet(pwmList') BY <1>1, FS_RemoveElement DEF BusInv, BusTypes
<1>4. PICK k \in ChannelStates :
        /\ pwmChan' = [pwmChan EXCEPT ![c] = k]
        /\ ioError' = TRUE \/ (~k.on /\ k.owner = "nobody" /\ ioError' = ioError)
  <2>1. CASE pwmChan' = [pwmChan EXCEPT ![c] = Idle("nobody")] /\ UNCHANGED ioError
    <3>1. Idle("nobody") \in ChannelStates BY Zenon DEF Idle, ChannelStates
    <3>2. ~Idle("nobody").on /\ Idle("nobody").owner = "nobody" BY DEF Idle
    <3> QED BY <2>1, <3>1, <3>2
  <2>2. CASE ioError' = TRUE /\ \E on \in BOOLEAN : pwmChan' = [pwmChan EXCEPT ![c].on = on]
    <3>1. PICK on \in BOOLEAN : pwmChan' = [pwmChan EXCEPT ![c].on = on] BY <2>2
    <3>2. pwmChan' = [pwmChan EXCEPT ![c] = [pwmChan[c] EXCEPT !.on = on]] BY <3>1
    <3>3. [pwmChan[c] EXCEPT !.on = on] \in ChannelStates BY <1>0 DEF ChannelStates
    <3> QED BY <2>2, <3>2, <3>3
  <2> QED BY <2>1, <2>2 DEF artik_pwm_release, os_pwm_release
<1>5. BusTypes' BY <1>0, <1>1, <1>2, <1>3, <1>4 DEF BusInv, BusTypes
<1>6. OneHandlePerChannel' BY <1>1 DEF BusInv, OneHandlePerChannel
<1>7. PwmOwned' BY <1>0, <1>1, <1>4, ChannelIs DEF BusInv, PwmOwned, BusTypes
<1>8. ReleasedIsOff' /\ FaultNeedsDriver'
  <2>1. CASE ioError' = TRUE BY <2>1 DEF ReleasedIsOff, FaultNeedsDriver
  <2>2. CASE ~k.on /\ k.owner = "nobody" /\ ioError' = ioError
    <3>1. ASSUME NEW d \in Channels, ~ioError, pwmChan'[d].on \/ pwmChan'[d].owner = "us"
          PROVE  \E m \in pwmList' : Channel(m.pin) = d
      <4>1. d # c BY <1>0, <1>4, <2>2, <3>1 DEF BusInv, BusTypes
      <4>2. pwmChan'[d] = pwmChan[d] BY <1>4, <4>1 DEF BusInv, BusTypes
      <4>3. PICK m \in pwmList : Channel(m.pin) = d BY <3>1, <4>2 DEF BusInv, ReleasedIsOff
      <4> QED BY <1>1, <4>1, <4>3
    <3>2. ReleasedIsOff' BY <2>2, <3>1 DEF ReleasedIsOff
    <3> QED BY <1>1, <2>2, <3>2 DEF BusInv, FaultNeedsDriver
  <2> QED BY <1>4, <2>1, <2>2
<1>9. BoundIsStolen' BY <1>1 DEF BusInv, BoundIsStolen
<1> QED BY <1>5, <1>6, <1>7, <1>8, <1>9 DEF BusInv

LEMMA PwmOthers ==
  ASSUME BusInv, NEW c \in Channels, OtherPwm(c)
  PROVE  BusInv'
<1>1. UNCHANGED <<pwmList, i2cList, i2cBound, stolen, spiList, adcList, leaked, busFault, ioError>>
  BY DEF OtherPwm
<1>2. PICK k \in ChannelStates : /\ k.owner # "us" /\ ~k.on /\ pwmChan[c].owner # "us"
                                 /\ pwmChan' = [pwmChan EXCEPT ![c] = k]
  <2>1. \A o \in {"nobody", "other"} : Idle(o) \in ChannelStates /\ Idle(o).owner = o /\ ~Idle(o).on
    BY DEF Idle, ChannelStates
  <2> QED BY <2>1 DEF OtherPwm
<1>3. BusTypes' BY <1>1, <1>2 DEF BusInv, BusTypes
<1>4. OneHandlePerChannel' BY <1>1 DEF BusInv, OneHandlePerChannel
<1>5. PwmOwned' BY <1>1, <1>2, ChannelIs DEF BusInv, PwmOwned, BusTypes
<1>6. ReleasedIsOff' BY <1>1, <1>2 DEF BusInv, ReleasedIsOff, BusTypes
<1>7. BoundIsStolen' /\ FaultNeedsDriver' BY <1>1 DEF BusInv, BoundIsStolen, FaultNeedsDriver
<1> QED BY <1>3, <1>4, <1>5, <1>6, <1>7 DEF BusInv

LEMMA I2cCalls ==
  ASSUME BusInv, ~busFault,
         \/ \E id \in Buses, a \in Addresses : artik_i2c_request(id, a) \/ Bind(id, a)
         \/ \E n \in i2cList :
              artik_i2c_release(n) \/ os_i2c_read_register(n) \/ os_i2c_write_register(n)
  PROVE  BusInv'
<1>1. UNCHANGED <<pwmVars, spiList, adcList, leaked>>
  BY DEF artik_i2c_request, Bind, artik_i2c_release, os_i2c_read_register, os_i2c_write_register
<1>2. OneHandlePerChannel' /\ PwmOwned'
  BY <1>1 DEF BusInv, OneHandlePerChannel, PwmOwned, pwmVars
<1>3. ioError' = ioError \/ ioError' = TRUE
  BY DEF artik_i2c_request, Bind, artik_i2c_release, os_i2c_read_register, os_i2c_write_register
<1>4. ReleasedIsOff' BY <1>1, <1>3 DEF BusInv, ReleasedIsOff, pwmVars
<1>5. i2cList \subseteq [id : Buses, address : Addresses] BY DEF BusInv, BusTypes
<1>6. CASE \E id \in Buses, a \in Addresses : artik_i2c_request(id, a)
  <2>1. PICK id \in Buses, a \in Addresses : artik_i2c_request(id, a) BY <1>6
  <2>2. PICK n : n = [id |-> id, address |-> a] OBVIOUS
  <2>3. /\ <<id, a>> \notin i2cBound /\ i2cList' = i2cList \cup {n}
        /\ UNCHANGED <<i2cBound, stolen, busFault, ioError>>
    BY <2>1, <2>2 DEF artik_i2c_request, os_i2c_request
  <2>4. n \in [id : Buses, address : Addresses] /\ n.id = id /\ n.address = a BY <2>2
  <2>5. BusTypes' BY <1>1, <2>3, <2>4 DEF BusInv, BusTypes, pwmVars
  <2>6. BoundIsStolen' BY <2>3, <2>4 DEF BusInv, BoundIsStolen
  <2>7. FaultNeedsDriver' BY <2>3 DEF BusInv, FaultNeedsDriver
  <2> QED BY <1>2, <1>4, <2>5, <2>6, <2>7 DEF BusInv
<1>7. CASE \E id \in Buses, a \in Addresses : Bind(id, a)
  <2>1. PICK id \in Buses, a \in Addresses : Bind(id, a) BY <1>7
  <2>2. /\ i2cBound' \subseteq i2cBound \cup {<<id, a>>}
        /\ stolen' = (stolen \/ (<<id, a>> \in i2cBound' /\ [id |-> id, address |-> a] \in i2cList))
        /\ UNCHANGED <<i2cList, busFault, ioError>>
    BY <2>1 DEF Bind
  <2>3. BusTypes' BY <1>1, <2>2 DEF BusInv, BusTypes, pwmVars
  <2>4. BoundIsStolen'
    <3>1. ASSUME NEW n \in i2cList, <<n.id, n.address>> \in i2cBound' PROVE stolen'
      <4>1. CASE <<n.id, n.address>> \in i2cBound BY <2>2, <4>1 DEF BusInv, BoundIsStolen
      <4>2. CASE <<n.id, n.address>> = <<id, a>>
        <5>1. n.id = id /\ n.address = a BY <4>2
        <5>2. n = [id |-> id, address |-> a] BY <1>5, <5>1
        <5> QED BY <2>2, <3>1, <4>2, <5>2
      <4> QED BY <2>2, <3>1, <4>1, <4>2
    <3> QED BY <2>2, <3>1 DEF BoundIsStolen
  <2>5. FaultNeedsDriver' BY <2>2 DEF BusInv, FaultNeedsDriver
  <2> QED BY <1>2, <1>4, <2>3, <2>4, <2>5 DEF BusInv
<1>8. ASSUME NEW n \in i2cList,
             artik_i2c_release(n) \/ os_i2c_read_register(n) \/ os_i2c_write_register(n)
      PROVE  BusInv'
  <2>1. i2cList' \subseteq i2cList /\ UNCHANGED <<i2cBound, stolen>>
    BY <1>8 DEF artik_i2c_release, os_i2c_read_register, os_i2c_write_register
  <2>2. BusTypes' BY <1>1, <2>1 DEF BusInv, BusTypes, pwmVars
  <2>3. BoundIsStolen' BY <2>1 DEF BusInv, BoundIsStolen
  <2>4. FaultNeedsDriver'
    <3>1. <<n.id, n.address>> \in i2cBound => stolen BY DEF BusInv, BoundIsStolen
    <3> QED BY <1>8, <2>1, <3>1 DEF artik_i2c_release, os_i2c_read_register,
            os_i2c_write_register, FaultNeedsDriver, BusInv
  <2> QED BY <1>2, <1>4, <2>2, <2>3, <2>4 DEF BusInv
<1> QED BY <1>6, <1>7, <1>8

LEMMA BusStep ==
  ASSUME BusInv, BusNext
  PROVE  BusInv'
<1>0. ~busFault BY DEF BusNext
<1>1. CASE \E pin \in PwmPins, period \in PwmValues \ {0}, duty \in PwmValues :
             artik_pwm_request(pin, period, duty)
  BY <1>1, PwmRequest
<1>2. CASE \E n \in pwmList : artik_pwm_release(n) BY <1>2, PwmRelease
<1>3. CASE \E n \in pwmList :
             \/ \E v \in PwmValues : artik_pwm_set_period(n, v) \/ artik_pwm_set_duty_cycle(n, v)
  BY <1>3, PwmCalls
<1>4. CASE \E n \in pwmList :
             artik_pwm_set_polarity(n) \/ artik_pwm_enable(n) \/ artik_pwm_disable(n)
  BY <1>4, PwmKeeps
<1>5. CASE \E c \in Channels : OtherPwm(c) BY <1>5, PwmOthers
<1>6. CASE \E pin \in AdcPins : artik_adc_request(pin) \/ artik_adc_release(pin)
  <2>1. /\ UNCHANGED <<pwmVars, i2cList, i2cBound, stolen, ioError, busFault, leaked>>
        /\ adcList' \subseteq AdcPins
    BY <1>6 DEF artik_adc_request, artik_adc_release, BusInv, BusTypes
  <2>2. leaked' \in 0..BusFds BY <2>1 DEF BusInv, BusTypes
  <2> QED BY <2>1, <2>2, BusRest
<1>7. CASE os_adc_get_value_fails
  <2>1. /\ FreeFds(1) /\ leaked' = leaked + 1
        /\ UNCHANGED <<pwmVars, i2cList, i2cBound, stolen, ioError, busFault, adcList>>
    BY <1>7 DEF os_adc_get_value_fails
  <2>2. leaked' \in 0..BusFds BY <2>1, FdsLeft DEF BusInv
  <2>3. adcList' \subseteq AdcPins BY <2>1 DEF BusInv, BusTypes
  <2> QED BY <2>1, <2>2, <2>3, BusRest
<1>8. CASE \/ \E id \in Buses, a \in Addresses : artik_i2c_request(id, a) \/ Bind(id, a)
           \/ \E n \in i2cList :
                artik_i2c_release(n) \/ os_i2c_read_register(n) \/ os_i2c_write_register(n)
  BY <1>0, <1>8, I2cCalls
<1>9. CASE \/ \E bus \in Buses, cs \in {0, 1} : artik_spi_request(bus, cs)
           \/ \E n \in spiList : artik_spi_release(n)
  <2>1. UNCHANGED <<pwmVars, i2cList, i2cBound, stolen, ioError, busFault, leaked, adcList>>
    BY <1>9 DEF artik_spi_request, artik_spi_release
  <2>2. leaked' \in 0..BusFds /\ adcList' \subseteq AdcPins BY <2>1 DEF BusInv, BusTypes
  <2> QED BY <2>1, <2>2, BusRest
<1> QED BY <1>1, <1>2, <1>3, <1>4, <1>5, <1>6, <1>7, <1>8, <1>9 DEF BusNext

LEMMA BusIsInv == BusSpec => []BusInv
<1>1. BusInit => BusInv
  <2> SUFFICES ASSUME BusInit PROVE BusInv
    OBVIOUS
  <2>1. Idle("nobody") \in ChannelStates /\ ~Idle("nobody").on /\ Idle("nobody").owner = "nobody"
    BY DEF Idle, ChannelStates
  <2>2. BusTypes
    BY <2>1, BusAssumption, FS_EmptySet DEF BusInit, BusTypes
  <2>3. OneHandlePerChannel /\ PwmOwned /\ ReleasedIsOff /\ BoundIsStolen /\ FaultNeedsDriver
    BY <2>1 DEF BusInit, OneHandlePerChannel, PwmOwned, ReleasedIsOff, BoundIsStolen,
       FaultNeedsDriver
  <2> QED BY <2>2, <2>3 DEF BusInv
<1>2. BusInv /\ [BusNext]_busVars => BusInv'
  <2>1. ASSUME BusInv, UNCHANGED busVars PROVE BusInv'
    <3>1. /\ UNCHANGED <<pwmVars, i2cList, i2cBound, stolen, ioError, busFault>>
          /\ leaked' \in 0..BusFds /\ adcList' \subseteq AdcPins
      BY <2>1 DEF busVars, pwmVars, BusInv, BusTypes
    <3> QED BY <2>1, <3>1, BusRest
  <2> QED BY <2>1, BusStep
<1> QED BY <1>1, <1>2, PTL DEF BusSpec

-----------------------------------------------------------------------------
(* Systemio.  Blocks and descriptors have one holder each, misused or not, *)
(* so that what a release or an unset gives back is nobody else's.  While  *)
(* the application keeps the order the drivers expect, a watch in the loop *)
(* is the one its device recorded, with the device's block, descriptor and *)
(* reference to the loop.                                                  *)

FdTypes ==
  /\ fds \subseteq 3..(3 + MaxFds)
  /\ IsFiniteSet(watches) /\ \A w \in watches : w.id \in 1..MaxWatches /\ w.fd \in Nat /\ w.data \in Nat
  /\ nextWatch \in 1..(MaxWatches + 1) /\ loopRefs \in 0..MaxRefs
  /\ heap \subseteq Nat /\ IsFiniteSet(heap)
  /\ fault \in BOOLEAN /\ misused \in BOOLEAN

GpioTypes ==
  /\ gpios \in [Pins -> PinNodes \cup {NoPin}]
  /\ exported \in [Pins -> Owners] /\ level \in [Pins -> {0, 1}] /\ seen \in [Pins -> {0, 1}]
  /\ pending \in [Pins -> BOOLEAN]

SerialTypes ==
  /\ serials \in [Ports -> PortNodes \cup {NoPort}]
  /\ rx \in [Ports -> 0..MaxChunks] /\ inCallback \in Nat

IoTypes == FdTypes /\ GpioTypes /\ SerialTypes

\* What a node holds is there; an output has neither descriptor nor watch.
IoNodes ==
  /\ \A p \in Pins : Held(p) =>
       /\ gpios[p].data \in heap /\ gpios[p].fd \in fds \cup {0} /\ gpios[p].watch < nextWatch
       /\ gpios[p].dir = "out" => gpios[p].fd = 0 /\ gpios[p].watch = 0
  /\ \A s \in Ports : Opened(s) => serials[s].data \in heap /\ serials[s].fd \in fds \cup {0}

OwnBlocks ==
  /\ \A p, q \in Pins : Held(p) /\ Held(q) /\ gpios[p].data = gpios[q].data => p = q
  /\ \A s, t \in Ports : Opened(s) /\ Opened(t) /\ serials[s].data = serials[t].data => s = t
  /\ \A p \in Pins, s \in Ports : Held(p) /\ Opened(s) => gpios[p].data # serials[s].data

OwnFds ==
  /\ \A p, q \in Pins : Held(p) /\ Held(q) /\ gpios[p].fd = gpios[q].fd => p = q \/ gpios[p].fd = 0
  /\ \A s, t \in Ports : Opened(s) /\ Opened(t) /\ serials[s].fd = serials[t].fd => s = t \/ serials[s].fd = 0
  /\ \A p \in Pins, s \in Ports : Held(p) /\ Opened(s) /\ gpios[p].fd = serials[s].fd => gpios[p].fd = 0

\* Every reference in a node is one of the drivers'.
LoopPins == {p \in Pins : Held(p) /\ gpios[p].loop}
LoopPorts == {s \in Ports : Opened(s) /\ serials[s].loop}

LoopCounted ==
  /\ IsFiniteSet(LoopPins) /\ IsFiniteSet(LoopPorts)
  /\ Cardinality(LoopPins) + Cardinality(LoopPorts) <= loopRefs

\* The watch of a pin, the watch of a port.
PinWatch(w, p) ==
  /\ Held(p) /\ gpios[p].data = w.data /\ gpios[p].watch = w.id
  /\ gpios[p].fd = w.fd /\ w.fd # 0 /\ gpios[p].loop
PortWatch(w, s) ==
  /\ Opened(s) /\ serials[s].data = w.data /\ serials[s].watch = w.id
  /\ serials[s].fd = w.fd /\ serials[s].loop /\ serials[s].callback

OwnWatches ==
  ~misused => \A w \in watches : (\E p \in Pins : PinWatch(w, p)) \/ (\E s \in Ports : PortWatch(w, s))

IdlePins == ~misused => \A p \in Pins : Held(p) /\ gpios[p].fd = 0 => gpios[p].watch = 0 /\ ~gpios[p].loop

InPort ==
  ~misused /\ inCallback # 0 =>
    \E s \in Ports : Opened(s) /\ serials[s].data = inCallback /\ serials[s].callback

IoHolds == IoNodes /\ OwnBlocks /\ OwnFds /\ LoopCounted

IoInv ==
  /\ IoTypes /\ IoHolds /\ ListedIsExported
  /\ OwnWatches /\ IdlePins /\ NoEdgeLost /\ InPort /\ NoIoFault

-----------------------------------------------------------------------------
LEMMA LeastIs ==
  ASSUME NEW S, S \subseteq Nat, S # {}
  PROVE  Least(S) \in S
<1>1. PICK i \in S : \A j \in S : ~(<<j, i>> \in OpToRel(<, Nat))
  BY WFMin, NatLessThanWellFounded, Zenon
<1>2. ASSUME NEW j \in S PROVE i <= j
  <2>1. <<j, i>> \in Nat \X Nat OBVIOUS
  <2>2. ~(j < i) BY <1>1, <2>1 DEF OpToRel
  <2> QED BY <2>2
<1> QED BY <1>2 DEF Least

\* A descriptor that is opened was not open.
LEMMA NewFdIs ==
  ASSUME FdTypes, CanOpen
  PROVE  NewFd \in 3..(3 + MaxFds) /\ NewFd \notin fds /\ NewFd \in Nat /\ NewFd # 0
<1> DEFINE I == 3..(3 + MaxFds)
<1>0. MaxFds \in Nat BY FdLoopAssumption
<1>1. IsFiniteSet(I) /\ Cardinality(I) = MaxFds + 1
  <2>1. 3 \in Int /\ 3 + MaxFds \in Int /\ 3 <= 3 + MaxFds BY <1>0
  <2>2. IsFiniteSet(I) /\ Cardinality(I) = IF 3 > 3 + MaxFds THEN 0 ELSE (3 + MaxFds) - 3 + 1
    BY <2>1, FS_Interval
  <2> QED BY <1>0, <2>2
<1>2. fds \subseteq I BY DEF FdTypes
<1>3. IsFiniteSet(fds) /\ Cardinality(fds) <= Cardinality(I) BY <1>1, <1>2, FS_Subset
<1>4. I \ fds # {}
  <2>1. SUFFICES ASSUME I \ fds = {} PROVE FALSE
    OBVIOUS
  <2>2. fds = I BY <1>2, <2>1
  <2> QED BY <1>0, <1>1, <2>2 DEF CanOpen
<1>5. I \ fds \subseteq Nat BY <1>0
<1>6. NewFd \in I \ fds BY <1>4, <1>5, LeastIs DEF NewFd
<1> QED BY <1>0, <1>6

\* A block that is allocated is in no node and no watch.
LEMMA NewBlockIs ==
  ASSUME FdTypes
  PROVE  NewBlock \in Nat /\ NewBlock \notin heap /\ NewBlock # 0
         /\ \A w \in watches : w.data # NewBlock
<1> DEFINE D == {w.data : w \in watches}
           U == heap \cup D
           h == Cardinality(heap)
           n == Cardinality(watches)
           I == 1..(h + n + 1)
<1>1. h \in Nat /\ n \in Nat BY FS_CardinalityType DEF FdTypes
<1>2. IsFiniteSet(D) /\ Cardinality(D) <= n
  <2>1. PICK f : f = [w \in watches |-> w.data] OBVIOUS
  <2>2. f \in Surjection(watches, D) BY <2>1 DEF Surjection
  <2> QED BY <2>2, FS_Surjection DEF FdTypes
<1>3. IsFiniteSet(U) /\ Cardinality(U) = h + Cardinality(D) - Cardinality(heap \cap D)
  BY <1>2, FS_Union DEF FdTypes
<1>4. IsFiniteSet(heap \cap D) BY <1>2, FS_Intersection DEF FdTypes
<1>5. Cardinality(D) \in Nat /\ Cardinality(heap \cap D) \in Nat /\ Cardinality(U) \in Nat
  BY <1>2, <1>3, <1>4, FS_CardinalityType
<1>6. IsFiniteSet(I) /\ Cardinality(I) = h + n + 1
  <2> HIDE DEF h, n
  <2>1. 1 \in Int /\ h + n + 1 \in Int /\ 1 <= h + n + 1 BY <1>1
  <2>2. IsFiniteSet(I) /\ Cardinality(I) = IF 1 > h + n + 1 THEN 0 ELSE (h + n + 1) - 1 + 1
    BY <2>1, FS_Interval
  <2> QED BY <1>1, <2>1, <2>2
<1>7. I \ U # {}
  <2>1. SUFFICES ASSUME I \subseteq U PROVE FALSE
    OBVIOUS
  <2>2. Cardinality(I) <= Cardinality(U) BY <1>3, <2>1, FS_Subset
  <2> HIDE DEF h, n, I, U, D
  <2> QED BY <1>1, <1>2, <1>3, <1>5, <1>6, <2>2
<1>8. I \ U \subseteq Nat \ {0} BY <1>1
<1>9. NewBlock \in I \ U BY <1>7, <1>8, LeastIs DEF NewBlock
<1> QED BY <1>8, <1>9

\* References counted in two finite sets.
LEMMA CountsDown ==
  ASSUME NEW A, NEW B, IsFiniteSet(A), IsFiniteSet(B), NEW n \in Nat,
         Cardinality(A) + Cardinality(B) <= n,
         NEW C, NEW D, C \subseteq A, D \subseteq B
  PROVE  IsFiniteSet(C) /\ IsFiniteSet(D) /\ Cardinality(C) + Cardinality(D) <= n
<1>1. /\ IsFiniteSet(C) /\ Cardinality(C) <= Cardinality(A)
      /\ IsFiniteSet(D) /\ Cardinality(D) <= Cardinality(B)
  BY FS_Subset
<1>2. /\ Cardinality(A) \in Nat /\ Cardinality(B) \in Nat
      /\ Cardinality(C) \in Nat /\ Cardinality(D) \in Nat
  BY <1>1, FS_CardinalityType
<1> QED BY <1>1, <1>2

LEMMA CountsUp ==
  ASSUME NEW A, NEW B, IsFiniteSet(A), IsFiniteSet(B), NEW n \in Nat,
         Cardinality(A) + Cardinality(B) <= n,
         NEW C, NEW x, C \subseteq A \cup {x}
  PROVE  /\ IsFiniteSet(C) /\ Cardinality(C) + Cardinality(B) <= n + 1
         /\ Cardinality(B) + Cardinality(C) <= n + 1
<1>1. IsFiniteSet(A \cup {x}) /\ Cardinality(A \cup {x}) <= Cardinality(A) + 1
  <2>1. Cardinality(A) \in Nat BY FS_CardinalityType
  <2> QED BY <2>1, FS_AddElement
<1>2. IsFiniteSet(C) /\ Cardinality(C) <= Cardinality(A \cup {x}) BY <1>1, FS_Subset
<1>3. /\ Cardinality(A) \in Nat /\ Cardinality(B) \in Nat
      /\ Cardinality(C) \in Nat /\ Cardinality(A \cup {x}) \in Nat
  BY <1>1, <1>2, FS_CardinalityType
<1> QED BY <1>1, <1>2, <1>3

LEMMA CountsOff ==
  ASSUME NEW A, NEW B, IsFiniteSet(A), IsFiniteSet(B), NEW n \in Nat,
         Cardinality(A) + Cardinality(B) <= n,
         NEW x \in A, NEW C, C \subseteq A \ {x}
  PROVE  n >= 1 /\ IsFiniteSet(C) /\ Cardinality(C) + Cardinality(B) <= n - 1
<1>1. IsFiniteSet(A \ {x}) /\ Cardinality(A \ {x}) = Cardinality(A) - 1
  BY FS_RemoveElement
<1>2. IsFiniteSet(C) /\ Cardinality(C) <= Cardinality(A \ {x}) BY <1>1, FS_Subset
<1>3. /\ Cardinality(A) \in Nat /\ Cardinality(B) \in Nat
      /\ Cardinality(C) \in Nat /\ Cardinality(A \ {x}) \in Nat
  BY <1>1, <1>2, FS_CardinalityType
<1> QED BY <1>1, <1>2, <1>3

-----------------------------------------------------------------------------
\* A pin's node replaced by one with a block and a descriptor of its own.
LEMMA PinKept ==
  ASSUME IoTypes, IoTypes', IoHolds, NEW p \in Pins, UNCHANGED serials,
         \A q \in Pins : q # p => gpios'[q] = gpios[q],
         Held(p)',
         \/ Held(p) /\ gpios'[p].data = gpios[p].data /\ heap' = heap
         \/ gpios'[p].data \notin heap /\ heap' = heap \cup {gpios'[p].data},
         gpios'[p].fd = 0 \/ gpios'[p].fd \in fds' \ fds,
         \A f \in fds : f \in fds' \/ (Held(p) /\ f = gpios[p].fd),
         gpios'[p].watch < nextWatch', nextWatch <= nextWatch',
         gpios'[p].dir = "out" => gpios'[p].fd = 0 /\ gpios'[p].watch = 0
  PROVE  IoNodes' /\ OwnBlocks' /\ OwnFds'
<1> USE DEF IoHolds
<1>0. /\ \A q \in Pins : q # p => (Held(q)' <=> Held(q))
      /\ \A s \in Ports : (Opened(s)' <=> Opened(s)) /\ serials'[s] = serials[s]
  BY DEF Held, Opened
<1>1. \A q \in Pins : Held(q)' => gpios'[q].data \in heap'
  <2> SUFFICES ASSUME NEW q \in Pins, Held(q)' PROVE gpios'[q].data \in heap'
    OBVIOUS
  <2>1. CASE q = p BY <2>1 DEF IoNodes
  <2>2. CASE q # p BY <1>0, <2>2 DEF IoNodes
  <2> QED BY <2>1, <2>2
<1>2. \A q \in Pins : Held(q)' => gpios'[q].fd \in fds' \cup {0}
  <2> SUFFICES ASSUME NEW q \in Pins, Held(q)', q # p PROVE gpios'[q].fd \in fds' \cup {0}
    OBVIOUS
  <2>1. Held(q) /\ gpios'[q] = gpios[q] /\ gpios[q].fd \in fds \cup {0} BY <1>0 DEF IoNodes
  <2>2. Held(p) /\ gpios[q].fd = gpios[p].fd => gpios[q].fd = 0 BY <2>1 DEF OwnFds
  <2> QED BY <2>1, <2>2
<1>3. \A q \in Pins : Held(q)' => gpios'[q].watch < nextWatch'
  <2> SUFFICES ASSUME NEW q \in Pins, Held(q)', q # p PROVE gpios'[q].watch < nextWatch'
    OBVIOUS
  <2>1. Held(q) /\ gpios'[q] = gpios[q] /\ gpios[q].watch < nextWatch BY <1>0 DEF IoNodes
  <2>2. gpios[q].watch \in Nat BY <2>1 DEF IoTypes, GpioTypes, PinNodes, Held
  <2>3. nextWatch \in Nat /\ nextWatch' \in Nat BY FdLoopAssumption DEF IoTypes, FdTypes
  <2> QED BY <2>1, <2>2, <2>3
<1>4. \A q \in Pins : Held(q)' /\ gpios'[q].dir = "out" => gpios'[q].fd = 0 /\ gpios'[q].watch = 0
  <2> SUFFICES ASSUME NEW q \in Pins, Held(q)', q # p, gpios'[q].dir = "out"
               PROVE  gpios'[q].fd = 0 /\ gpios'[q].watch = 0
    OBVIOUS
  <2> QED BY <1>0 DEF IoNodes
<1>5. \A s \in Ports : Opened(s)' => serials'[s].data \in heap' /\ serials'[s].fd \in fds' \cup {0}
  <2> SUFFICES ASSUME NEW s \in Ports, Opened(s)'
               PROVE  serials'[s].data \in heap' /\ serials'[s].fd \in fds' \cup {0}
    OBVIOUS
  <2>1. Opened(s) /\ serials'[s] = serials[s] BY <1>0
  <2>2. serials[s].data \in heap /\ serials[s].fd \in fds \cup {0} BY <2>1 DEF IoNodes
  <2>3. Held(p) /\ gpios[p].fd = serials[s].fd => serials[s].fd = 0 BY <2>1 DEF OwnFds
  <2> QED BY <2>1, <2>2, <2>3
<1>6. IoNodes' BY <1>1, <1>2, <1>3, <1>4, <1>5 DEF IoNodes
<1>7. \A q \in Pins : Held(q)' /\ q # p => gpios'[q].data # gpios'[p].data
                                         /\ (gpios'[q].fd = gpios'[p].fd => gpios'[q].fd = 0)
  <2> SUFFICES ASSUME NEW q \in Pins, Held(q)', q # p
               PROVE  gpios'[q].data # gpios'[p].data
                      /\ (gpios'[q].fd = gpios'[p].fd => gpios'[q].fd = 0)
    OBVIOUS
  <2>1. Held(q) /\ gpios'[q] = gpios[q] BY <1>0
  <2>2. gpios[q].data \in heap /\ gpios[q].fd \in fds \cup {0} BY <2>1 DEF IoNodes
  <2>3. Held(p) => gpios[q].data # gpios[p].data BY <2>1 DEF OwnBlocks
  <2> QED BY <2>1, <2>2, <2>3
<1>8. \A s \in Ports : Opened(s)' => gpios'[p].data # serials'[s].data
                                     /\ (gpios'[p].fd = serials'[s].fd => gpios'[p].fd = 0)
  <2> SUFFICES ASSUME NEW s \in Ports, Opened(s)'
               PROVE  gpios'[p].data # serials'[s].data
                      /\ (gpios'[p].fd = serials'[s].fd => gpios'[p].fd = 0)
    OBVIOUS
  <2>1. Opened(s) /\ serials'[s] = serials[s] BY <1>0
  <2>2. serials[s].data \in heap /\ serials[s].fd \in fds \cup {0} BY <2>1 DEF IoNodes
  <2>3. Held(p) => gpios[p].data # serials[s].data BY <2>1 DEF OwnBlocks
  <2> QED BY <2>1, <2>2, <2>3
<1>9. OwnBlocks'
  <2>1. ASSUME NEW q \in Pins, NEW r \in Pins, Held(q)', Held(r)', gpios'[q].data = gpios'[r].data
        PROVE  q = r
    BY <2>1, <1>0, <1>7 DEF OwnBlocks
  <2>2. ASSUME NEW q \in Pins, NEW s \in Ports, Held(q)', Opened(s)'
        PROVE  gpios'[q].data # serials'[s].data
    BY <2>2, <1>0, <1>8 DEF OwnBlocks
  <2>3. ASSUME NEW s \in Ports, NEW t \in Ports, Opened(s)', Opened(t)', serials'[s].data = serials'[t].data
        PROVE  s = t
    BY <2>3, <1>0 DEF OwnBlocks
  <2> QED BY <2>1, <2>2, <2>3 DEF OwnBlocks
<1>10. OwnFds'
  <2>1. ASSUME NEW q \in Pins, NEW r \in Pins, Held(q)', Held(r)', gpios'[q].fd = gpios'[r].fd
        PROVE  q = r \/ gpios'[q].fd = 0
    BY <2>1, <1>0, <1>7 DEF OwnFds
  <2>2. ASSUME NEW q \in Pins, NEW s \in Ports, Held(q)', Opened(s)', gpios'[q].fd = serials'[s].fd
        PROVE  gpios'[q].fd = 0
    BY <2>2, <1>0, <1>8 DEF OwnFds
  <2>3. ASSUME NEW s \in Ports, NEW t \in Ports, Opened(s)', Opened(t)', serials'[s].fd = serials'[t].fd
        PROVE  s = t \/ serials'[s].fd = 0
    BY <2>3, <1>0 DEF OwnFds
  <2> QED BY <2>1, <2>2, <2>3 DEF OwnFds
<1> QED BY <1>6, <1>9, <1>10

\* The same of a port's node.
LEMMA PortKept ==
  ASSUME IoTypes, IoTypes', IoHolds, NEW s \in Ports, UNCHANGED gpios,
         \A t \in Ports : t # s => serials'[t] = serials[t],
         Opened(s)',
         \/ Opened(s) /\ serials'[s].data = serials[s].data /\ heap' = heap
         \/ serials'[s].data \notin heap /\ heap' = heap \cup {serials'[s].data},
         \/ Opened(s) /\ serials'[s].fd \in {0, serials[s].fd} /\ fds' = fds
         \/ serials'[s].fd \in fds' \ fds /\ fds \subseteq fds',
         nextWatch <= nextWatch'
  PROVE  IoNodes' /\ OwnBlocks' /\ OwnFds'
<1> USE DEF IoHolds
<1>0. /\ \A t \in Ports : t # s => (Opened(t)' <=> Opened(t))
      /\ \A p \in Pins : (Held(p)' <=> Held(p)) /\ gpios'[p] = gpios[p]
      /\ heap \subseteq heap' /\ fds \subseteq fds'
  BY DEF Held, Opened
<1>1. \A p \in Pins : Held(p)' =>
        /\ gpios'[p].data \in heap' /\ gpios'[p].fd \in fds' \cup {0}
        /\ gpios'[p].dir = "out" => gpios'[p].fd = 0 /\ gpios'[p].watch = 0
  BY <1>0 DEF IoNodes
<1>2. \A p \in Pins : Held(p)' => gpios'[p].watch < nextWatch'
  <2> SUFFICES ASSUME NEW p \in Pins, Held(p)' PROVE gpios'[p].watch < nextWatch'
    OBVIOUS
  <2>1. Held(p) /\ gpios'[p] = gpios[p] /\ gpios[p].watch < nextWatch BY <1>0 DEF IoNodes
  <2>2. gpios[p].watch \in Nat BY <2>1 DEF IoTypes, GpioTypes, PinNodes, Held
  <2>3. nextWatch \in Nat /\ nextWatch' \in Nat BY FdLoopAssumption DEF IoTypes, FdTypes
  <2> QED BY <2>1, <2>2, <2>3
<1>3. \A t \in Ports : Opened(t)' => serials'[t].data \in heap' /\ serials'[t].fd \in fds' \cup {0}
  <2> SUFFICES ASSUME NEW t \in Ports, Opened(t)'
               PROVE  serials'[t].data \in heap' /\ serials'[t].fd \in fds' \cup {0}
    OBVIOUS
  <2>1. CASE t # s BY <1>0, <2>1 DEF IoNodes
  <2>2. CASE t = s /\ Opened(s)
    <3>1. serials[s].data \in heap /\ serials[s].fd \in fds \cup {0} BY <2>2 DEF IoNodes
    <3> QED BY <2>2, <3>1
  <2>3. CASE t = s /\ ~Opened(s) BY <2>3
  <2> QED BY <2>1, <2>2, <2>3
<1>4. IoNodes' BY <1>1, <1>2, <1>3 DEF IoNodes
<1>5. \A t \in Ports : Opened(t)' /\ t # s =>
        /\ serials'[t].data # serials'[s].data
        /\ serials'[t].fd = serials'[s].fd => serials'[t].fd = 0
  <2> SUFFICES ASSUME NEW t \in Ports, Opened(t)', t # s
               PROVE  /\ serials'[t].data # serials'[s].data
                      /\ serials'[t].fd = serials'[s].fd => serials'[t].fd = 0
    OBVIOUS
  <2>1. Opened(t) /\ serials'[t] = serials[t] BY <1>0
  <2>2. serials[t].data \in heap /\ serials[t].fd \in fds \cup {0} BY <2>1 DEF IoNodes
  <2>3. Opened(s) => serials[t].data # serials[s].data BY <2>1 DEF OwnBlocks
  <2>4. Opened(s) /\ serials[t].fd = serials[s].fd => serials[t].fd = 0 BY <2>1 DEF OwnFds
  <2>5. serials'[t].data # serials'[s].data BY <2>1, <2>2, <2>3
  <2>6. ASSUME serials'[t].fd = serials'[s].fd PROVE serials'[t].fd = 0
    <3>1. CASE Opened(s) /\ serials'[s].fd \in {0, serials[s].fd} BY <2>1, <2>4, <2>6, <3>1
    <3>2. CASE serials'[s].fd \in fds' \ fds BY <2>1, <2>2, <2>6, <3>2
    <3> QED BY <3>1, <3>2
  <2> QED BY <2>5, <2>6
<1>6. \A p \in Pins : Held(p)' => gpios'[p].data # serials'[s].data
                                  /\ (gpios'[p].fd = serials'[s].fd => gpios'[p].fd = 0)
  <2> SUFFICES ASSUME NEW p \in Pins, Held(p)'
               PROVE  gpios'[p].data # serials'[s].data
                      /\ (gpios'[p].fd = serials'[s].fd => gpios'[p].fd = 0)
    OBVIOUS
  <2>1. Held(p) /\ gpios'[p] = gpios[p] BY <1>0
  <2>2. gpios[p].data \in heap /\ gpios[p].fd \in fds \cup {0} BY <2>1 DEF IoNodes
  <2>3. Opened(s) => gpios[p].data # serials[s].data BY <2>1 DEF OwnBlocks
  <2>4. Opened(s) /\ gpios[p].fd = serials[s].fd => gpios[p].fd = 0 BY <2>1 DEF OwnFds
  <2>5. gpios'[p].data # serials'[s].data BY <2>1, <2>2, <2>3
  <2>6. ASSUME gpios'[p].fd = serials'[s].fd PROVE gpios'[p].fd = 0
    <3>1. CASE Opened(s) /\ serials'[s].fd \in {0, serials[s].fd} BY <2>1, <2>4, <2>6, <3>1
    <3>2. CASE serials'[s].fd \in fds' \ fds BY <2>1, <2>2, <2>6, <3>2
    <3> QED BY <3>1, <3>2
  <2> QED BY <2>5, <2>6
<1>7. OwnBlocks'
  <2>1. ASSUME NEW t \in Ports, NEW u \in Ports, Opened(t)', Opened(u)', serials'[t].data = serials'[u].data
        PROVE  t = u
    BY <2>1, <1>0, <1>5 DEF OwnBlocks
  <2>2. ASSUME NEW p \in Pins, NEW t \in Ports, Held(p)', Opened(t)'
        PROVE  gpios'[p].data # serials'[t].data
    BY <2>2, <1>0, <1>6 DEF OwnBlocks
  <2>3. ASSUME NEW p \in Pins, NEW q \in Pins, Held(p)', Held(q)', gpios'[p].data = gpios'[q].data
        PROVE  p = q
    BY <2>3, <1>0 DEF OwnBlocks
  <2> QED BY <2>1, <2>2, <2>3 DEF OwnBlocks
<1>8. OwnFds'
  <2>1. ASSUME NEW t \in Ports, NEW u \in Ports, Opened(t)', Opened(u)', serials'[t].fd = serials'[u].fd
        PROVE  t = u \/ serials'[t].fd = 0
    BY <2>1, <1>0, <1>5 DEF OwnFds
  <2>2. ASSUME NEW p \in Pins, NEW t \in Ports, Held(p)', Opened(t)', gpios'[p].fd = serials'[t].fd
        PROVE  gpios'[p].fd = 0
    BY <2>2, <1>0, <1>6 DEF OwnFds
  <2>3. ASSUME NEW p \in Pins, NEW q \in Pins, Held(p)', Held(q)', gpios'[p].fd = gpios'[q].fd
        PROVE  p = q \/ gpios'[p].fd = 0
    BY <2>3, <1>0 DEF OwnFds
  <2> QED BY <2>1, <2>2, <2>3 DEF OwnFds
<1> QED BY <1>4, <1>7, <1>8

\* A pin leaves the list with its block, a port with its descriptor too.
LEMMA PinGone ==
  ASSUME IoTypes, IoHolds, NEW p \in Pins, Held(p), UNCHANGED <<serials, fds, nextWatch>>,
         \A q \in Pins : q # p => gpios'[q] = gpios[q],
         gpios'[p] = NoPin, heap' = heap \ {gpios[p].data}
  PROVE  IoNodes' /\ OwnBlocks' /\ OwnFds'
<1> USE DEF IoHolds
<1>0. /\ \A q \in Pins : Held(q)' => q # p /\ Held(q) /\ gpios'[q] = gpios[q]
      /\ \A s \in Ports : (Opened(s)' <=> Opened(s)) /\ serials'[s] = serials[s]
  BY DEF Held, Opened
<1>1. ASSUME NEW q \in Pins, Held(q)' PROVE gpios'[q].data \in heap'
  BY <1>0, <1>1 DEF IoNodes, OwnBlocks
<1>2. ASSUME NEW s \in Ports, Opened(s)' PROVE serials'[s].data \in heap'
  BY <1>0, <1>2 DEF IoNodes, OwnBlocks
<1>3. IoNodes' BY <1>0, <1>1, <1>2 DEF IoNodes
<1>4. OwnBlocks' BY <1>0 DEF OwnBlocks
<1>5. OwnFds' BY <1>0 DEF OwnFds
<1> QED BY <1>3, <1>4, <1>5

LEMMA PortGone ==
  ASSUME IoTypes, IoHolds, NEW s \in Ports, Opened(s), UNCHANGED <<gpios, nextWatch>>,
         \A t \in Ports : t # s => serials'[t] = serials[t],
         serials'[s] = NoPort, heap' = heap \ {serials[s].data}, fds' = fds \ {serials[s].fd}
  PROVE  IoNodes' /\ OwnBlocks' /\ OwnFds'
<1> USE DEF IoHolds
<1>0. /\ \A t \in Ports : Opened(t)' => t # s /\ Opened(t) /\ serials'[t] = serials[t]
      /\ \A p \in Pins : (Held(p)' <=> Held(p)) /\ gpios'[p] = gpios[p]
  BY DEF Held, Opened
<1>1. ASSUME NEW q \in Pins, Held(q)' PROVE gpios'[q].data \in heap' /\ gpios'[q].fd \in fds' \cup {0}
  BY <1>0, <1>1 DEF IoNodes, OwnBlocks, OwnFds
<1>2. ASSUME NEW t \in Ports, Opened(t)' PROVE serials'[t].data \in heap' /\ serials'[t].fd \in fds' \cup {0}
  BY <1>0, <1>2 DEF IoNodes, OwnBlocks, OwnFds
<1>3. IoNodes' BY <1>0, <1>1, <1>2 DEF IoNodes
<1>4. OwnBlocks' BY <1>0 DEF OwnBlocks
<1>5. OwnFds' BY <1>0 DEF OwnFds
<1> QED BY <1>3, <1>4, <1>5

\* A step that leaves the nodes alone, but for the rdfs of a port.
LEMMA NodesKept ==
  ASSUME IoTypes, IoHolds, UNCHANGED <<gpios, fds, heap, nextWatch>>,
         \A s \in Ports : /\ Opened(s)' <=> Opened(s)
                          /\ serials'[s].data = serials[s].data /\ serials'[s].fd = serials[s].fd
  PROVE  IoNodes' /\ OwnBlocks' /\ OwnFds'
<1>0. \A p \in Pins : (Held(p)' <=> Held(p)) /\ gpios'[p] = gpios[p]
  BY DEF Held
<1>1. IoNodes' BY <1>0 DEF IoNodes, IoHolds
<1>2. OwnBlocks' BY <1>0 DEF OwnBlocks, IoHolds
<1>3. OwnFds' BY <1>0 DEF OwnFds, IoHolds
<1> QED BY <1>1, <1>2, <1>3

\* The references to the loop: kept, one more, one fewer.
LEMMA RefsKept ==
  ASSUME IoTypes, IoTypes', LoopCounted, LoopPins' \subseteq LoopPins, LoopPorts' \subseteq LoopPorts,
         loopRefs <= loopRefs'
  PROVE  LoopCounted'
<1>1. loopRefs \in Nat /\ loopRefs' \in Nat BY FdLoopAssumption DEF IoTypes, FdTypes
<1>2. IsFiniteSet(LoopPins) /\ IsFiniteSet(LoopPorts)
      /\ Cardinality(LoopPins) + Cardinality(LoopPorts) <= loopRefs BY DEF LoopCounted
<1>3. IsFiniteSet(LoopPins') /\ IsFiniteSet(LoopPorts')
      /\ Cardinality(LoopPins') + Cardinality(LoopPorts') <= loopRefs
  BY <1>1, <1>2, CountsDown
<1>4. Cardinality(LoopPins') \in Nat /\ Cardinality(LoopPorts') \in Nat
  BY <1>3, FS_CardinalityType
<1>5. Cardinality(LoopPins') + Cardinality(LoopPorts') <= loopRefs'
  BY <1>1, <1>3, <1>4
<1> QED BY <1>3, <1>5 DEF LoopCounted

LEMMA PinRefd ==
  ASSUME IoTypes, LoopCounted, NEW p \in Pins, LoopPins' \subseteq LoopPins \cup {p},
         LoopPorts' = LoopPorts, loopRefs' = loopRefs + 1
  PROVE  LoopCounted'
<1>1. loopRefs \in Nat BY FdLoopAssumption DEF IoTypes, FdTypes
<1>2. IsFiniteSet(LoopPins) /\ IsFiniteSet(LoopPorts)
      /\ Cardinality(LoopPins) + Cardinality(LoopPorts) <= loopRefs BY DEF LoopCounted
<1>3. IsFiniteSet(LoopPins') /\ Cardinality(LoopPins') + Cardinality(LoopPorts) <= loopRefs + 1
  BY <1>1, <1>2, CountsUp
<1> QED BY <1>2, <1>3 DEF LoopCounted

LEMMA PortRefd ==
  ASSUME IoTypes, LoopCounted, NEW s \in Ports, LoopPorts' \subseteq LoopPorts \cup {s},
         LoopPins' = LoopPins, loopRefs' = loopRefs + 1
  PROVE  LoopCounted'
<1>1. loopRefs \in Nat BY FdLoopAssumption DEF IoTypes, FdTypes
<1>2. IsFiniteSet(LoopPins) /\ IsFiniteSet(LoopPorts)
      /\ Cardinality(LoopPins) + Cardinality(LoopPorts) <= loopRefs BY DEF LoopCounted
<1>3. Cardinality(LoopPins) \in Nat /\ Cardinality(LoopPorts) \in Nat BY <1>2, FS_CardinalityType
<1>4. Cardinality(LoopPorts) + Cardinality(LoopPins) <= loopRefs BY <1>1, <1>2, <1>3
<1>5. IsFiniteSet(LoopPorts') /\ Cardinality(LoopPins) + Cardinality(LoopPorts') <= loopRefs + 1
  BY <1>1, <1>2, <1>4, CountsUp
<1> QED BY <1>2, <1>5 DEF LoopCounted

LEMMA PinUnrefd ==
  ASSUME IoTypes, LoopCounted, NEW p \in LoopPins, LoopPins' \subseteq LoopPins \ {p},
         LoopPorts' = LoopPorts, loopRefs' = loopRefs - 1
  PROVE  LoopCounted'
<1>1. loopRefs \in Nat BY FdLoopAssumption DEF IoTypes, FdTypes
<1>2. IsFiniteSet(LoopPins) /\ IsFiniteSet(LoopPorts)
      /\ Cardinality(LoopPins) + Cardinality(LoopPorts) <= loopRefs BY DEF LoopCounted
<1>3. IsFiniteSet(LoopPins') /\ Cardinality(LoopPins') + Cardinality(LoopPorts) <= loopRefs - 1
  BY <1>1, <1>2, CountsOff
<1> QED BY <1>2, <1>3 DEF LoopCounted

\* Watches after a step on one pin, on one port, on none.
LEMMA PinWatches ==
  ASSUME OwnWatches, NEW p \in Pins, UNCHANGED serials, misused => misused',
         \A q \in Pins : q # p => gpios'[q] = gpios[q],
         ~misused' => \A w \in watches' : (w \in watches /\ ~PinWatch(w, p)) \/ PinWatch(w, p)'
  PROVE  OwnWatches'
<1> SUFFICES ASSUME ~misused', NEW w \in watches'
             PROVE  (\E q \in Pins : PinWatch(w, q)') \/ (\E s \in Ports : PortWatch(w, s)')
  BY DEF OwnWatches
<1>1. CASE PinWatch(w, p)' BY <1>1
<1>2. CASE w \in watches /\ ~PinWatch(w, p)
  <2>1. (\E q \in Pins : PinWatch(w, q)) \/ (\E s \in Ports : PortWatch(w, s))
    BY <1>2 DEF OwnWatches
  <2>2. ASSUME NEW q \in Pins, PinWatch(w, q) PROVE PinWatch(w, q)'
    <3>1. q # p BY <1>2, <2>2
    <3>2. gpios'[q] = gpios[q] BY <3>1
    <3> QED BY <2>2, <3>2, Zenon DEF PinWatch, Held
  <2>3. ASSUME NEW s \in Ports, PortWatch(w, s) PROVE PortWatch(w, s)'
    BY <2>3, Zenon DEF PortWatch, Opened
  <2> QED BY <2>1, <2>2, <2>3, Zenon
<1> QED BY <1>1, <1>2, Zenon

LEMMA PortWatches ==
  ASSUME OwnWatches, NEW s \in Ports, UNCHANGED gpios, misused => misused',
         \A t \in Ports : t # s => serials'[t] = serials[t],
         ~misused' => \A w \in watches' : (w \in watches /\ ~PortWatch(w, s)) \/ PortWatch(w, s)'
  PROVE  OwnWatches'
<1> SUFFICES ASSUME ~misused', NEW w \in watches'
             PROVE  (\E q \in Pins : PinWatch(w, q)') \/ (\E t \in Ports : PortWatch(w, t)')
  BY DEF OwnWatches
<1>1. CASE PortWatch(w, s)' BY <1>1
<1>2. CASE w \in watches /\ ~PortWatch(w, s)
  <2>1. (\E q \in Pins : PinWatch(w, q)) \/ (\E t \in Ports : PortWatch(w, t))
    BY <1>2 DEF OwnWatches
  <2>2. ASSUME NEW q \in Pins, PinWatch(w, q) PROVE PinWatch(w, q)'
    BY <2>2, Zenon DEF PinWatch, Held
  <2>3. ASSUME NEW t \in Ports, PortWatch(w, t) PROVE PortWatch(w, t)'
    <3>1. t # s BY <1>2, <2>3
    <3>2. serials'[t] = serials[t] BY <3>1
    <3> QED BY <2>3, <3>2, Zenon DEF PortWatch, Opened
  <2> QED BY <2>1, <2>2, <2>3, Zenon
<1> QED BY <1>1, <1>2, Zenon

LEMMA WatchesKept ==
  ASSUME OwnWatches, UNCHANGED <<gpios, serials, misused>>, watches' \subseteq watches
  PROVE  OwnWatches'
<1> SUFFICES ASSUME ~misused', NEW w \in watches'
             PROVE  (\E q \in Pins : PinWatch(w, q)') \/ (\E t \in Ports : PortWatch(w, t)')
  BY DEF OwnWatches
<1>1. (\E q \in Pins : PinWatch(w, q)) \/ (\E t \in Ports : PortWatch(w, t))
  BY DEF OwnWatches
<1>2. ASSUME NEW q \in Pins, PinWatch(w, q) PROVE PinWatch(w, q)'
  BY <1>2, Zenon DEF PinWatch, Held
<1>3. ASSUME NEW t \in Ports, PortWatch(w, t) PROVE PortWatch(w, t)'
  BY <1>3, Zenon DEF PortWatch, Opened
<1> QED BY <1>1, <1>2, <1>3, Zenon

\* What a step of one driver leaves to the other.
LEMMA GpioFrame ==
  ASSUME SerialTypes, InPort, NoIoFault, UNCHANGED serialVars, fault' = fault, misused => misused'
  PROVE  SerialTypes' /\ InPort' /\ NoIoFault'
<1>1. serials' = serials /\ rx' = rx /\ inCallback' = inCallback BY DEF serialVars
<1>2. SerialTypes' BY <1>1, Zenon DEF SerialTypes
<1>3. NoIoFault' BY Zenon DEF NoIoFault
<1>4. InPort'
  <2> SUFFICES ASSUME ~misused', inCallback # 0
               PROVE  \E s \in Ports : Opened(s) /\ serials[s].data = inCallback /\ serials[s].callback
    BY <1>1, Zenon DEF InPort, Opened
  <2> QED BY Zenon DEF InPort
<1> QED BY <1>2, <1>3, <1>4

LEMMA SerialFrame ==
  ASSUME GpioTypes, IoNodes, ListedIsExported, IdlePins, NoEdgeLost, FdTypes, UNCHANGED gpioVars,
         misused => misused', \A w \in watches' : w \in watches \/ w.id = nextWatch
  PROVE  GpioTypes' /\ ListedIsExported' /\ IdlePins' /\ NoEdgeLost'
<1>1. gpios' = gpios /\ exported' = exported /\ level' = level /\ pending' = pending /\ seen' = seen
  BY DEF gpioVars
<1>2. GpioTypes' BY <1>1, Zenon DEF GpioTypes
<1>3. ListedIsExported' BY <1>1, Zenon DEF ListedIsExported, Held
<1>4. IdlePins' BY <1>1, Zenon DEF IdlePins, Held
<1>5. NoEdgeLost'
  <2> SUFFICES ASSUME NEW p \in Pins, ~misused', Held(p), NEW w \in watches', w.id = gpios[p].watch
               PROVE  pending[p] \/ seen[p] = level[p]
    BY <1>1, Zenon DEF NoEdgeLost, Held
  <2>1. gpios[p].watch < nextWatch BY DEF IoNodes
  <2>2. gpios[p].watch \in Nat BY DEF GpioTypes, PinNodes, Held
  <2>3. nextWatch \in Nat BY FdLoopAssumption DEF FdTypes
  <2>4. w \in watches BY <2>1, <2>2, <2>3
  <2> QED BY <2>4, Zenon DEF NoEdgeLost
<1> QED BY <1>2, <1>3, <1>4, <1>5

\* What a step on one pin leaves to the others.
LEMMA EdgesElsewhere ==
  ASSUME GpioTypes, IoNodes, NoEdgeLost, FdTypes, NEW p \in Pins, misused => misused',
         \A q \in Pins : q # p => /\ gpios'[q] = gpios[q] /\ pending'[q] = pending[q]
                                  /\ seen'[q] = seen[q] /\ level'[q] = level[q],
         \A w \in watches' : w \in watches \/ w.id = nextWatch,
         (~misused' /\ Held(p)' /\ \E w \in watches' : w.id = gpios'[p].watch)
           => pending'[p] \/ seen'[p] = level'[p]
  PROVE  NoEdgeLost'
<1> SUFFICES ASSUME NEW q \in Pins, ~misused', Held(q)', NEW w \in watches', w.id = gpios'[q].watch
             PROVE  pending'[q] \/ seen'[q] = level'[q]
  BY Zenon DEF NoEdgeLost
<1>1. CASE q = p BY <1>1, Zenon
<1>2. CASE q # p
  <2>0. gpios'[q] = gpios[q] /\ pending'[q] = pending[q] /\ seen'[q] = seen[q] /\ level'[q] = level[q]
    BY <1>2
  <2>1. Held(q) BY <2>0 DEF Held
  <2>2. gpios[q].watch < nextWatch BY <2>1 DEF IoNodes
  <2>3. gpios[q].watch \in Nat BY <2>1 DEF GpioTypes, PinNodes, Held
  <2>4. nextWatch \in Nat BY FdLoopAssumption DEF FdTypes
  <2>5. w \in watches /\ w.id = gpios[q].watch BY <2>0, <2>2, <2>3, <2>4
  <2>6. pending[q] \/ seen[q] = level[q] BY <2>1, <2>5, Zenon DEF NoEdgeLost
  <2> QED BY <2>0, <2>6, Zenon
<1> QED BY <1>1, <1>2, Zenon

LEMMA IdleElsewhere ==
  ASSUME IdlePins, NEW p \in Pins, misused => misused',
         \A q \in Pins : q # p => gpios'[q] = gpios[q],
         ~misused' /\ Held(p)' /\ gpios'[p].fd = 0 => gpios'[p].watch = 0 /\ ~gpios'[p].loop
  PROVE  IdlePins'
<1> SUFFICES ASSUME ~misused', NEW q \in Pins, Held(q)', gpios'[q].fd = 0
             PROVE  gpios'[q].watch = 0 /\ ~gpios'[q].loop
  BY Zenon DEF IdlePins
<1>1. CASE q = p BY <1>1, Zenon
<1>2. CASE q # p
  <2>1. gpios'[q] = gpios[q] BY <1>2
  <2>2. Held(q) /\ gpios[q].fd = 0 BY <2>1 DEF Held
  <2>3. gpios[q].watch = 0 /\ ~gpios[q].loop BY <2>2, Zenon DEF IdlePins
  <2> QED BY <2>1, <2>3, Zenon
<1> QED BY <1>1, <1>2, Zenon

-----------------------------------------------------------------------------
\* A request of a pin: everything it takes is new, or nothing is taken.
LEMMA GpioRequestKeeps ==
  ASSUME IoInv, ~fault, NEW p \in Pins, NEW dir \in {"in", "out"}, NEW v \in {0, 1},
         artik_gpio_request(p, dir, v), UNCHANGED serialVars
  PROVE  IoInv'
<1>0. /\ IoTypes /\ FdTypes /\ GpioTypes /\ SerialTypes /\ IoHolds /\ IoNodes /\ LoopCounted
      /\ ListedIsExported /\ OwnWatches /\ IdlePins /\ NoEdgeLost /\ InPort /\ NoIoFault
  BY DEF IoInv, IoTypes, IoHolds
<1>1. /\ ~Held(p)
      /\ os_gpio_request(p, dir, v) \/ os_gpio_request_fails(p)
      /\ pending' = pending /\ seen' = seen /\ fds' = fds /\ watches' = watches
      /\ nextWatch' = nextWatch /\ loopRefs' = loopRefs /\ fault' = fault /\ misused' = misused
      /\ serials' = serials
  BY DEF artik_gpio_request, serialVars
<1>2. exported \in [Pins -> Owners] /\ level \in [Pins -> {0, 1}]
      /\ gpios \in [Pins -> PinNodes \cup {NoPin}]
  BY <1>0 DEF GpioTypes
<1>3. SerialTypes' /\ InPort' /\ NoIoFault' BY <1>0, <1>1, GpioFrame
<1>4. LoopPorts' = LoopPorts BY <1>1 DEF LoopPorts, Opened
<1>5. CASE os_gpio_request(p, dir, v)
  <2>1. PICK x : x = [dir |-> dir, data |-> NewBlock, fd |-> 0, watch |-> 0, loop |-> FALSE] OBVIOUS
  <2>2. /\ exported[p] = "nobody" /\ exported' = [exported EXCEPT ![p] = "us"]
        /\ level' = IF dir = "out" THEN [level EXCEPT ![p] = v] ELSE level
        /\ gpios' = [gpios EXCEPT ![p] = x] /\ heap' = heap \cup {NewBlock}
    BY <1>5, <2>1 DEF os_gpio_request
  <2>3. NewBlock \in Nat /\ NewBlock \notin heap BY <1>0, NewBlockIs
  <2>4. /\ x \in PinNodes /\ x.dir = dir /\ x.data = NewBlock /\ x.fd = 0 /\ x.watch = 0
        /\ x.loop = FALSE
    BY <2>1, <2>3 DEF PinNodes
  <2>5. gpios'[p] = x /\ (\A q \in Pins : q # p => gpios'[q] = gpios[q])
    BY <1>2, <2>2
  <2>6. Held(p)' BY <2>4, <2>5, GpioAssumption DEF Held
  <2>7. IoTypes'
    <3>1. heap' \subseteq Nat /\ IsFiniteSet(heap')
      BY <1>0, <2>2, <2>3, FS_AddElement DEF FdTypes
    <3>2. FdTypes' BY <1>0, <1>1, <3>1, Zenon DEF FdTypes
    <3>3. gpios' \in [Pins -> PinNodes \cup {NoPin}] BY <1>2, <2>2, <2>4
    <3>4. exported' \in [Pins -> Owners] BY <1>2, <2>2 DEF Owners
    <3>5. level' \in [Pins -> {0, 1}] BY <1>2, <2>2
    <3>6. GpioTypes' BY <1>0, <1>1, <3>3, <3>4, <3>5, Zenon DEF GpioTypes
    <3> QED BY <1>3, <3>2, <3>6 DEF IoTypes
  <2>8. nextWatch \in Nat /\ 0 < nextWatch BY <1>0, FdLoopAssumption DEF FdTypes
  <2>9. IoNodes' /\ OwnBlocks' /\ OwnFds'
    <3>1. gpios'[p].data \notin heap /\ heap' = heap \cup {gpios'[p].data} BY <2>2, <2>3, <2>4, <2>5
    <3>2. gpios'[p].fd = 0 /\ gpios'[p].watch < nextWatch' /\ nextWatch <= nextWatch'
          /\ gpios'[p].watch = 0
      BY <1>1, <2>4, <2>5, <2>8
    <3>3. \A f \in fds : f \in fds' BY <1>1
    <3> QED BY <1>0, <1>1, <2>5, <2>6, <2>7, <3>1, <3>2, <3>3, PinKept
  <2>10. LoopPins' \subseteq LoopPins
    <3> SUFFICES ASSUME NEW q \in Pins, Held(q)', gpios'[q].loop PROVE Held(q) /\ gpios[q].loop
      BY DEF LoopPins
    <3>1. q # p BY <2>4, <2>5, Zenon
    <3> QED BY <2>5, <3>1, Zenon DEF Held
  <2>11. LoopCounted'
    <3>1. loopRefs <= loopRefs' BY <1>0, <1>1, FdLoopAssumption DEF FdTypes
    <3> QED BY <1>0, <1>4, <2>7, <2>10, <3>1, RefsKept
  <2>12. ListedIsExported'
    <3>1. exported'[p] = "us" /\ \A q \in Pins : q # p => exported'[q] = exported[q] BY <1>2, <2>2
    <3> QED BY <1>0, <2>5, <2>6, <3>1 DEF ListedIsExported, Held
  <2>13. OwnWatches'
    <3>1. \A w \in watches : ~PinWatch(w, p) BY <1>1 DEF PinWatch
    <3> QED BY <1>0, <1>1, <2>5, <3>1, PinWatches
  <2>14. IdlePins'
    <3>1. gpios'[p].watch = 0 /\ ~gpios'[p].loop BY <2>4, <2>5, Zenon
    <3> QED BY <1>0, <1>1, <2>5, <3>1, IdleElsewhere
  <2>15. NoEdgeLost'
    <3>1. \A w \in watches' : w.id # gpios'[p].watch BY <1>0, <1>1, <2>4, <2>5 DEF FdTypes
    <3>2. \A q \in Pins : q # p => /\ gpios'[q] = gpios[q] /\ pending'[q] = pending[q]
                                   /\ seen'[q] = seen[q] /\ level'[q] = level[q]
      BY <1>1, <1>2, <2>2, <2>5
    <3>3. \A w \in watches' : w \in watches \/ w.id = nextWatch BY <1>1
    <3> QED BY <1>0, <1>1, <3>1, <3>2, <3>3, EdgesElsewhere
  <2> QED BY <1>3, <2>7, <2>9, <2>11, <2>12, <2>13, <2>14, <2>15 DEF IoInv, IoHolds
<1>6. CASE os_gpio_request_fails(p)
  <2>1. /\ exported' = [exported EXCEPT ![p] = IF @ = "driver" THEN @ ELSE "nobody"]
        /\ level' = level /\ gpios' = gpios /\ heap' = heap
    BY <1>6 DEF os_gpio_request_fails, Unexport
  <2>2. IoTypes'
    <3>1. FdTypes' BY <1>0, <1>1, <2>1, Zenon DEF FdTypes
    <3>2. exported' \in [Pins -> Owners] BY <1>2, <2>1 DEF Owners
    <3>3. GpioTypes' BY <1>0, <1>1, <2>1, <3>2, Zenon DEF GpioTypes
    <3> QED BY <1>3, <3>1, <3>3 DEF IoTypes
  <2>3. IoNodes' /\ OwnBlocks' /\ OwnFds'
    <3>1. \A s \in Ports : /\ Opened(s)' <=> Opened(s)
                           /\ serials'[s].data = serials[s].data /\ serials'[s].fd = serials[s].fd
      BY <1>1 DEF Opened
    <3> QED BY <1>0, <1>1, <2>1, <3>1, NodesKept
  <2>4. LoopCounted'
    <3>1. LoopPins' = LoopPins BY <2>1 DEF LoopPins, Held
    <3>2. loopRefs <= loopRefs' BY <1>0, <1>1, FdLoopAssumption DEF FdTypes
    <3> QED BY <1>0, <1>4, <2>2, <3>1, <3>2, RefsKept
  <2>5. ListedIsExported'
    <3>1. exported'[p] # "us" /\ \A q \in Pins : q # p => exported'[q] = exported[q] BY <1>2, <2>1
    <3> QED BY <1>0, <1>1, <2>1, <3>1 DEF ListedIsExported, Held
  <2>6. OwnWatches' BY <1>0, <1>1, <2>1, WatchesKept
  <2>7. IdlePins' BY <1>0, <1>1, <2>1, Zenon DEF IdlePins, Held
  <2>8. NoEdgeLost' BY <1>0, <1>1, <2>1, Zenon DEF NoEdgeLost, Held
  <2> QED BY <1>3, <2>2, <2>3, <2>4, <2>5, <2>6, <2>7, <2>8 DEF IoInv, IoHolds
<1> QED BY <1>1, <1>5, <1>6

\* A release: without a callback the pin has no watch to leave behind.
LEMMA GpioReleaseKeeps ==
  ASSUME IoInv, ~fault, NEW p \in Pins, artik_gpio_release(p), UNCHANGED serialVars
  PROVE  IoInv'
<1>0. /\ IoTypes /\ FdTypes /\ GpioTypes /\ SerialTypes /\ IoHolds /\ IoNodes /\ LoopCounted
      /\ ListedIsExported /\ OwnWatches /\ IdlePins /\ NoEdgeLost /\ InPort /\ NoIoFault
  BY DEF IoInv, IoTypes, IoHolds
<1>1. /\ Held(p) /\ heap' = heap \ {gpios[p].data} /\ gpios' = [gpios EXCEPT ![p] = NoPin]
      /\ exported' = [exported EXCEPT ![p] = IF @ = "driver" THEN @ ELSE "nobody"]
      /\ level' = level /\ pending' = pending /\ seen' = seen /\ fds' = fds /\ watches' = watches
      /\ nextWatch' = nextWatch /\ loopRefs' = loopRefs /\ fault' = fault /\ serials' = serials
  BY DEF artik_gpio_release, os_gpio_release, Unexport, serialVars
<1>2. /\ misused' = (misused \/ gpios[p].fd # 0)
      /\ misused => misused'
      /\ ~misused' => ~misused /\ gpios[p].fd = 0
  BY Zenon DEF artik_gpio_release
<1>3. SerialTypes' /\ InPort' /\ NoIoFault' BY <1>0, <1>1, <1>2, GpioFrame
<1>4. gpios'[p] = NoPin /\ \A q \in Pins : q # p => gpios'[q] = gpios[q]
  BY <1>0, <1>1 DEF GpioTypes
<1>5. ~Held(p)' BY <1>4 DEF Held
<1>6. IoTypes'
  <2>1. heap' \subseteq Nat /\ IsFiniteSet(heap')
    BY <1>0, <1>1, FS_RemoveElement DEF FdTypes
  <2>2. misused' \in BOOLEAN BY <1>2
  <2>3. FdTypes' BY <1>0, <1>1, <2>1, <2>2, Zenon DEF FdTypes
  <2>4. gpios' \in [Pins -> PinNodes \cup {NoPin}] BY <1>0, <1>1 DEF GpioTypes
  <2>5. exported' \in [Pins -> Owners] BY <1>0, <1>1 DEF Owners, GpioTypes
  <2>6. GpioTypes' BY <1>0, <1>1, <2>4, <2>5, Zenon DEF GpioTypes
  <2> QED BY <1>3, <2>3, <2>6 DEF IoTypes
<1>7. IoNodes' /\ OwnBlocks' /\ OwnFds' BY <1>0, <1>1, <1>4, PinGone
<1>8. LoopCounted'
  <2>1. LoopPorts' \subseteq LoopPorts BY <1>1 DEF LoopPorts, Opened
  <2>2. LoopPins' \subseteq LoopPins
    <3> SUFFICES ASSUME NEW q \in Pins, Held(q)', gpios'[q].loop PROVE Held(q) /\ gpios[q].loop
      BY DEF LoopPins
    <3>1. q # p BY <1>5
    <3> QED BY <1>4, <3>1, Zenon DEF Held
  <2>3. loopRefs <= loopRefs' BY <1>0, <1>1, FdLoopAssumption DEF FdTypes
  <2> QED BY <1>0, <1>6, <2>1, <2>2, <2>3, RefsKept
<1>9. ListedIsExported'
  <2>1. exported'[p] # "us" /\ \A q \in Pins : q # p => exported'[q] = exported[q]
    BY <1>0, <1>1 DEF GpioTypes
  <2> QED BY <1>0, <1>4, <1>5, <2>1 DEF ListedIsExported, Held
<1>10. OwnWatches'
  <2>1. ~misused' => \A w \in watches' : w \in watches /\ ~PinWatch(w, p)
    BY <1>1, <1>2, Zenon DEF PinWatch
  <2> QED BY <1>0, <1>1, <1>2, <1>4, <2>1, PinWatches
<1>11. IdlePins' BY <1>0, <1>2, <1>4, <1>5, IdleElsewhere
<1>12. NoEdgeLost'
  <2>1. \A q \in Pins : q # p => /\ gpios'[q] = gpios[q] /\ pending'[q] = pending[q]
                                 /\ seen'[q] = seen[q] /\ level'[q] = level[q]
    BY <1>1, <1>4
  <2>2. \A w \in watches' : w \in watches \/ w.id = nextWatch BY <1>1
  <2> QED BY <1>0, <1>2, <1>5, <2>1, <2>2, EdgesElsewhere
<1> QED BY <1>3, <1>6, <1>7, <1>8, <1>9, <1>10, <1>11, <1>12 DEF IoInv, IoHolds

\* A step that changes no node: lines, other processes, reads and writes,
\* and a callback, which may end its watch.
LEMMA GpioQuietKeeps ==
  ASSUME IoInv, ~fault, UNCHANGED <<serialVars, gpios>>,
         fds' = fds, nextWatch' = nextWatch, loopRefs' = loopRefs, heap' = heap, fault' = fault,
         misused' = misused, watches' \subseteq watches, GpioTypes', ListedIsExported',
         NEW p \in Pins,
         \A q \in Pins : q # p => /\ pending'[q] = pending[q] /\ seen'[q] = seen[q]
                                  /\ level'[q] = level[q],
         (~misused /\ Held(p) /\ \E w \in watches : w.id = gpios[p].watch)
           => pending'[p] \/ seen'[p] = level'[p]
  PROVE  IoInv'
<1>0. /\ IoTypes /\ FdTypes /\ GpioTypes /\ SerialTypes /\ IoHolds /\ IoNodes /\ LoopCounted
      /\ ListedIsExported /\ OwnWatches /\ IdlePins /\ NoEdgeLost /\ InPort /\ NoIoFault
  BY DEF IoInv, IoTypes, IoHolds
<1>1. gpios' = gpios /\ serials' = serials BY DEF serialVars
<1>2. SerialTypes' /\ InPort' /\ NoIoFault' BY <1>0, GpioFrame
<1>3. IoTypes'
  <2>1. IsFiniteSet(watches') BY <1>0, FS_Subset DEF FdTypes
  <2>2. \A w \in watches' : w \in watches OBVIOUS
  <2>3. FdTypes' BY <1>0, <2>1, <2>2, Zenon DEF FdTypes
  <2> QED BY <1>2, <2>3 DEF IoTypes
<1>4. IoNodes' /\ OwnBlocks' /\ OwnFds'
  <2>1. \A s \in Ports : /\ Opened(s)' <=> Opened(s)
                         /\ serials'[s].data = serials[s].data /\ serials'[s].fd = serials[s].fd
    BY <1>1 DEF Opened
  <2> QED BY <1>0, <1>1, <2>1, NodesKept
<1>5. LoopCounted'
  <2>1. LoopPins' = LoopPins /\ LoopPorts' = LoopPorts BY <1>1 DEF LoopPins, LoopPorts, Held, Opened
  <2>2. loopRefs <= loopRefs' BY <1>0, FdLoopAssumption DEF FdTypes
  <2> QED BY <1>0, <1>3, <2>1, <2>2, RefsKept
<1>6. OwnWatches' BY <1>0, <1>1, WatchesKept
<1>7. IdlePins' BY <1>0, <1>1, Zenon DEF IdlePins, Held
<1>8. NoEdgeLost'
  <2>1. \A q \in Pins : q # p => /\ gpios'[q] = gpios[q] /\ pending'[q] = pending[q]
                                 /\ seen'[q] = seen[q] /\ level'[q] = level[q]
    BY <1>1
  <2>2. \A w \in watches' : w \in watches \/ w.id = nextWatch OBVIOUS
  <2>3. (~misused' /\ Held(p)' /\ \E w \in watches' : w.id = gpios'[p].watch)
           => pending'[p] \/ seen'[p] = level'[p]
    <3> SUFFICES ASSUME ~misused', Held(p)', NEW w \in watches', w.id = gpios'[p].watch
                 PROVE  pending'[p] \/ seen'[p] = level'[p]
      BY Zenon
    <3>1. w \in watches /\ w.id = gpios[p].watch BY <1>1
    <3>2. Held(p) BY <1>1 DEF Held
    <3>3. ~misused BY Zenon
    <3> QED BY <3>1, <3>2, <3>3, Zenon
  <2>4. misused => misused' BY Zenon
  <2> QED BY <1>0, <2>1, <2>2, <2>3, <2>4, EdgesElsewhere
<1> QED BY <1>2, <1>3, <1>4, <1>5, <1>6, <1>7, <1>8 DEF IoInv, IoHolds

LEMMA GpioReadKeeps ==
  ASSUME IoInv, ~fault, NEW p \in Pins, UNCHANGED serialVars,
         artik_gpio_read(p) \/ \E v \in {0, 1} : artik_gpio_write(p, v)
  PROVE  IoInv'
<1>0. FdTypes /\ GpioTypes /\ IoNodes /\ ListedIsExported /\ NoEdgeLost
  BY DEF IoInv, IoTypes, IoHolds
<1>1. /\ fds' = fds /\ watches' = watches /\ nextWatch' = nextWatch /\ loopRefs' = loopRefs
      /\ heap' = heap /\ fault' = fault /\ misused' = misused
      /\ gpios' = gpios /\ exported' = exported /\ pending' = pending
  BY DEF artik_gpio_read, artik_gpio_write, fdVars
<1>2. ListedIsExported' BY <1>0, <1>1, Zenon DEF ListedIsExported, Held
<1>3. CASE artik_gpio_read(p)
  <2>1. level' = level /\ seen' = [seen EXCEPT ![p] = level[p]]
    BY <1>3 DEF artik_gpio_read, os_gpio_read
  <2>2. seen' \in [Pins -> {0, 1}] BY <1>0, <2>1 DEF GpioTypes
  <2>3. GpioTypes' BY <1>0, <1>1, <2>1, <2>2, Zenon DEF GpioTypes
  <2>4. seen'[p] = level'[p] /\ \A q \in Pins : q # p => seen'[q] = seen[q]
    BY <1>0, <2>1 DEF GpioTypes
  <2>5. watches' \subseteq watches BY <1>1
  <2> QED BY <1>1, <1>2, <2>1, <2>3, <2>4, <2>5, GpioQuietKeeps
<1>4. CASE \E v \in {0, 1} : artik_gpio_write(p, v)
  <2>1. PICK v \in {0, 1} : artik_gpio_write(p, v) BY <1>4
  <2>2. Held(p) /\ gpios[p].dir = "out" /\ seen' = seen /\ level' = [level EXCEPT ![p] = v]
    BY <2>1 DEF artik_gpio_write, os_gpio_write
  <2>3. level' \in [Pins -> {0, 1}] BY <1>0, <2>2 DEF GpioTypes
  <2>4. GpioTypes' BY <1>0, <1>1, <2>2, <2>3, Zenon DEF GpioTypes
  <2>5. \A q \in Pins : q # p => level'[q] = level[q] BY <1>0, <2>2 DEF GpioTypes
  <2>6. \A w \in watches : w.id # gpios[p].watch
    BY <1>0, <2>2 DEF FdTypes, IoNodes
  <2>7. watches' \subseteq watches BY <1>1
  <2> QED BY <1>1, <1>2, <2>2, <2>4, <2>5, <2>6, <2>7, GpioQuietKeeps
<1> QED BY <1>3, <1>4

\* An edge finds the descriptor of a pin that has a watch.
LEMMA LineKeeps ==
  ASSUME IoInv, ~fault, NEW p \in Pins, UNCHANGED serialVars,
         LineChanges(p) \/ OtherProcess(p)
  PROVE  IoInv'
<1>0. FdTypes /\ GpioTypes /\ IoNodes /\ ListedIsExported /\ NoEdgeLost /\ IdlePins
  BY DEF IoInv, IoTypes, IoHolds
<1>1. /\ fds' = fds /\ watches' = watches /\ nextWatch' = nextWatch /\ loopRefs' = loopRefs
      /\ heap' = heap /\ fault' = fault /\ misused' = misused /\ gpios' = gpios /\ seen' = seen
  BY DEF LineChanges, OtherProcess, fdVars
<1>2. watches' \subseteq watches BY <1>1
<1>3. CASE LineChanges(p)
  <2>1. /\ exported' = exported /\ level' = [level EXCEPT ![p] = 1 - @]
        /\ pending' = [pending EXCEPT ![p] = @ \/ (Held(p) /\ gpios[p].fd # 0)]
    BY <1>3 DEF LineChanges
  <2>2. level' \in [Pins -> {0, 1}] BY <1>0, <2>1 DEF GpioTypes
  <2>3. pending' \in [Pins -> BOOLEAN]
    <3>1. (pending[p] \/ (Held(p) /\ gpios[p].fd # 0)) \in BOOLEAN OBVIOUS
    <3> QED BY <1>0, <2>1, <3>1 DEF GpioTypes
  <2>4. GpioTypes' BY <1>0, <1>1, <2>1, <2>2, <2>3, Zenon DEF GpioTypes
  <2>5. ListedIsExported' BY <1>0, <1>1, <2>1, Zenon DEF ListedIsExported, Held
  <2>6. \A q \in Pins : q # p => pending'[q] = pending[q] /\ level'[q] = level[q]
    BY <1>0, <2>1 DEF GpioTypes
  <2>7. pending'[p] = (pending[p] \/ (Held(p) /\ gpios[p].fd # 0))
    BY <1>0, <2>1 DEF GpioTypes
  <2>8. ASSUME ~misused, Held(p), NEW w \in watches, w.id = gpios[p].watch PROVE pending'[p]
    <3>1. gpios[p].watch # 0 BY <1>0, <2>8 DEF FdTypes
    <3>2. gpios[p].fd # 0 BY <1>0, <2>8, <3>1, Zenon DEF IdlePins
    <3> QED BY <2>7, <2>8, <3>2, Zenon
  <2>9. (~misused /\ Held(p) /\ \E w \in watches : w.id = gpios[p].watch)
           => pending'[p] \/ seen'[p] = level'[p]
    BY <2>8, Zenon
  <2>10. \A q \in Pins : q # p => /\ pending'[q] = pending[q] /\ seen'[q] = seen[q]
                                  /\ level'[q] = level[q]
    BY <1>1, <2>6
  <2> QED BY <1>1, <1>2, <2>4, <2>5, <2>9, <2>10, GpioQuietKeeps
<1>4. CASE OtherProcess(p)
  <2>1. /\ level' = level /\ pending' = pending
        /\ \/ exported[p] = "nobody" /\ exported' = [exported EXCEPT ![p] = "other"]
           \/ exported[p] = "other" /\ exported' = [exported EXCEPT ![p] = "nobody"]
    BY <1>4 DEF OtherProcess
  <2>2. exported' \in [Pins -> Owners] BY <1>0, <2>1 DEF GpioTypes, Owners
  <2>3. GpioTypes' BY <1>0, <1>1, <2>1, <2>2, Zenon DEF GpioTypes
  <2>4. /\ exported[p] # "us" /\ exported'[p] # "us"
        /\ \A q \in Pins : q # p => exported'[q] = exported[q]
    BY <1>0, <2>1 DEF GpioTypes
  <2>5. ListedIsExported' BY <1>0, <1>1, <2>4 DEF ListedIsExported, Held
  <2>6. (~misused /\ Held(p) /\ \E w \in watches : w.id = gpios[p].watch)
           => pending'[p] \/ seen'[p] = level'[p]
    BY <1>0, <1>1, <2>1, Zenon DEF NoEdgeLost
  <2>7. \A q \in Pins : q # p => /\ pending'[q] = pending[q] /\ seen'[q] = seen[q]
                                 /\ level'[q] = level[q]
    BY <1>1, <2>1
  <2> QED BY <1>1, <1>2, <2>3, <2>5, <2>6, <2>7, GpioQuietKeeps
<1> QED BY <1>3, <1>4

LEMMA GpioCallbackKeeps ==
  ASSUME IoInv, ~fault, NEW p \in Pins, NEW w \in watches, UNCHANGED serialVars,
         os_gpio_change_callback(p, w)
  PROVE  IoInv'
<1>0. FdTypes /\ GpioTypes /\ IoNodes /\ ListedIsExported /\ NoEdgeLost
  BY DEF IoInv, IoTypes, IoHolds
<1>1. /\ fds' = fds /\ nextWatch' = nextWatch /\ loopRefs' = loopRefs /\ heap' = heap
      /\ fault' = fault /\ misused' = misused /\ gpios' = gpios
      /\ exported' = exported /\ level' = level
      /\ \/ /\ seen' = [seen EXCEPT ![p] = level[p]] /\ pending' = [pending EXCEPT ![p] = FALSE]
            /\ watches' = watches
         \/ watches' = watches \ {w} /\ seen' = seen /\ pending' = pending
  BY DEF os_gpio_change_callback
<1>2. watches' \subseteq watches BY <1>1
<1>3. ListedIsExported' BY <1>0, <1>1, Zenon DEF ListedIsExported, Held
<1>4. CASE seen' = [seen EXCEPT ![p] = level[p]] /\ pending' = [pending EXCEPT ![p] = FALSE]
  <2>1. seen' \in [Pins -> {0, 1}] /\ pending' \in [Pins -> BOOLEAN] BY <1>0, <1>4 DEF GpioTypes
  <2>2. GpioTypes' BY <1>0, <1>1, <2>1, Zenon DEF GpioTypes
  <2>3. seen'[p] = level'[p]
        /\ \A q \in Pins : q # p => seen'[q] = seen[q] /\ pending'[q] = pending[q]
    BY <1>0, <1>1, <1>4 DEF GpioTypes
  <2> QED BY <1>1, <1>2, <1>3, <2>2, <2>3, GpioQuietKeeps
<1>5. CASE seen' = seen /\ pending' = pending
  <2>1. GpioTypes' BY <1>0, <1>1, <1>5, Zenon DEF GpioTypes
  <2>2. (~misused /\ Held(p) /\ \E x \in watches : x.id = gpios[p].watch)
           => pending'[p] \/ seen'[p] = level'[p]
    BY <1>0, <1>1, <1>5, Zenon DEF NoEdgeLost
  <2> QED BY <1>1, <1>2, <1>3, <1>5, <2>1, <2>2, GpioQuietKeeps
<1> QED BY <1>1, <1>4, <1>5

\* A callback is set: the descriptor and the watch are new; whichever step
\* fails, a pin that had none has none.
LEMMA GpioSetKeeps ==
  ASSUME IoInv, ~fault, NEW p \in Pins, artik_gpio_set_change_callback(p), UNCHANGED serialVars
  PROVE  IoInv'
<1>0. /\ IoTypes /\ FdTypes /\ GpioTypes /\ SerialTypes /\ IoHolds /\ IoNodes /\ LoopCounted
      /\ ListedIsExported /\ OwnWatches /\ IdlePins /\ NoEdgeLost /\ InPort /\ NoIoFault
  BY DEF IoInv, IoTypes, IoHolds
<1>1. /\ Held(p) /\ gpios[p].dir = "in" /\ CanWatch
      /\ heap' = heap /\ fault' = fault /\ exported' = exported /\ level' = level
      /\ serials' = serials
  BY DEF artik_gpio_set_change_callback, serialVars
<1>2. /\ misused' = (misused \/ gpios[p].fd # 0)
      /\ misused => misused'
      /\ ~misused' => ~misused /\ gpios[p].fd = 0
      /\ misused' \in BOOLEAN
  <2>1. misused' = (misused \/ gpios[p].fd # 0) BY DEF artik_gpio_set_change_callback
  <2> QED BY <2>1
<1>3. SerialTypes' /\ InPort' /\ NoIoFault' BY <1>0, <1>1, <1>2, GpioFrame
<1>4. gpios \in [Pins -> PinNodes \cup {NoPin}] /\ gpios[p] \in PinNodes
      /\ seen \in [Pins -> {0, 1}] /\ pending \in [Pins -> BOOLEAN] /\ level \in [Pins -> {0, 1}]
  BY <1>0, <1>1 DEF GpioTypes, Held
<1>5. LoopPorts' = LoopPorts BY <1>1 DEF LoopPorts, Opened
<1>6. loopRefs \in Nat /\ loopRefs < MaxRefs /\ MaxRefs \in Nat /\ nextWatch \in Nat /\ 1 <= nextWatch
      /\ nextWatch <= MaxWatches /\ MaxWatches \in Nat /\ loopRefs + 1 \in 0..MaxRefs
      /\ nextWatch \in 1..MaxWatches /\ nextWatch + 1 \in 1..(MaxWatches + 1)
  BY <1>0, <1>1, FdLoopAssumption DEF FdTypes, CanWatch
<1>7. CASE os_gpio_set_change_callback(p)
  <2>1. /\ fds' = fds \cup {NewFd}
        /\ gpios' = [gpios EXCEPT ![p].fd = NewFd, ![p].watch = nextWatch, ![p].loop = TRUE]
        /\ watches' = watches \cup {[id |-> nextWatch, fd |-> NewFd, data |-> gpios[p].data]}
        /\ nextWatch' = nextWatch + 1 /\ loopRefs' = loopRefs + 1
        /\ pending' = [pending EXCEPT ![p] = FALSE] /\ seen' = [seen EXCEPT ![p] = level[p]]
    BY <1>7 DEF os_gpio_set_change_callback, AddWatch
  <2>2. NewFd \in 3..(3 + MaxFds) /\ NewFd \notin fds /\ NewFd \in Nat /\ NewFd # 0
    BY <1>0, <1>7, NewFdIs DEF os_gpio_set_change_callback
  <2>3. PICK w : w = [id |-> nextWatch, fd |-> NewFd, data |-> gpios[p].data] OBVIOUS
  <2>4. w.id = nextWatch /\ w.fd = NewFd /\ w.data = gpios[p].data
        /\ watches' = watches \cup {w}
    BY <2>1, <2>3
  <2>5. /\ gpios'[p].fd = NewFd /\ gpios'[p].watch = nextWatch /\ gpios'[p].loop = TRUE
        /\ gpios'[p].data = gpios[p].data /\ gpios'[p].dir = "in"
        /\ \A q \in Pins : q # p => gpios'[q] = gpios[q]
    BY <1>1, <1>4, <2>1 DEF PinNodes
  <2>6. gpios' \in [Pins -> PinNodes \cup {NoPin}] /\ gpios'[p] \in PinNodes
    BY <1>4, <1>6, <2>1, <2>2 DEF PinNodes
  <2>7. Held(p)' BY <2>6, GpioAssumption DEF Held
  <2>8. IoTypes'
    <3>1. fds' \subseteq 3..(3 + MaxFds) BY <1>0, <2>1, <2>2 DEF FdTypes
    <3>2. IsFiniteSet(watches') BY <1>0, <2>4, FS_AddElement DEF FdTypes
    <3>3. gpios[p].data \in Nat BY <1>4 DEF PinNodes
    <3>4. \A x \in watches' : x.id \in 1..MaxWatches /\ x.fd \in Nat /\ x.data \in Nat
      BY <1>0, <1>6, <2>2, <2>4, <3>3 DEF FdTypes
    <3>5. nextWatch' \in 1..(MaxWatches + 1) /\ loopRefs' \in 0..MaxRefs BY <1>6, <2>1
    <3>6. FdTypes' BY <1>0, <1>1, <1>2, <3>1, <3>2, <3>4, <3>5, Zenon DEF FdTypes
    <3>7. seen' \in [Pins -> {0, 1}] /\ pending' \in [Pins -> BOOLEAN] BY <1>4, <2>1
    <3>8. GpioTypes' BY <1>0, <1>1, <2>6, <3>7, Zenon DEF GpioTypes
    <3> QED BY <1>3, <3>6, <3>8 DEF IoTypes
  <2>9. IoNodes' /\ OwnBlocks' /\ OwnFds'
    <3>1. gpios'[p].fd \in fds' \ fds BY <2>1, <2>2, <2>5
    <3>2. gpios'[p].watch < nextWatch' /\ nextWatch <= nextWatch' BY <1>6, <2>1, <2>5
    <3>3. \A f \in fds : f \in fds' BY <2>1
    <3>4. gpios'[p].dir # "out" BY <2>5
    <3> QED BY <1>0, <1>1, <2>5, <2>7, <2>8, <3>1, <3>2, <3>3, <3>4, PinKept
  <2>10. LoopCounted'
    <3>1. LoopPins' \subseteq LoopPins \cup {p}
      <4> SUFFICES ASSUME NEW q \in Pins, Held(q)', gpios'[q].loop, q # p
                   PROVE  Held(q) /\ gpios[q].loop
        BY DEF LoopPins
      <4> QED BY <2>5, Zenon DEF Held
    <3> QED BY <1>0, <1>5, <2>1, <3>1, PinRefd
  <2>11. ListedIsExported'
    <3>1. \A q \in Pins : Held(q)' <=> Held(q) BY <1>1, <2>5, <2>7 DEF Held
    <3> QED BY <1>0, <1>1, <3>1, Zenon DEF ListedIsExported
  <2>12. OwnWatches'
    <3>1. PinWatch(w, p)' BY <2>2, <2>4, <2>5, <2>7, Zenon DEF PinWatch
    <3>2. ~misused' => \A x \in watches : ~PinWatch(x, p) BY <1>2, Zenon DEF PinWatch
    <3>3. ~misused' => \A x \in watches' : (x \in watches /\ ~PinWatch(x, p)) \/ PinWatch(x, p)'
      <4> SUFFICES ASSUME ~misused', NEW x \in watches'
                   PROVE  (x \in watches /\ ~PinWatch(x, p)) \/ PinWatch(x, p)'
        OBVIOUS
      <4>1. x \in watches \/ x = w BY <2>4
      <4> QED BY <3>1, <3>2, <4>1, Zenon
    <3> QED BY <1>0, <1>1, <1>2, <2>5, <3>3, PinWatches
  <2>13. IdlePins'
    <3>1. gpios'[p].fd # 0 BY <2>2, <2>5
    <3> QED BY <1>0, <1>2, <2>5, <3>1, IdleElsewhere
  <2>14. NoEdgeLost'
    <3>1. seen'[p] = level'[p]
          /\ \A q \in Pins : q # p => seen'[q] = seen[q] /\ pending'[q] = pending[q]
      BY <1>1, <1>4, <2>1
    <3>2. \A q \in Pins : q # p => /\ gpios'[q] = gpios[q] /\ pending'[q] = pending[q]
                                   /\ seen'[q] = seen[q] /\ level'[q] = level[q]
      BY <1>1, <2>5, <3>1
    <3>3. \A x \in watches' : x \in watches \/ x.id = nextWatch BY <2>4
    <3> QED BY <1>0, <1>2, <3>1, <3>2, <3>3, EdgesElsewhere
  <2> QED BY <1>3, <2>8, <2>9, <2>10, <2>11, <2>12, <2>13, <2>14 DEF IoInv, IoHolds
<1>8. CASE os_gpio_set_change_callback_fails(p)
  <2>1. /\ loopRefs' \in {loopRefs, IF gpios[p].loop THEN loopRefs - 1 ELSE loopRefs}
        /\ gpios' = [gpios EXCEPT ![p].fd = 0, ![p].loop = FALSE]
        /\ fds' = fds /\ watches' = watches /\ nextWatch' = nextWatch
        /\ pending' = pending /\ seen' = seen
    BY <1>8 DEF os_gpio_set_change_callback_fails
  <2>2. loopRefs' = loopRefs \/ (gpios[p].loop /\ loopRefs' = loopRefs - 1) BY <2>1
  <2>3. /\ gpios'[p].fd = 0 /\ gpios'[p].watch = gpios[p].watch /\ gpios'[p].loop = FALSE
        /\ gpios'[p].data = gpios[p].data /\ gpios'[p].dir = "in"
        /\ \A q \in Pins : q # p => gpios'[q] = gpios[q]
    BY <1>1, <1>4, <2>1 DEF PinNodes
  <2>4. gpios' \in [Pins -> PinNodes \cup {NoPin}] /\ gpios'[p] \in PinNodes
    BY <1>4, <2>1 DEF PinNodes
  <2>5. Held(p)' BY <2>4, GpioAssumption DEF Held
  <2>6. LoopPins' \subseteq LoopPins \ {p}
    <3> SUFFICES ASSUME NEW q \in Pins, Held(q)', gpios'[q].loop
                 PROVE  Held(q) /\ gpios[q].loop /\ q # p
      BY DEF LoopPins
    <3>1. q # p BY <2>3, Zenon
    <3> QED BY <2>3, <3>1, Zenon DEF Held
  <2>7. LoopCounted' /\ loopRefs' \in 0..MaxRefs
    <3>1. CASE loopRefs' = loopRefs
      <4>1. loopRefs' \in 0..MaxRefs /\ loopRefs <= loopRefs' BY <1>6, <3>1
      <4>2. IsFiniteSet(LoopPins) /\ IsFiniteSet(LoopPorts)
            /\ Cardinality(LoopPins) + Cardinality(LoopPorts) <= loopRefs
        BY <1>0 DEF LoopCounted
      <4>3. LoopPins' \subseteq LoopPins /\ LoopPorts' \subseteq LoopPorts BY <1>5, <2>6
      <4>4. IsFiniteSet(LoopPins') /\ IsFiniteSet(LoopPorts')
            /\ Cardinality(LoopPins') + Cardinality(LoopPorts') <= loopRefs
        BY <1>6, <4>2, <4>3, CountsDown
      <4> QED BY <3>1, <4>1, <4>4 DEF LoopCounted
    <3>2. CASE gpios[p].loop /\ loopRefs' = loopRefs - 1
      <4>1. p \in LoopPins BY <1>1, <3>2 DEF LoopPins
      <4>2. LoopCounted' BY <1>0, <1>5, <2>6, <3>2, <4>1, PinUnrefd
      <4>3. Cardinality(LoopPins') + Cardinality(LoopPorts') <= loopRefs'
            /\ Cardinality(LoopPins') \in Nat /\ Cardinality(LoopPorts') \in Nat
        BY <4>2, FS_CardinalityType DEF LoopCounted
      <4>4. loopRefs' \in 0..MaxRefs BY <1>6, <3>2, <4>3
      <4> QED BY <4>2, <4>4
    <3> QED BY <2>2, <3>1, <3>2
  <2>8. IoTypes'
    <3>1. FdTypes' BY <1>0, <1>1, <1>2, <2>1, <2>7, Zenon DEF FdTypes
    <3>2. GpioTypes' BY <1>0, <1>1, <2>1, <2>4, Zenon DEF GpioTypes
    <3> QED BY <1>3, <3>1, <3>2 DEF IoTypes
  <2>9. IoNodes' /\ OwnBlocks' /\ OwnFds'
    <3>1. gpios[p].watch < nextWatch BY <1>0, <1>1 DEF IoNodes
    <3>2. gpios'[p].watch < nextWatch' /\ nextWatch <= nextWatch' BY <1>6, <2>1, <2>3, <3>1
    <3>3. \A f \in fds : f \in fds' BY <2>1
    <3>4. gpios'[p].dir # "out" BY <2>3
    <3> QED BY <1>0, <1>1, <2>3, <2>5, <2>8, <3>2, <3>3, <3>4, PinKept
  <2>10. ListedIsExported'
    <3>1. \A q \in Pins : Held(q)' <=> Held(q) BY <1>1, <2>3, <2>5 DEF Held
    <3> QED BY <1>0, <1>1, <3>1, Zenon DEF ListedIsExported
  <2>11. OwnWatches'
    <3>1. ~misused' => \A w \in watches' : w \in watches /\ ~PinWatch(w, p)
      BY <1>2, <2>1, Zenon DEF PinWatch
    <3> QED BY <1>0, <1>1, <1>2, <2>3, <3>1, PinWatches
  <2>12. IdlePins'
    <3>1. ~misused' => gpios'[p].watch = 0 /\ ~gpios'[p].loop
      BY <1>0, <1>1, <1>2, <2>3, Zenon DEF IdlePins
    <3> QED BY <1>0, <1>2, <2>3, <3>1, IdleElsewhere
  <2>13. NoEdgeLost'
    <3>1. ASSUME ~misused', NEW w \in watches' PROVE w.id # gpios'[p].watch
      <4>1. gpios'[p].watch = 0 BY <1>0, <1>1, <1>2, <2>3, <3>1, Zenon DEF IdlePins
      <4>2. w.id \in 1..MaxWatches BY <1>0, <2>1 DEF FdTypes
      <4> QED BY <4>1, <4>2
    <3>2. \A q \in Pins : q # p => /\ gpios'[q] = gpios[q] /\ pending'[q] = pending[q]
                                   /\ seen'[q] = seen[q] /\ level'[q] = level[q]
      BY <1>1, <2>1, <2>3
    <3>3. \A w \in watches' : w \in watches \/ w.id = nextWatch BY <2>1
    <3> QED BY <1>0, <1>2, <3>1, <3>2, <3>3, EdgesElsewhere
  <2> QED BY <1>3, <2>7, <2>8, <2>9, <2>10, <2>11, <2>12, <2>13 DEF IoInv, IoHolds
<1>9. os_gpio_set_change_callback(p) \/ os_gpio_set_change_callback_fails(p)
  BY DEF artik_gpio_set_change_callback
<1> QED BY <1>7, <1>8, <1>9

\* A callback is unset: its watch, its descriptor and its reference go, and
\* a pin without one leaves a reference more behind.
LEMMA GpioUnsetKeeps ==
  ASSUME IoInv, ~fault, NEW p \in Pins, artik_gpio_unset_change_callback(p), UNCHANGED serialVars
  PROVE  IoInv'
<1>0. /\ IoTypes /\ FdTypes /\ GpioTypes /\ SerialTypes /\ IoHolds /\ IoNodes /\ LoopCounted
      /\ ListedIsExported /\ OwnWatches /\ IdlePins /\ NoEdgeLost /\ InPort /\ NoIoFault
  BY DEF IoInv, IoTypes, IoHolds
<1>1. /\ Held(p) /\ loopRefs < MaxRefs /\ os_gpio_unset_change_callback(p)
      /\ nextWatch' = nextWatch /\ heap' = heap /\ fault' = fault /\ misused' = misused
      /\ exported' = exported /\ level' = level /\ pending' = pending /\ seen' = seen
      /\ serials' = serials
  BY DEF artik_gpio_unset_change_callback, serialVars
<1>2. SerialTypes' /\ InPort' /\ NoIoFault' BY <1>0, <1>1, GpioFrame
<1>3. gpios \in [Pins -> PinNodes \cup {NoPin}] /\ gpios[p] \in PinNodes
  BY <1>0, <1>1 DEF GpioTypes, Held
<1>4. LoopPorts' = LoopPorts BY <1>1 DEF LoopPorts, Opened
<1>5. loopRefs \in Nat /\ loopRefs + 1 \in 0..MaxRefs /\ loopRefs \in 0..MaxRefs /\ nextWatch \in Nat
      /\ 1 <= nextWatch
  BY <1>0, <1>1, FdLoopAssumption DEF FdTypes
<1>6. CASE gpios[p].fd = 0
  <2>1. loopRefs' = loopRefs + 1 /\ fds' = fds /\ watches' = watches /\ gpios' = gpios
    BY <1>1, <1>6 DEF os_gpio_unset_change_callback
  <2>2. IoTypes'
    <3>1. FdTypes' BY <1>0, <1>1, <1>5, <2>1, Zenon DEF FdTypes
    <3>2. GpioTypes' BY <1>0, <1>1, <2>1, Zenon DEF GpioTypes
    <3> QED BY <1>2, <3>1, <3>2 DEF IoTypes
  <2>3. IoNodes' /\ OwnBlocks' /\ OwnFds'
    <3>1. \A s \in Ports : /\ Opened(s)' <=> Opened(s)
                           /\ serials'[s].data = serials[s].data /\ serials'[s].fd = serials[s].fd
      BY <1>1 DEF Opened
    <3> QED BY <1>0, <1>1, <2>1, <3>1, NodesKept
  <2>4. LoopCounted'
    <3>1. LoopPins' \subseteq LoopPins BY <2>1 DEF LoopPins, Held
    <3>2. loopRefs <= loopRefs' BY <1>5, <2>1
    <3> QED BY <1>0, <1>4, <2>2, <3>1, <3>2, RefsKept
  <2>5. ListedIsExported' BY <1>0, <1>1, <2>1, Zenon DEF ListedIsExported, Held
  <2>6. OwnWatches' BY <1>0, <1>1, <2>1, WatchesKept
  <2>7. IdlePins' BY <1>0, <1>1, <2>1, Zenon DEF IdlePins, Held
  <2>8. NoEdgeLost' BY <1>0, <1>1, <2>1, Zenon DEF NoEdgeLost, Held
  <2> QED BY <1>2, <2>2, <2>3, <2>4, <2>5, <2>6, <2>7, <2>8 DEF IoInv, IoHolds
<1>7. CASE gpios[p].fd # 0
  <2>1. /\ fds' = fds \ {gpios[p].fd}
        /\ IF gpios[p].loop
           THEN watches' = {w \in watches : w.id # gpios[p].watch} /\ loopRefs' = loopRefs
           ELSE loopRefs' = loopRefs + 1 /\ watches' = watches
        /\ gpios' = [gpios EXCEPT ![p].fd = 0, ![p].watch = 0, ![p].loop = FALSE]
    BY <1>1, <1>7 DEF os_gpio_unset_change_callback, RemoveWatch
  <2>2. /\ watches' \subseteq watches
        /\ loopRefs <= loopRefs' /\ loopRefs' \in 0..MaxRefs
    BY <1>5, <2>1
  <2>3. \A w \in watches' : ~PinWatch(w, p)
    <3>1. CASE gpios[p].loop
      <4>1. \A w \in watches' : w.id # gpios[p].watch BY <2>1, <3>1
      <4> QED BY <4>1, Zenon DEF PinWatch
    <3>2. CASE ~gpios[p].loop BY <3>2, Zenon DEF PinWatch
    <3> QED BY <3>1, <3>2, Zenon
  <2>4. /\ gpios'[p].fd = 0 /\ gpios'[p].watch = 0 /\ gpios'[p].loop = FALSE
        /\ gpios'[p].data = gpios[p].data
        /\ \A q \in Pins : q # p => gpios'[q] = gpios[q]
    BY <1>1, <1>3, <2>1 DEF PinNodes
  <2>5. gpios' \in [Pins -> PinNodes \cup {NoPin}] /\ gpios'[p] \in PinNodes
    BY <1>3, <2>1 DEF PinNodes
  <2>6. Held(p)' BY <2>5, GpioAssumption DEF Held
  <2>7. IoTypes'
    <3>1. IsFiniteSet(watches') BY <1>0, <2>2, FS_Subset DEF FdTypes
    <3>2. \A w \in watches' : w.id \in 1..MaxWatches /\ w.fd \in Nat /\ w.data \in Nat
      BY <1>0, <2>2 DEF FdTypes
    <3>3. fds' \subseteq 3..(3 + MaxFds) BY <1>0, <2>1 DEF FdTypes
    <3>4. FdTypes' BY <1>0, <1>1, <2>2, <3>1, <3>2, <3>3, Zenon DEF FdTypes
    <3>5. GpioTypes' BY <1>0, <1>1, <2>5, Zenon DEF GpioTypes
    <3> QED BY <1>2, <3>4, <3>5 DEF IoTypes
  <2>8. IoNodes' /\ OwnBlocks' /\ OwnFds'
    <3>1. gpios'[p].watch < nextWatch' /\ nextWatch <= nextWatch' BY <1>1, <1>5, <2>4
    <3>2. \A f \in fds : f \in fds' \/ f = gpios[p].fd BY <2>1
    <3> QED BY <1>0, <1>1, <2>4, <2>6, <2>7, <3>1, <3>2, PinKept
  <2>9. LoopCounted'
    <3>1. LoopPins' \subseteq LoopPins
      <4> SUFFICES ASSUME NEW q \in Pins, Held(q)', gpios'[q].loop PROVE Held(q) /\ gpios[q].loop
        BY DEF LoopPins
      <4>1. q # p BY <2>4, Zenon
      <4> QED BY <2>4, <4>1, Zenon DEF Held
    <3> QED BY <1>0, <1>4, <2>2, <2>7, <3>1, RefsKept
  <2>10. ListedIsExported'
    <3>1. \A q \in Pins : Held(q)' <=> Held(q) BY <1>1, <2>4, <2>6 DEF Held
    <3> QED BY <1>0, <1>1, <3>1, Zenon DEF ListedIsExported
  <2>11. OwnWatches'
    <3>1. \A w \in watches' : w \in watches /\ ~PinWatch(w, p) BY <2>2, <2>3
    <3> QED BY <1>0, <1>1, <2>4, <3>1, PinWatches
  <2>12. IdlePins'
    <3>1. gpios'[p].watch = 0 /\ ~gpios'[p].loop BY <2>4, Zenon
    <3> QED BY <1>0, <1>1, <2>4, <3>1, IdleElsewhere
  <2>13. NoEdgeLost'
    <3>1. \A w \in watches' : w.id # gpios'[p].watch
      <4>1. \A w \in watches' : w.id \in 1..MaxWatches BY <1>0, <2>2 DEF FdTypes
      <4> QED BY <2>4, <4>1
    <3>2. \A q \in Pins : q # p => /\ gpios'[q] = gpios[q] /\ pending'[q] = pending[q]
                                   /\ seen'[q] = seen[q] /\ level'[q] = level[q]
      BY <1>1, <2>4
    <3>3. \A w \in watches' : w \in watches \/ w.id = nextWatch BY <2>2
    <3> QED BY <1>0, <1>1, <3>1, <3>2, <3>3, EdgesElsewhere
  <2> QED BY <1>2, <2>7, <2>8, <2>9, <2>10, <2>11, <2>12, <2>13 DEF IoInv, IoHolds
<1> QED BY <1>6, <1>7

-----------------------------------------------------------------------------
\* A step that changes no port but its rdfs.
LEMMA SerialQuietKeeps ==
  ASSUME IoInv, UNCHANGED gpioVars, fds' = fds, nextWatch' = nextWatch, loopRefs' = loopRefs,
         heap' = heap, misused' = misused, fault' \in BOOLEAN, watches' \subseteq watches,
         SerialTypes', InPort', NoIoFault',
         \A s \in Ports : /\ Opened(s)' <=> Opened(s)
                          /\ serials'[s].data = serials[s].data /\ serials'[s].fd = serials[s].fd
                          /\ serials'[s].watch = serials[s].watch
                          /\ serials'[s].loop = serials[s].loop
                          /\ serials'[s].callback = serials[s].callback
  PROVE  IoInv'
<1>0. /\ IoTypes /\ FdTypes /\ GpioTypes /\ SerialTypes /\ IoHolds /\ IoNodes /\ LoopCounted
      /\ ListedIsExported /\ OwnWatches /\ IdlePins /\ NoEdgeLost
  BY DEF IoInv, IoTypes, IoHolds
<1>1. gpios' = gpios BY DEF gpioVars
<1>2. GpioTypes' /\ ListedIsExported' /\ IdlePins' /\ NoEdgeLost'
  <2>1. \A w \in watches' : w \in watches \/ w.id = nextWatch OBVIOUS
  <2>2. misused => misused' BY Zenon
  <2> QED BY <1>0, <2>1, <2>2, SerialFrame
<1>3. IoTypes'
  <2>1. IsFiniteSet(watches') BY <1>0, FS_Subset DEF FdTypes
  <2>2. \A w \in watches' : w \in watches OBVIOUS
  <2>3. FdTypes' BY <1>0, <2>1, <2>2, Zenon DEF FdTypes
  <2> QED BY <1>2, <2>3 DEF IoTypes
<1>4. IoNodes' /\ OwnBlocks' /\ OwnFds' BY <1>0, <1>1, NodesKept
<1>5. LoopCounted'
  <2>1. LoopPins' \subseteq LoopPins BY <1>1 DEF LoopPins, Held
  <2>2. LoopPorts' \subseteq LoopPorts
    <3> SUFFICES ASSUME NEW s \in Ports, Opened(s)', serials'[s].loop PROVE Opened(s) /\ serials[s].loop
      BY DEF LoopPorts
    <3>1. (Opened(s)' <=> Opened(s)) /\ serials'[s].loop = serials[s].loop OBVIOUS
    <3> QED BY <3>1, Zenon
  <2>3. loopRefs <= loopRefs' BY <1>0, FdLoopAssumption DEF FdTypes
  <2> QED BY <1>0, <1>3, <2>1, <2>2, <2>3, RefsKept
<1>6. OwnWatches'
  <2> SUFFICES ASSUME ~misused', NEW w \in watches'
               PROVE  (\E q \in Pins : PinWatch(w, q)') \/ (\E t \in Ports : PortWatch(w, t)')
    BY DEF OwnWatches
  <2>1. ~misused /\ w \in watches BY Zenon
  <2>2. (\E q \in Pins : PinWatch(w, q)) \/ (\E t \in Ports : PortWatch(w, t))
    BY <1>0, <2>1, Zenon DEF OwnWatches
  <2>3. ASSUME NEW q \in Pins, PinWatch(w, q) PROVE PinWatch(w, q)'
    BY <1>1, <2>3, Zenon DEF PinWatch, Held
  <2>4. ASSUME NEW t \in Ports, PortWatch(w, t) PROVE PortWatch(w, t)'
    <3>1. /\ Opened(t)' <=> Opened(t)
          /\ serials'[t].data = serials[t].data /\ serials'[t].fd = serials[t].fd
          /\ serials'[t].watch = serials[t].watch /\ serials'[t].loop = serials[t].loop
          /\ serials'[t].callback = serials[t].callback
      OBVIOUS
    <3> QED BY <2>4, <3>1, Zenon DEF PortWatch
  <2> QED BY <2>2, <2>3, <2>4, Zenon
<1> QED BY <1>2, <1>3, <1>4, <1>5, <1>6 DEF IoInv, IoHolds

LEMMA SerialReadKeeps ==
  ASSUME IoInv, ~fault, NEW s \in Ports, UNCHANGED gpioVars,
         \/ artik_serial_read(s) \/ Receives(s)
         \/ \E w \in watches : SerialReadFails(s, w)
  PROVE  IoInv'
<1>0. SerialTypes /\ InPort /\ NoIoFault BY DEF IoInv, IoTypes
<1>1. /\ fds' = fds /\ nextWatch' = nextWatch /\ loopRefs' = loopRefs /\ heap' = heap
      /\ fault' = fault /\ misused' = misused /\ serials' = serials /\ inCallback' = inCallback
      /\ watches' \subseteq watches
      /\ \/ rx' = rx
         \/ rx[s] > 0 /\ rx' = [rx EXCEPT ![s] = @ - 1]
         \/ rx[s] < MaxChunks /\ rx' = [rx EXCEPT ![s] = @ + 1]
  BY DEF artik_serial_read, os_serial_read, Receives, SerialReadFails, fdVars, serialVars
<1>2. rx' \in [Ports -> 0..MaxChunks]
  BY <1>0, <1>1, SerialAssumption DEF SerialTypes
<1>3. SerialTypes' BY <1>0, <1>1, <1>2, Zenon DEF SerialTypes
<1>4. InPort' BY <1>0, <1>1, Zenon DEF InPort, Opened
<1>5. NoIoFault' BY <1>0, <1>1, Zenon DEF NoIoFault
<1>6. \A t \in Ports : /\ Opened(t)' <=> Opened(t)
                       /\ serials'[t].data = serials[t].data /\ serials'[t].fd = serials[t].fd
                       /\ serials'[t].watch = serials[t].watch
                       /\ serials'[t].loop = serials[t].loop
                       /\ serials'[t].callback = serials[t].callback
  BY <1>1 DEF Opened
<1>7. fault' \in BOOLEAN BY <1>1 DEF IoInv, IoTypes, FdTypes
<1> QED BY <1>1, <1>3, <1>4, <1>5, <1>6, <1>7, SerialQuietKeeps

\* The callback that starts is of the port whose watch it is: no pin has
\* that block, and the port's callback is set.
LEMMA SerialCallbackKeeps ==
  ASSUME IoInv, ~fault, NEW s \in Ports, NEW w \in watches, UNCHANGED gpioVars,
         os_serial_change_callback(s, w)
  PROVE  IoInv'
<1>0. SerialTypes /\ OwnWatches /\ OwnBlocks /\ NoIoFault /\ FdTypes
  BY DEF IoInv, IoTypes, IoHolds
<1>1. /\ fds' = fds /\ nextWatch' = nextWatch /\ loopRefs' = loopRefs /\ heap' = heap
      /\ fault' = fault /\ misused' = misused /\ watches' = watches
      /\ serials' = [serials EXCEPT ![s].rdfs = TRUE]
      /\ inCallback' = w.data /\ rx[s] > 0
      /\ rx' = IF serials[s].rdfs THEN [rx EXCEPT ![s] = @ - 1] ELSE rx
      /\ Opened(s) /\ w.data = serials[s].data
  BY DEF os_serial_change_callback, fdVars
<1>2. serials \in [Ports -> PortNodes \cup {NoPort}] /\ serials[s] \in PortNodes
  BY <1>0, <1>1 DEF SerialTypes, Opened
<1>3. /\ serials'[s] \in PortNodes /\ serials'[s].data = serials[s].data
      /\ serials'[s].fd = serials[s].fd /\ serials'[s].watch = serials[s].watch
      /\ serials'[s].loop = serials[s].loop /\ serials'[s].callback = serials[s].callback
      /\ \A t \in Ports : t # s => serials'[t] = serials[t]
  BY <1>1, <1>2 DEF PortNodes
<1>4. \A t \in Ports : /\ Opened(t)' <=> Opened(t)
                       /\ serials'[t].data = serials[t].data /\ serials'[t].fd = serials[t].fd
                       /\ serials'[t].watch = serials[t].watch
                       /\ serials'[t].loop = serials[t].loop
                       /\ serials'[t].callback = serials[t].callback
  <2> SUFFICES ASSUME NEW t \in Ports
               PROVE  /\ Opened(t)' <=> Opened(t)
                      /\ serials'[t].data = serials[t].data /\ serials'[t].fd = serials[t].fd
                      /\ serials'[t].watch = serials[t].watch
                      /\ serials'[t].loop = serials[t].loop
                      /\ serials'[t].callback = serials[t].callback
    OBVIOUS
  <2>1. CASE t = s BY <1>1, <1>3, <2>1, SerialAssumption DEF Opened
  <2>2. CASE t # s
    <3>1. serials'[t] = serials[t] BY <1>3, <2>2
    <3> QED BY <3>1, Zenon DEF Opened
  <2> QED BY <2>1, <2>2
<1>5. SerialTypes'
  <2>1. serials' \in [Ports -> PortNodes \cup {NoPort}] BY <1>1, <1>2, <1>3
  <2>2. rx' \in [Ports -> 0..MaxChunks] BY <1>0, <1>1, SerialAssumption DEF SerialTypes
  <2>3. inCallback' \in Nat BY <1>0, <1>1 DEF FdTypes
  <2> QED BY <2>1, <2>2, <2>3, Zenon DEF SerialTypes
<1>6. InPort'
  <2> SUFFICES ASSUME ~misused
               PROVE  \E t \in Ports : Opened(t)' /\ serials'[t].data = inCallback' /\ serials'[t].callback
    BY <1>1, Zenon DEF InPort
  <2>1. (\E q \in Pins : PinWatch(w, q)) \/ (\E t \in Ports : PortWatch(w, t))
    BY <1>0, Zenon DEF OwnWatches
  <2>2. ASSUME NEW q \in Pins, PinWatch(w, q) PROVE FALSE
    <3>1. Held(q) /\ gpios[q].data = w.data BY <2>2, Zenon DEF PinWatch
    <3> QED BY <1>0, <1>1, <3>1 DEF OwnBlocks
  <2>3. PICK t \in Ports : PortWatch(w, t) BY <2>1, <2>2, Zenon
  <2>4. Opened(t) /\ serials[t].data = w.data /\ serials[t].callback
    BY <2>3, Zenon DEF PortWatch
  <2>5. Opened(t)' /\ serials'[t].data = inCallback' /\ serials'[t].callback
    BY <1>1, <1>4, <2>4, Zenon
  <2> QED BY <2>5
<1>7. NoIoFault' BY <1>0, <1>1, Zenon DEF NoIoFault
<1>8. fault' \in BOOLEAN BY <1>0, <1>1 DEF FdTypes
<1>9. watches' \subseteq watches BY <1>1
<1> QED BY <1>1, <1>4, <1>5, <1>6, <1>7, <1>8, <1>9, SerialQuietKeeps

\* A callback that returns finds its port with its function pointer.
LEMMA SerialReturnsKeeps ==
  ASSUME IoInv, ~fault, UNCHANGED gpioVars, SerialCallbackReturns
  PROVE  IoInv'
<1>0. SerialTypes /\ InPort /\ NoIoFault /\ FdTypes BY DEF IoInv, IoTypes
<1>1. PICK mine : mine = {s \in Ports : Opened(s) /\ serials[s].data = inCallback} OBVIOUS
<1>2. /\ fds' = fds /\ nextWatch' = nextWatch /\ loopRefs' = loopRefs /\ heap' = heap
      /\ misused' = misused /\ watches' = watches /\ rx' = rx
      /\ inCallback # 0 /\ inCallback' = 0
      /\ serials' = [s \in Ports |-> IF s \in mine THEN [serials[s] EXCEPT !.rdfs = @ /\ rx[s] > 0]
                                     ELSE serials[s]]
  BY <1>1 DEF SerialCallbackReturns
<1>3. fault' = (fault \/ ~\E s \in mine : serials[s].callback)
  BY <1>1, Zenon DEF SerialCallbackReturns
<1>4. serials \in [Ports -> PortNodes \cup {NoPort}] /\ rx \in [Ports -> 0..MaxChunks]
  BY <1>0 DEF SerialTypes
<1>5. ASSUME NEW t \in Ports
      PROVE  /\ serials'[t] \in PortNodes \cup {NoPort}
             /\ Opened(t)' <=> Opened(t)
             /\ serials'[t].data = serials[t].data /\ serials'[t].fd = serials[t].fd
             /\ serials'[t].watch = serials[t].watch
             /\ serials'[t].loop = serials[t].loop
             /\ serials'[t].callback = serials[t].callback
  <2>1. CASE t \in mine
    <3>1. Opened(t) /\ serials[t] \in PortNodes BY <1>1, <1>4, <2>1 DEF Opened
    <3>2. PICK b : b = (serials[t].rdfs /\ rx[t] > 0) OBVIOUS
    <3>3. b \in BOOLEAN BY <3>2
    <3>4. serials'[t] = [serials[t] EXCEPT !.rdfs = b] BY <1>2, <2>1, <3>2
    <3>5. /\ serials'[t] \in PortNodes /\ serials'[t].data = serials[t].data
          /\ serials'[t].fd = serials[t].fd /\ serials'[t].watch = serials[t].watch
          /\ serials'[t].loop = serials[t].loop /\ serials'[t].callback = serials[t].callback
      BY <3>1, <3>3, <3>4 DEF PortNodes
    <3>6. Opened(t)' BY <3>5, SerialAssumption DEF Opened
    <3> QED BY <3>1, <3>5, <3>6
  <2>2. CASE t \notin mine
    <3>1. serials'[t] = serials[t] BY <1>2, <2>2
    <3> QED BY <1>4, <3>1 DEF Opened
  <2> QED BY <2>1, <2>2
<1>6. SerialTypes'
  <2>1. serials' \in [Ports -> PortNodes \cup {NoPort}] BY <1>2, <1>5
  <2>2. inCallback' \in Nat BY <1>2
  <2> QED BY <1>2, <1>4, <2>1, <2>2, Zenon DEF SerialTypes
<1>7. InPort' BY <1>2, Zenon DEF InPort
<1>8. NoIoFault'
  <2>1. ~misused => \E s \in mine : serials[s].callback
    BY <1>0, <1>1, <1>2, Zenon DEF InPort
  <2> QED BY <1>2, <1>3, <2>1, Zenon DEF NoIoFault
<1>9. fault' \in BOOLEAN BY <1>3
<1>10. watches' \subseteq watches BY <1>2
<1> QED BY <1>2, <1>5, <1>6, <1>7, <1>8, <1>9, <1>10, SerialQuietKeeps

\* The block of a stale watch is of no node: the order was left.
LEMMA StaleKeeps ==
  ASSUME IoInv, NEW w \in watches, StaleWatch(w), UNCHANGED <<gpioVars, serialVars>>
  PROVE  IoInv'
<1>0. SerialTypes /\ InPort /\ IoNodes /\ OwnWatches /\ FdTypes BY DEF IoInv, IoTypes, IoHolds
<1>1. /\ w.data \notin heap /\ fault' = TRUE /\ fds' = fds /\ nextWatch' = nextWatch
      /\ loopRefs' = loopRefs /\ heap' = heap /\ misused' = misused /\ watches' = watches
      /\ serials' = serials /\ rx' = rx /\ inCallback' = inCallback
  BY DEF StaleWatch, serialVars
<1>2. misused
  <2> SUFFICES ASSUME ~misused PROVE FALSE
    OBVIOUS
  <2>1. (\E q \in Pins : PinWatch(w, q)) \/ (\E t \in Ports : PortWatch(w, t))
    BY <1>0, Zenon DEF OwnWatches
  <2>2. (\E q \in Pins : Held(q) /\ gpios[q].data = w.data)
        \/ (\E t \in Ports : Opened(t) /\ serials[t].data = w.data)
    BY <2>1, Zenon DEF PinWatch, PortWatch
  <2> QED BY <1>0, <1>1, <2>2 DEF IoNodes
<1>3. SerialTypes' BY <1>0, <1>1, Zenon DEF SerialTypes
<1>4. InPort' BY <1>0, <1>1, Zenon DEF InPort, Opened
<1>5. NoIoFault' BY <1>1, <1>2, Zenon DEF NoIoFault
<1>6. \A t \in Ports : /\ Opened(t)' <=> Opened(t)
                       /\ serials'[t].data = serials[t].data /\ serials'[t].fd = serials[t].fd
                       /\ serials'[t].watch = serials[t].watch
                       /\ serials'[t].loop = serials[t].loop
                       /\ serials'[t].callback = serials[t].callback
  BY <1>1 DEF Opened
<1>7. fault' \in BOOLEAN /\ watches' \subseteq watches BY <1>1
<1> QED BY <1>1, <1>3, <1>4, <1>5, <1>6, <1>7, SerialQuietKeeps

\* What the steps on one port leave of the rest.
LEMMA InPortElsewhere ==
  ASSUME InPort, NEW s \in Ports, misused => misused', inCallback' = inCallback,
         \A t \in Ports : t # s => serials'[t] = serials[t],
         ~misused' => \/ ~Opened(s)
                      \/ serials[s].data # inCallback
                      \/ ~serials[s].callback
                      \/ Opened(s)' /\ serials'[s].data = serials[s].data /\ serials'[s].callback
  PROVE  InPort'
<1> SUFFICES ASSUME ~misused', inCallback # 0
             PROVE  \E t \in Ports : Opened(t)' /\ serials'[t].data = inCallback /\ serials'[t].callback
  BY Zenon DEF InPort
<1>1. PICK t \in Ports : Opened(t) /\ serials[t].data = inCallback /\ serials[t].callback
  BY Zenon DEF InPort
<1>2. CASE t = s BY <1>1, <1>2, Zenon
<1>3. CASE t # s
  <2>1. serials'[t] = serials[t] BY <1>3
  <2> QED BY <1>1, <2>1, Zenon DEF Opened
<1> QED BY <1>2, <1>3, Zenon

LEMMA SerialRequestKeeps ==
  ASSUME IoInv, ~fault, NEW s \in Ports, artik_serial_request(s), UNCHANGED gpioVars
  PROVE  IoInv'
<1>0. /\ IoTypes /\ FdTypes /\ GpioTypes /\ SerialTypes /\ IoHolds /\ IoNodes /\ LoopCounted
      /\ ListedIsExported /\ OwnWatches /\ IdlePins /\ NoEdgeLost /\ InPort /\ NoIoFault
  BY DEF IoInv, IoTypes, IoHolds
<1>1. /\ ~Opened(s) /\ watches' = watches /\ nextWatch' = nextWatch /\ loopRefs' = loopRefs
      /\ fault' = fault /\ misused' = misused /\ inCallback' = inCallback
      /\ gpios' = gpios
  BY DEF artik_serial_request, gpioVars
<1>2. /\ GpioTypes' /\ ListedIsExported' /\ IdlePins' /\ NoEdgeLost'
  <2>1. \A w \in watches' : w \in watches \/ w.id = nextWatch BY <1>1
  <2>2. misused => misused' BY <1>1, Zenon
  <2> QED BY <1>0, <2>1, <2>2, SerialFrame
<1>3. NoIoFault' BY <1>0, <1>1, Zenon DEF NoIoFault
<1>4. CASE os_serial_request(s)
  <2>1. PICK x : x = [data |-> NewBlock, fd |-> NewFd, rdfs |-> TRUE,
                      watch |-> 0, loop |-> FALSE, callback |-> FALSE] OBVIOUS
  <2>2. /\ CanOpen /\ fds' = fds \cup {NewFd} /\ heap' = heap \cup {NewBlock}
        /\ serials' = [serials EXCEPT ![s] = x] /\ rx' = [rx EXCEPT ![s] = 0]
    BY <1>4, <2>1 DEF os_serial_request
  <2>3. /\ NewBlock \in Nat /\ NewBlock \notin heap
        /\ NewFd \in 3..(3 + MaxFds) /\ NewFd \notin fds /\ NewFd \in Nat /\ NewFd # 0
    BY <1>0, <2>2, NewBlockIs, NewFdIs
  <2>4. x \in PortNodes /\ x.data = NewBlock /\ x.fd = NewFd /\ x.loop = FALSE
    BY <2>1, <2>3 DEF PortNodes
  <2>5. serials'[s] = x /\ \A t \in Ports : t # s => serials'[t] = serials[t]
    BY <1>0, <2>2 DEF SerialTypes
  <2>6. Opened(s)' BY <2>4, <2>5, SerialAssumption DEF Opened
  <2>7. IoTypes'
    <3>1. heap' \subseteq Nat /\ IsFiniteSet(heap') /\ fds' \subseteq 3..(3 + MaxFds)
      BY <1>0, <2>2, <2>3, FS_AddElement DEF FdTypes
    <3>2. FdTypes' BY <1>0, <1>1, <3>1, Zenon DEF FdTypes
    <3>3. serials' \in [Ports -> PortNodes \cup {NoPort}] BY <1>0, <2>2, <2>4 DEF SerialTypes
    <3>4. rx' \in [Ports -> 0..MaxChunks] BY <1>0, <2>2, SerialAssumption DEF SerialTypes
    <3>5. SerialTypes' BY <1>0, <1>1, <3>3, <3>4, Zenon DEF SerialTypes
    <3> QED BY <1>2, <3>2, <3>5 DEF IoTypes
  <2>8. nextWatch <= nextWatch' /\ loopRefs <= loopRefs'
    BY <1>0, <1>1, FdLoopAssumption DEF FdTypes
  <2>9. IoNodes' /\ OwnBlocks' /\ OwnFds'
    <3>1. serials'[s].data \notin heap /\ heap' = heap \cup {serials'[s].data}
      BY <2>2, <2>3, <2>4, <2>5
    <3>2. serials'[s].fd \in fds' \ fds /\ fds \subseteq fds' BY <2>2, <2>3, <2>4, <2>5
    <3> QED BY <1>0, <1>1, <2>5, <2>6, <2>7, <2>8, <3>1, <3>2, PortKept
  <2>10. LoopCounted'
    <3>1. LoopPins' \subseteq LoopPins BY <1>1 DEF LoopPins, Held
    <3>2. LoopPorts' \subseteq LoopPorts
      <4> SUFFICES ASSUME NEW t \in Ports, Opened(t)', serials'[t].loop PROVE Opened(t) /\ serials[t].loop
        BY DEF LoopPorts
      <4>1. t # s BY <2>4, <2>5, Zenon
      <4> QED BY <2>5, <4>1, Zenon DEF Opened
    <3> QED BY <1>0, <2>7, <2>8, <3>1, <3>2, RefsKept
  <2>11. OwnWatches'
    <3>1. \A w \in watches' : w \in watches /\ ~PortWatch(w, s) BY <1>1, Zenon DEF PortWatch
    <3> QED BY <1>0, <1>1, <2>5, <3>1, PortWatches
  <2>12. InPort' BY <1>0, <1>1, <2>5, InPortElsewhere
  <2> QED BY <1>2, <1>3, <2>7, <2>9, <2>10, <2>11, <2>12 DEF IoInv, IoHolds
<1>5. CASE os_serial_request_fails(s)
  <2>1. fds' = fds /\ heap' = heap /\ serials' = serials /\ rx' = rx
    BY <1>5 DEF os_serial_request_fails
  <2>2. SerialTypes' BY <1>0, <1>1, <2>1, Zenon DEF SerialTypes
  <2>3. InPort' BY <1>0, <1>1, <2>1, Zenon DEF InPort, Opened
  <2>4. \A t \in Ports : /\ Opened(t)' <=> Opened(t)
                         /\ serials'[t].data = serials[t].data /\ serials'[t].fd = serials[t].fd
                         /\ serials'[t].watch = serials[t].watch
                         /\ serials'[t].loop = serials[t].loop
                         /\ serials'[t].callback = serials[t].callback
    BY <2>1 DEF Opened
  <2>5. fault' \in BOOLEAN /\ watches' \subseteq watches BY <1>0, <1>1 DEF FdTypes
  <2> QED BY <1>1, <1>3, <2>1, <2>2, <2>3, <2>4, <2>5, SerialQuietKeeps
<1> QED BY <1>4, <1>5 DEF artik_serial_request

LEMMA SerialReleaseKeeps ==
  ASSUME IoInv, ~fault, NEW s \in Ports, artik_serial_release(s), UNCHANGED gpioVars
  PROVE  IoInv'
<1>0. /\ IoTypes /\ FdTypes /\ GpioTypes /\ SerialTypes /\ IoHolds /\ IoNodes /\ LoopCounted
      /\ ListedIsExported /\ OwnWatches /\ IdlePins /\ NoEdgeLost /\ InPort /\ NoIoFault
  BY DEF IoInv, IoTypes, IoHolds
<1>1. /\ Opened(s) /\ watches' = watches /\ nextWatch' = nextWatch /\ loopRefs' = loopRefs
      /\ fault' = fault /\ inCallback' = inCallback /\ gpios' = gpios /\ rx' = rx
      /\ fds' = fds \ {serials[s].fd} /\ heap' = heap \ {serials[s].data}
      /\ serials' = [serials EXCEPT ![s] = NoPort]
  BY DEF artik_serial_release, os_serial_release, gpioVars
<1>2. /\ misused => misused'
      /\ misused' \in BOOLEAN
      /\ ~misused' => ~misused /\ ~serials[s].callback
  <2>1. misused' = (misused \/ serials[s].callback \/ inCallback = serials[s].data)
    BY DEF artik_serial_release
  <2>2. misused' \in BOOLEAN BY <2>1
  <2> QED BY <2>1, <2>2, Zenon
<1>3. GpioTypes' /\ ListedIsExported' /\ IdlePins' /\ NoEdgeLost'
  <2>1. \A w \in watches' : w \in watches \/ w.id = nextWatch BY <1>1
  <2> QED BY <1>0, <1>2, <2>1, SerialFrame
<1>4. NoIoFault' BY <1>0, <1>1, <1>2, Zenon DEF NoIoFault
<1>5. /\ serials'[s] = NoPort /\ \A t \in Ports : t # s => serials'[t] = serials[t]
      /\ ~Opened(s)'
  BY <1>0, <1>1 DEF SerialTypes, Opened
<1>6. IoTypes'
  <2>1. heap' \subseteq Nat /\ IsFiniteSet(heap') /\ fds' \subseteq 3..(3 + MaxFds)
    BY <1>0, <1>1, FS_RemoveElement DEF FdTypes
  <2>2. FdTypes' BY <1>0, <1>1, <1>2, <2>1, Zenon DEF FdTypes
  <2>3. serials' \in [Ports -> PortNodes \cup {NoPort}] BY <1>0, <1>1 DEF SerialTypes
  <2>4. SerialTypes' BY <1>0, <1>1, <2>3, Zenon DEF SerialTypes
  <2> QED BY <1>3, <2>2, <2>4 DEF IoTypes
<1>7. IoNodes' /\ OwnBlocks' /\ OwnFds' BY <1>0, <1>1, <1>5, PortGone
<1>8. LoopCounted'
  <2>1. LoopPins' \subseteq LoopPins BY <1>1 DEF LoopPins, Held
  <2>2. LoopPorts' \subseteq LoopPorts
    <3> SUFFICES ASSUME NEW t \in Ports, Opened(t)', serials'[t].loop PROVE Opened(t) /\ serials[t].loop
      BY DEF LoopPorts
    <3>1. t # s BY <1>5
    <3> QED BY <1>5, <3>1, Zenon DEF Opened
  <2>3. loopRefs <= loopRefs' BY <1>0, <1>1, FdLoopAssumption DEF FdTypes
  <2> QED BY <1>0, <1>6, <2>1, <2>2, <2>3, RefsKept
<1>9. OwnWatches'
  <2>1. ~misused' => \A w \in watches' : w \in watches /\ ~PortWatch(w, s)
    BY <1>1, <1>2, Zenon DEF PortWatch
  <2> QED BY <1>0, <1>1, <1>2, <1>5, <2>1, PortWatches
<1>10. InPort' BY <1>0, <1>1, <1>2, <1>5, InPortElsewhere
<1> QED BY <1>3, <1>4, <1>6, <1>7, <1>8, <1>9, <1>10 DEF IoInv, IoHolds

\* A watch of a port is added when it had none, or the order was left.
LEMMA SerialSetKeeps ==
  ASSUME IoInv, ~fault, NEW s \in Ports, artik_serial_set_received_callback(s), UNCHANGED gpioVars
  PROVE  IoInv'
<1>0. /\ IoTypes /\ FdTypes /\ GpioTypes /\ SerialTypes /\ IoHolds /\ IoNodes /\ LoopCounted
      /\ ListedIsExported /\ OwnWatches /\ IdlePins /\ NoEdgeLost /\ InPort /\ NoIoFault
  BY DEF IoInv, IoTypes, IoHolds
<1>1. /\ Opened(s) /\ CanWatch /\ fds' = fds /\ heap' = heap /\ fault' = fault /\ rx' = rx
      /\ inCallback' = inCallback /\ gpios' = gpios
  BY DEF artik_serial_set_received_callback, gpioVars
<1>2. /\ misused => misused'
      /\ misused' \in BOOLEAN
      /\ ~misused' => ~misused /\ ~serials[s].callback
  <2>1. misused' = (misused \/ serials[s].callback)
    BY DEF artik_serial_set_received_callback
  <2>2. misused' \in BOOLEAN BY <2>1
  <2> QED BY <2>1, <2>2, Zenon
<1>3. NoIoFault' BY <1>0, <1>1, <1>2, Zenon DEF NoIoFault
<1>4. serials \in [Ports -> PortNodes \cup {NoPort}] /\ serials[s] \in PortNodes
      /\ serials[s].data \in Nat /\ serials[s].fd \in Nat
  BY <1>0, <1>1 DEF SerialTypes, Opened, PortNodes
<1>5. loopRefs \in Nat /\ loopRefs + 1 \in 0..MaxRefs /\ nextWatch \in Nat
      /\ nextWatch \in 1..MaxWatches /\ nextWatch + 1 \in 1..(MaxWatches + 1)
  BY <1>0, <1>1, FdLoopAssumption DEF FdTypes, CanWatch
<1>6. LoopPins' = LoopPins BY <1>1 DEF LoopPins, Held
<1>7. CASE os_serial_set_received_callback(s)
  <2>1. PICK w : w = [id |-> nextWatch, fd |-> serials[s].fd, data |-> serials[s].data] OBVIOUS
  <2>2. /\ loopRefs' = loopRefs + 1 /\ watches' = watches \cup {w} /\ nextWatch' = nextWatch + 1
        /\ serials' = [serials EXCEPT ![s].watch = nextWatch, ![s].loop = TRUE, ![s].callback = TRUE]
    BY <1>7, <2>1 DEF os_serial_set_received_callback, AddWatch
  <2>3. w.id = nextWatch /\ w.fd = serials[s].fd /\ w.data = serials[s].data BY <2>1
  <2>4. /\ serials'[s].fd = serials[s].fd /\ serials'[s].data = serials[s].data
        /\ serials'[s].watch = nextWatch /\ serials'[s].loop = TRUE /\ serials'[s].callback = TRUE
        /\ \A t \in Ports : t # s => serials'[t] = serials[t]
    BY <1>4, <2>2 DEF PortNodes
  <2>5. serials' \in [Ports -> PortNodes \cup {NoPort}] /\ serials'[s] \in PortNodes
    BY <1>4, <1>5, <2>2 DEF PortNodes
  <2>6. Opened(s)' BY <2>5, SerialAssumption DEF Opened
  <2>7. GpioTypes' /\ ListedIsExported' /\ IdlePins' /\ NoEdgeLost'
    <3>1. \A x \in watches' : x \in watches \/ x.id = nextWatch BY <2>2, <2>3
    <3> QED BY <1>0, <1>2, <3>1, SerialFrame
  <2>8. IoTypes'
    <3>1. IsFiniteSet(watches') BY <1>0, <2>2, FS_AddElement DEF FdTypes
    <3>2. \A x \in watches' : x.id \in 1..MaxWatches /\ x.fd \in Nat /\ x.data \in Nat
      BY <1>0, <1>4, <1>5, <2>2, <2>3 DEF FdTypes
    <3>3. nextWatch' \in 1..(MaxWatches + 1) /\ loopRefs' \in 0..MaxRefs BY <1>5, <2>2
    <3>4. FdTypes' BY <1>0, <1>1, <1>2, <3>1, <3>2, <3>3, Zenon DEF FdTypes
    <3>5. SerialTypes' BY <1>0, <1>1, <2>5, Zenon DEF SerialTypes
    <3> QED BY <2>7, <3>4, <3>5 DEF IoTypes
  <2>9. IoNodes' /\ OwnBlocks' /\ OwnFds'
    <3>1. nextWatch <= nextWatch' BY <1>5, <2>2
    <3> QED BY <1>0, <1>1, <2>4, <2>6, <2>8, <3>1, PortKept
  <2>10. LoopCounted'
    <3>1. LoopPorts' \subseteq LoopPorts \cup {s}
      <4> SUFFICES ASSUME NEW t \in Ports, Opened(t)', serials'[t].loop, t # s
                   PROVE  Opened(t) /\ serials[t].loop
        BY DEF LoopPorts
      <4> QED BY <2>4, Zenon DEF Opened
    <3> QED BY <1>0, <1>6, <2>2, <3>1, PortRefd
  <2>11. OwnWatches'
    <3>1. PortWatch(w, s)' BY <2>3, <2>4, <2>6, Zenon DEF PortWatch
    <3>2. ~misused' => \A x \in watches : ~PortWatch(x, s) BY <1>2, Zenon DEF PortWatch
    <3>3. ~misused' => \A x \in watches' : (x \in watches /\ ~PortWatch(x, s)) \/ PortWatch(x, s)'
      <4> SUFFICES ASSUME ~misused', NEW x \in watches'
                   PROVE  (x \in watches /\ ~PortWatch(x, s)) \/ PortWatch(x, s)'
        OBVIOUS
      <4>1. x \in watches \/ x = w BY <2>2
      <4> QED BY <3>1, <3>2, <4>1, Zenon
    <3> QED BY <1>0, <1>1, <1>2, <2>4, <3>3, PortWatches
  <2>12. InPort'
    <3>1. ~misused' => ~serials[s].callback BY <1>2, Zenon
    <3> QED BY <1>0, <1>1, <1>2, <2>4, <3>1, InPortElsewhere
  <2> QED BY <1>3, <2>7, <2>8, <2>9, <2>10, <2>11, <2>12 DEF IoInv, IoHolds
<1>8. CASE os_serial_set_received_callback_fails(s)
  <2>1. /\ loopRefs' = loopRefs /\ watches' = watches /\ nextWatch' = nextWatch
        /\ serials' = [serials EXCEPT ![s].loop = FALSE, ![s].callback = TRUE]
    BY <1>8 DEF os_serial_set_received_callback_fails
  <2>2. /\ serials'[s].fd = serials[s].fd /\ serials'[s].data = serials[s].data
        /\ serials'[s].loop = FALSE
        /\ \A t \in Ports : t # s => serials'[t] = serials[t]
    BY <1>4, <2>1 DEF PortNodes
  <2>3. serials' \in [Ports -> PortNodes \cup {NoPort}] /\ serials'[s] \in PortNodes
    BY <1>4, <2>1 DEF PortNodes
  <2>4. Opened(s)' BY <2>3, SerialAssumption DEF Opened
  <2>5. GpioTypes' /\ ListedIsExported' /\ IdlePins' /\ NoEdgeLost'
    <3>1. \A x \in watches' : x \in watches \/ x.id = nextWatch BY <2>1
    <3> QED BY <1>0, <1>2, <3>1, SerialFrame
  <2>6. IoTypes'
    <3>1. FdTypes' BY <1>0, <1>1, <1>2, <2>1, Zenon DEF FdTypes
    <3>2. SerialTypes' BY <1>0, <1>1, <2>3, Zenon DEF SerialTypes
    <3> QED BY <2>5, <3>1, <3>2 DEF IoTypes
  <2>7. nextWatch <= nextWatch' /\ loopRefs <= loopRefs' BY <1>5, <2>1
  <2>8. IoNodes' /\ OwnBlocks' /\ OwnFds' BY <1>0, <1>1, <2>2, <2>4, <2>6, <2>7, PortKept
  <2>9. LoopCounted'
    <3>1. LoopPorts' \subseteq LoopPorts
      <4> SUFFICES ASSUME NEW t \in Ports, Opened(t)', serials'[t].loop PROVE Opened(t) /\ serials[t].loop
        BY DEF LoopPorts
      <4>1. t # s BY <2>2, Zenon
      <4> QED BY <2>2, <4>1, Zenon DEF Opened
    <3>2. LoopPins' \subseteq LoopPins BY <1>6
    <3> QED BY <1>0, <2>6, <2>7, <3>1, <3>2, RefsKept
  <2>10. OwnWatches'
    <3>1. ~misused' => \A x \in watches' : x \in watches /\ ~PortWatch(x, s)
      BY <1>2, <2>1, Zenon DEF PortWatch
    <3> QED BY <1>0, <1>1, <1>2, <2>2, <3>1, PortWatches
  <2>11. InPort'
    <3>1. ~misused' => ~serials[s].callback BY <1>2, Zenon
    <3> QED BY <1>0, <1>1, <1>2, <2>2, <3>1, InPortElsewhere
  <2> QED BY <1>3, <2>5, <2>6, <2>8, <2>9, <2>10, <2>11 DEF IoInv, IoHolds
<1> QED BY <1>7, <1>8 DEF artik_serial_set_received_callback

\* The watch goes with the descriptor, which the port forgets.
LEMMA SerialUnsetKeeps ==
  ASSUME IoInv, ~fault, NEW s \in Ports, artik_serial_unset_received_callback(s), UNCHANGED gpioVars
  PROVE  IoInv'
<1>0. /\ IoTypes /\ FdTypes /\ GpioTypes /\ SerialTypes /\ IoHolds /\ IoNodes /\ LoopCounted
      /\ ListedIsExported /\ OwnWatches /\ IdlePins /\ NoEdgeLost /\ InPort /\ NoIoFault
  BY DEF IoInv, IoTypes, IoHolds
<1>1. /\ Opened(s) /\ loopRefs < MaxRefs /\ os_serial_unset_received_callback(s)
      /\ fds' = fds /\ nextWatch' = nextWatch /\ heap' = heap /\ fault' = fault /\ rx' = rx
      /\ inCallback' = inCallback /\ gpios' = gpios
  BY DEF artik_serial_unset_received_callback, gpioVars
<1>2. /\ misused => misused'
      /\ misused' \in BOOLEAN
      /\ ~misused' => ~misused /\ inCallback # serials[s].data
  <2>1. misused' = (misused \/ inCallback = serials[s].data)
    BY DEF artik_serial_unset_received_callback
  <2>2. misused' \in BOOLEAN BY <2>1
  <2> QED BY <2>1, <2>2, Zenon
<1>3. NoIoFault' BY <1>0, <1>1, <1>2, Zenon DEF NoIoFault
<1>4. serials \in [Ports -> PortNodes \cup {NoPort}] /\ serials[s] \in PortNodes
  BY <1>0, <1>1 DEF SerialTypes, Opened
<1>5. loopRefs \in Nat /\ loopRefs \in 0..MaxRefs /\ loopRefs + 1 \in 0..MaxRefs /\ nextWatch \in Nat
  BY <1>0, <1>1, FdLoopAssumption DEF FdTypes
<1>6. LoopPins' \subseteq LoopPins BY <1>1 DEF LoopPins, Held
<1>7. CASE serials[s].fd = 0
  <2>1. loopRefs' = loopRefs + 1 /\ watches' = watches /\ serials' = serials
    BY <1>1, <1>7 DEF os_serial_unset_received_callback
  <2>2. GpioTypes' /\ ListedIsExported' /\ IdlePins' /\ NoEdgeLost'
    <3>1. \A x \in watches' : x \in watches \/ x.id = nextWatch BY <2>1
    <3> QED BY <1>0, <1>2, <3>1, SerialFrame
  <2>3. IoTypes'
    <3>1. FdTypes' BY <1>0, <1>1, <1>2, <1>5, <2>1, Zenon DEF FdTypes
    <3>2. SerialTypes' BY <1>0, <1>1, <2>1, Zenon DEF SerialTypes
    <3> QED BY <2>2, <3>1, <3>2 DEF IoTypes
  <2>4. IoNodes' /\ OwnBlocks' /\ OwnFds'
    <3>1. \A t \in Ports : /\ Opened(t)' <=> Opened(t)
                           /\ serials'[t].data = serials[t].data /\ serials'[t].fd = serials[t].fd
      BY <2>1 DEF Opened
    <3> QED BY <1>0, <1>1, <3>1, NodesKept
  <2>5. LoopCounted'
    <3>1. LoopPorts' \subseteq LoopPorts BY <2>1 DEF LoopPorts, Opened
    <3>2. loopRefs <= loopRefs' BY <1>5, <2>1
    <3> QED BY <1>0, <1>6, <2>3, <3>1, <3>2, RefsKept
  <2>6. OwnWatches'
    <3>1. \A w \in watches : PortWatch(w, s) => PortWatch(w, s)'
      BY <2>1, Zenon DEF PortWatch, Opened
    <3>2. \A w \in watches' : (w \in watches /\ ~PortWatch(w, s)) \/ PortWatch(w, s)'
      BY <2>1, <3>1, Zenon
    <3> QED BY <1>0, <1>1, <1>2, <2>1, <3>2, PortWatches
  <2>7. InPort' BY <1>0, <1>1, <1>2, <2>1, InPortElsewhere
  <2> QED BY <1>3, <2>2, <2>3, <2>4, <2>5, <2>6, <2>7 DEF IoInv, IoHolds
<1>8. CASE serials[s].fd # 0
  <2>1. /\ IF serials[s].loop
           THEN watches' = {w \in watches : w.id # serials[s].watch} /\ loopRefs' = loopRefs
           ELSE loopRefs' = loopRefs + 1 /\ watches' = watches
        /\ serials' = [serials EXCEPT ![s] = [@ EXCEPT !.fd = 0, !.rdfs = FALSE,
                         !.watch = 0, !.loop = FALSE, !.callback = FALSE]]
    BY <1>1, <1>8 DEF os_serial_unset_received_callback, RemoveWatch
  <2>2. watches' \subseteq watches /\ loopRefs <= loopRefs' /\ loopRefs' \in 0..MaxRefs
    BY <1>5, <2>1
  <2>3. \A w \in watches' : ~PortWatch(w, s)
    <3>1. CASE serials[s].loop
      <4>1. \A w \in watches' : w.id # serials[s].watch BY <2>1, <3>1
      <4> QED BY <4>1, Zenon DEF PortWatch
    <3>2. CASE ~serials[s].loop BY <3>2, Zenon DEF PortWatch
    <3> QED BY <3>1, <3>2, Zenon
  <2>4. /\ serials'[s].fd = 0 /\ serials'[s].data = serials[s].data /\ serials'[s].loop = FALSE
        /\ \A t \in Ports : t # s => serials'[t] = serials[t]
    BY <1>4, <2>1 DEF PortNodes
  <2>5. serials' \in [Ports -> PortNodes \cup {NoPort}] /\ serials'[s] \in PortNodes
    BY <1>4, <2>1 DEF PortNodes
  <2>6. Opened(s)' BY <2>5, SerialAssumption DEF Opened
  <2>7. GpioTypes' /\ ListedIsExported' /\ IdlePins' /\ NoEdgeLost'
    <3>1. \A x \in watches' : x \in watches \/ x.id = nextWatch BY <2>2
    <3> QED BY <1>0, <1>2, <3>1, SerialFrame
  <2>8. IoTypes'
    <3>1. IsFiniteSet(watches') BY <1>0, <2>2, FS_Subset DEF FdTypes
    <3>2. \A w \in watches' : w.id \in 1..MaxWatches /\ w.fd \in Nat /\ w.data \in Nat
      BY <1>0, <2>2 DEF FdTypes
    <3>3. FdTypes' BY <1>0, <1>1, <1>2, <2>2, <3>1, <3>2, Zenon DEF FdTypes
    <3>4. SerialTypes' BY <1>0, <1>1, <2>5, Zenon DEF SerialTypes
    <3> QED BY <2>7, <3>3, <3>4 DEF IoTypes
  <2>9. IoNodes' /\ OwnBlocks' /\ OwnFds'
    <3>1. nextWatch <= nextWatch' BY <1>1, <1>5
    <3> QED BY <1>0, <1>1, <2>4, <2>6, <2>8, <3>1, PortKept
  <2>10. LoopCounted'
    <3>1. LoopPorts' \subseteq LoopPorts
      <4> SUFFICES ASSUME NEW t \in Ports, Opened(t)', serials'[t].loop PROVE Opened(t) /\ serials[t].loop
        BY DEF LoopPorts
      <4>1. t # s BY <2>4, Zenon
      <4> QED BY <2>4, <4>1, Zenon DEF Opened
    <3> QED BY <1>0, <1>6, <2>2, <2>8, <3>1, RefsKept
  <2>11. OwnWatches'
    <3>1. \A w \in watches' : w \in watches /\ ~PortWatch(w, s) BY <2>2, <2>3
    <3> QED BY <1>0, <1>1, <1>2, <2>4, <3>1, PortWatches
  <2>12. InPort' BY <1>0, <1>1, <1>2, <2>4, InPortElsewhere
  <2> QED BY <1>3, <2>7, <2>8, <2>9, <2>10, <2>11, <2>12 DEF IoInv, IoHolds
<1> QED BY <1>7, <1>8

-----------------------------------------------------------------------------
LEMMA IoStep == IoInv /\ [IoNext]_ioVars => IoInv'
<1> SUFFICES ASSUME IoInv, [IoNext]_ioVars PROVE IoInv'
  OBVIOUS
<1>1. CASE UNCHANGED ioVars
  <2>1. UNCHANGED <<gpioVars, serialVars>> /\ fds' = fds /\ nextWatch' = nextWatch
        /\ loopRefs' = loopRefs /\ heap' = heap /\ misused' = misused /\ fault' = fault
        /\ watches' = watches /\ serials' = serials /\ rx' = rx /\ inCallback' = inCallback
    BY <1>1 DEF ioVars, fdVars, serialVars
  <2>2. SerialTypes /\ InPort /\ NoIoFault BY DEF IoInv, IoTypes
  <2>3. SerialTypes' BY <2>1, <2>2, Zenon DEF SerialTypes
  <2>4. InPort' BY <2>1, <2>2, Zenon DEF InPort, Opened
  <2>5. NoIoFault' BY <2>1, <2>2, Zenon DEF NoIoFault
  <2>6. \A t \in Ports : /\ Opened(t)' <=> Opened(t)
                         /\ serials'[t].data = serials[t].data /\ serials'[t].fd = serials[t].fd
                         /\ serials'[t].watch = serials[t].watch
                         /\ serials'[t].loop = serials[t].loop
                         /\ serials'[t].callback = serials[t].callback
    BY <2>1 DEF Opened
  <2>7. fault' \in BOOLEAN /\ watches' \subseteq watches BY <2>1 DEF IoInv, IoTypes, FdTypes
  <2> QED BY <2>1, <2>3, <2>4, <2>5, <2>6, <2>7, SerialQuietKeeps
<1>2. CASE ~fault /\ GpioNext /\ UNCHANGED serialVars
  BY <1>2, GpioRequestKeeps, GpioReleaseKeeps, GpioReadKeeps, GpioSetKeeps, GpioUnsetKeeps,
     LineKeeps, GpioCallbackKeeps DEF GpioNext
<1>3. CASE ~fault /\ SerialNext /\ UNCHANGED gpioVars
  BY <1>3, SerialRequestKeeps, SerialReleaseKeeps, SerialReadKeeps, SerialSetKeeps,
     SerialUnsetKeeps, SerialCallbackKeeps, SerialReturnsKeeps DEF SerialNext
<1>4. CASE \E w \in watches : StaleWatch(w) /\ UNCHANGED <<gpioVars, serialVars>>
  BY <1>4, StaleKeeps
<1> QED BY <1>1, <1>2, <1>3, <1>4 DEF IoNext

LEMMA IoStarts == IoInit => IoInv
<1> SUFFICES ASSUME IoInit PROVE IoInv
  OBVIOUS
<1> USE DEF IoInit, FdInit, GpioInit, SerialInit
<1>1. FdTypes
  <2>1. IsFiniteSet(watches) /\ IsFiniteSet(heap) BY FS_EmptySet
  <2>2. nextWatch \in 1..(MaxWatches + 1) /\ loopRefs \in 0..MaxRefs BY FdLoopAssumption
  <2>3. fault \in BOOLEAN /\ misused \in BOOLEAN OBVIOUS
  <2>4. fds \subseteq 3..(3 + MaxFds) /\ heap \subseteq Nat /\ watches = {} OBVIOUS
  <2> QED BY <2>1, <2>2, <2>3, <2>4 DEF FdTypes
<1>2. GpioTypes BY DEF GpioTypes, Owners
<1>3. SerialTypes BY SerialAssumption DEF SerialTypes
<1>4. (\A p \in Pins : ~Held(p)) /\ (\A s \in Ports : ~Opened(s)) BY DEF Held, Opened
<1>5. IoNodes /\ OwnBlocks /\ OwnFds BY <1>4 DEF IoNodes, OwnBlocks, OwnFds
<1>6. LoopCounted
  <2>1. LoopPins = {} /\ LoopPorts = {} BY <1>4 DEF LoopPins, LoopPorts
  <2> QED BY <2>1, FS_EmptySet DEF LoopCounted
<1>7. ListedIsExported
  <2>1. \A p \in Pins : exported[p] # "us" OBVIOUS
  <2> QED BY <1>4, <2>1 DEF ListedIsExported
<1>8. OwnWatches /\ IdlePins /\ NoEdgeLost /\ InPort
  BY <1>4 DEF OwnWatches, IdlePins, NoEdgeLost, InPort
<1>9. NoIoFault BY DEF NoIoFault
<1> QED BY <1>1, <1>2, <1>3, <1>5, <1>6, <1>7, <1>8, <1>9 DEF IoInv, IoTypes, IoHolds

LEMMA IoIsInv == IoSpec => []IoInv
BY IoStarts, IoStep, PTL DEF IoSpec

LEMMA IoInvShows ==
  ASSUME IoInv
  PROVE  /\ IoTypeOK /\ ListedIsExported /\ NoEdgeLost /\ NoIoFault
         /\ WatchesAreLive /\ LoopIsReferenced
<1>0. /\ FdTypes /\ GpioTypes /\ SerialTypes /\ IoNodes /\ LoopCounted
      /\ ListedIsExported /\ OwnWatches /\ NoEdgeLost /\ NoIoFault
  BY DEF IoInv, IoTypes, IoHolds
<1>1. FdTypeOK BY <1>0 DEF FdTypes, FdTypeOK
<1>2. GpioTypeOK
  <2>1. ASSUME NEW p \in Pins, Held(p)
        PROVE  /\ gpios[p].dir \in {"in", "out"} /\ gpios[p].data \in heap
               /\ gpios[p].fd \in {0} \cup (3 .. 3 + MaxFds)
    <3>1. gpios[p] \in PinNodes BY <1>0, <2>1 DEF GpioTypes, Held
    <3>2. gpios[p].data \in heap /\ gpios[p].fd \in fds \cup {0} BY <1>0, <2>1 DEF IoNodes
    <3> QED BY <1>0, <3>1, <3>2 DEF FdTypes, PinNodes
  <2> QED BY <1>0, <2>1 DEF GpioTypes, GpioTypeOK
<1>3. SerialTypeOK
  <2>1. ASSUME NEW s \in Ports, Opened(s)
        PROVE  serials[s].data \in heap /\ serials[s].fd \in {0} \cup (3 .. 3 + MaxFds)
    BY <1>0, <2>1 DEF IoNodes, FdTypes
  <2> QED BY <1>0, <2>1 DEF SerialTypes, SerialTypeOK
<1>4. WatchesAreLive
  <2> SUFFICES ASSUME ~misused, NEW w \in watches
               PROVE  /\ w.data \in heap /\ w.fd \in fds \cup {0}
                      /\ \/ \E p \in Pins : Held(p) /\ gpios[p].data = w.data /\ gpios[p].watch = w.id
                         \/ \E s \in Ports : Opened(s) /\ serials[s].data = w.data
                                             /\ serials[s].watch = w.id
    BY Zenon DEF WatchesAreLive
  <2>1. (\E q \in Pins : PinWatch(w, q)) \/ (\E t \in Ports : PortWatch(w, t))
    BY <1>0, Zenon DEF OwnWatches
  <2>2. \/ \E q \in Pins : Held(q) /\ gpios[q].data = w.data /\ gpios[q].watch = w.id
                           /\ gpios[q].fd = w.fd
        \/ \E t \in Ports : Opened(t) /\ serials[t].data = w.data /\ serials[t].watch = w.id
                            /\ serials[t].fd = w.fd
    BY <2>1, Zenon DEF PinWatch, PortWatch
  <2> QED BY <1>0, <2>2 DEF IoNodes
<1>5. LoopIsReferenced
  <2> SUFFICES ASSUME ~misused, NEW w \in watches PROVE loopRefs > 0
    BY Zenon DEF LoopIsReferenced
  <2>1. LoopPins # {} \/ LoopPorts # {}
    <3>1. (\E q \in Pins : PinWatch(w, q)) \/ (\E t \in Ports : PortWatch(w, t))
      BY <1>0, Zenon DEF OwnWatches
    <3>2. (\E q \in Pins : Held(q) /\ gpios[q].loop) \/ (\E t \in Ports : Opened(t) /\ serials[t].loop)
      BY <3>1, Zenon DEF PinWatch, PortWatch
    <3> QED BY <3>2 DEF LoopPins, LoopPorts
  <2>2. /\ Cardinality(LoopPins) \in Nat /\ Cardinality(LoopPorts) \in Nat /\ loopRefs \in Nat
        /\ Cardinality(LoopPins) + Cardinality(LoopPorts) <= loopRefs
    BY <1>0, FS_CardinalityType, FdLoopAssumption DEF LoopCounted, FdTypes
  <2>3. Cardinality(LoopPins) # 0 \/ Cardinality(LoopPorts) # 0
    BY <1>0, <2>1, FS_EmptySet DEF LoopCounted
  <2> QED BY <2>2, <2>3
<1> QED BY <1>0, <1>1, <1>2, <1>3, <1>4, <1>5 DEF IoTypeOK

-----------------------------------------------------------------------------
\* From every state that calls, failures, edges, other processes and callbacks
\* in any order reach: what is listed is exported and held by one device, every
\* watch has its device with the block, the descriptor and the reference it
\* needs, no edge is lost and no callback uses what is freed unless the
\* application left the order; pwm channels, i2c slaves and leaked descriptors
\* are as their drivers count them (linux_gpio.c, linux_serial.c, linux_pwm.c,
\* linux_adc.c, linux_i2c.c, linux_spi.c).
THEOREM SystemioIsSound == IoSpec /\ BusSpec => []SystemioSound
<1>1. BusInv => BusTypeOK /\ OneHandlePerChannel /\ ReleasedIsOff /\ FaultNeedsDriver
  <2> SUFFICES ASSUME BusInv PROVE BusTypeOK /\ OneHandlePerChannel /\ ReleasedIsOff /\ FaultNeedsDriver
    OBVIOUS
  <2>1. BusTypes /\ OneHandlePerChannel /\ ReleasedIsOff /\ FaultNeedsDriver BY DEF BusInv
  <2>2. \A n \in pwmList : n.pin \in PwmPins /\ n.intact \in BOOLEAN BY <2>1 DEF BusTypes
  <2>3. \A c \in Channels : pwmChan[c].owner \in {"nobody", "us", "other"}
    BY <2>1 DEF BusTypes, ChannelStates
  <2>4. \A n \in i2cList : n.id \in Buses /\ n.address \in Addresses BY <2>1 DEF BusTypes
  <2> QED BY <2>1, <2>2, <2>3, <2>4 DEF BusTypes, BusTypeOK
<1>2. IoInv /\ BusInv => SystemioSound
  BY <1>1, IoInvShows DEF SystemioSound
<1> QED BY <1>2, IoIsInv, BusIsInv, PTL


-----------------------------------------------------------------------------
(* Wifi.  While no answer is late the answer read is the one to the request *)
(* that was sent, so each step of wifi_connect is about the profile the one *)
(* before it chose; freed memory is told by who closed the connection.      *)

Nets == [ssid : Ssids \cup {"unset", "none"}, keyed : BOOLEAN]
Supplicants == [alive : BOOLEAN, scanning : BOOLEAN, nets : [Ids -> Nets], selected : Ids \cup {-1}]
WpaAnswers == [kind : {"ok", "fail", "scan", "list", "id", "none"}, id : Ids,
            nets : SUBSET (Ids \X (Ssids \cup {"unset", "none"}))]
WEvents == {"scan_results", "link", "terminating"}
CallSteps == {"list", "add", "ssid", "key", "select", "save"}

WfTypes ==
  /\ wifi \in [initialized : BOOLEAN, connected : BOOLEAN, mode : {"none", "station", "ap"},
               ifname : BOOLEAN, ctrl : {"null", "live", "freed"}]
  /\ cli \in [conn : BOOLEAN, mon : BOOLEAN, scan : BOOLEAN]
  /\ replies \in Seq(WpaAnswers) /\ Len(replies) <= 1
  /\ wEvents \in Seq(WEvents) /\ Len(wEvents) <= MaxEvents
  /\ handling \in [event : WEvents \cup {"none"}, open : BOOLEAN]
  /\ call \in [step : CallSteps \cup {"none"}, ssid : Ssids \cup {"none"}, id : Ids, refused : BOOLEAN]
  /\ supp \in Supplicants
  /\ slipped \in BOOLEAN /\ lostNets \in BOOLEAN
  /\ closedBy \in {"nobody", "terminating", "deinit"}
  /\ wFault \in {"none", "request", "parse", "pending"}

\* The copy of the pointer is good while the connection is there; deinit
\* leaves the mode, so only wifi_connected lets a request follow it.
WfLink ==
  /\ cli.mon => cli.conn
  /\ cli.conn <=> wifi.ctrl = "live"
  /\ cli.conn => wifi.initialized
  /\ wifi.ctrl = "freed" => closedBy \in {"terminating", "deinit"}
  /\ wifi.ctrl = "freed" /\ closedBy = "deinit" => wifi.mode = "none" /\ call.step = "none"
  /\ ~handling.open => closedBy = "deinit" /\ handling # NotHandling

\* What the steps of wifi_connect have done to the profile they go on with.
CallRight(c, s, late) ==
  /\ c.step # "none" => c.ssid \in Ssids
  /\ ~late =>
       LET n == s.nets[c.id]
       IN  /\ c.step = "ssid" /\ ~c.refused /\ n.ssid \in Ssids => <<n.ssid, c.ssid>> \in NameContains
           /\ c.step \in {"key", "select", "save"} => n.ssid = c.ssid
           /\ c.step \in {"select", "save"} => n.keyed
           /\ c.step = "save" => s.selected = c.id

\* An answer waits on the socket only after a request timed out.
WfCall ==
  /\ replies # <<>> => slipped
  /\ CallRight(call, supp, slipped)

WfInv == WfTypes /\ WfLink /\ WfCall /\ WifiFaultHasCause /\ ProfileLostHasCause

\* The least id of a set of them.
LEMMA LeastId ==
  ASSUME NEW S, S \subseteq Nat, S # {}
  PROVE  (CHOOSE i \in S : \A j \in S : i <= j) \in S
<1>1. PICK i \in S : \A j \in S : ~(<<j, i>> \in OpToRel(<, Nat))
  BY WFMin, NatLessThanWellFounded, Zenon
<1>2. ASSUME NEW j \in S PROVE i <= j
  <2>1. <<j, i>> \in Nat \X Nat
    OBVIOUS
  <2>2. ~(j < i)
    BY <1>1, <2>1 DEF OpToRel
  <2> QED BY <2>2
<1> QED BY <1>2

LEMMA PlainIs ==
  ASSUME WifiAssumption, NEW k \in {"ok", "fail", "scan", "list", "id", "none"}
  PROVE  Plain(k) \in WpaAnswers /\ Plain(k).kind = k /\ Plain(k).nets = {} /\ Plain(k).id = 0 /\ 0 \in Ids
<1>1. 0 \in Ids
  BY DEF WifiAssumption, Ids
<1> QED BY <1>1 DEF Plain, Reply, WpaAnswers

\* What a request leaves: when it succeeded and no answer was late its answer
\* is the one to it.
Fair(o, r, after) ==
  /\ o.ok \in BOOLEAN /\ o.reply \in WpaAnswers /\ o.supp \in {supp, after}
  /\ o.replies \in Seq(WpaAnswers) /\ Len(o.replies) <= 1 /\ o.slip \in BOOLEAN
  /\ o.replies # <<>> => o.slip
  /\ slipped => o.slip
  /\ ~o.ok => o.reply.kind = "none"
  /\ o.ok /\ ~slipped => o.reply = r /\ o.supp = after

LEMMA Outcome ==
  ASSUME WifiAssumption, WfInv, NEW r \in WpaAnswers, NEW after, NEW o \in _wifi_send_cmd(r, after)
  PROVE  wifi.ctrl # "freed" /\ Fair(o, r, after)
<1> DEFINE none == Plain("none")
<1>1. /\ TRUE \in BOOLEAN /\ FALSE \in BOOLEAN
      /\ none \in WpaAnswers /\ none.kind = "none"
  <2>1. TRUE \in BOOLEAN /\ FALSE \in BOOLEAN
    BY Zenon
  <2> QED BY <2>1, PlainIs
<1>2. /\ wifi.ctrl \in {"null", "live", "freed"} /\ replies \in Seq(WpaAnswers) /\ Len(replies) <= 1
      /\ slipped \in BOOLEAN /\ (replies # <<>> => slipped)
  BY DEF WfInv, WfTypes, WfCall
<1>3. wifi.ctrl # "freed"
  BY DEF _wifi_send_cmd
<1>4. \/ o = [ok |-> FALSE, reply |-> none, replies |-> replies, supp |-> supp, slip |-> slipped]
      \/ replies # <<>> /\ o = [ok |-> TRUE, reply |-> Head(replies), replies |-> Append(Tail(replies), r),
                                supp |-> after, slip |-> slipped]
      \/ o = [ok |-> TRUE, reply |-> r, replies |-> <<>>, supp |-> after, slip |-> slipped]
      \/ o = [ok |-> FALSE, reply |-> none, replies |-> <<r>>, supp |-> after, slip |-> TRUE]
  BY <1>2, <1>3 DEF _wifi_send_cmd, wpa_ctrl_request
<1> HIDE DEF none
<1>5. CASE o = [ok |-> FALSE, reply |-> none, replies |-> replies, supp |-> supp, slip |-> slipped]
  BY <1>1, <1>2, <1>3, <1>5 DEF Fair
<1>6. CASE replies # <<>> /\ o = [ok |-> TRUE, reply |-> Head(replies), replies |-> Append(Tail(replies), r),
                                  supp |-> after, slip |-> slipped]
  <2>1. Head(replies) \in WpaAnswers /\ Append(Tail(replies), r) \in Seq(WpaAnswers) /\ Len(Append(Tail(replies), r)) <= 1
    BY <1>2, <1>6
  <2> QED BY <1>1, <1>2, <1>3, <1>6, <2>1 DEF Fair
<1>7. CASE o = [ok |-> TRUE, reply |-> r, replies |-> <<>>, supp |-> after, slip |-> slipped]
  <2>1. <<>> \in Seq(WpaAnswers) /\ Len(<<>>) <= 1
    OBVIOUS
  <2> QED BY <1>1, <1>2, <1>3, <1>7, <2>1 DEF Fair
<1>8. CASE o = [ok |-> FALSE, reply |-> none, replies |-> <<r>>, supp |-> after, slip |-> TRUE]
  <2>1. <<r>> \in Seq(WpaAnswers) /\ Len(<<r>>) <= 1
    OBVIOUS
  <2> QED BY <1>1, <1>2, <1>3, <1>8, <2>1 DEF Fair
<1> QED BY <1>4, <1>5, <1>6, <1>7, <1>8

-----------------------------------------------------------------------------
WfWifi == [initialized : BOOLEAN, connected : BOOLEAN, mode : {"none", "station", "ap"},
           ifname : BOOLEAN, ctrl : {"null", "live", "freed"}]
WfCli == [conn : BOOLEAN, mon : BOOLEAN, scan : BOOLEAN]
WfHandling == [event : WEvents \cup {"none"}, open : BOOLEAN]
WfCalls == [step : CallSteps \cup {"none"}, ssid : Ssids \cup {"none"}, id : Ids, refused : BOOLEAN]

\* After a fault nothing runs any more.
LEMMA FaultIsFinal ==
  ASSUME wFault # "none", WifiNext
  PROVE  UNCHANGED wifiVars
BY DEF WifiNext, Runs, os_wifi_init, os_wifi_deinit, os_wifi_scan_request, os_wifi_get_scan_result,
       os_wifi_connect, ConnectStep, wifi_connect_list, wifi_connect_add, wifi_connect_ssid,
       wifi_connect_key, wifi_connect_select, wifi_connect_save, Step, os_wifi_disconnect,
       os_wifi_set_callback, os_wifi_start_ap, wpa_cli_recv_pending, CallbackReturns, ScanEnds, SupplicantEvent

LEMMA WifiStutters ==
  ASSUME WfInv, UNCHANGED wifiVars
  PROVE  WfInv'
BY DEF WfInv, WfTypes, WfLink, WfCall, WifiFaultHasCause, ProfileLostHasCause, wifiVars

\* Freed memory is used: the connection ended, or the module was deinitialized
\* and only wifi_connected lets the request through.
LEMMA FreedStep ==
  ASSUME WfInv, UsesFreed, UNCHANGED <<wEvents, handling, lostNets, closedBy>>,
         wifi.mode = "station" \/ call.step # "none" \/ wifi.connected, wFault = "none"
  PROVE  WfInv'
<1>1. /\ wifi.ctrl = "freed" /\ wFault' = "request"
      /\ UNCHANGED <<replies, supp, slipped, wifi, cli, call, wEvents, handling, lostNets, closedBy>>
  BY DEF UsesFreed
<1>2. closedBy = "terminating" \/ (closedBy = "deinit" /\ wifi.connected)
  BY <1>1 DEF WfInv, WfLink
<1>3. WfTypes'
  BY <1>1 DEF WfInv, WfTypes
<1>4. WfLink' /\ WfCall' /\ ProfileLostHasCause'
  BY <1>1 DEF WfInv, WfLink, WfCall, ProfileLostHasCause
<1> QED BY <1>1, <1>2, <1>3, <1>4 DEF WfInv, WifiFaultHasCause

LEMMA InitStep ==
  ASSUME WfInv, NEW mode \in {"station", "ap"}, os_wifi_init(mode)
  PROVE  WfInv'
<1>1. /\ wFault = "none" /\ call.step = "none" /\ ~wifi.initialized
      /\ UNCHANGED <<replies, wEvents, handling, call, supp, slipped, lostNets, closedBy, wFault>>
  BY DEF os_wifi_init, Runs
<1>2. wifi \in WfWifi /\ cli \in WfCli /\ ~cli.conn /\ wifi.ctrl # "live"
  BY <1>1 DEF WfInv, WfTypes, WfWifi, WfCli, WfLink
<1>3. CASE UNCHANGED <<wifi, cli>>
  BY <1>1, <1>3, WifiStutters DEF wifiVars
<1>4. CASE ~UNCHANGED <<wifi, cli>>
  <2>1. PICK c \in wpa_cli_open_connection :
           /\ cli' = [cli EXCEPT !.conn = c.conn, !.mon = c.mon, !.scan = IF c.conn THEN FALSE ELSE @]
           /\ wifi' = IF c.conn
                      THEN [wifi EXCEPT !.ifname = TRUE, !.ctrl = "live", !.initialized = TRUE, !.mode = mode]
                      ELSE [wifi EXCEPT !.ifname = TRUE]
    BY <1>4 DEF os_wifi_init, wifi_initialize
  <2>2. c.conn \in BOOLEAN /\ c.mon \in BOOLEAN /\ (c.mon => c.conn)
    <3>1. wpa_ctrl_open2 \subseteq BOOLEAN
      BY DEF wpa_ctrl_open2
    <3>2. FALSE \in BOOLEAN
      BY Zenon
    <3>3. CASE c = [conn |-> FALSE, mon |-> FALSE]
      BY <3>2, <3>3
    <3>4. CASE c # [conn |-> FALSE, mon |-> FALSE]
      <4>1. PICK conn, mon \in BOOLEAN : c = [conn |-> conn, mon |-> conn /\ mon]
        BY <3>1, <3>4 DEF wpa_cli_open_connection
      <4>2. (conn /\ mon) \in BOOLEAN
        BY Zenon
      <4> QED BY <4>1, <4>2
    <3> QED BY <3>3, <3>4
  <2>3. TRUE \in BOOLEAN /\ FALSE \in BOOLEAN
    BY Zenon
  <2>4. cli' \in WfCli /\ cli'.conn = c.conn /\ cli'.mon = c.mon
    <3>1. (IF c.conn THEN FALSE ELSE cli.scan) \in BOOLEAN
      BY <1>2, <2>2, <2>3 DEF WfCli
    <3> QED BY <1>2, <2>1, <2>2, <3>1 DEF WfCli
  <2>5. CASE c.conn
    <3>1. wifi' = [wifi EXCEPT !.ifname = TRUE, !.ctrl = "live", !.initialized = TRUE, !.mode = mode]
      BY <2>1, <2>5
    <3>2. wifi' \in WfWifi /\ wifi'.ctrl = "live" /\ wifi'.initialized
      BY <1>2, <2>3, <3>1 DEF WfWifi
    <3>3. WfTypes'
      BY <1>1, <2>4, <3>2 DEF WfInv, WfTypes, WfWifi, WfCli
    <3>4. WfLink'
      BY <1>1, <2>2, <2>4, <2>5, <3>2 DEF WfInv, WfLink
    <3> QED BY <1>1, <3>3, <3>4 DEF WfInv, WfCall, WifiFaultHasCause, ProfileLostHasCause
  <2>6. CASE ~c.conn
    <3>1. wifi' = [wifi EXCEPT !.ifname = TRUE]
      BY <2>1, <2>6
    <3>2. wifi' \in WfWifi /\ wifi'.ctrl = wifi.ctrl /\ wifi'.mode = wifi.mode
      BY <1>2, <2>3, <3>1 DEF WfWifi
    <3>3. WfTypes'
      BY <1>1, <2>4, <3>2 DEF WfInv, WfTypes, WfWifi, WfCli
    <3>4. WfLink'
      BY <1>1, <1>2, <2>2, <2>4, <2>6, <3>2 DEF WfInv, WfLink
    <3> QED BY <1>1, <3>3, <3>4 DEF WfInv, WfCall, WifiFaultHasCause, ProfileLostHasCause
  <2> QED BY <2>5, <2>6
<1> QED BY <1>3, <1>4

LEMMA DeinitStep ==
  ASSUME WfInv, os_wifi_deinit
  PROVE  WfInv'
<1>1. /\ wFault = "none" /\ call.step = "none" /\ wifi.initialized
      /\ cli' = [cli EXCEPT !.conn = FALSE, !.mon = FALSE]
      /\ wifi' = [wifi EXCEPT !.initialized = FALSE, !.mode = "none", !.ifname = FALSE,
                              !.ctrl = IF cli.conn THEN "freed" ELSE @]
      /\ handling' = [handling EXCEPT !.open = @ /\ (handling = NotHandling \/ ~cli.conn)]
      /\ replies' = <<>> /\ wEvents' = <<>> /\ slipped' = FALSE
      /\ closedBy' = IF cli.conn THEN "deinit" ELSE closedBy
      /\ UNCHANGED <<call, supp, lostNets, wFault>>
  BY DEF os_wifi_deinit, Runs
<1>2. wifi \in WfWifi /\ cli \in WfCli /\ handling \in WfHandling /\ (cli.conn <=> wifi.ctrl = "live")
      /\ closedBy \in {"nobody", "terminating", "deinit"} /\ MaxEvents \in Nat
  BY WifiAssumption DEF WfInv, WfTypes, WfWifi, WfCli, WfHandling, WfLink, WifiAssumption
<1>3. TRUE \in BOOLEAN /\ FALSE \in BOOLEAN
  BY Zenon
<1>4. cli' \in WfCli /\ cli'.conn = FALSE /\ cli'.mon = FALSE
  BY <1>1, <1>2, <1>3 DEF WfCli
<1>5. wifi' \in WfWifi /\ wifi'.mode = "none" /\ wifi'.ctrl = (IF cli.conn THEN "freed" ELSE wifi.ctrl)
  BY <1>1, <1>2, <1>3 DEF WfWifi
<1> DEFINE op == handling.open /\ (handling = NotHandling \/ ~cli.conn)
<1>6. op \in BOOLEAN /\ handling.open \in BOOLEAN
  BY <1>2, Zenon DEF WfHandling
<1>7. ~cli.conn /\ ~op => ~handling.open
  BY <1>6
<1> HIDE DEF op
<1>8. handling' = [handling EXCEPT !.open = op]
  BY <1>1 DEF op
<1>9. handling' \in WfHandling /\ handling'.open = op /\ NotHandling.open = TRUE
  BY <1>2, <1>6, <1>8 DEF WfHandling, NotHandling
<1>10. <<>> \in Seq(WpaAnswers) /\ <<>> \in Seq(WEvents) /\ Len(<<>>) = 0
  OBVIOUS
<1>11. WfTypes'
  <2>1. slipped' \in BOOLEAN /\ closedBy' \in {"nobody", "terminating", "deinit"}
    BY <1>1, <1>2, <1>3
  <2>2. replies' \in Seq(WpaAnswers) /\ Len(replies') <= 1 /\ wEvents' \in Seq(WEvents) /\ Len(wEvents') <= MaxEvents
    BY <1>1, <1>2, <1>10
  <2> QED BY <1>1, <1>4, <1>5, <1>9, <2>1, <2>2 DEF WfInv, WfTypes, WfWifi, WfCli, WfHandling
<1>12. WfLink'
  <2>1. ~handling'.open => closedBy' = "deinit" /\ handling' # NotHandling
    <3>1. ~handling'.open => handling' # NotHandling
      BY <1>9
    <3>2. CASE cli.conn
      BY <1>1, <3>1, <3>2
    <3>3. CASE ~cli.conn
      <4>1. ~handling.open => closedBy = "deinit"
        BY DEF WfInv, WfLink
      <4>2. ~handling'.open => ~handling.open
        BY <1>7, <1>9, <3>3
      <4> QED BY <1>1, <3>1, <3>3, <4>1, <4>2
    <3> QED BY <3>2, <3>3
  <2>2. wifi'.ctrl # "live"
    BY <1>2, <1>5
  <2>3. wifi'.ctrl = "freed" => closedBy' \in {"terminating", "deinit"}
    BY <1>1, <1>2, <1>5 DEF WfInv, WfLink
  <2> QED BY <1>1, <1>4, <1>5, <2>1, <2>2, <2>3 DEF WfLink
<1>13. WfCall' /\ ProfileLostHasCause'
  BY <1>1 DEF WfInv, WfCall, CallRight, ProfileLostHasCause
<1> QED BY <1>1, <1>11, <1>12, <1>13 DEF WfInv, WifiFaultHasCause


\* A step of a call or of the supplicant: the link stays as it is.
LEMMA CallStep ==
  ASSUME WfInv, wFault = "none", UNCHANGED <<handling, closedBy>>,
         wEvents' \in Seq(WEvents), Len(wEvents') <= MaxEvents,
         replies' \in Seq(WpaAnswers), Len(replies') <= 1, replies' # <<>> => slipped', slipped' \in BOOLEAN,
         supp' \in Supplicants, call' \in WfCalls, CallRight(call', supp', slipped'),
         cli' \in WfCli, cli'.conn = cli.conn, cli'.mon = cli.mon,
         wifi' \in WfWifi, wifi'.ctrl = wifi.ctrl, wifi'.initialized = wifi.initialized,
         wifi.ctrl = "freed" /\ closedBy = "deinit" => wifi'.mode = "none" /\ call'.step = "none",
         wFault' \in {"none", "parse"}, wFault' = "parse" => slipped',
         lostNets' \in BOOLEAN, ~lostNets'
  PROVE  WfInv'
<1>1. WfTypes'
  BY DEF WfInv, WfTypes, WfWifi, WfCli, WfCalls
<1>2. WfLink'
  BY DEF WfInv, WfLink
<1>3. WfCall'
  BY DEF WfCall
<1> QED BY <1>1, <1>2, <1>3 DEF WfInv, WifiFaultHasCause, ProfileLostHasCause

LEMMA NoCallIs ==
  ASSUME WifiAssumption
  PROVE  /\ NoCall \in WfCalls /\ NoCall.step = "none" /\ NoCall.id = 0 /\ 0 \in Ids /\ ~NoCall.refused
         /\ \A s, late : CallRight(NoCall, s, late)
<1>1. 0 \in Ids /\ FALSE \in BOOLEAN
  <2>1. FALSE \in BOOLEAN
    BY Zenon
  <2> QED BY <2>1, PlainIs
<1>2. NoCall \in WfCalls /\ NoCall.step = "none" /\ NoCall.id = 0 /\ NoCall.refused = FALSE
  BY <1>1 DEF NoCall, WfCalls
<1> HIDE DEF NoCall
<1> QED BY <1>1, <1>2 DEF CallRight, NoCall

\* The parts of the invariant as facts about the variables.
LEMMA WfParts ==
  ASSUME WifiAssumption, WfInv
  PROVE  /\ wifi \in WfWifi /\ cli \in WfCli /\ handling \in WfHandling /\ call \in WfCalls
         /\ replies \in Seq(WpaAnswers) /\ Len(replies) <= 1 /\ (replies # <<>> => slipped)
         /\ wEvents \in Seq(WEvents) /\ Len(wEvents) <= MaxEvents /\ MaxEvents \in Nat
         /\ supp \in Supplicants /\ slipped \in BOOLEAN /\ lostNets \in BOOLEAN /\ ~lostNets
         /\ CallRight(call, supp, slipped)
BY DEF WfInv, WfTypes, WfWifi, WfCli, WfHandling, WfCalls, WfCall, ProfileLostHasCause, WifiAssumption

\* A request of no call of wifi_connect: what it does to active_scan, to
\* wifi_connected and the mode, and to the answer that is read.
LEMMA RequestStep ==
  ASSUME WifiAssumption, WfInv, wFault = "none", wifi.ctrl # "freed",
         UNCHANGED <<wEvents, handling, closedBy>>, lostNets' \in BOOLEAN, ~lostNets',
         NEW r \in WpaAnswers, NEW after \in Supplicants, NEW o, Fair(o, r, after), Sent(o),
         call' \in WfCalls, CallRight(call', o.supp, o.slip),
         cli' \in WfCli, cli'.conn = cli.conn, cli'.mon = cli.mon,
         wifi' \in WfWifi, wifi'.ctrl = wifi.ctrl, wifi'.initialized = wifi.initialized,
         wFault' \in {"none", "parse"}, wFault' = "parse" => slipped'
  PROVE  WfInv'
<1>1. /\ replies' = o.replies /\ supp' = o.supp /\ slipped' = o.slip
      /\ o.supp \in Supplicants /\ o.replies \in Seq(WpaAnswers) /\ Len(o.replies) <= 1 /\ o.slip \in BOOLEAN
      /\ o.replies # <<>> => o.slip
  BY WfParts DEF Sent, Fair
<1>2. wEvents' \in Seq(WEvents) /\ Len(wEvents') <= MaxEvents
  BY WfParts
<1> QED BY <1>1, <1>2, CallStep

LEMMA ScanRequestStep ==
  ASSUME WifiAssumption, WfInv, os_wifi_scan_request \/ os_wifi_get_scan_result
  PROVE  WfInv'
<1>1. /\ wFault = "none" /\ call.step = "none" /\ wifi.mode = "station"
      /\ UNCHANGED <<wEvents, handling, lostNets, closedBy>>
  BY DEF os_wifi_scan_request, os_wifi_get_scan_result, Idles, Runs
<1>2. CASE UsesFreed
  BY <1>1, <1>2, FreedStep
<1>3. CASE ~UsesFreed
  <2>1. TRUE \in BOOLEAN /\ FALSE \in BOOLEAN
    BY Zenon
  <2>2. [supp EXCEPT !.scanning = TRUE] \in Supplicants /\ supp \in Supplicants
    <3>1. supp \in Supplicants
      BY WfParts
    <3> QED BY <2>1, <3>1 DEF Supplicants
  <2>3. \E r \in WpaAnswers, after \in Supplicants : \E o \in _wifi_send_cmd(r, after) :
           /\ Sent(o) /\ UNCHANGED <<wifi, call>>
           /\ \/ /\ cli' = [cli EXCEPT !.scan = @ \/ o.reply.kind = "ok"] /\ wFault' = "none"
              \/ /\ UNCHANGED cli /\ r.kind = "scan"
                 /\ wFault' = IF o.reply.kind = "list" /\ o.reply.nets # {} THEN "parse" ELSE "none"
    <3>1. CASE os_wifi_scan_request
      <4>1. PICK k \in {"fail", "ok"} :
              \E o \in _wifi_send_cmd(Plain(k), [supp EXCEPT !.scanning = TRUE]) :
                Sent(o) /\ UNCHANGED <<wifi, call, wFault>> /\ cli' = [cli EXCEPT !.scan = @ \/ o.reply.kind = "ok"]
        BY <1>3, <3>1 DEF os_wifi_scan_request
      <4> QED BY <1>1, <2>2, <4>1, PlainIs
    <3>2. CASE os_wifi_get_scan_result
      <4>1. Plain("scan") \in WpaAnswers /\ Plain("scan").kind = "scan"
        BY PlainIs
      <4> QED BY <1>3, <2>2, <3>2, <4>1 DEF os_wifi_get_scan_result
    <3> QED BY <3>1, <3>2
  <2>4. PICK r \in WpaAnswers, after \in Supplicants : \E o \in _wifi_send_cmd(r, after) :
           /\ Sent(o) /\ UNCHANGED <<wifi, call>>
           /\ \/ /\ cli' = [cli EXCEPT !.scan = @ \/ o.reply.kind = "ok"] /\ wFault' = "none"
              \/ /\ UNCHANGED cli /\ r.kind = "scan"
                 /\ wFault' = IF o.reply.kind = "list" /\ o.reply.nets # {} THEN "parse" ELSE "none"
    BY <2>3
  <2>5. PICK o \in _wifi_send_cmd(r, after) :
           /\ Sent(o) /\ UNCHANGED <<wifi, call>>
           /\ \/ /\ cli' = [cli EXCEPT !.scan = @ \/ o.reply.kind = "ok"] /\ wFault' = "none"
              \/ /\ UNCHANGED cli /\ r.kind = "scan"
                 /\ wFault' = IF o.reply.kind = "list" /\ o.reply.nets # {} THEN "parse" ELSE "none"
    BY <2>4
  <2>6. wifi.ctrl # "freed" /\ Fair(o, r, after)
    BY Outcome
  <2>7. cli' \in WfCli /\ cli'.conn = cli.conn /\ cli'.mon = cli.mon
    <3>1. cli \in WfCli
      BY WfParts
    <3>2. (cli.scan \/ o.reply.kind = "ok") \in BOOLEAN
      BY Zenon
    <3> QED BY <2>5, <3>1, <3>2 DEF WfCli
  <2>8. wFault' \in {"none", "parse"} /\ (wFault' = "parse" => slipped')
    BY <2>5, <2>6 DEF Fair, Sent
  <2>9. CallRight(call', o.supp, o.slip)
    BY <1>1, <2>5 DEF CallRight
  <2>10. call' \in WfCalls /\ wifi' \in WfWifi /\ lostNets' \in BOOLEAN /\ ~lostNets'
    BY <1>1, <2>5, WfParts
  <2> QED BY <1>1, <2>5, <2>6, <2>7, <2>8, <2>9, <2>10, RequestStep
<1> QED BY <1>2, <1>3


-----------------------------------------------------------------------------
(* wifi_connect, command by command.                                       *)

\* A step of wifi_connect that sends r: where the call goes on.
LEMMA ConnectRequest ==
  ASSUME WifiAssumption, WfInv, wFault = "none", UNCHANGED <<wEvents, handling, closedBy, wifi, cli>>,
         lostNets' \in BOOLEAN, ~lostNets',
         NEW r \in WpaAnswers, NEW after \in Supplicants, NEW o \in _wifi_send_cmd(r, after), Sent(o),
         call' \in WfCalls, CallRight(call', o.supp, o.slip),
         wFault' \in {"none", "parse"}, wFault' = "parse" => slipped'
  PROVE  WfInv'
<1>1. wifi.ctrl # "freed" /\ Fair(o, r, after)
  BY Outcome
<1>2. wifi' \in WfWifi /\ cli' \in WfCli
  BY WfParts
<1> QED BY <1>1, <1>2, RequestStep

LEMMA ConnectBegins ==
  ASSUME WifiAssumption, WfInv, NEW s \in Ssids, os_wifi_connect(s)
  PROVE  WfInv'
<1>1. /\ wFault = "none" /\ wifi.mode = "station" /\ call' = [NoCall EXCEPT !.step = "list", !.ssid = s]
      /\ UNCHANGED <<wifi, cli, replies, wEvents, handling, supp, slipped, lostNets, closedBy, wFault>>
  BY DEF os_wifi_connect, Runs
<1>2. call' \in WfCalls /\ call'.step = "list" /\ call'.ssid = s
  BY <1>1, NoCallIs DEF WfCalls, CallSteps
<1>3. CallRight(call', supp', slipped')
  BY <1>2 DEF CallRight
<1>4. ~(wifi.ctrl = "freed" /\ closedBy = "deinit")
  BY <1>1 DEF WfInv, WfLink
<1>5. /\ wEvents' \in Seq(WEvents) /\ Len(wEvents') <= MaxEvents
      /\ replies' \in Seq(WpaAnswers) /\ Len(replies') <= 1 /\ (replies' # <<>> => slipped') /\ slipped' \in BOOLEAN
      /\ supp' \in Supplicants /\ cli' \in WfCli /\ wifi' \in WfWifi /\ lostNets' \in BOOLEAN /\ ~lostNets'
  BY <1>1, WfParts
<1> QED BY <1>1, <1>2, <1>3, <1>4, <1>5, CallStep

\* The first profile whose name contains the one asked for; with a late answer
\* it may be any.
LEMMA ListStep ==
  ASSUME WifiAssumption, WfInv, wifi_connect_list
  PROVE  WfInv'
<1>1. wFault = "none" /\ call.step = "list" /\ UNCHANGED <<wEvents, handling, lostNets, closedBy>>
  BY DEF wifi_connect_list, Idles
<1>2. CASE UsesFreed
  BY <1>1, <1>2, FreedStep
<1>3. CASE ~UsesFreed
  <2> DEFINE r == Reply("list", 0, Listed)
             hits(o) == {n[1] : n \in {m \in o.reply.nets : <<m[2], call.ssid>> \in NameContains}}
  <2>1. PICK o \in _wifi_send_cmd(r, supp) :
          /\ Sent(o)
          /\ call' = IF ~o.ok THEN NoCall
                     ELSE IF hits(o) = {} THEN [call EXCEPT !.step = "add"]
                     ELSE [call EXCEPT !.step = "ssid", !.id = CHOOSE i \in hits(o) : \A j \in hits(o) : i <= j]
          /\ wFault' \in {"none"} \cup IF o.reply.kind = "scan" THEN {"parse"} ELSE {}
          /\ UNCHANGED <<wifi, cli>>
    BY <1>3 DEF wifi_connect_list
  <2>2. r \in WpaAnswers /\ r.kind = "list" /\ r.nets = Listed
    <3>1. \A i \in Ids : supp.nets[i].ssid \in Ssids \cup {"unset", "none"}
      BY WfParts DEF Supplicants, Nets
    <3>2. Listed \subseteq Ids \X (Ssids \cup {"unset", "none"})
      BY <3>1 DEF Listed
    <3> QED BY <3>2, NoCallIs DEF WpaAnswers, Reply
  <2> HIDE DEF r
  <2>3. Fair(o, r, supp) /\ supp \in Supplicants /\ call \in WfCalls /\ call.ssid \in Ssids /\ o.supp = supp
    BY <1>1, <2>2, WfParts, Outcome DEF Fair, CallRight
  <2>4. wFault' \in {"none", "parse"} /\ (wFault' = "parse" => slipped')
    BY <2>1, <2>2, <2>3 DEF Fair, Sent
  <2>5. call' \in WfCalls /\ CallRight(call', o.supp, o.slip)
    <3>1. CASE ~o.ok
      BY <2>1, <3>1, NoCallIs
    <3>2. CASE o.ok /\ hits(o) = {}
      <4>1. call' = [call EXCEPT !.step = "add"]
        BY <2>1, <3>2
      <4> HIDE DEF hits
      <4>2. call' \in WfCalls /\ call'.step = "add" /\ call'.ssid = call.ssid
        BY <2>3, <4>1 DEF WfCalls, CallSteps
      <4> QED BY <2>3, <4>2 DEF CallRight
    <3>3. CASE o.ok /\ hits(o) # {}
      <4> DEFINE k == CHOOSE i \in hits(o) : \A j \in hits(o) : i <= j
      <4>1. call' = [call EXCEPT !.step = "ssid", !.id = k]
        BY <2>1, <3>3
      <4>2. hits(o) \subseteq Ids
        <5>1. o.reply.nets \subseteq Ids \X (Ssids \cup {"unset", "none"})
          BY <2>3 DEF Fair, WpaAnswers
        <5>2. \A m \in o.reply.nets : m[1] \in Ids
          BY <5>1
        <5> QED BY <5>2
      <4>3. \A i \in hits(o) : \E m \in o.reply.nets : m[1] = i /\ <<m[2], call.ssid>> \in NameContains
        OBVIOUS
      <4> HIDE DEF hits
      <4>4. k \in hits(o) /\ k \in Ids
        <5>1. hits(o) \subseteq Nat
          BY <4>2 DEF Ids
        <5> QED BY <3>3, <4>2, <5>1, LeastId
      <4> HIDE DEF k
      <4>5. call' \in WfCalls /\ call'.step = "ssid" /\ call'.ssid = call.ssid /\ call'.id = k
        BY <2>3, <4>1, <4>4 DEF WfCalls, CallSteps
      <4>6. ASSUME ~o.slip PROVE <<supp.nets[k].ssid, call.ssid>> \in NameContains
        <5>1. o.reply.nets = Listed
          BY <2>2, <2>3, <3>3, <4>6 DEF Fair
        <5>2. PICK m \in Listed : m[1] = k /\ <<m[2], call.ssid>> \in NameContains
          BY <4>3, <4>4, <5>1
        <5>3. m[2] = supp.nets[k].ssid
          BY <5>2 DEF Listed
        <5> QED BY <5>2, <5>3
      <4> QED BY <2>3, <4>5, <4>6 DEF CallRight
    <3> QED BY <3>1, <3>2, <3>3
  <2>6. lostNets' \in BOOLEAN /\ ~lostNets'
    BY <1>1, WfParts
  <2> HIDE DEF hits
  <2> QED BY <1>1, <2>1, <2>2, <2>3, <2>4, <2>5, <2>6, ConnectRequest
<1> QED BY <1>2, <1>3

\* A profile that was added has no name yet; a refusal reads as profile 0.
LEMMA AddStep ==
  ASSUME WifiAssumption, WfInv, wifi_connect_add
  PROVE  WfInv'
<1>1. wFault = "none" /\ call.step = "add" /\ UNCHANGED <<wEvents, handling, lostNets, closedBy>>
  BY DEF wifi_connect_add, Idles
<1>2. CASE UsesFreed
  BY <1>1, <1>2, FreedStep
<1>3. CASE ~UsesFreed
  <2> DEFINE n == [ssid |-> "unset", keyed |-> FALSE]
             after == [supp EXCEPT !.nets[NewId] = n]
  <2>0. call \in WfCalls /\ call.ssid \in Ssids /\ supp \in Supplicants /\ lostNets' \in BOOLEAN /\ ~lostNets'
    BY <1>1, WfParts DEF CallRight
  <2>1. FreeIds # {} => NewId \in Ids
    <3>1. FreeIds \subseteq Ids /\ FreeIds \subseteq Nat
      BY DEF FreeIds, Ids
    <3> QED BY <3>1, LeastId DEF NewId
  <2>2. n \in Nets /\ n.ssid = "unset"
    <3>1. FALSE \in BOOLEAN
      BY Zenon
    <3> QED BY <3>1 DEF Nets
  <2> HIDE DEF n
  <2>3. FreeIds # {} => after \in Supplicants /\ after.nets[NewId] = n
    BY <2>0, <2>1, <2>2 DEF Supplicants
  <2> DEFINE next(o) == IF o.ok THEN [call EXCEPT !.step = "ssid", !.id = o.reply.id,
                                                  !.refused = o.reply.kind = "fail"]
                        ELSE NoCall
  <2>4. \A o : o.ok /\ o.reply \in WpaAnswers =>
           /\ next(o) \in WfCalls /\ next(o).step = "ssid" /\ next(o).ssid = call.ssid
           /\ next(o).id = o.reply.id /\ (o.reply.kind = "fail" => next(o).refused)
    <3> SUFFICES ASSUME NEW o, o.ok, o.reply \in WpaAnswers
                 PROVE  /\ next(o) \in WfCalls /\ next(o).step = "ssid" /\ next(o).ssid = call.ssid
                        /\ next(o).id = o.reply.id /\ (o.reply.kind = "fail" => next(o).refused)
      OBVIOUS
    <3> DEFINE b == o.reply.kind = "fail"
    <3>1. b \in BOOLEAN
      BY Zenon
    <3>2. next(o) = [call EXCEPT !.step = "ssid", !.id = o.reply.id, !.refused = b]
      OBVIOUS
    <3>3. o.reply.id \in Ids
      BY DEF WpaAnswers
    <3>4. b <=> o.reply.kind = "fail"
      OBVIOUS
    <3> HIDE DEF b, next
    <3> QED BY <2>0, <3>1, <3>2, <3>3, <3>4 DEF WfCalls, CallSteps
  <2>5. \A o : ~o.ok => next(o) = NoCall
    OBVIOUS
  <2>6. CASE FreeIds # {}
    <3>1. PICK o \in _wifi_send_cmd(Reply("id", NewId, {}), after) :
            Sent(o) /\ call' = next(o) /\ UNCHANGED <<wifi, cli, wFault>>
      BY <1>3, <2>6 DEF wifi_connect_add, n
    <3>2. Reply("id", NewId, {}) \in WpaAnswers /\ Reply("id", NewId, {}).id = NewId
      BY <2>1, <2>6 DEF Reply, WpaAnswers
    <3> HIDE DEF next, after
    <3>3. Fair(o, Reply("id", NewId, {}), after)
      BY <2>3, <2>6, <3>1, <3>2, Outcome
    <3>4. call' \in WfCalls /\ CallRight(call', o.supp, o.slip)
      <4>1. CASE ~o.ok
        BY <2>5, <3>1, <4>1, NoCallIs
      <4>2. CASE o.ok
        <5>1. /\ call' \in WfCalls /\ call'.step = "ssid" /\ call'.ssid = call.ssid
              /\ call'.id = o.reply.id
          BY <2>4, <3>1, <3>3, <4>2 DEF Fair
        <5>2. ~o.slip => o.supp.nets[call'.id].ssid = "unset"
          BY <2>2, <2>3, <2>6, <3>2, <3>3, <4>2, <5>1 DEF Fair
        <5> QED BY <2>0, <5>1, <5>2, WifiAssumption DEF CallRight, WifiAssumption
      <4> QED BY <4>1, <4>2
    <3> QED BY <1>1, <2>0, <2>3, <2>6, <3>1, <3>2, <3>4, ConnectRequest
  <2>7. CASE FreeIds = {}
    <3>1. PICK o \in _wifi_send_cmd(Plain("fail"), supp) :
            Sent(o) /\ call' = next(o) /\ UNCHANGED <<wifi, cli, wFault>>
      BY <1>3, <2>7 DEF wifi_connect_add
    <3>2. Plain("fail") \in WpaAnswers /\ Plain("fail").kind = "fail"
      BY PlainIs
    <3> HIDE DEF next
    <3>3. Fair(o, Plain("fail"), supp)
      BY <2>0, <3>1, <3>2, Outcome
    <3>4. call' \in WfCalls /\ CallRight(call', o.supp, o.slip)
      <4>1. CASE ~o.ok
        BY <2>5, <3>1, <4>1, NoCallIs
      <4>2. CASE o.ok
        <5>1. /\ call' \in WfCalls /\ call'.step = "ssid" /\ call'.ssid = call.ssid
              /\ (o.reply.kind = "fail" => call'.refused)
          BY <2>4, <3>1, <3>3, <4>2 DEF Fair
        <5>2. ~o.slip => call'.refused
          BY <3>2, <3>3, <4>2, <5>1 DEF Fair
        <5> QED BY <2>0, <5>1, <5>2 DEF CallRight
      <4> QED BY <4>1, <4>2
    <3> QED BY <1>1, <2>0, <3>1, <3>2, <3>4, ConnectRequest
  <2> QED BY <2>6, <2>7
<1> QED BY <1>2, <1>3


\* One command about the profile: while no answer is late the call goes on
\* only when the supplicant did what it was asked.
LEMMA ProfileStep ==
  ASSUME WifiAssumption, WfInv, NEW at \in {"ssid", "key", "select"}, NEW next \in {"key", "select", "save"},
         NEW after \in Supplicants, Step(at, next, after),
         ~slipped => CallRight([call EXCEPT !.step = next], after, FALSE),
         UNCHANGED <<wEvents, handling, closedBy>>, lostNets' \in BOOLEAN, ~lostNets',
         UsesFreed => lostNets' = lostNets
  PROVE  WfInv'
<1>1. wFault = "none" /\ call.step = at
  BY DEF Step
<1>2. CASE UsesFreed
  <2>1. call.step # "none"
    BY <1>1
  <2> QED BY <1>1, <1>2, <2>1, FreedStep
<1>3. CASE ~UsesFreed
  <2> DEFINE go == [call EXCEPT !.step = next]
  <2>1. call \in WfCalls /\ supp \in Supplicants /\ call.ssid \in Ssids
    BY <1>1, WfParts DEF CallRight
  <2>2. go \in WfCalls /\ go.step = next /\ go.ssid = call.ssid
    BY <2>1 DEF WfCalls, CallSteps
  <2>3. PICK r \in {Plain("fail"), Plain("ok")}, s \in {supp, after} : \E o \in _wifi_send_cmd(r, s) :
          /\ (r = Plain("ok") => s = after)
          /\ Sent(o) /\ call' = (IF o.ok /\ o.reply.kind = "ok" THEN go ELSE NoCall)
          /\ UNCHANGED <<wifi, cli, wFault>>
    <3>1. Plain("fail") # Plain("ok")
      BY PlainIs
    <3> QED BY <1>3, <3>1 DEF Step
  <2> HIDE DEF go
  <2>4. PICK o \in _wifi_send_cmd(r, s) :
          /\ (r = Plain("ok") => s = after)
          /\ Sent(o) /\ call' = (IF o.ok /\ o.reply.kind = "ok" THEN go ELSE NoCall)
          /\ UNCHANGED <<wifi, cli, wFault>>
    BY <2>3
  <2>5. r \in WpaAnswers /\ s \in Supplicants /\ (r = Plain("fail") => r.kind = "fail") /\ (r = Plain("ok") => r.kind = "ok")
    BY <2>1, PlainIs
  <2>6. Fair(o, r, s)
    BY <2>4, <2>5, Outcome
  <2>7. call' \in WfCalls /\ CallRight(call', o.supp, o.slip)
    <3>1. CASE ~(o.ok /\ o.reply.kind = "ok")
      BY <2>4, <3>1, NoCallIs
    <3>2. CASE o.ok /\ o.reply.kind = "ok"
      <4>1. call' = go
        BY <2>4, <3>2
      <4>2. CASE o.slip
        BY <2>1, <2>2, <4>1, <4>2 DEF CallRight
      <4>3. CASE ~o.slip
        <5>1. ~slipped /\ o.reply = r /\ o.supp = s
          BY <2>6, <3>2, <4>3 DEF Fair
        <5>2. s = after
          BY <2>4, <2>5, <3>2, <5>1
        <5>3. CallRight(go, after, FALSE)
          BY <5>1 DEF go
        <5> QED BY <2>2, <4>1, <4>3, <5>1, <5>2, <5>3 DEF CallRight
      <4> QED BY <4>2, <4>3
    <3> QED BY <3>1, <3>2
  <2> QED BY <1>1, <2>4, <2>5, <2>7, ConnectRequest
<1> QED BY <1>2, <1>3

LEMMA SsidStep ==
  ASSUME WifiAssumption, WfInv, wifi_connect_ssid
  PROVE  WfInv'
<1> DEFINE old == supp.nets[call.id].ssid
           after == [supp EXCEPT !.nets[call.id].ssid = call.ssid]
           lost == supp' = after /\ old \in Ssids /\ <<old, call.ssid>> \notin NameContains /\ ~slipped /\ ~call.refused
<1>1. Step("ssid", "key", after) /\ lostNets' = (lostNets \/ lost) /\ UNCHANGED <<wEvents, handling, closedBy>>
      /\ call.step = "ssid"
  BY DEF wifi_connect_ssid, Step
<1>2. /\ call \in WfCalls /\ supp \in Supplicants /\ lostNets \in BOOLEAN /\ ~lostNets /\ slipped \in BOOLEAN
      /\ CallRight(call, supp, slipped)
  BY WfParts
<1>3. ~lost
  BY <1>1, <1>2 DEF CallRight
<1>4. after \in Supplicants /\ after.nets[call.id].ssid = call.ssid
  <2>1. call.id \in Ids /\ call.ssid \in Ssids /\ supp.nets[call.id] \in Nets /\ supp.nets \in [Ids -> Nets]
    BY <1>1, <1>2 DEF WfCalls, Supplicants, CallRight
  <2> DEFINE n == [supp.nets[call.id] EXCEPT !.ssid = call.ssid]
  <2>2. n \in Nets /\ n.ssid = call.ssid
    BY <2>1 DEF Nets
  <2>3. after = [supp EXCEPT !.nets[call.id] = n]
    OBVIOUS
  <2> HIDE DEF n
  <2>4. [supp EXCEPT !.nets[call.id] = n] \in Supplicants /\ [supp EXCEPT !.nets[call.id] = n].nets[call.id] = n
    BY <1>2, <2>1, <2>2 DEF Supplicants
  <2> QED BY <2>2, <2>3, <2>4
<1>5. lostNets' \in BOOLEAN
  <2>1. (lostNets \/ lost) \in BOOLEAN
    BY Zenon
  <2> QED BY <1>1, <2>1
<1>6. ~lostNets'
  BY <1>1, <1>2, <1>3
<1>7. [call EXCEPT !.step = "key"].id = call.id /\ [call EXCEPT !.step = "key"].ssid = call.ssid
      /\ [call EXCEPT !.step = "key"].step = "key"
  BY <1>2 DEF WfCalls
<1> HIDE DEF after, lost, old
<1>8. call.ssid \in Ssids
  BY <1>1, <1>2 DEF CallRight
<1>9. CallRight([call EXCEPT !.step = "key"], after, FALSE)
  BY <1>4, <1>7, <1>8 DEF CallRight
<1>10. UsesFreed => lostNets' = lostNets
  <2>1. lostNets' = FALSE /\ lostNets = FALSE
    BY <1>2, <1>5, <1>6
  <2> QED BY <2>1
<1> QED BY <1>1, <1>4, <1>5, <1>6, <1>9, <1>10, ProfileStep

LEMMA KeyStep ==
  ASSUME WifiAssumption, WfInv, wifi_connect_key
  PROVE  WfInv'
<1> DEFINE after == [supp EXCEPT !.nets[call.id].keyed = TRUE]
           go == [call EXCEPT !.step = "select"]
<1>1. Step("key", "select", after) /\ UNCHANGED <<wEvents, handling, lostNets, closedBy>> /\ call.step = "key"
  BY DEF wifi_connect_key, Step, Idles
<1>2. call \in WfCalls /\ supp \in Supplicants /\ lostNets' \in BOOLEAN /\ ~lostNets' /\ CallRight(call, supp, slipped)
  BY <1>1, WfParts
<1>3. after \in Supplicants /\ after.nets[call.id].ssid = supp.nets[call.id].ssid /\ after.nets[call.id].keyed
  <2>1. call.id \in Ids /\ supp.nets[call.id] \in Nets /\ supp.nets \in [Ids -> Nets]
    BY <1>2 DEF WfCalls, Supplicants
  <2>2. TRUE \in BOOLEAN
    BY Zenon
  <2> DEFINE n == [supp.nets[call.id] EXCEPT !.keyed = TRUE]
  <2>3. n \in Nets /\ n.ssid = supp.nets[call.id].ssid /\ n.keyed
    BY <2>1, <2>2 DEF Nets
  <2>4. after = [supp EXCEPT !.nets[call.id] = n]
    OBVIOUS
  <2> HIDE DEF n
  <2>5. [supp EXCEPT !.nets[call.id] = n] \in Supplicants /\ [supp EXCEPT !.nets[call.id] = n].nets[call.id] = n
    BY <1>2, <2>1, <2>3 DEF Supplicants
  <2> QED BY <2>3, <2>4, <2>5
<1>4. go.id = call.id /\ go.ssid = call.ssid /\ go.step = "select"
  BY <1>2 DEF WfCalls
<1> HIDE DEF after, go
<1>5. ~slipped => CallRight(go, after, FALSE)
  BY <1>1, <1>2, <1>3, <1>4 DEF CallRight
<1> QED BY <1>1, <1>2, <1>3, <1>5, ProfileStep DEF go

LEMMA SelectStep ==
  ASSUME WifiAssumption, WfInv, wifi_connect_select
  PROVE  WfInv'
<1> DEFINE after == [supp EXCEPT !.selected = call.id]
           go == [call EXCEPT !.step = "save"]
<1>1. Step("select", "save", after) /\ UNCHANGED <<wEvents, handling, lostNets, closedBy>> /\ call.step = "select"
  BY DEF wifi_connect_select, Step, Idles
<1>2. call \in WfCalls /\ supp \in Supplicants /\ lostNets' \in BOOLEAN /\ ~lostNets' /\ CallRight(call, supp, slipped)
  BY <1>1, WfParts
<1>3. after \in Supplicants /\ after.nets = supp.nets /\ after.selected = call.id
  BY <1>2 DEF Supplicants, WfCalls
<1>4. go.id = call.id /\ go.ssid = call.ssid /\ go.step = "save"
  BY <1>2 DEF WfCalls
<1> HIDE DEF after, go
<1>5. ~slipped => CallRight(go, after, FALSE)
  BY <1>1, <1>2, <1>3, <1>4 DEF CallRight
<1> QED BY <1>1, <1>2, <1>3, <1>5, ProfileStep DEF go


LEMMA SaveStep ==
  ASSUME WifiAssumption, WfInv, wifi_connect_save
  PROVE  WfInv'
<1>1. wFault = "none" /\ call.step = "save" /\ UNCHANGED <<wEvents, handling, lostNets, closedBy>>
  BY DEF wifi_connect_save, Idles
<1>2. /\ wifi \in WfWifi /\ cli \in WfCli /\ supp \in Supplicants /\ lostNets' \in BOOLEAN /\ ~lostNets'
      /\ TRUE \in BOOLEAN
  <2>1. TRUE \in BOOLEAN
    BY Zenon
  <2> QED BY <1>1, <2>1, WfParts
<1>3. CASE UsesFreed
  <2>1. call.step # "none"
    BY <1>1
  <2> QED BY <1>1, <1>3, <2>1, FreedStep
<1>4. CASE /\ call' = NoCall /\ wifi' = [wifi EXCEPT !.connected = TRUE]
           /\ UNCHANGED <<cli, replies, supp, slipped, wFault>>
  <2>1. wifi' \in WfWifi /\ wifi'.ctrl = wifi.ctrl /\ wifi'.initialized = wifi.initialized
    BY <1>2, <1>4 DEF WfWifi
  <2>2. ~(wifi.ctrl = "freed" /\ closedBy = "deinit")
    BY <1>1 DEF WfInv, WfLink
  <2>3. /\ wEvents' \in Seq(WEvents) /\ Len(wEvents') <= MaxEvents
        /\ replies' \in Seq(WpaAnswers) /\ Len(replies') <= 1 /\ (replies' # <<>> => slipped') /\ slipped' \in BOOLEAN
        /\ supp' \in Supplicants /\ cli' \in WfCli
    BY <1>1, <1>4, WfParts
  <2>4. call' \in WfCalls /\ CallRight(call', supp', slipped')
    BY <1>4, NoCallIs
  <2> QED BY <1>1, <1>2, <1>4, <2>1, <2>2, <2>3, <2>4, CallStep
<1>5. CASE \E o \in _wifi_send_cmd(Plain("ok"), supp) :
             /\ Sent(o) /\ call' = NoCall
             /\ wifi' = [wifi EXCEPT !.connected = o.ok /\ o.reply.kind = "ok"]
             /\ UNCHANGED <<cli, wFault>>
  <2>1. PICK o \in _wifi_send_cmd(Plain("ok"), supp) :
             /\ Sent(o) /\ call' = NoCall
             /\ wifi' = [wifi EXCEPT !.connected = o.ok /\ o.reply.kind = "ok"]
             /\ UNCHANGED <<cli, wFault>>
    BY <1>5
  <2>2. Plain("ok") \in WpaAnswers
    BY PlainIs
  <2>3. wifi.ctrl # "freed" /\ Fair(o, Plain("ok"), supp)
    BY <1>2, <2>2, Outcome
  <2>4. (o.ok /\ o.reply.kind = "ok") \in BOOLEAN
    BY Zenon
  <2>5. wifi' \in WfWifi /\ wifi'.ctrl = wifi.ctrl /\ wifi'.initialized = wifi.initialized
    BY <1>2, <2>1, <2>4 DEF WfWifi
  <2>6. call' \in WfCalls /\ CallRight(call', o.supp, o.slip)
    BY <2>1, NoCallIs
  <2> QED BY <1>1, <1>2, <2>1, <2>2, <2>3, <2>5, <2>6, RequestStep
<1> QED BY <1>3, <1>4, <1>5 DEF wifi_connect_save

LEMMA DisconnectedStep ==
  ASSUME WifiAssumption, WfInv, os_wifi_disconnect
  PROVE  WfInv'
<1>1. wFault = "none" /\ wifi.connected /\ UNCHANGED <<wEvents, handling, lostNets, closedBy>>
  BY DEF os_wifi_disconnect, Idles, Runs
<1>2. CASE UsesFreed
  BY <1>1, <1>2, FreedStep
<1>3. CASE ~UsesFreed
  <2> DEFINE after == [supp EXCEPT !.selected = -1]
  <2>0. /\ wifi \in WfWifi /\ cli \in WfCli /\ supp \in Supplicants /\ lostNets' \in BOOLEAN /\ ~lostNets'
        /\ FALSE \in BOOLEAN
    <3>1. FALSE \in BOOLEAN
      BY Zenon
    <3> QED BY <1>1, <3>1, WfParts
  <2>1. after \in Supplicants
    BY <2>0 DEF Supplicants
  <2>2. PICK o \in _wifi_send_cmd(Plain("ok"), after) :
          /\ Sent(o) /\ call' = NoCall
          /\ wifi' = IF o.ok /\ o.reply.kind = "ok"
                     THEN [wifi EXCEPT !.connected = FALSE, !.mode = "none"] ELSE wifi
          /\ UNCHANGED <<cli, wFault>>
    BY <1>3 DEF os_wifi_disconnect
  <2> HIDE DEF after
  <2>3. wifi.ctrl # "freed" /\ Fair(o, Plain("ok"), after) /\ Plain("ok") \in WpaAnswers
    BY <2>1, <2>2, PlainIs, Outcome
  <2>4. wifi' \in WfWifi /\ wifi'.ctrl = wifi.ctrl /\ wifi'.initialized = wifi.initialized
    BY <2>0, <2>2 DEF WfWifi
  <2>5. call' \in WfCalls /\ CallRight(call', o.supp, o.slip) /\ cli' \in WfCli
    BY <2>0, <2>2, NoCallIs
  <2> QED BY <1>1, <2>0, <2>1, <2>2, <2>3, <2>4, <2>5, RequestStep
<1> QED BY <1>2, <1>3

\* An event is taken; the one of the supplicant's end closes the connection
\* while no callback runs.
LEMMA ReceiveEventStep ==
  ASSUME WifiAssumption, WfInv, wpa_cli_recv_pending
  PROVE  WfInv'
<1> DEFINE e == Head(wEvents)
<1>1. /\ wFault = "none" /\ call.step = "none" /\ handling = NotHandling /\ cli.mon /\ wEvents # <<>>
      /\ UNCHANGED <<call, supp, lostNets, wFault>>
  BY DEF wpa_cli_recv_pending, Runs
<1>2. /\ wifi \in WfWifi /\ cli \in WfCli /\ call \in WfCalls /\ supp \in Supplicants
      /\ wEvents \in Seq(WEvents) /\ Len(wEvents) <= MaxEvents /\ MaxEvents \in Nat
      /\ NotHandling.open = TRUE /\ NotHandling.event = "none" /\ NotHandling \in WfHandling
      /\ TRUE \in BOOLEAN /\ FALSE \in BOOLEAN /\ cli.conn /\ wifi.ctrl = "live" /\ wifi.initialized
  <2>1. TRUE \in BOOLEAN /\ FALSE \in BOOLEAN
    BY Zenon
  <2>2. cli.conn /\ wifi.ctrl = "live" /\ wifi.initialized
    BY <1>1 DEF WfInv, WfLink
  <2> QED BY <2>1, <2>2, WfParts DEF NotHandling, WfHandling
<1>3. CASE e = "terminating"
  <2>1. /\ cli' = [cli EXCEPT !.conn = FALSE, !.mon = FALSE]
        /\ wifi' = [wifi EXCEPT !.ctrl = IF @ = "live" THEN "freed" ELSE @]
        /\ handling' = [handling EXCEPT !.open = @ /\ handling = NotHandling]
        /\ replies' = <<>> /\ wEvents' = <<>> /\ slipped' = FALSE /\ closedBy' = "terminating"
    BY <1>2, <1>3 DEF wpa_cli_recv_pending, wpa_cli_close_connection
  <2>2. cli' \in WfCli /\ cli'.conn = FALSE /\ cli'.mon = FALSE
    BY <1>2, <2>1 DEF WfCli
  <2>3. wifi' \in WfWifi /\ wifi'.ctrl = "freed"
    BY <1>2, <2>1 DEF WfWifi
  <2>4. handling' \in WfHandling /\ handling'.open
    <3>1. (handling.open /\ handling = NotHandling) = TRUE
      BY <1>1, <1>2
    <3>2. handling' = [NotHandling EXCEPT !.open = TRUE]
      BY <1>1, <2>1, <3>1
    <3> QED BY <1>2, <3>2 DEF WfHandling
  <2>5. <<>> \in Seq(WpaAnswers) /\ <<>> \in Seq(WEvents) /\ Len(<<>>) = 0
    OBVIOUS
  <2>6. WfTypes'
    <3>1. replies' \in Seq(WpaAnswers) /\ Len(replies') <= 1 /\ wEvents' \in Seq(WEvents) /\ Len(wEvents') <= MaxEvents
      BY <1>2, <2>1, <2>5
    <3>2. slipped' \in BOOLEAN /\ closedBy' \in {"nobody", "terminating", "deinit"}
      BY <1>2, <2>1
    <3> QED BY <1>1, <2>2, <2>3, <2>4, <3>1, <3>2 DEF WfInv, WfTypes, WfWifi, WfCli, WfHandling
  <2>7. WfLink'
    BY <2>1, <2>2, <2>3, <2>4 DEF WfLink
  <2>8. WfCall'
    BY <1>1, <2>1 DEF WfCall, CallRight
  <2> QED BY <1>1, <2>6, <2>7, <2>8 DEF WfInv, WifiFaultHasCause, ProfileLostHasCause
<1>4. CASE e # "terminating"
  <2>1. /\ wEvents' = Tail(wEvents) /\ cli' = [cli EXCEPT !.scan = @ /\ e # "scan_results"]
        /\ handling' \in check_event(e) /\ UNCHANGED <<wifi, replies, slipped, closedBy>>
    BY <1>4 DEF wpa_cli_recv_pending
  <2>2. e \in WEvents /\ wEvents' \in Seq(WEvents) /\ Len(wEvents') <= MaxEvents
    BY <1>1, <1>2, <2>1
  <2> HIDE DEF e
  <2>3. cli' \in WfCli /\ cli'.conn = cli.conn /\ cli'.mon = cli.mon
    <3>1. (cli.scan /\ e # "scan_results") \in BOOLEAN
      BY Zenon
    <3> QED BY <1>2, <2>1, <3>1 DEF WfCli
  <2>4. handling' \in WfHandling /\ handling'.open
    <3>1. [event |-> e, open |-> TRUE] \in WfHandling /\ [event |-> e, open |-> TRUE].open = TRUE
      BY <1>2, <2>2 DEF WfHandling
    <3>2. handling' \in {NotHandling, [event |-> e, open |-> TRUE]}
      BY <2>1 DEF check_event
    <3> QED BY <1>2, <3>1, <3>2
  <2>5. WfTypes'
    BY <1>1, <2>1, <2>2, <2>3, <2>4 DEF WfInv, WfTypes, WfWifi, WfCli, WfHandling
  <2>6. WfLink'
    BY <1>1, <2>1, <2>3, <2>4 DEF WfInv, WfLink
  <2>7. WfCall'
    BY <1>1, <2>1 DEF WfInv, WfCall
  <2> QED BY <1>1, <2>5, <2>6, <2>7 DEF WfInv, WifiFaultHasCause, ProfileLostHasCause
<1> QED BY <1>3, <1>4

\* A callback that returns to a connection that is gone was one of a deinit.
LEMMA CallbackStep ==
  ASSUME WifiAssumption, WfInv, CallbackReturns
  PROVE  WfInv'
<1>1. /\ handling # NotHandling /\ wFault' = (IF handling.open THEN "none" ELSE "pending") /\ handling' = NotHandling
      /\ UNCHANGED <<wifi, cli, replies, wEvents, call, supp, slipped, lostNets, closedBy>>
  BY DEF CallbackReturns
<1>2. NotHandling \in WfHandling /\ NotHandling.open = TRUE
  <2>1. TRUE \in BOOLEAN
    BY Zenon
  <2> QED BY <2>1 DEF NotHandling, WfHandling
<1>3. WfTypes'
  BY <1>1, <1>2 DEF WfInv, WfTypes, WfHandling
<1>4. WfLink' /\ WfCall' /\ ProfileLostHasCause'
  BY <1>1, <1>2 DEF WfInv, WfLink, WfCall, ProfileLostHasCause
<1>5. WifiFaultHasCause'
  BY <1>1 DEF WfInv, WfLink, WifiFaultHasCause
<1> QED BY <1>3, <1>4, <1>5 DEF WfInv

\* The supplicant's own steps leave the profiles alone.
LEMMA SupplicantStep ==
  ASSUME WifiAssumption, WfInv, ScanEnds \/ SupplicantEvent
  PROVE  WfInv'
<1>0. TRUE \in BOOLEAN /\ FALSE \in BOOLEAN
  BY Zenon
<1>1. /\ wFault = "none" /\ Len(wEvents) < MaxEvents
      /\ UNCHANGED <<wifi, cli, replies, handling, call, slipped, lostNets, closedBy, wFault>>
  BY DEF ScanEnds, SupplicantEvent
<1>2. supp \in Supplicants /\ wEvents \in Seq(WEvents) /\ MaxEvents \in Nat
  BY WfParts
<1>3. supp' \in Supplicants /\ supp'.nets = supp.nets /\ supp'.selected = supp.selected
  <2>1. \/ supp' = supp
        \/ supp' = [supp EXCEPT !.scanning = FALSE]
        \/ supp' = [supp EXCEPT !.alive = FALSE, !.scanning = FALSE]
        \/ supp' = [supp EXCEPT !.alive = TRUE]
    BY DEF ScanEnds, SupplicantEvent
  <2>2. CASE supp' = [supp EXCEPT !.scanning = FALSE]
    BY <1>0, <1>2, <2>2 DEF Supplicants
  <2>3. CASE supp' = [supp EXCEPT !.alive = FALSE, !.scanning = FALSE]
    BY <1>0, <1>2, <2>3 DEF Supplicants
  <2>4. CASE supp' = [supp EXCEPT !.alive = TRUE]
    BY <1>0, <1>2, <2>4 DEF Supplicants
  <2> QED BY <1>2, <2>1, <2>2, <2>3, <2>4
<1>4. wEvents' \in Seq(WEvents) /\ Len(wEvents') <= MaxEvents
  <2>1. wEvents' = wEvents \/ \E e \in WEvents : wEvents' = Append(wEvents, e)
    BY DEF ScanEnds, SupplicantEvent, Tells, WEvents
  <2> QED BY <1>1, <1>2, <2>1
<1>5. CallRight(call', supp', slipped')
  BY <1>1, <1>3, WfParts DEF CallRight
<1>6. ~(wifi.ctrl = "freed" /\ closedBy = "deinit") \/ (wifi'.mode = "none" /\ call'.step = "none")
  BY <1>1 DEF WfInv, WfLink
<1>7. /\ replies' \in Seq(WpaAnswers) /\ Len(replies') <= 1 /\ (replies' # <<>> => slipped') /\ slipped' \in BOOLEAN
      /\ cli' \in WfCli /\ wifi' \in WfWifi /\ call' \in WfCalls /\ lostNets' \in BOOLEAN /\ ~lostNets'
  BY <1>1, WfParts
<1> QED BY <1>1, <1>3, <1>4, <1>5, <1>6, <1>7, CallStep

LEMMA WifiStep ==
  ASSUME WifiAssumption, WfInv, [WifiNext]_wifiVars
  PROVE  WfInv'
<1>1. CASE UNCHANGED wifiVars
  BY <1>1, WifiStutters
<1>2. CASE os_wifi_set_callback \/ os_wifi_start_ap
  BY <1>2, WifiStutters DEF os_wifi_set_callback, os_wifi_start_ap
<1>3. CASE ConnectStep
  BY <1>3, ListStep, AddStep, SsidStep, KeyStep, SelectStep, SaveStep DEF ConnectStep
<1> QED
  BY <1>1, <1>2, <1>3, InitStep, DeinitStep, ScanRequestStep, ConnectBegins, DisconnectedStep,
     ReceiveEventStep, CallbackStep, SupplicantStep
  DEF WifiNext

LEMMA WifiBegins ==
  ASSUME WifiAssumption, WifiInit
  PROVE  WfInv
<1>1. TRUE \in BOOLEAN /\ FALSE \in BOOLEAN
  BY Zenon
<1>2. wifi \in WfWifi /\ ~wifi.initialized /\ wifi.ctrl = "null"
  BY <1>1 DEF WifiInit, WfWifi
<1>3. cli \in WfCli /\ ~cli.conn /\ ~cli.mon
  BY <1>1 DEF WifiInit, WfCli
<1>4. handling \in WfHandling /\ handling.open
  BY <1>1 DEF WifiInit, WfHandling, NotHandling
<1>5. call \in WfCalls /\ CallRight(call, supp, slipped)
  BY NoCallIs DEF WifiInit
<1>6. supp \in Supplicants
  <2>1. NoNet \in Nets
    BY <1>1 DEF NoNet, Nets
  <2> HIDE DEF NoNet
  <2>2. [i \in Ids |-> NoNet] \in [Ids -> Nets]
    BY <2>1
  <2> QED BY <1>1, <2>2 DEF WifiInit, Supplicants
<1>7. replies \in Seq(WpaAnswers) /\ Len(replies) <= 1 /\ wEvents \in Seq(WEvents) /\ Len(wEvents) <= MaxEvents
  BY WifiAssumption DEF WifiInit, WifiAssumption
<1>8. WfTypes
  BY <1>1, <1>2, <1>3, <1>4, <1>5, <1>6, <1>7 DEF WifiInit, WfTypes, WfWifi, WfCli, WfHandling, WfCalls
<1>9. WfLink /\ WfCall
  BY <1>2, <1>3, <1>4, <1>5 DEF WifiInit, WfLink, WfCall
<1> QED BY <1>8, <1>9 DEF WifiInit, WfInv, WifiFaultHasCause, ProfileLostHasCause

\* However requests time out, the supplicant ends and callbacks deinitialize
\* the module, memory of a closed connection is used and a profile lost only
\* with the causes the parts name (wifi.c, wpa_cli.c).
THEOREM WifiIsSound == WifiSpec => []WifiSound
<1>1. WifiInit => WfInv
  BY WifiAssumption, WifiBegins
<1>2. WfInv /\ [WifiNext]_wifiVars => WfInv'
  BY WifiAssumption, WifiStep
<1>3. WfInv => WifiSound
  <2> SUFFICES ASSUME WfInv PROVE WifiSound
    OBVIOUS
  <2>1. \A i \in Ids : supp.nets[i].ssid \in Ssids \cup {"unset", "none"}
    BY WifiAssumption, WfParts DEF Supplicants, Nets
  <2>2. supp.selected \in Ids \cup {-1}
    BY WifiAssumption, WfParts DEF Supplicants
  <2>3. WifiTypeOK
    BY <2>1, <2>2 DEF WfInv, WfTypes, WfLink, WifiTypeOK
  <2> QED BY <2>3 DEF WfInv, WifiSound
<1> QED BY <1>1, <1>2, <1>3, PTL DEF WifiSpec

\* The step that sets wifi_connected is the last command of a call whose
\* answers were all to its own commands, for any profiles the supplicant had
\* (wifi_connect, os_wifi_connect).
THEOREM ConnectedAsAsked == WifiSpec => ConnectSelects
<1>1. WifiInit => WfInv
  BY WifiAssumption, WifiBegins
<1>2. WfInv /\ [WifiNext]_wifiVars => WfInv'
  BY WifiAssumption, WifiStep
<1> DEFINE Selects ==
      wifi'.connected /\ ~wifi.connected /\ ~slipped
        => /\ supp'.selected \in Ids
           /\ LET n == supp'.nets[supp'.selected] IN n.ssid = call.ssid /\ n.keyed
<1>3. WfInv /\ [WifiNext]_wifiVars => [Selects]_wifiVars
  <2> SUFFICES ASSUME WfInv, WifiNext, wifi'.connected, ~wifi.connected, ~slipped
               PROVE  Selects
    OBVIOUS
  <2>0. wifi \in WfWifi /\ call \in WfCalls /\ CallRight(call, supp, slipped) /\ supp \in Supplicants
    BY WifiAssumption, WfParts
  <2>1. wifi_connect_save /\ supp' = supp
    <3>2. CASE \E mode \in {"station", "ap"} : os_wifi_init(mode)
      BY <2>0, <3>2 DEF os_wifi_init, wifi_initialize, WfWifi
    <3>3. CASE os_wifi_deinit
      BY <2>0, <3>3 DEF os_wifi_deinit, WfWifi
    <3>4. CASE wpa_cli_recv_pending
      BY <2>0, <3>4 DEF wpa_cli_recv_pending, wpa_cli_close_connection, WfWifi
    <3>5. CASE wifi_connect_save
      <4>1. UsesFreed => wifi' = wifi
        BY DEF UsesFreed
      <4>2. \A o \in _wifi_send_cmd(Plain("ok"), supp) : o.supp = supp
        <5>1. Plain("ok") \in WpaAnswers
          BY WifiAssumption, PlainIs
        <5> QED BY <2>0, <5>1, WifiAssumption, Outcome DEF Fair
      <4> QED BY <3>5, <4>1, <4>2 DEF wifi_connect_save, Sent
    <3>6. CASE UNCHANGED wifi
      BY <3>6
    <3>7. CASE os_wifi_disconnect
      BY <3>7 DEF os_wifi_disconnect, Runs
    <3> QED BY <3>2, <3>3, <3>4, <3>5, <3>6, <3>7
        DEF WifiNext, os_wifi_scan_request, os_wifi_get_scan_result, os_wifi_connect, ConnectStep, UsesFreed,
            wifi_connect_list, wifi_connect_add, wifi_connect_ssid, wifi_connect_key, wifi_connect_select, Step,
            os_wifi_set_callback, os_wifi_start_ap, CallbackReturns, ScanEnds, SupplicantEvent, wifiVars
  <2>2. call.step = "save"
    BY <2>1 DEF wifi_connect_save
  <2> QED BY <2>0, <2>1, <2>2 DEF CallRight, WfCalls
<1> QED BY <1>1, <1>2, <1>3, PTL DEF WifiSpec, ConnectSelects

-----------------------------------------------------------------------------
(* Sensor, the pool.  Between two requests every node has its module and   *)
(* its handle, and counts the handles the application holds.               *)

NodeSet == [count : 1..MaxHeld, module : {TRUE}]

NodesOn(p, b) == {k \in Requested(p) : BusOf(k[1]) = b}

PoolOK(p) ==
  /\ p = [nodes |-> p.nodes, refs |-> p.refs, open |-> p.open]
  /\ Requested(p) \subseteq Devices /\ IsFiniteSet(Requested(p))
  /\ p.nodes \in [Requested(p) -> NodeSet]
  /\ p.refs \in [SensorBuses -> Int]
  /\ \A b \in SensorBuses : p.refs[b] = Cardinality(NodesOn(p, b))
  /\ p.open = Requested(p)

\* A node enters the pool, leaves it, or is counted again.
Entered(p, k) ==
  [nodes |-> [x \in Requested(p) \cup {k} |-> IF x = k THEN [count |-> 1, module |-> TRUE] ELSE p.nodes[x]],
   refs |-> [p.refs EXCEPT ![BusOf(k[1])] = @ + 1],
   open |-> p.open \cup {k}]

Left(p, k) ==
  [nodes |-> [x \in Requested(p) \ {k} |-> p.nodes[x]],
   refs |-> [p.refs EXCEPT ![BusOf(k[1])] = @ - 1],
   open |-> p.open \ {k}]

Counted(p, k, n) == [p EXCEPT !.nodes[k].count = n]

LEMMA BusIsBus == \A d : BusOf(d) \in SensorBuses
BY DEF BusOf, SensorBuses

\* What is between the driver's nodes and its modules is opaque from here on.
LEMMA EnteredOK ==
  ASSUME NEW p, PoolOK(p), NEW k \in Devices, k \notin Requested(p), MaxHeld \in Nat, MaxHeld >= 1
  PROVE  /\ PoolOK(Entered(p, k)) /\ Requested(Entered(p, k)) = Requested(p) \cup {k}
         /\ Entered(p, k).nodes[k].count = 1
         /\ \A x \in Requested(p) : x # k /\ Entered(p, k).nodes[x] = p.nodes[x]
<1> DEFINE b == BusOf(k[1])
           ns == [x \in Requested(p) \cup {k} |-> IF x = k THEN [count |-> 1, module |-> TRUE] ELSE p.nodes[x]]
           rs == [p.refs EXCEPT ![b] = @ + 1]
           op == p.open \cup {k}
           q == [nodes |-> ns, refs |-> rs, open |-> op]
<1>1. q = Entered(p, k)
  BY DEF Entered
<1>2. q.nodes = ns /\ q.refs = rs /\ q.open = op /\ Requested(q) = Requested(p) \cup {k}
  BY DEF Requested
<1>3. b \in SensorBuses
  BY BusIsBus
<1>4. [count |-> 1, module |-> TRUE] \in NodeSet
  BY DEF NodeSet
<1>5. ns \in [Requested(p) \cup {k} -> NodeSet]
  BY <1>4 DEF PoolOK
<1>6. rs \in [SensorBuses -> Int]
  <2>1. p.refs \in [SensorBuses -> Int]
    BY DEF PoolOK
  <2> HIDE DEF b
  <2> QED BY <1>3, <2>1
<1>7. IsFiniteSet(Requested(p) \cup {k})
  BY FS_AddElement DEF PoolOK
<1>8. ASSUME NEW c \in SensorBuses PROVE rs[c] = Cardinality(NodesOn(q, c))
  <2>1. IsFiniteSet(NodesOn(p, c)) /\ p.refs[c] = Cardinality(NodesOn(p, c))
    <3>1. NodesOn(p, c) \subseteq Requested(p)
      BY DEF NodesOn
    <3> QED BY <3>1, FS_Subset DEF PoolOK
  <2>2. CASE c = b
    <3>1. NodesOn(q, c) = NodesOn(p, c) \cup {k} /\ k \notin NodesOn(p, c)
      BY <1>2, <2>2 DEF NodesOn
    <3>2. Cardinality(NodesOn(p, c) \cup {k}) = Cardinality(NodesOn(p, c)) + 1
      BY <2>1, <3>1, FS_AddElement
    <3>3. rs[c] = p.refs[c] + 1
      BY <2>2 DEF PoolOK
    <3> QED BY <2>1, <3>1, <3>2, <3>3
  <2>3. CASE c # b
    <3>1. NodesOn(q, c) = NodesOn(p, c)
      BY <1>2, <2>3 DEF NodesOn
    <3>2. rs[c] = p.refs[c]
      BY <2>3 DEF PoolOK
    <3> QED BY <2>1, <3>1, <3>2
  <2> QED BY <2>2, <2>3
<1>9. op = Requested(p) \cup {k}
  BY DEF PoolOK
<1>10. ns[k].count = 1 /\ \A x \in Requested(p) : x # k /\ ns[x] = p.nodes[x]
  OBVIOUS
<1>11. q = [nodes |-> q.nodes, refs |-> q.refs, open |-> q.open]
  BY <1>2
<1>12. Requested(p) \cup {k} \subseteq Devices
  BY DEF PoolOK
<1> HIDE DEF q, ns, rs, op, b
<1>13. PoolOK(q)
  BY <1>2, <1>5, <1>6, <1>7, <1>8, <1>9, <1>11, <1>12 DEF PoolOK
<1> QED BY <1>1, <1>2, <1>10, <1>13

LEMMA LeftOK ==
  ASSUME NEW p, PoolOK(p), NEW k \in Requested(p)
  PROVE  /\ PoolOK(Left(p, k)) /\ Requested(Left(p, k)) = Requested(p) \ {k}
         /\ \A x \in Requested(p) : x # k => Left(p, k).nodes[x] = p.nodes[x]
<1> DEFINE b == BusOf(k[1])
           ns == [x \in Requested(p) \ {k} |-> p.nodes[x]]
           rs == [p.refs EXCEPT ![b] = @ - 1]
           op == p.open \ {k}
           q == [nodes |-> ns, refs |-> rs, open |-> op]
<1>1. q = Left(p, k)
  BY DEF Left
<1>2. q.nodes = ns /\ q.refs = rs /\ q.open = op /\ Requested(q) = Requested(p) \ {k}
  BY DEF Requested
<1>3. b \in SensorBuses
  BY BusIsBus
<1>5. ns \in [Requested(p) \ {k} -> NodeSet]
  BY DEF PoolOK
<1>6. rs \in [SensorBuses -> Int]
  <2>1. p.refs \in [SensorBuses -> Int]
    BY DEF PoolOK
  <2> HIDE DEF b
  <2> QED BY <1>3, <2>1
<1>7. IsFiniteSet(Requested(p) \ {k})
  BY FS_RemoveElement DEF PoolOK
<1>8. ASSUME NEW c \in SensorBuses PROVE rs[c] = Cardinality(NodesOn(q, c))
  <2>1. IsFiniteSet(NodesOn(p, c)) /\ p.refs[c] = Cardinality(NodesOn(p, c))
    <3>1. NodesOn(p, c) \subseteq Requested(p)
      BY DEF NodesOn
    <3> QED BY <3>1, FS_Subset DEF PoolOK
  <2>2. CASE c = b
    <3>1. NodesOn(q, c) = NodesOn(p, c) \ {k} /\ k \in NodesOn(p, c)
      BY <1>2, <2>2 DEF NodesOn
    <3>2. Cardinality(NodesOn(p, c) \ {k}) = Cardinality(NodesOn(p, c)) - 1
      BY <2>1, <3>1, FS_RemoveElement
    <3>3. rs[c] = p.refs[c] - 1
      BY <2>2 DEF PoolOK
    <3> QED BY <2>1, <3>1, <3>2, <3>3
  <2>3. CASE c # b
    <3>1. NodesOn(q, c) = NodesOn(p, c)
      BY <1>2, <2>3 DEF NodesOn
    <3>2. rs[c] = p.refs[c]
      BY <2>3 DEF PoolOK
    <3> QED BY <2>1, <3>1, <3>2
  <2> QED BY <2>2, <2>3
<1>9. op = Requested(p) \ {k}
  BY DEF PoolOK
<1>10. \A x \in Requested(p) : x # k => ns[x] = p.nodes[x]
  OBVIOUS
<1>11. q = [nodes |-> q.nodes, refs |-> q.refs, open |-> q.open]
  BY <1>2
<1>12. Requested(p) \ {k} \subseteq Devices
  BY DEF PoolOK
<1> HIDE DEF q, ns, rs, op, b
<1>13. PoolOK(q)
  BY <1>2, <1>5, <1>6, <1>7, <1>8, <1>9, <1>11, <1>12 DEF PoolOK
<1> QED BY <1>1, <1>2, <1>10, <1>13

LEMMA CountedOK ==
  ASSUME NEW p, PoolOK(p), NEW k \in Requested(p), NEW n \in 1..MaxHeld
  PROVE  /\ PoolOK(Counted(p, k, n)) /\ Requested(Counted(p, k, n)) = Requested(p)
         /\ Counted(p, k, n).nodes[k].count = n
         /\ \A x \in Requested(p) : x # k => Counted(p, k, n).nodes[x] = p.nodes[x]
<1> DEFINE ns == [p.nodes EXCEPT ![k].count = n]
           q == [nodes |-> ns, refs |-> p.refs, open |-> p.open]
<1>1. p = [nodes |-> p.nodes, refs |-> p.refs, open |-> p.open] /\ p.nodes \in [Requested(p) -> NodeSet]
  BY DEF PoolOK
<1>2. q = Counted(p, k, n)
  BY <1>1 DEF Counted
<1>3. /\ ns \in [Requested(p) -> NodeSet] /\ ns[k].count = n
      /\ \A x \in Requested(p) : x # k => ns[x] = p.nodes[x]
  BY <1>1 DEF NodeSet
<1>4. q.nodes = ns /\ q.refs = p.refs /\ q.open = p.open /\ Requested(q) = Requested(p)
  BY <1>3 DEF Requested
<1>5. q = [nodes |-> q.nodes, refs |-> q.refs, open |-> q.open]
  BY <1>4
<1> HIDE DEF q, ns
<1>6. PoolOK(q)
  BY <1>3, <1>4, <1>5 DEF PoolOK, NodesOn
<1> QED BY <1>2, <1>3, <1>4, <1>6

LEMMA PoolUpdates ==
  ASSUME NEW n, NEW r, NEW o, NEW v, NEW w
  PROVE  /\ [[nodes |-> n, refs |-> r, open |-> o] EXCEPT !.nodes = v] = [nodes |-> v, refs |-> r, open |-> o]
         /\ [[nodes |-> n, refs |-> r, open |-> o] EXCEPT !.nodes = v, !.refs = w] = [nodes |-> v, refs |-> w, open |-> o]
         /\ [[nodes |-> n, refs |-> r, open |-> o] EXCEPT !.open = v] = [nodes |-> n, refs |-> r, open |-> v]
<1>1. [[nodes |-> n, refs |-> r, open |-> o] EXCEPT !.nodes = v] = [nodes |-> v, refs |-> r, open |-> o]
  OBVIOUS
<1>2. [[nodes |-> v, refs |-> r, open |-> o] EXCEPT !.refs = w] = [nodes |-> v, refs |-> w, open |-> o]
  OBVIOUS
<1>3. [[nodes |-> n, refs |-> r, open |-> o] EXCEPT !.open = v] = [nodes |-> n, refs |-> r, open |-> v]
  OBVIOUS
<1> QED BY <1>1, <1>2, <1>3, Zenon

\* Which release a driver has.
LEMMA ReleaseIs ==
  ASSUME NEW p, NEW k \in Devices
  PROVE  DriverRelease(p, k) = IF k[1] \in {"hts221", "k6ds3"} THEN SharedRelease(p, k) ELSE SoleRelease(p, k)
<1>1. k[1] \in Drivers
  BY DEF Devices
<1> QED BY <1>1
  DEF Drivers, DriverRelease, hts221_release, k6ds3_release, lps25hbtr_release, cm3323e_release, accelerometer_release,
      s5712ccdl1_release, proximity_release, flame_release, temperature_release, humidity_release, light_release

\* A request that succeeds enters its node, and one that fails, wherever it
\* does, leaves the pool as it was.
LEMMA FailureRestores ==
  ASSUME NEW p, PoolOK(p), NEW k \in Devices, k \notin Requested(p)
  PROVE  /\ WithHandle(WithModule(WithNode(p, k), k), k) = Entered(p, k)
         /\ DriverRelease(WithNode(p, k), k) = p
         /\ DriverRelease(WithModule(WithNode(p, k), k), k) = p
         /\ DriverRelease(WithHandle(WithModule(WithNode(p, k), k), k), k) = p
<1> DEFINE b == BusOf(k[1])
           R == Requested(p)
           n0 == [x \in R \cup {k} |-> IF x = k THEN [count |-> 1, module |-> FALSE] ELSE p.nodes[x]]
           n1 == [x \in R \cup {k} |-> IF x = k THEN [count |-> 1, module |-> TRUE] ELSE p.nodes[x]]
           rs == [p.refs EXCEPT ![b] = @ + 1]
           op == p.open \cup {k}
           p0 == [nodes |-> n0, refs |-> p.refs, open |-> p.open]
           p1 == [nodes |-> n1, refs |-> rs, open |-> p.open]
           p2 == [nodes |-> n1, refs |-> rs, open |-> op]
<1>1. p = [nodes |-> p.nodes, refs |-> p.refs, open |-> p.open] /\ p.nodes \in [R -> NodeSet] /\ p.open = R
      /\ p.refs \in [SensorBuses -> Int] /\ b \in SensorBuses
  BY BusIsBus DEF PoolOK
<1>2. WithNode(p, k) = p0
  <2>1. WithNode(p, k) = [p EXCEPT !.nodes = n0]
    BY DEF WithNode
  <2> HIDE DEF n0
  <2> QED BY <1>1, <2>1, PoolUpdates
<1>3. n1 = [n0 EXCEPT ![k].module = TRUE]
  OBVIOUS
<1>4. WithModule(p0, k) = p1
  <2>1. p0.nodes = n0 /\ p0.refs = p.refs
    OBVIOUS
  <2>2. WithModule(p0, k) = [p0 EXCEPT !.nodes = [p0.nodes EXCEPT ![k].module = TRUE], !.refs = [p0.refs EXCEPT ![b] = @ + 1]]
    <3> HIDE DEF n0
    <3> QED BY DEF WithModule
  <2>3. WithModule(p0, k) = [p0 EXCEPT !.nodes = n1, !.refs = rs]
    <3> HIDE DEF n0, n1, p0
    <3> QED BY <1>3, <2>1, <2>2 DEF rs
  <2> HIDE DEF n0, n1, rs
  <2> QED BY <2>3, PoolUpdates
<1>5. WithHandle(p1, k) = p2
  <2>1. p1.open = p.open
    OBVIOUS
  <2>2. WithHandle(p1, k) = [p1 EXCEPT !.open = op]
    <3> HIDE DEF p1
    <3> QED BY <2>1 DEF WithHandle, op
  <2> HIDE DEF n1, rs, op
  <2> QED BY <2>2, PoolUpdates
<1>6. p2 = Entered(p, k)
  BY DEF Entered
<1>7. [x \in (R \cup {k}) \ {k} |-> n0[x]] = p.nodes /\ [x \in (R \cup {k}) \ {k} |-> n1[x]] = p.nodes
  <2>1. (R \cup {k}) \ {k} = R /\ \A x \in R : n0[x] = p.nodes[x] /\ n1[x] = p.nodes[x]
    OBVIOUS
  <2> HIDE DEF n0, n1, R
  <2> QED BY <1>1, <2>1
<1>8. [p.refs EXCEPT ![b] = @ - 0] = p.refs /\ [rs EXCEPT ![b] = @ - 1] = p.refs
  <2> HIDE DEF b
  <2>1. rs \in [SensorBuses -> Int] /\ rs[b] = p.refs[b] + 1 /\ \A c \in SensorBuses : c # b => rs[c] = p.refs[c]
    BY <1>1
  <2> HIDE DEF rs
  <2>2. rs[b] - 1 = p.refs[b] /\ p.refs[b] - 0 = p.refs[b]
    BY <1>1, <2>1
  <2>3. [p.refs EXCEPT ![b] = p.refs[b] - 0] = p.refs
    BY <1>1, <2>2
  <2>4. [rs EXCEPT ![b] = rs[b] - 1] = p.refs
    BY <1>1, <2>1, <2>2
  <2> QED BY <2>3, <2>4
<1>9. p.open \ {k} = p.open /\ op \ {k} = p.open
  BY <1>1
<1>10. Requested(p0) = R \cup {k} /\ Requested(p1) = R \cup {k} /\ Requested(p2) = R \cup {k}
  BY DEF Requested
<1>11. /\ n0[k].module = FALSE /\ n0[k].count = 1 /\ n1[k].module = TRUE /\ n1[k].count = 1
       /\ p0.nodes = n0 /\ p0.refs = p.refs /\ p0.open = p.open
       /\ p1.nodes = n1 /\ p1.refs = rs /\ p1.open = p.open
       /\ p2.nodes = n1 /\ p2.refs = rs /\ p2.open = op
  OBVIOUS
<1> HIDE DEF n0, n1, rs, op, p0, p1, p2, R, b
<1>12. Releases(p0, k) = p
  BY <1>1, <1>7, <1>8, <1>10, <1>11 DEF Releases, b
<1>13. Releases(p1, k) = p
  BY <1>1, <1>7, <1>8, <1>9, <1>10, <1>11 DEF Releases, b
<1>14. Releases(p2, k) = p
  BY <1>1, <1>7, <1>8, <1>9, <1>10, <1>11 DEF Releases, b
<1>15. ASSUME NEW q, k \in Requested(q), q.nodes[k].count = 1, Releases(q, k) = p
       PROVE  DriverRelease(q, k) = p
  BY <1>15, ReleaseIs DEF SharedRelease, SoleRelease
<1>16. k \in R \cup {k}
  OBVIOUS
<1> QED BY <1>2, <1>4, <1>5, <1>6, <1>10, <1>11, <1>12, <1>13, <1>14, <1>15, <1>16

\* What a driver's release does to the pool.
LEMMA ReleaseOf ==
  ASSUME NEW p, PoolOK(p), NEW k \in Devices
  PROVE  /\ k \notin Requested(p) => DriverRelease(p, k) = p
         /\ k \in Requested(p) =>
              \/ /\ k[1] \in {"hts221", "k6ds3"} /\ p.nodes[k].count > 1
                 /\ DriverRelease(p, k) = Counted(p, k, p.nodes[k].count - 1)
              \/ /\ k[1] \notin {"hts221", "k6ds3"} \/ ~(p.nodes[k].count > 1)
                 /\ DriverRelease(p, k) = Left(p, k)
<1>1. CASE k \notin Requested(p)
  BY <1>1, ReleaseIs DEF SharedRelease, SoleRelease
<1>2. CASE k \in Requested(p)
  <2>1. p = [nodes |-> p.nodes, refs |-> p.refs, open |-> p.open] /\ p.nodes \in [Requested(p) -> NodeSet]
    BY DEF PoolOK
  <2>2. p.nodes[k].module = TRUE
    BY <1>2, <2>1 DEF NodeSet
  <2>3. Releases(p, k) = Left(p, k)
    BY <2>2 DEF Releases, Left
  <2>4. [p EXCEPT !.nodes[k].count = @ - 1] = Counted(p, k, p.nodes[k].count - 1)
    BY <1>2, <2>1 DEF Counted
  <2> QED BY <1>2, <2>3, <2>4, ReleaseIs DEF SharedRelease, SoleRelease
<1> QED BY <1>1, <1>2

\* A node that is settled counts the handles that are held, and those of a
\* chip with one function count one.
Shared(k) == k[1] \in {"hts221", "k6ds3"}

Settled(p, h, c, k) ==
  /\ k \notin c \/ k[1] # "accelerometer" =>
       IF k \in Requested(p) THEN p.nodes[k].count = h[k] ELSE h[k] = 0
  /\ k \in Requested(p) /\ ~Shared(k) => p.nodes[k].count = 1

PoolInv ==
  /\ PoolOK(snPool) /\ snHeld \in [Devices -> 0..MaxHeld]
  /\ \A k \in Devices : Settled(snPool, snHeld, snCause, k)

\* A step at one device.
LEMMA PoolStep ==
  ASSUME PoolInv, NEW k \in Devices, NEW v \in 0..MaxHeld,
         PoolOK(snPool'), snHeld' = [snHeld EXCEPT ![k] = v], snCause \subseteq snCause',
         \A x \in Devices : x # k => /\ x \in Requested(snPool') <=> x \in Requested(snPool)
                                     /\ x \in Requested(snPool) => snPool'.nodes[x] = snPool.nodes[x],
         Settled(snPool', snHeld', snCause', k)
  PROVE  PoolInv'
<1>1. snHeld \in [Devices -> 0..MaxHeld]
  BY DEF PoolInv
<1>2. snHeld' \in [Devices -> 0..MaxHeld] /\ \A x \in Devices : x # k => snHeld'[x] = snHeld[x]
  BY <1>1
<1>3. ASSUME NEW x \in Devices, x # k PROVE Settled(snPool', snHeld', snCause', x)
  <2>1. Settled(snPool, snHeld, snCause, x)
    BY DEF PoolInv
  <2>2. x \notin snCause' => x \notin snCause
    OBVIOUS
  <2>3. snHeld'[x] = snHeld[x] /\ (x \in Requested(snPool') <=> x \in Requested(snPool))
        /\ (x \in Requested(snPool) => snPool'.nodes[x] = snPool.nodes[x])
    BY <1>2, <1>3
  <2> QED BY <2>1, <2>2, <2>3, Zenon DEF Settled
<1> QED BY <1>2, <1>3, Zenon DEF PoolInv

\* What a request may do, however it ends.
RequestEffect(k) ==
  LET p == snPool
      h == snHeld[k]
      Gives(v) == snHeld' = [snHeld EXCEPT ![k] = v]
  IN  /\ UNCHANGED <<snSigned, snReading>>
      /\ \/ snPool' = p /\ snHeld' = snHeld /\ snCause' = snCause
         \/ /\ Shared(k) /\ k \in Requested(p) /\ h < MaxHeld
            /\ snPool' = Counted(p, k, p.nodes[k].count + 1) /\ Gives(h + 1) /\ snCause' = snCause
         \/ /\ k \notin Requested(p) /\ h < MaxHeld
            /\ snPool' = Entered(p, k) /\ Gives(h + 1) /\ snCause' = snCause
         \/ /\ k[1] = "accelerometer" /\ k \notin Requested(p) /\ h < MaxHeld
            /\ snPool' = p /\ Gives(h + 1) /\ snCause' = snCause \cup {k}
         \/ /\ k[1] = "accelerometer" /\ k \notin Requested(p) /\ h < MaxHeld
            /\ snPool' = Entered(p, k) /\ snHeld' = snHeld /\ snCause' = snCause \cup {k}

LEMMA SharesDoes ==
  ASSUME PoolInv, NEW k \in Devices, Shared(k), Shares(k)
  PROVE  RequestEffect(k)
<1> DEFINE c == snPool.nodes[k].count
<1>1. k \in Requested(snPool) /\ snHeld[k] < MaxHeld
  BY DEF Shares, Asks
<1>2. snPool' = [snPool EXCEPT !.nodes[k].count = @ + 1] /\ snHeld' = [snHeld EXCEPT ![k] = @ + 1]
      /\ UNCHANGED <<snSigned, snReading>> /\ snCause' = snCause
  BY DEF Shares, Answers
<1>3. snPool = [nodes |-> snPool.nodes, refs |-> snPool.refs, open |-> snPool.open]
      /\ snPool.nodes \in [Requested(snPool) -> NodeSet]
  BY DEF PoolInv, PoolOK
<1>4. [snPool EXCEPT !.nodes[k].count = @ + 1] = Counted(snPool, k, c + 1)
  BY <1>1, <1>3 DEF Counted
<1>5. [snHeld EXCEPT ![k] = @ + 1] = [snHeld EXCEPT ![k] = snHeld[k] + 1]
  BY DEF PoolInv
<1> QED BY <1>1, <1>2, <1>4, <1>5, Zenon DEF RequestEffect

LEMMA OpensDoes ==
  ASSUME PoolInv, NEW k \in Devices, NEW starts, Opens(k, starts)
  PROVE  RequestEffect(k)
<1> DEFINE added == WithNode(snPool, k)
           got == WithModule(added, k)
           open == WithHandle(got, k)
<1>1. k \notin Requested(snPool) /\ snHeld[k] < MaxHeld /\ snCause' = snCause
  BY DEF Opens, Asks
<1>2. \/ Answers(DriverRelease(added, k), k, FALSE)
      \/ Answers(DriverRelease(got, k), k, FALSE)
      \/ \E ok \in starts : Answers(IF ok THEN open ELSE DriverRelease(open, k), k, ok)
  BY DEF Opens
<1>3. /\ open = Entered(snPool, k) /\ DriverRelease(added, k) = snPool
      /\ DriverRelease(got, k) = snPool /\ DriverRelease(open, k) = snPool
  BY <1>1, FailureRestores DEF PoolInv
<1> HIDE DEF added, got, open
<1>4. \/ Answers(snPool, k, FALSE)
      \/ \E ok \in starts : Answers(IF ok THEN Entered(snPool, k) ELSE snPool, k, ok)
  BY <1>2, <1>3
<1>5. snHeld \in [Devices -> 0..MaxHeld] /\ [snHeld EXCEPT ![k] = snHeld[k]] = snHeld
  BY DEF PoolInv
<1>6. CASE Answers(snPool, k, FALSE)
  BY <1>1, <1>5, <1>6 DEF Answers, RequestEffect
<1>7. ASSUME NEW ok \in starts, Answers(IF ok THEN Entered(snPool, k) ELSE snPool, k, ok) PROVE RequestEffect(k)
  <2>1. CASE ok
    <3>1. snPool' = Entered(snPool, k) /\ snHeld' = [snHeld EXCEPT ![k] = snHeld[k] + 1] /\ UNCHANGED <<snSigned, snReading>>
      BY <1>7, <2>1 DEF Answers
    <3> QED BY <1>1, <3>1, Zenon DEF RequestEffect
  <2>2. CASE ~ok
    <3>1. snPool' = snPool /\ snHeld' = snHeld /\ UNCHANGED <<snSigned, snReading>>
      BY <1>5, <1>7, <2>2 DEF Answers
    <3> QED BY <1>1, <3>1, Zenon DEF RequestEffect
  <2> QED BY <2>1, <2>2
<1> QED BY <1>4, <1>6, <1>7

LEMMA AccelerometerDoes ==
  ASSUME PoolInv, NEW k \in Devices, k[1] = "accelerometer", AccelerometerStarts(k)
  PROVE  RequestEffect(k)
<1> DEFINE open == WithHandle(WithModule(WithNode(snPool, k), k), k)
<1>1. k \notin Requested(snPool) /\ snHeld[k] < MaxHeld /\ snCause' = snCause \cup {k}
  BY DEF AccelerometerStarts, Asks
<1>2. Answers(accelerometer_release(open, k), k, TRUE) \/ Answers(open, k, FALSE)
  BY DEF AccelerometerStarts
<1>3. DriverRelease(open, k) = accelerometer_release(open, k)
  BY ReleaseIs DEF accelerometer_release
<1>4. open = Entered(snPool, k) /\ accelerometer_release(open, k) = snPool
  BY <1>1, <1>3, FailureRestores DEF PoolInv
<1> HIDE DEF open
<1>5. snHeld \in [Devices -> 0..MaxHeld] /\ [snHeld EXCEPT ![k] = snHeld[k]] = snHeld
  BY DEF PoolInv
<1>6. UNCHANGED <<snSigned, snReading>>
  BY <1>2 DEF Answers
<1>7. CASE Answers(accelerometer_release(open, k), k, TRUE)
  <2>1. snPool' = snPool /\ snHeld' = [snHeld EXCEPT ![k] = snHeld[k] + 1]
    BY <1>4, <1>7 DEF Answers
  <2> QED BY <1>1, <1>6, <2>1, Zenon DEF RequestEffect
<1>8. CASE Answers(open, k, FALSE)
  <2>1. snPool' = Entered(snPool, k) /\ snHeld' = snHeld
    BY <1>4, <1>5, <1>8 DEF Answers
  <2> QED BY <1>1, <1>6, <2>1, Zenon DEF RequestEffect
<1> QED BY <1>2, <1>7, <1>8

LEMMA RequestDoes ==
  ASSUME PoolInv, NEW k \in Devices, os_sensor_request(k)
  PROVE  RequestEffect(k)
<1>1. CASE Refuses(k)
  BY <1>1 DEF Refuses, RequestEffect, snVars
<1>2. (\E starts : Opens(k, starts)) => RequestEffect(k)
  BY OpensDoes
<1>3. k[1] = "hts221" \/ k[1] = "k6ds3" => Shared(k)
  BY DEF Shared
<1>4. \/ Refuses(k) \/ (Shared(k) /\ Shares(k)) \/ (k[1] = "accelerometer" /\ AccelerometerStarts(k))
      \/ \E starts : Opens(k, starts)
  BY <1>3, Zenon
  DEF os_sensor_request, hts221_request, k6ds3_request, lps25hbtr_request, cm3323e_request, s5712ccdl1_request,
      proximity_request, flame_request, temperature_request, humidity_request, light_request, accelerometer_request
<1> QED BY <1>1, <1>2, <1>4, SharesDoes, AccelerometerDoes

LEMMA RequestKeeps ==
  ASSUME SensorAssumption, PoolInv, NEW k \in Devices, RequestEffect(k)
  PROVE  PoolInv'
<1> DEFINE h == snHeld[k]
           p == snPool
<1>1. PoolOK(p) /\ snHeld \in [Devices -> 0..MaxHeld] /\ h \in 0..MaxHeld /\ Settled(p, snHeld, snCause, k) /\ MaxHeld \in Nat
  BY DEF PoolInv, SensorAssumption
<1>2. CASE snPool' = p /\ snHeld' = snHeld /\ snCause' = snCause
  BY <1>2, Zenon DEF PoolInv, Settled
<1>3. ASSUME h < MaxHeld, NEW v \in {h, h + 1}, snHeld' = [snHeld EXCEPT ![k] = v]
      PROVE  v \in 0..MaxHeld /\ snHeld'[k] = v
  BY <1>1, <1>3
<1>4. CASE /\ Shared(k) /\ k \in Requested(p) /\ h < MaxHeld
           /\ snPool' = Counted(p, k, p.nodes[k].count + 1) /\ snHeld' = [snHeld EXCEPT ![k] = h + 1] /\ snCause' = snCause
  <2>1. p.nodes[k].count = h
    <3>1. k[1] # "accelerometer"
      BY <1>4 DEF Shared
    <3> QED BY <1>1, <1>4, <3>1 DEF Settled
  <2>2. h + 1 \in 1..MaxHeld /\ h + 1 \in 0..MaxHeld
    BY <1>1, <1>4
  <2>3. snPool' = Counted(p, k, h + 1)
    BY <1>4, <2>1
  <2>4. /\ PoolOK(snPool') /\ Requested(snPool') = Requested(p) /\ snPool'.nodes[k].count = h + 1
        /\ \A x \in Requested(p) : x # k => snPool'.nodes[x] = p.nodes[x]
    <3> DEFINE n == h + 1
    <3>1. n \in 1..MaxHeld /\ snPool' = Counted(p, k, n)
      BY <2>2, <2>3
    <3> HIDE DEF n
    <3>2. /\ PoolOK(snPool') /\ Requested(snPool') = Requested(p) /\ snPool'.nodes[k].count = n
          /\ \A x \in Requested(p) : x # k => snPool'.nodes[x] = p.nodes[x]
      BY <1>1, <1>4, <3>1, CountedOK
    <3> QED BY <3>2 DEF n
  <2>5. snHeld'[k] = h + 1
    BY <1>1, <1>4
  <2>6. Settled(snPool', snHeld', snCause', k)
    BY <1>4, <2>4, <2>5, Zenon DEF Settled
  <2> QED BY <1>4, <2>2, <2>4, <2>6, PoolStep
<1>5. ASSUME k \notin Requested(p), h < MaxHeld, NEW v \in {h, h + 1}, snHeld' = [snHeld EXCEPT ![k] = v],
             snPool' = Entered(p, k), snCause \subseteq snCause',
             v = h + 1 \/ (k[1] = "accelerometer" /\ k \in snCause')
      PROVE  PoolInv'
  <2>1. MaxHeld >= 1 /\ v \in 0..MaxHeld /\ snHeld'[k] = v
    BY <1>1, <1>5
  <2>2. /\ PoolOK(snPool') /\ Requested(snPool') = Requested(p) \cup {k} /\ snPool'.nodes[k].count = 1
        /\ \A x \in Requested(p) : x # k /\ snPool'.nodes[x] = p.nodes[x]
    BY <1>1, <1>5, <2>1, EnteredOK
  <2>3. k \notin snCause' \/ k[1] # "accelerometer" => snHeld'[k] = 1
    <3>1. k \notin snCause' \/ k[1] # "accelerometer" => h = 0 /\ v = h + 1
      BY <1>1, <1>5 DEF Settled
    <3> QED BY <2>1, <3>1
  <2>4. Settled(snPool', snHeld', snCause', k)
    BY <2>2, <2>3 DEF Settled
  <2>5. \A x \in Devices : x # k => /\ x \in Requested(snPool') <=> x \in Requested(p)
                                    /\ x \in Requested(p) => snPool'.nodes[x] = p.nodes[x]
    BY <2>2
  <2> QED BY <1>5, <2>1, <2>2, <2>4, <2>5, PoolStep
<1>6. CASE /\ k[1] = "accelerometer" /\ k \notin Requested(p) /\ h < MaxHeld
           /\ snPool' = p /\ snHeld' = [snHeld EXCEPT ![k] = h + 1] /\ snCause' = snCause \cup {k}
  <2>1. h + 1 \in 0..MaxHeld
    BY <1>1, <1>6
  <2>2. Settled(snPool', snHeld', snCause', k)
    BY <1>6 DEF Settled
  <2>3. PoolOK(snPool') /\ snCause \subseteq snCause'
    BY <1>1, <1>6
  <2>4. \A x \in Devices : x # k => /\ x \in Requested(snPool') <=> x \in Requested(p)
                                    /\ x \in Requested(p) => snPool'.nodes[x] = p.nodes[x]
    BY <1>6
  <2> QED BY <1>6, <2>1, <2>2, <2>3, <2>4, PoolStep
<1>7. CASE /\ k[1] = "accelerometer" /\ k \notin Requested(p) /\ h < MaxHeld
           /\ snPool' = Entered(p, k) /\ snHeld' = snHeld /\ snCause' = snCause \cup {k}
  <2>1. snHeld' = [snHeld EXCEPT ![k] = h]
    BY <1>1, <1>7
  <2>2. snCause \subseteq snCause' /\ k \in snCause'
    BY <1>7
  <2> QED BY <1>5, <1>7, <2>1, <2>2
<1>8. CASE /\ k \notin Requested(p) /\ h < MaxHeld
           /\ snPool' = Entered(p, k) /\ snHeld' = [snHeld EXCEPT ![k] = h + 1] /\ snCause' = snCause
  BY <1>5, <1>8
<1> QED BY <1>2, <1>4, <1>6, <1>7, <1>8 DEF RequestEffect

\* A release of a node changes the pool.
LEMMA ReleaseChanges ==
  ASSUME SensorAssumption, PoolInv, NEW k \in Devices, k \in Requested(snPool)
  PROVE  DriverRelease(snPool, k) # snPool
<1>1. PoolOK(snPool)
  BY DEF PoolInv
<1>2. CASE /\ Shared(k) /\ snPool.nodes[k].count > 1
           /\ DriverRelease(snPool, k) = Counted(snPool, k, snPool.nodes[k].count - 1)
  <2> DEFINE c == snPool.nodes[k].count
             n == c - 1
  <2>1. c \in 1..MaxHeld
    <3>1. snPool.nodes[k] \in NodeSet
      BY <1>1 DEF PoolOK
    <3> QED BY <3>1 DEF NodeSet
  <2>2. n \in 1..MaxHeld /\ n # c
    BY <1>2, <2>1 DEF SensorAssumption
  <2>3. DriverRelease(snPool, k) = Counted(snPool, k, n)
    BY <1>2
  <2> HIDE DEF n
  <2>4. Counted(snPool, k, n).nodes[k].count = n
    BY <1>1, <2>2, CountedOK, ZenonT(60)
  <2> QED BY <2>2, <2>3, <2>4
<1>3. CASE DriverRelease(snPool, k) = Left(snPool, k)
  <2>1. Requested(Left(snPool, k)) = Requested(snPool) \ {k}
    BY <1>1, LeftOK
  <2> QED BY <1>3, <2>1
<1> QED BY <1>1, <1>2, <1>3, ReleaseOf DEF Shared

\* A handle is released, by the application or by an object.
LEMMA ReleaseKeeps ==
  ASSUME SensorAssumption, PoolInv, NEW k \in Devices, NEW v \in 0..MaxHeld,
         snPool' = DriverRelease(snPool, k), snHeld' = [snHeld EXCEPT ![k] = v], snCause \subseteq snCause',
         k \in Requested(snPool) /\ snHeld[k] > 0 => v = snHeld[k] - 1,
         snHeld[k] = 0 => v = 0
  PROVE  /\ PoolInv'
         /\ k \in Requested(snPool) => snPool' # snPool
         /\ k \notin Requested(snPool) => snPool' = snPool
         /\ k \in Requested(snPool) /\ k \notin Requested(snPool') /\ k \notin snCause => snHeld[k] = 1
         /\ \A x \in Devices : x # k => (x \in Requested(snPool') <=> x \in Requested(snPool))
<1> DEFINE p == snPool
           h == snHeld[k]
           c == p.nodes[k].count
<1>1. /\ PoolOK(p) /\ h \in 0..MaxHeld /\ Settled(p, snHeld, snCause, k) /\ snHeld'[k] = v
      /\ k \in Requested(p) => c \in 1..MaxHeld
  <2>1. snHeld \in [Devices -> 0..MaxHeld] /\ PoolOK(p) /\ p.nodes \in [Requested(p) -> NodeSet]
    BY DEF PoolInv, PoolOK
  <2>2. k \in Requested(p) => p.nodes[k] \in NodeSet
    BY <2>1
  <2> QED BY <2>1, <2>2 DEF PoolInv, NodeSet
<1>2. CASE k \notin Requested(p)
  <2>1. snPool' = p
    BY <1>1, <1>2, ReleaseOf
  <2>2. Settled(snPool', snHeld', snCause', k)
    BY <1>1, <1>2, <2>1 DEF Settled
  <2> QED BY <1>1, <1>2, <2>1, <2>2, PoolStep
<1>3. CASE k \in Requested(p) /\ Shared(k) /\ c > 1
  <2>1. snPool' = Counted(p, k, c - 1) /\ c - 1 \in 1..MaxHeld
    <3>1. snPool' = Counted(p, k, c - 1)
      BY <1>1, <1>3, ReleaseOf DEF Shared
    <3> QED BY <1>1, <1>3, <3>1 DEF SensorAssumption
  <2>2. /\ PoolOK(snPool') /\ Requested(snPool') = Requested(p) /\ snPool'.nodes[k].count = c - 1
        /\ \A x \in Requested(p) : x # k => snPool'.nodes[x] = p.nodes[x]
    <3> DEFINE n == c - 1
    <3>1. n \in 1..MaxHeld /\ snPool' = Counted(p, k, n)
      BY <2>1
    <3> HIDE DEF n
    <3>2. /\ PoolOK(snPool') /\ Requested(snPool') = Requested(p) /\ snPool'.nodes[k].count = n
          /\ \A x \in Requested(p) : x # k => snPool'.nodes[x] = p.nodes[x]
      <4>1. PoolOK(snPool) /\ k \in Requested(snPool)
        BY <1>1, <1>3
      <4>2. /\ PoolOK(Counted(snPool, k, n)) /\ Requested(Counted(snPool, k, n)) = Requested(snPool)
            /\ Counted(snPool, k, n).nodes[k].count = n
            /\ \A x \in Requested(snPool) : x # k => Counted(snPool, k, n).nodes[x] = snPool.nodes[x]
        BY <3>1, <4>1, CountedOK, Zenon
      <4> QED BY <3>1, <4>2
    <3> QED BY <3>2 DEF n
  <2>3. c = h
    <3>1. k[1] # "accelerometer"
      BY <1>3 DEF Shared
    <3> QED BY <1>1, <1>3, <3>1 DEF Settled
  <2>4. v = c - 1
    BY <1>1, <1>3, <2>3
  <2>5. Settled(snPool', snHeld', snCause', k)
    BY <1>1, <1>3, <2>2, <2>4 DEF Settled
  <2>6. PoolInv'
    BY <2>2, <2>5, PoolStep
  <2>7. snPool' # p
    BY <1>1, <1>3, <2>2
  <2> QED BY <1>3, <2>2, <2>6, <2>7
<1>4. CASE k \in Requested(p) /\ (~Shared(k) \/ ~(c > 1))
  <2>1. snPool' = Left(p, k)
    BY <1>1, <1>4, ReleaseOf DEF Shared
  <2>2. /\ PoolOK(snPool') /\ Requested(snPool') = Requested(p) \ {k}
        /\ \A x \in Requested(p) : x # k => snPool'.nodes[x] = p.nodes[x]
    BY <1>1, <1>4, <2>1, LeftOK
  <2>3. c = 1
    BY <1>1, <1>4 DEF Settled
  <2>4. k \notin snCause \/ k[1] # "accelerometer" => h = 1 /\ v = 0
    <3>1. k \notin snCause \/ k[1] # "accelerometer" => h = 1
      BY <1>1, <1>4, <2>3 DEF Settled
    <3> QED BY <1>1, <1>4, <3>1
  <2>5. Settled(snPool', snHeld', snCause', k)
    BY <1>1, <2>2, <2>4 DEF Settled
  <2>6. \A x \in Devices : x # k => /\ x \in Requested(snPool') <=> x \in Requested(p)
                                    /\ x \in Requested(p) => snPool'.nodes[x] = p.nodes[x]
    BY <2>2
  <2>7. PoolInv'
    BY <2>2, <2>5, <2>6, PoolStep
  <2>8. snPool' # p
    BY <1>4, <2>2
  <2> QED BY <1>4, <2>4, <2>6, <2>7, <2>8
<1> QED BY <1>2, <1>3, <1>4

LEMMA ReleasedStep ==
  ASSUME SensorAssumption, PoolInv, NEW k \in Devices, Released(k)
  PROVE  PoolInv'
<1>1. snHeld \in [Devices -> 0..MaxHeld] /\ snHeld[k] \in 0..MaxHeld /\ snHeld[k] > 0 /\ MaxHeld \in Nat
  BY DEF PoolInv, Released, SensorAssumption
<1>2. /\ snPool' = DriverRelease(snPool, k) /\ snHeld' = [snHeld EXCEPT ![k] = snHeld[k] - 1]
      /\ snCause' = snCause
  BY DEF Released
<1> DEFINE v == snHeld[k] - 1
<1>3. v \in 0..MaxHeld /\ snHeld' = [snHeld EXCEPT ![k] = v]
  BY <1>1, <1>2
<1>4. /\ k \in Requested(snPool) /\ snHeld[k] > 0 => v = snHeld[k] - 1
      /\ snHeld[k] = 0 => v = 0
      /\ snCause \subseteq snCause'
  BY <1>1, <1>2
<1> HIDE DEF v
<1> QED BY <1>2, <1>3, <1>4, ReleaseKeeps, Zenon

\* The objects: those of a device that is not misused hold its handles, one
\* each, and know its node.
SensorClasses == {"accelerometer", "gyro", "humidity", "light", "temperature",
                  "proximity", "flame", "pressure", "hall"}

ObjectSet == [class : SensorClasses, device : Devices, stale : BOOLEAN]

HeldBy(k) ==
  /\ Cardinality(Holders(k)) = snHeld[k]
  /\ \A o \in Holders(k) : ~cpObjects[o].stale

ObjectsOK ==
  /\ cpObjects \in [Objects -> ObjectSet \cup {NoObject}]
  /\ cpInUse => \A k \in Devices \ snCause : HeldBy(k)

SensorInv == PoolInv /\ ObjectsOK

LEMMA ObjectFacts ==
  ASSUME ObjectsOK, NEW o \in Objects, ~Unused(o)
  PROVE  cpObjects[o] \in ObjectSet /\ cpObjects[o].device \in Devices /\ o \in Holders(cpObjects[o].device)
<1>1. cpObjects[o] \in ObjectSet /\ cpObjects[o] # NoObject
  BY DEF ObjectsOK, Unused
<1> QED BY <1>1 DEF ObjectSet, Holders

LEMMA HoldersFinite ==
  ASSUME CppSensorAssumption, NEW k
  PROVE  IsFiniteSet(Holders(k)) /\ Holders(k) \subseteq Objects
<1>1. IsFiniteSet(Objects)
  BY FS_Interval DEF Objects, CppSensorAssumption
<1>2. Holders(k) \subseteq Objects
  BY DEF Holders
<1> QED BY <1>1, <1>2, FS_Subset

LEMMA NoObjectIsNone == NoObject \notin ObjectSet
BY DEF NoObject, ObjectSet, SensorClasses

LEMMA ClassDevices ==
  ASSUME NEW class \in SensorClasses
  PROVE  DevicesOf(class) \subseteq Drivers
BY DEF SensorClasses, DevicesOf, Drivers

\* An object that is got holds the handle its request was given.
LEMMA GetsStep ==
  ASSUME SensorAssumption, CppSensorAssumption, SensorInv, cpInUse,
         NEW class \in SensorClasses, NEW o \in Objects, Gets(class, o)
  PROVE  SensorInv'
<1>1. PICK d \in DevicesOf(class), ch \in SensorChannels :
        /\ os_sensor_request(<<d, ch>>)
        /\ cpObjects' = IF snHeld'[<<d, ch>>] > snHeld[<<d, ch>>]
                        THEN [cpObjects EXCEPT ![o] = [class |-> class, device |-> <<d, ch>>, stale |-> FALSE]]
                        ELSE cpObjects
  BY DEF Gets
<1> DEFINE k == <<d, ch>>
           r == [class |-> class, device |-> k, stale |-> FALSE]
<1>2. k \in Devices
  BY <1>1, ClassDevices DEF Devices
<1>3. cpInUse' = cpInUse /\ cpObjects[o] = NoObject
  BY DEF Gets, Unused
<1>4. r \in ObjectSet /\ r.device = k /\ ~r.stale
  <2>1. FALSE \in BOOLEAN
    BY Zenon
  <2>2. k \in Devices
    BY <1>2
  <2> QED BY <2>1, <2>2 DEF ObjectSet
<1>5. cpObjects' = IF snHeld'[k] > snHeld[k] THEN [cpObjects EXCEPT ![o] = r] ELSE cpObjects
  BY <1>1
<1>6. os_sensor_request(k)
  BY <1>1
<1> HIDE DEF k, r
<1>7. RequestEffect(k)
  BY <1>2, <1>6, RequestDoes DEF SensorInv
<1>8. PoolInv'
  BY <1>2, <1>7, RequestKeeps DEF SensorInv
<1>9. cpObjects \in [Objects -> ObjectSet \cup {NoObject}] /\ cpObjects' \in [Objects -> ObjectSet \cup {NoObject}]
  BY <1>4, <1>5 DEF SensorInv, ObjectsOK
<1>10. snHeld \in [Devices -> 0..MaxHeld] /\ snHeld[k] \in Nat
  BY <1>2 DEF SensorInv, PoolInv
<1>11. \/ snHeld' = snHeld /\ cpObjects' = cpObjects /\ snCause \subseteq snCause'
       \/ /\ snHeld' = [snHeld EXCEPT ![k] = snHeld[k] + 1] /\ snCause \subseteq snCause'
          /\ cpObjects' = [cpObjects EXCEPT ![o] = r]
  <2>1. \/ snHeld' = snHeld /\ snCause \subseteq snCause'
        \/ snHeld' = [snHeld EXCEPT ![k] = snHeld[k] + 1] /\ snCause \subseteq snCause'
    BY <1>7 DEF RequestEffect
  <2>2. snHeld' = snHeld => ~(snHeld'[k] > snHeld[k])
    BY <1>10
  <2>3. snHeld' = [snHeld EXCEPT ![k] = snHeld[k] + 1] => snHeld'[k] > snHeld[k]
    BY <1>2, <1>10
  <2> QED BY <1>5, <2>1, <2>2, <2>3
<1>12. ASSUME NEW x \in Devices, x \notin snCause' PROVE HeldBy(x)'
  <2>1. x \notin snCause
    BY <1>11, <1>12
  <2>2. HeldBy(x)
    BY <2>1, Zenon DEF SensorInv, ObjectsOK
  <2>3. CASE snHeld' = snHeld /\ cpObjects' = cpObjects
    BY <2>2, <2>3, Zenon DEF HeldBy, Holders
  <2>4. CASE /\ snHeld' = [snHeld EXCEPT ![k] = snHeld[k] + 1]
             /\ cpObjects' = [cpObjects EXCEPT ![o] = r]
    <3>1. /\ cpObjects'[o] = r /\ r # NoObject /\ \A q \in Objects : q # o => cpObjects'[q] = cpObjects[q]
      BY <1>4, <1>9, <2>4, NoObjectIsNone
    <3>2. o \notin Holders(x)
      BY <1>3 DEF Holders
    <3>3. CASE x = k
      <4>1. Holders(x)' = Holders(x) \cup {o}
        BY <1>4, <3>1, <3>3 DEF Holders
      <4>2. Cardinality(Holders(x) \cup {o}) = Cardinality(Holders(x)) + 1
        BY <3>2, HoldersFinite, FS_AddElement
      <4>3. snHeld'[x] = snHeld[x] + 1
        BY <1>2, <1>10, <2>4, <3>3
      <4>4. \A q \in Holders(x)' : ~cpObjects'[q].stale
        <5> SUFFICES ASSUME NEW q \in Holders(x) \cup {o} PROVE ~cpObjects'[q].stale
          BY <4>1
        <5>1. CASE q = o
          BY <1>4, <3>1, <5>1
        <5>2. CASE q # o
          <6>1. q \in Holders(x) /\ q \in Objects
            BY <5>2 DEF Holders
          <6> QED BY <2>2, <3>1, <5>2, <6>1 DEF HeldBy
        <5> QED BY <5>1, <5>2
      <4>5. Cardinality(Holders(x)') = snHeld'[x]
        BY <2>2, <4>1, <4>2, <4>3 DEF HeldBy
      <4> QED BY <4>4, <4>5, Zenon DEF HeldBy
    <3>4. CASE x # k
      <4>1. Holders(x)' = Holders(x)
        BY <1>3, <1>4, <3>1, <3>4 DEF Holders
      <4>2. snHeld'[x] = snHeld[x]
        BY <1>10, <2>4, <3>4
      <4>3. \A q \in Holders(x) : cpObjects'[q] = cpObjects[q]
        BY <3>1, <3>2 DEF Holders
      <4>4. Cardinality(Holders(x)') = snHeld'[x] /\ \A q \in Holders(x)' : ~cpObjects'[q].stale
        BY <2>2, <4>1, <4>2, <4>3 DEF HeldBy
      <4> QED BY <4>4, Zenon DEF HeldBy
    <3> QED BY <3>3, <3>4
  <2> QED BY <1>11, <2>3, <2>4
<1>13. ObjectsOK'
  BY <1>9, <1>12, Zenon DEF ObjectsOK
<1> QED BY <1>8, <1>13 DEF SensorInv

\* A release by an object: nothing else happens to the other devices, and the
\* handle of a node that is left was the last.
LEMMA CallsReleaseStep ==
  ASSUME SensorAssumption, CppSensorAssumption, SensorInv, cpInUse, NEW o \in Objects, ~Unused(o),
         NEW left \in [Objects -> ObjectSet \cup {NoObject}],
         \A q \in Objects : q # o => left[q] = cpObjects[q],
         left[o] = NoObject \/ (left[o] = cpObjects[o] /\ cpObjects[o].device \in snCause'),
         CallsRelease(o, left), snCause \subseteq snCause'
  PROVE  SensorInv'
<1> DEFINE k == cpObjects[o].device
           freed == k \in Requested(snPool) /\ k \notin Requested(snPool')
           v == IF snHeld[k] > 0 /\ snPool' # snPool THEN snHeld[k] - 1 ELSE snHeld[k]
<1>1. k \in Devices /\ o \in Holders(k)
  BY ObjectFacts DEF SensorInv
<1>2. snHeld \in [Devices -> 0..MaxHeld] /\ snHeld[k] \in 0..MaxHeld /\ MaxHeld \in Nat
  BY <1>1 DEF SensorInv, PoolInv, SensorAssumption
<1>3. /\ snPool' = DriverRelease(snPool, k) \/ (cpObjects[o].stale /\ snPool' = snPool)
      /\ snHeld' = [snHeld EXCEPT ![k] = v]
      /\ cpObjects' = [q \in Objects |-> IF left[q] # NoObject /\ left[q].device = k /\ freed
                                         THEN [left[q] EXCEPT !.stale = TRUE] ELSE left[q]]
      /\ cpInUse' = cpInUse
  <2>1. DriverRelease(snPool, k) = ReleasesOf(k)
    BY <1>1, ReleaseIs DEF ReleasesOf
  <2> QED BY <2>1 DEF CallsRelease
<1>4. v \in 0..MaxHeld
  BY <1>2
<1>5. /\ PoolInv'
      /\ k \in Requested(snPool) /\ snPool' = DriverRelease(snPool, k) => snPool' # snPool
      /\ freed /\ k \notin snCause => snHeld[k] = 1
  <2>1. CASE snPool' = DriverRelease(snPool, k)
    <3> DEFINE w == IF k \in Requested(snPool) /\ snHeld[k] > 0 THEN snHeld[k] - 1 ELSE snHeld[k]
               h2 == [snHeld EXCEPT ![k] = w]
    <3>1. /\ k \in Requested(snPool) => snPool' # snPool
          /\ k \notin Requested(snPool) => snPool' = snPool
      <4>1. k \notin Requested(snPool) => snPool' = snPool
        BY <1>1, <2>1, ReleaseOf DEF SensorInv, PoolInv
      <4>2. k \in Requested(snPool) => snPool' # snPool
        BY <1>1, <2>1, ReleaseChanges DEF SensorInv
      <4> QED BY <4>1, <4>2
    <3>2. /\ k \in Requested(snPool) /\ snHeld[k] > 0 => v = snHeld[k] - 1
          /\ snHeld[k] = 0 => v = 0
      BY <1>2, <3>1
    <3> HIDE DEF v, k
    <3>3. PoolInv' /\ (k \in Requested(snPool) /\ k \notin Requested(snPool') /\ k \notin snCause => snHeld[k] = 1)
      BY <1>1, <1>3, <1>4, <2>1, <3>2, ReleaseKeeps, Zenon DEF SensorInv
    <3> QED BY <3>1, <3>3
  <2>2. CASE snPool' = snPool /\ snPool' # DriverRelease(snPool, k)
    <3>1. snHeld' = snHeld
      BY <1>2, <1>3, <2>2
    <3>2. \A x \in Devices : Settled(snPool', snHeld', snCause', x)
      BY <2>2, <3>1 DEF SensorInv, PoolInv, Settled
    <3>3. PoolInv'
      BY <2>2, <3>1, <3>2 DEF SensorInv, PoolInv
    <3> QED BY <2>2, <3>3
  <2> QED BY <1>3, <2>1, <2>2
<1> HIDE DEF freed, v
<1>6. /\ cpObjects' \in [Objects -> ObjectSet \cup {NoObject}]
      /\ \A q \in Objects : /\ cpObjects'[q] = NoObject <=> left[q] = NoObject
                            /\ left[q] # NoObject => cpObjects'[q].device = left[q].device
                            /\ left[q] # NoObject /\ ~(left[q].device = k /\ freed) => cpObjects'[q] = left[q]
  <2> HIDE DEF k
  <2>1. ASSUME NEW q \in Objects, left[q] # NoObject
        PROVE  LET e == [left[q] EXCEPT !.stale = TRUE] IN e \in ObjectSet /\ e.device = left[q].device
    <3>1. left[q] \in ObjectSet /\ TRUE \in BOOLEAN
      <4>1. TRUE \in BOOLEAN
        BY Zenon
      <4> QED BY <2>1, <4>1
    <3> QED BY <3>1 DEF ObjectSet
  <2> QED BY <1>3, <2>1, NoObjectIsNone
<1>7. ASSUME NEW x \in Devices, x \notin snCause' PROVE HeldBy(x)'
  <2>1. x \notin snCause /\ HeldBy(x)
    BY <1>7, Zenon DEF SensorInv, ObjectsOK
  <2>2. CASE x # k
    <3>1. snHeld'[x] = snHeld[x]
      BY <1>2, <1>3, <2>2
    <3>2. \A q \in Objects : q \in Holders(x)' <=> q \in Holders(x)
      <4> SUFFICES ASSUME NEW q \in Objects PROVE q \in Holders(x)' <=> q \in Holders(x)
        OBVIOUS
      <4>1. q \in Holders(x)' <=> left[q] # NoObject /\ left[q].device = x
        BY <1>6, Zenon DEF Holders
      <4>2. q \in Holders(x) <=> cpObjects[q] # NoObject /\ cpObjects[q].device = x
        BY Zenon DEF Holders
      <4>3. CASE q = o
        BY <1>1, <2>2, <4>1, <4>2, <4>3
      <4>4. CASE q # o
        BY <4>1, <4>2, <4>4
      <4> QED BY <4>3, <4>4
    <3>3. Holders(x)' = Holders(x)
      BY <3>2 DEF Holders
    <3>4. ASSUME NEW q \in Holders(x) PROVE cpObjects'[q] = cpObjects[q]
      <4>1. q \in Objects /\ cpObjects[q] # NoObject /\ cpObjects[q].device = x
        BY <3>4 DEF Holders
      <4>2. q # o
        BY <2>2, <4>1
      <4> QED BY <1>6, <2>2, <4>1, <4>2
    <3>5. Cardinality(Holders(x)') = snHeld'[x] /\ \A q \in Holders(x)' : ~cpObjects'[q].stale
      BY <2>1, <3>1, <3>3, <3>4 DEF HeldBy
    <3> QED BY <3>5, Zenon DEF HeldBy
  <2>3. CASE x = k
    <3>1. left[o] = NoObject
      BY <1>7, <2>3
    <3>2. ~cpObjects[o].stale /\ Cardinality(Holders(x)) = snHeld[x] /\ o \in Holders(x)
      BY <1>1, <2>1, <2>3 DEF HeldBy
    <3>3. snPool' = DriverRelease(snPool, k)
      BY <1>3, <3>2
    <3>4. IsFiniteSet(Holders(x)) /\ Cardinality(Holders(x) \ {o}) = Cardinality(Holders(x)) - 1 /\ Cardinality(Holders(x)) > 0
      <4>1. IsFiniteSet(Holders(x))
        BY HoldersFinite
      <4>2. Cardinality(Holders(x) \ {o}) = Cardinality(Holders(x)) - 1
        BY <3>2, <4>1, FS_RemoveElement
      <4>3. IsFiniteSet(Holders(x) \ {o}) /\ Cardinality(Holders(x) \ {o}) \in Nat
        BY <4>1, FS_RemoveElement, FS_CardinalityType
      <4> QED BY <1>2, <2>3, <3>2, <4>1, <4>2, <4>3
    <3>5. k \in Requested(snPool)
      <4>1. Settled(snPool, snHeld, snCause, k)
        BY <1>1 DEF SensorInv, PoolInv
      <4> QED BY <2>1, <2>3, <3>2, <3>4, <4>1 DEF Settled
    <3>6. snHeld'[x] = snHeld[x] - 1
      BY <1>1, <1>2, <1>3, <1>5, <2>3, <3>2, <3>3, <3>4, <3>5 DEF v
    <3>7. \A q \in Objects : q \in Holders(x)' <=> q \in Holders(x) \ {o}
      <4> SUFFICES ASSUME NEW q \in Objects PROVE q \in Holders(x)' <=> q \in Holders(x) \ {o}
        OBVIOUS
      <4>1. q \in Holders(x)' <=> left[q] # NoObject /\ left[q].device = x
        BY <1>6, Zenon DEF Holders
      <4>2. q \in Holders(x) <=> cpObjects[q] # NoObject /\ cpObjects[q].device = x
        BY Zenon DEF Holders
      <4>3. CASE q = o
        BY <3>1, <4>1, <4>3
      <4>4. CASE q # o
        BY <4>1, <4>2, <4>4
      <4> QED BY <4>3, <4>4
    <3>8. Holders(x)' = Holders(x) \ {o}
      BY <3>7 DEF Holders
    <3>9. freed => Holders(x) \ {o} = {}
      <4> SUFFICES ASSUME freed PROVE Holders(x) \ {o} = {}
        OBVIOUS
      <4>1. Cardinality(Holders(x) \ {o}) = 0
        BY <1>5, <2>1, <2>3, <3>2, <3>4
      <4>2. IsFiniteSet(Holders(x) \ {o})
        BY <3>4, FS_RemoveElement
      <4> QED BY <4>1, <4>2, FS_EmptySet
    <3>10. ASSUME NEW q \in Holders(x) \ {o} PROVE cpObjects'[q] = cpObjects[q]
      <4>1. q \in Objects /\ cpObjects[q] # NoObject /\ q # o /\ ~freed
        BY <3>9, <3>10 DEF Holders
      <4> QED BY <1>6, <4>1
    <3>11. Cardinality(Holders(x)') = snHeld'[x] /\ \A q \in Holders(x)' : ~cpObjects'[q].stale
      BY <2>1, <3>2, <3>4, <3>6, <3>8, <3>10 DEF HeldBy
    <3> QED BY <3>11, Zenon DEF HeldBy
  <2> QED BY <2>2, <2>3
<1>8. ObjectsOK'
  BY <1>6, <1>7, Zenon DEF ObjectsOK
<1> QED BY <1>5, <1>8 DEF SensorInv

\* A step of the objects alone, by devices that are misused from then on.
LEMMA MisusesStep ==
  ASSUME SensorInv, UNCHANGED <<snPool, snHeld, cpInUse>>, snCause \subseteq snCause', NEW o \in Objects,
         NEW r \in ObjectSet, cpObjects' = [cpObjects EXCEPT ![o] = r],
         r.device \in snCause', cpObjects[o] # NoObject => cpObjects[o].device \in snCause'
  PROVE  SensorInv'
<1>1. PoolInv'
  BY Zenon DEF SensorInv, PoolInv, Settled
<1>2. /\ cpObjects \in [Objects -> ObjectSet \cup {NoObject}]
      /\ cpObjects' \in [Objects -> ObjectSet \cup {NoObject}] /\ cpObjects'[o] = r
      /\ \A q \in Objects : q # o => cpObjects'[q] = cpObjects[q]
  BY DEF SensorInv, ObjectsOK
<1>3. ASSUME NEW x \in Devices, x \notin snCause', cpInUse PROVE HeldBy(x)'
  <2>1. HeldBy(x)
    BY <1>3 DEF SensorInv, ObjectsOK
  <2>2. o \notin Holders(x) /\ o \notin Holders(x)'
    BY <1>2, <1>3 DEF Holders
  <2>3. Holders(x)' = Holders(x)
    BY <1>2, <2>2 DEF Holders
  <2>4. \A q \in Holders(x) : cpObjects'[q] = cpObjects[q]
    BY <1>2, <2>2 DEF Holders
  <2>5. Cardinality(Holders(x)') = snHeld'[x] /\ \A q \in Holders(x)' : ~cpObjects'[q].stale
    BY <2>1, <2>3, <2>4 DEF HeldBy
  <2> QED BY <2>5, Zenon DEF HeldBy
<1>4. ObjectsOK'
  BY <1>2, <1>3, Zenon DEF ObjectsOK
<1> QED BY <1>1, <1>4 DEF SensorInv

LEMMA ObjectStep ==
  ASSUME SensorAssumption, CppSensorAssumption, SensorInv, cpInUse, NEW class, NEW o \in Objects, ObjectDoes(class, o)
  PROVE  SensorInv'
<1>1. /\ ~Unused(o) /\ cpObjects[o] # NoObject /\ cpObjects[o] \in ObjectSet
      /\ cpObjects \in [Objects -> ObjectSet \cup {NoObject}]
  BY ObjectFacts DEF ObjectDoes, Unused, SensorInv, ObjectsOK
<1>2. CASE Destroys(o)
  <2> DEFINE left == [cpObjects EXCEPT ![o] = NoObject]
  <2>1. /\ left \in [Objects -> ObjectSet \cup {NoObject}] /\ left[o] = NoObject
        /\ \A q \in Objects : q # o => left[q] = cpObjects[q]
    BY <1>1
  <2>2. CallsRelease(o, left) /\ snCause \subseteq snCause'
    BY <1>2 DEF Destroys
  <2> HIDE DEF left
  <2> QED BY <1>1, <2>1, <2>2, CallsReleaseStep
<1>3. CASE ReleasesEarly(o)
  <2>1. CallsRelease(o, cpObjects) /\ snCause' = snCause \cup {cpObjects[o].device}
    BY <1>3 DEF ReleasesEarly, Misuses
  <2>2. snCause \subseteq snCause' /\ cpObjects[o].device \in snCause'
    BY <2>1
  <2> QED BY <1>1, <2>1, <2>2, CallsReleaseStep
<1>4. CASE Copies(o)
  <2>1. PICK p \in Objects : Unused(p) /\ cpObjects' = [cpObjects EXCEPT ![p] = cpObjects[o]]
    BY <1>4 DEF Copies
  <2>2. snCause' = snCause \cup {cpObjects[o].device} /\ UNCHANGED <<snPool, snHeld, cpInUse>>
    BY <1>4 DEF Copies, Misuses
  <2>3. snCause \subseteq snCause' /\ cpObjects[o].device \in snCause'
    BY <2>2
  <2> QED BY <1>1, <2>1, <2>2, <2>3, MisusesStep DEF Unused
<1>5. CASE Assigns(o)
  <2>1. PICK p \in Objects : /\ ~Unused(p) /\ cpObjects' = [cpObjects EXCEPT ![o] = cpObjects[p]]
                             /\ Misuses({cpObjects[o].device, cpObjects[p].device})
    BY <1>5 DEF Assigns
  <2>2. snCause' = snCause \cup {cpObjects[o].device, cpObjects[p].device} /\ UNCHANGED <<snPool, snHeld, cpInUse>>
    BY <1>5, <2>1 DEF Assigns, Misuses
  <2>3. snCause \subseteq snCause' /\ cpObjects[o].device \in snCause' /\ cpObjects[p].device \in snCause'
    BY <2>2
  <2>4. cpObjects[p] \in ObjectSet
    BY <2>1, ObjectFacts DEF SensorInv
  <2> QED BY <2>1, <2>2, <2>3, <2>4, MisusesStep
<1>6. CASE UNCHANGED <<snVars, cpVars>>
  BY <1>6, Zenon DEF snVars, cpVars, SensorInv, PoolInv, ObjectsOK, HeldBy, Holders, Settled
<1> QED BY <1>2, <1>3, <1>4, <1>5, <1>6 DEF ObjectDoes

LEMMA CppStep ==
  ASSUME SensorAssumption, CppSensorAssumption, SensorInv, CppNext
  PROVE  SensorInv'
<1>1. PICK o \in Objects : (\E class \in SensorClasses : Gets(class, o)) \/ (\E class \in SensorClasses : ObjectDoes(class, o))
  <2>1. /\ "accelerometer" \in SensorClasses /\ "gyro" \in SensorClasses /\ "humidity" \in SensorClasses
        /\ "light" \in SensorClasses /\ "temperature" \in SensorClasses /\ "proximity" \in SensorClasses
        /\ "flame" \in SensorClasses /\ "pressure" \in SensorClasses /\ "hall" \in SensorClasses
    BY DEF SensorClasses
  <2> QED BY <2>1, Zenon
    DEF CppNext, get_sensor, get_accelerometer_sensor, get_gyro_sensor, get_humidity_sensor, get_light_sensor,
        get_temperature_sensor, get_proximity_sensor, get_flame_sensor, get_pressure_sensor, get_hall_sensor,
        AccelerometerSensor, GyroSensor, HumiditySensor, LightSensor, TemperatureSensor, ProximitySensor,
        FlameSensor, PressureSensor, HallSensor
<1>2. cpInUse
  BY DEF CppNext
<1> QED BY <1>1, <1>2, GetsStep, ObjectStep

\* The C functions, by an application without objects.
LEMMA CStep ==
  ASSUME SensorAssumption, SensorInv, ~cpInUse, SensorNext, UNCHANGED cpVars
  PROVE  SensorInv'
<1>1. PICK k \in Devices : os_sensor_request(k) \/ Released(k)
  BY DEF SensorNext
<1>2. PoolInv'
  BY <1>1, RequestDoes, RequestKeeps, ReleasedStep DEF SensorInv
<1>3. ObjectsOK'
  BY Zenon DEF cpVars, SensorInv, ObjectsOK
<1> QED BY <1>2, <1>3 DEF SensorInv

LEMMA ReadingStep ==
  ASSUME SensorInv, ReadingNext, UNCHANGED cpVars
  PROVE  SensorInv'
<1>1. UNCHANGED <<snPool, snHeld, snCause>>
  <2>1. \A r : Measures(r) => UNCHANGED <<snPool, snHeld, snCause>>
    BY DEF Measures
  <2> QED BY <2>1, ZenonT(60) DEF ReadingNext
<1> QED BY <1>1, Zenon DEF cpVars, SensorInv, PoolInv, ObjectsOK, HeldBy, Holders, Settled

LEMMA SensorStarts ==
  ASSUME SensorAssumption, CppSensorAssumption, SensorInit, CppInit
  PROVE  SensorInv
<1> DEFINE rs == [b \in SensorBuses |-> 0]
<1>1. snPool = [nodes |-> <<>>, refs |-> rs, open |-> {}] /\ snHeld = [k \in Devices |-> 0]
      /\ cpObjects = [o \in Objects |-> NoObject]
  BY DEF SensorInit, CppInit
<1>2. snPool.nodes = <<>> /\ snPool.refs = rs /\ snPool.open = {} /\ DOMAIN snPool.nodes = {}
  BY <1>1
<1>3. Requested(snPool) = {}
  BY <1>2 DEF Requested
<1>4. \A b \in SensorBuses : NodesOn(snPool, b) = {}
  BY <1>3 DEF NodesOn
<1>5. Cardinality({}) = 0 /\ IsFiniteSet({})
  BY FS_EmptySet
<1>6. snPool.nodes \in [{} -> NodeSet]
  BY <1>2
<1>7. PoolOK(snPool)
  <2>1. snPool = [nodes |-> snPool.nodes, refs |-> snPool.refs, open |-> snPool.open]
    BY <1>1, <1>2
  <2>2. snPool.refs \in [SensorBuses -> Int] /\ \A b \in SensorBuses : snPool.refs[b] = 0
    BY <1>2
  <2> QED BY <1>2, <1>3, <1>4, <1>5, <1>6, <2>1, <2>2 DEF PoolOK
<1>8. snHeld \in [Devices -> 0..MaxHeld] /\ \A k \in Devices : snHeld[k] = 0
  BY <1>1 DEF SensorAssumption
<1>9. \A k \in Devices : Settled(snPool, snHeld, snCause, k)
  BY <1>3, <1>8 DEF Settled
<1>10. \A k \in Devices : Holders(k) = {}
  BY <1>1 DEF Holders
<1>11. \A k \in Devices : HeldBy(k)
  BY <1>5, <1>8, <1>10 DEF HeldBy
<1>12. cpObjects \in [Objects -> ObjectSet \cup {NoObject}]
  BY <1>1
<1> QED BY <1>7, <1>8, <1>9, <1>11, <1>12, Zenon DEF SensorInv, PoolInv, ObjectsOK

\* Whichever step of a request fails, held devices are listed with their bus
\* handle, what is listed is held, references to the bus modules balance, and
\* an object has its device (sensor/devices, artik_sensor.cpp).
THEOREM SensorsAreSound == SensorSpec => []SensorSound
<1>1. SensorInit /\ CppInit => SensorInv
  BY SensorAssumption, CppSensorAssumption, SensorStarts
<1>2. SensorInv /\ [\/ ~cpInUse /\ SensorNext /\ UNCHANGED cpVars
                    \/ CppNext
                    \/ ReadingNext /\ UNCHANGED cpVars]_<<snVars, cpVars>> => SensorInv'
  <2>1. ASSUME SensorInv, UNCHANGED <<snVars, cpVars>> PROVE SensorInv'
    BY <2>1, Zenon DEF snVars, cpVars, SensorInv, PoolInv, ObjectsOK, HeldBy, Holders, Settled
  <2> QED BY <2>1, SensorAssumption, CppSensorAssumption, CStep, CppStep, ReadingStep, Zenon
<1>3. SensorInv => SensorSound
  <2> SUFFICES ASSUME SensorInv PROVE SensorSound
    OBVIOUS
  <2>1. /\ PoolOK(snPool) /\ snHeld \in [Devices -> 0..MaxHeld]
        /\ \A k \in Devices : Settled(snPool, snHeld, snCause, k)
    BY DEF SensorInv, PoolInv
  <2>2. \A k \in Requested(snPool) : k \in Devices /\ snPool.nodes[k].count \in 1..MaxHeld
    <3>1. \A k \in Requested(snPool) : k \in Devices /\ snPool.nodes[k] \in NodeSet
      BY <2>1 DEF PoolOK
    <3> QED BY <3>1 DEF NodeSet
  <2>3. BusBalanced
    BY <2>1 DEF PoolOK, BusBalanced, NodesOn
  <2>4. snPool.refs \in [SensorBuses -> Nat]
    <3>1. ASSUME NEW b \in SensorBuses PROVE snPool.refs[b] \in Nat
      <4>1. IsFiniteSet(NodesOn(snPool, b))
        <5>1. NodesOn(snPool, b) \subseteq Requested(snPool) /\ IsFiniteSet(Requested(snPool))
          BY <2>1 DEF NodesOn, PoolOK
        <5> QED BY <5>1, FS_Subset
      <4>2. Cardinality(NodesOn(snPool, b)) \in Nat
        BY <4>1, FS_CardinalityType
      <4> QED BY <2>1, <4>2 DEF PoolOK
    <3> QED BY <2>1, <3>1 DEF PoolOK
  <2>5. SensorTypeOK
    BY <2>1, <2>2, <2>4 DEF SensorTypeOK, PoolOK
  <2>6. ASSUME NEW k \in Devices, k \notin snCause
        PROVE  /\ k \in Requested(snPool) => snPool.nodes[k].count = snHeld[k]
               /\ k \notin Requested(snPool) => snHeld[k] = 0
    BY <2>1, <2>6 DEF Settled
  <2>7. HeldIsListed
    BY <2>1, <2>6 DEF HeldIsListed, PoolOK
  <2>8. ListedIsHeld
    BY <2>2, <2>6 DEF ListedIsHeld
  <2>9. ObjectHasDevice
    <3> SUFFICES ASSUME cpInUse, NEW k \in Devices \ snCause
                 PROVE  IF Holders(k) = {} THEN k \notin Requested(snPool)
                        ELSE k \in snPool.open /\ snPool.nodes[k].count = Cardinality(Holders(k))
      BY DEF ObjectHasDevice
    <3>1. Cardinality(Holders(k)) = snHeld[k]
      BY DEF SensorInv, ObjectsOK, HeldBy
    <3>2. IsFiniteSet(Holders(k))
      BY HoldersFinite, CppSensorAssumption
    <3>3. Cardinality(Holders(k)) = 0 <=> Holders(k) = {}
      BY <3>2, FS_EmptySet
    <3>4. CASE Holders(k) = {}
      BY <2>2, <2>6, <3>1, <3>3, <3>4
    <3>5. CASE Holders(k) # {}
      <4>1. k \in Requested(snPool) /\ snPool.open = Requested(snPool)
        BY <2>1, <2>6, <3>1, <3>3, <3>5 DEF PoolOK
      <4> QED BY <2>6, <3>1, <3>5, <4>1
    <3> QED BY <3>4, <3>5
  <2> QED BY <2>3, <2>5, <2>7, <2>8, <2>9 DEF SensorSound
<1> QED BY <1>1, <1>2, <1>3, PTL DEF SensorSpec

=============================================================================
