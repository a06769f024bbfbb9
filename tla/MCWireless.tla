----------------------------- MODULE MCWireless -----------------------------
(***************************************************************************)
(* zigbee and wifi on small instances: a controller endpoint and one that  *)
(* takes reports and controls colours; two networks, the name of one a     *)
(* part of the other's.  They share no variable, so TLC explores one group *)
(* or the other.                                                           *)
(***************************************************************************)
EXTENDS Zigbee, Wifi

VARIABLE group

MCClientOf == <<{"identify", "onoff", "level", "fan", "thermostat", "basic"},
                {"level", "color", "occupancy", "temp"}>>

MCServerOf == <<{"groups", "onoff", "level", "color", "fan"},
                {"illum", "occupancy", "thermostat", "temp"}>>

MCNameContains == {<<"a", "a">>, <<"ab", "ab">>, <<"ab", "a">>}

MCInit == ZigbeeInit /\ WifiInit /\ group \in {"zigbee", "wifi"}

MCNext ==
  /\ \/ group = "zigbee" /\ ZigbeeNext /\ UNCHANGED wifiVars
     \/ group = "wifi" /\ WifiNext /\ UNCHANGED zbVars
  /\ UNCHANGED group

MCSpec == MCInit /\ [][MCNext]_<<zbVars, wifiVars, group>> /\ WifiFairness

=============================================================================
