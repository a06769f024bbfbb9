----------------------------- MODULE MCBluetooth -----------------------------
(***************************************************************************)
(* Devices, file transfer, audio, network and remote control of bluetooth  *)
(* on small instances.  They share no variable, so a behaviour of all is a *)
(* behaviour of each, and TLC explores one at a time.                      *)
(***************************************************************************)
EXTENDS BtDevice, BtObex, BtProfiles

VARIABLE group

MCInit ==
  /\ BtInit /\ ObexInit /\ MediaInit /\ EndpointInit
  /\ group \in {"device", "obex", "pan", "avrcp", "a2dp", "advertisement"}

\* Bound: one device is connected at a time; BlueZ may still refuse the other.
OneConnected == Cardinality(connected) <= 1

MCNext ==
  /\ \/ group = "device" /\ BtNext /\ OneConnected' /\ UNCHANGED <<obexVars, mediaVars, endpointVars>>
     \/ group = "obex" /\ ObexNext /\ UNCHANGED <<btVars, mediaVars, endpointVars>>
     \/ group = "pan" /\ PanNext /\ UNCHANGED <<btVars, obexVars, avVars, endpointVars>>
     \/ group = "avrcp" /\ ~avFault /\ AvrcpNext /\ UNCHANGED <<btVars, obexVars, panVars, endpointVars>>
     \/ group = "a2dp" /\ ~epFault /\ A2dpNext /\ UNCHANGED <<btVars, obexVars, mediaVars, advVars>>
     \/ group = "advertisement" /\ ~advFault /\ AdvertNext /\ UNCHANGED <<btVars, obexVars, mediaVars, epVars>>
  /\ UNCHANGED group

MCSpec ==
  /\ MCInit /\ [][MCNext]_<<btVars, obexVars, mediaVars, endpointVars, group>>
  /\ BtFairness /\ ObexFairness

\* Every bonding and every connection that was begun is told to the user, and
\* a transfer does not stay cancelling (device.c, ftp.c).
CallsEnd ==
  /\ EveryCallAnswered /\ CancelEnds

=============================================================================
