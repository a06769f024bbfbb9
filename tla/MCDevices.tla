----------------------------- MODULE MCDevices -----------------------------
(***************************************************************************)
(* The device modules on small instances.  gpio and serial share the       *)
(* descriptors, the heap and the loop and are composed in Systemio, and    *)
(* the C++ sensor classes run over the drivers they release.  The other    *)
(* families share no variable with these or with each other: a behaviour   *)
(* of all is a behaviour of each, and TLC explores one group at a time.    *)
(***************************************************************************)
EXTENDS Systemio, Media, Sensor

VARIABLE group

MCInit ==
  /\ IoInit /\ BusInit /\ MdInit /\ SensorInit /\ CppInit
  /\ group \in {"io", "bus", "media", "sensors", "readings", "classes"}
  /\ cpInUse = (group = "classes")
  /\ group = "io" \/ \A p \in Pins : exported[p] = "nobody"
  /\ group \in {"sensors", "readings"} \/ ~snSigned

MCNext ==
  /\ \/ group = "io" /\ IoNext /\ UNCHANGED <<busVars, mdVars, snVars, cpVars>>
     \/ group = "bus" /\ BusNext /\ UNCHANGED <<ioVars, mdVars, snVars, cpVars>>
     \/ group = "media" /\ MdNext /\ UNCHANGED <<ioVars, busVars, snVars, cpVars>>
     \/ group = "sensors" /\ SensorNext /\ UNCHANGED <<ioVars, busVars, mdVars, cpVars>>
     \/ group = "readings" /\ ReadingNext /\ UNCHANGED <<ioVars, busVars, mdVars, cpVars>>
     \/ group = "classes" /\ CppNext /\ UNCHANGED <<ioVars, busVars, mdVars>>
  /\ UNCHANGED group

MCSpec ==
  /\ MCInit /\ [][MCNext]_<<ioVars, busVars, mdVars, snVars, cpVars, group>>
  /\ IoFairness /\ MdFairness

\* Data a port received is read while its callback is set, and a sound ends
\* and leaves the module ready for the next, unless it failed
\* (os_serial_change_callback, handle_message).
DevicesServe ==
  /\ SerialDelivers /\ SoundEnds

=============================================================================
