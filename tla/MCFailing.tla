----------------------------- MODULE MCFailing -----------------------------
(***************************************************************************)
(* Components whose calls, libraries and peers may all fail: the module    *)
(* manager with one thread and a mutex that is not initialised yet; two    *)
(* mqtt clients whose callbacks do anything; a DHCP server for two         *)
(* clients, one of which asks for a long lease.  They share no variable,   *)
(* so TLC explores one at a time.                                          *)
(***************************************************************************)
EXTENDS ModuleManager, Mqtt, Dhcpd

CONSTANTS t1, loop, http, a1, a2, m1, m2

VARIABLE group

MCThreads == {t1}
MCModules == {loop, http}
MCResident == {loop}
MCFailures == FailureKinds
MCAddrs == {a1, a2}
MCKinds == {"connect", "disconnect"}
MCFails == {"mosquitto_new", "option", "socket"}
Anything == [k \in AllKinds |-> Operations]
MCMacs == {m1, m2}
MCAsked == [m \in MCMacs |-> IF m = m1 THEN 0 ELSE 5]

MCInit ==
  /\ Init /\ MqttInit /\ DhcpdInit
  /\ group \in {"module", "mqtt", "server"}
  /\ group = "module" \/ arg = [t \in Threads |-> loop]

MCNext ==
  /\ \/ group = "module" /\ Next /\ UNCHANGED <<mqttVars, dhcpdVars>>
     \/ group = "mqtt" /\ MqttNext /\ UNCHANGED <<vars, dhcpdVars>>
     \/ group = "server" /\ DhcpdNext /\ UNCHANGED <<vars, mqttVars>>
  /\ UNCHANGED group

MCSpec == MCInit /\ [][MCNext]_<<vars, mqttVars, dhcpdVars, group>>

=============================================================================
