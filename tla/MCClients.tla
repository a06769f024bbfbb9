----------------------------- MODULE MCClients -----------------------------
(***************************************************************************)
(* The clients of message brokers and of device management servers on      *)
(* small instances: mqtt, and lwm2m on Linux and on TizenRT.  They share no *)
(* variable, so TLC explores one group at a time.                          *)
(***************************************************************************)
EXTENDS Mqtt, Lwm2m, TinyLwm2m

VARIABLE group

Modest == [k \in AllKinds |-> {"disconnect", "ask"}]

\* What the callbacks of the repository's mqtt tests do.
ConnectionKinds == {"connect", "disconnect"}
AsInTests == [k \in AllKinds |-> IF k = "disconnect" THEN {"destroy"} ELSE {"disconnect", "ask"}]

MCInit == MqttInit /\ LwInit /\ TyInit /\ group \in {"mqtt", "lwm2m", "objects", "tiny_lwm2m"}

MCNext ==
  /\ \/ group = "mqtt" /\ MqttNext /\ UNCHANGED <<lwVars, tyVars>>
     \/ group = "lwm2m" /\ LwClientNext /\ UNCHANGED <<mqttVars, tyVars>>
     \/ group = "objects" /\ LwObjectNext /\ UNCHANGED <<mqttVars, tyVars>>
     \/ group = "tiny_lwm2m" /\ TyNext /\ UNCHANGED <<mqttVars, lwVars>>
  /\ UNCHANGED group

MCSpec ==
  /\ MCInit /\ [][MCNext]_<<mqttVars, lwVars, tyVars, group>>
  /\ MqttFairness /\ LwFairness /\ TyFairness

\* The watch of a lost mqtt connection goes, an event Wakaama's thread posted
\* is reported or its client gone, and a disconnect on TizenRT ends
\* (loop_handler, on_idle_callback, os_lwm2m_client_disconnect).
ClientsServe ==
  /\ StaleWatchGoes /\ PostedIsReported /\ TinyDisconnectEnds

=============================================================================
