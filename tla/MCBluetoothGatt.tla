--------------------------- MODULE MCBluetoothGatt ---------------------------
(***************************************************************************)
(* The GATT server, the GATT client and the objects of the agent and the   *)
(* serial port profile on small instances.  They share no variable, so TLC *)
(* explores one at a time.                                                 *)
(***************************************************************************)
EXTENDS BtGatt, BtAgent

VARIABLE group

MCInit ==
  /\ GattInit /\ GattClientInit /\ AgentInit
  /\ group \in {"server", "client", "agent"}

MCNext ==
  /\ \/ group = "server" /\ GattNext /\ UNCHANGED <<gattClientVars, agentVars>>
     \/ group = "client" /\ GattClientNext /\ UNCHANGED <<gattVars, agentVars>>
     \/ group = "agent" /\ AgentNext /\ UNCHANGED <<gattVars, gattClientVars>>
  /\ UNCHANGED group

MCSpec ==
  /\ MCInit /\ [][MCNext]_<<gattVars, gattClientVars, agentVars, group>>
  /\ GattFairness /\ GattClientFairness /\ AgentFairness

\* Requests of the remote side are answered, the application hears of
\* discovered services, and requests of the agent are answered (gatt_server.c,
\* core.c, agent.c).
RequestsServed ==
  /\ EveryRequestServed /\ ServicesTold /\ RequestAnswered

=============================================================================
