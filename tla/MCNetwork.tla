----------------------------- MODULE MCNetwork -----------------------------
(***************************************************************************)
(* The network module but for its server on small instances: a DHCP client *)
(* with two servers; clients, configuration and online watch over the main *)
(* loop.  They share no variable, so a behaviour of all is a behaviour of  *)
(* each, and TLC explores one at a time.                                   *)
(***************************************************************************)
EXTENDS Dhcpc, DhcpClient, OnlineWatch

CONSTANTS sv1, sv2
TwoServers == {sv1, sv2}
TwoOffers == [s \in TwoServers |-> IF s = sv1 THEN 1 ELSE 2]

VARIABLE group

MCInit ==
  /\ DhcpcInit /\ DhcpClientInit /\ OnlineInit
  /\ group \in {"dhcpc", "client", "online"}

MCNext ==
  /\ \/ group = "dhcpc" /\ DhcpcNext /\ UNCHANGED <<clientVars, onlineVars>>
     \/ group = "client" /\ DhcpClientNext /\ UNCHANGED <<dhcpcVars, onlineVars>>
     \/ group = "online" /\ OnlineNext /\ UNCHANGED <<dhcpcVars, clientVars>>
  /\ UNCHANGED group

MCSpec ==
  /\ MCInit /\ [][MCNext]_<<dhcpcVars, clientVars, onlineVars, group>>
  /\ DhcpcFairness /\ OnlineFairness

\* A request for a lease ends whatever the servers answer, and when the
\* network settles every watcher is told (dhcpc_request, network_connection).
NetworkSettles ==
  /\ RequestEnds /\ SettledIsTold

=============================================================================
