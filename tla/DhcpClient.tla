----------------------------- MODULE DhcpClient -----------------------------
(***************************************************************************)
(* The DHCP client of the network module (linux_network.c) over dhcpc and  *)
(* the main loop, and the configuration of an interface (netlib.c).  A     *)
(* client is a block of dhcpc, which has the socket on port 68, a node in  *)
(* requested_node and a timeout that renews the lease.  The timeout is     *)
(* given the address of the application's handle variable.  A call of      *)
(* dhcpc_request is one step here; Dhcpc has its inside.                   *)
(***************************************************************************)
EXTENDS Integers, Sequences, FiniteSets

CONSTANTS
  HandleVars,  \* variables of the application
  MaxStarts,   \* calls of os_dhcp_client_start
  LeaseIps,         \* addresses
  MaxTimers    \* timeouts that are added

ASSUME DhcpClientAssumption == MaxStarts \in Nat /\ MaxTimers \in Nat /\ LeaseIps \subseteq Nat \ {0}

VARIABLES
  blocks,    \* blocks of dhcpc that are allocated; each has the port
  nodes,     \* requested_node: handle, renew_cbk_id
  timers,    \* timeouts in the loop: id, and the variable they point to
  timersMade, starts,
  handle,    \* the application's variables: a handle, 0, or "gone"
  quit,      \* the renewal has ended the main loop
  conf,      \* the interface: address, mask, router, route
  dns,       \* /etc/resolv.conf
  asked,     \* the configuration set last, once all of it was set
  ncFault, ncCause

clientVars == <<blocks, nodes, timers, timersMade, starts, handle, quit, conf, dns, asked, ncFault, ncCause>>

Blocks == 1..2
Unset == -1
NoConf == [ip |-> 0, mask |-> 0, router |-> 0, route |-> 0]

DhcpClientInit ==
  /\ blocks = {} /\ nodes = <<>> /\ timers = {} /\ timersMade = 0 /\ starts = 0
  /\ handle = [v \in HandleVars |-> 0]
  /\ quit = FALSE
  /\ conf = NoConf /\ dns = <<>> /\ asked = <<>>
  /\ ncFault = FALSE /\ ncCause = {}

ConfVars == <<conf, dns, asked>>
Note(c) == ncCause' = ncCause \cup {c}

-----------------------------------------------------------------------------
(* netlib: each setter is a system call.                                   *)

set_ipv4addr(c, a) == [c EXCEPT !.ip = a]
set_ipv4netmask(c, a) == [c EXCEPT !.mask = a]
set_dripv4addr(c, a) == [c EXCEPT !.router = a]
set_defaultroute(c, a) == [c EXCEPT !.route = a]
del_allroutes_interface(c) == [c EXCEPT !.route = 0]

\* Opened to append, or to write from the beginning.
dns_add_nameserver(file, a, append) == IF append THEN Append(file, a) ELSE <<a>>

set_ipv4dnsaddr(a, append) == dns_add_nameserver(dns, a, append)

\* The settings of a lease, or of a configuration, of address a: all or, when
\* the k-th call fails, the ones before it.
Settings(c, a, k) ==
  LET s1 == IF k >= 1 THEN set_ipv4addr(c, a) ELSE c
      s2 == IF k >= 2 THEN set_ipv4netmask(s1, a) ELSE s1
      s3 == IF k >= 3 THEN set_dripv4addr(s2, a) ELSE s2
  IN IF k >= 4 THEN set_defaultroute(s3, a) ELSE s3

\* dns before the route for a lease.
LeaseSettings(a, k) ==
  /\ conf' = Settings(conf, a, IF k = 4 THEN 3 ELSE IF k = 5 THEN 4 ELSE k)
  /\ dns' = IF k >= 4 THEN set_ipv4dnsaddr(a, FALSE) ELSE dns
  /\ asked' = IF k >= 4 THEN <<a>> ELSE asked

\* A configuration of the wrong form is refused before anything is set.
check_network_config(k) == k > 0

\* A second server, where the configuration has one, is appended.
os_set_network_config(a, k, servers) ==
  /\ check_network_config(k)
  /\ conf' = Settings(conf, a, k)
  /\ dns' = IF k < 5 THEN dns
            ELSE IF k = 5 \/ servers = 1 THEN set_ipv4dnsaddr(a, FALSE)
            ELSE dns_add_nameserver(set_ipv4dnsaddr(a, FALSE), a + 1, TRUE)
  /\ asked' = IF k < 5 THEN asked ELSE IF k = 5 \/ servers = 1 THEN <<a>> ELSE <<a, a + 1>>
  /\ UNCHANGED <<blocks, nodes, timers, timersMade, starts, handle, quit, ncFault, ncCause>>

check_dhcp_server_config(k) == k > 0

\* The settings of a server, in the order it makes them; Dhcpd has the rest.
os_dhcp_server_start(a, k) ==
  /\ check_dhcp_server_config(k)
  /\ LET c == Settings(del_allroutes_interface(conf), a, IF k = 4 THEN 3 ELSE k - 1)
     IN conf' = IF k = 4 THEN set_defaultroute(c, 0) ELSE c
  /\ UNCHANGED <<blocks, nodes, timers, timersMade, starts, handle, quit, dns, asked, ncFault, ncCause>>

\* What os_get_network_config fills in: as many servers as there is room for.
get_ipv4dnsaddr == SubSeq(dns, 1, IF Len(dns) < 2 THEN Len(dns) ELSE 2)
os_get_network_config == [conf |-> conf, dns |-> get_ipv4dnsaddr]

-----------------------------------------------------------------------------
(* dhcpc.                                                                  *)

\* Port 68 is bound without SO_REUSEADDR: by one block at a time.
CanOpen == blocks = {}

dhcpc_open(h) == CanOpen /\ h \in Blocks

\* artik_list_get_by_handle: the first node with the handle.
ByHandle(h) == {i \in DOMAIN nodes : nodes[i].handle = h /\ \A j \in 1..(i - 1) : nodes[j].handle # h}

\* A timeout for the variable v, added by the node with index i.
AddTimeout(v, ns, i) ==
  /\ timersMade' = timersMade + 1
  /\ timers' = {t \in timers : t.id # ns[i].timer} \cup {[id |-> timersMade + 1, var |-> v]}
  /\ nodes' = [ns EXCEPT ![i].timer = timersMade + 1]

-----------------------------------------------------------------------------
(* The client.                                                             *)

NewNode(h) == Append(nodes, [handle |-> h, timer |-> 0])

\* The steps of a start: the routes, open, the request, the node and the
\* settings, the timeout.  What was done before a step that fails stays.
os_dhcp_client_start(v, h) ==
  /\ starts < MaxStarts
  /\ timersMade < MaxTimers
  /\ starts' = starts + 1
  /\ \/ /\ ~CanOpen /\ h = 1
        /\ handle' = [handle EXCEPT ![v] = 0]
        /\ conf' = del_allroutes_interface(conf)
        /\ IF handle[v] = 0 THEN UNCHANGED ncCause ELSE Note("variable overwritten")
        /\ UNCHANGED <<blocks, nodes, timers, timersMade, dns, asked>>
     \/ /\ dhcpc_open(h)
        /\ blocks' = blocks \cup {h}
        /\ handle' = [handle EXCEPT ![v] = h]
        /\ Note("request failed")
        /\ conf' = del_allroutes_interface(conf)
        /\ UNCHANGED <<nodes, timers, timersMade, dns, asked>>
     \/ /\ dhcpc_open(h)
        /\ blocks' = blocks \cup {h}
        /\ handle' = [handle EXCEPT ![v] = h]
        /\ \E a \in LeaseIps, k \in 0..4 : LeaseSettings(a, k)
        /\ nodes' = NewNode(h)
        /\ Note("settings failed")
        /\ UNCHANGED <<timers, timersMade>>
     \/ /\ dhcpc_open(h)
        /\ blocks' = blocks \cup {h}
        /\ handle' = [handle EXCEPT ![v] = h]
        /\ \E a \in LeaseIps : LeaseSettings(a, 5)
        /\ AddTimeout(v, NewNode(h), Len(nodes) + 1)
        /\ UNCHANGED ncCause
  /\ UNCHANGED <<quit, ncFault>>

\* The block is closed and freed.  The node and its timeout stay.
os_dhcp_client_stop(v) ==
  LET h == handle[v] IN
  /\ h # Unset
  /\ ByHandle(h) # {}
  /\ blocks' = blocks \ {h}
  /\ ncFault' = (h \notin blocks)
  /\ Note("stopped")
  /\ UNCHANGED <<nodes, timers, timersMade, starts, handle, quit, ConfVars>>

\* The application's variable is on a stack frame that is left, or reused.
VariableGone(v) ==
  /\ handle[v] # Unset
  /\ handle' = [handle EXCEPT ![v] = Unset]
  /\ Note("variable gone")
  /\ UNCHANGED <<blocks, nodes, timers, timersMade, starts, quit, ConfVars, ncFault>>

\* Mutant: the timeout is not added again.
RenewsOnce(t, i) ==
  /\ \E a \in LeaseIps : LeaseSettings(a, 5)
  /\ timers' = timers \ {t}
  /\ UNCHANGED <<nodes, timersMade, quit, ncFault, ncCause>>

\* A lease that is renewed has a new timeout for the same variable.  The
\* old one is removed by its id; where there is none the call has failed.
dhcp_client_renew(t, i) ==
  /\ \E a \in LeaseIps : LeaseSettings(a, 5)
  /\ IF nodes[i].timer \in {u.id : u \in timers}
     THEN /\ timersMade < MaxTimers
          /\ timersMade' = timersMade + 1
          /\ timers' = {u \in timers : u.id \notin {t.id, nodes[i].timer}} \cup {[id |-> timersMade + 1, var |-> t.var]}
          /\ nodes' = [nodes EXCEPT ![i].timer = timersMade + 1]
          /\ UNCHANGED quit
     ELSE timers' = timers \ {t} /\ quit' = TRUE /\ UNCHANGED <<nodes, timersMade>>
  /\ UNCHANGED <<ncFault, ncCause>>

\* The request or a setting fails: no address, no timeout, no main loop.
\* The main loop goes on when even the address cannot be taken away.
RenewFails(t) ==
  /\ \E a \in LeaseIps, k \in 0..4 :
       /\ dns' = IF k = 4 THEN set_ipv4dnsaddr(a, FALSE) ELSE dns
       /\ asked' = IF k = 4 THEN <<a>> ELSE asked
       /\ LET c == Settings(conf, a, IF k = 4 THEN 3 ELSE k) IN
          \/ conf' = set_ipv4addr(c, 0) /\ quit' = TRUE
          \/ conf' = c /\ UNCHANGED quit
  /\ timers' = timers \ {t}
  /\ Note("renewal failed")
  /\ UNCHANGED <<nodes, timersMade, ncFault>>

on_dhcp_client_renew_callback(t) ==
  LET h == handle[t.var] IN
  /\ t \in timers
  /\ \/ /\ h = Unset
        /\ ncFault' = TRUE
        /\ UNCHANGED <<timers, nodes, timersMade, quit, ConfVars, ncCause>>
     \/ /\ h # Unset /\ ByHandle(h) = {}
        /\ timers' = timers \ {t}
        /\ UNCHANGED <<nodes, timersMade, quit, ConfVars, ncFault, ncCause>>
     \/ /\ h # Unset
        /\ \E i \in ByHandle(h) :
             IF h \notin blocks
             THEN ncFault' = TRUE /\ UNCHANGED <<timers, nodes, timersMade, quit, ConfVars, ncCause>>
             ELSE dhcp_client_renew(t, i) \/ RenewFails(t)
  /\ UNCHANGED <<blocks, starts, handle>>

-----------------------------------------------------------------------------
artik_dhcp_client ==
  \E v \in HandleVars :
    \/ \E h \in Blocks : os_dhcp_client_start(v, h)
    \/ os_dhcp_client_stop(v)

DhcpClientNext ==
  /\ ~ncFault /\ ~quit
  /\ \/ artik_dhcp_client
     \/ \E a \in LeaseIps, k \in 0..6, n \in 1..2 : os_set_network_config(a, k, n)
     \/ \E a \in LeaseIps, k \in 0..4 : os_dhcp_server_start(a, k)
     \/ \E v \in HandleVars : VariableGone(v)
     \/ \E t \in timers : on_dhcp_client_renew_callback(t)

DhcpClientSpec == DhcpClientInit /\ [][DhcpClientNext]_clientVars

-----------------------------------------------------------------------------
(* The kinds of the variables; one block has the port at a time.           *)
DhcpClientTypeOK ==
  /\ blocks \subseteq Blocks /\ Cardinality(blocks) <= 1
  /\ \A i \in DOMAIN nodes : nodes[i].handle \in Blocks /\ nodes[i].timer \in 0..timersMade
  /\ \A t \in timers : t.id \in 1..timersMade /\ t.var \in HandleVars
  /\ conf.ip \in LeaseIps \cup {0}

(* Freed memory or a variable that is gone is used only after the          *)
(* application stopped a client, whose timeout stays, or left the function *)
(* whose variable it had passed.                                           *)
RenewFaultHasCause == ncFault => ncCause \cap {"stopped", "variable gone"} # {}

(* A client that was started has a timeout that will renew its lease, and  *)
(* the timeout will find it, for as long as it is not stopped; through any *)
(* number of renewals.                                                     *)
LeaseIsRenewed ==
  ncCause = {} => \A i \in DOMAIN nodes : nodes[i].handle \in blocks /\ ~quit =>
    \E t \in timers : t.id = nodes[i].timer /\ handle[t.var] = nodes[i].handle

(* The main loop is ended only when a renewal failed, or when a client was *)
(* stopped and another one with the same handle took its node's place.     *)
QuitHasCause == quit => ncCause \cap {"renewal failed", "stopped", "settings failed"} # {}

(* The port is held by a client the application can stop, unless the       *)
(* request of a start failed: then no client can be started any more.      *)
PortHasClient == ncCause = {} => \A b \in blocks : ByHandle(b) # {}

(* The name servers are those of the configuration or the lease that was   *)
(* set last, and those that were there before are gone.                    *)
DnsIsLastSet == os_get_network_config.dns = asked

\* A lease has a timeout that renews it, port 68 is bound by a client that can
\* be stopped, and a renewal meets a variable or block that is gone only after
\* the calls the parts name (os_dhcp_client_start,
\* on_dhcp_client_renew_callback).
DhcpClientSound ==
  /\ DhcpClientTypeOK /\ RenewFaultHasCause /\ LeaseIsRenewed /\ QuitHasCause
  /\ PortHasClient /\ DnsIsLastSet

=============================================================================
