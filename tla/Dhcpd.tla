------------------------------- MODULE Dhcpd -------------------------------
(***************************************************************************)
(* The DHCP server of the network module (netutils/dhcpd.c, started and    *)
(* stopped by linux_network.c).  The server has one table slot per address *)
(* it may lease and handles one packet at a time in loop_handler, on the   *)
(* main loop.                                                              *)
(*                                                                         *)
(* The addresses startip .. endip are 1 .. NumLeases; 0 is INADDR_ANY, an  *)
(* option that is absent, and NumLeases + 1 any address out of the range.  *)
(* Times are kept as the time that is left: `left' is expiry minus the     *)
(* clock, and 0 once dhcpd_leaseexpired would say so.                      *)
(***************************************************************************)
EXTENDS Naturals

CONSTANTS
  Macs,        \* hardware addresses of the clients
  NoMac,       \* the all-zero hardware address of an empty slot
  NumLeases,   \* config->num_leases
  Reserved,    \* addresses ending in 0 or 255
  OfferTime,   \* CONFIG_NETUTILS_DHCPD_OFFERTIME
  DeclineTime, \* CONFIG_NETUTILS_DHCPD_DECLINETIME
  LeaseTime,   \* CONFIG_NETUTILS_DHCPD_LEASETIME
  MinLease,    \* CONFIG_NETUTILS_DHCPD_MINLEASETIME
  MaxLease,    \* CONFIG_NETUTILS_DHCPD_MAXLEASETIME
  AskedTime    \* the lease time each client asks for; 0 when it does not

ASSUME MacsAssumption == NoMac \notin Macs
ASSUME TableAssumption == NumLeases \in Nat \ {0} /\ Reserved \subseteq 1..NumLeases
ASSUME TimesAssumption ==
  /\ {OfferTime, DeclineTime, LeaseTime, MinLease, MaxLease} \subseteq Nat \ {0}
  /\ MinLease <= MaxLease
  /\ AskedTime \in [Macs -> Nat]

Ips == 1..NumLeases
AnyIp == 0..(NumLeases + 1)

VARIABLES
  leases,  \* g_state.ds_leases
  pkt,     \* g_state.ds_inpacket and the parsed options g_state.ds_opt*
  fd,      \* the listening socket: "none", "open", "closed" or "failed"
  pinged,  \* the addresses that answered a ping in the last step
  held     \* what each client believes it has been leased, and for how long

dhcpdVars == <<leases, pkt, fd, pinged, held>>

Lease == [mac : Macs \cup {NoMac}, allocated : BOOLEAN, left : Nat]
Fields == [type : {"DISCOVER", "REQUEST", "DECLINE", "RELEASE"}, chaddr : Macs,
           ciaddr : 0..NumLeases, reqip : AnyIp, serverip : {"none", "ours", "other"},
           leasetime : {0} \cup {AskedTime[m] : m \in Macs}]

(* What clients send, a field that its handler does not look at being 0: a *)
(* client that selects an offer names the server, one that reboots only    *)
(* the address, and one that renews uses the address.                      *)
Packet == {p \in Fields :
             /\ p.serverip # "none" => p.type = "REQUEST"
             /\ p.serverip = "ours" => p.reqip \in Ips
             /\ p.ciaddr # 0 => p.type = "REQUEST" /\ p.serverip = "none" /\ p.reqip = 0
             /\ p.reqip # 0 => p.type \in {"DISCOVER", "REQUEST"} /\ p.serverip # "other"
             /\ p.leasetime = IF p.type = "REQUEST" THEN AskedTime[p.chaddr] ELSE 0}
Zeroed == [type |-> "none", chaddr |-> NoMac, ciaddr |-> 0, reqip |-> 0,
           serverip |-> "none", leasetime |-> 0]

(* `sure' becomes FALSE when the server was restarted, or when a packet    *)
(* that the client did not send then and there was handled in its name.    *)
Holding == [ip : 0..NumLeases, left : Nat, sure : BOOLEAN]

Free == [mac |-> NoMac, allocated |-> FALSE, left |-> 0]
Nothing == [ip |-> 0, left |-> 0, sure |-> TRUE]

(* The shape of the table, of the last packet and of the clients' beliefs. *)
DhcpdTypeOK ==
  /\ leases \in [Ips -> Lease]
  /\ pkt \in Fields \cup {Zeroed}
  /\ fd \in {"none", "open", "closed", "failed"}
  /\ pinged \subseteq Ips
  /\ held \in [Macs -> Holding]

DhcpdInit ==
  /\ leases = [i \in Ips |-> Free]
  /\ pkt = Zeroed
  /\ fd = "none"
  /\ pinged = {}
  /\ held = [m \in Macs |-> Nothing]

----------------------------------------------------------------------------
(* The table: dhcpd_findbymac and dhcpd_findbyipaddr give no slot or one.  *)

dhcpd_leaseexpired(slot) == slot.left = 0

dhcpd_findbymac(m) ==
  {i \in Ips : leases[i].mac = m /\ \A j \in 1..(i - 1) : leases[j].mac # m}

dhcpd_findbyipaddr(ip) == {i \in Ips : i = ip /\ leases[i].allocated}

(* No slot, or one that has run out: the address may be given away.        *)
IsFree(ip) == \A i \in dhcpd_findbyipaddr(ip) : dhcpd_leaseexpired(leases[i])

dhcpd_verifyreqip(ip) == ip \in Ips /\ IsFree(ip)

dhcpd_setlease(m, ip, time) ==
  leases' = [leases EXCEPT ![ip] = [mac |-> m, allocated |-> TRUE, left |-> time]]

Candidates == {i \in Ips \ Reserved : i \notin pinged' /\ IsFree(i)}

\* Mutant of dhcpd_allocipaddr: the loop ends before endip.
AllocNotLast == {i \in Candidates \ {NumLeases} : \A j \in Candidates : i <= j}

dhcpd_allocipaddr == {i \in Candidates : \A j \in Candidates : i <= j}

dhcpd_verifyreqleasetime(time) ==
  IF time = 0 THEN LeaseTime
  ELSE IF time > MaxLease THEN MaxLease
  ELSE IF time < MinLease THEN MinLease
  ELSE time

----------------------------------------------------------------------------
(* The handlers.  Each says what becomes of the table; `answer' is what    *)
(* the client of a REQUEST is sent, with the address and the time in it.   *)

Answer(type, ip, time) == [type |-> type, ip |-> ip, time |-> time]
Silence == Answer("none", 0, 0)

\* Mutant of dhcpd_discover: the client's own slot is not looked for.
DiscoverForgets(p) ==
  /\ pinged' = {}
  /\ \/ /\ dhcpd_verifyreqip(p.reqip)
        /\ dhcpd_setlease(p.chaddr, p.reqip, OfferTime)
     \/ /\ ~dhcpd_verifyreqip(p.reqip)
        /\ \/ \E ip \in dhcpd_allocipaddr : dhcpd_setlease(p.chaddr, ip, OfferTime)
           \/ dhcpd_allocipaddr = {} /\ UNCHANGED leases

(* Own slot first, then the address asked for, then any that is free and   *)
(* does not answer a ping: the slot is reserved for the offer, whatever    *)
(* was left on it before.                                                  *)
dhcpd_discover(p) ==
  LET own == dhcpd_findbymac(p.chaddr)
      asked == dhcpd_verifyreqip(p.reqip)
  IN \/ /\ pinged' = {}
        /\ \/ \E ip \in own : dhcpd_setlease(p.chaddr, ip, OfferTime)
           \/ own = {} /\ asked /\ dhcpd_setlease(p.chaddr, p.reqip, OfferTime)
     \/ /\ own = {} /\ ~asked
        /\ pinged' \in SUBSET {i \in Ips : IsFree(i)}
        /\ \/ \E ip \in dhcpd_allocipaddr : dhcpd_setlease(p.chaddr, ip, OfferTime)
           \/ dhcpd_allocipaddr = {} /\ UNCHANGED leases

(* What the request of a client with the slot `ip' is answered with.       *)
Agrees(p, ip) ==
  CASE p.serverip # "none" -> p.serverip = "ours" /\ (p.reqip # 0 \/ p.reqip = ip)
    [] p.serverip = "none" /\ p.reqip # 0 -> p.reqip = ip
    [] OTHER -> p.ciaddr = ip

dhcpd_sendnak(answer) == answer = Answer("NAK", 0, 0) /\ UNCHANGED leases

(* The lease is written down once the ACK has been sent.                   *)
dhcpd_sendack(p, ip, answer) ==
  LET time == dhcpd_verifyreqleasetime(p.leasetime)
  IN \/ dhcpd_setlease(p.chaddr, ip, time) /\ answer = Answer("ACK", ip, time)
     \/ answer = Silence /\ UNCHANGED leases

(* An unknown client asks for an address it may remember from before: NAK  *)
(* when it is another's or out of range; a slot that has run out is wiped. *)
RequestUnknown(p, answer) ==
  LET slot == dhcpd_findbyipaddr(p.reqip)
      asks == p.reqip # 0 /\ p.serverip = "none"
  IN \/ /\ asks
        /\ p.reqip \notin Ips \/ ~IsFree(p.reqip)
        /\ dhcpd_sendnak(answer)
     \/ /\ asks /\ slot # {} /\ IsFree(p.reqip)
        /\ leases' = [leases EXCEPT ![p.reqip] = Free]
        /\ answer = Silence
     \/ /\ ~asks \/ (slot = {} /\ p.reqip \in Ips)
        /\ answer = Silence /\ UNCHANGED leases

dhcpd_request(p, answer) ==
  LET own == dhcpd_findbymac(p.chaddr)
  IN /\ \/ \E ip \in own : \/ Agrees(p, ip) /\ dhcpd_sendack(p, ip, answer)
                           \/ ~Agrees(p, ip) /\ dhcpd_sendnak(answer)
        \/ own = {} /\ RequestUnknown(p, answer)
     /\ pinged' = {}

dhcpd_decline(p) ==
  /\ leases' = [i \in Ips |-> IF i \in dhcpd_findbymac(p.chaddr)
                              THEN [leases[i] EXCEPT !.mac = NoMac, !.left = DeclineTime]
                              ELSE leases[i]]
  /\ pinged' = {}

dhcpd_release(p) ==
  /\ leases' = [i \in Ips |-> IF i \in dhcpd_findbymac(p.chaddr) THEN Free
                              ELSE leases[i]]
  /\ pinged' = {}

(* The switch of loop_handler on ds_optmsgtype.                            *)
Handle(p, answer) ==
  \/ p.type = "REQUEST" /\ dhcpd_request(p, answer)
  \/ /\ answer = Silence
     /\ \/ p.type = "DISCOVER" /\ dhcpd_discover(p)
        \/ p.type = "DECLINE" /\ dhcpd_decline(p)
        \/ p.type = "RELEASE" /\ dhcpd_release(p)
        \/ p.type = "none" /\ pinged' = {} /\ UNCHANGED leases

AnswersTo(p) ==
  IF p.type # "REQUEST" THEN {Silence}
  ELSE {Silence, Answer("NAK", 0, 0)}
         \cup {Answer("ACK", ip, dhcpd_verifyreqleasetime(p.leasetime)) : ip \in Ips}

----------------------------------------------------------------------------
(* loop_handler, by where its packet comes from.                           *)

(* The clients in S are no longer sure of what they hold.                  *)
Doubt(S) == held' = [m \in Macs |-> IF m \in S /\ held[m].left > 0
                                    THEN [held[m] EXCEPT !.sure = FALSE]
                                    ELSE held[m]]

(* What the client that sent the packet then holds.  It gives up what it   *)
(* has before a DISCOVER, and when it declines or releases.  The answer to *)
(* a REQUEST may be lost on its way.                                       *)
Believes(p, answer) ==
  \/ p.type # "REQUEST" /\ held' = [held EXCEPT ![p.chaddr] = Nothing]
  \/ p.type = "REQUEST" /\ UNCHANGED held
  \/ /\ answer.type = "ACK"
     /\ held' = [held EXCEPT ![p.chaddr] =
                   [ip |-> answer.ip, left |-> answer.time, sure |-> TRUE]]
  \/ answer.type = "NAK" /\ held' = [held EXCEPT ![p.chaddr] = Nothing]

(* A client sends a packet and the server receives it.                     *)
Receive(p) ==
  /\ fd = "open"
  /\ pkt' = p
  /\ \E answer \in AnswersTo(p) : Handle(p, answer) /\ Believes(p, answer)
  /\ UNCHANGED fd

(* The network delivers a packet a second time, or late.                   *)
ReceiveStray(p) ==
  /\ fd = "open"
  /\ pkt' = p
  /\ \E answer \in AnswersTo(p) : Handle(p, answer)
  /\ Doubt({p.chaddr})
  /\ UNCHANGED fd

(* A packet without the magic cookie: dhcpd_parseoptions leaves the        *)
(* options of the packet before it, and loop_handler goes on with them     *)
(* (when there is no packet before it, with no message type at all).       *)
ReceiveBadMagic(m, ip) ==
  /\ fd = "open" /\ pkt # Zeroed
  /\ ip # 0 => pkt.type = "REQUEST"
  /\ pkt' = [pkt EXCEPT !.chaddr = m, !.ciaddr = ip]
  /\ \E answer \in AnswersTo(pkt') : Handle(pkt', answer)
  /\ Doubt({m})
  /\ UNCHANGED fd

(* recv fails: the packet before is handled again.  Unless interrupted,    *)
(* the socket is closed, and the loop reports the closed descriptor to     *)
(* loop_handler again and again.                                           *)
RecvFails ==
  /\ fd \in {"open", "closed"}
  /\ \E answer \in AnswersTo(pkt) : Handle(pkt, answer)
  /\ fd' \in {fd, "closed"}
  /\ UNCHANGED <<pkt, held>>

(* os_dhcp_server_start: dhcpd_run starts from an empty table.  It goes on *)
(* without a socket when there is none to be had.                          *)
dhcpd_run ==
  /\ fd = "none"
  /\ leases' = [i \in Ips |-> Free]
  /\ pkt' = Zeroed
  /\ fd' \in {"open", "failed"}
  /\ pinged' = {}
  /\ Doubt(Macs)

(* os_dhcp_server_stop gives up when it cannot close the socket.           *)
os_dhcp_server_stop ==
  /\ fd = "open"
  /\ fd' = "none"
  /\ pinged' = {}
  /\ UNCHANGED <<leases, pkt, held>>

(* A unit of time passes, for the server and for the clients.              *)
Less(left) == IF left = 0 THEN 0 ELSE left - 1

Tick ==
  /\ leases' = [i \in Ips |-> [leases[i] EXCEPT !.left = Less(@)]]
  /\ held' = [m \in Macs |-> IF held[m].left <= 1 THEN Nothing
                             ELSE [held[m] EXCEPT !.left = Less(@)]]
  /\ pinged' = {}
  /\ UNCHANGED <<pkt, fd>>

Serve ==
  \/ \E p \in Packet : Receive(p) \/ ReceiveStray(p)
  \/ \E m \in Macs, ip \in 0..NumLeases : ReceiveBadMagic(m, ip)
  \/ RecvFails

DhcpdNext == Serve \/ dhcpd_run \/ os_dhcp_server_stop \/ Tick

DhcpdSpec == DhcpdInit /\ [][DhcpdNext]_dhcpdVars

----------------------------------------------------------------------------
(* No client has two slots: dhcpd_findbymac sees the first one only, so a  *)
(* second would be lost to decline, release and renewal.                   *)
OneSlotPerMac ==
  \A i, j \in Ips : leases[i].mac = leases[j].mac /\ leases[i].mac # NoMac => i = j

(* A client that holds a lease, and in whose name nothing stray was        *)
(* handled since, finds it in the table for as long as it was promised:    *)
(* whatever the other clients do, and however often recv fails and the     *)
(* last packet is handled again.                                           *)
HeldIsInTable ==
  \A m \in Macs : held[m].left > 0 /\ held[m].sure =>
    /\ held[m].ip \in Ips
    /\ leases[held[m].ip].mac = m
    /\ leases[held[m].ip].allocated
    /\ leases[held[m].ip].left >= held[m].left

(* Handling the last packet once more is harmless to its client: it holds  *)
(* nothing sure, or the packet is a REQUEST that is granted no less time   *)
(* than the client has left.                                               *)
LastIsHarmless ==
  \A m \in Macs : held[m].left > 0 /\ held[m].sure =>
    /\ held[m].left <= dhcpd_verifyreqleasetime(AskedTime[m])
    /\ m = pkt.chaddr => /\ pkt.type = "REQUEST"
                        /\ pkt.leasetime = AskedTime[m]

(* No address is held by two clients at a time.                            *)
NoDoubleLease ==
  \A m, n \in Macs :
    m # n /\ held[m].left > 0 /\ held[n].left > 0 /\ held[m].sure /\ held[n].sure
      => held[m].ip # held[n].ip

Running(i) == leases[i].allocated /\ ~dhcpd_leaseexpired(leases[i])

(* While a lease, an offer or the quarantine of a declined address runs,   *)
(* only a packet of the client it belongs to changes who has the address.  *)
RunningStays ==
  fd # "none" =>
    \A i \in Ips : Running(i) =>
      \/ leases'[i].mac = leases[i].mac /\ leases'[i].allocated
      \/ leases[i].mac = pkt'.chaddr

(* A DISCOVER goes without an offer only when every address is taken: its  *)
(* slot runs, it ends in 0 or 255, or something answers there.             *)
RefusedOnlyWhenFull ==
  /\ pkt'.type = "DISCOVER"
  /\ \A i \in Ips : leases'[i].mac # pkt'.chaddr
  /\ \E i \in Ips : ~Running(i) /\ i \notin Reserved /\ i \notin pinged'
  => ~Serve

\* The table and the clients agree: a client has one slot, a promise that
\* holds is in the table, handling the last packet again breaks none, and no
\* address is promised twice (the handlers of loop_handler).
LeasesAgree ==
  /\ DhcpdTypeOK /\ OneSlotPerMac /\ HeldIsInTable /\ LastIsHarmless
  /\ NoDoubleLease

\* A slot that runs changes hands only by its own client's packet, and a
\* DISCOVER is refused only when every address is taken (dhcpd_discover and
\* the other handlers).
TableSteps == [][RunningStays /\ RefusedOnlyWhenFull]_dhcpdVars

=============================================================================
