--------------------------- MODULE Network_proofs ---------------------------
(***************************************************************************)
(* The network module: the lease table of the DHCP server, for any number  *)
(* of clients and addresses and any lease times; the watch of the online   *)
(* status; the DHCP client on its socket; and the client over the main     *)
(* loop, with its renewals.                                                *)
(***************************************************************************)
EXTENDS Dhcpd, Dhcpc, DhcpClient, OnlineWatch, FiniteSetTheorems, SequenceTheorems, WellFoundedInduction, TLAPS

IInv == DhcpdTypeOK /\ OneSlotPerMac /\ HeldIsInTable /\ LastIsHarmless

Grant(p) == dhcpd_verifyreqleasetime(p.leasetime)
Given(m, time) == [mac |-> m, allocated |-> TRUE, left |-> time]

(* Every lease time is a positive number.                                  *)
LEMMA GrantType ==
  ASSUME NEW t \in Nat
  PROVE  dhcpd_verifyreqleasetime(t) \in Nat \ {0}
BY TimesAssumption DEF dhcpd_verifyreqleasetime

(* The records that slots are filled with are leases.                      *)
LEMMA SlotTypes ==
  /\ Free \in Lease
  /\ \A m \in Macs, t \in Nat : Given(m, t) \in Lease
BY DEF Free, Lease, Given

(* dhcpd_findbymac finds slots of that client only, and with one slot per  *)
(* client it finds every one of them.                                      *)
LEMMA FindByMac ==
  ASSUME NEW m \in Macs, OneSlotPerMac
  PROVE  dhcpd_findbymac(m) = {i \in Ips : leases[i].mac = m}
<1>1. SUFFICES ASSUME NEW i \in Ips, leases[i].mac = m, NEW j \in 1..(i - 1),
                      leases[j].mac = m
               PROVE  FALSE
  BY DEF dhcpd_findbymac
<1>2. j \in Ips /\ j # i
  BY TableAssumption DEF Ips
<1> QED
  BY <1>1, <1>2, MacsAssumption DEF OneSlotPerMac

(* What handling a packet of client m may do to a slot: it stays, it is    *)
(* wiped or withdrawn, or it is given to m.                                *)
SlotStep(p, i) ==
  \/ leases'[i] = leases[i]
  \/ /\ leases[i].mac = p.chaddr \/ leases[i].left = 0
     /\ leases'[i] = Free
  \/ /\ leases[i].mac = p.chaddr
     /\ leases'[i] = [leases[i] EXCEPT !.mac = NoMac, !.left = DeclineTime]
  \/ /\ leases[i].mac = p.chaddr \/ ~leases[i].allocated \/ leases[i].left = 0
     /\ \E t \in Nat : leases'[i] = Given(p.chaddr, t)

(* One slot is given to the client, and every other one stays.             *)
LEMMA SetLease ==
  ASSUME leases \in [Ips -> Lease], OneSlotPerMac,
         NEW m \in Macs, NEW ip \in Ips, NEW t \in Nat,
         leases[ip].mac = m \/ \A i \in Ips : leases[i].mac # m,
         dhcpd_setlease(m, ip, t)
  PROVE  /\ leases' \in [Ips -> Lease]
         /\ OneSlotPerMac'
         /\ leases'[ip] = Given(m, t)
         /\ \A i \in Ips \ {ip} : leases'[i] = leases[i]
<1>1. leases' = [leases EXCEPT ![ip] = Given(m, t)]
  BY DEF dhcpd_setlease, Given
<1>2. /\ leases' \in [Ips -> Lease]
      /\ leases'[ip] = Given(m, t)
      /\ \A i \in Ips \ {ip} : leases'[i] = leases[i]
  BY <1>1, SlotTypes
<1>3. Given(m, t).mac = m
  BY DEF Given
<1>4. ASSUME NEW i \in Ips, NEW j \in Ips, i # j,
             leases'[i].mac = leases'[j].mac, leases'[i].mac # NoMac
      PROVE  FALSE
  <2>1. CASE i # ip /\ j # ip
    BY <1>2, <1>4, <2>1 DEF OneSlotPerMac
  <2>2. CASE i = ip
    <3>1. leases[j].mac = m
      BY <1>2, <1>3, <1>4, <2>2
    <3>2. leases[ip].mac = m
      BY <3>1
    <3> QED BY <1>4, <2>2, <3>1, <3>2, MacsAssumption DEF OneSlotPerMac
  <2>3. CASE j = ip
    <3>1. leases[i].mac = m
      BY <1>2, <1>3, <1>4, <2>3
    <3>2. leases[ip].mac = m
      BY <3>1
    <3> QED BY <1>4, <2>3, <3>1, <3>2, MacsAssumption DEF OneSlotPerMac
  <2> QED BY <2>1, <2>2, <2>3
<1>5. OneSlotPerMac'
  BY <1>4 DEF OneSlotPerMac
<1> QED BY <1>2, <1>5

(* Slots lose their client, and none gets another.                         *)
LEMMA WipeSlots ==
  ASSUME OneSlotPerMac,
         \A i \in Ips : leases'[i].mac \in {leases[i].mac, NoMac}
  PROVE  OneSlotPerMac'
BY DEF OneSlotPerMac

(* dhcpd_discover gives the client its own slot or one that is free.       *)
LEMMA DiscoverStep ==
  ASSUME leases \in [Ips -> Lease], OneSlotPerMac,
         NEW p \in Fields, dhcpd_discover(p)
  PROVE  /\ leases' \in [Ips -> Lease]
         /\ OneSlotPerMac'
         /\ pinged' \subseteq Ips
         /\ \A i \in Ips : SlotStep(p, i)
<1> DEFINE m == p.chaddr
<1>1. m \in Macs /\ OfferTime \in Nat
  BY TimesAssumption DEF Fields
<1>2. dhcpd_findbymac(m) = {i \in Ips : leases[i].mac = m}
  BY <1>1, FindByMac
<1>3. pinged' \subseteq Ips
  BY DEF dhcpd_discover
<1>4. ASSUME NEW ip \in Ips, dhcpd_setlease(m, ip, OfferTime),
             \/ leases[ip].mac = m
             \/ (\A i \in Ips : leases[i].mac # m) /\ IsFree(ip)
      PROVE  leases' \in [Ips -> Lease] /\ OneSlotPerMac' /\ \A i \in Ips : SlotStep(p, i)
  <2>1. /\ leases' \in [Ips -> Lease]
        /\ OneSlotPerMac'
        /\ leases'[ip] = Given(m, OfferTime)
        /\ \A i \in Ips \ {ip} : leases'[i] = leases[i]
    BY <1>1, <1>4, SetLease
  <2>2. IsFree(ip) => ~leases[ip].allocated \/ leases[ip].left = 0
    BY DEF IsFree, dhcpd_findbyipaddr, dhcpd_leaseexpired
  <2> QED BY <1>1, <1>4, <2>1, <2>2 DEF SlotStep
<1>5. CASE UNCHANGED leases
  BY <1>3, <1>5 DEF SlotStep, OneSlotPerMac
<1>6. CASE \E ip \in dhcpd_findbymac(m) : dhcpd_setlease(m, ip, OfferTime)
  BY <1>2, <1>3, <1>4, <1>6
<1>7. CASE /\ dhcpd_findbymac(m) = {}
           /\ \/ dhcpd_verifyreqip(p.reqip) /\ dhcpd_setlease(m, p.reqip, OfferTime)
              \/ \E ip \in dhcpd_allocipaddr : dhcpd_setlease(m, ip, OfferTime)
  <2>1. \A i \in Ips : leases[i].mac # m
    BY <1>2, <1>7
  <2>2. PICK ip \in Ips : IsFree(ip) /\ dhcpd_setlease(m, ip, OfferTime)
    BY <1>7 DEF dhcpd_verifyreqip, dhcpd_allocipaddr, Candidates
  <2> QED BY <1>3, <1>4, <2>1, <2>2
<1> QED BY <1>3, <1>5, <1>6, <1>7 DEF dhcpd_discover

(* dhcpd_request gives the client its own slot for the time granted, or    *)
(* wipes a slot that has run out, or leaves the table alone; an ACK says   *)
(* what the table says.                                                    *)
LEMMA RequestStep ==
  ASSUME leases \in [Ips -> Lease], OneSlotPerMac,
         NEW p \in Fields, NEW answer, dhcpd_request(p, answer)
  PROVE  /\ leases' \in [Ips -> Lease]
         /\ OneSlotPerMac'
         /\ pinged' \subseteq Ips
         /\ \A i \in Ips : SlotStep(p, i)
         /\ \A i \in Ips : leases[i].mac = p.chaddr /\ leases[i].left > 0 =>
              leases'[i] \in {leases[i], Given(p.chaddr, Grant(p))}
         /\ answer.type = "ACK" => /\ answer.ip \in Ips /\ answer.time = Grant(p)
                                   /\ leases'[answer.ip] = Given(p.chaddr, Grant(p))
<1> DEFINE m == p.chaddr
<1>1. m \in Macs /\ Grant(p) \in Nat /\ m # NoMac
  <2>1. p.leasetime \in Nat
    BY TimesAssumption DEF Fields
  <2> QED BY <2>1, GrantType, MacsAssumption DEF Fields, Grant
<1>2. dhcpd_findbymac(m) = {i \in Ips : leases[i].mac = m}
  BY <1>1, FindByMac
<1>3. pinged' \subseteq Ips
  BY DEF dhcpd_request
<1>4. CASE UNCHANGED leases /\ answer.type # "ACK"
  BY <1>3, <1>4 DEF SlotStep, OneSlotPerMac
<1>5. CASE \E ip \in dhcpd_findbymac(m) :
             dhcpd_setlease(m, ip, Grant(p)) /\ answer = Answer("ACK", ip, Grant(p))
  <2>1. PICK ip \in Ips : /\ leases[ip].mac = m
                          /\ dhcpd_setlease(m, ip, Grant(p))
                          /\ answer = Answer("ACK", ip, Grant(p))
    BY <1>2, <1>5
  <2>2. /\ leases' \in [Ips -> Lease]
        /\ OneSlotPerMac'
        /\ leases'[ip] = Given(m, Grant(p))
        /\ \A i \in Ips \ {ip} : leases'[i] = leases[i]
    BY <1>1, <2>1, SetLease
  <2>3. answer.ip = ip /\ answer.time = Grant(p)
    BY <2>1 DEF Answer
  <2> QED BY <1>1, <1>3, <2>1, <2>2, <2>3 DEF SlotStep
<1>6. CASE /\ p.reqip \in Ips /\ leases[p.reqip].left = 0
           /\ leases' = [leases EXCEPT ![p.reqip] = Free]
           /\ answer = Silence
  <2>1. /\ leases' \in [Ips -> Lease]
        /\ leases'[p.reqip] = Free
        /\ \A i \in Ips \ {p.reqip} : leases'[i] = leases[i]
    BY <1>6, SlotTypes
  <2>2. OneSlotPerMac'
    BY <2>1, WipeSlots DEF Free
  <2>3. answer.type # "ACK"
    BY <1>6 DEF Silence, Answer
  <2>4. \A i \in Ips : SlotStep(p, i)
    BY <1>6, <2>1 DEF SlotStep
  <2>5. \A i \in Ips : leases[i].left > 0 => leases'[i] = leases[i]
    BY <1>6, <2>1
  <2> QED BY <1>3, <2>1, <2>2, <2>3, <2>4, <2>5
<1>7. CASE \E ip \in dhcpd_findbymac(m) :
             \/ dhcpd_sendack(p, ip, answer)
             \/ dhcpd_sendnak(answer)
  BY <1>4, <1>5, <1>7 DEF dhcpd_sendack, dhcpd_sendnak, Answer, Silence, Grant
<1>8. CASE RequestUnknown(p, answer)
  <2>1. CASE dhcpd_sendnak(answer) \/ (answer = Silence /\ UNCHANGED leases)
    BY <1>4, <2>1 DEF dhcpd_sendnak, Answer, Silence
  <2>2. CASE /\ dhcpd_findbyipaddr(p.reqip) # {} /\ IsFree(p.reqip)
             /\ leases' = [leases EXCEPT ![p.reqip] = Free] /\ answer = Silence
    BY <1>6, <2>2 DEF dhcpd_findbyipaddr, IsFree, dhcpd_leaseexpired
  <2> QED BY <1>8, <2>1, <2>2 DEF RequestUnknown
<1> QED BY <1>7, <1>8 DEF dhcpd_request

(* Whatever packet is handled, the table keeps its shape, a slot changes   *)
(* as SlotStep says, and a REQUEST treats its client as RequestStep says.  *)
LEMMA HandleStep ==
  ASSUME leases \in [Ips -> Lease], OneSlotPerMac,
         NEW p \in Fields \cup {Zeroed}, NEW answer, Handle(p, answer)
  PROVE  /\ leases' \in [Ips -> Lease]
         /\ OneSlotPerMac'
         /\ pinged' \subseteq Ips
         /\ \A i \in Ips : SlotStep(p, i)
         /\ p.type = "REQUEST" =>
              \A i \in Ips : leases[i].mac = p.chaddr /\ leases[i].left > 0 =>
                leases'[i] \in {leases[i], Given(p.chaddr, Grant(p))}
         /\ p.type # "REQUEST" => answer = Silence
         /\ answer.type = "ACK" => /\ answer.ip \in Ips /\ answer.time = Grant(p)
                                   /\ leases'[answer.ip] = Given(p.chaddr, Grant(p))
<1>1. Silence.type = "none"
  BY DEF Silence, Answer
<1>2. p.type # "none" => p \in Fields
  BY DEF Zeroed
<1>3. CASE p.type = "REQUEST" /\ dhcpd_request(p, answer)
  BY <1>2, <1>3, RequestStep
<1>4. CASE p.type = "DISCOVER" /\ dhcpd_discover(p) /\ answer = Silence
  BY <1>1, <1>2, <1>4, DiscoverStep
<1>5. CASE p.type = "none" /\ pinged' = {} /\ UNCHANGED leases /\ answer = Silence
  BY <1>1, <1>5 DEF SlotStep, OneSlotPerMac
<1>6. ASSUME p.type \in {"DECLINE", "RELEASE"}, dhcpd_decline(p) \/ dhcpd_release(p),
             answer = Silence
      PROVE  /\ leases' \in [Ips -> Lease]
             /\ OneSlotPerMac'
             /\ pinged' \subseteq Ips
             /\ \A i \in Ips : SlotStep(p, i)
  <2>1. p.chaddr \in Macs /\ dhcpd_findbymac(p.chaddr) = {i \in Ips : leases[i].mac = p.chaddr}
    BY <1>2, <1>6, FindByMac DEF Fields
  <2>2. ASSUME NEW i \in Ips
        PROVE  /\ [leases[i] EXCEPT !.mac = NoMac, !.left = DeclineTime] \in Lease
               /\ [leases[i] EXCEPT !.mac = NoMac, !.left = DeclineTime].mac = NoMac
    BY TimesAssumption DEF Lease
  <2>3. CASE dhcpd_decline(p)
    <3>1. /\ leases' \in [Ips -> Lease]
          /\ pinged' \subseteq Ips
          /\ \A i \in Ips : SlotStep(p, i)
          /\ \A i \in Ips : leases'[i].mac \in {leases[i].mac, NoMac}
      BY <2>1, <2>2, <2>3 DEF dhcpd_decline, SlotStep
    <3> QED BY <3>1, WipeSlots
  <2>4. CASE dhcpd_release(p)
    <3>1. /\ leases' \in [Ips -> Lease]
          /\ pinged' \subseteq Ips
          /\ \A i \in Ips : SlotStep(p, i)
      BY <2>1, <2>4, SlotTypes DEF dhcpd_release, SlotStep
    <3>2. \A i \in Ips : leases'[i].mac \in {leases[i].mac, NoMac}
      BY <2>4 DEF dhcpd_release, Free
    <3> QED BY <3>1, <3>2, WipeSlots
  <2> QED BY <1>6, <2>3, <2>4
<1> QED BY <1>1, <1>3, <1>4, <1>5, <1>6 DEF Handle

(* The slot of a client other than the sender of the packet is untouched   *)
(* while it runs, and so what that client holds stays in the table.        *)
LEMMA OthersKeep ==
  ASSUME IInv, NEW p, \A i \in Ips : SlotStep(p, i),
         NEW m \in Macs, m # p.chaddr, held[m].left > 0, held[m].sure
  PROVE  /\ held[m].ip \in Ips
         /\ leases'[held[m].ip].mac = m
         /\ leases'[held[m].ip].allocated
         /\ leases'[held[m].ip].left >= held[m].left
<1> DEFINE i == held[m].ip
<1>1. /\ i \in Ips /\ leases[i].mac = m
      /\ leases[i].allocated /\ leases[i].left >= held[m].left
  BY DEF IInv, HeldIsInTable
<1>2. leases[i].left \in Nat /\ held[m].left \in Nat
  BY <1>1 DEF IInv, DhcpdTypeOK, Lease, Holding
<1>3. leases[i].left # 0 /\ leases[i].mac # p.chaddr /\ SlotStep(p, i)
  BY <1>1, <1>2
<1>4. leases'[i] = leases[i]
  <2> HIDE DEF i
  <2> QED BY <1>1, <1>3, Zenon DEF SlotStep
<1> QED BY <1>1, <1>4

(* The sender of a REQUEST keeps what it holds when it is granted no less. *)
LEMMA RequesterKeeps ==
  ASSUME IInv, NEW p, p.type = "REQUEST", p.leasetime = AskedTime[p.chaddr],
         \A i \in Ips : leases[i].mac = p.chaddr /\ leases[i].left > 0 =>
                leases'[i] \in {leases[i], Given(p.chaddr, Grant(p))},
         NEW m \in Macs, m = p.chaddr, held[m].left > 0, held[m].sure
  PROVE  /\ held[m].ip \in Ips
         /\ leases'[held[m].ip].mac = m
         /\ leases'[held[m].ip].allocated
         /\ leases'[held[m].ip].left >= held[m].left
<1> DEFINE i == held[m].ip
<1>1. /\ i \in Ips /\ leases[i].mac = m
      /\ leases[i].allocated /\ leases[i].left >= held[m].left
  BY DEF IInv, HeldIsInTable
<1>2. leases[i].left \in Nat /\ held[m].left \in Nat
  BY <1>1 DEF IInv, DhcpdTypeOK, Lease, Holding
<1>3. held[m].left <= Grant(p)
  BY DEF IInv, LastIsHarmless, Grant
<1>4. AskedTime[m] \in Nat
  BY TimesAssumption
<1>5. Grant(p) \in Nat
  BY <1>4, GrantType DEF Grant
<1>6. leases'[i] = leases[i] \/ leases'[i] = Given(m, Grant(p))
  BY <1>1, <1>2
<1> QED BY <1>1, <1>2, <1>3, <1>5, <1>6 DEF Given

(* What Doubt leaves sure.                                                 *)
LEMMA DoubtStep ==
  ASSUME held \in [Macs -> Holding], NEW S, Doubt(S)
  PROVE  /\ held' \in [Macs -> Holding]
         /\ \A m \in Macs : held'[m].left > 0 /\ held'[m].sure =>
                             m \notin S /\ held'[m] = held[m]
<1>1. \A m \in Macs : [held[m] EXCEPT !.sure = FALSE] \in Holding
  BY DEF Holding
<1>2. held' \in [Macs -> Holding]
  BY <1>1 DEF Doubt
<1>3. ASSUME NEW m \in Macs, held'[m].left > 0, held'[m].sure
      PROVE  m \notin S /\ held'[m] = held[m]
  <2>1. CASE m \in S /\ held[m].left > 0
    <3>1. held'[m] = [held[m] EXCEPT !.sure = FALSE]
      BY <2>1 DEF Doubt
    <3>2. held'[m].sure = FALSE
      BY <3>1 DEF Holding
    <3> QED BY <1>3, <3>2
  <2>2. CASE ~(m \in S /\ held[m].left > 0)
    <3>1. held'[m] = held[m]
      BY <2>2 DEF Doubt
    <3> QED BY <1>3, <2>2, <3>1
  <2> QED BY <2>1, <2>2
<1> QED BY <1>2, <1>3

(* A client's own packet.                                                  *)
LEMMA ReceiveKeeps ==
  ASSUME IInv, NEW p \in Packet, Receive(p)
  PROVE  IInv'
<1> USE DEF IInv
<1>1. p \in Fields /\ p.chaddr \in Macs
      /\ (p.type = "REQUEST" => p.leasetime = AskedTime[p.chaddr])
  BY DEF Packet, Fields
<1>2. PICK answer : Handle(p, answer) /\ Believes(p, answer)
  BY DEF Receive
<1>3. pkt' = p /\ fd' = fd
  BY DEF Receive
<1>4. /\ leases' \in [Ips -> Lease]
      /\ OneSlotPerMac'
      /\ pinged' \subseteq Ips
      /\ \A i \in Ips : SlotStep(p, i)
      /\ p.type = "REQUEST" =>
           \A i \in Ips : leases[i].mac = p.chaddr /\ leases[i].left > 0 =>
             leases'[i] \in {leases[i], Given(p.chaddr, Grant(p))}
      /\ p.type # "REQUEST" => answer = Silence
      /\ answer.type = "ACK" => /\ answer.ip \in Ips /\ answer.time = Grant(p)
                                /\ leases'[answer.ip] = Given(p.chaddr, Grant(p))
  BY <1>1, <1>2, HandleStep DEF DhcpdTypeOK
<1>5. Nothing \in Holding /\ Nothing.left = 0 /\ Silence.type = "none"
  BY TableAssumption DEF Nothing, Holding, Silence, Answer
<1>6. AskedTime[p.chaddr] \in Nat
  BY <1>1, TimesAssumption
<1>7. p.type = "REQUEST" => Grant(p) \in Nat \ {0}
  BY <1>1, <1>6, GrantType DEF Grant
<1>8. /\ \A m \in Macs \ {p.chaddr} : held'[m] = held[m]
      /\ held' \in [Macs -> Holding]
      /\ \/ held'[p.chaddr] = Nothing
         \/ p.type = "REQUEST" /\ held' = held
         \/ /\ p.type = "REQUEST" /\ answer.type = "ACK"
            /\ held'[p.chaddr] = [ip |-> answer.ip, left |-> Grant(p), sure |-> TRUE]
  <2>1. CASE held' = [held EXCEPT ![p.chaddr] = Nothing]
    BY <1>1, <1>5, <2>1 DEF DhcpdTypeOK
  <2>2. CASE p.type = "REQUEST" /\ UNCHANGED held
    BY <2>2 DEF DhcpdTypeOK
  <2>3. CASE /\ answer.type = "ACK"
             /\ held' = [held EXCEPT ![p.chaddr] =
                           [ip |-> answer.ip, left |-> answer.time, sure |-> TRUE]]
    <3>1. p.type = "REQUEST"
      BY <1>4, <1>5, <2>3
    <3>2. [ip |-> answer.ip, left |-> answer.time, sure |-> TRUE] \in Holding
      BY <1>4, <1>7, <2>3, <3>1, TableAssumption DEF Holding, Ips
    <3> QED BY <1>1, <1>4, <2>3, <3>1, <3>2 DEF DhcpdTypeOK
  <2> QED BY <1>2, <2>1, <2>2, <2>3 DEF Believes
<1>9. DhcpdTypeOK'
  BY <1>1, <1>3, <1>4, <1>8 DEF DhcpdTypeOK
<1>10. HeldIsInTable'
  <2>1. ASSUME NEW m \in Macs, held'[m].left > 0, held'[m].sure
        PROVE  /\ held'[m].ip \in Ips
               /\ leases'[held'[m].ip].mac = m
               /\ leases'[held'[m].ip].allocated
               /\ leases'[held'[m].ip].left >= held'[m].left
    <3>1. CASE m # p.chaddr
      BY <1>4, <1>8, <2>1, <3>1, OthersKeep
    <3>2. CASE m = p.chaddr /\ p.type = "REQUEST" /\ held' = held
      BY <1>1, <1>4, <2>1, <3>2, RequesterKeeps
    <3>3. CASE /\ m = p.chaddr /\ p.type = "REQUEST" /\ answer.type = "ACK"
               /\ held'[p.chaddr] = [ip |-> answer.ip, left |-> Grant(p), sure |-> TRUE]
      BY <1>4, <1>7, <3>3 DEF Given
    <3> QED BY <1>5, <1>8, <2>1, <3>1, <3>2, <3>3
  <2> QED BY <2>1 DEF HeldIsInTable
<1>11. LastIsHarmless'
  <2>1. ASSUME NEW m \in Macs, held'[m].left > 0, held'[m].sure
        PROVE  /\ held'[m].left <= dhcpd_verifyreqleasetime(AskedTime[m])
               /\ m = pkt'.chaddr => /\ pkt'.type = "REQUEST"
                                    /\ pkt'.leasetime = AskedTime[m]
    <3>1. CASE m # p.chaddr
      BY <1>3, <1>8, <2>1, <3>1 DEF LastIsHarmless
    <3>2. CASE m = p.chaddr /\ p.type = "REQUEST" /\ held' = held
      BY <1>1, <1>3, <2>1, <3>2 DEF LastIsHarmless
    <3>3. CASE /\ m = p.chaddr /\ p.type = "REQUEST"
               /\ held'[p.chaddr] = [ip |-> answer.ip, left |-> Grant(p), sure |-> TRUE]
      BY <1>1, <1>3, <1>7, <3>3 DEF Grant
    <3> QED BY <1>5, <1>8, <2>1, <3>1, <3>2, <3>3
  <2> QED BY <2>1 DEF LastIsHarmless, dhcpd_verifyreqleasetime
<1> QED BY <1>4, <1>9, <1>10, <1>11

(* A packet handled in the name of a client that did not send it: the      *)
(* client is in doubt, and nobody else is disturbed.                       *)
LEMMA StrayKeeps ==
  ASSUME IInv, NEW p \in Fields, NEW answer, Handle(p, answer),
         pkt' = p, Doubt({p.chaddr}), UNCHANGED fd
  PROVE  IInv'
<1> USE DEF IInv
<1>1. /\ leases' \in [Ips -> Lease]
      /\ OneSlotPerMac'
      /\ pinged' \subseteq Ips
      /\ \A i \in Ips : SlotStep(p, i)
  BY HandleStep DEF DhcpdTypeOK
<1>2. /\ held' \in [Macs -> Holding]
      /\ \A m \in Macs : held'[m].left > 0 /\ held'[m].sure =>
                          m # p.chaddr /\ held'[m] = held[m]
  BY DoubtStep DEF DhcpdTypeOK
<1>3. DhcpdTypeOK'
  BY <1>1, <1>2 DEF DhcpdTypeOK
<1>4. HeldIsInTable'
  <2>1. ASSUME NEW m \in Macs, held'[m].left > 0, held'[m].sure
        PROVE  /\ held'[m].ip \in Ips
               /\ leases'[held'[m].ip].mac = m
               /\ leases'[held'[m].ip].allocated
               /\ leases'[held'[m].ip].left >= held'[m].left
    BY <1>1, <1>2, <2>1, OthersKeep
  <2> QED BY <2>1 DEF HeldIsInTable
<1>5. LastIsHarmless'
  BY <1>2 DEF LastIsHarmless, dhcpd_verifyreqleasetime
<1> QED BY <1>1, <1>3, <1>4, <1>5

(* The last packet is handled again.                                       *)
LEMMA RecvFailsKeeps ==
  ASSUME IInv, RecvFails
  PROVE  IInv'
<1> USE DEF IInv
<1>1. PICK answer : Handle(pkt, answer)
  BY DEF RecvFails
<1>2. /\ leases' \in [Ips -> Lease]
      /\ OneSlotPerMac'
      /\ pinged' \subseteq Ips
      /\ \A i \in Ips : SlotStep(pkt, i)
      /\ pkt.type = "REQUEST" =>
           \A i \in Ips : leases[i].mac = pkt.chaddr /\ leases[i].left > 0 =>
             leases'[i] \in {leases[i], Given(pkt.chaddr, Grant(pkt))}
  BY <1>1, HandleStep DEF DhcpdTypeOK
<1>3. DhcpdTypeOK'
  BY <1>2 DEF DhcpdTypeOK, RecvFails
<1>4. HeldIsInTable'
  <2>1. ASSUME NEW m \in Macs, held[m].left > 0, held[m].sure
        PROVE  /\ held[m].ip \in Ips
               /\ leases'[held[m].ip].mac = m
               /\ leases'[held[m].ip].allocated
               /\ leases'[held[m].ip].left >= held[m].left
    <3>1. CASE m # pkt.chaddr
      BY <1>2, <2>1, <3>1, OthersKeep
    <3>2. CASE m = pkt.chaddr
      <4>1. pkt.type = "REQUEST" /\ pkt.leasetime = AskedTime[pkt.chaddr]
        BY <2>1, <3>2 DEF LastIsHarmless
      <4> QED BY <1>2, <2>1, <3>2, <4>1, RequesterKeeps
    <3> QED BY <3>1, <3>2
  <2> QED BY <2>1 DEF HeldIsInTable, RecvFails
<1>5. LastIsHarmless'
  BY DEF LastIsHarmless, RecvFails, dhcpd_verifyreqleasetime
<1> QED BY <1>2, <1>3, <1>4, <1>5

(* Time passes for both sides alike.                                       *)
LEMMA TickKeeps ==
  ASSUME IInv, Tick
  PROVE  IInv'
<1> USE DEF IInv
<1>1. \A i \in Ips : /\ leases'[i] \in Lease
                     /\ leases'[i].mac = leases[i].mac
                     /\ leases'[i].allocated = leases[i].allocated
                     /\ leases'[i].left = Less(leases[i].left)
  <2> SUFFICES ASSUME NEW i \in Ips
               PROVE  /\ leases'[i] \in Lease
                      /\ leases'[i].mac = leases[i].mac
                      /\ leases'[i].allocated = leases[i].allocated
                      /\ leases'[i].left = Less(leases[i].left)
    OBVIOUS
  <2>1. leases[i] \in Lease /\ leases'[i] = [leases[i] EXCEPT !.left = Less(leases[i].left)]
    BY DEF Tick, DhcpdTypeOK
  <2>2. Less(leases[i].left) \in Nat
    BY <2>1 DEF Less, Lease
  <2> QED BY <2>1, <2>2 DEF Lease
<1>2. \A m \in Macs : \/ held'[m] = Nothing
                      \/ /\ held'[m] \in Holding
                         /\ held'[m].ip = held[m].ip /\ held'[m].sure = held[m].sure
                         /\ held[m].left > 1 /\ held'[m].left = held[m].left - 1
  BY DEF Tick, DhcpdTypeOK, Holding, Less
<1>3. Nothing \in Holding /\ Nothing.left = 0
  BY TableAssumption DEF Nothing, Holding
<1>4. DhcpdTypeOK'
  <2>1. leases' \in [Ips -> Lease]
    BY <1>1 DEF Tick
  <2>2. held' \in [Macs -> Holding]
    BY <1>2, <1>3 DEF Tick
  <2> QED BY <2>1, <2>2 DEF DhcpdTypeOK, Tick
<1>5. OneSlotPerMac'
  BY <1>1 DEF OneSlotPerMac
<1>6. ASSUME NEW m \in Macs, held'[m].left > 0, held'[m].sure
      PROVE  /\ held[m].left > 1 /\ held[m].sure /\ held'[m].ip = held[m].ip
             /\ held'[m].left = held[m].left - 1 /\ held[m].left \in Nat
  BY <1>2, <1>3, <1>6 DEF DhcpdTypeOK, Holding
<1>7. HeldIsInTable'
  <2>1. ASSUME NEW m \in Macs, held'[m].left > 0, held'[m].sure
        PROVE  /\ held'[m].ip \in Ips
               /\ leases'[held'[m].ip].mac = m
               /\ leases'[held'[m].ip].allocated
               /\ leases'[held'[m].ip].left >= held'[m].left
    <3>1. /\ held[m].ip \in Ips /\ leases[held[m].ip].mac = m
          /\ leases[held[m].ip].allocated
          /\ leases[held[m].ip].left >= held[m].left
      BY <1>6, <2>1 DEF HeldIsInTable
    <3>2. leases[held[m].ip].left \in Nat
      BY <3>1 DEF DhcpdTypeOK, Lease
    <3> QED BY <1>1, <1>6, <2>1, <3>1, <3>2 DEF Less
  <2> QED BY <2>1 DEF HeldIsInTable
<1>8. LastIsHarmless'
  <2>1. ASSUME NEW m \in Macs, held'[m].left > 0, held'[m].sure
        PROVE  /\ held'[m].left <= dhcpd_verifyreqleasetime(AskedTime[m])
               /\ m = pkt.chaddr => /\ pkt.type = "REQUEST"
                                   /\ pkt.leasetime = AskedTime[m]
    <3>1. AskedTime[m] \in Nat
      BY TimesAssumption
    <3>2. dhcpd_verifyreqleasetime(AskedTime[m]) \in Nat
      BY <3>1, GrantType
    <3> QED BY <1>6, <2>1, <3>2 DEF LastIsHarmless
  <2> QED BY <2>1 DEF LastIsHarmless, Tick, dhcpd_verifyreqleasetime
<1> QED BY <1>4, <1>5, <1>7, <1>8

(* Starting wipes the table and leaves no client sure; stopping changes    *)
(* neither.                                                                *)
LEMMA StartStopKeeps ==
  ASSUME IInv, dhcpd_run \/ os_dhcp_server_stop
  PROVE  IInv'
<1> USE DEF IInv
<1>1. CASE dhcpd_run
  <2>1. leases' \in [Ips -> Lease] /\ \A i \in Ips : leases'[i].mac = NoMac
    BY <1>1, SlotTypes DEF dhcpd_run, Free
  <2>2. /\ held' \in [Macs -> Holding]
        /\ \A m \in Macs : ~(held'[m].left > 0 /\ held'[m].sure)
    BY <1>1, DoubtStep DEF dhcpd_run, DhcpdTypeOK
  <2>3. DhcpdTypeOK'
    BY <1>1, <2>1, <2>2 DEF DhcpdTypeOK, dhcpd_run
  <2>4. OneSlotPerMac'
    BY <2>1 DEF OneSlotPerMac
  <2>5. HeldIsInTable' /\ LastIsHarmless'
    BY <2>2 DEF HeldIsInTable, LastIsHarmless
  <2> QED BY <2>3, <2>4, <2>5
<1>2. CASE os_dhcp_server_stop
  BY <1>2 DEF os_dhcp_server_stop, DhcpdTypeOK, OneSlotPerMac, HeldIsInTable, LastIsHarmless,
     dhcpd_verifyreqleasetime
<1> QED BY <1>1, <1>2

(* IInv is inductive.                                                      *)
THEOREM LeaseInvariant == DhcpdSpec => []IInv
<1>1. DhcpdInit => IInv
  <2> SUFFICES ASSUME DhcpdInit PROVE IInv
    OBVIOUS
  <2>1. leases \in [Ips -> Lease] /\ \A i \in Ips : leases[i].mac = NoMac
    BY SlotTypes DEF DhcpdInit, Free
  <2>2. held \in [Macs -> Holding] /\ \A m \in Macs : held[m].left = 0
    BY TableAssumption DEF DhcpdInit, Nothing, Holding
  <2> QED
    BY <2>1, <2>2 DEF DhcpdInit, IInv, DhcpdTypeOK, OneSlotPerMac, HeldIsInTable, LastIsHarmless
<1>2. IInv /\ [DhcpdNext]_dhcpdVars => IInv'
  <2> SUFFICES ASSUME IInv, [DhcpdNext]_dhcpdVars PROVE IInv'
    OBVIOUS
  <2>1. ASSUME NEW p \in Packet, Receive(p) PROVE IInv'
    BY <2>1, ReceiveKeeps
  <2>2. ASSUME NEW p \in Packet, ReceiveStray(p) PROVE IInv'
    BY <2>2, StrayKeeps DEF ReceiveStray, Packet
  <2>3. ASSUME NEW m \in Macs, NEW ip \in 0..NumLeases, ReceiveBadMagic(m, ip) PROVE IInv'
    <3>1. pkt' \in Fields /\ pkt'.chaddr = m
      BY <2>3 DEF ReceiveBadMagic, IInv, DhcpdTypeOK, Fields
    <3> QED BY <2>3, <3>1, StrayKeeps DEF ReceiveBadMagic
  <2>4. CASE RecvFails
    BY <2>4, RecvFailsKeeps
  <2>5. CASE dhcpd_run \/ os_dhcp_server_stop
    BY <2>5, StartStopKeeps
  <2>6. CASE Tick
    BY <2>6, TickKeeps
  <2>7. CASE UNCHANGED dhcpdVars
    BY <2>7 DEF dhcpdVars, IInv, DhcpdTypeOK, OneSlotPerMac, HeldIsInTable, LastIsHarmless,
       dhcpd_verifyreqleasetime
  <2> QED BY <2>1, <2>2, <2>3, <2>4, <2>5, <2>6, <2>7 DEF DhcpdNext, Serve
<1> QED BY <1>1, <1>2, PTL DEF DhcpdSpec

(* The table, and what the clients may rely on.                            *)
THEOREM TableIsSound == DhcpdSpec => [](DhcpdTypeOK /\ OneSlotPerMac)
<1>1. IInv => DhcpdTypeOK /\ OneSlotPerMac
  BY DEF IInv
<1> QED BY <1>1, LeaseInvariant, PTL

(* What a client was promised and is sure of is in the server's table,     *)
(* through renewals, lost answers, failing reads and other clients.        *)
THEOREM PromisesAreKept == DhcpdSpec => []HeldIsInTable
<1>1. IInv => HeldIsInTable
  BY DEF IInv
<1> QED BY <1>1, LeaseInvariant, PTL

(* Two clients that are sure of their leases have different addresses.     *)
THEOREM AddressesAreExclusive == DhcpdSpec => []NoDoubleLease
<1>1. IInv => NoDoubleLease
  <2> SUFFICES ASSUME IInv, NEW m \in Macs, NEW n \in Macs, m # n,
                      held[m].left > 0, held[n].left > 0, held[m].sure, held[n].sure,
                      held[m].ip = held[n].ip
               PROVE  FALSE
    BY DEF NoDoubleLease
  <2> QED BY DEF IInv, HeldIsInTable
<1> QED BY <1>1, LeaseInvariant, PTL

(* While a lease, an offer or a quarantine runs, the address passes to     *)
(* nobody else: dhcpd_verifyreqip, dhcpd_allocipaddr and dhcpd_request     *)
(* only touch slots that have run out, or the sender's own.                *)
LEMMA RunningSlotsAreKept ==
  ASSUME IInv, [DhcpdNext]_dhcpdVars
  PROVE  RunningStays
<1> DEFINE A == fd # "none" =>
                  \A i \in Ips : Running(i) =>
                    \/ leases'[i].mac = leases[i].mac /\ leases'[i].allocated
                    \/ leases[i].mac = pkt'.chaddr
<1>1. ASSUME DhcpdTypeOK, OneSlotPerMac, NEW p \in Fields \cup {Zeroed}, NEW answer,
             Handle(p, answer), pkt' = p
      PROVE  A
  <2> SUFFICES ASSUME NEW i \in Ips, Running(i), leases[i].mac # p.chaddr
               PROVE  leases'[i] = leases[i]
    BY <1>1 DEF Running
  <2>1. SlotStep(p, i)
    BY <1>1, HandleStep DEF DhcpdTypeOK
  <2>2. leases[i].allocated /\ leases[i].left # 0
    BY DEF Running, dhcpd_leaseexpired
  <2> QED BY <2>1, <2>2, Zenon DEF SlotStep
<1>2. ASSUME IInv, [DhcpdNext]_dhcpdVars
      PROVE  A
  <2>1. CASE Serve
    <3>1. PICK answer : Handle(pkt', answer)
      BY <2>1 DEF Serve, Receive, ReceiveStray, ReceiveBadMagic, RecvFails
    <3>2. pkt' \in Fields \cup {Zeroed}
      BY <1>2, <2>1 DEF Serve, Receive, ReceiveStray, ReceiveBadMagic, RecvFails, Packet,
         IInv, DhcpdTypeOK, Fields
    <3> QED BY <1>1, <1>2, <3>1, <3>2 DEF IInv
  <2>2. CASE dhcpd_run
    BY <2>2 DEF dhcpd_run
  <2>3. CASE os_dhcp_server_stop \/ UNCHANGED dhcpdVars
    BY <2>3 DEF os_dhcp_server_stop, dhcpdVars, Running
  <2>4. CASE Tick
    <3>1. ASSUME NEW i \in Ips
          PROVE  leases'[i].mac = leases[i].mac /\ leases'[i].allocated = leases[i].allocated
      BY <1>2, <2>4 DEF Tick, IInv, DhcpdTypeOK, Lease
    <3> QED BY <3>1 DEF Running
  <2> QED BY <1>2, <2>1, <2>2, <2>3, <2>4 DEF DhcpdNext
<1> QED BY <1>2 DEF RunningStays

(* Table and clients agree as a whole, for any number of either.           *)
THEOREM LeasesAlwaysAgree == DhcpdSpec => []LeasesAgree
<1>1. IInv /\ NoDoubleLease => LeasesAgree
  BY DEF IInv, LeasesAgree
<1> QED BY <1>1, LeaseInvariant, AddressesAreExclusive, PTL

(* A set of numbers that is not empty has a least one.                     *)
LEMMA LeastExists ==
  ASSUME NEW S, S \subseteq Nat, S # {}
  PROVE  \E i \in S : \A j \in S : i <= j
<1>1. PICK i \in S : \A j \in S : ~(<<j, i>> \in OpToRel(<, Nat))
  BY WFMin, NatLessThanWellFounded, Zenon
<1>2. ASSUME NEW j \in S PROVE i <= j
  <2>1. <<j, i>> \in Nat \X Nat
    OBVIOUS
  <2>2. ~(j < i)
    BY <1>1, <2>1 DEF OpToRel
  <2> QED BY <2>2
<1> QED BY <1>2

(* A DISCOVER that leaves its client without a slot found no address to    *)
(* offer: none is free, may be given out and stays silent when pinged.     *)
LEMMA DiscoverOffers ==
  ASSUME DhcpdTypeOK, NEW p \in Fields, dhcpd_discover(p),
         \A i \in Ips : leases'[i].mac # p.chaddr
  PROVE  Candidates = {}
<1>1. ASSUME NEW ip \in Ips, NEW t, dhcpd_setlease(p.chaddr, ip, t)
      PROVE  FALSE
  <2>1. leases'[ip] = [mac |-> p.chaddr, allocated |-> TRUE, left |-> t]
    BY <1>1 DEF dhcpd_setlease, DhcpdTypeOK
  <2> QED BY <2>1
<1>2. dhcpd_findbymac(p.chaddr) \subseteq Ips /\ dhcpd_allocipaddr \subseteq Ips
  BY DEF dhcpd_findbymac, dhcpd_allocipaddr, Candidates
<1>3. dhcpd_allocipaddr = {}
  BY <1>1, <1>2 DEF dhcpd_discover, dhcpd_verifyreqip
<1>4. Candidates \subseteq Nat
  BY TableAssumption DEF Candidates, Ips
<1> QED BY <1>3, <1>4, LeastExists DEF dhcpd_allocipaddr

(* A client is refused an offer only when every address is taken.          *)
LEMMA RefusalsAreFair ==
  ASSUME IInv
  PROVE  RefusedOnlyWhenFull
<1> DEFINE Silent == \A i \in Ips : leases'[i].mac # pkt'.chaddr
           Room == \E i \in Ips : ~Running(i) /\ i \notin Reserved /\ i \notin pinged'
<1>1. ASSUME IInv, Serve, pkt'.type = "DISCOVER", Silent, Room
      PROVE  FALSE
  <2>1. PICK answer : Handle(pkt', answer)
    BY <1>1 DEF Serve, Receive, ReceiveStray, ReceiveBadMagic, RecvFails
  <2>2. pkt' \in Fields \cup {Zeroed}
    BY <1>1 DEF Serve, Receive, ReceiveStray, ReceiveBadMagic, RecvFails, Packet,
       IInv, DhcpdTypeOK, Fields
  <2>3. pkt' \in Fields
    BY <1>1, <2>2 DEF Zeroed
  <2>4. dhcpd_discover(pkt')
    BY <1>1, <2>1 DEF Handle
  <2>5. Candidates = {}
    BY <1>1, <2>3, <2>4, DiscoverOffers DEF IInv
  <2>6. ASSUME NEW i \in Ips, ~Running(i) PROVE IsFree(i)
    BY <2>6 DEF Running, IsFree, dhcpd_findbyipaddr
  <2> QED BY <1>1, <2>5, <2>6 DEF Candidates
<1> QED BY <1>1 DEF RefusedOnlyWhenFull

(* What a step may never do to the table: it takes no running slot from    *)
(* its client, and leaves no DISCOVER without an offer while an address is *)
(* to be had.                                                              *)
THEOREM TableStepsHold == DhcpdSpec => TableSteps
<1>1. IInv /\ [DhcpdNext]_dhcpdVars => [RunningStays /\ RefusedOnlyWhenFull]_dhcpdVars
  BY RunningSlotsAreKept, RefusalsAreFair
<1> QED BY <1>1, LeaseInvariant, PTL DEF DhcpdSpec, TableSteps

-----------------------------------------------------------------------------
(***************************************************************************)
(* The online watch.  Watchers are numbered as they are added, so the list *)
(* is in ascending order and what a round of callbacks has yet to tell is  *)
(* what comes after the node it is at.                                     *)
(***************************************************************************)

OwTypes ==
  /\ status \in BOOLEAN \cup {NoStatus} /\ online \in BOOLEAN
  /\ root \in Seq(1..MaxWatchers)
  /\ fds \in [open : Int, watched : Int]
  /\ added \in 0..MaxWatchers /\ at \in 0..MaxWatchers
  /\ told \in [1..MaxWatchers -> BOOLEAN \cup {NoStatus}]
  /\ netlink \in Seq({"up", "down"})

\* The list is ascending and there is one exactly while the status is known.
OwList ==
  /\ \A i, j \in DOMAIN root : i < j => root[i] < root[j]
  /\ \A i \in DOMAIN root : root[i] <= added
  /\ at <= added
  /\ root = <<>> <=> status = NoStatus

OwSocket ==
  /\ fds.watched = IF status = NoStatus THEN 0 ELSE 1
  /\ fds.open >= fds.watched
  /\ status = NoStatus => netlink = <<>>

\* The last message that waits tells the truth.
OwNews ==
  status # NoStatus =>
    /\ netlink = <<>> => status = online \/ "check failed" \in owCause
    /\ netlink # <<>> => (netlink[Len(netlink)] = "up") = online

\* Up to the node the round is at everybody was told.
OwRound ==
  /\ at = 0 => \A i \in DOMAIN root : told[root[i]] = status
  /\ at # 0 => \/ "removed itself" \in owCause /\ \A i \in DOMAIN root : root[i] # at
               \/ /\ \E i \in DOMAIN root : root[i] = at
                  /\ \A i \in DOMAIN root : root[i] <= at => told[root[i]] = status
  /\ owFault => "removed itself" \in owCause

OwInv == OwTypes /\ OwList /\ OwSocket /\ OwNews /\ OwRound

(* A sequence without one of its elements.                                 *)
LEMMA RemovedAt ==
  ASSUME NEW S, NEW s \in Seq(S), NEW i \in 1..Len(s)
  PROVE  /\ RemoveAt(s, i) \in Seq(S) /\ Len(RemoveAt(s, i)) = Len(s) - 1
         /\ \A j \in 1..(Len(s) - 1) : RemoveAt(s, i)[j] = IF j < i THEN s[j] ELSE s[j + 1]
<1> DEFINE f == SubSeq(s, 1, i - 1)
           g == SubSeq(s, i + 1, Len(s))
<1>1. f \in Seq(S) /\ Len(f) = i - 1 /\ \A j \in 1..(i - 1) : f[j] = s[j]
  OBVIOUS
<1>2. g \in Seq(S) /\ Len(g) = Len(s) - i /\ \A j \in 1..(Len(s) - i) : g[j] = s[i + j]
  OBVIOUS
<1>3. RemoveAt(s, i) = f \o g
  BY DEF RemoveAt
<1> HIDE DEF f, g
<1>4. f \o g \in Seq(S) /\ Len(f \o g) = Len(s) - 1
  <2>1. f \o g \in Seq(S) /\ Len(f \o g) = Len(f) + Len(g)
    BY <1>1, <1>2, ConcatProperties
  <2>2. Len(s) \in Nat
    OBVIOUS
  <2> QED BY <1>1, <1>2, <2>1, <2>2
<1>5. ASSUME NEW j \in 1..(Len(s) - 1) PROVE (f \o g)[j] = IF j < i THEN s[j] ELSE s[j + 1]
  <2>1. CASE j < i
    BY <1>1, <1>2, <2>1
  <2>2. CASE j >= i
    <3>1. (f \o g)[j] = g[j - (i - 1)]
      BY <1>1, <1>2, <2>2
    <3>2. g[j - (i - 1)] = s[i + (j - (i - 1))] /\ i + (j - (i - 1)) = j + 1
      BY <1>2, <2>2
    <3> QED BY <2>2, <3>1, <3>2
  <2>3. j < i \/ j >= i
    OBVIOUS
  <2> QED BY <2>1, <2>2, <2>3, Zenon
<1> QED BY <1>3, <1>4, <1>5

(* The list without a watcher: the others are there, in order.             *)
LEMMA WithoutKeeps ==
  ASSUME OwTypes, OwList, NEW w \in 1..MaxWatchers, w \in ToSet(root)
  PROVE  /\ Without(w) \in Seq(1..MaxWatchers)
         /\ \A i, j \in DOMAIN Without(w) : i < j => Without(w)[i] < Without(w)[j]
         /\ \A i \in DOMAIN Without(w) : Without(w)[i] # w
         /\ \A i \in DOMAIN Without(w) : \E j \in DOMAIN root : root[j] = Without(w)[i]
         /\ \A j \in DOMAIN root : root[j] # w => \E i \in DOMAIN Without(w) : Without(w)[i] = root[j]
<1> DEFINE p == CHOOSE i \in DOMAIN root : root[i] = w
           u == Without(w)
<1>1. p \in 1..Len(root) /\ root[p] = w /\ root \in Seq(1..MaxWatchers)
  BY DEF ToSet, OwTypes
<1>2. u = RemoveAt(root, p)
  BY DEF Without
<1>3. \A i, j \in 1..Len(root) : i < j => root[i] < root[j]
  BY <1>1 DEF OwList
<1>4. Len(root) \in Nat /\ \A i \in 1..Len(root) : root[i] \in Int
  BY <1>1, OnlineWatchAssumption
<1> HIDE DEF p, u
<1>5. /\ u \in Seq(1..MaxWatchers) /\ Len(u) = Len(root) - 1
      /\ \A j \in 1..(Len(root) - 1) : u[j] = IF j < p THEN root[j] ELSE root[j + 1]
  BY <1>1, <1>2, RemovedAt
<1>6. DOMAIN u = 1..(Len(root) - 1) /\ DOMAIN root = 1..Len(root)
  BY <1>1, <1>5
<1>7. \A i, j \in DOMAIN u : i < j => u[i] < u[j]
  <2> SUFFICES ASSUME NEW i \in 1..(Len(root) - 1), NEW j \in 1..(Len(root) - 1), i < j PROVE u[i] < u[j]
    BY <1>6
  <2> DEFINE f(k) == IF k < p THEN k ELSE k + 1
  <2>1. f(i) \in 1..Len(root) /\ f(j) \in 1..Len(root) /\ f(i) < f(j)
    BY <1>1, <1>4
  <2>2. u[i] = root[f(i)] /\ u[j] = root[f(j)]
    BY <1>5
  <2> HIDE DEF f
  <2> QED BY <1>3, <2>1, <2>2
<1>8. \A i \in DOMAIN u : u[i] # w /\ \E j \in DOMAIN root : root[j] = u[i]
  <2> SUFFICES ASSUME NEW i \in 1..(Len(root) - 1) PROVE u[i] # w /\ \E j \in 1..Len(root) : root[j] = u[i]
    BY <1>6
  <2>1. CASE i < p
    <3>1. i \in 1..Len(root) /\ u[i] = root[i] /\ root[i] < root[p]
      BY <1>1, <1>3, <1>4, <1>5, <2>1
    <3> QED BY <1>1, <1>4, <3>1
  <2>2. CASE i >= p
    <3>1. i + 1 \in 1..Len(root) /\ u[i] = root[i + 1] /\ root[p] < root[i + 1]
      BY <1>1, <1>3, <1>4, <1>5, <2>2
    <3> QED BY <1>1, <1>4, <3>1
  <2> QED BY <1>1, <1>4, <2>1, <2>2
<1>9. \A j \in DOMAIN root : root[j] # w => \E i \in DOMAIN u : u[i] = root[j]
  <2> SUFFICES ASSUME NEW j \in 1..Len(root), j # p PROVE \E i \in 1..(Len(root) - 1) : u[i] = root[j]
    BY <1>1, <1>6
  <2>1. CASE j < p
    <3>1. j \in 1..(Len(root) - 1) /\ u[j] = root[j]
      BY <1>1, <1>4, <1>5, <2>1
    <3> QED BY <3>1
  <2>2. CASE j > p
    <3>1. j - 1 \in 1..(Len(root) - 1) /\ u[j - 1] = root[j]
      BY <1>1, <1>4, <1>5, <2>2
    <3> QED BY <3>1
  <2> QED BY <1>1, <2>1, <2>2
<1> QED BY <1>5, <1>7, <1>8, <1>9 DEF u

(* The list with a watcher that is added.                                  *)
LEMMA AttachKeeps ==
  ASSUME OwTypes, OwList, added < MaxWatchers, NEW s \in BOOLEAN, Attach(added + 1, s)
  PROVE  /\ added' \in 0..MaxWatchers /\ added' = added + 1 /\ root' \in Seq(1..MaxWatchers) /\ root' # <<>>
         /\ told' \in [1..MaxWatchers -> BOOLEAN \cup {NoStatus}]
         /\ \A i, j \in DOMAIN root' : i < j => root'[i] < root'[j]
         /\ \A i \in DOMAIN root' : root'[i] <= added'
         /\ \A i \in DOMAIN root' : \/ root'[i] = added + 1 /\ told'[root'[i]] = s
                                    \/ i \in DOMAIN root /\ root'[i] = root[i] /\ root[i] # added + 1
                                       /\ told'[root'[i]] = told[root[i]]
         /\ \A i \in DOMAIN root : i \in DOMAIN root' /\ root'[i] = root[i]
<1>1. MaxWatchers \in Nat /\ added \in 0..MaxWatchers /\ added + 1 \in 1..MaxWatchers /\ root \in Seq(1..MaxWatchers)
  BY OnlineWatchAssumption DEF OwTypes
<1>2. /\ root' \in Seq(1..MaxWatchers) /\ Len(root') = Len(root) + 1 /\ root'[Len(root) + 1] = added + 1
      /\ \A i \in 1..Len(root) : root'[i] = root[i]
  BY <1>1, AppendProperties DEF Attach
<1>3. Len(root) \in Nat /\ DOMAIN root = 1..Len(root) /\ DOMAIN root' = 1..(Len(root) + 1)
      /\ \A i \in 1..(Len(root) + 1) : i = Len(root) + 1 \/ i \in 1..Len(root)
  BY <1>1, <1>2
<1>4. \A i \in 1..Len(root) : root[i] \in 1..MaxWatchers /\ root[i] <= added
  BY <1>1, <1>3 DEF OwList
<1>5. \A i, j \in 1..Len(root) : i < j => root[i] < root[j]
  BY <1>3 DEF OwList
<1>6. told' = [told EXCEPT ![added + 1] = s] /\ added' = added + 1
  BY DEF Attach
<1>7. told \in [1..MaxWatchers -> BOOLEAN \cup {NoStatus}]
  BY DEF OwTypes
<1>8. told'[added + 1] = s /\ \A x \in 1..MaxWatchers : x # added + 1 => told'[x] = told[x]
  BY <1>1, <1>6, <1>7
<1>9. \A i, j \in 1..(Len(root) + 1) : i < j => root'[i] < root'[j]
  <2> SUFFICES ASSUME NEW i \in 1..(Len(root) + 1), NEW j \in 1..(Len(root) + 1), i < j
               PROVE  root'[i] < root'[j]
    OBVIOUS
  <2>1. i \in 1..Len(root) /\ root'[i] = root[i]
    BY <1>2, <1>3
  <2>2. CASE j = Len(root) + 1
    BY <1>1, <1>2, <1>4, <2>1, <2>2
  <2>3. CASE j \in 1..Len(root)
    BY <1>2, <1>5, <2>1, <2>3
  <2> QED BY <1>3, <2>2, <2>3
<1>10. \A i \in 1..(Len(root) + 1) : root'[i] <= added + 1
  BY <1>1, <1>2, <1>3, <1>4
<1>11. \A i \in 1..Len(root) : root[i] # added + 1 /\ told'[root[i]] = told[root[i]]
  BY <1>1, <1>4, <1>8
<1>12. root' # <<>>
  BY <1>2, <1>3
<1>13. told' \in [1..MaxWatchers -> BOOLEAN \cup {NoStatus}]
  BY <1>6, <1>7
<1> QED BY <1>1, <1>2, <1>3, <1>6, <1>8, <1>9, <1>10, <1>11, <1>12, <1>13

(* At the start nobody watches.                                            *)
LEMMA WatchStarts == OnlineInit => OwInv
<1> SUFFICES ASSUME OnlineInit PROVE OwInv
  OBVIOUS
<1>1. OwTypes
  BY OnlineWatchAssumption DEF OnlineInit, OwTypes
<1>2. OwList
  BY OnlineWatchAssumption DEF OnlineInit, OwList
<1>3. OwSocket /\ OwNews /\ OwRound
  BY DEF OnlineInit, OwSocket, OwNews, OwRound
<1> QED BY <1>1, <1>2, <1>3 DEF OwInv

(* A watcher is added, the first one with the socket and the status.       *)
LEMMA AddKeeps == ASSUME OwInv, os_network_add_watch_online_status PROVE OwInv'
<1>0. OwTypes /\ OwList /\ OwSocket /\ OwNews /\ OwRound
  BY DEF OwInv
<1>1. CASE fds.open < 2 /\ fds' = [fds EXCEPT !.open = @ + 1] /\ owCause' = owCause \cup {"start failed"}
           /\ UNCHANGED <<status, netlink, root, told, added, at, online, links, owFault>>
  <2>0. fds' = [open |-> fds.open + 1, watched |-> fds.watched] /\ fds.open \in Int /\ fds.watched \in Int
    BY <1>0, <1>1 DEF OwTypes
  <2>1. OwTypes'
    <3>1. fds' \in [open : Int, watched : Int]
      BY <2>0
    <3>2. UNCHANGED <<status, netlink, root, told, added, at, online>>
      BY <1>1
    <3> QED BY <1>0, <3>1, <3>2, Zenon DEF OwTypes
  <2>4. OwList'
    BY <1>0, <1>1 DEF OwList
  <2>2. OwSocket'
    <3>1. fds'.open = fds.open + 1 /\ fds'.watched = fds.watched /\ UNCHANGED <<status, netlink>>
      BY <1>1, <2>0
    <3>2. fds.watched = 0 \/ fds.watched = 1
      BY <1>0 DEF OwSocket
    <3> QED BY <1>0, <2>0, <3>1, <3>2 DEF OwSocket
  <2>3. OwNews' /\ OwRound'
    BY <1>0, <1>1 DEF OwNews, OwRound
  <2> QED BY <2>1, <2>2, <2>3, <2>4 DEF OwInv
<1>2. ASSUME NEW s \in BOOLEAN, status' = s, added < MaxWatchers, Attach(added + 1, s),
             \/ status = NoStatus /\ s = online /\ netlink' = <<>>
                /\ fds' = [open |-> fds.open + 1, watched |-> fds.watched + 1]
             \/ status # NoStatus /\ s = status /\ UNCHANGED <<netlink, fds>>,
             UNCHANGED <<at, online, links, owFault, owCause>>
      PROVE  OwInv'
  <2>1. /\ added' \in 0..MaxWatchers /\ added' = added + 1 /\ root' \in Seq(1..MaxWatchers) /\ root' # <<>>
        /\ told' \in [1..MaxWatchers -> BOOLEAN \cup {NoStatus}]
        /\ \A i, j \in DOMAIN root' : i < j => root'[i] < root'[j]
        /\ \A i \in DOMAIN root' : root'[i] <= added'
        /\ \A i \in DOMAIN root' : \/ root'[i] = added + 1 /\ told'[root'[i]] = s
                                   \/ i \in DOMAIN root /\ root'[i] = root[i] /\ root[i] # added + 1
                                      /\ told'[root'[i]] = told[root[i]]
        /\ \A i \in DOMAIN root : i \in DOMAIN root' /\ root'[i] = root[i]
    BY <1>0, <1>2, AttachKeeps
  <2>2. MaxWatchers \in Nat /\ at \in 0..MaxWatchers /\ added \in 0..MaxWatchers /\ s # NoStatus
    BY <1>0, OnlineWatchAssumption DEF OwTypes
  <2>3. OwTypes'
    <3>1. fds \in [open : Int, watched : Int] /\ netlink \in Seq({"up", "down"})
      BY <1>0 DEF OwTypes
    <3>2. fds' \in [open : Int, watched : Int]
      <4>1. fds.open + 1 \in Int /\ fds.watched + 1 \in Int
        BY <3>1
      <4>2. [open |-> fds.open + 1, watched |-> fds.watched + 1] \in [open : Int, watched : Int]
        BY <4>1
      <4> QED BY <1>2, <3>1, <4>2, Zenon
    <3>3. netlink' \in Seq({"up", "down"})
      <4>1. <<>> \in Seq({"up", "down"})
        OBVIOUS
      <4> QED BY <1>2, <3>1, <4>1, Zenon
    <3>4. online \in BOOLEAN /\ at \in 0..MaxWatchers
      BY <1>0 DEF OwTypes
    <3> QED BY <1>2, <2>1, <3>2, <3>3, <3>4 DEF OwTypes
  <2>4. OwList'
    BY <1>0, <1>2, <2>1, <2>2 DEF OwList
  <2>5. OwSocket'
    BY <1>0, <1>2, <2>2 DEF OwSocket, OwTypes
  <2>6. OwNews'
    BY <1>0, <1>2, <2>2 DEF OwNews
  <2>7. OwRound'
    <3>1. (at = 0)' => (\A i \in DOMAIN root : told[root[i]] = status)'
      <4>1. status = NoStatus => root = <<>>
        BY <1>0 DEF OwList
      <4>2. CASE status = NoStatus
        BY <1>2, <2>1, <4>1, <4>2
      <4>3. CASE status # NoStatus
        BY <1>0, <1>2, <2>1, <4>3 DEF OwRound
      <4> QED BY <4>2, <4>3
    <3>2. at # added + 1 /\ \A i \in DOMAIN root' : root'[i] = added + 1 => ~(root'[i] <= at)
      BY <1>0, <2>2 DEF OwList
    <3>3. ASSUME at # 0, "removed itself" \in owCause, \A i \in DOMAIN root : root[i] # at
          PROVE  "removed itself" \in owCause' /\ \A i \in DOMAIN root' : root'[i] # at
      BY <1>2, <2>1, <3>2, <3>3
    <3>4. ASSUME at # 0, \E i \in DOMAIN root : root[i] = at,
                 \A i \in DOMAIN root : root[i] <= at => told[root[i]] = status
          PROVE  /\ \E i \in DOMAIN root' : root'[i] = at
                 /\ \A i \in DOMAIN root' : root'[i] <= at => told'[root'[i]] = status'
      <4>1. status # NoStatus
        BY <1>0, <3>4 DEF OwList
      <4>2. status' = status
        BY <1>2, <4>1
      <4> QED BY <2>1, <3>2, <3>4, <4>2
    <3>5. \/ at = 0
          \/ "removed itself" \in owCause /\ \A i \in DOMAIN root : root[i] # at
          \/ /\ \E i \in DOMAIN root : root[i] = at
             /\ \A i \in DOMAIN root : root[i] <= at => told[root[i]] = status
      BY <1>0 DEF OwRound
    <3>6. at' = at /\ owCause' = owCause /\ owFault' = owFault
      BY <1>2
    <3>7. owFault => "removed itself" \in owCause
      BY <1>0 DEF OwRound
    <3> QED BY <3>1, <3>3, <3>4, <3>5, <3>6, <3>7 DEF OwRound
  <2> QED BY <2>3, <2>4, <2>5, <2>6, <2>7 DEF OwInv
<1>3. CASE initialize_watch_online_status
  <2>1. online \in BOOLEAN
    BY <1>0 DEF OwTypes
  <2> QED BY <1>1, <1>2, <1>3, <2>1
      DEF initialize_watch_online_status, artik_get_online_status, artik_get_current_public_ip
<1>4. CASE status # NoStatus /\ added < MaxWatchers /\ Attach(added + 1, status)
           /\ UNCHANGED <<status, fds, at, online, links, netlink, owFault, owCause>>
  <2>1. status \in BOOLEAN
    BY <1>0, <1>4 DEF OwTypes
  <2> QED BY <1>2, <1>4, <2>1
<1> QED BY <1>3, <1>4 DEF os_network_add_watch_online_status

(* A watcher is removed, the last one with the socket and the status.      *)
LEMMA RemoveKeeps ==
  ASSUME OwInv, NEW w \in 1..MaxWatchers, os_network_remove_watch_online_status(w) PROVE OwInv'
<1> USE DEF os_network_remove_watch_online_status
<1>0. OwTypes /\ OwList /\ OwSocket /\ OwNews /\ OwRound
  BY DEF OwInv
<1>1. /\ root' \in Seq(1..MaxWatchers)
      /\ \A i, j \in DOMAIN root' : i < j => root'[i] < root'[j]
      /\ \A i \in DOMAIN root' : root'[i] # w
      /\ \A i \in DOMAIN root' : \E j \in DOMAIN root : root[j] = root'[i]
      /\ \A j \in DOMAIN root : root[j] # w => \E i \in DOMAIN root' : root'[i] = root[j]
  BY <1>0, WithoutKeeps
<1>2. /\ UNCHANGED <<added, at, online, links, owFault>>
      /\ told' = [told EXCEPT ![w] = NoStatus]
      /\ status # NoStatus
      /\ \/ root' = <<>> /\ status' = NoStatus /\ netlink' = <<>>
            /\ fds' = [open |-> fds.open - 1, watched |-> fds.watched - 1]
         \/ root' # <<>> /\ UNCHANGED <<status, fds, netlink>>
      /\ owCause \subseteq owCause' /\ (at = w => "removed itself" \in owCause')
      /\ ("check failed" \in owCause => "check failed" \in owCause')
  OBVIOUS
<1> HIDE DEF os_network_remove_watch_online_status
<1>3. OwTypes'
  <2>1. fds.open \in Int /\ fds.watched \in Int /\ fds \in [open : Int, watched : Int]
        /\ netlink \in Seq({"up", "down"}) /\ <<>> \in Seq({"up", "down"})
    BY <1>0 DEF OwTypes
  <2>2. [open |-> fds.open - 1, watched |-> fds.watched - 1] \in [open : Int, watched : Int]
    BY <2>1
  <2>3. fds' \in [open : Int, watched : Int] /\ netlink' \in Seq({"up", "down"})
    BY <1>2, <2>1, <2>2, Zenon
  <2>4. status' \in BOOLEAN \cup {NoStatus}
    BY <1>0, <1>2, Zenon DEF OwTypes
  <2>5. told' \in [1..MaxWatchers -> BOOLEAN \cup {NoStatus}]
    BY <1>0, <1>2 DEF OwTypes
  <2> QED BY <1>0, <1>1, <1>2, <2>3, <2>4, <2>5 DEF OwTypes
<1>4. OwList'
  <2>1. \A i \in DOMAIN root' : root'[i] <= added'
    BY <1>0, <1>1, <1>2 DEF OwList
  <2> QED BY <1>0, <1>1, <1>2, <2>1 DEF OwList
<1>5. OwSocket'
  <2>1. fds.open \in Int /\ fds.watched \in Int /\ fds.watched = 1 /\ fds.open >= fds.watched
    BY <1>0, <1>2 DEF OwSocket, OwTypes
  <2>2. CASE status' = NoStatus /\ netlink' = <<>> /\ fds' = [open |-> fds.open - 1, watched |-> fds.watched - 1]
    BY <2>1, <2>2 DEF OwSocket
  <2>3. CASE UNCHANGED <<status, fds, netlink>>
    BY <1>0, <2>3 DEF OwSocket
  <2> QED BY <1>2, <2>2, <2>3, Zenon
<1>6. OwNews'
  BY <1>0, <1>2 DEF OwNews
<1>7. \A i \in DOMAIN root' : told'[root'[i]] = told[root'[i]]
  <2>0. root' \in Seq(1..MaxWatchers)
    BY <1>1
  <2>1. \A i \in DOMAIN root' : root'[i] \in 1..MaxWatchers
    BY <2>0, ElementOfSeq, LenProperties
  <2> QED BY <1>0, <1>1, <1>2, <2>1 DEF OwTypes
<1>8. root' # <<>> => status' = status
  BY <1>2
<1>9. (at = 0)' => (\A i \in DOMAIN root : told[root[i]] = status)'
  <2> SUFFICES ASSUME at = 0, NEW i \in DOMAIN root' PROVE told'[root'[i]] = status'
    BY <1>2
  <2>1. PICK j \in DOMAIN root : root[j] = root'[i]
    BY <1>1
  <2>2. told[root[j]] = status
    BY <1>0, <2>1 DEF OwRound
  <2>3. status' = status
    BY <1>1, <1>8
  <2> QED BY <1>7, <2>1, <2>2, <2>3
<1>10. ASSUME at # 0, \A i \in DOMAIN root : root[i] # at, "removed itself" \in owCause
       PROVE  "removed itself" \in owCause' /\ \A i \in DOMAIN root' : root'[i] # at
  BY <1>1, <1>2, <1>10
<1>11. ASSUME at # 0, at = w
       PROVE  "removed itself" \in owCause' /\ \A i \in DOMAIN root' : root'[i] # at
  BY <1>1, <1>2, <1>11
<1>12. ASSUME at # 0, at # w, \E i \in DOMAIN root : root[i] = at,
              \A i \in DOMAIN root : root[i] <= at => told[root[i]] = status
       PROVE  /\ \E i \in DOMAIN root' : root'[i] = at
              /\ \A i \in DOMAIN root' : root'[i] <= at => told'[root'[i]] = status'
  <2>1. \E i \in DOMAIN root' : root'[i] = at
    BY <1>1, <1>12
  <2>2. status' = status
    BY <1>8, <2>1
  <2>3. \A i \in DOMAIN root' : root'[i] <= at => told[root'[i]] = status
    BY <1>1, <1>12
  <2> QED BY <1>7, <2>1, <2>2, <2>3
<1>13. \/ at = 0
       \/ "removed itself" \in owCause /\ \A i \in DOMAIN root : root[i] # at
       \/ /\ \E i \in DOMAIN root : root[i] = at
          /\ \A i \in DOMAIN root : root[i] <= at => told[root[i]] = status
  BY <1>0 DEF OwRound
<1>14. (owFault => "removed itself" \in owCause)' /\ at' = at
  BY <1>0, <1>2 DEF OwRound
<1>15. OwRound'
  BY <1>9, <1>10, <1>11, <1>12, <1>13, <1>14 DEF OwRound
<1> QED BY <1>3, <1>4, <1>5, <1>6, <1>15 DEF OwInv

(* A message is handled: the watchers are told, one after the other, of a  *)
(* status that has changed.                                                *)
LEMMA ConnectionKeeps == ASSUME OwInv, network_connection PROVE OwInv'
<1>0. OwTypes /\ OwList /\ OwSocket /\ OwNews /\ OwRound
  BY DEF OwInv
<1>1. /\ at = 0 /\ netlink # <<>> /\ netlink' = Tail(netlink) /\ UNCHANGED <<root, fds, added, online, owFault>>
      /\ Visit(IF status' # status THEN root[1] ELSE 0)
  BY DEF network_connection
<1>2. status # NoStatus
  BY <1>0, <1>1 DEF OwSocket
<1>3. status \in BOOLEAN /\ online \in BOOLEAN
  BY <1>0, <1>2 DEF OwTypes
<1>4. /\ \/ status' = (IF (Head(netlink) = "up") # status THEN online ELSE status) /\ owCause' = owCause
         \/ status' = status /\ owCause' = owCause \cup {"check failed"}
  BY DEF network_connection, artik_get_online_status, artik_get_current_public_ip
<1>5. status' \in BOOLEAN /\ status' # NoStatus
  BY <1>3, <1>4, OnlineWatchAssumption
<1>6. netlink \in Seq({"up", "down"}) /\ netlink' \in Seq({"up", "down"}) /\ Len(netlink) \in Nat \ {0}
      /\ Len(netlink') = Len(netlink) - 1 /\ \A i \in 1..Len(netlink') : netlink'[i] = netlink[i + 1]
  BY <1>0, <1>1, HeadTailProperties DEF OwTypes
<1>7. root \in Seq(1..MaxWatchers) /\ root # <<>> /\ 1 \in DOMAIN root /\ root[1] \in 1..MaxWatchers
  <2>1. root \in Seq(1..MaxWatchers) /\ root # <<>>
    BY <1>0, <1>2 DEF OwTypes, OwList
  <2>2. 1 \in 1..Len(root)
    BY <2>1
  <2> QED BY <2>1, <2>2, ElementOfSeq, LenProperties
<1>8. MaxWatchers \in Nat /\ told \in [1..MaxWatchers -> BOOLEAN \cup {NoStatus}]
  BY <1>0, OnlineWatchAssumption DEF OwTypes
<1>9. \A i \in DOMAIN root : told[root[i]] = status
  BY <1>0, <1>1 DEF OwRound
<1>10. \/ status' = status /\ at' = 0 /\ told' = told
       \/ status' # status /\ at' = root[1] /\ told' = [told EXCEPT ![root[1]] = status']
  <2>1. root[1] # 0
    BY <1>7, <1>8
  <2> QED BY <1>1, <2>1 DEF Visit
<1>11. OwTypes'
  <2>1. told' \in [1..MaxWatchers -> BOOLEAN \cup {NoStatus}]
    BY <1>5, <1>7, <1>8, <1>10
  <2>2. at' \in 0..MaxWatchers
    BY <1>7, <1>8, <1>10
  <2>3. status' \in BOOLEAN \cup {NoStatus}
    BY <1>5
  <2> QED BY <1>0, <1>1, <1>6, <2>1, <2>2, <2>3 DEF OwTypes
<1>12. OwList'
  <2>1. at' <= added'
    <3>1. root[1] <= added /\ added \in 0..MaxWatchers
      BY <1>0, <1>7 DEF OwList, OwTypes
    <3> QED BY <1>1, <1>8, <1>10, <3>1
  <2> QED BY <1>0, <1>1, <1>2, <1>5, <2>1 DEF OwList
<1>13. OwSocket'
  BY <1>0, <1>1, <1>2, <1>5 DEF OwSocket
<1>14. OwNews'
  <2>1. (netlink[Len(netlink)] = "up") = online
    BY <1>0, <1>1, <1>2 DEF OwNews
  <2>2. CASE Len(netlink) = 1
    <3>1. netlink' = <<>> /\ Head(netlink) = netlink[Len(netlink)]
      BY <1>6, <2>2
    <3>2. status' = online \/ "check failed" \in owCause'
      BY <1>3, <1>4, <2>1, <3>1
    <3> QED BY <1>1, <3>1, <3>2 DEF OwNews
  <2>3. CASE Len(netlink) # 1
    <3>1. netlink' # <<>> /\ netlink'[Len(netlink')] = netlink[Len(netlink)]
      BY <1>6, <2>3
    <3> QED BY <1>1, <2>1, <3>1 DEF OwNews
  <2> QED BY <2>2, <2>3
<1>15. OwRound'
  <2>1. (owFault => "removed itself" \in owCause)'
    BY <1>0, <1>1, <1>4 DEF OwRound
  <2>2. CASE status' = status /\ at' = 0 /\ told' = told
    BY <1>1, <1>9, <2>1, <2>2 DEF OwRound
  <2>3. CASE status' # status /\ at' = root[1] /\ told' = [told EXCEPT ![root[1]] = status']
    <3>1. at' # 0
      BY <1>7, <1>8, <2>3
    <3>2. ASSUME NEW i \in DOMAIN root, root[i] <= root[1] PROVE told'[root[i]] = status'
      <4>1. i \in 1..Len(root) /\ Len(root) \in Nat
        BY <1>7
      <4>2. root[i] \in Int /\ root[1] \in Int
        BY <1>7, <1>8, <4>1
      <4>3. i = 1
        BY <1>0, <1>7, <3>2, <4>1, <4>2 DEF OwList
      <4> QED BY <1>7, <1>8, <2>3, <4>3
    <3>3. \E i \in DOMAIN root : root[i] = at'
      BY <1>7, <2>3
    <3> QED BY <1>1, <2>1, <2>3, <3>1, <3>2, <3>3 DEF OwRound
  <2> QED BY <1>10, <2>2, <2>3
<1> QED BY <1>11, <1>12, <1>13, <1>14, <1>15 DEF OwInv

(* A callback has returned.                                                *)
LEMMA NextNodeKeeps == ASSUME OwInv, NextNode PROVE OwInv'
<1>0. OwTypes /\ OwList /\ OwSocket /\ OwNews /\ OwRound
  BY DEF OwInv
<1>1. at # 0 /\ UNCHANGED <<status, root, fds, added, online, netlink, owCause>>
  BY DEF NextNode
<1>2. OwSocket' /\ OwNews'
  BY <1>0, <1>1 DEF OwSocket, OwNews
<1>3. /\ MaxWatchers \in Nat /\ root \in Seq(1..MaxWatchers) /\ Len(root) \in Nat /\ DOMAIN root = 1..Len(root)
      /\ \A i \in DOMAIN root : root[i] \in 1..MaxWatchers /\ root[i] <= added
  <2>1. MaxWatchers \in Nat /\ root \in Seq(1..MaxWatchers)
    BY <1>0, OnlineWatchAssumption DEF OwTypes
  <2>2. \A i \in DOMAIN root : root[i] \in 1..MaxWatchers
    BY <2>1, ElementOfSeq, LenProperties
  <2> QED BY <1>0, <2>1, <2>2 DEF OwList
<1>4. CASE at \notin ToSet(root)
  <2>1. owFault' = TRUE /\ UNCHANGED <<at, told>>
    BY <1>4 DEF NextNode
  <2>2. "removed itself" \in owCause
    BY <1>0, <1>1, <1>4 DEF OwRound, ToSet
  <2>3. OwTypes' /\ OwList'
    BY <1>0, <1>1, <2>1 DEF OwTypes, OwList
  <2>4. OwRound'
    BY <1>0, <1>1, <2>1, <2>2 DEF OwRound
  <2> QED BY <1>2, <2>3, <2>4 DEF OwInv
<1>5. CASE at \in ToSet(root)
  <2> DEFINE i == CHOOSE i \in DOMAIN root : root[i] = at
             n == IF i = Len(root) THEN 0 ELSE root[i + 1]
  <2>1. i \in 1..Len(root) /\ root[i] = at
    BY <1>3, <1>5 DEF ToSet
  <2>2. at' = n /\ told' = (IF n = 0 THEN told ELSE [told EXCEPT ![n] = status]) /\ owFault' = owFault
    BY <1>1, <1>5 DEF NextNode, Visit
  <2> HIDE DEF i
  <2>3. i = Len(root) \/ i + 1 \in 1..Len(root)
    <3>1. i \in 1..Len(root) /\ Len(root) \in Nat
      BY <1>3, <2>1
    <3> QED BY <3>1
  <2>4. \A j \in DOMAIN root : root[j] <= at => told[root[j]] = status
    BY <1>0, <1>1, <1>3, <2>1 DEF OwRound
  <2>5. \A j, k \in 1..Len(root) : j < k => root[j] < root[k]
    BY <1>0, <1>3 DEF OwList
  <2>6. added \in 0..MaxWatchers /\ status \in BOOLEAN \cup {NoStatus}
        /\ told \in [1..MaxWatchers -> BOOLEAN \cup {NoStatus}]
    BY <1>0 DEF OwTypes
  <2>7. CASE i = Len(root)
    <3>1. at' = 0 /\ told' = told
      BY <2>2, <2>7
    <3>2. \A j \in DOMAIN root : root[j] <= at
      BY <1>3, <2>1, <2>5, <2>7
    <3>3. OwTypes'
      BY <1>0, <1>1, <1>3, <3>1 DEF OwTypes
    <3>4. OwList'
      BY <1>0, <1>1, <2>6, <3>1 DEF OwList
    <3>5. OwRound'
      BY <1>0, <1>1, <2>2, <2>4, <3>1, <3>2 DEF OwRound
    <3> QED BY <1>2, <3>3, <3>4, <3>5 DEF OwInv
  <2>8. CASE i # Len(root)
    <3>1. n = root[i + 1] /\ i + 1 \in DOMAIN root /\ n \in 1..MaxWatchers /\ n # 0 /\ n <= added
      BY <1>3, <2>3, <2>8
    <3>2. at' = n /\ told' = [told EXCEPT ![n] = status]
      BY <2>2, <3>1
    <3>3. \A j \in DOMAIN root : root[j] <= n => root[j] <= at \/ root[j] = n
      <4> SUFFICES ASSUME NEW j \in 1..Len(root), root[j] <= n PROVE root[j] <= at \/ root[j] = n
        BY <1>3
      <4>1. root[j] \in Int /\ n \in Int /\ at \in Int
        <5>1. root[j] \in 1..MaxWatchers /\ root[i] \in 1..MaxWatchers /\ MaxWatchers \in Nat
          BY <1>3, <2>1
        <5>2. n \in 1..MaxWatchers
          BY <3>1
        <5> QED BY <2>1, <5>1, <5>2
      <4>2. CASE j < i
        BY <2>1, <2>5, <4>1, <4>2
      <4>3. CASE j = i
        BY <2>1, <4>1, <4>3
      <4>4. CASE j = i + 1
        BY <3>1, <4>4
      <4>5. CASE j > i + 1
        BY <1>3, <2>3, <2>5, <2>8, <3>1, <4>1, <4>5
      <4> QED BY <2>1, <4>2, <4>3, <4>4, <4>5
    <3> HIDE DEF n
    <3>4. \A j \in DOMAIN root : root[j] <= n => told'[root[j]] = status
      BY <1>3, <2>4, <2>6, <3>1, <3>2, <3>3
    <3>5. OwTypes'
      <4>1. told' \in [1..MaxWatchers -> BOOLEAN \cup {NoStatus}]
        BY <2>6, <3>1, <3>2
      <4>2. at' \in 0..MaxWatchers
        BY <1>3, <3>1, <3>2
      <4> QED BY <1>0, <1>1, <4>1, <4>2 DEF OwTypes
    <3>6. OwList'
      BY <1>0, <1>1, <3>1, <3>2 DEF OwList
    <3>7. OwRound'
      BY <1>0, <1>1, <2>2, <3>1, <3>2, <3>4 DEF OwRound
    <3> QED BY <1>2, <3>5, <3>6, <3>7 DEF OwInv
  <2> QED BY <2>7, <2>8
<1> QED BY <1>4, <1>5

(* The network changes.                                                    *)
LEMMA LinkKeeps == ASSUME OwInv, LinkChanges PROVE OwInv'
<1>0. OwTypes /\ OwList /\ OwSocket /\ OwNews /\ OwRound
  BY DEF OwInv
<1>1. /\ online' = ~online /\ UNCHANGED <<status, root, fds, added, told, at, owFault, owCause>>
      /\ netlink' = IF status = NoStatus THEN netlink ELSE Append(netlink, IF online' THEN "up" ELSE "down")
  BY DEF LinkChanges
<1>2. OwList' /\ OwRound'
  BY <1>0, <1>1 DEF OwList, OwRound
<1>3. netlink \in Seq({"up", "down"}) /\ online \in BOOLEAN /\ online' \in BOOLEAN
  BY <1>0, <1>1 DEF OwTypes
<1>4. CASE status = NoStatus
  <2>1. netlink' = netlink
    BY <1>1, <1>4
  <2>2. OwTypes'
    BY <1>0, <1>1, <1>3, <2>1, Zenon DEF OwTypes
  <2> QED BY <1>0, <1>1, <1>2, <1>4, <2>1, <2>2 DEF OwSocket, OwNews, OwInv
<1>5. CASE status # NoStatus
  <2> DEFINE m == IF online' THEN "up" ELSE "down"
  <2>1. m \in {"up", "down"} /\ (m = "up") = online'
    BY <1>3
  <2>2. netlink' = Append(netlink, m)
    BY <1>1, <1>5
  <2> HIDE DEF m
  <2>3. netlink' \in Seq({"up", "down"}) /\ netlink' # <<>> /\ netlink'[Len(netlink')] = m
    BY <1>3, <2>1, <2>2, AppendProperties
  <2>4. OwTypes'
    BY <1>0, <1>1, <1>3, <2>3, Zenon DEF OwTypes
  <2>5. OwSocket'
    BY <1>0, <1>1, <1>5 DEF OwSocket
  <2>6. OwNews'
    BY <1>1, <2>1, <2>3 DEF OwNews
  <2> QED BY <1>2, <2>4, <2>5, <2>6 DEF OwInv
<1> QED BY <1>4, <1>5

(* network_connection and the watchers that come and go in its callbacks:  *)
(* once the messages are handled the known status is the true one and all  *)
(* watchers were told it, for any number of watchers and of changes; a     *)
(* freed node is read only when a callback removed its own.                *)
THEOREM OnlineIsSound == OnlineSpec => []OnlineSound
<1>1. OwInv /\ [OnlineNext]_onlineVars => OwInv'
  <2> SUFFICES ASSUME OwInv, [OnlineNext]_onlineVars PROVE OwInv'
    OBVIOUS
  <2>1. CASE UNCHANGED onlineVars
    BY <2>1 DEF onlineVars, OwInv, OwTypes, OwList, OwSocket, OwNews, OwRound
  <2>2. CASE OnlineNext
    BY <2>2, AddKeeps, RemoveKeeps, ConnectionKeeps, NextNodeKeeps, LinkKeeps
    DEF OnlineNext, artik_watch_online_status
  <2> QED BY <2>1, <2>2
<1>2. OwInv => OnlineSound
  <2> SUFFICES ASSUME OwInv PROVE OnlineSound
    OBVIOUS
  <2>0. OwTypes /\ OwList /\ OwSocket /\ OwNews /\ OwRound
    BY DEF OwInv
  <2>1. OnlineTypeOK
    BY <2>0 DEF OwTypes, OwList, OwSocket, OnlineTypeOK
  <2>2. StatusIsTrue
    BY <2>0 DEF OwNews, StatusIsTrue
  <2>3. WatchersAgree
    BY <2>0 DEF OwRound, WatchersAgree, ToSet
  <2>4. WalkFaultHasCause
    BY <2>0 DEF OwRound, WalkFaultHasCause
  <2> QED BY <2>1, <2>2, <2>3, <2>4 DEF OnlineSound
<1> QED BY <1>1, <1>2, WatchStarts, PTL DEF OnlineSpec

-----------------------------------------------------------------------------
(***************************************************************************)
(* The DHCP client.                                                        *)
(***************************************************************************)

DcLease == [ip : Nat, server : Servers \cup {NoServer}]
DcMessage == [type : {"OFFER", "ACK", "NAK"}, ip : Nat, server : Servers \cup {NoServer}]

DcTypes ==
  /\ dcPc \in {"idle", "round", "discover", "offer", "request", "ack", "ok", "failed"}
  /\ renewing \in BOOLEAN /\ declined \in BOOLEAN
  /\ count \in 0..Discovers /\ retries \in 0..Retries /\ requestsMade \in Nat
  /\ ifaddr \in Nat /\ oldaddr \in Nat
  /\ pdhcpc \in DcLease /\ presult \in DcLease
  /\ inbox \in Seq(DcMessage) /\ Len(inbox) <= MaxInbox
  /\ heard \in [Servers -> Int] /\ granted \subseteq Servers

\* An ACK that waits was granted, an OFFER was made; but for those of others.
DcGranted(l) == l.ip = ForeignIp \/ (l.server \in granted /\ l.ip = OfferedIp[l.server])
DcOffered(l) == l.ip = ForeignIp \/ (l.server \in Servers /\ l.ip = OfferedIp[l.server])
DcReplies ==
  /\ \A i \in DOMAIN inbox : /\ inbox[i].type = "ACK" => DcGranted(inbox[i])
                             /\ inbox[i].type = "OFFER" => DcOffered(inbox[i])
  /\ dcPc = "ok" => DcGranted(presult)
  /\ dcPc \in {"request", "ack"} /\ ~renewing => DcOffered(pdhcpc)

\* There is a REQUEST to send whenever one is due.
DcCounts ==
  /\ dcPc \in {"discover", "offer"} => ~renewing
  /\ dcPc \in {"discover", "offer", "request"} => retries < Retries
  /\ requestsMade = 0 => dcPc = "idle" /\ inbox = <<>> /\ ifaddr = 0 /\ \A s \in Servers : heard[s] = 0

\* With one DISCOVER sent a server makes one offer: it is to come, it waits,
\* or it is the one that was locked.
DcEarly == requestsMade = 1 /\ "another station" \notin dcCause /\ count >= Discovers - 1
         /\ dcPc \in {"round", "discover", "offer", "request", "ack"}
OneOffer ==
  /\ ~renewing
  /\ \A i \in DOMAIN inbox : inbox[i].type = "OFFER" =>
       /\ inbox[i].server \in Servers /\ heard[inbox[i].server] # AskOffer
       /\ dcPc \in {"request", "ack"} => inbox[i].server # pdhcpc.server
  /\ \A i, j \in DOMAIN inbox :
       inbox[i].type = "OFFER" /\ inbox[j].type = "OFFER" /\ inbox[i].server = inbox[j].server => i = j
  /\ dcPc \in {"request", "ack"} => pdhcpc.server \in Servers /\ heard[pdhcpc.server] # AskOffer
  /\ count = Discovers => /\ dcPc \in {"round", "discover"}
                          /\ \A s \in Servers : heard[s] # AskOffer
                          /\ \A i \in DOMAIN inbox : inbox[i].type # "OFFER"

DcDeclined ==
  /\ DcEarly => OneOffer
  /\ dcPc = "idle" => ~declined
  /\ LockedIsDeclinedLate

DcInv == DcTypes /\ DcReplies /\ DcCounts /\ DcDeclined /\ FailureKeepsAddress

LEMMA AskIsNone == AskOffer # 0
BY DEF AskOffer

(* What is received leaves the buffer.                                     *)
LEMMA ReceivedIsHead ==
  ASSUME DcTypes, Received
  PROVE  /\ inbox' \in Seq(DcMessage) /\ Len(inbox') <= MaxInbox
         /\ 1 \in DOMAIN inbox /\ Head(inbox) = inbox[1] /\ inbox[1] \in DcMessage
         /\ \A i \in DOMAIN inbox' : i \in Nat \ {0} /\ i + 1 \in DOMAIN inbox /\ inbox'[i] = inbox[i + 1]
<1>1. inbox \in Seq(DcMessage) /\ inbox # <<>> /\ inbox' = Tail(inbox) /\ MaxInbox \in Nat /\ Len(inbox) <= MaxInbox
  BY DhcpcAssumption DEF DcTypes, Received
<1> HIDE DEF DcMessage
<1>2. inbox' \in Seq(DcMessage) /\ Len(inbox') = Len(inbox) - 1 /\ \A i \in 1..Len(inbox') : inbox'[i] = inbox[i + 1]
  BY <1>1, HeadTailProperties
<1>3. Len(inbox) \in Nat \ {0} /\ DOMAIN inbox = 1..Len(inbox) /\ DOMAIN inbox' = 1..(Len(inbox) - 1)
  BY <1>1, <1>2
<1>4. 1 \in DOMAIN inbox /\ Head(inbox) = inbox[1] /\ inbox[1] \in DcMessage
  BY <1>1, <1>3, ElementOfSeq
<1>5. Len(inbox') <= MaxInbox
  BY <1>1, <1>2, <1>3
<1> QED BY <1>2, <1>3, <1>4, <1>5

(* What arrives waits behind the others.                                   *)
LEMMA ArrivesLast ==
  ASSUME DcTypes, NEW m \in DcMessage, Arrives(m)
  PROVE  /\ inbox' \in Seq(DcMessage) /\ Len(inbox') <= MaxInbox
         /\ \A i \in DOMAIN inbox : i \in DOMAIN inbox' /\ inbox'[i] = inbox[i]
         /\ \A i \in DOMAIN inbox' : \/ i \in DOMAIN inbox /\ inbox'[i] = inbox[i]
                                     \/ i = Len(inbox) + 1 /\ i \notin DOMAIN inbox /\ inbox'[i] = m
<1>1. inbox \in Seq(DcMessage) /\ inbox' = Append(inbox, m) /\ MaxInbox \in Nat /\ Len(inbox) < MaxInbox
  BY DhcpcAssumption DEF DcTypes, Arrives
<1> HIDE DEF DcMessage
<1>2. /\ inbox' \in Seq(DcMessage) /\ Len(inbox') = Len(inbox) + 1 /\ inbox'[Len(inbox) + 1] = m
      /\ \A i \in 1..Len(inbox) : inbox'[i] = inbox[i]
  BY <1>1, AppendProperties
<1>3. Len(inbox) \in Nat /\ DOMAIN inbox = 1..Len(inbox) /\ DOMAIN inbox' = 1..(Len(inbox) + 1)
      /\ \A i \in 1..(Len(inbox) + 1) : i = Len(inbox) + 1 \/ i \in 1..Len(inbox)
  BY <1>1, <1>2
<1> QED BY <1>1, <1>2, <1>3

(* At the start nothing was sent.                                          *)
LEMMA DhcpcStarts == DhcpcInit => DcInv
<1> SUFFICES ASSUME DhcpcInit PROVE DcInv
  OBVIOUS
<1>0. MaxInbox \in Nat /\ Discovers \in Nat /\ Retries \in Nat
  BY DhcpcAssumption
<1>1. DcTypes
  <2>1. NoLease \in DcLease
    BY DEF NoLease, DcLease
  <2>2. inbox \in Seq(DcMessage) /\ Len(inbox) <= MaxInbox
    BY <1>0 DEF DhcpcInit
  <2>3. renewing \in BOOLEAN /\ declined \in BOOLEAN
    BY Zenon DEF DhcpcInit
  <2> QED BY <1>0, <2>1, <2>2, <2>3 DEF DhcpcInit, DcTypes
<1>2. DcReplies /\ DcCounts /\ FailureKeepsAddress
  BY DEF DhcpcInit, DcReplies, DcCounts, FailureKeepsAddress, AskOffer
<1>3. DcDeclined
  BY DEF DhcpcInit, DcDeclined, DcEarly, LockedIsDeclinedLate
<1> QED BY <1>1, <1>2, <1>3 DEF DcInv

LEMMA DhcpcRequestKeeps == ASSUME DcInv, NEW renew \in BOOLEAN, dhcpc_request(renew) PROVE DcInv'
<1> USE DEF dhcpc_request, serverVars
<1>0. DcTypes /\ DcReplies /\ DcCounts /\ DcDeclined /\ FailureKeepsAddress
  BY DEF DcInv
<1>1. DcTypes'
  BY <1>0, DhcpcAssumption DEF DcTypes
<1>2. DcReplies' /\ FailureKeepsAddress'
  BY <1>0 DEF DcReplies, DcGranted, DcOffered, FailureKeepsAddress
<1>3. DcCounts'
  BY <1>0 DEF DcCounts, DcTypes
<1>4. DcEarly' => OneOffer'
  <2>0. requestsMade \in Nat
    BY <1>0 DEF DcTypes
  <2>1. DcEarly' => requestsMade = 0
    <3>1. requestsMade' = requestsMade + 1
      OBVIOUS
    <3>2. DcEarly' => requestsMade' = 1
      BY DEF DcEarly
    <3> HIDE DEF dhcpc_request
    <3> QED BY <2>0, <3>1, <3>2
  <2>2. requestsMade = 0 => inbox = <<>> /\ ~renew /\ \A s \in Servers : heard[s] # AskOffer
    BY <1>0 DEF DcCounts, AskOffer
  <2> QED BY <2>1, <2>2 DEF OneOffer
<1>5. DcDeclined'
  BY <1>0, <1>4 DEF DcDeclined, LockedIsDeclinedLate
<1> QED BY <1>1, <1>2, <1>3, <1>5 DEF DcInv

LEMMA RoundKeeps == ASSUME DcInv, Round PROVE DcInv'
<1>0. DcTypes /\ DcReplies /\ DcCounts /\ DcDeclined /\ FailureKeepsAddress
  BY DEF DcInv
<1>1. /\ dcPc = "round" /\ retries' = 0
      /\ UNCHANGED <<renewing, count, oldaddr, pdhcpc, presult, inbox, heard, granted, declined, requestsMade>>
      /\ \/ renewing /\ dcPc' = "request" /\ UNCHANGED <<ifaddr, dcCause>>
         \/ ~renewing /\ dcPc' = "discover" /\ ifaddr' = 0 /\ UNCHANGED dcCause
         \/ dcPc' = "failed" /\ ifaddr' \in {ifaddr, 0} /\ dcCause' = dcCause \cup {"system error"}
  BY DEF Round, serverVars, Because
<1>2. 0 < Retries /\ 0 \in 0..Retries
  BY DhcpcAssumption
<1>3. DcTypes'
  <2>0. ifaddr \in Nat /\ 0 \in Nat
    BY <1>0 DEF DcTypes
  <2>1. ifaddr' \in Nat
    BY <1>1, <2>0, Zenon
  <2>2. dcPc' \in {"idle", "round", "discover", "offer", "request", "ack", "ok", "failed"}
    BY <1>1
  <2> QED BY <1>0, <1>1, <1>2, <2>1, <2>2 DEF DcTypes
<1>4. DcReplies' /\ FailureKeepsAddress'
  BY <1>0, <1>1 DEF DcReplies, DcGranted, DcOffered, FailureKeepsAddress
<1>5. DcCounts'
  <2>1. requestsMade # 0
    BY <1>0, <1>1 DEF DcCounts
  <2> QED BY <1>1, <1>2, <2>1 DEF DcCounts
<1>6. DcEarly' => OneOffer'
  <2> SUFFICES ASSUME DcEarly' PROVE OneOffer'
    OBVIOUS
  <2>1. DcEarly
    BY <1>1 DEF DcEarly
  <2>2. OneOffer
    BY <1>0, <2>1 DEF DcDeclined
  <2>3. ~renewing
    BY <2>2 DEF OneOffer
  <2>4. dcPc' = "discover"
    BY <1>1, <2>3 DEF DcEarly
  <2> QED BY <1>1, <2>2, <2>4 DEF OneOffer
<1>7. LockedIsDeclinedLate'
  BY <1>0, <1>1 DEF DcDeclined, LockedIsDeclinedLate
<1>8. DcDeclined'
  BY <1>1, <1>6, <1>7 DEF DcDeclined
<1> QED BY <1>3, <1>4, <1>5, <1>8 DEF DcInv

LEMMA DiscoverKeeps == ASSUME DcInv, Discover PROVE DcInv'
<1>0. DcTypes /\ DcReplies /\ DcCounts /\ DcDeclined /\ FailureKeepsAddress
  BY DEF DcInv
<1>1. PICK R \in SUBSET Servers : heard' = [s \in Servers |-> IF s \in R THEN AskOffer ELSE heard[s]]
  BY DEF Discover, dhcpc_sendmsg
<1>2. /\ dcPc = "discover" /\ UNCHANGED <<renewing, retries, oldaddr, pdhcpc, presult, inbox, granted, requestsMade, dcCause, declined>>
      /\ \/ count > 0 /\ count' = count - 1 /\ dcPc' = "offer" /\ UNCHANGED ifaddr
         \/ ~(count > 0) /\ ifaddr' = oldaddr /\ dcPc' = "failed" /\ UNCHANGED count
  BY DEF Discover, dhcpc_sendmsg
<1>3. Discovers \in Nat /\ count \in 0..Discovers
  BY <1>0, DhcpcAssumption DEF DcTypes
<1>4. DcTypes'
  <2>1. heard' \in [Servers -> Int]
    BY <1>0, <1>1 DEF DcTypes, AskOffer
  <2>2. count' \in 0..Discovers
    BY <1>2, <1>3
  <2> QED BY <1>0, <1>2, <2>1, <2>2 DEF DcTypes
<1>5. DcReplies' /\ FailureKeepsAddress'
  BY <1>0, <1>2 DEF DcReplies, DcGranted, DcOffered, FailureKeepsAddress
<1>6. DcCounts'
  BY <1>0, <1>2 DEF DcCounts
<1>7. DcEarly' => OneOffer'
  <2> SUFFICES ASSUME DcEarly' PROVE OneOffer'
    OBVIOUS
  <2>0. /\ requestsMade = 1 /\ "another station" \notin dcCause /\ count' >= Discovers - 1 /\ dcPc' # "failed"
    BY <1>2 DEF DcEarly
  <2>1. DcEarly /\ count = Discovers /\ dcPc' = "offer" /\ count' # Discovers
    <3>1. count > 0 /\ count' = count - 1 /\ dcPc' = "offer"
      BY <1>2, <2>0
    <3>4. count' >= Discovers - 1
      BY <2>0
    <3>2. count = Discovers /\ count' # Discovers
      BY <1>3, <3>1, <3>4
    <3>3. count >= Discovers - 1
      BY <1>3, <3>2
    <3> QED BY <1>2, <2>0, <3>1, <3>2, <3>3 DEF DcEarly
  <2>2. OneOffer
    BY <1>0, <2>1 DEF DcDeclined
  <2> QED BY <1>2, <2>1, <2>2 DEF OneOffer
<1>8. DcDeclined'
  <2>1. LockedIsDeclinedLate'
    <3> SUFFICES ASSUME declined PROVE count' < Discovers - 1 \/ requestsMade > 1 \/ "another station" \in dcCause
      BY <1>2 DEF LockedIsDeclinedLate
    <3>1. count < Discovers - 1 \/ requestsMade > 1 \/ "another station" \in dcCause
      BY <1>0 DEF DcDeclined, LockedIsDeclinedLate
    <3>2. count' \in Int /\ count' <= count
      BY <1>2, <1>3
    <3>3. count < Discovers - 1 => count' < Discovers - 1
      BY <1>3, <3>2
    <3> QED BY <3>1, <3>3
  <2> QED BY <1>2, <1>7, <2>1 DEF DcDeclined
<1> QED BY <1>4, <1>5, <1>6, <1>8 DEF DcInv

LEMMA GetOfferKeeps == ASSUME DcInv, GetOffer PROVE DcInv'
<1>0. DcTypes /\ DcReplies /\ DcCounts /\ DcDeclined /\ FailureKeepsAddress
  BY DEF DcInv
<1>1. dcPc = "offer" /\ UNCHANGED <<renewing, count, retries, oldaddr, heard, granted, declined, requestsMade>>
  BY DEF GetOffer, serverVars
<1>2. requestsMade # 0 /\ ~renewing
  BY <1>0, <1>1 DEF DcCounts
<1>3. ASSUME dcCause \subseteq dcCause' PROVE LockedIsDeclinedLate'
  BY <1>0, <1>1, <1>3 DEF DcDeclined, LockedIsDeclinedLate
<1>4. CASE dcPc' = "failed" /\ Because("system error") /\ UNCHANGED <<inbox, presult, pdhcpc, ifaddr>>
  <2>1. DcTypes'
    BY <1>0, <1>1, <1>4 DEF DcTypes
  <2>2. DcReplies' /\ FailureKeepsAddress' /\ DcCounts'
    BY <1>0, <1>1, <1>2, <1>4 DEF DcReplies, DcGranted, DcOffered, FailureKeepsAddress, DcCounts, Because
  <2>3. DcDeclined'
    BY <1>3, <1>4 DEF DcDeclined, DcEarly, Because
  <2> QED BY <2>1, <2>2, <2>3 DEF DcInv
<1>5. CASE TimedOut /\ dcPc' = "discover" /\ UNCHANGED <<pdhcpc, ifaddr, dcCause>>
  <2>0. UNCHANGED <<inbox, presult>>
    BY <1>5 DEF TimedOut
  <2>1. DcTypes'
    BY <1>0, <1>1, <1>5, <2>0 DEF DcTypes
  <2>2. DcReplies' /\ FailureKeepsAddress' /\ DcCounts'
    BY <1>0, <1>1, <1>2, <1>5, <2>0 DEF DcReplies, DcGranted, DcOffered, FailureKeepsAddress, DcCounts
  <2>3. DcEarly' => OneOffer'
    <3> SUFFICES ASSUME DcEarly' PROVE OneOffer'
      OBVIOUS
    <3>1. DcEarly
      BY <1>1, <1>5 DEF DcEarly
    <3>2. OneOffer
      BY <1>0, <3>1 DEF DcDeclined
    <3> QED BY <1>1, <1>5, <2>0, <3>2 DEF OneOffer
  <2>4. DcDeclined'
    BY <1>3, <1>5, <2>3 DEF DcDeclined
  <2> QED BY <2>1, <2>2, <2>4 DEF DcInv
<1>6. CASE Received /\ dhcpc_parsemsg(Head(inbox)) /\ dcCause' = dcCause
           /\ IF Head(inbox).type = "OFFER"
              THEN pdhcpc' = presult' /\ ifaddr' = presult'.ip /\ dcPc' = "request"
              ELSE dcPc' = "discover" /\ UNCHANGED <<pdhcpc, ifaddr>>
  <2> DEFINE h == inbox[1]
  <2>1. /\ inbox' \in Seq(DcMessage) /\ Len(inbox') <= MaxInbox
        /\ 1 \in DOMAIN inbox /\ Head(inbox) = h /\ h \in DcMessage
        /\ \A i \in DOMAIN inbox' : i \in Nat \ {0} /\ i + 1 \in DOMAIN inbox /\ inbox'[i] = inbox[i + 1]
    BY <1>0, <1>6, ReceivedIsHead
  <2>2. presult' = [ip |-> h.ip, server |-> h.server] /\ presult' \in DcLease
    BY <1>6, <2>1 DEF dhcpc_parsemsg, DcMessage, DcLease
  <2>3. h.type = "OFFER" => DcOffered(h)
    BY <1>0, <2>1 DEF DcReplies
  <2> HIDE DEF h
  <2>4. \A i \in DOMAIN inbox' : /\ inbox'[i].type = "ACK" => DcGranted(inbox'[i])
                                 /\ inbox'[i].type = "OFFER" => DcOffered(inbox'[i])
    BY <1>0, <2>1 DEF DcReplies
  <2>5. \/ h.type = "OFFER" /\ pdhcpc' = presult' /\ ifaddr' = presult'.ip /\ dcPc' = "request"
        \/ h.type # "OFFER" /\ dcPc' = "discover" /\ UNCHANGED <<pdhcpc, ifaddr>>
    BY <1>6, <2>1
  <2>6. DcTypes'
    <3>1. presult'.ip \in Nat
      BY <2>2 DEF DcLease
    <3>2. ifaddr' \in Nat /\ pdhcpc' \in DcLease
      BY <1>0, <2>2, <2>5, <3>1 DEF DcTypes
    <3> QED BY <1>0, <1>1, <2>1, <2>2, <2>5, <3>2 DEF DcTypes
  <2>7. DcReplies' /\ FailureKeepsAddress'
    BY <1>0, <1>1, <2>2, <2>3, <2>4, <2>5 DEF DcReplies, DcGranted, DcOffered, FailureKeepsAddress
  <2>8. DcCounts'
    BY <1>0, <1>1, <1>2, <2>5 DEF DcCounts
  <2>9. DcEarly' => OneOffer'
    <3> SUFFICES ASSUME DcEarly' PROVE OneOffer'
      OBVIOUS
    <3>1. DcEarly
      BY <1>1, <1>6 DEF DcEarly
    <3>2. OneOffer
      BY <1>0, <3>1 DEF DcDeclined
    <3>3. count # Discovers
      BY <1>1, <3>2 DEF OneOffer
    <3>4. \A i \in DOMAIN inbox' : inbox'[i].type = "OFFER" =>
            /\ inbox'[i].server \in Servers /\ heard[inbox'[i].server] # AskOffer
            /\ h.type = "OFFER" => inbox'[i].server # h.server
      <4> SUFFICES ASSUME NEW i \in DOMAIN inbox', inbox'[i].type = "OFFER"
                   PROVE  /\ inbox'[i].server \in Servers /\ heard[inbox'[i].server] # AskOffer
                          /\ h.type = "OFFER" => inbox'[i].server # h.server
        OBVIOUS
      <4>1. i + 1 \in DOMAIN inbox /\ inbox'[i] = inbox[i + 1] /\ i + 1 # 1
        BY <2>1
      <4> QED BY <2>1, <3>2, <4>1 DEF OneOffer, h
    <3>5. \A i, j \in DOMAIN inbox' :
            inbox'[i].type = "OFFER" /\ inbox'[j].type = "OFFER" /\ inbox'[i].server = inbox'[j].server => i = j
      <4> SUFFICES ASSUME NEW i \in DOMAIN inbox', NEW j \in DOMAIN inbox',
                          inbox'[i].type = "OFFER", inbox'[j].type = "OFFER", inbox'[i].server = inbox'[j].server
                   PROVE  i = j
        OBVIOUS
      <4>1. i + 1 = j + 1
        BY <2>1, <3>2 DEF OneOffer
      <4> QED BY <2>1, <4>1
    <3>6. h.type = "OFFER" => h.server \in Servers /\ heard[h.server] # AskOffer
      BY <2>1, <3>2 DEF OneOffer, h
    <3>7. h.type = "OFFER" => pdhcpc'.server = h.server
      BY <2>2, <2>5
    <3> QED BY <1>1, <1>2, <2>5, <3>3, <3>4, <3>5, <3>6, <3>7 DEF OneOffer
  <2>10. DcDeclined'
    <3>1. dcPc' # "idle"
      BY <2>5
    <3> QED BY <1>3, <1>6, <2>9, <3>1 DEF DcDeclined
  <2> QED BY <2>6, <2>7, <2>8, <2>10 DEF DcInv
<1> QED BY <1>4, <1>5, <1>6 DEF GetOffer

LEMMA RequestKeeps == ASSUME DcInv, Request PROVE DcInv'
<1>0. DcTypes /\ DcReplies /\ DcCounts /\ DcDeclined /\ FailureKeepsAddress
  BY DEF DcInv
<1>1. /\ dcPc = "request" /\ dcPc' = "ack" /\ retries' = retries + 1
      /\ pdhcpc' = IF renewing THEN [pdhcpc EXCEPT !.ip = oldaddr] ELSE pdhcpc
      /\ UNCHANGED <<renewing, count, ifaddr, oldaddr, presult, inbox, granted, requestsMade, dcCause, declined>>
  BY DEF Request, dhcpc_sendmsg
<1>2. PICK R \in SUBSET Servers : heard' = [s \in Servers |-> IF s \in R THEN pdhcpc'.ip ELSE heard[s]]
  BY DEF Request, dhcpc_sendmsg
<1>3. pdhcpc' \in DcLease /\ pdhcpc'.ip \in Nat
  BY <1>0, <1>1 DEF DcTypes, DcLease
<1>4. DcTypes'
  <2>1. retries' \in 0..Retries
    BY <1>0, <1>1, DhcpcAssumption DEF DcTypes, DcCounts
  <2>2. heard' \in [Servers -> Int]
    BY <1>0, <1>2, <1>3 DEF DcTypes
  <2> QED BY <1>0, <1>1, <1>3, <2>1, <2>2 DEF DcTypes
<1>5. DcReplies' /\ FailureKeepsAddress'
  BY <1>0, <1>1 DEF DcReplies, DcGranted, DcOffered, FailureKeepsAddress
<1>6. DcCounts'
  BY <1>0, <1>1 DEF DcCounts
<1>7. DcEarly' => OneOffer'
  <2> SUFFICES ASSUME DcEarly' PROVE OneOffer'
    OBVIOUS
  <2>1. DcEarly
    BY <1>1 DEF DcEarly
  <2>2. OneOffer
    BY <1>0, <2>1 DEF DcDeclined
  <2>3. pdhcpc' = pdhcpc
    BY <1>1, <2>2 DEF OneOffer
  <2>4. \A s \in Servers : heard[s] # AskOffer => heard'[s] # AskOffer
    BY <1>2, <1>3 DEF AskOffer
  <2> QED BY <1>1, <2>2, <2>3, <2>4 DEF OneOffer
<1>8. DcDeclined'
  BY <1>0, <1>1, <1>7 DEF DcDeclined, LockedIsDeclinedLate
<1> QED BY <1>4, <1>5, <1>6, <1>8 DEF DcInv

LEMMA GetAckKeeps == ASSUME DcInv, GetAck PROVE DcInv'
<1>0. DcTypes /\ DcReplies /\ DcCounts /\ DcDeclined /\ FailureKeepsAddress
  BY DEF DcInv
<1>1. dcPc = "ack" /\ UNCHANGED <<count, retries, oldaddr, pdhcpc, granted, requestsMade>>
  BY DEF GetAck
<1>2. requestsMade # 0
  BY <1>0, <1>1 DEF DcCounts
<1>3. ASSUME declined' = declined, dcCause' = dcCause PROVE LockedIsDeclinedLate'
  BY <1>0, <1>1, <1>3 DEF DcDeclined, LockedIsDeclinedLate
<1>4. renewing \in BOOLEAN
  BY <1>0 DEF DcTypes
<1>5. NextRequest => /\ renewing' \in BOOLEAN
                     /\ \/ dcPc' = "request" /\ retries < Retries /\ renewing' = renewing
                        \/ dcPc' = "round" /\ renewing' = FALSE
  BY <1>4 DEF NextRequest
<1>6. CASE dcPc' = "failed" /\ ifaddr' = oldaddr /\ UNCHANGED <<inbox, presult, renewing, declined, heard, dcCause>>
  <2>1. DcTypes'
    BY <1>0, <1>1, <1>6 DEF DcTypes
  <2>2. DcReplies' /\ FailureKeepsAddress' /\ DcCounts'
    BY <1>0, <1>1, <1>2, <1>6 DEF DcReplies, DcGranted, DcOffered, FailureKeepsAddress, DcCounts
  <2>3. DcDeclined'
    BY <1>3, <1>6 DEF DcDeclined, DcEarly
  <2> QED BY <2>1, <2>2, <2>3 DEF DcInv
<1>7. CASE TimedOut /\ NextRequest /\ UNCHANGED <<ifaddr, declined, heard, dcCause>>
  <2>0. UNCHANGED <<inbox, presult>>
    BY <1>7 DEF TimedOut
  <2>1. DcTypes'
    BY <1>0, <1>1, <1>5, <1>7, <2>0 DEF DcTypes
  <2>2. DcReplies' /\ FailureKeepsAddress'
    BY <1>0, <1>1, <1>5, <1>7, <2>0 DEF DcReplies, DcGranted, DcOffered, FailureKeepsAddress
  <2>3. DcCounts'
    BY <1>1, <1>2, <1>5, <1>7 DEF DcCounts
  <2>4. DcEarly' => OneOffer'
    <3> SUFFICES ASSUME DcEarly' PROVE OneOffer'
      OBVIOUS
    <3>1. DcEarly
      BY <1>1, <1>7 DEF DcEarly
    <3>2. OneOffer
      BY <1>0, <3>1 DEF DcDeclined
    <3> QED BY <1>1, <1>5, <1>7, <2>0, <3>2 DEF OneOffer
  <2>5. DcDeclined'
    BY <1>3, <1>5, <1>7, <2>4 DEF DcDeclined
  <2> QED BY <2>1, <2>2, <2>3, <2>5 DEF DcInv
<1>8. CASE Received /\ dhcpc_parsemsg(Head(inbox)) /\ UNCHANGED <<ifaddr, dcCause>>
           /\ \/ Head(inbox).type = "ACK" /\ dcPc' = "ok" /\ UNCHANGED <<renewing, declined, heard>>
              \/ Head(inbox).type = "NAK" /\ dcPc' = "round" /\ UNCHANGED <<renewing, declined, heard>>
              \/ Head(inbox).type = "OFFER" /\ dhcpc_sendmsg("DECLINE") /\ NextRequest
  <2> DEFINE h == inbox[1]
  <2>1. /\ inbox' \in Seq(DcMessage) /\ Len(inbox') <= MaxInbox
        /\ 1 \in DOMAIN inbox /\ Head(inbox) = h /\ h \in DcMessage
        /\ \A i \in DOMAIN inbox' : i \in Nat \ {0} /\ i + 1 \in DOMAIN inbox /\ inbox'[i] = inbox[i + 1]
    BY <1>0, <1>8, ReceivedIsHead
  <2>2. presult' = [ip |-> h.ip, server |-> h.server] /\ presult' \in DcLease
    BY <1>8, <2>1 DEF dhcpc_parsemsg, DcMessage, DcLease
  <2>3. h.type = "ACK" => DcGranted(h)
    BY <1>0, <2>1 DEF DcReplies
  <2> HIDE DEF h
  <2>4. \A i \in DOMAIN inbox' : /\ inbox'[i].type = "ACK" => DcGranted(inbox'[i])
                                 /\ inbox'[i].type = "OFFER" => DcOffered(inbox'[i])
    BY <1>0, <2>1 DEF DcReplies
  <2>5. \/ h.type = "ACK" /\ dcPc' = "ok" /\ UNCHANGED <<renewing, declined, heard>>
        \/ h.type = "NAK" /\ dcPc' = "round" /\ UNCHANGED <<renewing, declined, heard>>
        \/ /\ h.type = "OFFER" /\ declined' = (declined \/ presult' = pdhcpc) /\ heard' = heard
           /\ NextRequest
    BY <1>8, <2>1 DEF dhcpc_sendmsg
  <2>6. heard' = heard /\ declined' \in BOOLEAN /\ renewing' \in BOOLEAN
        /\ (dcPc' = "request" => retries < Retries /\ renewing' = renewing) /\ dcPc' \in {"ok", "round", "request"}
    BY <1>0, <1>4, <1>5, <2>5 DEF DcTypes
  <2>7. DcTypes'
    BY <1>0, <1>1, <1>8, <2>1, <2>2, <2>6 DEF DcTypes
  <2>8. DcReplies' /\ FailureKeepsAddress'
    <3>1. dcPc' = "ok" => h.type = "ACK"
      BY <1>5, <2>5
    <3>2. dcPc' = "ok" => DcGranted(presult)'
      BY <1>1, <2>2, <2>3, <3>1 DEF DcGranted
    <3>3. dcPc' \in {"request", "ack"} /\ ~renewing' => DcOffered(pdhcpc)'
      BY <1>0, <1>1, <2>6 DEF DcReplies, DcOffered
    <3>4. (\A i \in DOMAIN inbox : /\ inbox[i].type = "ACK" => DcGranted(inbox[i])
                                   /\ inbox[i].type = "OFFER" => DcOffered(inbox[i]))'
      BY <1>1, <2>4 DEF DcGranted, DcOffered
    <3> QED BY <2>6, <3>2, <3>3, <3>4 DEF DcReplies, FailureKeepsAddress
  <2>9. DcCounts'
    BY <1>1, <1>2, <2>6 DEF DcCounts
  <2>10. ASSUME DcEarly PROVE OneOffer /\ (h.type = "OFFER" => presult' # pdhcpc)
    <3>1. OneOffer
      BY <1>0, <2>10 DEF DcDeclined
    <3>2. h.type = "OFFER" => h.server # pdhcpc.server
      BY <1>1, <2>1, <3>1 DEF OneOffer, h
    <3> QED BY <2>2, <3>1, <3>2
  <2>11. DcEarly' => OneOffer'
    <3> SUFFICES ASSUME DcEarly' PROVE OneOffer'
      OBVIOUS
    <3>1. DcEarly
      BY <1>1, <1>8 DEF DcEarly
    <3>2. OneOffer
      BY <2>10, <3>1
    <3>3. count # Discovers /\ ~renewing
      BY <1>1, <3>2 DEF OneOffer
    <3>4. ~renewing'
      BY <1>5, <2>5, <3>3
    <3>5. \A i \in DOMAIN inbox' : inbox'[i].type = "OFFER" =>
            inbox'[i].server \in Servers /\ heard[inbox'[i].server] # AskOffer /\ inbox'[i].server # pdhcpc.server
      BY <1>1, <2>1, <3>2 DEF OneOffer
    <3>6. \A i, j \in DOMAIN inbox' :
            inbox'[i].type = "OFFER" /\ inbox'[j].type = "OFFER" /\ inbox'[i].server = inbox'[j].server => i = j
      <4> SUFFICES ASSUME NEW i \in DOMAIN inbox', NEW j \in DOMAIN inbox',
                          inbox'[i].type = "OFFER", inbox'[j].type = "OFFER", inbox'[i].server = inbox'[j].server
                   PROVE  i = j
        OBVIOUS
      <4>1. i + 1 = j + 1
        BY <2>1, <3>2 DEF OneOffer
      <4> QED BY <2>1, <4>1
    <3>7. pdhcpc.server \in Servers /\ heard[pdhcpc.server] # AskOffer
      BY <1>1, <3>2 DEF OneOffer
    <3> QED BY <1>1, <2>6, <3>3, <3>4, <3>5, <3>6, <3>7 DEF OneOffer
  <2>12. LockedIsDeclinedLate'
    <3> DEFINE late == count < Discovers - 1 \/ requestsMade > 1 \/ "another station" \in dcCause
    <3>1. late \/ DcEarly
      <4>1. requestsMade \in Nat /\ count \in Int /\ Discovers \in Int
        BY <1>0, DhcpcAssumption DEF DcTypes
      <4>2. requestsMade > 1 \/ requestsMade = 1
        BY <1>2, <4>1
      <4>3. count < Discovers - 1 \/ count >= Discovers - 1
        BY <4>1
      <4> QED BY <1>1, <4>2, <4>3 DEF DcEarly
    <3>2. declined => late
      BY <1>0 DEF DcDeclined, LockedIsDeclinedLate
    <3>3. declined' => declined \/ (h.type = "OFFER" /\ presult' = pdhcpc)
      BY <2>5
    <3>4. declined' => late
      BY <2>10, <3>1, <3>2, <3>3
    <3> QED BY <1>1, <1>8, <3>4 DEF LockedIsDeclinedLate
  <2>13. DcDeclined'
    BY <2>6, <2>11, <2>12 DEF DcDeclined
  <2> QED BY <2>7, <2>8, <2>9, <2>13 DEF DcInv
<1> QED BY <1>6, <1>7, <1>8 DEF GetAck

LEMMA ReturnKeeps == ASSUME DcInv, Return PROVE DcInv'
<1>0. DcTypes /\ DcReplies /\ DcCounts /\ DcDeclined /\ FailureKeepsAddress
  BY DEF DcInv
<1>1. /\ dcPc \in {"ok", "failed"} /\ dcPc' = "idle"
      /\ ifaddr' = IF dcPc = "ok" THEN presult.ip ELSE IF renewing THEN 0 ELSE ifaddr
      /\ renewing' = FALSE /\ count' = 0 /\ retries' = 0 /\ oldaddr' = 0
      /\ presult' = NoLease /\ declined' = FALSE /\ dcCause' = {}
      /\ UNCHANGED <<pdhcpc, inbox, heard, granted, requestsMade>>
  BY DEF Return, serverVars
<1>2. requestsMade # 0
  BY <1>0, <1>1 DEF DcCounts
<1>3. DcTypes'
  <2>1. ifaddr' \in Nat
    BY <1>0, <1>1 DEF DcTypes, DcLease
  <2>2. presult' \in DcLease
    BY <1>1 DEF NoLease, DcLease
  <2>3. renewing' \in BOOLEAN /\ declined' \in BOOLEAN
    BY <1>1, Zenon
  <2>4. 0 \in 0..Discovers /\ 0 \in 0..Retries
    BY DhcpcAssumption
  <2> QED BY <1>0, <1>1, <2>1, <2>2, <2>3, <2>4 DEF DcTypes
<1>4. DcReplies' /\ FailureKeepsAddress' /\ DcCounts'
  BY <1>0, <1>1, <1>2 DEF DcReplies, DcGranted, DcOffered, FailureKeepsAddress, DcCounts
<1>5. DcDeclined'
  BY <1>1 DEF DcDeclined, DcEarly, LockedIsDeclinedLate
<1> QED BY <1>3, <1>4, <1>5 DEF DcInv

(* A reply that arrives: to be shown is what it says.                      *)
LEMMA ArrivalKeeps ==
  ASSUME DcInv, NEW m \in DcMessage, Arrives(m), granted \subseteq granted', granted' \subseteq Servers,
         dcCause \subseteq dcCause',
         heard' \in [Servers -> Int], \A s \in Servers : heard'[s] = heard[s] \/ heard'[s] = 0,
         m.type = "ACK" => m.ip = ForeignIp \/ (m.server \in granted' /\ m.ip = OfferedIp[m.server]),
         m.type = "OFFER" => DcOffered(m), requestsMade # 0,
         m.type = "OFFER" => \/ "another station" \in dcCause'
                             \/ m.server \in Servers /\ heard[m.server] = AskOffer /\ heard'[m.server] = 0,
         UNCHANGED <<dcPc, renewing, count, retries, ifaddr, oldaddr, pdhcpc, presult, declined, requestsMade>>
  PROVE  DcInv'
<1>0. DcTypes /\ DcReplies /\ DcCounts /\ DcDeclined /\ FailureKeepsAddress
  BY DEF DcInv
<1>1. /\ inbox' \in Seq(DcMessage) /\ Len(inbox') <= MaxInbox
      /\ \A i \in DOMAIN inbox' : \/ i \in DOMAIN inbox /\ inbox'[i] = inbox[i]
                                  \/ i = Len(inbox) + 1 /\ i \notin DOMAIN inbox /\ inbox'[i] = m
  BY <1>0, ArrivesLast
<1>2. DcTypes'
  BY <1>0, <1>1 DEF DcTypes
<1>3. DcReplies'
  <2>1. \A l : DcGranted(l) => l.ip = ForeignIp \/ (l.server \in granted' /\ l.ip = OfferedIp[l.server])
    BY DEF DcGranted
  <2>2. dcPc = "ok" => DcGranted(presult)
    BY <1>0 DEF DcReplies
  <2>3. dcPc' = "ok" => DcGranted(presult)'
    BY <2>1, <2>2 DEF DcGranted
  <2>4. dcPc' \in {"request", "ack"} /\ ~renewing' => DcOffered(pdhcpc)'
    BY <1>0 DEF DcReplies, DcOffered
  <2>5. ASSUME NEW i \in DOMAIN inbox'
        PROVE  /\ inbox'[i].type = "ACK" => DcGranted(inbox[i])'
               /\ inbox'[i].type = "OFFER" => DcOffered(inbox[i])'
    <3>1. CASE inbox'[i] = m
      BY <3>1 DEF DcGranted, DcOffered
    <3>2. CASE i \in DOMAIN inbox /\ inbox'[i] = inbox[i]
      <4>1. /\ inbox[i].type = "ACK" => DcGranted(inbox[i])
            /\ inbox[i].type = "OFFER" => DcOffered(inbox[i])
        BY <1>0, <3>2 DEF DcReplies
      <4> QED BY <3>2, <4>1 DEF DcGranted, DcOffered
    <3> QED BY <1>1, <3>1, <3>2
  <2> QED BY <2>3, <2>4, <2>5 DEF DcReplies
<1>4. DcCounts' /\ FailureKeepsAddress'
  BY <1>0 DEF DcCounts, FailureKeepsAddress
<1>5. DcEarly' => OneOffer'
  <2> SUFFICES ASSUME DcEarly' PROVE OneOffer'
    OBVIOUS
  <2>1. DcEarly /\ "another station" \notin dcCause'
    BY DEF DcEarly
  <2>2. OneOffer
    BY <1>0, <2>1 DEF DcDeclined
  <2>0. AskOffer # 0
    BY AskIsNone
  <2>3. \A s \in Servers : heard[s] # AskOffer => heard'[s] # AskOffer
    BY <2>0, Zenon
  <2>4. m.type = "OFFER" => /\ m.server \in Servers /\ heard[m.server] = AskOffer /\ heard'[m.server] # AskOffer
    BY <2>0, <2>1, Zenon
  <2>5. \A i \in DOMAIN inbox' : inbox'[i].type = "OFFER" =>
          /\ inbox'[i].server \in Servers /\ heard'[inbox'[i].server] # AskOffer
          /\ dcPc \in {"request", "ack"} => inbox'[i].server # pdhcpc.server
    BY <1>1, <2>2, <2>3, <2>4 DEF OneOffer
  <2>6. \A i, j \in DOMAIN inbox' :
          inbox'[i].type = "OFFER" /\ inbox'[j].type = "OFFER" /\ inbox'[i].server = inbox'[j].server => i = j
    <3>1. \A i \in DOMAIN inbox : inbox[i].type = "OFFER" /\ m.type = "OFFER" => inbox[i].server # m.server
      BY <2>2, <2>4 DEF OneOffer
    <3>2. \A i, j \in DOMAIN inbox :
            inbox[i].type = "OFFER" /\ inbox[j].type = "OFFER" /\ inbox[i].server = inbox[j].server => i = j
      BY <2>2 DEF OneOffer
    <3> QED BY <1>1, <3>1, <3>2, ZenonT(60)
  <2>7. dcPc \in {"request", "ack"} => pdhcpc.server \in Servers /\ heard'[pdhcpc.server] # AskOffer
    BY <2>2, <2>3 DEF OneOffer
  <2>8. count = Discovers => /\ dcPc \in {"round", "discover"}
                             /\ \A s \in Servers : heard'[s] # AskOffer
                             /\ \A i \in DOMAIN inbox' : inbox'[i].type # "OFFER"
    BY <1>1, <2>2, <2>3, <2>4 DEF OneOffer
  <2>9. ~renewing
    BY <2>2 DEF OneOffer
  <2> QED BY <2>5, <2>6, <2>7, <2>8, <2>9 DEF OneOffer
<1>6. DcDeclined'
  BY <1>0, <1>5 DEF DcDeclined, LockedIsDeclinedLate
<1> QED BY <1>2, <1>3, <1>4, <1>6 DEF DcInv

LEMMA RepliesKeep ==
  ASSUME DcInv, \/ \E s \in Servers : \/ ServerOffers(s)
                                      \/ \E type \in {"ACK", "NAK"} : ServerDecides(s, type)
                \/ \E type \in {"OFFER", "ACK"} : ForeignReply(type)
  PROVE  DcInv'
<1>0. DcTypes /\ DcCounts
  BY DEF DcInv
<1>1. heard \in [Servers -> Int] /\ granted \subseteq Servers
  BY <1>0 DEF DcTypes
<1>2. /\ OfferedIp \in [Servers -> Nat] /\ ForeignIp \in Nat
      /\ \A s \in Servers : OfferedIp[s] \in Nat /\ OfferedIp[s] # 0
  BY DhcpcAssumption
<1>3. ASSUME NEW s \in Servers, ServerOffers(s) PROVE DcInv'
  <2> DEFINE m == [type |-> "OFFER", ip |-> OfferedIp[s], server |-> s]
  <2>1. m \in DcMessage /\ m.type = "OFFER" /\ m.ip = OfferedIp[s] /\ m.server = s
    BY <1>2 DEF DcMessage
  <2>2. /\ Arrives(m) /\ heard[s] = AskOffer /\ heard' = [heard EXCEPT ![s] = 0]
        /\ UNCHANGED <<dcPc, renewing, count, retries, ifaddr, oldaddr, pdhcpc, presult, granted, declined, requestsMade, dcCause>>
    BY <1>3 DEF ServerOffers
  <2> HIDE DEF m
  <2>3. heard' \in [Servers -> Int] /\ heard'[s] = 0 /\ \A t \in Servers : heard'[t] = heard[t] \/ heard'[t] = 0
    BY <1>1, <2>2
  <2>4. requestsMade # 0
    BY <1>0, <2>2, AskIsNone DEF DcCounts
  <2>5. DcOffered(m)
    BY <2>1 DEF DcOffered
  <2> QED BY <1>1, <2>1, <2>2, <2>3, <2>4, <2>5, ArrivalKeeps
<1>4. ASSUME NEW s \in Servers, NEW type \in {"ACK", "NAK"}, ServerDecides(s, type) PROVE DcInv'
  <2>0. PICK m : m = [type |-> type, ip |-> IF type = "ACK" THEN heard[s] ELSE 0, server |-> s]
    OBVIOUS
  <2>1. /\ Arrives(m) /\ heard[s] \notin {0, AskOffer} /\ heard' = [heard EXCEPT ![s] = 0]
        /\ type = "ACK" => heard[s] = OfferedIp[s]
        /\ granted' = IF type = "ACK" THEN granted \cup {s} ELSE granted
        /\ UNCHANGED <<dcPc, renewing, count, retries, ifaddr, oldaddr, pdhcpc, presult, declined, requestsMade, dcCause>>
    BY <1>4, <2>0 DEF ServerDecides
  <2>2. m \in DcMessage /\ m.type = type /\ m.type # "OFFER" /\ m.server = s /\ (type = "ACK" => m.ip = OfferedIp[s])
    BY <1>2, <2>0, <2>1 DEF DcMessage
  <2>3. heard' \in [Servers -> Int] /\ \A t \in Servers : heard'[t] = heard[t] \/ heard'[t] = 0
    BY <1>1, <2>1
  <2>4. requestsMade # 0
    <3> SUFFICES ASSUME requestsMade = 0 PROVE FALSE
      OBVIOUS
    <3> QED BY <1>0, <2>1 DEF DcCounts
  <2>5. granted \subseteq granted' /\ granted' \subseteq Servers /\ (type = "ACK" => s \in granted')
    BY <1>1, <2>1
  <2>6. m.type = "ACK" => m.ip = ForeignIp \/ (m.server \in granted' /\ m.ip = OfferedIp[m.server])
    BY <2>2, <2>5
  <2> QED BY <2>1, <2>2, <2>3, <2>4, <2>5, <2>6, ArrivalKeeps
<1>5. ASSUME NEW type \in {"OFFER", "ACK"}, ForeignReply(type) PROVE DcInv'
  <2> DEFINE m == [type |-> type, ip |-> ForeignIp, server |-> NoServer]
  <2>1. m \in DcMessage /\ m.ip = ForeignIp
    BY <1>2 DEF DcMessage
  <2>2. /\ Arrives(m) /\ dcPc \in {"offer", "ack"} /\ dcCause' = dcCause \cup {"another station"}
        /\ UNCHANGED <<dcPc, renewing, count, retries, ifaddr, oldaddr, pdhcpc, presult, heard, granted, declined, requestsMade>>
    BY <1>5 DEF ForeignReply, serverVars, Because
  <2>4. requestsMade # 0
    BY <1>0, <2>2 DEF DcCounts
  <2>5. DcOffered(m)
    BY <2>1 DEF DcOffered
  <2> HIDE DEF m
  <2> QED BY <1>1, <2>1, <2>2, <2>4, <2>5, ArrivalKeeps
<1> QED BY <1>3, <1>4, <1>5

(* dhcpc_request with any number of servers whose answers are late or      *)
(* lost: a lease that is taken was granted by the server it names, a       *)
(* REQUEST names an OFFER that was made, the locked OFFER is declined only *)
(* where DISCOVER was sent again, and a request that fails leaves the      *)
(* interface its address, but for replies to other stations and system     *)
(* errors.                                                                 *)
THEOREM DhcpcIsSound == DhcpcSpec => []DhcpcSound
<1>1. DcInv /\ [DhcpcNext]_dhcpcVars => DcInv'
  <2> SUFFICES ASSUME DcInv, [DhcpcNext]_dhcpcVars PROVE DcInv'
    OBVIOUS
  <2>1. CASE UNCHANGED dhcpcVars
    <3>1. DcTypes' /\ DcReplies' /\ DcCounts' /\ FailureKeepsAddress'
      BY <2>1 DEF dhcpcVars, DcInv, DcTypes, DcReplies, DcGranted, DcOffered, DcCounts, FailureKeepsAddress
    <3>2. DcEarly' = DcEarly /\ LockedIsDeclinedLate' = LockedIsDeclinedLate
      BY <2>1 DEF dhcpcVars, DcEarly, LockedIsDeclinedLate
    <3>3. OneOffer' = OneOffer
      BY <2>1 DEF dhcpcVars, OneOffer
    <3>4. DcDeclined'
      BY <2>1, <3>2, <3>3 DEF DcInv, DcDeclined, dhcpcVars
    <3> QED BY <3>1, <3>4 DEF DcInv
  <2>2. CASE DhcpcNext
    BY <2>2, DhcpcRequestKeeps, RoundKeeps, DiscoverKeeps, GetOfferKeeps, RequestKeeps, GetAckKeeps,
       ReturnKeeps, RepliesKeep DEF DhcpcNext, DhcpcStep
  <2> QED BY <2>1, <2>2
<1>2. DcInv => DhcpcSound
  <2> SUFFICES ASSUME DcInv PROVE DhcpcSound
    OBVIOUS
  <2>1. DhcpcTypeOK
    BY DEF DcInv, DcTypes, DcLease, DhcpcTypeOK
  <2>2. LeaseIsGranted /\ RequestNamesOffer
    BY DEF DcInv, DcReplies, DcGranted, DcOffered, LeaseIsGranted, RequestNamesOffer
  <2> QED BY <2>1, <2>2 DEF DcInv, DcDeclined, DhcpcSound
<1> QED BY <1>1, <1>2, DhcpcStarts, PTL DEF DhcpcSpec

-----------------------------------------------------------------------------
(***************************************************************************)
(* The client of the network module.  Until a client is stopped or a       *)
(* renewal or its settings fail there is one node at most, its block has   *)
(* the port, and the only timeout is its own.                              *)
(***************************************************************************)

NcIps == LeaseIps \cup {0}
NcConf == [ip : NcIps, mask : NcIps, router : NcIps, route : NcIps]
NcNode == [handle : Blocks, timer : Nat]

NcTypes ==
  /\ blocks \subseteq Blocks /\ \A a, b \in blocks : a = b
  /\ nodes \in Seq(NcNode)
  /\ timersMade \in Nat /\ timers \subseteq [id : Nat, var : HandleVars]
  /\ handle \in [HandleVars -> Int]
  /\ conf \in NcConf
  /\ quit \in BOOLEAN /\ ncFault \in BOOLEAN

NcTimers ==
  /\ \A i \in DOMAIN nodes : nodes[i].timer <= timersMade
  /\ \A t \in timers : t.id \in 1..timersMade

\* The name servers are the ones set last, two at most.
NcDns == dns = asked /\ dns \in Seq(Nat) /\ Len(dns) <= 2

NcCauses ==
  /\ \A v \in HandleVars : handle[v] = Unset => "variable gone" \in ncCause
  /\ \A i \in DOMAIN nodes : nodes[i].handle \in blocks \/ "stopped" \in ncCause
  /\ RenewFaultHasCause

Calm == ncCause \cap {"renewal failed", "stopped", "settings failed"} = {}
NcCalm ==
  Calm => /\ ~quit
          /\ \A i, j \in DOMAIN nodes : i = j
          /\ \A t, u \in timers : t = u
          /\ \A t \in timers : \E i \in DOMAIN nodes : t.id = nodes[i].timer

NcStill ==
  ncCause = {} =>
    /\ \A i \in DOMAIN nodes : \E t \in timers : t.id = nodes[i].timer /\ handle[t.var] = nodes[i].handle
    /\ \A b \in blocks : \E i \in DOMAIN nodes : nodes[i].handle = b

NcInv == NcTypes /\ NcTimers /\ NcDns /\ NcCauses /\ NcCalm /\ NcStill

(* What the parts about timeouts say of a step that touches none of it.    *)
LEMMA NcKept ==
  ASSUME NcCalm, NcStill, UNCHANGED <<blocks, handle, timers, nodes, quit, ncCause>>
  PROVE  NcCalm' /\ NcStill'
<1>1. /\ blocks' = blocks /\ handle' = handle /\ timers' = timers
      /\ nodes' = nodes /\ quit' = quit /\ ncCause' = ncCause
  OBVIOUS
<1>2. NcCalm'
  <2>1. Calm' = Calm
    BY <1>1, Zenon DEF Calm
  <2> SUFFICES ASSUME Calm
               PROVE  /\ ~quit'
                      /\ \A i, j \in DOMAIN nodes' : i = j
                      /\ \A t, u \in timers' : t = u
                      /\ \A t \in timers' : \E i \in DOMAIN nodes' : t.id = nodes'[i].timer
    BY <2>1, Zenon DEF NcCalm
  <2>2. /\ ~quit
        /\ \A i, j \in DOMAIN nodes : i = j
        /\ \A t, u \in timers : t = u
        /\ \A t \in timers : \E i \in DOMAIN nodes : t.id = nodes[i].timer
    BY Zenon DEF NcCalm
  <2>3. ~quit' /\ \A t, u \in timers' : t = u
    BY <1>1, <2>2
  <2>4. \A i, j \in DOMAIN nodes' : i = j
    BY <1>1, <2>2
  <2>5. \A t \in timers' : \E i \in DOMAIN nodes' : t.id = nodes'[i].timer
    BY <1>1, <2>2
  <2> QED BY <2>3, <2>4, <2>5
<1>3. NcStill'
  <2> SUFFICES ASSUME ncCause = {}
               PROVE  /\ \A i \in DOMAIN nodes' : \E t \in timers' :
                            t.id = nodes'[i].timer /\ handle'[t.var] = nodes'[i].handle
                      /\ \A b \in blocks' : \E i \in DOMAIN nodes' : nodes'[i].handle = b
    BY <1>1, Zenon DEF NcStill
  <2>1. /\ \A i \in DOMAIN nodes : \E t \in timers :
             t.id = nodes[i].timer /\ handle[t.var] = nodes[i].handle
        /\ \A b \in blocks : \E i \in DOMAIN nodes : nodes[i].handle = b
    BY Zenon DEF NcStill
  <2> QED BY <1>1, <2>1, ZenonT(60)
<1> QED BY <1>2, <1>3

(* A setter sets one field.                                                *)
LEMMA SettersKeep ==
  ASSUME NEW c \in NcConf, NEW a \in NcIps
  PROVE  /\ set_ipv4addr(c, a) \in NcConf /\ set_ipv4netmask(c, a) \in NcConf
         /\ set_dripv4addr(c, a) \in NcConf /\ set_defaultroute(c, a) \in NcConf
         /\ del_allroutes_interface(c) \in NcConf
<1>1. 0 \in NcIps
  BY DEF NcIps
<1> QED BY <1>1 DEF NcConf, set_ipv4addr, set_ipv4netmask, set_dripv4addr, set_defaultroute, del_allroutes_interface

LEMMA SettingsKeep ==
  ASSUME NEW c \in NcConf, NEW a \in LeaseIps, NEW k
  PROVE  Settings(c, a, k) \in NcConf
<1> DEFINE s1 == IF k >= 1 THEN set_ipv4addr(c, a) ELSE c
           s2 == IF k >= 2 THEN set_ipv4netmask(s1, a) ELSE s1
           s3 == IF k >= 3 THEN set_dripv4addr(s2, a) ELSE s2
           s4 == IF k >= 4 THEN set_defaultroute(s3, a) ELSE s3
<1>0. a \in NcIps
  BY DEF NcIps
<1> HIDE DEF NcConf
<1>1. s1 \in NcConf
  BY <1>0, SettersKeep
<1> HIDE DEF s1
<1>2. s2 \in NcConf
  BY <1>0, <1>1, SettersKeep
<1> HIDE DEF s2
<1>3. s3 \in NcConf
  BY <1>0, <1>2, SettersKeep
<1> HIDE DEF s3
<1>4. s4 \in NcConf
  BY <1>0, <1>3, SettersKeep
<1> QED BY <1>4 DEF Settings, s1, s2, s3, s4

(* A lease sets the first server, in place of those that were there.       *)
LEMMA LeaseKeeps ==
  ASSUME NcInv, NEW a \in LeaseIps, NEW k, LeaseSettings(a, k)
  PROVE  conf' \in NcConf /\ NcDns'
<1>1. conf \in NcConf /\ NcDns /\ a \in Nat
  BY DhcpClientAssumption DEF NcInv, NcTypes
<1>2. conf' \in NcConf
  BY <1>1, SettingsKeep DEF LeaseSettings
<1>3. dns' = (IF k >= 4 THEN <<a>> ELSE dns) /\ asked' = (IF k >= 4 THEN <<a>> ELSE asked)
  BY DEF LeaseSettings, set_ipv4dnsaddr, dns_add_nameserver
<1>4. CASE k >= 4
  <2>1. dns' = <<a>> /\ asked' = <<a>>
    BY <1>3, <1>4
  <2> QED BY <1>1, <1>2, <2>1 DEF NcDns
<1>5. CASE ~(k >= 4)
  <2>1. dns' = dns /\ asked' = asked
    BY <1>3, <1>5
  <2> QED BY <1>1, <1>2, <2>1 DEF NcDns
<1> QED BY <1>2, <1>4, <1>5

(* A start that fails, or that has no timeout yet.                         *)
LEMMA NewNodeIs ==
  ASSUME NcTypes, NEW h \in Blocks
  PROVE  /\ NewNode(h) \in Seq(NcNode) /\ Len(NewNode(h)) = Len(nodes) + 1
         /\ NewNode(h)[Len(nodes) + 1] = [handle |-> h, timer |-> 0]
         /\ \A i \in DOMAIN nodes : i \in DOMAIN NewNode(h) /\ NewNode(h)[i] = nodes[i]
         /\ DOMAIN NewNode(h) = DOMAIN nodes \cup {Len(nodes) + 1} /\ Len(nodes) + 1 \notin DOMAIN nodes
<1> DEFINE e == [handle |-> h, timer |-> 0]
<1>1. e \in NcNode /\ nodes \in Seq(NcNode) /\ NewNode(h) = Append(nodes, e)
  BY DEF NcNode, NcTypes, NewNode
<1> HIDE DEF e, NcNode
<1>2. /\ NewNode(h) \in Seq(NcNode) /\ Len(NewNode(h)) = Len(nodes) + 1 /\ NewNode(h)[Len(nodes) + 1] = e
      /\ \A i \in 1..Len(nodes) : NewNode(h)[i] = nodes[i]
  BY <1>1, AppendProperties
<1>3. Len(nodes) \in Nat /\ DOMAIN nodes = 1..Len(nodes) /\ DOMAIN NewNode(h) = 1..(Len(nodes) + 1)
  BY <1>1, <1>2
<1>4. 1..(Len(nodes) + 1) = 1..Len(nodes) \cup {Len(nodes) + 1} /\ Len(nodes) + 1 \notin 1..Len(nodes)
  BY <1>3
<1> QED BY <1>2, <1>3, <1>4 DEF e

(* A node with another timeout.                                            *)
LEMMA TimerIs ==
  ASSUME NEW ns \in Seq(NcNode), NEW i \in DOMAIN ns, NEW n \in Nat
  PROVE  LET r == [ns EXCEPT ![i].timer = n] IN
         /\ r \in Seq(NcNode) /\ DOMAIN r = DOMAIN ns
         /\ \A j \in DOMAIN ns : r[j].handle = ns[j].handle /\ r[j].timer = IF j = i THEN n ELSE ns[j].timer
<1> DEFINE e == [ns[i] EXCEPT !.timer = n]
           r == [ns EXCEPT ![i] = e]
<1>1. [ns EXCEPT ![i].timer = n] = r
  OBVIOUS
<1>2. DOMAIN ns = 1..Len(ns) /\ \A j \in DOMAIN ns : ns[j] \in NcNode
  BY ElementOfSeq, LenProperties
<1>3. e \in NcNode /\ e.handle = ns[i].handle /\ e.timer = n
  BY <1>2 DEF NcNode
<1> HIDE DEF e, NcNode
<1>4. r \in Seq(NcNode) /\ Len(r) = Len(ns) /\ \A j \in 1..Len(ns) : r[j] = IF j = i THEN e ELSE ns[j]
  BY <1>2, <1>3, ExceptSeq
<1>5. DOMAIN r = DOMAIN ns
  BY <1>2, <1>4, LenProperties
<1> HIDE DEF r
<1>6. \A j \in DOMAIN ns : r[j].handle = ns[j].handle /\ r[j].timer = IF j = i THEN n ELSE ns[j].timer
  BY <1>2, <1>3, <1>4
<1> QED BY <1>1, <1>4, <1>5, <1>6

LEMMA ClientStarts == DhcpClientInit => NcInv
<1> SUFFICES ASSUME DhcpClientInit PROVE NcInv
  OBVIOUS
<1>1. NcTypes
  <2>1. conf \in NcConf
    BY DEF DhcpClientInit, NoConf, NcConf, NcIps
  <2>2. quit \in BOOLEAN /\ ncFault \in BOOLEAN
    BY Zenon DEF DhcpClientInit
  <2> QED BY <2>1, <2>2 DEF DhcpClientInit, NcTypes
<1>2. NcTimers /\ NcDns /\ NcCalm /\ NcStill
  BY DEF DhcpClientInit, NcTimers, NcDns, NcCalm, NcStill
<1>3. NcCauses
  BY DEF DhcpClientInit, NcCauses, RenewFaultHasCause, Unset
<1> QED BY <1>1, <1>2, <1>3 DEF NcInv

(* The settings of a configuration or of a server.                         *)
LEMMA ConfigKeeps ==
  ASSUME NcInv, NEW a \in LeaseIps, NEW k \in Int, NEW n, os_set_network_config(a, k, n) \/ os_dhcp_server_start(a, k)
  PROVE  NcInv'
<1>0. NcTypes /\ NcTimers /\ NcDns /\ NcCauses /\ NcCalm /\ NcStill
  BY DEF NcInv
<1>1. UNCHANGED <<blocks, nodes, timers, timersMade, handle, quit, ncFault, ncCause>>
  BY DEF os_set_network_config, os_dhcp_server_start
<1>2. conf \in NcConf /\ a \in Nat /\ a + 1 \in Nat
  BY <1>0, DhcpClientAssumption DEF NcTypes
<1>3. conf' \in NcConf /\ NcDns'
  <2>1. CASE os_set_network_config(a, k, n)
    <3>1. conf' \in NcConf
      BY <1>2, <2>1, SettingsKeep DEF os_set_network_config
    <3>2. \/ dns' = dns /\ asked' = asked
          \/ dns' = <<a>> /\ asked' = <<a>>
          \/ dns' = Append(<<a>>, a + 1) /\ asked' = <<a, a + 1>>
      BY <2>1 DEF os_set_network_config, set_ipv4dnsaddr, dns_add_nameserver
    <3>3. Append(<<a>>, a + 1) = <<a, a + 1>>
      <4>1. <<a>> \in Seq(Nat) /\ <<a, a + 1>> \in Seq(Nat)
        BY <1>2
      <4>2. Append(<<a>>, a + 1) \in Seq(Nat) /\ Len(Append(<<a>>, a + 1)) = 2
            /\ Append(<<a>>, a + 1)[1] = a /\ Append(<<a>>, a + 1)[2] = a + 1
        BY <1>2, <4>1, AppendProperties
      <4> DEFINE s == Append(<<a>>, a + 1)
                 t == <<a, a + 1>>
      <4>3. Len(t) = 2 /\ t[1] = a /\ t[2] = a + 1
        OBVIOUS
      <4>4. s \in Seq(Nat) /\ t \in Seq(Nat) /\ Len(s) = Len(t) /\ Len(s) = 2 /\ s[1] = t[1] /\ s[2] = t[2]
        BY <4>1, <4>2, <4>3
      <4> HIDE DEF s, t
      <4>5. \A i \in 1..Len(s) : s[i] = t[i]
        BY <4>4
      <4>6. s = t
        BY <4>4, <4>5, SeqEqual
      <4> QED BY <4>6 DEF s, t
    <3>4. /\ <<a>> \in Seq(Nat) /\ Len(<<a>>) <= 2
          /\ <<a, a + 1>> \in Seq(Nat) /\ Len(<<a, a + 1>>) <= 2
      BY <1>2
    <3>5. \/ dns' = dns /\ asked' = asked
          \/ asked' = dns' /\ dns' \in Seq(Nat) /\ Len(dns') <= 2
      BY <3>2, <3>3, <3>4, Zenon
    <3> QED BY <1>0, <3>1, <3>5 DEF NcDns
  <2>2. CASE os_dhcp_server_start(a, k)
    <3> DEFINE c == Settings(del_allroutes_interface(conf), a, IF k = 4 THEN 3 ELSE k - 1)
    <3>1. conf' = (IF k = 4 THEN set_defaultroute(c, 0) ELSE c) /\ UNCHANGED <<dns, asked>>
      BY <2>2 DEF os_dhcp_server_start
    <3>2. c \in NcConf
      <4>1. del_allroutes_interface(conf) \in NcConf
        BY <1>2, SettersKeep DEF NcIps
      <4> QED BY <4>1, SettingsKeep
    <3>3. set_defaultroute(c, 0) \in NcConf
      BY <3>2, SettersKeep DEF NcIps
    <3> HIDE DEF c
    <3>4. conf' \in NcConf
      BY <3>1, <3>2, <3>3
    <3> QED BY <1>0, <3>1, <3>4 DEF NcDns
  <2> QED BY <2>1, <2>2
<1>4. NcTypes' /\ NcTimers'
  BY <1>0, <1>1, <1>3 DEF NcTypes, NcTimers
<1>5. NcCauses' /\ NcCalm' /\ NcStill'
  BY <1>0, <1>1 DEF NcCauses, RenewFaultHasCause, NcCalm, Calm, NcStill
<1> QED BY <1>3, <1>4, <1>5 DEF NcInv

(* A variable goes, or a client is stopped.                                *)
LEMMA GoneKeeps ==
  ASSUME NcInv, NEW v \in HandleVars, VariableGone(v)
  PROVE  NcInv'
<1>0. NcTypes /\ NcTimers /\ NcDns /\ NcCauses /\ NcCalm /\ NcStill
  BY DEF NcInv
<1>1. /\ handle' = [handle EXCEPT ![v] = Unset] /\ ncCause' = ncCause \cup {"variable gone"}
      /\ UNCHANGED <<blocks, nodes, timers, timersMade, quit, conf, dns, asked, ncFault>>
  BY DEF VariableGone, Note, ConfVars
<1>2. NcTypes' /\ NcTimers' /\ NcDns'
  <2>1. Unset \in Int
    BY DEF Unset
  <2>2. handle' \in [HandleVars -> Int]
    BY <1>0, <1>1, <2>1 DEF NcTypes
  <2> QED BY <1>0, <1>1, <2>2 DEF NcTypes, NcTimers, NcDns
<1>3. NcCauses' /\ NcStill'
  BY <1>0, <1>1 DEF NcCauses, RenewFaultHasCause, NcStill
<1>4. NcCalm'
  BY <1>0, <1>1 DEF NcCalm, Calm
<1> QED BY <1>2, <1>3, <1>4 DEF NcInv

LEMMA StopKeeps ==
  ASSUME NcInv, NEW v \in HandleVars, os_dhcp_client_stop(v)
  PROVE  NcInv'
<1>0. NcTypes /\ NcTimers /\ NcDns /\ NcCauses /\ NcCalm /\ NcStill
  BY DEF NcInv
<1>1. /\ blocks' = blocks \ {handle[v]} /\ ncCause' = ncCause \cup {"stopped"} /\ ncFault' = (handle[v] \notin blocks)
      /\ UNCHANGED <<nodes, timers, timersMade, handle, quit, conf, dns, asked>>
  BY DEF os_dhcp_client_stop, Note, ConfVars
<1>2. ncFault' \in BOOLEAN
  BY <1>1, Zenon
<1>3. NcTypes' /\ NcTimers' /\ NcDns'
  BY <1>0, <1>1, <1>2 DEF NcTypes, NcTimers, NcDns
<1>4. NcCauses' /\ NcStill' /\ NcCalm'
  BY <1>0, <1>1 DEF NcCauses, RenewFaultHasCause, NcStill, NcCalm, Calm
<1> QED BY <1>3, <1>4 DEF NcInv

(* A client is started, or the start fails on the way.                     *)
LEMMA StartKeeps ==
  ASSUME NcInv, NEW v \in HandleVars, NEW h \in Blocks, os_dhcp_client_start(v, h)
  PROVE  NcInv'
<1>0. NcTypes /\ NcTimers /\ NcDns /\ NcCauses /\ NcCalm /\ NcStill
  BY DEF NcInv
<1>1. UNCHANGED <<quit, ncFault>>
  BY DEF os_dhcp_client_start
<1>2. h \in Int /\ h # Unset /\ 0 \in Int /\ 0 # Unset
  BY DEF Blocks, Unset
<1>3. handle \in [HandleVars -> Int] /\ conf \in NcConf /\ del_allroutes_interface(conf) \in NcConf
  <2>1. handle \in [HandleVars -> Int] /\ conf \in NcConf
    BY <1>0 DEF NcTypes
  <2> QED BY <2>1, SettersKeep DEF NcIps
<1>4. CASE /\ handle' = [handle EXCEPT ![v] = 0] /\ conf' = del_allroutes_interface(conf)
           /\ IF handle[v] = 0 THEN UNCHANGED ncCause ELSE Note("variable overwritten")
           /\ UNCHANGED <<blocks, nodes, timers, timersMade, dns, asked>>
  <2>1. NcTypes' /\ NcTimers' /\ NcDns'
    <3>1. handle' \in [HandleVars -> Int] /\ conf' \in NcConf
      BY <1>2, <1>3, <1>4
    <3> QED BY <1>0, <1>1, <1>4, <3>1 DEF NcTypes, NcTimers, NcDns
  <2>2. CASE handle[v] = 0
    <3>1. handle' = handle /\ ncCause' = ncCause
      BY <1>3, <1>4, <2>2
    <3>2. NcCauses' /\ NcStill' /\ NcCalm'
      <4>1. NcCauses'
        BY <1>0, <1>1, <1>4, <3>1 DEF NcCauses, RenewFaultHasCause
      <4>2. NcCalm'
        BY <1>0, <1>1, <1>4, <3>1 DEF NcCalm, Calm
      <4>3. NcStill'
        <5>1. UNCHANGED <<blocks, nodes, timers, handle, ncCause>>
          BY <1>4, <3>1
        <5> QED BY <1>0, <5>1 DEF NcStill
      <4> QED BY <4>1, <4>2, <4>3
    <3> QED BY <2>1, <3>2 DEF NcInv
  <2>3. CASE handle[v] # 0
    <3>1. ncCause' = ncCause \cup {"variable overwritten"}
      BY <1>4, <2>3 DEF Note
    <3>2. \A x \in HandleVars : handle'[x] = Unset => handle[x] = Unset
      BY <1>2, <1>3, <1>4
    <3>3. NcCauses' /\ NcStill'
      BY <1>0, <1>1, <1>4, <3>1, <3>2 DEF NcCauses, RenewFaultHasCause, NcStill
    <3>4. NcCalm'
      BY <1>0, <1>1, <1>4, <3>1 DEF NcCalm, Calm
    <3> QED BY <2>1, <3>3, <3>4 DEF NcInv
  <2> QED BY <2>2, <2>3
<1>5. ASSUME dhcpc_open(h), blocks' = blocks \cup {h}, handle' = [handle EXCEPT ![v] = h]
      PROVE  /\ blocks = {} /\ blocks' = {h} /\ handle' \in [HandleVars -> Int] /\ handle'[v] = h
             /\ \A x \in HandleVars : handle'[x] = Unset => handle[x] = Unset
             /\ \A i \in DOMAIN nodes : "stopped" \in ncCause
  <2>1. blocks = {}
    BY <1>5 DEF dhcpc_open, CanOpen
  <2>2. \A i \in DOMAIN nodes : "stopped" \in ncCause
    BY <1>0, <2>1 DEF NcCauses
  <2> QED BY <1>2, <1>3, <1>5, <2>1, <2>2
<1>6. CASE /\ dhcpc_open(h) /\ blocks' = blocks \cup {h} /\ handle' = [handle EXCEPT ![v] = h]
           /\ Note("request failed") /\ conf' = del_allroutes_interface(conf)
           /\ UNCHANGED <<nodes, timers, timersMade, dns, asked>>
  <2>0. ncCause' = ncCause \cup {"request failed"}
    BY <1>6 DEF Note
  <2>1. /\ blocks = {} /\ blocks' = {h} /\ handle' \in [HandleVars -> Int]
        /\ \A x \in HandleVars : handle'[x] = Unset => handle[x] = Unset
        /\ \A i \in DOMAIN nodes : "stopped" \in ncCause
    BY <1>5, <1>6
  <2>2. NcTypes' /\ NcTimers' /\ NcDns'
    BY <1>0, <1>1, <1>3, <1>6, <2>1 DEF NcTypes, NcTimers, NcDns
  <2>3. NcCauses' /\ NcStill'
    BY <1>0, <1>1, <1>6, <2>0, <2>1 DEF NcCauses, RenewFaultHasCause, NcStill
  <2>4. NcCalm'
    BY <1>0, <1>1, <1>6, <2>0 DEF NcCalm, Calm
  <2> QED BY <2>2, <2>3, <2>4 DEF NcInv
<1>7. /\ NewNode(h) \in Seq(NcNode) /\ Len(NewNode(h)) = Len(nodes) + 1
      /\ NewNode(h)[Len(nodes) + 1] = [handle |-> h, timer |-> 0]
      /\ \A i \in DOMAIN nodes : i \in DOMAIN NewNode(h) /\ NewNode(h)[i] = nodes[i]
      /\ DOMAIN NewNode(h) = DOMAIN nodes \cup {Len(nodes) + 1} /\ Len(nodes) + 1 \notin DOMAIN nodes
  BY <1>0, NewNodeIs
<1>8. timersMade \in Nat /\ 0 <= timersMade /\ timersMade + 1 \in Nat /\ timers \subseteq [id : Nat, var : HandleVars]
  BY <1>0 DEF NcTypes
<1>9. CASE /\ dhcpc_open(h) /\ blocks' = blocks \cup {h} /\ handle' = [handle EXCEPT ![v] = h]
           /\ \E a \in LeaseIps, k \in 0..4 : LeaseSettings(a, k)
           /\ nodes' = NewNode(h) /\ Note("settings failed") /\ UNCHANGED <<timers, timersMade>>
  <2>0. ncCause' = ncCause \cup {"settings failed"}
    BY <1>9 DEF Note
  <2>1. /\ blocks = {} /\ blocks' = {h} /\ handle' \in [HandleVars -> Int]
        /\ \A x \in HandleVars : handle'[x] = Unset => handle[x] = Unset
        /\ \A i \in DOMAIN nodes : "stopped" \in ncCause
    BY <1>5, <1>9
  <2>2. conf' \in NcConf /\ NcDns'
    BY <1>9, LeaseKeeps
  <2>3. NcTypes'
    BY <1>0, <1>1, <1>7, <1>9, <2>1, <2>2 DEF NcTypes
  <2>4. NcTimers'
    <3>0. nodes'[Len(nodes) + 1] = [handle |-> h, timer |-> 0]
      BY <1>7, <1>9, Zenon
    <3>1. nodes'[Len(nodes) + 1].timer = 0
      BY <3>0
    <3>2. \A i \in DOMAIN nodes' : nodes'[i].timer <= timersMade
      BY <1>0, <1>7, <1>8, <1>9, <3>1 DEF NcTimers
    <3> QED BY <1>0, <1>9, <3>2 DEF NcTimers
  <2>5. NcCauses'
    <3>0. nodes'[Len(nodes) + 1] = [handle |-> h, timer |-> 0]
      BY <1>7, <1>9, Zenon
    <3>1. nodes'[Len(nodes) + 1].handle = h
      BY <3>0
    <3>2. \A i \in DOMAIN nodes' : nodes'[i].handle \in blocks' \/ "stopped" \in ncCause'
      BY <1>7, <1>9, <2>0, <2>1, <3>1
    <3>3. RenewFaultHasCause'
      BY <1>0, <1>1, <2>0 DEF NcCauses, RenewFaultHasCause
    <3> QED BY <1>0, <2>0, <2>1, <3>2, <3>3 DEF NcCauses
  <2>6. NcStill' /\ NcCalm'
    BY <2>0 DEF NcStill, NcCalm, Calm
  <2> QED BY <2>2, <2>3, <2>4, <2>5, <2>6 DEF NcInv
<1>10. CASE /\ dhcpc_open(h) /\ blocks' = blocks \cup {h} /\ handle' = [handle EXCEPT ![v] = h]
            /\ \E a \in LeaseIps : LeaseSettings(a, 5)
            /\ AddTimeout(v, NewNode(h), Len(nodes) + 1) /\ UNCHANGED ncCause
  <2> DEFINE l == Len(nodes) + 1
             n == timersMade + 1
             w == [id |-> n, var |-> v]
  <2>1. /\ blocks = {} /\ blocks' = {h} /\ handle' \in [HandleVars -> Int] /\ handle'[v] = h
        /\ \A x \in HandleVars : handle'[x] = Unset => handle[x] = Unset
        /\ \A i \in DOMAIN nodes : "stopped" \in ncCause
    BY <1>5, <1>10
  <2>2. conf' \in NcConf /\ NcDns'
    BY <1>10, LeaseKeeps
  <2>3. /\ timersMade' = n /\ timers' = {t \in timers : t.id # NewNode(h)[l].timer} \cup {w}
        /\ nodes' = [NewNode(h) EXCEPT ![l].timer = n]
    BY <1>10 DEF AddTimeout
  <2>4. w \in [id : Nat, var : HandleVars] /\ w.id = n /\ w.var = v
    BY <1>8
  <2>5. l \in DOMAIN NewNode(h)
    BY <1>7
  <2>6. /\ nodes' \in Seq(NcNode) /\ DOMAIN nodes' = DOMAIN NewNode(h)
        /\ \A j \in DOMAIN NewNode(h) : /\ nodes'[j].handle = NewNode(h)[j].handle
                                        /\ nodes'[j].timer = IF j = l THEN n ELSE NewNode(h)[j].timer
    BY <1>7, <1>8, <2>3, <2>5, TimerIs
  <2>7. /\ DOMAIN nodes' = DOMAIN nodes \cup {l} /\ nodes'[l].handle = h /\ nodes'[l].timer = n
        /\ \A j \in DOMAIN nodes : nodes'[j].handle = nodes[j].handle /\ nodes'[j].timer = nodes[j].timer
    BY <1>7, <2>5, <2>6
  <2>8. w \in timers' /\ \A t \in timers' : t = w \/ t \in timers
    BY <2>3
  <2> HIDE DEF w, l
  <2>9. NcTypes'
    <3>1. timers' \subseteq [id : Nat, var : HandleVars]
      BY <1>8, <2>4, <2>8
    <3> QED BY <1>0, <1>1, <1>8, <2>1, <2>2, <2>3, <2>6, <3>1 DEF NcTypes
  <2>10. NcTimers'
    <3>1. \A j \in DOMAIN nodes : nodes[j].timer <= timersMade /\ nodes[j].timer \in Nat
      <4>1. \A j \in DOMAIN nodes : nodes[j] \in NcNode
        BY <1>0, ElementOfSeq, LenProperties DEF NcTypes
      <4> QED BY <1>0, <4>1 DEF NcTimers, NcNode
    <3>2. \A t \in timers' : t.id \in 1..n
      BY <1>0, <1>8, <2>4, <2>8 DEF NcTimers
    <3>3. \A j \in DOMAIN nodes' : nodes'[j].timer <= n
      BY <1>8, <2>7, <3>1
    <3> QED BY <2>3, <3>2, <3>3 DEF NcTimers
  <2>11. NcCauses'
    BY <1>0, <1>1, <1>10, <2>1, <2>7 DEF NcCauses, RenewFaultHasCause
  <2>12. ASSUME Calm PROVE DOMAIN nodes = {} /\ timers = {} /\ timers' = {w} /\ ~quit
    <3>1. DOMAIN nodes = {}
      BY <2>1, <2>12 DEF Calm
    <3>2. timers = {} /\ ~quit
      BY <1>0, <2>12, <3>1 DEF NcCalm
    <3> QED BY <2>8, <3>1, <3>2
  <2>13. Calm' = Calm
    BY <1>10 DEF Calm
  <2>14. NcCalm'
    BY <1>1, <2>4, <2>7, <2>12, <2>13 DEF NcCalm
  <2>15. NcStill'
    <3> SUFFICES ASSUME ncCause = {}
                 PROVE  /\ \A i \in DOMAIN nodes' : \E t \in timers' : t.id = nodes'[i].timer /\ handle'[t.var] = nodes'[i].handle
                        /\ \A b \in blocks' : \E i \in DOMAIN nodes' : nodes'[i].handle = b
      BY <1>10 DEF NcStill
    <3>1. Calm
      BY DEF Calm
    <3> QED BY <2>1, <2>4, <2>7, <2>8, <2>12, <3>1
  <2> QED BY <2>2, <2>9, <2>10, <2>11, <2>14, <2>15 DEF NcInv
<1> QED BY <1>4, <1>6, <1>9, <1>10 DEF os_dhcp_client_start

(* A lease is renewed: the timeout is replaced by another one.             *)
LEMMA RenewKeeps ==
  ASSUME NcInv, NEW t \in timers, NEW i \in ByHandle(handle[t.var]), handle[t.var] \in blocks,
         dhcp_client_renew(t, i), UNCHANGED <<blocks, starts, handle>>
  PROVE  NcInv'
<1>0. NcTypes /\ NcTimers /\ NcDns /\ NcCauses /\ NcCalm /\ NcStill
  BY DEF NcInv
<1>1. i \in DOMAIN nodes /\ nodes[i].handle = handle[t.var]
  BY DEF ByHandle
<1>2. conf' \in NcConf /\ NcDns'
  BY LeaseKeeps DEF dhcp_client_renew
<1>3. UNCHANGED <<ncFault, ncCause>>
  BY DEF dhcp_client_renew
<1>4. timersMade \in Nat /\ timersMade + 1 \in Nat /\ timers \subseteq [id : Nat, var : HandleVars]
      /\ t.id \in Nat /\ t.var \in HandleVars
  BY <1>0 DEF NcTypes
<1>5. CASE nodes[i].timer \in {u.id : u \in timers}
  <2> DEFINE n == timersMade + 1
             w == [id |-> n, var |-> t.var]
  <2>1. /\ timersMade' = n /\ timers' = {u \in timers : u.id \notin {t.id, nodes[i].timer}} \cup {w}
        /\ nodes' = [nodes EXCEPT ![i].timer = n] /\ quit' = quit
    BY <1>5 DEF dhcp_client_renew
  <2>2. w \in [id : Nat, var : HandleVars] /\ w.id = n /\ w.var = t.var
    BY <1>4
  <2>3. w \in timers' /\ \A u \in timers' : u = w \/ (u \in timers /\ u.id # t.id)
    BY <2>1
  <2> HIDE DEF w
  <2>4. /\ nodes' \in Seq(NcNode) /\ DOMAIN nodes' = DOMAIN nodes
        /\ \A j \in DOMAIN nodes : /\ nodes'[j].handle = nodes[j].handle
                                   /\ nodes'[j].timer = IF j = i THEN n ELSE nodes[j].timer
    <3>1. nodes \in Seq(NcNode)
      BY <1>0 DEF NcTypes
    <3> QED BY <1>1, <1>4, <2>1, <3>1, TimerIs
  <2>5. NcTypes'
    <3>1. timers' \subseteq [id : Nat, var : HandleVars]
      BY <1>4, <2>2, <2>3
    <3> QED BY <1>0, <1>2, <1>3, <1>4, <2>1, <2>4, <3>1 DEF NcTypes
  <2>6. NcTimers'
    <3>1. \A j \in DOMAIN nodes : nodes[j].timer <= timersMade /\ nodes[j].timer \in Nat
      <4>1. \A j \in DOMAIN nodes : nodes[j] \in NcNode
        BY <1>0, ElementOfSeq, LenProperties DEF NcTypes
      <4> QED BY <1>0, <4>1 DEF NcTimers, NcNode
    <3>2. \A u \in timers' : u.id \in 1..n
      BY <1>0, <1>4, <2>2, <2>3 DEF NcTimers
    <3>3. \A j \in DOMAIN nodes' : nodes'[j].timer <= n
      BY <1>4, <2>4, <3>1
    <3> QED BY <2>1, <3>2, <3>3 DEF NcTimers
  <2>7. NcCauses'
    BY <1>0, <1>3, <2>4 DEF NcCauses, RenewFaultHasCause
  <2>8. Calm' = Calm
    BY <1>3 DEF Calm
  <2>9. ASSUME Calm PROVE timers' = {w} /\ ~quit /\ \A j \in DOMAIN nodes : j = i
    <3>1. (\A u \in timers : u = t) /\ ~quit /\ \A j \in DOMAIN nodes : j = i
      BY <1>0, <1>1, <2>9 DEF NcCalm
    <3> QED BY <2>3, <3>1
  <2>10. NcCalm'
    BY <1>1, <2>1, <2>2, <2>4, <2>8, <2>9 DEF NcCalm
  <2>11. NcStill'
    <3> SUFFICES ASSUME ncCause = {}
                 PROVE  /\ \A j \in DOMAIN nodes' : \E u \in timers' : u.id = nodes'[j].timer /\ handle'[u.var] = nodes'[j].handle
                        /\ \A b \in blocks' : \E j \in DOMAIN nodes' : nodes'[j].handle = b
      BY <1>3 DEF NcStill
    <3>1. Calm
      BY DEF Calm
    <3>2. \A b \in blocks : \E j \in DOMAIN nodes : nodes[j].handle = b
      BY <1>0 DEF NcStill
    <3> QED BY <1>1, <2>2, <2>3, <2>4, <2>9, <3>1, <3>2
  <2> QED BY <1>2, <2>5, <2>6, <2>7, <2>10, <2>11 DEF NcInv
<1>6. CASE nodes[i].timer \notin {u.id : u \in timers}
  <2>1. timers' = timers \ {t} /\ quit' = TRUE /\ UNCHANGED <<nodes, timersMade>>
    BY <1>6 DEF dhcp_client_renew
  <2>2. ~Calm
    <3> SUFFICES ASSUME Calm PROVE FALSE
      OBVIOUS
    <3>1. PICK j \in DOMAIN nodes : t.id = nodes[j].timer
      BY <1>0 DEF NcCalm
    <3>2. j = i
      BY <1>0, <1>1 DEF NcCalm
    <3> QED BY <1>6, <3>1, <3>2
  <2>3. ~Calm' /\ ncCause' # {}
    BY <1>3, <2>2 DEF Calm
  <2>4. quit' \in BOOLEAN
    BY <2>1, Zenon
  <2>5. NcTypes' /\ NcTimers'
    BY <1>0, <1>2, <1>3, <2>1, <2>4 DEF NcTypes, NcTimers
  <2>6. NcCauses'
    BY <1>0, <1>3, <2>1 DEF NcCauses, RenewFaultHasCause
  <2>7. NcCalm' /\ NcStill'
    BY <2>3 DEF NcCalm, NcStill
  <2> QED BY <1>2, <2>5, <2>6, <2>7 DEF NcInv
<1> QED BY <1>5, <1>6

LEMMA RenewFailsKeeps ==
  ASSUME NcInv, NEW t \in timers, RenewFails(t), UNCHANGED <<blocks, starts, handle>>
  PROVE  NcInv'
<1>0. NcTypes /\ NcTimers /\ NcDns /\ NcCauses /\ NcCalm /\ NcStill
  BY DEF NcInv
<1>1. timers' = timers \ {t} /\ ncCause' = ncCause \cup {"renewal failed"} /\ UNCHANGED <<nodes, timersMade, ncFault>>
  BY DEF RenewFails, Note
<1>2. PICK a \in LeaseIps, k \in 0..4 :
        /\ dns' = IF k = 4 THEN set_ipv4dnsaddr(a, FALSE) ELSE dns
        /\ asked' = IF k = 4 THEN <<a>> ELSE asked
        /\ LET c == Settings(conf, a, IF k = 4 THEN 3 ELSE k) IN
           \/ conf' = set_ipv4addr(c, 0) /\ quit' = TRUE
           \/ conf' = c /\ UNCHANGED quit
  BY DEF RenewFails
<1> DEFINE c == Settings(conf, a, IF k = 4 THEN 3 ELSE k)
<1>3. conf \in NcConf /\ a \in Nat /\ <<a>> \in Seq(Nat) /\ Len(<<a>>) <= 2
  BY <1>0, DhcpClientAssumption DEF NcTypes
<1>4. c \in NcConf /\ set_ipv4addr(c, 0) \in NcConf
  <2>1. c \in NcConf
    BY <1>3, SettingsKeep
  <2> HIDE DEF c
  <2> QED BY <2>1, SettersKeep DEF NcIps
<1>5. \/ conf' = set_ipv4addr(c, 0) /\ quit' = TRUE
      \/ conf' = c /\ quit' = quit
  BY <1>2
<1> HIDE DEF c
<1>6. conf' \in NcConf
  BY <1>4, <1>5
<1>7. quit \in BOOLEAN /\ quit' \in BOOLEAN
  BY <1>0, <1>5 DEF NcTypes
<1>8. NcDns'
  <2>1. \/ dns' = dns /\ asked' = asked
        \/ dns' = <<a>> /\ asked' = <<a>>
    BY <1>2 DEF set_ipv4dnsaddr, dns_add_nameserver
  <2> QED BY <1>0, <1>3, <2>1 DEF NcDns
<1>9. NcTypes' /\ NcTimers'
  BY <1>0, <1>1, <1>6, <1>7 DEF NcTypes, NcTimers
<1>10. NcCauses'
  BY <1>0, <1>1 DEF NcCauses, RenewFaultHasCause
<1>11. NcCalm' /\ NcStill'
  BY <1>1 DEF NcCalm, Calm, NcStill
<1> QED BY <1>8, <1>9, <1>10, <1>11 DEF NcInv

(* The timeout of a renewal.                                               *)
LEMMA CallbackKeeps ==
  ASSUME NcInv, NEW t \in timers, on_dhcp_client_renew_callback(t)
  PROVE  NcInv'
<1> DEFINE h == handle[t.var]
<1>0. NcTypes /\ NcTimers /\ NcDns /\ NcCauses /\ NcCalm /\ NcStill
  BY DEF NcInv
<1>1. UNCHANGED <<blocks, starts, handle>>
  BY DEF on_dhcp_client_renew_callback
<1>2. t.var \in HandleVars
  BY <1>0 DEF NcTypes
<1>3. ASSUME ncFault' = TRUE, UNCHANGED <<timers, nodes, timersMade, quit, ConfVars, ncCause>>,
             ncCause \cap {"stopped", "variable gone"} # {}
      PROVE  NcInv'
  <2>0. ncFault' \in BOOLEAN
    BY <1>3, Zenon
  <2>1. NcTypes' /\ NcTimers' /\ NcDns'
    BY <1>0, <1>1, <1>3, <2>0 DEF NcTypes, NcTimers, NcDns, ConfVars
  <2>2. NcCauses'
    BY <1>0, <1>1, <1>3 DEF NcCauses, RenewFaultHasCause
  <2>3. NcCalm' /\ NcStill'
    <3>1. UNCHANGED <<blocks, handle, timers, nodes, quit, ncCause>>
      BY <1>1, <1>3, Zenon
    <3> QED BY <1>0, <3>1, NcKept, Zenon
  <2> QED BY <2>1, <2>2, <2>3 DEF NcInv
<1>4. CASE h = Unset /\ ncFault' = TRUE /\ UNCHANGED <<timers, nodes, timersMade, quit, ConfVars, ncCause>>
  <2>1. "variable gone" \in ncCause
    BY <1>0, <1>2, <1>4 DEF NcCauses
  <2> QED BY <1>3, <1>4, <2>1
<1>5. CASE /\ ByHandle(h) = {} /\ timers' = timers \ {t}
           /\ UNCHANGED <<nodes, timersMade, quit, ConfVars, ncFault, ncCause>>
  <2>1. NcTypes' /\ NcTimers' /\ NcDns'
    BY <1>0, <1>1, <1>5 DEF NcTypes, NcTimers, NcDns, ConfVars
  <2>2. NcCauses' /\ NcCalm'
    BY <1>0, <1>1, <1>5 DEF NcCauses, RenewFaultHasCause, NcCalm, Calm
  <2>3. ncCause # {}
    <3> SUFFICES ASSUME ncCause = {} PROVE FALSE
      OBVIOUS
    <3>1. Calm
      BY DEF Calm
    <3>2. PICK i \in DOMAIN nodes : t.id = nodes[i].timer
      BY <1>0, <3>1 DEF NcCalm
    <3>3. PICK u \in timers : u.id = nodes[i].timer /\ handle[u.var] = nodes[i].handle
      BY <1>0, <3>2 DEF NcStill
    <3>4. nodes[i].handle = h
      BY <1>0, <3>1, <3>3 DEF NcCalm
    <3>5. \A j \in 1..(i - 1) : FALSE
      <4>1. DOMAIN nodes = 1..Len(nodes) /\ Len(nodes) \in Nat
        BY <1>0 DEF NcTypes
      <4>2. \A j \in 1..(i - 1) : j \in DOMAIN nodes /\ j # i
        BY <3>2, <4>1
      <4> QED BY <1>0, <3>1, <3>2, <4>2 DEF NcCalm
    <3> QED BY <1>5, <3>2, <3>4, <3>5 DEF ByHandle
  <2>4. NcStill'
    BY <1>5, <2>3 DEF NcStill
  <2> QED BY <2>1, <2>2, <2>4 DEF NcInv
<1>6. ASSUME NEW i \in ByHandle(h),
             IF h \notin blocks
             THEN ncFault' = TRUE /\ UNCHANGED <<timers, nodes, timersMade, quit, ConfVars, ncCause>>
             ELSE dhcp_client_renew(t, i) \/ RenewFails(t)
      PROVE  NcInv'
  <2>1. CASE h \notin blocks
    <3>1. "stopped" \in ncCause
      BY <1>0, <1>6, <2>1 DEF NcCauses, ByHandle
    <3> QED BY <1>3, <1>6, <2>1, <3>1
  <2>2. CASE h \in blocks
    BY <1>1, <1>6, <2>2, RenewKeeps, RenewFailsKeeps
  <2> QED BY <2>1, <2>2
<1> QED BY <1>4, <1>5, <1>6 DEF on_dhcp_client_renew_callback

(* os_dhcp_client_start and on_dhcp_client_renew_callback, for any number  *)
(* of clients and renewals: a lease has a timeout that renews it, port 68  *)
(* is bound by a client that can be stopped, a renewal meets what is gone  *)
(* and ends the main loop only after the calls the parts name, and the     *)
(* name servers are the ones set last.                                     *)
THEOREM DhcpClientIsSound == DhcpClientSpec => []DhcpClientSound
<1>1. NcInv /\ [DhcpClientNext]_clientVars => NcInv'
  <2> SUFFICES ASSUME NcInv, [DhcpClientNext]_clientVars PROVE NcInv'
    OBVIOUS
  <2>1. CASE UNCHANGED clientVars
    <3>1. NcTypes' /\ NcTimers' /\ NcDns'
      BY <2>1 DEF clientVars, NcInv, NcTypes, NcTimers, NcDns
    <3>2. NcCauses'
      BY <2>1 DEF clientVars, NcInv, NcCauses, RenewFaultHasCause
    <3>3. NcCalm' /\ NcStill'
      BY <2>1, NcKept DEF clientVars, NcInv
    <3> QED BY <3>1, <3>2, <3>3 DEF NcInv
  <2>2. CASE DhcpClientNext
    <3>1. \A k \in 0..6 : k \in Int
      OBVIOUS
    <3> QED BY <2>2, <3>1, StartKeeps, StopKeeps, ConfigKeeps, GoneKeeps, CallbackKeeps
        DEF DhcpClientNext, artik_dhcp_client
  <2> QED BY <2>1, <2>2
<1>2. NcInv => DhcpClientSound
  <2> SUFFICES ASSUME NcInv PROVE DhcpClientSound
    OBVIOUS
  <2>0. NcTypes /\ NcTimers /\ NcDns /\ NcCauses /\ NcCalm /\ NcStill
    BY DEF NcInv
  <2>1. Cardinality(blocks) <= 1
    <3>1. CASE blocks = {}
      BY <3>1, FS_EmptySet
    <3>2. CASE \E b : blocks = {b}
      BY <3>2, FS_Singleton
    <3>3. blocks # {} => \E b : blocks = {b}
      <4> SUFFICES ASSUME NEW b \in blocks PROVE blocks = {b}
        OBVIOUS
      <4> QED BY <2>0 DEF NcTypes
    <3> QED BY <3>1, <3>2, <3>3
  <2>2. \A i \in DOMAIN nodes : nodes[i] \in NcNode
    BY <2>0, ElementOfSeq, LenProperties DEF NcTypes
  <2>3. DhcpClientTypeOK
    <3>1. \A i \in DOMAIN nodes : nodes[i].handle \in Blocks /\ nodes[i].timer \in 0..timersMade
      BY <2>0, <2>2 DEF NcTypes, NcTimers, NcNode
    <3>2. \A t \in timers : t.id \in 1..timersMade /\ t.var \in HandleVars
      BY <2>0 DEF NcTypes, NcTimers
    <3>3. conf.ip \in LeaseIps \cup {0} /\ blocks \subseteq Blocks
      BY <2>0 DEF NcTypes, NcConf, NcIps
    <3> QED BY <2>1, <3>1, <3>2, <3>3 DEF DhcpClientTypeOK
  <2>4. RenewFaultHasCause /\ LeaseIsRenewed
    BY <2>0 DEF NcCauses, NcStill, LeaseIsRenewed
  <2>5. QuitHasCause
    BY <2>0 DEF NcCalm, Calm, QuitHasCause
  <2>6. PortHasClient
    <3> SUFFICES ASSUME ncCause = {}, NEW b \in blocks PROVE ByHandle(b) # {}
      BY DEF PortHasClient
    <3>1. PICK i \in DOMAIN nodes : nodes[i].handle = b
      BY <2>0 DEF NcStill
    <3>2. \A j \in 1..(i - 1) : FALSE
      <4>1. DOMAIN nodes = 1..Len(nodes) /\ Len(nodes) \in Nat
        BY <2>0 DEF NcTypes
      <4>2. \A j \in 1..(i - 1) : j \in DOMAIN nodes /\ j # i
        BY <3>1, <4>1
      <4>3. Calm
        BY DEF Calm
      <4> QED BY <2>0, <3>1, <4>2, <4>3 DEF NcCalm
    <3> QED BY <3>1, <3>2 DEF ByHandle
  <2>7. DnsIsLastSet
    <3>1. dns \in Seq(Nat) /\ Len(dns) <= 2 /\ dns = asked
      BY <2>0 DEF NcDns
    <3>4. Len(dns) \in Nat /\ Len(dns) <= 2
      BY <3>1
    <3>2. (IF Len(dns) < 2 THEN Len(dns) ELSE 2) = Len(dns)
      <4>1. PICK n \in Nat : n = Len(dns)
        BY <3>4
      <4>2. n <= 2
        BY <3>4, <4>1
      <4>3. n < 2 \/ n = 2
        BY <4>2
      <4> QED BY <4>1, <4>3
    <3>3. SubSeq(dns, 1, Len(dns)) = dns
      <4> DEFINE s == SubSeq(dns, 1, Len(dns))
      <4>1. s \in Seq(Nat) /\ Len(s) = Len(dns) /\ \A i \in 1..Len(s) : s[i] = dns[i]
        BY <3>1
      <4> HIDE DEF s
      <4>2. s = dns
        BY <3>1, <4>1, SeqEqual
      <4> QED BY <4>2 DEF s
    <3> QED BY <3>1, <3>2, <3>3 DEF DnsIsLastSet, os_get_network_config, get_ipv4dnsaddr
  <2> QED BY <2>3, <2>4, <2>5, <2>6, <2>7 DEF DhcpClientSound
<1> QED BY <1>1, <1>2, ClientStarts, PTL DEF DhcpClientSpec

=============================================================================
