------------------------------- MODULE Dhcpc -------------------------------
(***************************************************************************)
(* The DHCP client (netutils/dhcpc.c): dhcpc_request on one socket, with   *)
(* servers whose answers are lost, late or meant for another station.  The *)
(* receive buffer of the socket keeps what arrives, also from one request  *)
(* to the next, and dhcpc_parsemsg takes every reply with the fixed xid.   *)
(***************************************************************************)
EXTENDS Integers, Sequences

CONSTANTS
  Servers,     \* servers, each of which offers one address
  OfferedIp,   \* [Servers -> addresses]
  ForeignIp,   \* an address a server gives another station
  NoServer,
  Discovers,   \* count: 5 in the code
  Retries,     \* the REQUESTs of one round: 3 in the code
  MaxInbox,    \* replies the socket buffer holds
  MaxRequests  \* calls of dhcpc_request

ASSUME DhcpcAssumption ==
  /\ NoServer \notin Servers
  /\ {Discovers, MaxInbox, MaxRequests} \subseteq Nat /\ Retries \in Nat \ {0}
  /\ OfferedIp \in [Servers -> Nat \ {0, ForeignIp}] /\ ForeignIp \in Nat \ {0}

VARIABLES
  dcPc,      \* where dhcpc_request is
  renewing, count, retries,
  ifaddr,    \* the address of the interface, 0 for INADDR_ANY
  oldaddr,
  pdhcpc,    \* ipaddr and serverid of the locked OFFER
  presult,   \* ipaddr and serverid of the reply parsed last
  inbox,     \* the socket's receive buffer
  heard,     \* what each server has yet to answer: a DISCOVER, the address
             \* of a REQUEST, or nothing; a later message takes its place
  granted,   \* servers that gave this station their address
  declined,  \* the OFFER that was locked has been declined
  requestsMade,
  dcCause

dhcpcVars == <<dcPc, renewing, count, retries, ifaddr, oldaddr, pdhcpc, presult, inbox, heard, granted, declined, requestsMade, dcCause>>
serverVars == <<heard, granted>>

AskOffer == -1
NoLease == [ip |-> 0, server |-> NoServer]

DhcpcInit ==
  /\ dcPc = "idle" /\ renewing = FALSE /\ count = 0 /\ retries = 0
  /\ ifaddr = 0 /\ oldaddr = 0
  /\ pdhcpc = NoLease /\ presult = NoLease
  /\ inbox = <<>>
  /\ heard = [s \in Servers |-> 0]
  /\ granted = {} /\ declined = FALSE
  /\ requestsMade = 0 /\ dcCause = {}

Because(c) == dcCause' = dcCause \cup {c}

-----------------------------------------------------------------------------
(* Messages.                                                               *)

\* A broadcast reaches any of the servers.
dhcpc_sendmsg(type) ==
  \/ /\ type = "DISCOVER"
     /\ \E R \in SUBSET Servers :
          heard' = [s \in Servers |-> IF s \in R THEN AskOffer ELSE heard[s]]
     /\ UNCHANGED declined
  \/ /\ type = "REQUEST"
     /\ \E R \in SUBSET (IF renewing THEN Servers ELSE {pdhcpc'.server} \cap Servers) :
          heard' = [s \in Servers |-> IF s \in R THEN pdhcpc'.ip ELSE heard[s]]
     /\ UNCHANGED declined
  \/ /\ type = "DECLINE"
     /\ declined' = (declined \/ presult' = pdhcpc)
     /\ UNCHANGED heard

\* The address, then the options: the server among them.
dhcpc_parsemsg(m) == presult' = [ip |-> m.ip, server |-> m.server]

Received == inbox # <<>> /\ inbox' = Tail(inbox)
TimedOut == inbox = <<>> /\ UNCHANGED <<inbox, presult>>

-----------------------------------------------------------------------------
(* dhcpc_request, one action from one receive to the next.                 *)

dhcpc_request(renew) ==
  /\ dcPc = "idle"
  /\ requestsMade < MaxRequests
  /\ renew => ifaddr # 0
  /\ dcPc' = "round"
  /\ renewing' = renew
  /\ count' = Discovers
  /\ oldaddr' = ifaddr
  /\ requestsMade' = requestsMade + 1
  /\ UNCHANGED <<retries, ifaddr, pdhcpc, presult, inbox, serverVars, declined, dcCause>>

\* The outer loop: the address is given up, unless it is renewed.
Round ==
  /\ dcPc = "round"
  /\ \/ renewing /\ dcPc' = "request" /\ UNCHANGED <<ifaddr, dcCause>>
     \/ ~renewing /\ dcPc' = "discover" /\ ifaddr' = 0 /\ UNCHANGED dcCause
     \/ ~renewing /\ dcPc' = "failed" /\ UNCHANGED ifaddr /\ Because("system error")
     \/ ~renewing /\ oldaddr # 0 /\ dcPc' = "failed" /\ ifaddr' = 0 /\ Because("system error")
  /\ retries' = 0
  /\ UNCHANGED <<renewing, count, oldaddr, pdhcpc, presult, inbox, serverVars, declined, requestsMade>>

\* Mutant: the last DISCOVER is followed by another one.
DiscoversUncounted ==
  /\ dcPc = "discover"
  /\ dhcpc_sendmsg("DISCOVER")
  /\ dcPc' = "offer"
  /\ count' = IF count > 0 THEN count - 1 ELSE 0
  /\ UNCHANGED <<ifaddr, renewing, retries, oldaddr, pdhcpc, presult, inbox, granted, requestsMade, dcCause>>

\* The message is sent before the count is looked at.
Discover ==
  /\ dcPc = "discover"
  /\ dhcpc_sendmsg("DISCOVER")
  /\ IF count > 0
     THEN count' = count - 1 /\ dcPc' = "offer" /\ UNCHANGED ifaddr
     ELSE ifaddr' = oldaddr /\ dcPc' = "failed" /\ UNCHANGED count
  /\ UNCHANGED <<renewing, retries, oldaddr, pdhcpc, presult, inbox, granted, requestsMade, dcCause>>

\* The first OFFER is locked, and its address used for the time being.
GetOffer ==
  /\ dcPc = "offer"
  /\ \/ /\ Received
        /\ dhcpc_parsemsg(Head(inbox))
        /\ IF Head(inbox).type = "OFFER"
           THEN pdhcpc' = presult' /\ ifaddr' = presult'.ip /\ dcPc' = "request"
           ELSE dcPc' = "discover" /\ UNCHANGED <<pdhcpc, ifaddr>>
        /\ UNCHANGED dcCause
     \/ TimedOut /\ dcPc' = "discover" /\ UNCHANGED <<pdhcpc, ifaddr, dcCause>>
     \/ /\ dcPc' = "failed" /\ Because("system error")
        /\ UNCHANGED <<inbox, presult, pdhcpc, ifaddr>>
  /\ UNCHANGED <<renewing, count, retries, oldaddr, serverVars, declined, requestsMade>>

Request ==
  /\ dcPc = "request"
  /\ pdhcpc' = IF renewing THEN [pdhcpc EXCEPT !.ip = oldaddr] ELSE pdhcpc
  /\ dhcpc_sendmsg("REQUEST")
  /\ retries' = retries + 1
  /\ dcPc' = "ack"
  /\ UNCHANGED <<renewing, count, ifaddr, oldaddr, presult, inbox, granted, requestsMade, dcCause>>

\* The end of the inner loop: the last REQUEST of a round ends a renewal.
NextRequest ==
  /\ dcPc' = IF retries < Retries THEN "request" ELSE "round"
  /\ renewing' = (renewing /\ retries < Retries)

\* Mutant: whatever carries an address ends the request.
AnyReplyIsAck ==
  /\ dcPc = "ack"
  /\ \/ /\ Received
        /\ dhcpc_parsemsg(Head(inbox))
        /\ dcPc' = IF Head(inbox).type = "NAK" THEN "round" ELSE "ok"
        /\ UNCHANGED <<ifaddr, renewing, declined, heard, dcCause>>
     \/ TimedOut /\ NextRequest /\ UNCHANGED <<ifaddr, declined, heard, dcCause>>
  /\ UNCHANGED <<count, retries, oldaddr, pdhcpc, granted, requestsMade>>

\* A NAK starts the outer loop again; an OFFER is declined, whoever made it.
GetAck ==
  /\ dcPc = "ack"
  /\ \/ /\ Received
        /\ dhcpc_parsemsg(Head(inbox))
        /\ \/ Head(inbox).type = "ACK" /\ dcPc' = "ok" /\ UNCHANGED <<renewing, declined, heard>>
           \/ Head(inbox).type = "NAK" /\ dcPc' = "round" /\ UNCHANGED <<renewing, declined, heard>>
           \/ Head(inbox).type = "OFFER" /\ dhcpc_sendmsg("DECLINE") /\ NextRequest
        /\ UNCHANGED <<ifaddr, dcCause>>
     \/ TimedOut /\ NextRequest /\ UNCHANGED <<ifaddr, declined, heard, dcCause>>
     \/ /\ dcPc' = "failed" /\ ifaddr' = oldaddr
        /\ UNCHANGED <<inbox, presult, renewing, declined, heard, dcCause>>
  /\ UNCHANGED <<count, retries, oldaddr, pdhcpc, granted, requestsMade>>

\* The callers use the address, or none after a renewal that failed.  What
\* was local to the call is gone.
Return ==
  /\ dcPc \in {"ok", "failed"}
  /\ dcPc' = "idle"
  /\ ifaddr' = IF dcPc = "ok" THEN presult.ip ELSE IF renewing THEN 0 ELSE ifaddr
  /\ renewing' = FALSE /\ count' = 0 /\ retries' = 0 /\ oldaddr' = 0
  /\ presult' = NoLease /\ declined' = FALSE /\ dcCause' = {}
  /\ UNCHANGED <<pdhcpc, inbox, serverVars, requestsMade>>

-----------------------------------------------------------------------------
(* The servers, and another station that uses the same library.            *)

Arrives(m) == Len(inbox) < MaxInbox /\ inbox' = Append(inbox, m)

ServerOffers(s) ==
  /\ heard[s] = AskOffer
  /\ heard' = [heard EXCEPT ![s] = 0]
  /\ Arrives([type |-> "OFFER", ip |-> OfferedIp[s], server |-> s])
  /\ UNCHANGED <<dcPc, renewing, count, retries, ifaddr, oldaddr, pdhcpc, presult, granted, declined, requestsMade, dcCause>>

ServerDecides(s, type) ==
  /\ heard[s] \notin {0, AskOffer}
  /\ type = "ACK" => heard[s] = OfferedIp[s]
  /\ heard' = [heard EXCEPT ![s] = 0]
  /\ Arrives([type |-> type, ip |-> IF type = "ACK" THEN heard[s] ELSE 0, server |-> s])
  /\ granted' = IF type = "ACK" THEN granted \cup {s} ELSE granted
  /\ UNCHANGED <<dcPc, renewing, count, retries, ifaddr, oldaddr, pdhcpc, presult, declined, requestsMade, dcCause>>

\* Replies are broadcast, and every client uses the same xid.  The server is
\* one this station does not hear from otherwise.
ForeignReply(type) ==
  /\ dcPc \in {"offer", "ack"}
  /\ "another station" \notin dcCause
  /\ Arrives([type |-> type, ip |-> ForeignIp, server |-> NoServer])
  /\ Because("another station")
  /\ UNCHANGED <<dcPc, renewing, count, retries, ifaddr, oldaddr, pdhcpc, presult, serverVars, declined, requestsMade>>

-----------------------------------------------------------------------------
DhcpcStep == Round \/ Discover \/ GetOffer \/ Request \/ GetAck \/ Return

DhcpcNext ==
  \/ \E renew \in BOOLEAN : dhcpc_request(renew)
  \/ DhcpcStep
  \/ \E s \in Servers :
       \/ ServerOffers(s)
       \/ \E type \in {"ACK", "NAK"} : ServerDecides(s, type)
  \/ \E type \in {"OFFER", "ACK"} : ForeignReply(type)

\* The receive timeout of the socket makes every wait end.
DhcpcFairness == WF_dhcpcVars(DhcpcStep)

DhcpcSpec == DhcpcInit /\ [][DhcpcNext]_dhcpcVars /\ DhcpcFairness

-----------------------------------------------------------------------------
(* The kinds of the variables and the ranges of the counters.              *)
DhcpcTypeOK ==
  /\ dcPc \in {"idle", "round", "discover", "offer", "request", "ack", "ok", "failed"}
  /\ renewing \in BOOLEAN
  /\ count \in 0..Discovers /\ retries \in 0..Retries
  /\ pdhcpc.server \in Servers \cup {NoServer} /\ presult.server \in Servers \cup {NoServer}
  /\ Len(inbox) <= MaxInbox

(* An address that dhcpc_request returns was given to this station by the  *)
(* server it names, however OFFERs, ACKs and NAKs of two servers and two   *)
(* rounds overlap in the buffer; only the reply to another station, which  *)
(* has the same xid, can be taken instead.                                 *)
LeaseIsGranted ==
  dcPc = "ok" => \/ presult.ip = ForeignIp
                 \/ presult.server \in granted /\ presult.ip = OfferedIp[presult.server]

(* The server and the address of a REQUEST are those of one OFFER, also    *)
(* after replies that came later have overwritten presult.                 *)
RequestNamesOffer ==
  dcPc \in {"request", "ack"} /\ ~renewing =>
    \/ pdhcpc.ip = ForeignIp
    \/ pdhcpc.server \in Servers /\ pdhcpc.ip = OfferedIp[pdhcpc.server]

(* The OFFER this station has locked is declined only where DISCOVER was   *)
(* sent more than once or the answer to an earlier one was still to come.  *)
LockedIsDeclinedLate ==
  declined => count < Discovers - 1 \/ requestsMade > 1 \/ "another station" \in dcCause

(* A request that fails leaves the interface with the address it had,      *)
(* although it took that away and used the offered one in between; only a  *)
(* system call that fails may leave another.                               *)
FailureKeepsAddress == dcPc = "failed" => ifaddr = oldaddr \/ dcCause # {}

(* A request for a first address comes to an end: the count of DISCOVERs   *)
(* is not reset when a NAK or three silent REQUESTs start the loop again.  *)
RequestEnds == dcPc = "round" /\ ~renewing ~> dcPc = "idle"

\* A lease the client takes was granted by the server it asked, a REQUEST
\* names an offer that was made, and a request that fails leaves the interface
\* its address, but for the replies to other stations the parts name
\* (dhcpc_request).
DhcpcSound ==
  /\ DhcpcTypeOK /\ LeaseIsGranted /\ RequestNamesOffer
  /\ LockedIsDeclinedLate /\ FailureKeepsAddress

=============================================================================
