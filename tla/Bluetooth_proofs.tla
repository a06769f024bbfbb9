-------------------------- MODULE Bluetooth_proofs --------------------------
(***************************************************************************)
(* Proofs about bluetooth: the pairing agent and the serial port profile   *)
(* (BtAgent), the remote devices and the scan (BtDevice), the file         *)
(* transfers (BtObex), the network, the remote control, the audio source   *)
(* and the advertisements (BtProfiles), and the GATT server and client     *)
(* (BtGatt).                                                               *)
(***************************************************************************)
EXTENDS BtAgent, BtDevice, BtObex, BtProfiles, BtGatt, SequenceTheorems,
        FiniteSetTheorems, TLAPS

-----------------------------------------------------------------------------
(* BtAgent.  An object has its id until a second export loses it, and from *)
(* then on the cause is on record; a server is allocated with its object   *)
(* and freed only with it; a request is in one place and answered once.    *)

\* What the id and the records of an object say of each other.
AgentHeld ==
  /\ agent.id => agent.object
  /\ KnownAgentExported
  /\ AgentLeftHasCause
  /\ agent.object /\ ~agent.id => "agent twice" \in agentCause

\* A request is asked for, held or answered; its place is one.
AgentPlaces ==
  \A r \in 1..MaxAgentReqs : r \in asking \cup held => agentDone[r] = 0

\* The server is there whenever the object is, and but for the time between
\* RegisterProfile and the export a profile that is known has its object.
SppHeld ==
  /\ spp.id => spp.object
  /\ spp.object => sppServer
  /\ ~sppFault
  /\ spp.known /\ Free => spp.object

SppCounts ==
  /\ sppCalls + sppLost <= MaxSppCalls
  /\ sppLost > 0 => agentCause \cap {"spp early", "spp unregistered"} # {}
  /\ sppCalls > 0 /\ ~spp.object => "spp unregistered" \in agentCause

AgInv == AgentTypeOK /\ AgentHeld /\ AgentPlaces /\ SppHeld /\ SppCounts

Records == [object : BOOLEAN, id : BOOLEAN, known : BOOLEAN]

\* What exporting and taking away do to the record of an object.
LEMMA ExportIs ==
  ASSUME NEW o \in Records
  PROVE  /\ Export(o) \in Records
         /\ Export(o).object = TRUE /\ Export(o).known = o.known
         /\ o.object => Export(o).id = FALSE
         /\ ~o.object => Export(o).id = TRUE
<1>1. TRUE \in BOOLEAN /\ FALSE \in BOOLEAN BY Zenon
<1>2. o = [object |-> o.object, id |-> o.id, known |-> o.known]
      /\ o.object \in BOOLEAN /\ o.id \in BOOLEAN /\ o.known \in BOOLEAN
  BY DEF Records
<1>3. CASE o.object
  <2>1. Export(o) = [object |-> o.object, id |-> FALSE, known |-> o.known]
    BY <1>2, <1>3 DEF Export
  <2>2. Export(o) \in Records BY <1>1, <1>2, <2>1 DEF Records
  <2>3. o.object = TRUE BY <1>2, <1>3, Zenon
  <2>4. Export(o).object = o.object /\ Export(o).id = FALSE /\ Export(o).known = o.known
    BY <2>1
  <2> QED BY <1>3, <2>2, <2>3, <2>4, Zenon
<1>4. CASE ~o.object
  <2>1. Export(o) = [object |-> TRUE, id |-> TRUE, known |-> o.known]
    BY <1>2, <1>4 DEF Export
  <2>2. Export(o) \in Records BY <1>1, <1>2, <2>1 DEF Records
  <2>3. Export(o).object = TRUE /\ Export(o).id = TRUE /\ Export(o).known = o.known
    BY <2>1
  <2> QED BY <1>4, <2>2, <2>3, Zenon
<1> QED BY <1>3, <1>4

LEMMA UnexportIs ==
  ASSUME NEW o \in Records
  PROVE  /\ Unexport(o) \in Records
         /\ o.id => Unexport(o).object = FALSE
         /\ ~o.id => Unexport(o).object = o.object
         /\ Unexport(o).id = FALSE
         /\ Unexport(o).known = o.known
<1>1. FALSE \in BOOLEAN BY Zenon
<1>2. o = [object |-> o.object, id |-> o.id, known |-> o.known]
      /\ o.object \in BOOLEAN /\ o.id \in BOOLEAN /\ o.known \in BOOLEAN
  BY DEF Records
<1>3. CASE o.id
  <2>1. Unexport(o) = [object |-> FALSE, id |-> FALSE, known |-> o.known]
    BY <1>2, <1>3 DEF Unexport
  <2>2. Unexport(o) \in Records BY <1>1, <1>2, <2>1 DEF Records
  <2>3. Unexport(o).object = FALSE /\ Unexport(o).id = FALSE /\ Unexport(o).known = o.known
    BY <2>1
  <2> QED BY <1>3, <2>2, <2>3, Zenon
<1>4. CASE ~o.id
  <2>1. Unexport(o) = o BY <1>4 DEF Unexport
  <2>2. o.id = FALSE BY <1>2, <1>4, Zenon
  <2> QED BY <1>4, <2>1, <2>2, Zenon
<1> QED BY <1>3, <1>4

\* A record with another answer of BlueZ in it.
LEMMA KnownIs ==
  ASSUME NEW o \in Records, NEW b \in BOOLEAN
  PROVE  /\ [o EXCEPT !.known = b] \in Records
         /\ [o EXCEPT !.known = b].object = o.object /\ [o EXCEPT !.known = b].id = o.id
         /\ [o EXCEPT !.known = b].known = b
BY DEF Records

\* The agent's own calls leave the profile as it is.
LEMMA SppStays ==
  ASSUME AgInv, UNCHANGED SppPart, agentCause \subseteq agentCause'
  PROVE  SppHeld' /\ SppCounts'
BY DEF AgInv, SppHeld, SppCounts, SppPart, Free

\* The profile's calls leave the agent as it is.
LEMMA AgentStays ==
  ASSUME AgInv, UNCHANGED AgentPart, agentCause \subseteq agentCause'
  PROVE  AgentHeld' /\ AgentPlaces'
BY DEF AgInv, AgentHeld, AgentPlaces, AgentPart, KnownAgentExported, AgentLeftHasCause

LEMMA AgentCalls ==
  ASSUME AgInv, bt_agent_register_capability \/ bt_agent_unregister
  PROVE  AgInv'
<1> USE AgentAssumption
<1>0. agent \in Records /\ spp \in Records
  BY DEF AgInv, AgentTypeOK, Records
<1>1. TRUE \in BOOLEAN /\ FALSE \in BOOLEAN BY Zenon
<1>2. /\ UNCHANGED <<agentCb, asking, held, agentDone, SppPart>>
      /\ agentCause \subseteq agentCause' /\ agent' \in Records
      /\ agent'.id => agent'.object
      /\ agent'.known => agent'.object
      /\ agent'.object /\ ~agent'.known =>
           agentCause' \cap {"agent twice", "agent refused", "restart"} # {}
      /\ agent'.object /\ ~agent'.id => "agent twice" \in agentCause'
  <2>1. CASE bt_agent_register_capability /\ agent.object
    <3>1. /\ agent' = Export(agent) /\ agentCause' = agentCause \cup {"agent twice"}
          /\ UNCHANGED <<agentCb, asking, held, agentDone, SppPart>>
      BY <2>1 DEF bt_agent_register_capability
    <3> QED BY <1>0, <2>1, <3>1, ExportIs
  <2>2. CASE bt_agent_register_capability /\ ~agent.object
    <3>1. PICK refused \in BOOLEAN :
            /\ agent' = [Export(agent) EXCEPT !.known = ~refused]
            /\ agentCause' = IF refused THEN agentCause \cup {"agent refused"} ELSE agentCause
      BY <2>2 DEF bt_agent_register_capability
    <3>2. UNCHANGED <<agentCb, asking, held, agentDone, SppPart>>
      BY <2>2 DEF bt_agent_register_capability
    <3>3. /\ agent' \in Records /\ agent'.object = TRUE /\ agent'.id = TRUE
          /\ agent'.known = ~refused
      <4>1. Export(agent) \in Records /\ Export(agent).object = TRUE /\ Export(agent).id = TRUE
        BY <1>0, <2>2, ExportIs
      <4>2. (~refused) \in BOOLEAN BY Zenon
      <4> QED BY <3>1, <4>1, <4>2, KnownIs
    <3> QED BY <3>1, <3>2, <3>3
  <2>3. CASE bt_agent_unregister
    <3>1. /\ agent.known /\ agent' = [Unexport(agent) EXCEPT !.known = FALSE]
          /\ UNCHANGED <<agentCb, asking, held, agentDone, SppPart, agentCause>>
      BY <2>3 DEF bt_agent_unregister
    <3>2. /\ agent' \in Records /\ agent'.id = FALSE /\ agent'.known = FALSE
          /\ agent.id => agent'.object = FALSE
          /\ ~agent.id => agent'.object = agent.object
      <4>1. PICK u : u = Unexport(agent) OBVIOUS
      <4>2. /\ u \in Records /\ u.id = FALSE
            /\ agent.id => u.object = FALSE
            /\ ~agent.id => u.object = agent.object
        BY <1>0, <4>1, UnexportIs
      <4>3. agent' = [u EXCEPT !.known = FALSE] BY <3>1, <4>1
      <4>4. /\ agent' \in Records /\ agent'.object = u.object /\ agent'.id = u.id
            /\ agent'.known = FALSE
        BY <1>1, <4>2, <4>3, KnownIs
      <4> QED BY <4>2, <4>4, Zenon
    <3>3. agent.object /\ ~agent.id => "agent twice" \in agentCause
      BY DEF AgInv, AgentHeld
    <3> QED BY <3>1, <3>2, <3>3
  <2> QED BY <2>1, <2>2, <2>3
<1>3. AgentTypeOK' BY <1>0, <1>2 DEF AgInv, AgentTypeOK, SppPart, Records
<1>4. AgentHeld' BY <1>2 DEF AgentHeld, KnownAgentExported, AgentLeftHasCause
<1>5. AgentPlaces' BY <1>2 DEF AgInv, AgentPlaces
<1>6. SppHeld' /\ SppCounts' BY <1>2, SppStays
<1> QED BY <1>3, <1>4, <1>5, <1>6 DEF AgInv

\* A request moves on: asked, held, answered.
LEMMA AgentRequests ==
  ASSUME AgInv, NEW r \in 1..MaxAgentReqs,
         bt_agent_send(r) \/ handle_method_call(r) \/ AgentAsks(r)
  PROVE  AgInv'
<1> USE AgentAssumption
<1>1. /\ UNCHANGED <<agent, agentCb, SppPart, agentCause>>
      /\ asking' \cup held' \subseteq 1..MaxAgentReqs /\ asking' \cap held' = {}
      /\ agentDone' \in [1..MaxAgentReqs -> 0..1]
      /\ AgentPlaces'
  <2>0. /\ asking \cup held \subseteq 1..MaxAgentReqs /\ asking \cap held = {}
        /\ agentDone \in [1..MaxAgentReqs -> 0..1]
        /\ \A q \in 1..MaxAgentReqs : q \in asking \cup held => agentDone[q] = 0
    BY DEF AgInv, AgentTypeOK, AgentPlaces
  <2>1. CASE bt_agent_send(r)
    <3>1. /\ r \in held /\ held' = held \ {r} /\ agentDone' = [agentDone EXCEPT ![r] = @ + 1]
          /\ UNCHANGED <<agent, agentCb, asking, SppPart, agentCause>>
      BY <2>1 DEF bt_agent_send, send_response
    <3>2. agentDone' = [agentDone EXCEPT ![r] = 1]
      <4>1. agentDone[r] = 0 BY <2>0, <3>1
      <4> QED BY <3>1, <4>1
    <3> QED BY <2>0, <3>1, <3>2 DEF AgentPlaces
  <2>2. CASE handle_method_call(r) /\ agent.object /\ agentCb
    <3>1. /\ r \in asking /\ asking' = asking \ {r} /\ held' = held \cup {r}
          /\ UNCHANGED <<agent, agentCb, agentDone, SppPart, agentCause>>
      BY <2>2 DEF handle_method_call
    <3> QED BY <2>0, <3>1 DEF AgentPlaces
  <2>3. CASE handle_method_call(r) /\ ~(agent.object /\ agentCb)
    <3>1. /\ r \in asking /\ asking' = asking \ {r}
          /\ agentDone' = [agentDone EXCEPT ![r] = @ + 1]
          /\ UNCHANGED <<agent, agentCb, held, SppPart, agentCause>>
      BY <2>3 DEF handle_method_call, send_response
    <3>2. agentDone' = [agentDone EXCEPT ![r] = 1]
      <4>1. agentDone[r] = 0 BY <2>0, <3>1
      <4> QED BY <3>1, <4>1
    <3> QED BY <2>0, <3>1, <3>2 DEF AgentPlaces
  <2>4. CASE AgentAsks(r)
    <3>1. /\ r \notin held /\ ~(agentDone[r] > 0) /\ asking' = asking \cup {r}
          /\ UNCHANGED <<agent, agentCb, held, agentDone, SppPart, agentCause>>
      BY <2>4 DEF AgentAsks, Asked
    <3>2. agentDone[r] = 0 BY <2>0, <3>1
    <3> QED BY <2>0, <3>1, <3>2 DEF AgentPlaces
  <2> QED BY <2>1, <2>2, <2>3, <2>4
<1>2. AgentTypeOK' BY <1>1 DEF AgInv, AgentTypeOK, SppPart
<1>3. AgentHeld' BY <1>1 DEF AgInv, AgentHeld, KnownAgentExported, AgentLeftHasCause
<1>4. SppHeld' /\ SppCounts' BY <1>1, SppStays
<1> QED BY <1>1, <1>2, <1>3, <1>4 DEF AgInv

\* The record of the profile and its server.
LEMMA SppRegisters ==
  ASSUME AgInv,
         bt_spp_register_profile \/ _register_spp_object \/ bt_spp_unregister_profile
  PROVE  AgInv'
<1> USE AgentAssumption
<1>0. /\ agent \in Records /\ spp \in Records /\ sppServer \in BOOLEAN
      /\ sppCalls \in Nat /\ sppLost \in Nat
  BY DEF AgInv, AgentTypeOK, Records
<1>1. TRUE \in BOOLEAN /\ FALSE \in BOOLEAN BY Zenon
<1>2. /\ UNCHANGED <<AgentPart, sppCalls, sppLost, sppFault>> /\ agentCause \subseteq agentCause'
      /\ spp' \in Records /\ sppServer' \in BOOLEAN /\ sppStep' \in {"none", "export"}
      /\ spp'.id => spp'.object
      /\ spp'.object => sppServer'
      /\ spp'.known /\ sppStep' = "none" => spp'.object
      /\ sppCalls > 0 /\ ~spp'.object => "spp unregistered" \in agentCause'
  <2>0. /\ spp.id => spp.object
        /\ spp.object => sppServer
        /\ sppCalls > 0 /\ ~spp.object => "spp unregistered" \in agentCause
    BY DEF AgInv, SppHeld, SppCounts
  <2>1. CASE bt_spp_register_profile
    <3>1. /\ spp' = [spp EXCEPT !.known = TRUE] /\ sppStep' = "export"
          /\ UNCHANGED <<AgentPart, sppServer, sppCalls, sppLost, sppFault, agentCause>>
      BY <2>1 DEF bt_spp_register_profile
    <3>2. /\ spp' \in Records /\ spp'.object = spp.object /\ spp'.id = spp.id
      BY <1>0, <1>1, <3>1, KnownIs
    <3> QED BY <1>0, <2>0, <3>1, <3>2
  <2>2. CASE _register_spp_object
    <3>1. /\ spp' = Export(spp) /\ sppStep' = "none" /\ sppServer' = (sppServer \/ ~spp.object)
          /\ UNCHANGED <<AgentPart, sppCalls, sppLost, sppFault, agentCause>>
      BY <2>2 DEF _register_spp_object
    <3>2. spp' \in Records /\ spp'.object = TRUE BY <1>0, <3>1, ExportIs
    <3>3. sppServer' = TRUE BY <1>0, <2>0, <3>1
    <3> QED BY <1>1, <2>0, <3>1, <3>2, <3>3
  <2>3. CASE bt_spp_unregister_profile
    <3>1. /\ spp' = [Unexport(spp) EXCEPT !.known = FALSE]
          /\ sppServer' = (sppServer /\ ~spp.id) /\ sppStep' = sppStep
          /\ agentCause' = IF sppCalls > 0 THEN agentCause \cup {"spp unregistered"} ELSE agentCause
          /\ UNCHANGED <<AgentPart, sppCalls, sppLost, sppFault>>
      BY <2>3 DEF bt_spp_unregister_profile
    <3>2. /\ spp' \in Records /\ spp'.id = FALSE /\ spp'.known = FALSE
          /\ spp.id => spp'.object = FALSE
          /\ ~spp.id => spp'.object = spp.object
      <4>1. PICK u : u = Unexport(spp) OBVIOUS
      <4>2. /\ u \in Records /\ u.id = FALSE
            /\ spp.id => u.object = FALSE
            /\ ~spp.id => u.object = spp.object
        BY <1>0, <4>1, UnexportIs
      <4>3. spp' = [u EXCEPT !.known = FALSE] BY <3>1, <4>1
      <4>4. /\ spp' \in Records /\ spp'.object = u.object /\ spp'.id = u.id
            /\ spp'.known = FALSE
        BY <1>1, <4>2, <4>3, KnownIs
      <4> QED BY <4>2, <4>4, Zenon
    <3>3. sppServer' \in BOOLEAN BY <3>1
    <3>4. sppStep \in {"none", "export"} BY DEF AgInv, AgentTypeOK
    <3>5. agentCause \subseteq agentCause' /\ (sppCalls > 0 => "spp unregistered" \in agentCause')
      BY <3>1
    <3> QED BY <2>0, <3>1, <3>2, <3>3, <3>4, <3>5
  <2> QED BY <2>1, <2>2, <2>3
<1>3. AgentTypeOK' BY <1>0, <1>2 DEF AgInv, AgentTypeOK, AgentPart, Records
<1>4. SppHeld' BY <1>2 DEF AgInv, SppHeld, Free
<1>5. SppCounts' BY <1>2 DEF AgInv, SppCounts
<1>6. AgentHeld' /\ AgentPlaces' BY <1>2, AgentStays
<1> QED BY <1>3, <1>4, <1>5, <1>6 DEF AgInv

\* BlueZ calls the profile, and the main loop dispatches the call.
LEMMA SppIsCalled ==
  ASSUME AgInv, SppConnects \/ _handle_method_call
  PROVE  AgInv'
<1> USE AgentAssumption
<1>0. sppCalls \in Nat /\ sppLost \in Nat /\ sppCalls + sppLost <= MaxSppCalls
  <2>1. sppCalls \in Nat /\ sppLost \in Nat BY DEF AgInv, AgentTypeOK
  <2>2. sppCalls + sppLost <= MaxSppCalls BY Zenon DEF AgInv, SppCounts
  <2> QED BY <2>1, <2>2, Zenon
<1>7. /\ spp.known /\ Free => spp.object
      /\ sppLost > 0 => agentCause \cap {"spp early", "spp unregistered"} # {}
      /\ sppCalls > 0 /\ ~spp.object => "spp unregistered" \in agentCause
  BY Zenon DEF AgInv, SppHeld, SppCounts
<1>1. /\ UNCHANGED <<AgentPart, spp, sppStep, sppServer>> /\ agentCause \subseteq agentCause'
      /\ sppCalls' \in Nat /\ sppLost' \in Nat
      /\ sppCalls' + sppLost' <= MaxSppCalls
      /\ sppLost' > 0 => agentCause' \cap {"spp early", "spp unregistered"} # {}
      /\ sppCalls' > 0 /\ ~spp.object => "spp unregistered" \in agentCause'
  <2>1. CASE SppConnects /\ spp.object
    <3>1. /\ sppCalls + sppLost < MaxSppCalls /\ sppCalls' = sppCalls + 1
          /\ UNCHANGED <<AgentPart, spp, sppStep, sppServer, sppLost, agentCause>>
      BY <2>1 DEF SppConnects
    <3>2. /\ sppCalls' \in Nat /\ sppLost' \in Nat /\ sppCalls' + sppLost' <= MaxSppCalls
      BY <1>0, <3>1
    <3> QED BY <1>7, <2>1, <3>1, <3>2, Zenon
  <2>2. CASE SppConnects /\ ~spp.object
    <3>1. /\ sppCalls + sppLost < MaxSppCalls /\ sppLost' = sppLost + 1
          /\ agentCause' = agentCause \cup {"spp early"}
          /\ UNCHANGED <<AgentPart, spp, sppStep, sppServer, sppCalls>>
      BY <1>7, <2>2 DEF SppConnects
    <3>2. /\ sppCalls' \in Nat /\ sppLost' \in Nat /\ sppCalls' + sppLost' <= MaxSppCalls
      <4>1. sppCalls + sppLost < MaxSppCalls /\ sppLost' = sppLost + 1 /\ sppCalls' = sppCalls
        BY <3>1, Zenon
      <4> QED BY <1>0, <4>1
    <3>3. "spp early" \in agentCause' /\ agentCause \subseteq agentCause'
      BY <3>1, Zenon
    <3>4. sppCalls' = sppCalls /\ UNCHANGED <<AgentPart, spp, sppStep, sppServer>> BY <3>1
    <3>5. sppCalls' > 0 => "spp unregistered" \in agentCause' BY <1>7, <2>2, <3>3, <3>4, Zenon
    <3>6. agentCause' \cap {"spp early", "spp unregistered"} # {} BY <3>3, Zenon
    <3> QED BY <3>2, <3>3, <3>4, <3>5, <3>6, Zenon
  <2>3. CASE _handle_method_call /\ spp.object
    <3>1. /\ sppCalls > 0 /\ sppCalls' = sppCalls - 1
          /\ UNCHANGED <<AgentPart, spp, sppStep, sppServer, sppLost, agentCause>>
      BY <2>3 DEF _handle_method_call
    <3>2. /\ sppCalls' \in Nat /\ sppLost' \in Nat /\ sppCalls' + sppLost' <= MaxSppCalls
      BY <1>0, <3>1
    <3> QED BY <1>7, <2>3, <3>1, <3>2, Zenon
  <2>4. CASE _handle_method_call /\ ~spp.object
    <3>1. /\ sppCalls > 0 /\ sppCalls' = sppCalls - 1 /\ sppLost' = sppLost + 1
          /\ UNCHANGED <<AgentPart, spp, sppStep, sppServer, agentCause>>
      BY <2>4 DEF _handle_method_call
    <3>2. /\ sppCalls' \in Nat /\ sppLost' \in Nat /\ sppCalls' + sppLost' <= MaxSppCalls
      BY <1>0, <3>1
    <3>3. "spp unregistered" \in agentCause' BY <1>7, <2>4, <3>1, Zenon
    <3>4. agentCause' \cap {"spp early", "spp unregistered"} # {} BY <3>3, Zenon
    <3> QED BY <3>1, <3>2, <3>3, <3>4, Zenon
  <2> QED BY <2>1, <2>2, <2>3, <2>4
<1>6. sppFault' \in BOOLEAN /\ ~sppFault'
  <2>1. sppFault' = sppFault \/ (spp.object /\ sppFault' = (sppFault \/ ~sppServer))
    BY DEF SppConnects, _handle_method_call
  <2>2. /\ sppFault \in BOOLEAN /\ ~sppFault /\ (spp.object => sppServer)
        /\ sppServer \in BOOLEAN
    BY DEF AgInv, AgentTypeOK, SppHeld
  <2>3. sppFault = FALSE BY <2>2, Zenon
  <2>4. sppFault' = FALSE
    <3>1. CASE sppFault' = sppFault BY <2>3, <3>1, Zenon
    <3>2. CASE spp.object /\ sppFault' = (sppFault \/ ~sppServer)
      <4>1. sppServer = TRUE BY <2>2, <3>2, Zenon
      <4>2. (sppFault \/ ~sppServer) = FALSE BY <2>3, <4>1
      <4> QED BY <3>2, <4>2, Zenon
    <3> QED BY <2>1, <3>1, <3>2, Zenon
  <2> QED BY <2>4, Zenon
<1>2. AgentTypeOK'
  <2>1. sppCalls' \in 0..MaxSppCalls /\ sppLost' \in 0..MaxSppCalls
    <3>1. ASSUME NEW a \in Nat, NEW b \in Nat, a + b <= MaxSppCalls
          PROVE  a \in 0..MaxSppCalls /\ b \in 0..MaxSppCalls
      BY <3>1
    <3> QED BY <1>1, <3>1
  <2> QED BY <1>1, <1>6, <2>1 DEF AgInv, AgentTypeOK, AgentPart
<1>3. SppHeld' BY <1>1, <1>6 DEF AgInv, SppHeld, Free
<1>4. SppCounts' BY <1>1 DEF SppCounts
<1>5. AgentHeld' /\ AgentPlaces' BY <1>1, AgentStays
<1> QED BY <1>2, <1>3, <1>4, <1>5 DEF AgInv

LEMMA AgentStep ==
  ASSUME AgInv, AgentNext
  PROVE  AgInv'
<1>1. CASE bt_agent_register_capability \/ bt_agent_unregister BY <1>1, AgentCalls
<1>2. CASE bt_agent_set_default
  BY <1>2 DEF bt_agent_set_default, agentVars, AgInv, AgentTypeOK, AgentHeld, AgentPlaces,
     SppHeld, SppCounts, KnownAgentExported, AgentLeftHasCause, Free
<1>3. CASE bt_agent_set_callback
  <2>1. /\ agentCb' = TRUE
        /\ UNCHANGED <<agent, asking, held, agentDone, SppPart, agentCause>>
    BY <1>3 DEF bt_agent_set_callback
  <2>2. agentCb' \in BOOLEAN BY <2>1, Zenon
  <2>3. AgentTypeOK' BY <2>1, <2>2 DEF AgInv, AgentTypeOK, SppPart
  <2>4. AgentHeld' /\ AgentPlaces'
    BY <2>1 DEF AgInv, AgentHeld, AgentPlaces, KnownAgentExported, AgentLeftHasCause
  <2>5. SppHeld' /\ SppCounts' BY <2>1, SppStays
  <2> QED BY <2>3, <2>4, <2>5 DEF AgInv
<1>4. CASE \E r \in 1..MaxAgentReqs : bt_agent_send(r) \/ handle_method_call(r) \/ AgentAsks(r)
  BY <1>4, AgentRequests
<1>5. CASE bt_spp_register_profile \/ _register_spp_object \/ bt_spp_unregister_profile
  BY <1>5, SppRegisters
<1>6. CASE SppConnects \/ _handle_method_call BY <1>6, SppIsCalled
<1>7. CASE BluezRestarts
  <2>1. /\ agent' = [agent EXCEPT !.known = FALSE] /\ spp' = [spp EXCEPT !.known = FALSE]
        /\ agentCause' = agentCause \cup {"restart"}
        /\ UNCHANGED <<agentCb, asking, held, agentDone, sppStep, sppServer, sppCalls,
                       sppLost, sppFault>>
    BY <1>7 DEF BluezRestarts
  <2>2. agent \in Records /\ spp \in Records BY DEF AgInv, AgentTypeOK, Records
  <2>3. FALSE \in BOOLEAN BY Zenon
  <2>4. /\ agent' \in Records /\ agent'.object = agent.object /\ agent'.id = agent.id
        /\ agent'.known = FALSE
    BY <2>1, <2>2, <2>3, KnownIs
  <2>5. /\ spp' \in Records /\ spp'.object = spp.object /\ spp'.id = spp.id
        /\ spp'.known = FALSE
    BY <2>1, <2>2, <2>3, KnownIs
  <2>6. AgentTypeOK' BY <2>1, <2>4, <2>5 DEF AgInv, AgentTypeOK, Records
  <2>7. AgentHeld' /\ AgentPlaces'
    BY <2>1, <2>4 DEF AgInv, AgentHeld, AgentPlaces, KnownAgentExported, AgentLeftHasCause
  <2>8. SppHeld' /\ SppCounts' BY <2>1, <2>5 DEF AgInv, SppHeld, SppCounts, Free
  <2> QED BY <2>6, <2>7, <2>8 DEF AgInv
<1> QED
  BY <1>1, <1>2, <1>3, <1>4, <1>5, <1>6, <1>7
  DEF AgentNext, AgentApplication, os_bt_agent, os_bt_spp

\* An agent BlueZ knows is exported, one that is left behind has its cause, a
\* profile's object has its server and a connection is lost only in the gaps
\* SppLossHasCause names (agent.c, spp.c): in every state, whatever BlueZ
\* refuses and however often it restarts, for any number of requests.
THEOREM AgentIsSound == AgentSpec => []AgentSound
<1>1. AgentInit => AgInv
  <2> SUFFICES ASSUME AgentInit PROVE AgInv
    OBVIOUS
  <2> USE AgentAssumption
  <2>0. FALSE \in BOOLEAN BY Zenon
  <2>1. Off \in Records /\ Off.object = FALSE /\ Off.id = FALSE /\ Off.known = FALSE
    BY <2>0 DEF Off, Records
  <2>2. AgentTypeOK
    <3>1. agentDone \in [1..MaxAgentReqs -> 0..1] BY DEF AgentInit
    <3>2. sppCalls \in 0..MaxSppCalls /\ sppLost \in 0..MaxSppCalls BY DEF AgentInit
    <3>3. agentCb \in BOOLEAN /\ sppServer \in BOOLEAN /\ sppFault \in BOOLEAN
      BY <2>0, Zenon DEF AgentInit
    <3> QED BY <2>1, <3>1, <3>2, <3>3 DEF AgentInit, AgentTypeOK, Records
  <2>3. AgentHeld /\ AgentPlaces
    BY <2>1 DEF AgentInit, AgentHeld, AgentPlaces, KnownAgentExported, AgentLeftHasCause
  <2>4. SppHeld /\ SppCounts BY <2>1 DEF AgentInit, SppHeld, SppCounts
  <2> QED BY <2>2, <2>3, <2>4 DEF AgInv
<1>2. AgInv /\ [AgentNext]_agentVars => AgInv'
  <2>1. ASSUME AgInv, UNCHANGED agentVars PROVE AgInv'
    <3>1. UNCHANGED AgentPart /\ UNCHANGED SppPart /\ agentCause' = agentCause
      BY <2>1 DEF agentVars, AgentPart, SppPart
    <3>2. AgentTypeOK' BY <2>1, <3>1 DEF AgInv, AgentTypeOK, AgentPart, SppPart
    <3>3. AgentHeld' /\ AgentPlaces' BY <2>1, <3>1, AgentStays
    <3>4. SppHeld' /\ SppCounts' BY <2>1, <3>1, SppStays
    <3> QED BY <3>2, <3>3, <3>4 DEF AgInv
  <2> QED BY <2>1, AgentStep
<1>3. AgInv => AgentSound
  BY DEF AgInv, AgentSound, AgentHeld, SppHeld, SppCounts, SppObjectHasServer, SppLossHasCause
<1> QED BY <1>1, <1>2, <1>3, PTL DEF AgentSpec


-----------------------------------------------------------------------------
(* BtDevice.  A call is with BlueZ or among the replies until the main loop *)
(* has told the user, and a scan keeps the devices that were paired.        *)

Replied == [call : Call, ok : BOOLEAN]

DevTypes ==
  /\ hciState \in States
  /\ known \subseteq Addrs /\ paired \subseteq known /\ connected \subseteq known
  /\ calls \subseteq Call /\ made \in 0..MaxCalls
  /\ replies \in Seq(Replied)
  /\ answered \subseteq 1..made
  /\ scan \in [todo : SUBSET Addrs, victim : Addrs \cup {NoAddr}, keep : SUBSET Addrs]
  /\ answer \in {"none", "true", "untrue"}

\* Calls are numbered as they are made.
CallsMade == \A c \in Outstanding : c.id \in 1..made

\* The devices a scan must keep are paired, and the one it removes is not.
ScanKeeps == scan.keep \subseteq paired /\ scan.victim \notin scan.keep

DevInv == DevTypes /\ CallsMade /\ ProgressHasCall /\ ScanKeeps

\* An answer moves its call from BlueZ to the main loop.
LEMMA AnswerKeepsCalls ==
  ASSUME DevTypes, NEW c \in calls, NEW ok \in BOOLEAN, Answer(c, ok)
  PROVE  Outstanding' = Outstanding /\ calls' \subseteq Call /\ replies' \in Seq(Replied)
<1> DEFINE r == [call |-> c, ok |-> ok]
<1>1. c \in Call /\ r \in Replied /\ r.call = c
  BY DEF DevTypes, Replied
<1>2. replies' = Append(replies, r) /\ calls' = calls \ {c} /\ replies \in Seq(Replied)
  BY DEF Answer, DevTypes
<1> HIDE DEF r
<1>3. replies' \in Seq(Replied) /\ Len(replies') = Len(replies) + 1 /\ Len(replies) \in Nat
      /\ replies'[Len(replies) + 1] = r /\ \A i \in 1..Len(replies) : replies'[i] = replies[i]
  BY <1>1, <1>2
<1>4. DOMAIN replies = 1..Len(replies) /\ DOMAIN replies' = 1..(Len(replies) + 1)
  BY <1>2, <1>3
<1>5. {replies'[i].call : i \in DOMAIN replies'} = {replies[i].call : i \in DOMAIN replies} \cup {c}
  BY <1>1, <1>3, <1>4
<1>6. calls' \cup {c} = calls
  BY <1>2
<1>7. Outstanding' = Outstanding
  BY <1>5, <1>6 DEF Outstanding
<1> QED BY <1>2, <1>3, <1>7 DEF DevTypes

\* Dispatching takes at most the call of the reply out.
LEMMA DispatchTakesCall ==
  ASSUME DevTypes, replies # <<>>, replies' = Tail(replies), calls' = calls
  PROVE  /\ Outstanding' \subseteq Outstanding /\ replies' \in Seq(Replied)
         /\ Head(replies) \in Replied /\ Head(replies).call \in Outstanding
<1>1. replies \in Seq(Replied)
  BY DEF DevTypes
<1>2. replies' \in Seq(Replied) /\ Len(replies') = Len(replies) - 1 /\ Len(replies) \in Nat
      /\ Len(replies) > 0 /\ Head(replies) = replies[1]
      /\ \A i \in 1..(Len(replies) - 1) : replies'[i] = replies[i + 1]
  BY <1>1
<1>3. DOMAIN replies = 1..Len(replies) /\ DOMAIN replies' = 1..(Len(replies) - 1)
  BY <1>1, <1>2
<1>4. {replies'[i].call : i \in DOMAIN replies'} \subseteq {replies[i].call : i \in DOMAIN replies}
  <2> SUFFICES ASSUME NEW i \in DOMAIN replies'
               PROVE  \E j \in DOMAIN replies : replies'[i].call = replies[j].call
    OBVIOUS
  <2>1. i + 1 \in DOMAIN replies /\ replies'[i] = replies[i + 1]
    BY <1>2, <1>3
  <2> QED BY <2>1
<1>5. 1 \in DOMAIN replies
  BY <1>2, <1>3
<1>6. Head(replies) \in Replied
  BY <1>1, <1>2
<1> QED BY <1>2, <1>4, <1>5, <1>6 DEF Outstanding


\* While PAIRING or CONNECTING stays, or is set with a new call, and no call
\* is taken out, there is a call.
LEMMA ProgressKept ==
  ASSUME ProgressHasCall, Outstanding \subseteq Outstanding',
         hciState' \in {"IDLE", "PAIRED", "CONNECTED", hciState}
  PROVE  ProgressHasCall'
BY DEF ProgressHasCall

LEMMA SendKeeps ==
  ASSUME BtDeviceAssumption, DevTypes, CallsMade, ProgressHasCall, UNCHANGED replies,
         NEW method \in Methods, NEW d \in Addrs, NEW state,
         state = (IF method = "Pair" THEN "PAIRING" ELSE "CONNECTING"), Send(method, d, state)
  PROVE  /\ calls' \subseteq Call /\ made' \in 0..MaxCalls /\ made <= made'
         /\ hciState' \in States /\ answer' = "none"
         /\ CallsMade' /\ ProgressHasCall'
<1> DEFINE n == [id |-> made + 1, method |-> method, dev |-> d]
<1>1. made \in Nat /\ MaxCalls \in Nat /\ made < MaxCalls /\ made' = made + 1
  BY DEF DevTypes, Send, BtDeviceAssumption
<1>2. n \in Call /\ n.id = made + 1 /\ n.method = method
  BY <1>1 DEF Call
<1>3. calls' = calls \cup {n} /\ hciState' = state /\ answer' = "none"
  BY DEF Send
<1> HIDE DEF n
<1>4. Outstanding' = Outstanding \cup {n}
  BY <1>3 DEF Outstanding
<1>5. CallsMade'
  BY <1>1, <1>2, <1>4 DEF CallsMade
<1>6. ProgressHasCall'
  BY <1>2, <1>3, <1>4 DEF ProgressHasCall
<1>7. calls' \subseteq Call
  BY <1>2, <1>3 DEF DevTypes
<1> QED BY <1>1, <1>3, <1>5, <1>6, <1>7 DEF States

\* A call made without waiting, or the answer the state alone gives.
LEMMA StartStep ==
  ASSUME BtDeviceAssumption, DevInv, NEW d \in Addrs,
         bt_start_bond(d) \/ bt_connect(d) \/ bt_connect_profile(d) \/ FtpSession(d)
  PROVE  DevInv'
<1>1. UNCHANGED <<known, paired, connected, replies, answered, scan>>
  BY DEF bt_start_bond, bt_connect, bt_connect_profile, FtpSession, BlueZ
<1>2. \/ \E m \in Methods : \E s \in {IF m = "Pair" THEN "PAIRING" ELSE "CONNECTING"} : Send(m, d, s)
      \/ UNCHANGED <<hciState, calls, made>> /\ answer' \in {"true", "untrue"}
  BY DEF bt_start_bond, bt_connect, bt_connect_profile, FtpSession, _user_callback, Methods
<1>3. /\ calls' \subseteq Call /\ made' \in 0..MaxCalls /\ made <= made'
      /\ hciState' \in States /\ answer' \in {"none", "true", "untrue"}
      /\ CallsMade' /\ ProgressHasCall'
  <2>1. CASE \E m \in Methods : \E s \in {IF m = "Pair" THEN "PAIRING" ELSE "CONNECTING"} : Send(m, d, s)
    <3>1. PICK m \in Methods : Send(m, d, IF m = "Pair" THEN "PAIRING" ELSE "CONNECTING")
      BY <2>1
    <3> QED BY <1>1, <3>1, SendKeeps DEF DevInv
  <2>2. CASE UNCHANGED <<hciState, calls, made>> /\ answer' \in {"true", "untrue"}
    <3>1. Outstanding' = Outstanding
      BY <1>1, <2>2 DEF Outstanding
    <3> QED BY <2>2, <3>1 DEF DevInv, DevTypes, CallsMade, ProgressHasCall
  <2> QED BY <1>2, <2>1, <2>2
<1>4. DevTypes'
  <2>1. made \in Nat /\ made' \in Nat
    BY <1>3 DEF DevInv, DevTypes
  <2>2. answered' \subseteq 1..made'
    BY <1>1, <1>3, <2>1 DEF DevInv, DevTypes
  <2> QED BY <1>1, <1>3, <2>2 DEF DevInv, DevTypes
<1>5. ScanKeeps'
  BY <1>1 DEF DevInv, ScanKeeps
<1> QED BY <1>3, <1>4, <1>5 DEF DevInv

\* The steps that neither make nor take a call, and set hci.state to IDLE or
\* not at all.
LEMMA QuietStep ==
  ASSUME DevInv, UNCHANGED <<calls, made, replies, answered>>,
         hciState' \in {"IDLE", hciState}, answer' \in {"none", answer},
         known' \subseteq Addrs, paired' \subseteq known', connected' \subseteq known',
         scan' \in [todo : SUBSET Addrs, victim : Addrs \cup {NoAddr}, keep : SUBSET Addrs],
         ScanKeeps'
  PROVE  DevInv'
<1>1. Outstanding' = Outstanding
  BY DEF Outstanding
<1>2. DevTypes'
  BY DEF DevInv, DevTypes, States
<1> QED BY <1>1, <1>2, ProgressKept DEF DevInv, CallsMade

\* No scan runs while the application calls.
LEMMA RunningKeepsAll ==
  ASSUME DevInv, BtDeviceAssumption, Running, UNCHANGED scan
  PROVE  ScanKeeps' /\ scan' \in [todo : SUBSET Addrs, victim : Addrs \cup {NoAddr}, keep : SUBSET Addrs]
BY DEF Running, NoScan, ScanKeeps, DevInv, DevTypes

LEMMA DisconnectStep ==
  ASSUME BtDeviceAssumption, DevInv,
         (\E d \in Addrs : bt_disconnect(d) \/ bt_remove_device(d)) \/ bt_remove_devices
  PROVE  DevInv'
<1>1. Running /\ UNCHANGED scan
  BY DEF bt_disconnect, bt_remove_device, bt_remove_devices
<1>2. ScanKeeps' /\ scan' \in [todo : SUBSET Addrs, victim : Addrs \cup {NoAddr}, keep : SUBSET Addrs]
  BY <1>1, RunningKeepsAll
<1>3. /\ UNCHANGED <<calls, made, replies, answered>>
      /\ hciState' \in {"IDLE", hciState} /\ answer' = "none"
      /\ known' \subseteq Addrs /\ paired' \subseteq known' /\ connected' \subseteq known'
  BY DEF DevInv, DevTypes, bt_disconnect, bt_remove_device, bt_remove_devices, RemoveAll
<1> QED BY <1>2, <1>3, QuietStep

\* CancelPairing moves the Pair call, if there is one, to the main loop.
LEMMA StopBondStep ==
  ASSUME BtDeviceAssumption, DevInv, NEW d \in Addrs, bt_stop_bond(d)
  PROVE  DevInv'
<1>1. Running /\ hciState' = "IDLE" /\ answer' = "none"
      /\ UNCHANGED <<known, paired, connected, made, answered, scan>>
  BY DEF bt_stop_bond, BlueZ
<1>2. ScanKeeps' /\ scan' \in [todo : SUBSET Addrs, victim : Addrs \cup {NoAddr}, keep : SUBSET Addrs]
  BY <1>1, RunningKeepsAll
<1>3. Outstanding' = Outstanding /\ calls' \subseteq Call /\ replies' \in Seq(Replied)
  <2>1. CASE \E c \in calls : Answer(c, FALSE)
    <3>1. FALSE \in BOOLEAN
      BY Zenon
    <3> QED BY <2>1, <3>1, AnswerKeepsCalls DEF DevInv
  <2>2. CASE UNCHANGED <<calls, replies>>
    BY <2>2 DEF Outstanding, DevInv, DevTypes
  <2> QED BY <2>1, <2>2 DEF bt_stop_bond
<1>4. ProgressHasCall' /\ CallsMade'
  BY <1>1, <1>3, ProgressKept DEF DevInv, CallsMade
<1>5. DevTypes'
  BY <1>1, <1>2, <1>3 DEF DevInv, DevTypes, States
<1> QED BY <1>2, <1>4, <1>5 DEF DevInv

\* The scan looks at a device: it is to be removed only if it is not paired.
LEMMA ScanStep ==
  ASSUME BtDeviceAssumption, DevInv,
         \/ bt_start_scan
         \/ \E d \in scan.todo : bt_remove_unpaired_devices(d)
         \/ ScanRemoves
  PROVE  DevInv'
<1> DEFINE Scans == [todo : SUBSET Addrs, victim : Addrs \cup {NoAddr}, keep : SUBSET Addrs]
<1>0. NoScan \in Scans /\ NoScan.keep = {} /\ NoAddr \notin Addrs /\ scan \in Scans
      /\ scan.keep \subseteq paired /\ scan.victim \notin scan.keep
      /\ known \subseteq Addrs /\ paired \subseteq known /\ connected \subseteq known
  BY DEF BtDeviceAssumption, NoScan, DevInv, DevTypes, ScanKeeps
<1>1. CASE bt_start_scan
  <2>1. scan' = [todo |-> _get_devices, victim |-> NoAddr, keep |-> paired] /\ UNCHANGED BlueZ
        /\ _get_devices \subseteq Addrs
    BY <1>1 DEF bt_start_scan, _get_devices
  <2>2. scan' \in Scans /\ scan'.keep \subseteq paired /\ scan'.victim \notin scan'.keep
    BY <1>0, <2>1
  <2>3. hciState' = hciState /\ answer' = "none" /\ UNCHANGED <<calls, made, replies, answered>>
    BY <1>1 DEF bt_start_scan
  <2> QED BY <1>0, <2>1, <2>2, <2>3, QuietStep DEF ScanKeeps, BlueZ
<1>2. CASE \E d \in scan.todo : bt_remove_unpaired_devices(d)
  <2>1. PICK d \in scan.todo : bt_remove_unpaired_devices(d)
    BY <1>2
  <2>2. d \in Addrs /\ UNCHANGED <<hciState, BlueZ, calls, made, replies, answered, answer>>
    BY <1>0, <2>1 DEF bt_remove_unpaired_devices
  <2>3. CASE d \notin paired
    <3>1. scan' = [scan EXCEPT !.todo = @ \ {d}, !.victim = d]
      BY <2>1, <2>3 DEF bt_remove_unpaired_devices, _is_paired
    <3>2. scan' \in Scans /\ scan'.keep = scan.keep /\ scan'.victim = d
      BY <1>0, <2>2, <3>1
    <3> QED BY <1>0, <2>2, <2>3, <3>2, QuietStep DEF ScanKeeps, BlueZ
  <2>4. CASE d \in paired
    <3>1. \/ scan' = NoScan
          \/ scan' = [scan EXCEPT !.todo = @ \ {d}, !.keep = @ \ {d}]
      BY <2>1, <2>4 DEF bt_remove_unpaired_devices, _is_paired
    <3>2. scan' \in Scans /\ scan'.keep \subseteq scan.keep
          /\ scan'.victim \in {NoAddr, scan.victim}
      BY <1>0, <3>1 DEF NoScan
    <3> QED BY <1>0, <2>2, <3>2, QuietStep DEF ScanKeeps, BlueZ
  <2> QED BY <2>3, <2>4
<1>3. CASE ScanRemoves
  <2>1. /\ hciState' \in {"IDLE", hciState} /\ UNCHANGED <<calls, made, replies, answered, answer>>
        /\ known' = known \ {scan.victim} /\ paired' = paired \ {scan.victim}
        /\ connected' = connected \ {scan.victim}
        /\ \/ scan' = NoScan
           \/ scan' = [scan EXCEPT !.victim = NoAddr]
    BY <1>3 DEF ScanRemoves, RemoveAll
  <2>2. scan' \in Scans /\ scan'.keep \subseteq scan.keep /\ scan'.victim = NoAddr
    BY <1>0, <2>1 DEF NoScan
  <2>3. ScanKeeps'
    BY <1>0, <2>1, <2>2 DEF ScanKeeps
  <2> QED BY <1>0, <2>1, <2>2, <2>3, QuietStep
<1> QED BY <1>1, <1>2, <1>3

\* A device found, linked or paired from the other side.
LEMMA RemoteStep ==
  ASSUME DevInv, NEW d \in Addrs, Found(d) \/ Link(d) \/ RemotePairs(d)
  PROVE  DevInv'
<1>1. /\ UNCHANGED <<hciState, calls, made, replies, answered, scan>> /\ answer' = "none"
      /\ known' \subseteq Addrs /\ paired' \subseteq known' /\ connected' \subseteq known'
      /\ paired \subseteq paired'
  BY DEF Found, Link, RemotePairs, DevInv, DevTypes
<1>2. ScanKeeps' /\ scan' \in [todo : SUBSET Addrs, victim : Addrs \cup {NoAddr}, keep : SUBSET Addrs]
  BY <1>1 DEF DevInv, DevTypes, ScanKeeps
<1> QED BY <1>1, <1>2, QuietStep

\* BlueZ answers.
LEMMA ReplyStep ==
  ASSUME DevInv, NEW c \in calls, NEW ok \in BOOLEAN, Reply(c, ok)
  PROVE  DevInv'
<1>1. Outstanding' = Outstanding /\ calls' \subseteq Call /\ replies' \in Seq(Replied)
  BY AnswerKeepsCalls DEF Reply, DevInv
<1>2. /\ UNCHANGED <<hciState, known, made, answered, scan>> /\ answer' = "none"
      /\ paired' \subseteq known /\ connected' \subseteq known /\ paired \subseteq paired'
  BY DEF Reply, DevInv, DevTypes
<1>3. DevTypes' /\ ScanKeeps'
  BY <1>1, <1>2 DEF DevInv, DevTypes, ScanKeeps
<1>4. CallsMade' /\ ProgressHasCall'
  BY <1>1, <1>2, ProgressKept DEF DevInv, CallsMade
<1> QED BY <1>3, <1>4 DEF DevInv

\* The main loop tells the user, and hci.state leaves PAIRING and CONNECTING.
LEMMA DispatchStep ==
  ASSUME BtDeviceAssumption, DevInv, Dispatch
  PROVE  DevInv'
<1> DEFINE c == Head(replies).call
<1>1. /\ Running /\ replies # <<>> /\ replies' = Tail(replies) /\ answer' = "none"
      /\ UNCHANGED <<known, paired, connected, calls, made, scan>>
  BY DEF Dispatch, BlueZ
<1>2. /\ Outstanding' \subseteq Outstanding /\ replies' \in Seq(Replied) /\ c \in Outstanding
  BY <1>1, DispatchTakesCall DEF DevInv
<1>3. hciState' \in {"PAIRED", "CONNECTED", "IDLE"} /\ answered' = answered \cup {c.id}
  BY DEF Dispatch, bt_bond_callback, bt_connect_callback, _ftp_session_callback
<1> HIDE DEF c
<1>4. CallsMade' /\ c.id \in 1..made
  BY <1>1, <1>2 DEF DevInv, CallsMade
<1>5. ProgressHasCall'
  BY <1>3 DEF ProgressHasCall
<1>6. ScanKeeps'
  BY <1>1, RunningKeepsAll
<1>7. DevTypes'
  BY <1>1, <1>2, <1>3, <1>4 DEF DevInv, DevTypes, States
<1> QED BY <1>4, <1>5, <1>6, <1>7 DEF DevInv

\* However many calls for however many devices write the one hci.state, and
\* whatever BlueZ does between the list, the test and the removal of a scan,
\* PAIRING and CONNECTING end with a reply and the paired devices stay
\* (device.c, adapter.c).
THEOREM DevicesAreSound == BtSpec => []DevicesSound
<1>1. BtInit => DevInv
  <2> SUFFICES ASSUME BtInit PROVE DevInv
    OBVIOUS
  <2>1. Outstanding = {}
    BY DEF BtInit, Outstanding
  <2>2. replies \in Seq(Replied)
    BY DEF BtInit
  <2> QED BY <2>1, <2>2, BtDeviceAssumption
       DEF BtInit, DevInv, DevTypes, CallsMade, ProgressHasCall, ScanKeeps, NoScan, States, BtDeviceAssumption
<1>2. DevInv /\ [BtNext]_btVars => DevInv'
  <2> SUFFICES ASSUME DevInv, [BtNext]_btVars PROVE DevInv'
    OBVIOUS
  <2>1. CASE \E d \in Addrs : os_bt_device(d)
    BY <2>1, BtDeviceAssumption, StartStep, DisconnectStep, StopBondStep DEF os_bt_device
  <2>2. CASE bt_remove_devices
    BY <2>2, BtDeviceAssumption, DisconnectStep
  <2>3. CASE bt_start_scan \/ (\E d \in scan.todo : bt_remove_unpaired_devices(d)) \/ ScanRemoves
    BY <2>3, BtDeviceAssumption, ScanStep
  <2>4. CASE Dispatch
    BY <2>4, BtDeviceAssumption, DispatchStep
  <2>5. CASE \E d \in Addrs : Found(d) \/ Link(d) \/ RemotePairs(d)
    BY <2>5, RemoteStep
  <2>6. CASE \E c \in calls, ok \in BOOLEAN : Reply(c, ok)
    BY <2>6, ReplyStep
  <2>7. CASE UNCHANGED btVars
    BY <2>7 DEF btVars, DevInv, DevTypes, CallsMade, ProgressHasCall, ScanKeeps, Outstanding
  <2> QED BY <2>1, <2>2, <2>3, <2>4, <2>5, <2>6, <2>7 DEF BtNext, artik_bluetooth_device, BtLibrary
<1>3. DevInv => DevicesSound
  BY DEF DevInv, DevTypes, ScanKeeps, DevicesSound, BtTypeOK, ScanKeepsPaired, Replied
<1> QED BY <1>1, <1>2, <1>3, PTL DEF BtSpec

-----------------------------------------------------------------------------
(* BtProfiles, network and remote control.  The items are always those of  *)
(* the list given last, so only its release makes them dangle.             *)

ListHeld ==
  /\ itemsList \in [list : 0..lists.given, dev : MediaDevs \cup {NoDev}, folder : Folders]
  /\ FindItem => itemsList.list = lists.given /\ lists.given >= 1 /\ itemsList.dev \in MediaDevs
  /\ lists \in [given : 0..MaxLists, alive : SUBSET (1..MaxLists)]
  /\ lists.given \in lists.alive \/ lists.given = 0 \/ "last list freed" \in avCause

MediaInv == MediaTypeOK /\ LinkHasPath /\ ItemsAreFresh /\ ItemFaultHasCause /\ ListHeld

LEMMA PanStep ==
  ASSUME MediaAssumption, MediaInv, PanNext, UNCHANGED avVars
  PROVE  MediaInv'
<1>1. MediaTypeOK'
  <2>1. panPath' \in MediaDevs \cup {NoDev, Malformed} /\ panLinks' \subseteq MediaDevs
    BY DEF PanNext, artik_bluetooth_pan, os_bt_pan, bt_pan_register, bt_pan_unregister, bt_pan_disconnect,
           bt_pan_connect, _generate_device_path, _pan_connect, PanLinkLost, MediaInv, MediaTypeOK
  <2>2. panRoles' \in BOOLEAN /\ panRefused' \in BOOLEAN
    <3>1. TRUE \in BOOLEAN /\ FALSE \in BOOLEAN
      BY Zenon
    <3> QED BY <3>1 DEF PanNext, artik_bluetooth_pan, os_bt_pan, bt_pan_register, bt_pan_unregister,
                        bt_pan_disconnect, bt_pan_connect, PanLinkLost, MediaInv, MediaTypeOK
  <2> QED BY <2>1, <2>2 DEF MediaInv, MediaTypeOK, avVars
<1>2. LinkHasPath'
  <2> SUFFICES ASSUME ~panRefused' PROVE _get_pan_property' = panLinks'
    BY DEF LinkHasPath
  <2>1. panPath = NoDev /\ ~panRefused => panLinks = {}
    BY DEF MediaInv, LinkHasPath, _get_pan_property, _is_network_path_valid
  <2>2. ~panRefused => panLinks \subseteq {panPath}
    BY DEF MediaInv, LinkHasPath, _get_pan_property, _is_network_path_valid
  <2>3. CASE \E d \in MediaDevs \cup {Malformed} : bt_pan_connect(d)
    <3>1. PICK d \in MediaDevs \cup {Malformed} : bt_pan_connect(d)
      BY <2>3
    <3>2. panPath = NoDev /\ panPath' = d /\ ~panRefused /\ panLinks = {}
          /\ panLinks' \subseteq {d} /\ (d = NoDev => panLinks' = {})
      BY <2>1, <3>1, MediaAssumption DEF bt_pan_connect, _is_network_path_valid, _generate_device_path, _pan_connect, MediaAssumption
    <3> QED BY <3>2 DEF _get_pan_property, _is_network_path_valid
  <2>4. CASE bt_pan_disconnect
    <3>1. panPath' = NoDev /\ panLinks' = panLinks \ {panPath} /\ ~panRefused
      BY <2>4 DEF bt_pan_disconnect
    <3> QED BY <2>2, <3>1 DEF _get_pan_property, _is_network_path_valid
  <2>5. CASE bt_pan_register \/ bt_pan_unregister
    BY <2>1, <2>2, <2>5 DEF bt_pan_register, bt_pan_unregister, _get_pan_property, _is_network_path_valid
  <2>6. CASE \E d \in MediaDevs : PanLinkLost(d)
    BY <2>1, <2>2, <2>6 DEF PanLinkLost, _get_pan_property, _is_network_path_valid
  <2> QED BY <2>3, <2>4, <2>5, <2>6 DEF PanNext, artik_bluetooth_pan, os_bt_pan
<1> QED BY <1>1, <1>2 DEF MediaInv, ItemsAreFresh, ItemFaultHasCause, ListHeld, FindItem, avVars

\* Listing the items: their paths point into the list that is given.
LEMMA ListItemStep ==
  ASSUME MediaAssumption, MediaInv, UNCHANGED panVars, NEW d \in MediaDevs, bt_avrcp_controller_list_item(d)
  PROVE  MediaInv'
<1> DEFINE g == lists.given + 1
           al == lists.alive \cup {g}
           f == folder[d]
<1>1. /\ lists.given \in Nat /\ MaxLists \in Nat /\ g \in 1..MaxLists /\ f \in Folders
      /\ lists.alive \subseteq 1..lists.given /\ al \subseteq 1..g /\ al \subseteq 1..MaxLists /\ g \in al
  BY DEF MediaInv, MediaTypeOK, bt_avrcp_controller_list_item, MediaAssumption
<1>2. /\ itemsList' = [list |-> g, dev |-> d, folder |-> f] /\ lists' = [given |-> g, alive |-> al]
      /\ moved' = FALSE /\ UNCHANGED <<players, folder, playing, avFault, avCause>>
  BY DEF bt_avrcp_controller_list_item, _parse_list
<1> HIDE DEF g, al, f
<1>3. itemsList'.list = g /\ itemsList'.dev = d /\ itemsList'.folder = f /\ lists'.given = g /\ lists'.alive = al
  BY <1>2
<1>4. ListHeld'
  <2>1. itemsList' \in [list : 0..g, dev : MediaDevs \cup {NoDev}, folder : Folders]
    BY <1>1, <1>2
  <2>2. lists' \in [given : 0..MaxLists, alive : SUBSET (1..MaxLists)]
    BY <1>1, <1>2
  <2>3. g >= 1
    BY <1>1
  <2> QED BY <1>1, <1>3, <2>1, <2>2, <2>3 DEF ListHeld
<1>5. ItemsAreFresh'
  BY <1>2, <1>3 DEF ItemsAreFresh, f
<1>6. MediaTypeOK'
  <2>1. moved' \in BOOLEAN
    BY <1>2, Zenon
  <2> QED BY <1>1, <1>2, <1>3, <2>1 DEF MediaInv, MediaTypeOK, panVars
<1> QED BY <1>2, <1>4, <1>5, <1>6 DEF MediaInv, LinkHasPath, _get_pan_property, _is_network_path_valid, ItemFaultHasCause, panVars

\* Steps that leave the lists alone; the player's folder moves only when that is noted.
LEMMA PlayerStep ==
  ASSUME MediaAssumption, MediaInv, UNCHANGED <<panVars, itemsList, lists, avFault, avCause>>,
         playing' \subseteq players' \X {"play", "repeat"}, players' \subseteq MediaDevs,
         folder' \in [MediaDevs -> Folders], moved' \in BOOLEAN,
         moved' \/ (folder' = folder /\ moved' = moved)
  PROVE  MediaInv'
<1>1. MediaTypeOK'
  BY DEF MediaInv, MediaTypeOK, panVars
<1>2. ItemsAreFresh' /\ ListHeld'
  BY DEF MediaInv, ItemsAreFresh, ListHeld, FindItem
<1> QED BY <1>1, <1>2 DEF MediaInv, LinkHasPath, _get_pan_property, _is_network_path_valid, ItemFaultHasCause, panVars

\* Freed memory is read only when the last list was freed.
LEMMA ItemFaultStep ==
  ASSUME MediaInv, UNCHANGED panVars, Dangling, ItemFault
  PROVE  MediaInv'
<1>1. avCause # {}
  <2>1. itemsList.list = lists.given /\ lists.given >= 1 /\ lists.given \notin lists.alive
    BY DEF MediaInv, ListHeld, Dangling
  <2>2. lists.given # 0
    BY <2>1
  <2> QED BY <2>1, <2>2 DEF MediaInv, ListHeld
<1>2. avFault' = TRUE /\ UNCHANGED <<players, folder, playing, itemsList, lists, moved, avCause>>
  BY DEF ItemFault
<1>3. avFault' \in BOOLEAN
  BY <1>2, Zenon
<1> QED BY <1>1, <1>2, <1>3 DEF MediaInv, MediaTypeOK, LinkHasPath, _get_pan_property, _is_network_path_valid,
           ItemsAreFresh, ItemFaultHasCause, ListHeld, FindItem, panVars

LEMMA ListFreedStep ==
  ASSUME MediaInv, UNCHANGED panVars, NEW n \in 1..MaxLists, ListFreed(n)
  PROVE  MediaInv'
<1> DEFINE al == lists.alive \ {n}
<1>1. /\ lists' = [lists EXCEPT !.alive = al]
      /\ avCause' = IF n = lists.given THEN avCause \cup {"last list freed"} ELSE avCause
      /\ UNCHANGED <<players, folder, playing, itemsList, moved, avFault>>
  BY DEF ListFreed
<1>2. al \subseteq lists.alive /\ (lists.given \in lists.alive /\ n # lists.given => lists.given \in al)
  OBVIOUS
<1> HIDE DEF al
<1>3. lists' \in [given : 0..MaxLists, alive : SUBSET (1..MaxLists)] /\ lists'.given = lists.given /\ lists'.alive = al
  BY <1>1, <1>2 DEF MediaInv, ListHeld
<1>4. ListHeld'
  BY <1>1, <1>2, <1>3 DEF MediaInv, ListHeld, FindItem
<1>5. MediaTypeOK'
  BY <1>1, <1>2, <1>3 DEF MediaInv, MediaTypeOK, panVars
<1>6. ItemsAreFresh'
  BY <1>1, <1>3 DEF MediaInv, ItemsAreFresh, FindItem
<1>7. ItemFaultHasCause'
  BY <1>1 DEF MediaInv, ItemFaultHasCause
<1> QED BY <1>4, <1>5, <1>6, <1>7 DEF MediaInv, LinkHasPath, _get_pan_property, _is_network_path_valid, panVars

LEMMA AvrcpStep ==
  ASSUME MediaAssumption, MediaInv, AvrcpNext, UNCHANGED panVars
  PROVE  MediaInv'
<1>1. /\ players \subseteq MediaDevs /\ playing \subseteq players \X {"play", "repeat"}
      /\ folder \in [MediaDevs -> Folders] /\ moved \in BOOLEAN /\ TRUE \in BOOLEAN
  <2>1. TRUE \in BOOLEAN
    BY Zenon
  <2> QED BY <2>1 DEF MediaInv, MediaTypeOK
<1>2. ASSUME NEW d \in MediaDevs, bt_avrcp_controller_change_folder(d), ~Dangling
      PROVE  MediaInv'
  <2>1. folder' = [folder EXCEPT ![d] = 1 - @] /\ moved' = TRUE
        /\ UNCHANGED <<players, playing, itemsList, lists, avFault, avCause>>
    BY <1>2 DEF bt_avrcp_controller_change_folder
  <2>2. folder' \in [MediaDevs -> Folders]
    BY <1>1, <2>1 DEF Folders
  <2> QED BY <1>1, <2>1, <2>2, PlayerStep
<1>3. ASSUME NEW d \in MediaDevs, _invoke_remote_control(d) \/ bt_avrcp_controller_set_repeat(d)
      PROVE  MediaInv'
  <2>1. d \in players /\ UNCHANGED <<players, folder, itemsList, lists, moved, avFault, avCause>>
        /\ playing' \subseteq playing \cup {<<d, "play">>, <<d, "repeat">>}
    BY <1>3 DEF _invoke_remote_control, bt_avrcp_controller_set_repeat, _get_player_path, _get_control_path, Toggle
  <2> QED BY <1>1, <2>1, PlayerStep
<1>4. ASSUME NEW d \in MediaDevs, PlayerConnects(d)
      PROVE  MediaInv'
  <2>1. /\ players' = (IF d \in players THEN players \ {d} ELSE players \cup {d})
        /\ folder' = [folder EXCEPT ![d] = 0]
        /\ playing' = playing \ ({d} \X {"play", "repeat"})
        /\ moved' = TRUE /\ UNCHANGED <<itemsList, lists, avFault, avCause>>
    BY <1>4 DEF PlayerConnects
  <2>2. folder' \in [MediaDevs -> Folders]
    BY <1>1, <2>1 DEF Folders
  <2>3. playing' \subseteq players' \X {"play", "repeat"} /\ players' \subseteq MediaDevs
    BY <1>1, <2>1
  <2> QED BY <1>1, <2>1, <2>2, <2>3, PlayerStep
<1>5. ASSUME NEW d \in MediaDevs, bt_avrcp_controller_change_folder(d), Dangling
      PROVE  MediaInv'
  BY <1>5, ItemFaultStep DEF bt_avrcp_controller_change_folder
<1> QED
  BY <1>2, <1>3, <1>4, <1>5, ListItemStep, ItemFaultStep, ListFreedStep
  DEF AvrcpNext, artik_bluetooth_avrcp_controller, os_bt_avrcp_controller, bt_avrcp_controller_item

\* Whatever is connected, listed and freed in whatever order, a link has its
\* path and the items are fresh (pan.c, avrcp.c).
LEMMA MediaIsSound == MediaSpec => []MediaInv
<1>1. MediaInit => MediaInv
  <2> SUFFICES ASSUME MediaInit PROVE MediaInv
    OBVIOUS
  <2>1. TRUE \in BOOLEAN /\ FALSE \in BOOLEAN
    BY Zenon
  <2>2. NoItems \in [list : 0..0, dev : MediaDevs \cup {NoDev}, folder : Folders] /\ NoItems.list = 0
    BY DEF NoItems, Folders
  <2>3. [d \in MediaDevs |-> 0] \in [MediaDevs -> Folders]
    BY DEF Folders
  <2>4. lists = [given |-> 0, alive |-> {}] /\ lists \in [given : 0..MaxLists, alive : SUBSET (1..MaxLists)]
        /\ lists.given = 0 /\ lists.alive = {}
    BY MediaAssumption DEF MediaInit, MediaAssumption
  <2> QED BY <2>1, <2>2, <2>3, <2>4, MediaAssumption
          DEF MediaInit, MediaInv, MediaTypeOK, LinkHasPath, _get_pan_property, _is_network_path_valid,
              ItemsAreFresh, ItemFaultHasCause, ListHeld, FindItem, MediaAssumption
<1>2. MediaInv /\ [MediaNext]_mediaVars => MediaInv'
  <2>1. ASSUME MediaInv, UNCHANGED mediaVars PROVE MediaInv'
    BY <2>1 DEF mediaVars, panVars, avVars, MediaInv, MediaTypeOK, LinkHasPath, _get_pan_property,
                _is_network_path_valid, ItemsAreFresh, ItemFaultHasCause, ListHeld, FindItem
  <2> QED BY <2>1, MediaAssumption, PanStep, AvrcpStep DEF MediaNext
<1> QED BY <1>1, <1>2, PTL DEF MediaSpec

-----------------------------------------------------------------------------
(* BtProfiles, audio source: what the calls BlueZ still waits with will    *)
(* find.  A transport that BlueZ has is the last it made, and either it is *)
(* the endpoint's, or the configuration that makes it so is the last one   *)
(* that waits.                                                             *)

EpCallSet == [method : {"select", "set", "clear"}, transport : 0..MaxTransports]

TransportSet == [made : 0..MaxTransports, live : SUBSET (1..MaxTransports)]

EpTypes ==
  /\ endpoint \in {NoEndpoint} \cup 0..transports.made
  /\ epObject \in BOOLEAN /\ epKnown \in BOOLEAN
  /\ transports \in TransportSet /\ transports.made \in 0..MaxTransports
  /\ transports.live \subseteq 1..transports.made
  /\ acquired \in {0} \cup transports.live
  /\ epCause \subseteq {"no endpoint", "unregistered", "transport gone"}
  /\ epCalls \in Seq(EpCallSet)

LiveIsLast == transports.live # {} => epKnown /\ transports.live = {transports.made}

NullHasCause == epCalls # <<>> /\ ~Endpoint => epCause # {}

PathHasCause == Endpoint /\ endpoint # 0 /\ endpoint \notin transports.live => epCause # {}

Sets(c) == c.method = "set"

SetHasCause ==
  \A i \in DOMAIN epCalls : Sets(epCalls[i]) =>
    /\ epCalls[i].transport \in 1..transports.made
    /\ epCalls[i].transport \in transports.live \/ epCause # {}

LastSet(i) ==
  /\ Sets(epCalls[i]) /\ epCalls[i].transport = transports.made
  /\ \A j \in DOMAIN epCalls : j > i => ~Sets(epCalls[j])

PathComes ==
  transports.live # {} =>
    \/ \E i \in DOMAIN epCalls : LastSet(i)
    \/ (\A j \in DOMAIN epCalls : ~Sets(epCalls[j])) /\ endpoint = transports.made

EpInv ==
  /\ EpTypes /\ KnownHasEndpoint /\ LiveIsLast /\ NullHasCause /\ PathHasCause
  /\ SetHasCause /\ PathComes /\ EndpointFaultHasCause

LEMMA MadeIsNat ==
  ASSUME EpInv
  PROVE  transports.made \in Nat /\ transports.made <= MaxTransports
<1>1. transports.made \in 0..MaxTransports
  BY DEF EpInv, EpTypes
<1> QED BY <1>1

\* Steps that leave BlueZ's transports and its calls alone.
LEMMA EpLocalStep ==
  ASSUME EpInv, UNCHANGED <<endpoint, epKnown, epObject, epCalls, transports>>,
         acquired' \in {0} \cup transports.live, epCause \subseteq epCause',
         epCause' \subseteq {"no endpoint", "unregistered", "transport gone"},
         epFault' => epFault \/ epCause' # {}
  PROVE  EpInv'
<1>1. epCause # {} => epCause' # {}
  OBVIOUS
<1>2. EpTypes' /\ KnownHasEndpoint' /\ LiveIsLast'
  BY DEF EpInv, EpTypes, KnownHasEndpoint, LiveIsLast, Endpoint
<1>3. NullHasCause' /\ PathHasCause' /\ SetHasCause' /\ EndpointFaultHasCause'
  BY <1>1, Zenon DEF EpInv, NullHasCause, PathHasCause, SetHasCause, EndpointFaultHasCause, Endpoint
<1>4. PathComes'
  BY Zenon DEF EpInv, PathComes, LastSet
<1> QED BY <1>2, <1>3, <1>4 DEF EpInv

\* NULL is used: without an endpoint, or where a transport is gone.
LEMMA DerefStep ==
  ASSUME EpInv, NEW c, Deref(c), c = "no endpoint" \/ (c = "none" /\ epCause # {})
  PROVE  EpInv'
<1>1. /\ UNCHANGED <<endpoint, epKnown, epObject, epCalls, transports, acquired>>
      /\ epCause' = IF c = "none" THEN epCause ELSE epCause \cup {c}
  BY DEF Deref
<1>2. epCause' # {} /\ epCause \subseteq epCause'
      /\ epCause' \subseteq {"no endpoint", "unregistered", "transport gone"}
  BY <1>1 DEF EpInv, EpTypes
<1>3. acquired' \in {0} \cup transports.live
  BY <1>1 DEF EpInv, EpTypes
<1> QED BY <1>1, <1>2, <1>3, EpLocalStep

LEMMA RegisterStep ==
  ASSUME EpInv, bt_a2dp_source_register
  PROVE  EpInv'
<1>1. PICK refused \in BOOLEAN : /\ epKnown => refused
                                 /\ epKnown' = (epKnown \/ ~refused)
                                 /\ epObject' = (epObject \/ ~refused)
  BY DEF bt_a2dp_source_register
<1>2. /\ endpoint' = IF Endpoint THEN endpoint ELSE 0
      /\ UNCHANGED <<epCalls, transports, acquired, epFault, epCause>>
  BY DEF bt_a2dp_source_register, bt_a2dp_source_create
<1>3. epKnown' \in BOOLEAN /\ epObject' \in BOOLEAN
  BY <1>1, Zenon
<1>4. transports.made \in Nat
  BY MadeIsNat
<1>5. EpTypes'
  <2>1. endpoint' \in {NoEndpoint} \cup 0..transports'.made
    <3>1. endpoint \in {NoEndpoint} \cup 0..transports.made
      BY DEF EpInv, EpTypes
    <3> QED BY <1>2, <1>4, <3>1
  <2> QED BY <1>2, <1>3, <2>1, Zenon DEF EpInv, EpTypes
<1>6. endpoint' # NoEndpoint
  BY <1>2 DEF Endpoint, NoEndpoint
<1>7. KnownHasEndpoint'
  BY <1>1, <1>6, Zenon DEF EpInv, KnownHasEndpoint, Endpoint
<1>8. epKnown => epKnown' /\ endpoint' = endpoint
  BY <1>1, <1>2, Zenon DEF EpInv, KnownHasEndpoint
<1>9. LiveIsLast' /\ SetHasCause' /\ EndpointFaultHasCause'
  BY <1>2, <1>8, Zenon DEF EpInv, LiveIsLast, SetHasCause, EndpointFaultHasCause
<1>10. NullHasCause' /\ PathHasCause'
  BY <1>2, <1>6, Zenon DEF EpInv, NullHasCause, PathHasCause, Endpoint
<1>11. PathComes'
  <2> SUFFICES ASSUME transports.live # {} PROVE PathComes'
    BY <1>2, Zenon DEF PathComes
  <2>1. endpoint' = endpoint
    BY <1>8, Zenon DEF EpInv, LiveIsLast
  <2> QED BY <1>2, <2>1, Zenon DEF EpInv, PathComes, LastSet
<1> QED BY <1>5, <1>7, <1>9, <1>10, <1>11 DEF EpInv

LEMMA UnregisterStep ==
  ASSUME EpInv, bt_a2dp_source_unregister
  PROVE  EpInv'
<1>1. CASE ~Endpoint
  BY <1>1, DerefStep, Zenon DEF bt_a2dp_source_unregister
<1>2. CASE Endpoint
  <2>1. /\ epKnown' = FALSE /\ endpoint' = NoEndpoint
        /\ transports' = [transports EXCEPT !.live = {}]
        /\ epCause' = IF epCalls # <<>> THEN epCause \cup {"unregistered"} ELSE epCause
        /\ acquired' = 0
        /\ UNCHANGED <<epObject, epCalls, epFault>>
    BY <1>2 DEF bt_a2dp_source_unregister, bt_a2dp_source_destroy
  <2>2. /\ transports'.made = transports.made /\ transports'.live = {}
        /\ transports' \in TransportSet
    BY <2>1 DEF EpInv, EpTypes, TransportSet
  <2>3. epKnown' \in BOOLEAN
    BY <2>1, Zenon
  <2>4. EpTypes'
    BY <2>1, <2>2, <2>3 DEF EpInv, EpTypes
  <2>5. KnownHasEndpoint' /\ LiveIsLast' /\ PathComes' /\ PathHasCause'
    BY <2>1, <2>2, Zenon DEF KnownHasEndpoint, LiveIsLast, PathComes, PathHasCause, Endpoint
  <2>6. epCause \subseteq epCause' /\ (epCalls # <<>> => epCause' # {})
    BY <2>1
  <2>7. epCause # {} => epCause' # {}
    BY <2>6
  <2>8. NullHasCause' /\ EndpointFaultHasCause'
    BY <2>1, <2>6, <2>7, Zenon DEF EpInv, NullHasCause, EndpointFaultHasCause
  <2>9. SetHasCause'
    <3> SUFFICES ASSUME NEW i \in DOMAIN epCalls, Sets(epCalls[i])
                 PROVE  epCalls[i].transport \in 1..transports.made /\ epCause' # {}
      BY <2>1, <2>2 DEF SetHasCause
    <3>1. epCalls # <<>>
      OBVIOUS
    <3> QED BY <2>6, <3>1 DEF EpInv, SetHasCause
  <2> QED BY <2>4, <2>5, <2>8, <2>9 DEF EpInv
<1> QED BY <1>1, <1>2

\* The application's calls on a transport.
LEMMA TransportStep ==
  ASSUME EpInv, bt_a2dp_source_acquire \/ bt_a2dp_source_get_properties \/ bt_a2dp_source_release
  PROVE  EpInv'
<1>1. CASE Deref("no endpoint")
  BY <1>1, DerefStep, Zenon
<1>2. CASE Endpoint /\ endpoint # 0 /\ endpoint \notin transports.live /\ Deref("none")
  BY <1>2, DerefStep DEF EpInv, PathHasCause
<1>3. CASE /\ acquired' \in {0} \cup transports.live
           /\ UNCHANGED <<endpoint, epObject, epKnown, epCalls, transports, epFault, epCause>>
  BY <1>3, EpLocalStep DEF EpInv, EpTypes
<1> QED BY <1>1, <1>2, <1>3 DEF bt_a2dp_source_acquire, bt_a2dp_source_get_properties, bt_a2dp_source_release

\* The main loop dispatches the call that waited longest.
LEMMA EndpointCallStep ==
  ASSUME EpInv, EndpointCall
  PROVE  EpInv'
<1> DEFINE c == Head(epCalls)
           t == Tail(epCalls)
<1>1. epCalls \in Seq(EpCallSet) /\ epCalls # <<>>
  BY DEF EndpointCall, EpInv, EpTypes
<1>2. /\ t \in Seq(EpCallSet) /\ c = epCalls[1] /\ 1 \in DOMAIN epCalls /\ c \in EpCallSet
      /\ \A j \in DOMAIN t : j + 1 \in DOMAIN epCalls /\ t[j] = epCalls[j + 1] /\ j \in Nat
      /\ \A i \in DOMAIN epCalls : i \in Nat /\ (i # 1 => i - 1 \in DOMAIN t /\ t[i - 1] = epCalls[i])
  BY <1>1
<1>3. /\ epCalls' = t
      /\ UNCHANGED <<epObject, epKnown, transports, acquired, epCause>>
      /\ \/ ~Endpoint /\ epFault' = TRUE /\ endpoint' = endpoint
         \/ /\ Endpoint /\ epFault' = epFault
            /\ \/ ~Sets(c) /\ endpoint' = endpoint
               \/ Sets(c) /\ endpoint' = c.transport
  BY DEF EndpointCall, _handle_set_configuration, _handle_clear_configuration, Sets
<1> HIDE DEF c, t
<1>4. transports.made \in Nat
  BY MadeIsNat
<1>5. Sets(c) => c.transport \in 1..transports.made /\ (c.transport \in transports.live \/ epCause # {})
  BY <1>2 DEF EpInv, SetHasCause
<1>6. EpTypes'
  <2>1. endpoint' \in {NoEndpoint} \cup 0..transports'.made
    <3>1. endpoint \in {NoEndpoint} \cup 0..transports.made
      BY DEF EpInv, EpTypes
    <3> QED BY <1>3, <1>4, <1>5, <3>1
  <2> QED BY <1>2, <1>3, <2>1, Zenon DEF EpInv, EpTypes
<1>7. endpoint' # NoEndpoint <=> Endpoint
  BY <1>3, <1>4, <1>5 DEF Endpoint, NoEndpoint
<1>8. KnownHasEndpoint' /\ LiveIsLast'
  BY <1>3, <1>7, Zenon DEF EpInv, KnownHasEndpoint, LiveIsLast, Endpoint
<1>9. NullHasCause' /\ EndpointFaultHasCause'
  <2>1. ~Endpoint => epCause # {}
    BY <1>1, Zenon DEF EpInv, NullHasCause
  <2>2. NullHasCause'
    BY <1>3, <1>7, <2>1, Zenon DEF NullHasCause, Endpoint
  <2>3. epFault' => epFault \/ ~Endpoint
    BY <1>3, Zenon
  <2> QED BY <1>3, <2>1, <2>2, <2>3, Zenon DEF EpInv, EndpointFaultHasCause
<1>10. PathHasCause'
  BY <1>3, <1>5, <1>7, Zenon DEF EpInv, PathHasCause, Endpoint
<1>11. SetHasCause'
  BY <1>2, <1>3, Zenon DEF EpInv, SetHasCause
<1>12. PathComes'
  <2> SUFFICES ASSUME transports.live # {} PROVE PathComes'
    BY <1>3, Zenon DEF PathComes
  <2>1. Endpoint
    BY Zenon DEF EpInv, LiveIsLast, KnownHasEndpoint
  <2>2. CASE \E i \in DOMAIN epCalls : LastSet(i)
    <3>1. PICK i \in DOMAIN epCalls : LastSet(i)
      BY <2>2
    <3>2. CASE i = 1
      <4>1. Sets(c) /\ c.transport = transports.made
        BY <1>2, <3>1, <3>2 DEF LastSet
      <4>2. ASSUME NEW j \in DOMAIN t PROVE ~Sets(t[j])
        <5>1. j + 1 \in DOMAIN epCalls /\ j + 1 > i /\ t[j] = epCalls[j + 1]
          BY <1>1, <1>2, <3>2, <4>2
        <5> QED BY <3>1, <5>1 DEF LastSet
      <4>3. endpoint' = transports.made
        BY <1>3, <2>1, <4>1, Zenon
      <4> QED BY <1>3, <4>2, <4>3, Zenon DEF PathComes
    <3>3. CASE i # 1
      <4>1. i - 1 \in DOMAIN t /\ t[i - 1] = epCalls[i] /\ i \in Nat
        BY <1>2, <3>3
      <4>2. Sets(t[i - 1]) /\ t[i - 1].transport = transports.made
        BY <3>1, <4>1 DEF LastSet
      <4>3. ASSUME NEW j \in DOMAIN t, j > i - 1 PROVE ~Sets(t[j])
        <5>1. j + 1 \in DOMAIN epCalls /\ j + 1 > i /\ t[j] = epCalls[j + 1]
          BY <1>2, <4>1, <4>3
        <5> QED BY <3>1, <5>1 DEF LastSet
      <4> QED BY <1>3, <4>1, <4>2, <4>3, Zenon DEF PathComes, LastSet
    <3> QED BY <3>2, <3>3
  <2>3. CASE (\A j \in DOMAIN epCalls : ~Sets(epCalls[j])) /\ endpoint = transports.made
    <3>1. ~Sets(c)
      BY <1>2, <2>3, Zenon
    <3>2. endpoint' = transports.made
      BY <1>3, <2>1, <2>3, <3>1, Zenon
    <3>3. \A j \in DOMAIN t : ~Sets(t[j])
      BY <1>2, <2>3, Zenon
    <3> QED BY <1>3, <3>2, <3>3, Zenon DEF PathComes
  <2> QED BY <2>2, <2>3, Zenon DEF EpInv, PathComes
<1> QED BY <1>6, <1>8, <1>9, <1>10, <1>11, <1>12 DEF EpInv

LEMMA StreamOpensStep ==
  ASSUME EndpointAssumption, EpInv, StreamOpens
  PROVE  EpInv'
<1> DEFINE m == transports.made + 1
           s == [method |-> "select", transport |-> 0]
           e == [method |-> "set", transport |-> m]
           q == epCalls \o <<s, e>>
           n == Len(epCalls)
<1>1. transports.made \in Nat /\ transports.made < MaxTransports /\ MaxTransports \in Nat /\ epKnown /\ transports.live = {}
  BY MadeIsNat DEF StreamOpens, EndpointAssumption
<1>2. m \in 1..MaxTransports /\ s \in EpCallSet /\ e \in EpCallSet /\ ~Sets(s) /\ Sets(e) /\ e.transport = m
  BY <1>1 DEF EpCallSet, Sets
<1>3. /\ transports' = [made |-> m, live |-> {m}]
      /\ epCalls' = q /\ UNCHANGED <<endpoint, epObject, epKnown, acquired, epFault, epCause>>
  BY DEF StreamOpens
<1> HIDE DEF s, e
<1>4. /\ q \in Seq(EpCallSet) /\ Len(q) = n + 2 /\ DOMAIN q = 1..(n + 2) /\ n \in Nat /\ DOMAIN epCalls = 1..n
      /\ \A i \in 1..n : q[i] = epCalls[i]
      /\ q[n + 1] = s /\ q[n + 2] = e
  <2>1. epCalls \in Seq(EpCallSet)
    BY DEF EpInv, EpTypes
  <2> QED BY <1>2, <2>1
<1>5. transports'.made = m /\ transports'.live = {m} /\ transports' \in TransportSet
  BY <1>1, <1>2, <1>3 DEF TransportSet
<1> HIDE DEF q, n
<1>6. EpTypes'
  <2>1. /\ endpoint' \in {NoEndpoint} \cup 0..transports'.made /\ transports'.made \in 0..MaxTransports
        /\ transports'.live \subseteq 1..transports'.made /\ acquired' \in {0} \cup transports'.live
    <3>1. endpoint \in {NoEndpoint} \cup 0..transports.made /\ acquired = 0
      BY <1>1 DEF EpInv, EpTypes
    <3> QED BY <1>1, <1>2, <1>3, <1>5, <3>1
  <2> QED BY <1>3, <1>4, <1>5, <2>1, Zenon DEF EpInv, EpTypes
<1>7. Endpoint /\ KnownHasEndpoint' /\ LiveIsLast' /\ NullHasCause' /\ EndpointFaultHasCause'
  BY <1>1, <1>3, <1>5, Zenon DEF EpInv, KnownHasEndpoint, LiveIsLast, NullHasCause, EndpointFaultHasCause, Endpoint
<1>8. PathHasCause'
  BY <1>1, <1>3 DEF EpInv, PathHasCause, Endpoint
<1>9. SetHasCause'
  <2> SUFFICES ASSUME NEW i \in 1..(n + 2), Sets(q[i])
               PROVE  q[i].transport \in 1..m /\ (q[i].transport \in {m} \/ epCause # {})
    BY <1>3, <1>4, <1>5 DEF SetHasCause
  <2>1. CASE i \in 1..n
    <3>1. epCalls[i].transport \in 1..transports.made /\ epCause # {}
      BY <1>1, <1>4, <2>1 DEF EpInv, SetHasCause
    <3> QED BY <1>1, <1>4, <2>1, <3>1
  <2>2. CASE i = n + 1
    BY <1>2, <1>4, <2>2
  <2>3. CASE i = n + 2
    BY <1>1, <1>2, <1>4, <2>3
  <2> QED BY <1>4, <2>1, <2>2, <2>3
<1>10. PathComes'
  <2>1. n + 2 \in DOMAIN q /\ \A j \in DOMAIN q : ~(j > n + 2)
    BY <1>4
  <2> QED BY <1>2, <1>3, <1>4, <1>5, <2>1, Zenon DEF PathComes, LastSet
<1> QED BY <1>6, <1>7, <1>8, <1>9, <1>10 DEF EpInv

LEMMA StreamClosesStep ==
  ASSUME EndpointAssumption, EpInv, StreamCloses
  PROVE  EpInv'
<1> DEFINE e == [method |-> "clear", transport |-> transports.made]
           q == Append(epCalls, e)
           n == Len(epCalls)
<1>1. transports.made \in Nat /\ MaxTransports \in Nat /\ e \in EpCallSet /\ ~Sets(e) /\ transports.live # {}
  <2>1. transports.made \in 0..MaxTransports
    BY DEF EpInv, EpTypes
  <2>2. transports.live # {}
    BY DEF StreamCloses
  <2> QED BY MadeIsNat, <2>1, <2>2 DEF EndpointAssumption, EpCallSet, Sets
<1>2. /\ transports' = [transports EXCEPT !.live = {}]
      /\ epCalls' = q /\ acquired' = 0 /\ epCause' = epCause \cup {"transport gone"}
      /\ UNCHANGED <<endpoint, epObject, epKnown, epFault>>
  BY DEF StreamCloses
<1> HIDE DEF e
<1>3. /\ q \in Seq(EpCallSet) /\ DOMAIN q = 1..(n + 1) /\ n \in Nat /\ DOMAIN epCalls = 1..n
      /\ \A i \in 1..n : q[i] = epCalls[i]
      /\ q[n + 1] = e
  <2>1. epCalls \in Seq(EpCallSet)
    BY DEF EpInv, EpTypes
  <2> QED BY <1>1, <2>1
<1>4. /\ transports'.made = transports.made /\ transports'.live = {}
      /\ transports' \in TransportSet
  BY <1>2 DEF EpInv, EpTypes, TransportSet
<1> HIDE DEF q, n
<1>5. epCause' # {} /\ epCause' \subseteq {"no endpoint", "unregistered", "transport gone"}
  BY <1>2 DEF EpInv, EpTypes
<1>6. EpTypes'
  BY <1>2, <1>3, <1>4, <1>5 DEF EpInv, EpTypes
<1>7. KnownHasEndpoint' /\ LiveIsLast' /\ NullHasCause' /\ EndpointFaultHasCause' /\ PathHasCause' /\ PathComes'
  BY <1>2, <1>4, <1>5, Zenon DEF EpInv, KnownHasEndpoint, LiveIsLast, NullHasCause, EndpointFaultHasCause, PathHasCause, PathComes, Endpoint
<1>8. SetHasCause'
  <2> SUFFICES ASSUME NEW i \in 1..(n + 1), Sets(q[i])
               PROVE  q[i].transport \in 1..transports.made
    BY <1>2, <1>3, <1>4, <1>5 DEF SetHasCause
  <2>1. i \in 1..n
    BY <1>1, <1>3
  <2> QED BY <1>3, <2>1 DEF EpInv, SetHasCause
<1> QED BY <1>6, <1>7, <1>8 DEF EpInv

\* What the run checks of the endpoint follows.
LEMMA EpInvSuffices ==
  ASSUME EpInv
  PROVE  /\ KnownHasEndpoint /\ EndpointFaultHasCause /\ PathFollows
         /\ endpoint \in {NoEndpoint} \cup 0..transports.made
         /\ epObject \in BOOLEAN /\ epKnown \in BOOLEAN
         /\ transports.made \in 0..MaxTransports /\ transports.live \subseteq 1..transports.made
         /\ acquired \in {0} \cup transports.live
         /\ epCause \subseteq {"no endpoint", "unregistered", "transport gone"}
<1>1. PathFollows
  <2> SUFFICES ASSUME epCalls = <<>>, transports.live # {} PROVE endpoint \in transports.live
    BY DEF PathFollows
  <2>1. DOMAIN epCalls = {}
    OBVIOUS
  <2>2. endpoint = transports.made /\ transports.live = {transports.made}
    BY <2>1, Zenon DEF EpInv, PathComes, LiveIsLast
  <2> QED BY <2>2
<1> QED BY <1>1 DEF EpInv, EpTypes

-----------------------------------------------------------------------------
(* BtProfiles, advertisements: whatever BlueZ may still read has its       *)
(* structure, unless the application freed it too early.                   *)

AdvSet == [path : 0..MaxAdverts, freed : BOOLEAN, asked : BOOLEAN, struct : BOOLEAN]

StructHasCause ==
  \A i \in DOMAIN advs : ~advs[i].struct /\ advs[i].path \in advReads \cup advKnown => advCause # {}

AdvInv ==
  /\ advs \in Seq(AdvSet) /\ Len(advs) <= MaxAdverts
  /\ advKnown \subseteq 0..MaxAdverts /\ advReads \subseteq 0..MaxAdverts
  /\ IdIsPath /\ StructHasCause /\ AdvertFaultHasCause

LEMMA AdvertRegistered ==
  ASSUME EndpointAssumption, AdvInv, bt_register_advertisement
  PROVE  AdvInv'
<1> DEFINE n == Len(advs)
           r == [path |-> n, freed |-> FALSE, asked |-> FALSE, struct |-> TRUE]
           q == Append(advs, r)
<1>1. advs \in Seq(AdvSet) /\ n \in Nat /\ n < MaxAdverts /\ MaxAdverts \in Nat /\ DOMAIN advs = 1..n
  BY DEF AdvInv, bt_register_advertisement, EndpointAssumption
<1>2. /\ advs' = q /\ advKnown' \subseteq advKnown \cup {n} /\ UNCHANGED <<advReads, advFault, advCause>>
  BY DEF bt_register_advertisement
<1>3. r \in AdvSet /\ r.path = n /\ ~r.freed /\ ~r.asked /\ r.struct
  <2>1. TRUE \in BOOLEAN /\ FALSE \in BOOLEAN
    BY Zenon
  <2>2. n \in 0..MaxAdverts
    BY <1>1
  <2> QED BY <2>1, <2>2 DEF AdvSet
<1> HIDE DEF r
<1>4. q \in Seq(AdvSet) /\ Len(q) = n + 1 /\ DOMAIN q = 1..(n + 1) /\ q[n + 1] = r /\ \A i \in 1..n : q[i] = advs[i]
  BY <1>1, <1>3
<1> HIDE DEF q, n
<1>5. \A i \in 1..(n + 1) : i = n + 1 \/ i \in 1..n
  BY <1>1
<1>6. IdIsPath'
  <2> SUFFICES ASSUME NEW i \in 1..(n + 1)
               PROVE  q[i].path = i - 1 /\ (q[i].freed <=> q[i].asked)
    BY <1>2, <1>4 DEF IdIsPath
  <2>1. CASE i = n + 1
    BY <1>1, <1>3, <1>4, <2>1
  <2>2. CASE i \in 1..n
    <3>1. q[i] = advs[i] /\ i \in DOMAIN advs
      BY <1>1, <1>4, <2>2
    <3> QED BY <3>1, Zenon DEF AdvInv, IdIsPath
  <2> QED BY <1>5, <2>1, <2>2
<1>7. StructHasCause'
  <2> SUFFICES ASSUME NEW i \in 1..(n + 1), ~q[i].struct, q[i].path \in advReads \cup advKnown'
               PROVE  advCause # {}
    BY <1>2, <1>4, Zenon DEF StructHasCause
  <2>1. i \in 1..n /\ q[i] = advs[i]
    BY <1>3, <1>4, <1>5
  <2>2. advs[i].path = i - 1
    BY <1>1, <2>1 DEF AdvInv, IdIsPath
  <2>3. i - 1 # n
    BY <1>1, <2>1
  <2>4. advs[i].path \in advReads \cup advKnown
    BY <1>2, <2>1, <2>2, <2>3
  <2> QED BY <1>1, <2>1, <2>4, Zenon DEF AdvInv, StructHasCause
<1>8. advKnown' \subseteq 0..MaxAdverts
  BY <1>1, <1>2 DEF AdvInv
<1>9. Len(q) <= MaxAdverts
  BY <1>1, <1>4
<1> QED BY <1>2, <1>4, <1>6, <1>7, <1>8, <1>9, Zenon DEF AdvInv, AdvertFaultHasCause

\* One element changes, and not its path.
LEMMA ElementStep ==
  ASSUME AdvInv, NEW id \in DOMAIN advs, NEW r \in AdvSet, r.path = advs[id].path,
         r.freed <=> r.asked,
         advs' = [advs EXCEPT ![id] = r], UNCHANGED <<advKnown, advReads>>,
         advCause \subseteq advCause',
         advFault' => advFault \/ advCause' # {},
         ~r.struct /\ r.path \in advReads \cup advKnown => advCause' # {}
  PROVE  AdvInv'
<1>1. advs \in Seq(AdvSet)
  BY DEF AdvInv
<1>2. /\ advs' \in Seq(AdvSet) /\ Len(advs') = Len(advs) /\ DOMAIN advs' = DOMAIN advs /\ advs'[id] = r
      /\ \A i \in DOMAIN advs : i # id => advs'[i] = advs[i]
  BY <1>1
<1>3. advCause # {} => advCause' # {}
  OBVIOUS
<1>4. IdIsPath'
  <2> SUFFICES ASSUME NEW i \in DOMAIN advs
               PROVE  advs'[i].path = i - 1 /\ (advs'[i].freed <=> advs'[i].asked)
    BY <1>2, Zenon DEF IdIsPath
  <2>1. CASE i = id
    BY <1>2, <2>1, Zenon DEF AdvInv, IdIsPath
  <2>2. CASE i # id
    BY <1>2, <2>2, Zenon DEF AdvInv, IdIsPath
  <2> QED BY <2>1, <2>2
<1>5. StructHasCause'
  <2> SUFFICES ASSUME NEW i \in DOMAIN advs, ~advs'[i].struct, advs'[i].path \in advReads \cup advKnown
               PROVE  advCause' # {}
    BY <1>2, Zenon DEF StructHasCause
  <2>1. CASE i = id
    BY <1>2, <2>1, Zenon
  <2>2. CASE i # id
    BY <1>2, <1>3, <2>2, Zenon DEF AdvInv, StructHasCause
  <2> QED BY <2>1, <2>2
<1>6. AdvertFaultHasCause'
  BY <1>3, Zenon DEF AdvInv, AdvertFaultHasCause
<1>7. Len(advs') <= MaxAdverts
  BY <1>2 DEF AdvInv
<1> QED BY <1>2, <1>4, <1>5, <1>6, <1>7, Zenon DEF AdvInv

LEMMA AdvertUnregistered ==
  ASSUME AdvInv, NEW id, bt_unregister_advertisement(id)
  PROVE  AdvInv'
<1> DEFINE a == advs[id]
           r == [a EXCEPT !.freed = TRUE, !.asked = TRUE]
<1>1. advs \in Seq(AdvSet) /\ id \in DOMAIN advs /\ a \in AdvSet
  <2>1. advs \in Seq(AdvSet) /\ id \in DOMAIN advs
    BY DEF AdvInv, bt_unregister_advertisement
  <2> QED BY <2>1
<1>2. /\ advs' = [advs EXCEPT ![id].freed = TRUE, ![id].asked = TRUE]
      /\ advFault' = (advFault \/ a.freed)
      /\ advCause' = IF a.freed THEN advCause \cup {"unregistered twice"} ELSE advCause
      /\ UNCHANGED <<advKnown, advReads>>
  BY DEF bt_unregister_advertisement
<1>3. advs' = [advs EXCEPT ![id] = r]
  BY <1>1, <1>2
<1>4. r \in AdvSet /\ r.path = a.path /\ (r.freed <=> r.asked) /\ r.struct = a.struct
  <2>1. TRUE \in BOOLEAN
    BY Zenon
  <2> QED BY <1>1, <2>1 DEF AdvSet
<1>5. advCause \subseteq advCause' /\ (a.freed => advCause' # {})
  BY <1>2
<1>6. ~a.struct /\ a.path \in advReads \cup advKnown => advCause # {}
  BY <1>1, Zenon DEF AdvInv, StructHasCause
<1>7. advCause # {} => advCause' # {}
  BY <1>5
<1> HIDE DEF a, r
<1>8. r.path = advs[id].path
  BY <1>4 DEF a
<1>9. advFault' => advFault \/ advCause' # {}
  BY <1>2, <1>5, Zenon
<1>10. ~r.struct /\ r.path \in advReads \cup advKnown => advCause' # {}
  BY <1>4, <1>6, <1>7, Zenon
<1>11. r \in AdvSet /\ (r.freed <=> r.asked) /\ id \in DOMAIN advs /\ UNCHANGED <<advKnown, advReads>> /\ advCause \subseteq advCause'
  BY <1>1, <1>2, <1>4, <1>5, Zenon
<1> QED BY <1>3, <1>8, <1>9, <1>10, <1>11, ElementStep, Zenon

LEMMA StructFreedStep ==
  ASSUME AdvInv, NEW id, StructFreed(id)
  PROVE  AdvInv'
<1> DEFINE a == advs[id]
           r == [a EXCEPT !.struct = FALSE]
<1>1. advs \in Seq(AdvSet) /\ id \in DOMAIN advs /\ a \in AdvSet
  <2>1. advs \in Seq(AdvSet) /\ id \in DOMAIN advs
    BY DEF AdvInv, StructFreed
  <2> QED BY <2>1
<1>2. /\ advs' = [advs EXCEPT ![id].struct = FALSE]
      /\ advCause' = IF a.path \in advReads \cup advKnown THEN advCause \cup {"freed while known"} ELSE advCause
      /\ UNCHANGED <<advKnown, advReads, advFault>>
  BY DEF StructFreed
<1>3. advs' = [advs EXCEPT ![id] = r]
  BY <1>1, <1>2
<1>4. r \in AdvSet /\ r.path = a.path /\ r.freed = a.freed /\ r.asked = a.asked
  <2>1. FALSE \in BOOLEAN
    BY Zenon
  <2> QED BY <1>1, <2>1 DEF AdvSet
<1>5. advCause \subseteq advCause' /\ (a.path \in advReads \cup advKnown => advCause' # {})
  BY <1>2
<1>6. a.freed <=> a.asked
  BY <1>1, Zenon DEF AdvInv, IdIsPath
<1> HIDE DEF a, r
<1>7. r.path = advs[id].path
  BY <1>4 DEF a
<1>8. r.path \in advReads \cup advKnown => advCause' # {}
  BY <1>4, <1>5, Zenon
<1>9. r \in AdvSet /\ (r.freed <=> r.asked) /\ id \in DOMAIN advs /\ UNCHANGED <<advKnown, advReads, advFault>>
      /\ advCause \subseteq advCause'
  BY <1>1, <1>2, <1>4, <1>5, <1>6, Zenon
<1> QED BY <1>3, <1>7, <1>8, <1>9, ElementStep, Zenon

\* BlueZ reads, drops and asks; the elements stay.
LEMMA BluezStep ==
  ASSUME AdvInv, NEW p \in 0..MaxAdverts, _handle_get_property(p) \/ BluezReads(p) \/ BluezDrops(p)
  PROVE  AdvInv'
<1>1. /\ advReads' \cup advKnown' \subseteq advReads \cup advKnown
      /\ advReads' \subseteq 0..MaxAdverts /\ advKnown' \subseteq 0..MaxAdverts
      /\ UNCHANGED <<advs, advCause>>
  BY DEF AdvInv, _handle_get_property, BluezReads, BluezDrops
<1>2. advFault' => advCause # {}
  <2>1. advFault => advCause # {}
    BY Zenon DEF AdvInv, AdvertFaultHasCause
  <2>2. CASE _handle_get_property(p)
    <3>1. p \in advReads \cup advKnown /\ advFault' = (advFault \/ \E i \in DOMAIN advs : advs[i].path = p /\ ~advs[i].struct)
      BY <2>2 DEF _handle_get_property
    <3> QED BY <2>1, <3>1, Zenon DEF AdvInv, StructHasCause
  <2>3. CASE advFault' = advFault
    BY <2>1, <2>3, Zenon
  <2> QED BY <2>2, <2>3 DEF BluezReads, BluezDrops
<1>3. StructHasCause'
  <2> SUFFICES ASSUME NEW i \in DOMAIN advs, ~advs[i].struct, advs[i].path \in advReads' \cup advKnown'
               PROVE  advCause # {}
    BY <1>1, Zenon DEF StructHasCause
  <2>1. advs[i].path \in advReads \cup advKnown
    BY <1>1
  <2> QED BY <2>1, Zenon DEF AdvInv, StructHasCause
<1> QED BY <1>1, <1>2, <1>3, Zenon DEF AdvInv, IdIsPath, AdvertFaultHasCause

LEMMA AdvertStep ==
  ASSUME EndpointAssumption, AdvInv, AdvertNext
  PROVE  AdvInv'
BY AdvertRegistered, AdvertUnregistered, StructFreedStep, BluezStep, Zenon DEF AdvertNext, artik_bluetooth_advertisement
-----------------------------------------------------------------------------
(* BtProfiles as a whole.                                                  *)

LEMMA EpStep ==
  ASSUME EndpointAssumption, EpInv, A2dpNext
  PROVE  EpInv'
BY RegisterStep, UnregisterStep, TransportStep, EndpointCallStep, StreamOpensStep, StreamClosesStep, Zenon
DEF A2dpNext, os_bt_a2dp_source

\* Whatever BlueZ calls, whenever the main loop comes to it, and whatever the
\* application registers and frees (a2dp.c, advertisement.c).
LEMMA EndpointIsSound == EndpointSpec => [](EpInv /\ AdvInv)
<1>1. EndpointInit => EpInv
  <2> SUFFICES ASSUME EndpointInit PROVE EpInv
    OBVIOUS
  <2>1. FALSE \in BOOLEAN
    BY Zenon
  <2>2. transports = [made |-> 0, live |-> {}] /\ transports \in TransportSet /\ transports.made = 0 /\ transports.live = {}
    BY EndpointAssumption DEF EndpointInit, EndpointAssumption, TransportSet
  <2>3. epCalls = <<>> /\ epCalls \in Seq(EpCallSet) /\ DOMAIN epCalls = {}
    BY DEF EndpointInit
  <2>4. /\ endpoint = NoEndpoint /\ epObject = FALSE /\ epKnown = FALSE /\ acquired = 0
        /\ epFault = FALSE /\ epCause = {}
    BY DEF EndpointInit
  <2>5. 0 \in 0..MaxTransports
    BY EndpointAssumption DEF EndpointAssumption
  <2>6. EpTypes
    BY <2>1, <2>2, <2>3, <2>4, <2>5 DEF EpTypes
  <2> QED BY <2>2, <2>3, <2>4, <2>6, Zenon
          DEF EpInv, KnownHasEndpoint, LiveIsLast, NullHasCause, PathHasCause,
              SetHasCause, PathComes, EndpointFaultHasCause, Endpoint
<1>2. EndpointInit => AdvInv
  <2> SUFFICES ASSUME EndpointInit PROVE AdvInv
    OBVIOUS
  <2>1. advs = <<>> /\ advs \in Seq(AdvSet) /\ DOMAIN advs = {} /\ Len(advs) <= MaxAdverts
    BY EndpointAssumption DEF EndpointInit, EndpointAssumption
  <2>2. advKnown = {} /\ advReads = {} /\ advFault = FALSE
    BY DEF EndpointInit
  <2> QED BY <2>1, <2>2 DEF AdvInv, IdIsPath, StructHasCause, AdvertFaultHasCause
<1>3. ASSUME EpInv, UNCHANGED epVars PROVE EpInv'
  BY <1>3, Zenon
  DEF epVars, EpInv, EpTypes, KnownHasEndpoint, LiveIsLast, NullHasCause, PathHasCause, SetHasCause,
      PathComes, LastSet, EndpointFaultHasCause, Endpoint
<1>4. ASSUME AdvInv, UNCHANGED advVars PROVE AdvInv'
  BY <1>4, Zenon DEF advVars, AdvInv, IdIsPath, StructHasCause, AdvertFaultHasCause
<1>5. EpInv /\ AdvInv /\ [EndpointNext]_endpointVars => (EpInv /\ AdvInv)'
  BY EndpointAssumption, EpStep, AdvertStep, <1>3, <1>4, Zenon DEF EndpointNext, endpointVars
<1> QED BY <1>1, <1>2, <1>5, PTL DEF EndpointSpec

\* A link has its path, the items are those listed last, the endpoint names
\* the transport that is there, ids stay positions, and freed memory or NULL
\* is met only after the calls the parts name (pan.c, avrcp.c, a2dp.c,
\* advertisement.c).
THEOREM ProfilesAreSound == MediaSpec /\ EndpointSpec => []ProfilesSound
<1>1. MediaInv /\ EpInv /\ AdvInv => ProfilesSound
  <2> SUFFICES ASSUME MediaInv, EpInv, AdvInv PROVE ProfilesSound
    OBVIOUS
  <2>1. MediaTypeOK /\ LinkHasPath /\ ItemsAreFresh /\ ItemFaultHasCause
    BY Zenon DEF MediaInv
  <2>2. advs \in Seq(AdvSet) /\ advKnown \cup advReads \subseteq 0..MaxAdverts /\ IdIsPath /\ AdvertFaultHasCause
    BY DEF AdvInv
  <2>3. \A i \in DOMAIN advs : advs[i].path \in 0..MaxAdverts
    <3>1. \A i \in DOMAIN advs : advs[i] \in AdvSet
      BY <2>2
    <3> QED BY <3>1 DEF AdvSet
  <2> QED BY <2>1, <2>2, <2>3, EpInvSuffices, Zenon DEF ProfilesSound, EndpointTypeOK
<1> QED BY <1>1, MediaIsSound, EndpointIsSound, PTL

-----------------------------------------------------------------------------
(* BtObex.  What is dispatched last of a kind is what the library ends     *)
(* with, so the last event of each kind that waits, or where none waits    *)
(* the variable itself, says what obexd has.                               *)

FtpMethods == {"CreateSession", "Suspend", "Resume", "Cancel"}

Events == ({"added", "removed", "done", "session"} \X Nat) \cup ({"reply"} \X FtpMethods \X BOOLEAN)

LastOf(s, kinds, i) ==
  /\ i \in DOMAIN s /\ s[i][1] \in kinds
  /\ \A j \in DOMAIN s : j > i => s[j][1] \notin kinds

EndsWith(s, kinds, e) == \E i : LastOf(s, kinds, i) /\ s[i] = e

NoneOf(s, kinds) == \A j \in DOMAIN s : s[j][1] \notin kinds

LEMMA AfterQuiet ==
  ASSUME NEW S, NEW s \in Seq(S), NEW q \in Seq(S), NEW kinds, NoneOf(q, kinds)
  PROVE  /\ NoneOf(s, kinds) => NoneOf(s \o q, kinds)
         /\ \A i : LastOf(s, kinds, i) => LastOf(s \o q, kinds, i) /\ (s \o q)[i] = s[i]
<1>1. /\ DOMAIN s = 1..Len(s) /\ DOMAIN q = 1..Len(q) /\ DOMAIN (s \o q) = 1..(Len(s) + Len(q))
      /\ Len(s) \in Nat /\ Len(q) \in Nat
      /\ \A j \in 1..Len(s) : (s \o q)[j] = s[j]
      /\ \A j \in 1..(Len(s) + Len(q)) : j \in 1..Len(s) \/ (j - Len(s) \in 1..Len(q) /\ (s \o q)[j] = q[j - Len(s)])
  OBVIOUS
<1> DEFINE t == s \o q
<1> HIDE DEF t
<1>2. ASSUME NEW j \in DOMAIN t PROVE (j \in DOMAIN s /\ t[j] = s[j]) \/ t[j][1] \notin kinds
  BY <1>1, <1>2 DEF NoneOf, t
<1>3. \A i \in DOMAIN s : i \in DOMAIN t /\ t[i] = s[i]
  BY <1>1 DEF t
<1>4. NoneOf(s, kinds) => NoneOf(t, kinds)
  BY <1>2, Zenon DEF NoneOf
<1>5. \A i : LastOf(s, kinds, i) => LastOf(t, kinds, i) /\ t[i] = s[i]
  BY <1>2, <1>3, Zenon DEF LastOf
<1> QED BY <1>4, <1>5 DEF t

LEMMA EndStays ==
  ASSUME NEW s \in Seq(Events), NEW q \in Seq(Events), NEW kinds
  PROVE  NoneOf(q, kinds) => /\ NoneOf(s, kinds) => NoneOf(s \o q, kinds)
                             /\ \A e : EndsWith(s, kinds, e) => EndsWith(s \o q, kinds, e)
<1> SUFFICES ASSUME NoneOf(q, kinds)
             PROVE  /\ NoneOf(s, kinds) => NoneOf(s \o q, kinds)
                    /\ \A e : EndsWith(s, kinds, e) => EndsWith(s \o q, kinds, e)
  OBVIOUS
<1>1. /\ NoneOf(s, kinds) => NoneOf(s \o q, kinds)
      /\ \A i : LastOf(s, kinds, i) => LastOf(s \o q, kinds, i) /\ (s \o q)[i] = s[i]
  BY AfterQuiet, Zenon
<1> QED BY <1>1, Zenon DEF EndsWith

LEMMA AfterLast ==
  ASSUME NEW S, NEW s \in Seq(S), NEW q \in Seq(S), NEW kinds
  PROVE  \A i : LastOf(q, kinds, i) => EndsWith(s \o q, kinds, q[i])
<1> SUFFICES ASSUME NEW i, LastOf(q, kinds, i)
             PROVE  EndsWith(s \o q, kinds, q[i])
  OBVIOUS
<1>1. /\ DOMAIN s = 1..Len(s) /\ DOMAIN q = 1..Len(q) /\ DOMAIN (s \o q) = 1..(Len(s) + Len(q))
      /\ Len(s) \in Nat /\ Len(q) \in Nat /\ i \in 1..Len(q)
      /\ \A j \in 1..Len(q) : (s \o q)[Len(s) + j] = q[j]
  BY DEF LastOf
<1> DEFINE t == s \o q
           n == Len(s)
<1> HIDE DEF t
<1>2. n + i \in DOMAIN t /\ t[n + i] = q[i]
  BY <1>1 DEF t
<1>3. ASSUME NEW j \in DOMAIN t, j > n + i PROVE t[j][1] \notin kinds
  <2>1. j - n \in 1..Len(q) /\ j - n > i /\ n + (j - n) = j
    BY <1>1, <1>3 DEF t
  <2>2. t[j] = q[j - n]
    BY <1>1, <2>1 DEF t
  <2> QED BY <1>1, <2>1, <2>2 DEF LastOf
<1>4. LastOf(t, kinds, n + i)
  BY <1>2, <1>3 DEF LastOf
<1> QED BY <1>2, <1>4, Zenon DEF t, EndsWith

LEMMA TailFacts ==
  ASSUME NEW S, NEW s \in Seq(S), s # <<>>
  PROVE  /\ Tail(s) \in Seq(S) /\ 1 \in DOMAIN s /\ Head(s) = s[1] /\ Head(s) \in S
         /\ \A j \in DOMAIN Tail(s) : j \in Nat /\ j >= 1 /\ j + 1 \in DOMAIN s /\ Tail(s)[j] = s[j + 1]
         /\ \A i \in DOMAIN s : i \in Nat /\ (i # 1 => i - 1 \in DOMAIN Tail(s) /\ Tail(s)[i - 1] = s[i])
OBVIOUS

LEMMA AfterHead ==
  ASSUME NEW S, NEW s \in Seq(S), s # <<>>, NEW kinds
  PROVE  /\ NoneOf(s, kinds) => NoneOf(Tail(s), kinds) /\ Head(s)[1] \notin kinds
         /\ LastOf(s, kinds, 1) => NoneOf(Tail(s), kinds)
         /\ \A i : LastOf(s, kinds, i) /\ i # 1 => LastOf(Tail(s), kinds, i - 1) /\ Tail(s)[i - 1] = s[i]
<1> DEFINE t == Tail(s)
<1>1. /\ 1 \in DOMAIN s /\ Head(s) = s[1]
      /\ \A j \in DOMAIN t : j \in Nat /\ j >= 1 /\ j + 1 \in DOMAIN s /\ t[j] = s[j + 1]
      /\ \A i \in DOMAIN s : i \in Nat /\ (i # 1 => i - 1 \in DOMAIN t /\ t[i - 1] = s[i])
  BY TailFacts
<1> HIDE DEF t
<1>2. NoneOf(s, kinds) => NoneOf(t, kinds) /\ Head(s)[1] \notin kinds
  BY <1>1 DEF NoneOf
<1>3. LastOf(s, kinds, 1) => NoneOf(t, kinds)
  <2> SUFFICES ASSUME LastOf(s, kinds, 1), NEW j \in DOMAIN t PROVE t[j][1] \notin kinds
    BY DEF NoneOf
  <2>1. j + 1 \in DOMAIN s /\ t[j] = s[j + 1] /\ j + 1 > 1
    BY <1>1
  <2> QED BY <2>1 DEF LastOf
<1>4. ASSUME NEW i, LastOf(s, kinds, i), i # 1 PROVE LastOf(t, kinds, i - 1) /\ t[i - 1] = s[i]
  <2>1. i \in DOMAIN s /\ i \in Nat /\ i - 1 \in DOMAIN t /\ t[i - 1] = s[i] /\ s[i][1] \in kinds
    BY <1>1, <1>4 DEF LastOf
  <2>2. ASSUME NEW j \in DOMAIN t, j > i - 1 PROVE t[j][1] \notin kinds
    <3>1. j + 1 \in DOMAIN s /\ t[j] = s[j + 1] /\ j + 1 > i
      BY <1>1, <2>1, <2>2
    <3> QED BY <1>4, <3>1 DEF LastOf
  <2> QED BY <2>1, <2>2 DEF LastOf
<1> QED BY <1>2, <1>3, <1>4 DEF t

-----------------------------------------------------------------------------
(* The invariant.                                                          *)

Begun(e, c) ==
  /\ e[1] = "session" => e[2] \in 0..c.sessions
  /\ e[1] = "added" => e[2] \in 1..c.transfers

ObTypes ==
  /\ ObexTypeOK
  /\ counts \in [sessions : Nat, transfers : Nat, calls : Nat]
  /\ events \in Seq(Events) /\ ftpCalls \in Seq(FtpMethods \X Nat)
  /\ \A i \in DOMAIN events : Begun(events[i], counts)
  /\ \A i \in DOMAIN ftpCalls : ftpCalls[i][1] = "CreateSession" => ftpCalls[i][2] \in 1..counts.sessions

Creates(n) == \E i \in DOMAIN ftpCalls : ftpCalls[i][1] = "CreateSession" /\ ftpCalls[i][2] = n

\* A daemon that does not run has nothing; a transfer is of a session it has.
DaemonOK ==
  /\ ~daemon.up => daemon = Dead /\ \A n \in Nat : ~Creates(n)
  /\ daemon.active # 0 <=> daemon.owner # 0
  /\ daemon.active # 0 => daemon.owner \in daemon.sessions

\* An obexd this process started, and did not find, serves one session, and
\* its stream is open unless popen failed since.
OwnDaemon ==
  ~isUsed => /\ \E n \in Nat : daemon.sessions \subseteq {n} /\ \A m \in Nat : Creates(m) => m = n
             /\ stream = "none" => popenFailed \/ (daemon.sessions = {} /\ \A m \in Nat : ~Creates(m))

Kinds == {"added", "removed", "done"}

Leaves(e, active) ==
  \/ e[1] = "added" /\ active = e[2]
  \/ e[1] = "removed" /\ active = 0

TransferFollows ==
  \/ \E i : LastOf(events, Kinds, i) /\ Leaves(events[i], daemon.active)
  \/ NoneOf(events, Kinds) /\ transfer = daemon.active

SessionFits(n, sessions, count) ==
  /\ n \in sessions \cup {0}
  /\ count = 1 /\ sessions # {} => n # 0

SessionFollows ==
  \/ \E i : LastOf(events, {"session"}, i) /\ SessionFits(events[i][2], daemon.sessions, counts.sessions)
  \/ NoneOf(events, {"session"}) /\ SessionFits(session, daemon.sessions, counts.sessions)

\* When a resumption is reported the transfer is still known.
KnownAt(s, i, t) ==
  \/ \E k \in DOMAIN s : k < i /\ s[k][1] = "added" /\ \A j \in DOMAIN s : k < j /\ j < i => s[j][1] \notin Kinds
  \/ t # 0 /\ \A j \in DOMAIN s : j < i => s[j][1] \notin Kinds

Resumed(e) == e[1] = "reply" /\ e[2] = "Resume" /\ e[3]

ResumedIsKnown == \A i \in DOMAIN events : Resumed(events[i]) => KnownAt(events, i, transfer)

ObexInv ==
  /\ ObTypes /\ DaemonOK /\ OwnDaemon /\ TransferFollows /\ SessionFollows
  /\ ResumedIsKnown /\ CancelHasCall /\ StreamClosedOnce

-----------------------------------------------------------------------------
(* What obexd emits, and what is dispatched.                               *)

LEMMA EmitTransfer ==
  ASSUME events \in Seq(Events), NEW q \in Seq(Events), events' = events \o q, TransferFollows,
         \/ NoneOf(q, Kinds) /\ daemon'.active = daemon.active /\ transfer' = transfer
         \/ \E i : LastOf(q, Kinds, i) /\ Leaves(q[i], daemon'.active)
  PROVE  TransferFollows'
<1>1. CASE NoneOf(q, Kinds) /\ daemon'.active = daemon.active /\ transfer' = transfer
  <2>1. /\ NoneOf(events, Kinds) => NoneOf(events \o q, Kinds)
        /\ \A i : LastOf(events, Kinds, i) => LastOf(events \o q, Kinds, i) /\ (events \o q)[i] = events[i]
    BY <1>1, AfterQuiet, Zenon
  <2> QED BY <1>1, <2>1, Zenon DEF TransferFollows
<1>2. ASSUME NEW i, LastOf(q, Kinds, i), Leaves(q[i], daemon'.active) PROVE TransferFollows'
  <2>1. EndsWith(events \o q, Kinds, q[i])
    BY <1>2, AfterLast, Zenon
  <2>2. \E k : LastOf(events', Kinds, k) /\ events'[k] = q[i]
    BY <2>1, Zenon DEF EndsWith
  <2> QED BY <1>2, <2>2, Zenon DEF TransferFollows
<1> QED BY <1>1, <1>2

LEMMA EmitSession ==
  ASSUME events \in Seq(Events), NEW q \in Seq(Events), events' = events \o q, SessionFollows, session' = session,
         \/ NoneOf(q, {"session"}) /\ \A n : SessionFits(n, daemon.sessions, counts.sessions)
                                             => SessionFits(n, daemon'.sessions, counts'.sessions)
         \/ \E i : LastOf(q, {"session"}, i) /\ SessionFits(q[i][2], daemon'.sessions, counts'.sessions)
  PROVE  SessionFollows'
<1>1. CASE NoneOf(q, {"session"}) /\ \A n : SessionFits(n, daemon.sessions, counts.sessions)
                                            => SessionFits(n, daemon'.sessions, counts'.sessions)
  <2>1. /\ NoneOf(events, {"session"}) => NoneOf(events \o q, {"session"})
        /\ \A i : LastOf(events, {"session"}, i) => LastOf(events \o q, {"session"}, i) /\ (events \o q)[i] = events[i]
    <3>1. NoneOf(q, {"session"}) /\ events \in Seq(Events) /\ q \in Seq(Events)
      BY <1>1
    <3> QED BY <3>1, AfterQuiet, ZenonT(30)
  <2> QED BY <1>1, <2>1, Zenon DEF SessionFollows
<1>2. ASSUME NEW i, LastOf(q, {"session"}, i), SessionFits(q[i][2], daemon'.sessions, counts'.sessions) PROVE SessionFollows'
  <2>1. EndsWith(events \o q, {"session"}, q[i])
    BY <1>2, AfterLast, Zenon
  <2>2. \E k : LastOf(events', {"session"}, k) /\ events'[k] = q[i]
    BY <2>1, Zenon DEF EndsWith
  <2> QED BY <1>2, <2>2, Zenon DEF SessionFollows
<1> QED BY <1>1, <1>2

LEMMA EmitResumed ==
  ASSUME events \in Seq(Events), NEW q \in Seq(Events), events' = events \o q, ResumedIsKnown,
         transfer' = transfer \/ transfer' # 0,
         \A i \in DOMAIN q : Resumed(q[i]) => i = 1 /\ TransferFollows /\ daemon.active # 0 /\ transfer' = transfer
  PROVE  ResumedIsKnown'
<1> DEFINE n == Len(events)
           t == events \o q
<1>1. /\ DOMAIN events = 1..n /\ DOMAIN q = 1..Len(q) /\ DOMAIN t = 1..(n + Len(q)) /\ n \in Nat /\ Len(q) \in Nat
      /\ \A j \in 1..n : t[j] = events[j]
      /\ \A j \in 1..(n + Len(q)) : j \in 1..n \/ (j - n \in 1..Len(q) /\ t[j] = q[j - n])
  OBVIOUS
<1> HIDE DEF n, t
<1>2. events' = t
  BY DEF t
<1>3. ASSUME NEW i \in 1..n, Resumed(events[i]) PROVE KnownAt(t, i, transfer')
  <2>1. KnownAt(events, i, transfer)
    BY <1>1, <1>3 DEF ResumedIsKnown
  <2>2. \A j \in DOMAIN t : j < i => j \in DOMAIN events /\ t[j] = events[j]
    BY <1>1
  <2>3. \A j \in DOMAIN events : j \in DOMAIN t /\ t[j] = events[j]
    BY <1>1
  <2>4. CASE transfer # 0 /\ \A j \in DOMAIN events : j < i => events[j][1] \notin Kinds
    <3>1. transfer' # 0
      BY <2>4
    <3> QED BY <2>2, <2>4, <3>1, Zenon DEF KnownAt
  <2>5. ASSUME NEW k \in DOMAIN events, k < i, events[k][1] = "added",
               \A j \in DOMAIN events : k < j /\ j < i => events[j][1] \notin Kinds
        PROVE  KnownAt(t, i, transfer')
    BY <2>2, <2>3, <2>5, Zenon DEF KnownAt
  <2> QED BY <2>1, <2>4, <2>5, Zenon DEF KnownAt
<1>4. ASSUME NEW i \in DOMAIN t, i - n \in 1..Len(q), t[i] = q[i - n], Resumed(t[i]) PROVE KnownAt(t, i, transfer')
  <2>1. i - n = 1 /\ TransferFollows /\ daemon.active # 0 /\ transfer' = transfer
    BY <1>1, <1>4
  <2>2. i = n + 1
    BY <1>1, <1>4, <2>1
  <2>3. \A j \in DOMAIN t : j < i => j \in DOMAIN events /\ t[j] = events[j]
    BY <1>1, <2>2
  <2>4. CASE NoneOf(events, Kinds) /\ transfer = daemon.active
    <3>1. transfer' # 0
      BY <2>1, <2>4
    <3> QED BY <2>3, <2>4, <3>1, Zenon DEF KnownAt, NoneOf
  <2>5. ASSUME NEW k, LastOf(events, Kinds, k), Leaves(events[k], daemon.active) PROVE KnownAt(t, i, transfer')
    <3>1. k \in DOMAIN t /\ k < i /\ t[k] = events[k] /\ events[k][1] = "added"
      BY <1>1, <2>1, <2>2, <2>5 DEF LastOf, Leaves
    <3>2. \A j \in DOMAIN t : k < j /\ j < i => t[j][1] \notin Kinds
      <4> SUFFICES ASSUME NEW j \in DOMAIN t, k < j, j < i PROVE t[j][1] \notin Kinds
        OBVIOUS
      <4>1. j \in DOMAIN events /\ t[j] = events[j] /\ j > k
        BY <1>1, <2>3, <3>1
      <4> QED BY <2>5, <4>1, Zenon DEF LastOf
    <3> QED BY <3>1, <3>2, Zenon DEF KnownAt
  <2> QED BY <2>1, <2>4, <2>5, Zenon DEF TransferFollows
<1> QED BY <1>1, <1>2, <1>3, <1>4 DEF ResumedIsKnown

CallWaits(s) == \E i \in DOMAIN s : s[i][1] \in {"Cancel", "Resume"}

ReplyWaits(s) == \E i \in DOMAIN s : s[i][1] = "reply" /\ s[i][2] \in {"Cancel", "Resume"}

LEMMA CancelWaits == CancelHasCall <=> (ftpState = "CANCELING" => CallWaits(ftpCalls) \/ ReplyWaits(events))
BY DEF CancelHasCall, CallWaits, ReplyWaits

LEMMA JoinedSeq ==
  ASSUME NEW S, NEW s \in Seq(S), NEW q \in Seq(S)
  PROVE  /\ s \o q \in Seq(S)
         /\ \A i \in DOMAIN s : i \in DOMAIN (s \o q) /\ (s \o q)[i] = s[i]
         /\ \A i \in DOMAIN q : \E j \in DOMAIN (s \o q) : (s \o q)[j] = q[i]
         /\ \A j \in DOMAIN (s \o q) : \/ j \in DOMAIN s /\ (s \o q)[j] = s[j]
                                     \/ \E i \in DOMAIN q : (s \o q)[j] = q[i]
<1>1. /\ s \o q \in Seq(S) /\ DOMAIN s = 1..Len(s) /\ DOMAIN q = 1..Len(q) /\ DOMAIN (s \o q) = 1..(Len(s) + Len(q))
      /\ Len(s) \in Nat /\ Len(q) \in Nat
      /\ \A i \in 1..Len(s) : (s \o q)[i] = s[i]
      /\ \A i \in 1..Len(q) : Len(s) + i \in 1..(Len(s) + Len(q)) /\ (s \o q)[Len(s) + i] = q[i]
      /\ \A j \in 1..(Len(s) + Len(q)) : j \in 1..Len(s) \/ (j - Len(s) \in 1..Len(q) /\ (s \o q)[j] = q[j - Len(s)])
  OBVIOUS
<1> DEFINE t == s \o q
<1> HIDE DEF t
<1>2. \A i \in DOMAIN s : i \in DOMAIN t /\ t[i] = s[i]
  BY <1>1 DEF t
<1> QED BY <1>1, <1>2 DEF t

LEMMA AppendedSeq ==
  ASSUME NEW S, NEW s \in Seq(S), NEW e \in S, NEW t, t = Append(s, e)
  PROVE  /\ t \in Seq(S)
         /\ \A i \in DOMAIN s : i \in DOMAIN t /\ t[i] = s[i]
         /\ \A i \in DOMAIN t : (i \in DOMAIN s /\ t[i] = s[i]) \/ t[i] = e
         /\ \E i \in DOMAIN t : t[i] = e
<1>1. /\ t \in Seq(S) /\ Len(s) \in Nat /\ DOMAIN s = 1..Len(s) /\ DOMAIN t = 1..(Len(s) + 1)
      /\ \A i \in 1..Len(s) : t[i] = s[i]
      /\ t[Len(s) + 1] = e
  OBVIOUS
<1>2. Len(s) + 1 \in DOMAIN t /\ \A i \in DOMAIN t : i \in 1..Len(s) \/ i = Len(s) + 1
  BY <1>1
<1>3. \A i \in DOMAIN s : i \in DOMAIN t /\ t[i] = s[i]
  BY <1>1
<1> QED BY <1>1, <1>2, <1>3, Zenon

LEMMA JoinedWaits ==
  ASSUME NEW S, NEW s \in Seq(S), NEW q \in Seq(S)
  PROVE  /\ ReplyWaits(s) => ReplyWaits(s \o q)
         /\ ReplyWaits(q) => ReplyWaits(s \o q)
         /\ CallWaits(s) => CallWaits(s \o q)
         /\ CallWaits(q) => CallWaits(s \o q)
<1> DEFINE t == s \o q
<1>1. /\ \A i \in DOMAIN s : i \in DOMAIN t /\ t[i] = s[i]
      /\ \A i \in DOMAIN q : \E j \in DOMAIN t : t[j] = q[i]
  BY JoinedSeq
<1> HIDE DEF t
<1> QED BY <1>1 DEF ReplyWaits, CallWaits, t

LEMMA EmitTypes ==
  ASSUME events \in Seq(Events), \A i \in DOMAIN events : Begun(events[i], counts),
         counts \in [sessions : Nat, transfers : Nat, calls : Nat],
         counts' \in [sessions : Nat, transfers : Nat, calls : Nat],
         counts'.sessions >= counts.sessions, counts'.transfers >= counts.transfers,
         NEW q \in Seq(Events), events' = events \o q, \A i \in DOMAIN q : Begun(q[i], counts')
  PROVE  events' \in Seq(Events) /\ \A i \in DOMAIN events' : Begun(events'[i], counts')
<1>1. /\ events' \in Seq(Events)
      /\ \A j \in DOMAIN events' : \/ j \in DOMAIN events /\ events'[j] = events[j]
                                   \/ \E i \in DOMAIN q : events'[j] = q[i]
  BY JoinedSeq
<1>2. ASSUME NEW e, Begun(e, counts) PROVE Begun(e, counts')
  BY <1>2 DEF Begun
<1> QED BY <1>1, <1>2

LEMMA FtpCreateKeeps ==
  ASSUME ObexInv, ~streamFault, NEW ok \in BOOLEAN, bt_ftp_create_session(ok) PROVE ObexInv'
<1> USE ObexAssumption
<1> DEFINE k == counts.sessions + 1
<1>1. /\ ObTypes /\ DaemonOK /\ OwnDaemon /\ TransferFollows /\ SessionFollows
      /\ ResumedIsKnown /\ CancelHasCall /\ StreamClosedOnce /\ ObexTypeOK
      /\ counts \in [sessions : Nat, transfers : Nat, calls : Nat]
  BY DEF ObexInv, ObTypes
<1>2. /\ counts'.sessions = k /\ counts'.transfers = counts.transfers /\ k \in Nat
      /\ counts' \in [sessions : Nat, transfers : Nat, calls : Nat]
      /\ session' = session /\ transfer' = transfer /\ ftpState' = ftpState /\ ftpReq' = ftpReq
      /\ events' = events /\ streamFault' = streamFault
      /\ ftpCalls' = IF ok THEN Append(ftpCalls, <<"CreateSession", k>>) ELSE ftpCalls
      /\ _call_exe(ok)
  BY <1>1 DEF bt_ftp_create_session, Count
<1>3. ftpCalls \in Seq(FtpMethods \X Nat) /\ <<"CreateSession", k>> \in FtpMethods \X Nat
  BY <1>2 DEF ObexInv, ObTypes, FtpMethods
<1>4. /\ ftpCalls' \in Seq(FtpMethods \X Nat)
      /\ \A i \in DOMAIN ftpCalls : i \in DOMAIN ftpCalls' /\ ftpCalls'[i] = ftpCalls[i]
      /\ \A i \in DOMAIN ftpCalls' : \/ i \in DOMAIN ftpCalls /\ ftpCalls'[i] = ftpCalls[i]
                                     \/ ok /\ ftpCalls'[i] = <<"CreateSession", k>>
  <2> DEFINE c == <<"CreateSession", k>>
  <2>1. c \in FtpMethods \X Nat /\ ftpCalls \in Seq(FtpMethods \X Nat)
    BY <1>3
  <2> DEFINE t == Append(ftpCalls, c)
  <2>2. ftpCalls' = IF ok THEN t ELSE ftpCalls
    BY <1>2
  <2> HIDE DEF c
  <2>3. /\ t \in Seq(FtpMethods \X Nat)
        /\ \A i \in DOMAIN ftpCalls : i \in DOMAIN t /\ t[i] = ftpCalls[i]
        /\ \A i \in DOMAIN t : (i \in DOMAIN ftpCalls /\ t[i] = ftpCalls[i]) \/ t[i] = c
    BY <2>1, AppendedSeq
  <2> HIDE DEF t
  <2>4. /\ ftpCalls' \in Seq(FtpMethods \X Nat)
        /\ \A i \in DOMAIN ftpCalls : i \in DOMAIN ftpCalls' /\ ftpCalls'[i] = ftpCalls[i]
        /\ \A i \in DOMAIN ftpCalls' : (i \in DOMAIN ftpCalls /\ ftpCalls'[i] = ftpCalls[i]) \/ (ok /\ ftpCalls'[i] = c)
    BY <2>1, <2>2, <2>3
  <2> QED BY <2>4 DEF c
<1>5. \A n \in Nat : Creates(n)' => Creates(n) \/ (ok /\ n = k)
  BY <1>4 DEF Creates
<1>6. ObTypes'
  <2>1. events' \in Seq(Events) /\ \A i \in DOMAIN events' : Begun(events'[i], counts')
    BY <1>1, <1>2 DEF ObTypes, Begun
  <2>2. daemon' = daemon \/ daemon' = [Dead EXCEPT !.up = TRUE]
    BY <1>2 DEF _call_exe
  <2>3. daemon' \in [up : BOOLEAN, sessions : SUBSET (1..counts'.sessions), active : 0..counts'.transfers,
                     owner : 0..counts'.sessions, suspended : BOOLEAN]
    <3>1. 1..counts.sessions \subseteq 1..counts'.sessions /\ 0..counts.sessions \subseteq 0..counts'.sessions
          /\ 0 \in 0..counts'.sessions /\ 0 \in 0..counts'.transfers /\ counts'.transfers = counts.transfers
      BY <1>1, <1>2
    <3> QED BY <1>1, <2>2, <3>1 DEF ObexTypeOK, Dead
  <2>4. isUsed' \in BOOLEAN /\ stream' \in {"none", "open"}
    BY <1>1, <1>2, Zenon DEF ObexTypeOK, _call_exe
  <2>5. ObexTypeOK'
    BY <1>1, <1>2, <2>3, <2>4 DEF ObexTypeOK
  <2>6. \A i \in DOMAIN ftpCalls' : ftpCalls'[i][1] = "CreateSession" => ftpCalls'[i][2] \in 1..counts'.sessions
    BY <1>1, <1>2, <1>4 DEF ObTypes
  <2> QED BY <1>2, <1>4, <2>1, <2>5, <2>6 DEF ObTypes
<1>7. TransferFollows' /\ SessionFollows'
  <2>1. daemon'.active = daemon.active
    BY <1>1, <1>2 DEF _call_exe, DaemonOK, Dead
  <2>2. daemon'.sessions = daemon.sessions
    BY <1>1, <1>2 DEF _call_exe, DaemonOK, Dead
  <2>3. TransferFollows'
    BY <1>1, <1>2, <2>1, Zenon DEF TransferFollows
  <2>4. \A n : SessionFits(n, daemon.sessions, counts.sessions) => SessionFits(n, daemon'.sessions, counts'.sessions)
    <3>1. counts'.sessions = 1 => counts.sessions = 0 /\ daemon.sessions = {}
      BY <1>1, <1>2 DEF ObexTypeOK
    <3> QED BY <2>2, <3>1 DEF SessionFits
  <2> QED BY <1>1, <1>2, <2>3, <2>4, Zenon DEF SessionFollows
<1>8. DaemonOK'
  BY <1>1, <1>2, <1>5 DEF DaemonOK, _call_exe, Dead
<1>9. OwnDaemon'
  <2>1. CASE ~ok
    <3>1. /\ popenFailed' /\ stream' = "none" /\ isUsed' = isUsed /\ daemon' = daemon
          /\ \A n \in Nat : Creates(n)' => Creates(n)
      BY <1>2, <1>5, <2>1 DEF _call_exe
    <3> QED BY <1>1, <3>1, Zenon DEF OwnDaemon
  <2>2. CASE ok /\ daemon.up
    BY <1>2, <2>2 DEF _call_exe, OwnDaemon
  <2>3. CASE ok /\ ~daemon.up
    <3>1. daemon'.sessions = {} /\ stream' = "open"
      BY <1>2, <2>3 DEF _call_exe, Dead
    <3>2. \A n \in Nat : Creates(n)' => n = k
      BY <1>1, <1>5, <2>3 DEF DaemonOK
    <3> QED BY <1>2, <3>1, <3>2 DEF OwnDaemon
  <2> QED BY <2>1, <2>2, <2>3
<1>10. ResumedIsKnown' /\ StreamClosedOnce'
  BY <1>1, <1>2 DEF ResumedIsKnown, StreamClosedOnce
<1>11. CancelHasCall'
  BY <1>1, <1>2, <1>4 DEF CancelHasCall
<1> QED BY <1>6, <1>7, <1>8, <1>9, <1>10, <1>11 DEF ObexInv

LEMMA SessionEnding ==
  ASSUME ObTypes, DaemonOK, NEW n \in daemon.sessions, NEW q, q = SessionEnds(n)
  PROVE  /\ q \in Seq(Events)
         /\ \A i \in DOMAIN q : Begun(q[i], counts) /\ ~Resumed(q[i])
         /\ \E i : LastOf(q, {"session"}, i) /\ q[i][2] = 0
         /\ daemon.owner = n => \E i : LastOf(q, Kinds, i) /\ q[i][1] = "removed"
         /\ daemon.owner # n => NoneOf(q, Kinds)
<1>1. /\ counts.sessions \in Nat /\ daemon.active \in Nat
  BY DEF ObTypes, ObexTypeOK
<1> DEFINE a == <<"removed", daemon.active>>
           b == <<"session", 0>>
<1>2. a \in Events /\ b \in Events
  BY <1>1 DEF Events
<1>3. /\ a[1] = "removed" /\ b[1] = "session" /\ b[2] = 0
      /\ Begun(a, counts) /\ Begun(b, counts) /\ ~Resumed(a) /\ ~Resumed(b)
  BY <1>1 DEF Begun, Resumed
<1>4. q = (IF daemon.owner = n THEN <<a>> ELSE <<>>) \o <<b>>
  BY DEF SessionEnds
<1> HIDE DEF a, b
<1>5. CASE daemon.owner = n
  <2>1. q \in Seq(Events) /\ DOMAIN q = 1..2 /\ q[1] = a /\ q[2] = b
    BY <1>2, <1>4, <1>5, ConcatProperties
  <2>2. LastOf(q, {"session"}, 2) /\ q[2][2] = 0
    BY <1>3, <2>1 DEF LastOf
  <2>3. LastOf(q, Kinds, 1)
    BY <1>3, <2>1 DEF LastOf, Kinds
  <2>4. \A i \in DOMAIN q : q[i] = a \/ q[i] = b
    BY <2>1
  <2> QED BY <1>3, <1>5, <2>1, <2>2, <2>3, <2>4
<1>6. CASE daemon.owner # n
  <2>1. q \in Seq(Events) /\ DOMAIN q = 1..1 /\ q[1] = b
    BY <1>2, <1>4, <1>6, ConcatProperties
  <2>2. LastOf(q, {"session"}, 1) /\ q[1][2] = 0
    BY <1>3, <2>1 DEF LastOf
  <2>3. \A i \in DOMAIN q : q[i] = b
    BY <2>1
  <2>4. NoneOf(q, Kinds)
    BY <1>3, <2>3 DEF NoneOf, Kinds
  <2> QED BY <1>3, <1>6, <2>1, <2>2, <2>3, <2>4
<1> QED BY <1>5, <1>6

LEMMA WithoutSession ==
  ASSUME ObTypes, NEW n \in daemon.sessions
  PROVE  /\ Without(n) \in [up : BOOLEAN, sessions : SUBSET (1..counts.sessions), active : 0..counts.transfers,
                            owner : 0..counts.sessions, suspended : BOOLEAN]
         /\ Without(n).up = daemon.up /\ Without(n).sessions = daemon.sessions \ {n}
         /\ daemon.owner = n => Without(n).active = 0 /\ Without(n).owner = 0
         /\ daemon.owner # n => Without(n).active = daemon.active /\ Without(n).owner = daemon.owner
<1>1. /\ daemon \in [up : BOOLEAN, sessions : SUBSET (1..counts.sessions), active : 0..counts.transfers,
                     owner : 0..counts.sessions, suspended : BOOLEAN]
      /\ 0 \in 0..counts.sessions /\ 0 \in 0..counts.transfers
  BY DEF ObTypes, ObexTypeOK
<1>2. CASE daemon.owner = n
  BY <1>1, <1>2 DEF Without, NoTransfer
<1>3. CASE daemon.owner # n
  BY <1>1, <1>3 DEF Without
<1> QED BY <1>2, <1>3

LEMMA SessionDropsKeeps ==
  ASSUME ObexInv, ~streamFault, NEW n \in daemon.sessions, daemon' = Without(n),
         events' = events \o SessionEnds(n),
         UNCHANGED <<session, transfer, ftpState, ftpReq, ftpCalls, stream, isUsed, counts, popenFailed, streamFault>>
  PROVE  ObexInv'
<1>1. /\ ObTypes /\ DaemonOK /\ OwnDaemon /\ TransferFollows /\ SessionFollows
      /\ ResumedIsKnown /\ CancelHasCall /\ StreamClosedOnce /\ ObexTypeOK
      /\ counts \in [sessions : Nat, transfers : Nat, calls : Nat] /\ events \in Seq(Events)
      /\ ftpCalls \in Seq(FtpMethods \X Nat)
      /\ \A i \in DOMAIN events : Begun(events[i], counts)
  BY DEF ObexInv, ObTypes
<1> DEFINE q == SessionEnds(n)
<1>2. /\ q \in Seq(Events)
      /\ \A i \in DOMAIN q : Begun(q[i], counts) /\ ~Resumed(q[i])
      /\ \E i : LastOf(q, {"session"}, i) /\ q[i][2] = 0
      /\ daemon.owner = n => \E i : LastOf(q, Kinds, i) /\ q[i][1] = "removed"
      /\ daemon.owner # n => NoneOf(q, Kinds)
  BY <1>1, SessionEnding
<1>3. /\ daemon' \in [up : BOOLEAN, sessions : SUBSET (1..counts.sessions), active : 0..counts.transfers,
                      owner : 0..counts.sessions, suspended : BOOLEAN]
      /\ daemon'.up = daemon.up /\ daemon'.sessions = daemon.sessions \ {n}
      /\ daemon.owner = n => daemon'.active = 0 /\ daemon'.owner = 0
      /\ daemon.owner # n => daemon'.active = daemon.active /\ daemon'.owner = daemon.owner
  BY <1>1, WithoutSession
<1>4. events' = events \o q
  OBVIOUS
<1> HIDE DEF q
<1>5. ObTypes'
  <2>1. events' \in Seq(Events) /\ \A i \in DOMAIN events' : Begun(events'[i], counts')
    <3>1. counts' = counts /\ counts.sessions \in Nat /\ counts.transfers \in Nat
      BY <1>1
    <3> QED BY <1>1, <1>2, <1>4, <3>1, EmitTypes
  <2>2. ObexTypeOK'
    BY <1>1, <1>3 DEF ObexTypeOK
  <2> QED BY <1>1, <2>1, <2>2 DEF ObTypes
<1>6. DaemonOK'
  <2>1. daemon'.up
    BY <1>1, <1>3 DEF DaemonOK, Dead
  <2> QED BY <1>1, <1>3, <2>1 DEF DaemonOK
<1>7. OwnDaemon'
  <2>1. \A m : Creates(m)' <=> Creates(m)
    BY DEF Creates
  <2> QED BY <1>1, <1>3, <2>1 DEF OwnDaemon
<1>8. TransferFollows'
  <2>1. CASE daemon.owner = n
    <3>1. \E i : LastOf(q, Kinds, i) /\ Leaves(q[i], daemon'.active)
      BY <1>2, <1>3, <2>1, Zenon DEF Leaves
    <3> QED BY <1>1, <1>2, <1>4, <3>1, EmitTransfer, Zenon
  <2>2. CASE daemon.owner # n
    <3>1. NoneOf(q, Kinds) /\ daemon'.active = daemon.active /\ transfer' = transfer
      BY <1>2, <1>3, <2>2
    <3> QED BY <1>1, <1>2, <1>4, <3>1, EmitTransfer, Zenon
  <2> QED BY <2>1, <2>2
<1>9. SessionFollows'
  <2>1. counts'.sessions = 1 => daemon'.sessions = {}
    BY <1>1, <1>3 DEF ObexTypeOK
  <2>2. SessionFits(0, daemon'.sessions, counts'.sessions)
    BY <2>1 DEF SessionFits
  <2>3. \E i : LastOf(q, {"session"}, i) /\ SessionFits(q[i][2], daemon'.sessions, counts'.sessions)
    BY <1>2, <2>2, Zenon
  <2> QED BY <1>1, <1>2, <1>4, <2>3, EmitSession, Zenon
<1>10. ResumedIsKnown'
  BY <1>1, <1>2, <1>4, EmitResumed, Zenon
<1>11. CancelHasCall'
  <2>1. ReplyWaits(events) => ReplyWaits(events')
    <3>1. ReplyWaits(events) => ReplyWaits(events \o q)
      BY <1>1, <1>2, JoinedWaits
    <3> QED BY <1>4, <3>1, Zenon
  <2>2. CallWaits(ftpCalls)' <=> CallWaits(ftpCalls)
    BY DEF CallWaits
  <2>3. ReplyWaits(events)' <=> ReplyWaits(events')
    BY DEF ReplyWaits
  <2> QED BY <1>1, <2>1, <2>2, <2>3 DEF CancelHasCall, ReplyWaits, CallWaits
<1>12. StreamClosedOnce'
  BY <1>1 DEF StreamClosedOnce
<1> QED BY <1>5, <1>6, <1>7, <1>8, <1>9, <1>10, <1>11, <1>12 DEF ObexInv

LEMMA NothingAnswered ==
  ASSUME ObTypes
  PROVE  /\ Unanswered \in Seq(Events)
         /\ \A i \in DOMAIN Unanswered : /\ Begun(Unanswered[i], counts) /\ ~Resumed(Unanswered[i])
                                        /\ Unanswered[i][1] \notin Kinds \cup {"session"}
         /\ CallWaits(ftpCalls) => ReplyWaits(Unanswered)
<1>1. /\ ftpCalls \in Seq(FtpMethods \X Nat) /\ Len(ftpCalls) \in Nat /\ DOMAIN ftpCalls = 1..Len(ftpCalls)
      /\ \A i \in DOMAIN ftpCalls : ftpCalls[i][1] \in FtpMethods
  BY DEF ObTypes
<1>2. \A m \in FtpMethods : /\ <<"reply", m, FALSE>> \in Events
                        /\ <<"reply", m, FALSE>>[1] = "reply" /\ <<"reply", m, FALSE>>[2] = m
                        /\ ~<<"reply", m, FALSE>>[3]
  BY DEF Events
<1> DEFINE u == Unanswered
<1>3. DOMAIN u = DOMAIN ftpCalls /\ \A i \in DOMAIN u : u[i] = <<"reply", ftpCalls[i][1], FALSE>>
  BY DEF Unanswered
<1>4. \A i \in DOMAIN u : u[i] \in Events /\ u[i][1] = "reply" /\ u[i][2] = ftpCalls[i][1] /\ ~u[i][3]
  <2> SUFFICES ASSUME NEW i \in DOMAIN ftpCalls
               PROVE  u[i] \in Events /\ u[i][1] = "reply" /\ u[i][2] = ftpCalls[i][1] /\ ~u[i][3]
    BY <1>3, Zenon
  <2>1. ftpCalls[i][1] \in FtpMethods /\ u[i] = <<"reply", ftpCalls[i][1], FALSE>>
    BY <1>1, <1>3, Zenon
  <2> QED BY <1>2, <2>1, Zenon
<1>5. u = [i \in 1..Len(ftpCalls) |-> u[i]]
  BY <1>1 DEF Unanswered
<1> HIDE DEF u
<1>6. u \in Seq(Events)
  BY <1>1, <1>3, <1>4, <1>5
<1>7. \A i \in DOMAIN u : Begun(u[i], counts) /\ ~Resumed(u[i]) /\ u[i][1] \notin Kinds \cup {"session"}
  BY <1>4 DEF Begun, Resumed, Kinds
<1>8. CallWaits(ftpCalls) => ReplyWaits(u)
  BY <1>3, <1>4, Zenon DEF CallWaits, ReplyWaits
<1> QED BY <1>6, <1>7, <1>8 DEF u

LEMMA StoppedEmits ==
  ASSUME ObTypes, DaemonOK, NEW n \in daemon.sessions, NEW b, b = SessionEnds(n), NEW u, u = Unanswered
  PROVE  /\ (events \o b) \o u = events \o (b \o u)
         /\ b \o u \in Seq(Events) /\ \A i \in DOMAIN (b \o u) : Begun((b \o u)[i], counts) /\ ~Resumed((b \o u)[i])
         /\ \E i : LastOf(b \o u, {"session"}, i) /\ (b \o u)[i][2] = 0
         /\ daemon.owner = n => \E i : LastOf(b \o u, Kinds, i) /\ (b \o u)[i][1] = "removed"
         /\ daemon.owner # n => NoneOf(b \o u, Kinds)
         /\ CallWaits(ftpCalls) => ReplyWaits(b \o u)
<1>1. /\ b \in Seq(Events)
      /\ \A i \in DOMAIN b : Begun(b[i], counts) /\ ~Resumed(b[i])
      /\ \E i : LastOf(b, {"session"}, i) /\ b[i][2] = 0
      /\ daemon.owner = n => \E i : LastOf(b, Kinds, i) /\ b[i][1] = "removed"
      /\ daemon.owner # n => NoneOf(b, Kinds)
  BY SessionEnding
<1>2. /\ u \in Seq(Events)
      /\ \A i \in DOMAIN u : Begun(u[i], counts) /\ ~Resumed(u[i]) /\ u[i][1] \notin Kinds \cup {"session"}
      /\ CallWaits(ftpCalls) => ReplyWaits(u)
  BY NothingAnswered
<1>3. NoneOf(u, Kinds) /\ NoneOf(u, {"session"})
  BY <1>2 DEF NoneOf
<1>4. b \in Seq(Events) /\ u \in Seq(Events) /\ events \in Seq(Events)
  BY <1>1, <1>2 DEF ObTypes
<1>5. (events \o b) \o u = events \o (b \o u)
  BY <1>4, ConcatAssociative, SMTT(30)
<1>6. /\ b \o u \in Seq(Events)
      /\ \A j \in DOMAIN (b \o u) : \/ j \in DOMAIN b /\ (b \o u)[j] = b[j]
                                  \/ \E i \in DOMAIN u : (b \o u)[j] = u[i]
  BY <1>4, JoinedSeq, SMTT(30)
<1>7. \A i \in DOMAIN (b \o u) : Begun((b \o u)[i], counts) /\ ~Resumed((b \o u)[i])
  BY <1>1, <1>2, <1>6, ZenonT(40)
<1>8. \A e : EndsWith(b, {"session"}, e) => EndsWith(b \o u, {"session"}, e)
  BY <1>3, <1>4, EndStays, ZenonT(20)
<1>9. /\ NoneOf(b, Kinds) => NoneOf(b \o u, Kinds)
      /\ \A e : EndsWith(b, Kinds, e) => EndsWith(b \o u, Kinds, e)
  BY <1>3, <1>4, EndStays, ZenonT(20)
<1>10. ReplyWaits(u) => ReplyWaits(b \o u)
  BY <1>4, JoinedWaits
<1>11. \E i : LastOf(b \o u, {"session"}, i) /\ (b \o u)[i][2] = 0
  <2>1. \E e : EndsWith(b, {"session"}, e) /\ e[2] = 0
    BY <1>1, Zenon DEF EndsWith
  <2>2. \E e : EndsWith(b \o u, {"session"}, e) /\ e[2] = 0
    BY <1>8, <2>1, Zenon
  <2> QED BY <2>2, Zenon DEF EndsWith
<1>12. daemon.owner = n => \E i : LastOf(b \o u, Kinds, i) /\ (b \o u)[i][1] = "removed"
  <2> SUFFICES ASSUME daemon.owner = n PROVE \E i : LastOf(b \o u, Kinds, i) /\ (b \o u)[i][1] = "removed"
    OBVIOUS
  <2>1. \E e : EndsWith(b, Kinds, e) /\ e[1] = "removed"
    BY <1>1, Zenon DEF EndsWith
  <2>2. \E e : EndsWith(b \o u, Kinds, e) /\ e[1] = "removed"
    BY <1>9, <2>1, Zenon
  <2> QED BY <2>2, Zenon DEF EndsWith
<1>13. daemon.owner # n => NoneOf(b \o u, Kinds)
  BY <1>1, <1>9, Zenon
<1> QED BY <1>2, <1>5, <1>6, <1>7, <1>10, <1>11, <1>12, <1>13, Zenon

LEMMA DaemonStopsKeeps ==
  ASSUME ObexInv, ~streamFault, session # 0, session \in daemon.sessions, ~isUsed, _destroy_exe,
         events' = events \o SessionEnds(session) \o Unanswered, ftpCalls' = <<>>,
         UNCHANGED <<session, transfer, ftpState, ftpReq, isUsed, counts, popenFailed>>
  PROVE  ObexInv'
<1>1. /\ ObTypes /\ DaemonOK /\ OwnDaemon /\ TransferFollows /\ SessionFollows
      /\ ResumedIsKnown /\ CancelHasCall /\ StreamClosedOnce /\ ObexTypeOK
      /\ counts \in [sessions : Nat, transfers : Nat, calls : Nat] /\ events \in Seq(Events)
      /\ ftpCalls \in Seq(FtpMethods \X Nat)
      /\ \A i \in DOMAIN events : Begun(events[i], counts)
  BY DEF ObexInv, ObTypes
<1> DEFINE b == SessionEnds(session)
           u == Unanswered
           q == b \o u
<1>2. /\ (events \o b) \o u = events \o (b \o u)
      /\ b \o u \in Seq(Events) /\ \A i \in DOMAIN (b \o u) : Begun((b \o u)[i], counts) /\ ~Resumed((b \o u)[i])
      /\ \E i : LastOf(b \o u, {"session"}, i) /\ (b \o u)[i][2] = 0
      /\ daemon.owner = session => \E i : LastOf(b \o u, Kinds, i) /\ (b \o u)[i][1] = "removed"
      /\ daemon.owner # session => NoneOf(b \o u, Kinds)
      /\ CallWaits(ftpCalls) => ReplyWaits(b \o u)
  BY <1>1, StoppedEmits
<1>3. events' = (events \o b) \o u
  OBVIOUS
<1> HIDE DEF b, u
<1>5. events' = events \o q
  BY <1>2, <1>3
<1> HIDE DEF q
<1>6. q \in Seq(Events) /\ \A i \in DOMAIN q : Begun(q[i], counts) /\ ~Resumed(q[i])
  BY <1>2 DEF q
<1>8. \E i : LastOf(q, {"session"}, i) /\ q[i][2] = 0
  BY <1>2, Zenon DEF q
<1>9. /\ daemon.owner = session => \E i : LastOf(q, Kinds, i) /\ q[i][1] = "removed"
      /\ daemon.owner # session => NoneOf(q, Kinds)
  BY <1>2, Zenon DEF q
<1>10. CallWaits(ftpCalls) => ReplyWaits(q)
  BY <1>2, Zenon DEF q
<1>11. /\ daemon' = Dead /\ streamFault' = (stream = "none") /\ stream' = "none"
  BY DEF _destroy_exe
<1>12. /\ daemon' \in [up : BOOLEAN, sessions : SUBSET (1..counts.sessions), active : 0..counts.transfers,
                       owner : 0..counts.sessions, suspended : BOOLEAN]
       /\ daemon'.sessions = {} /\ daemon'.active = 0 /\ daemon'.owner = 0
  BY <1>1, <1>11 DEF Dead
<1>13. \A n \in Nat : ~Creates(n)'
  BY DEF Creates
<1>14. ObTypes'
  <2>1. events' \in Seq(Events) /\ \A i \in DOMAIN events' : Begun(events'[i], counts')
    <3>1. counts' = counts /\ counts.sessions \in Nat /\ counts.transfers \in Nat
      BY <1>1
    <3>2. /\ counts'.sessions >= counts.sessions /\ counts'.transfers >= counts.transfers
          /\ counts' \in [sessions : Nat, transfers : Nat, calls : Nat]
      BY <1>1, <3>1
    <3>3. \A i \in DOMAIN q : Begun(q[i], counts')
      BY <1>6, <3>1, Zenon
    <3> QED BY <1>1, <1>5, <1>6, <3>2, <3>3, EmitTypes, Zenon
  <2>2. ObexTypeOK'
    BY <1>1, <1>11, <1>12 DEF ObexTypeOK
  <2>3. /\ ftpCalls' \in Seq(FtpMethods \X Nat)
        /\ \A i \in DOMAIN ftpCalls' : ftpCalls'[i][1] = "CreateSession" => ftpCalls'[i][2] \in 1..counts'.sessions
    OBVIOUS
  <2> QED BY <1>1, <2>1, <2>2, <2>3 DEF ObTypes
<1>15. DaemonOK'
  BY <1>11, <1>12, <1>13 DEF DaemonOK
<1>16. OwnDaemon'
  BY <1>12, <1>13 DEF OwnDaemon
<1>17. TransferFollows'
  <2>1. CASE daemon.owner = session
    <3>1. \E i : LastOf(q, Kinds, i) /\ Leaves(q[i], daemon'.active)
      BY <1>9, <1>12, <2>1, Zenon DEF Leaves
    <3> QED BY <1>1, <1>5, <1>6, <3>1, EmitTransfer, Zenon
  <2>2. CASE daemon.owner # session
    <3>1. daemon.active = 0
      BY <1>1, <2>2 DEF DaemonOK, OwnDaemon
    <3>2. NoneOf(q, Kinds) /\ daemon'.active = daemon.active /\ transfer' = transfer
      BY <1>9, <1>12, <2>2, <3>1
    <3> QED BY <1>1, <1>5, <1>6, <3>2, EmitTransfer, Zenon
  <2> QED BY <2>1, <2>2
<1>18. SessionFollows'
  <2>1. SessionFits(0, daemon'.sessions, counts'.sessions)
    BY <1>12 DEF SessionFits
  <2>2. \E i : LastOf(q, {"session"}, i) /\ SessionFits(q[i][2], daemon'.sessions, counts'.sessions)
    BY <1>8, <2>1, Zenon
  <2> QED BY <1>1, <1>5, <1>6, <2>2, EmitSession, Zenon
<1>19. ResumedIsKnown'
  BY <1>1, <1>5, <1>6, EmitResumed, Zenon
<1>20. CancelHasCall'
  <2>1. ReplyWaits(events) => ReplyWaits(events \o q)
    BY <1>1, <1>6, JoinedWaits
  <2>2. ReplyWaits(q) => ReplyWaits(events \o q)
    BY <1>1, <1>6, JoinedWaits
  <2>3. CallWaits(ftpCalls) \/ ReplyWaits(events) => ReplyWaits(events')
    BY <1>5, <1>10, <2>1, <2>2, Zenon
  <2> QED BY <1>1, <2>3 DEF CancelHasCall, ReplyWaits, CallWaits
<1>21. StreamClosedOnce'
  BY <1>1, <1>11 DEF StreamClosedOnce, OwnDaemon
<1> QED BY <1>14, <1>15, <1>16, <1>17, <1>18, <1>19, <1>20, <1>21 DEF ObexInv

LEMMA FtpRemoveKeeps ==
  ASSUME ObexInv, ~streamFault, bt_ftp_remove_session PROVE ObexInv'
<1>1. CASE isUsed
  <2>1. /\ session \in daemon.sessions /\ daemon' = Without(session)
        /\ events' = (events \o SessionEnds(session)) \o <<>>
        /\ UNCHANGED <<session, transfer, ftpState, ftpReq, ftpCalls, stream, isUsed, counts, popenFailed, streamFault>>
    BY <1>1 DEF bt_ftp_remove_session, _destroy_exe
  <2>2. SessionEnds(session) \in Seq(Events) /\ events \in Seq(Events)
    BY <2>1, SessionEnding DEF ObexInv, ObTypes
  <2>3. events' = events \o SessionEnds(session)
    BY <2>1, <2>2, ConcatProperties, ConcatEmptySeq
  <2> QED BY <2>1, <2>3, SessionDropsKeeps
<1>2. CASE ~isUsed
  <2>1. /\ session # 0 /\ session \in daemon.sessions /\ _destroy_exe
        /\ events' = events \o SessionEnds(session) \o Unanswered /\ ftpCalls' = <<>>
        /\ UNCHANGED <<session, transfer, ftpState, ftpReq, isUsed, counts, popenFailed>>
    BY <1>2 DEF bt_ftp_remove_session
  <2> QED BY <1>2, <2>1, DaemonStopsKeeps
<1> QED BY <1>1, <1>2

Pair(q, e, f) == q \in Seq(Events) /\ DOMAIN q = 1..2 /\ q[1] = e /\ q[2] = f

LEMMA OneEvent ==
  ASSUME NEW e \in Events
  PROVE  /\ <<e>> \in Seq(Events) /\ DOMAIN <<e>> = 1..1
         /\ \A i \in DOMAIN <<e>> : i = 1 /\ <<e>>[i] = e
         /\ 1 \in DOMAIN <<e>> /\ <<e>>[1] = e
         /\ \A kinds : IF e[1] \in kinds THEN LastOf(<<e>>, kinds, 1) ELSE NoneOf(<<e>>, kinds)
<1> DEFINE q == <<e>>
<1>1. q \in Seq(Events) /\ DOMAIN q = 1..1 /\ q[1] = e /\ 1 \in DOMAIN q
  OBVIOUS
<1> HIDE DEF q
<1>2. \A i \in DOMAIN q : i = 1 /\ q[i] = e
  BY <1>1
<1>3. ASSUME NEW kinds PROVE IF e[1] \in kinds THEN LastOf(q, kinds, 1) ELSE NoneOf(q, kinds)
  BY <1>1, <1>2 DEF LastOf, NoneOf
<1> QED BY <1>1, <1>2, <1>3 DEF q

LEMMA TwoEvents ==
  ASSUME NEW e \in Events, NEW f \in Events
  PROVE  Pair(<<e, f>>, e, f) /\ Pair(<<e>> \o <<f>>, e, f)
         /\ \A s \in Seq(Events) : (s \o <<e>>) \o <<f>> = s \o (<<e>> \o <<f>>)
<1>1. <<e>> \in Seq(Events) /\ <<f>> \in Seq(Events) /\ Len(<<e>>) = 1 /\ Len(<<f>>) = 1 /\ <<e>>[1] = e /\ <<f>>[1] = f
  OBVIOUS
<1>2. Pair(<<e>> \o <<f>>, e, f)
  BY <1>1, ConcatProperties DEF Pair
<1>3. Pair(<<e, f>>, e, f)
  BY DEF Pair
<1>4. ASSUME NEW s \in Seq(Events) PROVE (s \o <<e>>) \o <<f>> = s \o (<<e>> \o <<f>>)
  BY <1>1, ConcatAssociative
<1> QED BY <1>2, <1>3, <1>4

LEMMA PairEnds ==
  ASSUME NEW q, NEW e, NEW f, Pair(q, e, f)
  PROVE  /\ q \in Seq(Events) /\ 1 \in DOMAIN q /\ 2 \in DOMAIN q /\ q[1] = e /\ q[2] = f
         /\ \A i \in DOMAIN q : (i = 1 /\ q[i] = e) \/ (i = 2 /\ q[i] = f)
         /\ \A kinds : /\ f[1] \in kinds => LastOf(q, kinds, 2)
                       /\ f[1] \notin kinds /\ e[1] \in kinds => LastOf(q, kinds, 1)
                       /\ f[1] \notin kinds /\ e[1] \notin kinds => NoneOf(q, kinds)
<1>1. /\ q \in Seq(Events) /\ 1 \in DOMAIN q /\ 2 \in DOMAIN q /\ q[1] = e /\ q[2] = f
      /\ \A i \in DOMAIN q : (i = 1 /\ q[i] = e) \/ (i = 2 /\ q[i] = f)
  BY DEF Pair
<1>2. ASSUME NEW kinds
      PROVE  /\ f[1] \in kinds => LastOf(q, kinds, 2)
             /\ f[1] \notin kinds /\ e[1] \in kinds => LastOf(q, kinds, 1)
             /\ f[1] \notin kinds /\ e[1] \notin kinds => NoneOf(q, kinds)
  BY <1>1 DEF LastOf, NoneOf
<1> QED BY <1>1, <1>2

LEMMA StartKeeps ==
  ASSUME ObexInv, ~streamFault, NEW req \in {"GET", "PUT"}, StartTransfer(req) PROVE ObexInv'
<1> USE ObexAssumption
<1> DEFINE k == counts.transfers + 1
           e == <<"added", k>>
           q == <<e>>
<1>1. /\ ObTypes /\ DaemonOK /\ OwnDaemon /\ TransferFollows /\ SessionFollows
      /\ ResumedIsKnown /\ CancelHasCall /\ StreamClosedOnce /\ ObexTypeOK
      /\ counts \in [sessions : Nat, transfers : Nat, calls : Nat] /\ events \in Seq(Events)
      /\ ftpCalls \in Seq(FtpMethods \X Nat)
      /\ \A i \in DOMAIN events : Begun(events[i], counts)
  BY DEF ObexInv, ObTypes
<1>2. /\ counts'.sessions = counts.sessions /\ counts'.transfers = k /\ k \in Nat /\ k # 0
      /\ counts' \in [sessions : Nat, transfers : Nat, calls : Nat]
      /\ session # 0 /\ ftpState # "CANCELING" /\ session \in daemon.sessions
      /\ transfer' = k /\ ftpReq' = req
      /\ daemon' = [daemon EXCEPT !.active = k, !.owner = session, !.suspended = FALSE]
      /\ UNCHANGED <<session, ftpState, ftpCalls, stream, isUsed, popenFailed, streamFault>>
  <2>1. counts.transfers \in Nat /\ counts' = [counts EXCEPT !["transfers"] = @ + 1]
    BY <1>1 DEF StartTransfer, Count
  <2>2. /\ counts'.sessions = counts.sessions /\ counts'.transfers = k /\ k \in Nat /\ k # 0
        /\ counts' \in [sessions : Nat, transfers : Nat, calls : Nat]
    BY <1>1, <2>1, SMTT(30)
  <2>3. /\ session # 0 /\ ftpState # "CANCELING" /\ session \in daemon.sessions
        /\ transfer' = k /\ ftpReq' = req
        /\ daemon' = [daemon EXCEPT !.active = k, !.owner = session, !.suspended = FALSE]
        /\ UNCHANGED <<session, ftpState, ftpCalls, stream, isUsed, popenFailed, streamFault>>
    BY Zenon DEF StartTransfer, _check_status
  <2> QED BY <2>2, <2>3
<1>3. e \in Events /\ e[1] = "added" /\ e[2] = k /\ Begun(e, counts') /\ ~Resumed(e) /\ events' = Append(events, e)
  BY <1>2 DEF Events, Begun, Resumed, StartTransfer
<1> HIDE DEF k, e
<1>4. events' = events \o q
  BY <1>1, <1>3, AppendIsConcat
<1>5. /\ q \in Seq(Events) /\ \A i \in DOMAIN q : i = 1 /\ q[i] = e
      /\ q[1] = e /\ LastOf(q, Kinds, 1) /\ NoneOf(q, {"session"})
  <2>1. e[1] \in Kinds /\ e[1] \notin {"session"}
    BY <1>3 DEF Kinds
  <2> QED BY <1>3, <2>1, OneEvent, Zenon
<1> HIDE DEF q
<1>6. /\ daemon' \in [up : BOOLEAN, sessions : SUBSET (1..counts'.sessions), active : 0..counts'.transfers,
                      owner : 0..counts'.sessions, suspended : BOOLEAN]
      /\ daemon'.up = daemon.up /\ daemon'.sessions = daemon.sessions /\ daemon'.active = k /\ daemon'.owner = session
  <2>1. session \in 0..counts'.sessions /\ k \in 0..counts'.transfers
    BY <1>1, <1>2 DEF ObexTypeOK
  <2>2. /\ daemon \in [up : BOOLEAN, sessions : SUBSET (1..counts.sessions), active : 0..counts.transfers,
                       owner : 0..counts.sessions, suspended : BOOLEAN]
    BY <1>1 DEF ObexTypeOK
  <2> QED BY <1>2, <2>1, <2>2
<1>7. ObTypes'
  <2>1. events' \in Seq(Events) /\ \A i \in DOMAIN events' : Begun(events'[i], counts')
    <3>1. counts'.sessions >= counts.sessions /\ counts'.transfers >= counts.transfers
      BY <1>1, <1>2 DEF k
    <3>2. \A i \in DOMAIN q : Begun(q[i], counts')
      BY <1>3, <1>5
    <3> QED BY <1>1, <1>2, <1>4, <1>5, <3>1, <3>2, EmitTypes
  <2>2. ObexTypeOK'
    <3>1. transfer' \in 0..counts'.transfers
      BY <1>2
    <3> QED BY <1>1, <1>2, <1>6, <3>1 DEF ObexTypeOK
  <2> QED BY <1>1, <1>2, <2>1, <2>2 DEF ObTypes
<1>8. DaemonOK'
  <2>1. daemon.up
    BY <1>1, <1>2 DEF DaemonOK, Dead
  <2> QED BY <1>2, <1>6, <2>1 DEF DaemonOK
<1>9. OwnDaemon'
  <2>1. \A m : Creates(m)' <=> Creates(m)
    BY <1>2 DEF Creates
  <2> QED BY <1>1, <1>2, <1>6, <2>1 DEF OwnDaemon
<1>10. TransferFollows'
  <2>1. Leaves(q[1], daemon'.active)
    BY <1>3, <1>5, <1>6 DEF Leaves
  <2> QED BY <1>1, <1>4, <1>5, <2>1, EmitTransfer, Zenon
<1>11. SessionFollows'
  <2>1. \A n : SessionFits(n, daemon.sessions, counts.sessions) => SessionFits(n, daemon'.sessions, counts'.sessions)
    BY <1>2, <1>6 DEF SessionFits
  <2> QED BY <1>1, <1>2, <1>4, <1>5, <2>1, EmitSession, Zenon
<1>12. ResumedIsKnown'
  <2>1. transfer' # 0 /\ \A i \in DOMAIN q : ~Resumed(q[i])
    BY <1>2, <1>3, <1>5
  <2> QED BY <1>1, <1>4, <1>5, <2>1, EmitResumed, Zenon
<1>13. CancelHasCall' /\ StreamClosedOnce'
  BY <1>1, <1>2 DEF CancelHasCall, StreamClosedOnce
<1> QED BY <1>7, <1>8, <1>9, <1>10, <1>11, <1>12, <1>13 DEF ObexInv

LEMMA SendFtpKeeps ==
  ASSUME ObexInv, ~streamFault, NEW method \in {"Suspend", "Resume", "Cancel"},
         NEW state \in {"RESUMING", "SUSPENDING", "CANCELING"},
         state = "CANCELING" => method \in {"Cancel", "Resume"}, SendFtp(method, state)
  PROVE  ObexInv'
<1> DEFINE c == <<method, transfer>>
<1>1. /\ ObTypes /\ DaemonOK /\ OwnDaemon /\ TransferFollows /\ SessionFollows
      /\ ResumedIsKnown /\ CancelHasCall /\ StreamClosedOnce /\ ObexTypeOK
      /\ counts \in [sessions : Nat, transfers : Nat, calls : Nat] /\ events \in Seq(Events)
      /\ ftpCalls \in Seq(FtpMethods \X Nat)
      /\ \A i \in DOMAIN events : Begun(events[i], counts)
      /\ \A i \in DOMAIN ftpCalls : ftpCalls[i][1] = "CreateSession" => ftpCalls[i][2] \in 1..counts.sessions
  BY DEF ObexInv, ObTypes
<1>2. /\ counts'.sessions = counts.sessions /\ counts'.transfers = counts.transfers
      /\ counts' \in [sessions : Nat, transfers : Nat, calls : Nat]
  <2>1. counts' = [counts EXCEPT !["calls"] = @ + 1]
    BY SMTT(30) DEF SendFtp, Count
  <2>2. counts \in [sessions : Nat, transfers : Nat, calls : Nat]
    BY <1>1
  <2>3. \A r \in [sessions : Nat, transfers : Nat, calls : Nat] :
          LET n == [r EXCEPT !["calls"] = @ + 1] IN
          /\ n.sessions = r.sessions /\ n.transfers = r.transfers
          /\ n \in [sessions : Nat, transfers : Nat, calls : Nat]
    OBVIOUS
  <2> QED BY <2>1, <2>2, <2>3, Zenon
<1>3. /\ ftpCalls' = Append(ftpCalls, c) /\ ftpState' = state
      /\ UNCHANGED <<session, transfer, ftpReq, stream, isUsed, daemon, events, popenFailed, streamFault>>
  BY Zenon DEF SendFtp
<1>4. c \in FtpMethods \X Nat /\ c[1] = method
  BY <1>1 DEF FtpMethods, ObexTypeOK
<1> HIDE DEF c
<1>5. /\ ftpCalls' \in Seq(FtpMethods \X Nat)
      /\ \A i \in DOMAIN ftpCalls : i \in DOMAIN ftpCalls' /\ ftpCalls'[i] = ftpCalls[i]
      /\ \A i \in DOMAIN ftpCalls' : (i \in DOMAIN ftpCalls /\ ftpCalls'[i] = ftpCalls[i]) \/ ftpCalls'[i] = c
      /\ \E i \in DOMAIN ftpCalls' : ftpCalls'[i] = c
  <2>1. ftpCalls \in Seq(FtpMethods \X Nat) /\ c \in FtpMethods \X Nat
    BY <1>1, <1>4
  <2>2. ftpCalls' = Append(ftpCalls, c)
    BY <1>3
  <2> QED BY <2>1, <2>2, AppendedSeq, SMTT(30)
<1>6. \A n : Creates(n)' <=> Creates(n)
  BY <1>4, <1>5 DEF Creates
<1>7. ObTypes'
  <2>1. ObexTypeOK'
    BY <1>1, <1>2, <1>3 DEF ObexTypeOK
  <2>2. \A i \in DOMAIN ftpCalls' : ftpCalls'[i][1] = "CreateSession" => ftpCalls'[i][2] \in 1..counts'.sessions
    BY <1>1, <1>2, <1>4, <1>5
  <2>3. \A i \in DOMAIN events' : Begun(events'[i], counts')
    BY <1>1, <1>2, <1>3 DEF Begun
  <2> QED BY <1>1, <1>2, <1>3, <1>5, <2>1, <2>2, <2>3 DEF ObTypes
<1>8. DaemonOK' /\ OwnDaemon'
  BY <1>1, <1>3, <1>6 DEF DaemonOK, OwnDaemon
<1>9. TransferFollows' /\ SessionFollows' /\ ResumedIsKnown' /\ StreamClosedOnce'
  BY <1>1, <1>2, <1>3 DEF TransferFollows, SessionFollows, ResumedIsKnown, StreamClosedOnce
<1>10. CancelHasCall'
  BY <1>3, <1>4, <1>5 DEF CancelHasCall
<1> QED BY <1>7, <1>8, <1>9, <1>10 DEF ObexInv

LEMMA DaemonEmits ==
  ASSUME ObexInv, NEW q \in Seq(Events), events' = events \o q,
         \A i \in DOMAIN q : Begun(q[i], counts),
         UNCHANGED <<session, transfer, ftpState, ftpReq, stream, isUsed, counts, popenFailed, streamFault>>,
         daemon' \in [up : BOOLEAN, sessions : SUBSET (1..counts.sessions), active : 0..counts.transfers,
                      owner : 0..counts.sessions, suspended : BOOLEAN],
         ftpCalls' \in Seq(FtpMethods \X Nat),
         \A i \in DOMAIN ftpCalls' : \E j \in DOMAIN ftpCalls : ftpCalls'[i] = ftpCalls[j],
         CallWaits(ftpCalls) => CallWaits(ftpCalls)' \/ ReplyWaits(q),
         \/ NoneOf(q, Kinds) /\ daemon'.active = daemon.active /\ transfer' = transfer
         \/ \E i : LastOf(q, Kinds, i) /\ Leaves(q[i], daemon'.active),
         \/ NoneOf(q, {"session"}) /\ daemon'.sessions = daemon.sessions
         \/ \E i : LastOf(q, {"session"}, i) /\ SessionFits(q[i][2], daemon'.sessions, counts'.sessions),
         \A i \in DOMAIN q : Resumed(q[i]) => i = 1 /\ daemon.active # 0,
         DaemonOK', OwnDaemon'
  PROVE  ObexInv'
<1>1. /\ ObTypes /\ TransferFollows /\ SessionFollows
      /\ ResumedIsKnown /\ CancelHasCall /\ StreamClosedOnce /\ ObexTypeOK
      /\ counts \in [sessions : Nat, transfers : Nat, calls : Nat] /\ events \in Seq(Events)
      /\ ftpCalls \in Seq(FtpMethods \X Nat)
      /\ \A i \in DOMAIN events : Begun(events[i], counts)
      /\ \A i \in DOMAIN ftpCalls : ftpCalls[i][1] = "CreateSession" => ftpCalls[i][2] \in 1..counts.sessions
  BY DEF ObexInv, ObTypes
<1>2. ObTypes'
  <2>1. events' \in Seq(Events) /\ \A i \in DOMAIN events' : Begun(events'[i], counts')
    <3>1. counts' = counts /\ counts.sessions \in Nat /\ counts.transfers \in Nat
      BY <1>1
    <3>2. counts'.sessions >= counts.sessions /\ counts'.transfers >= counts.transfers
      BY <3>1
    <3>3. \A i \in DOMAIN q : Begun(q[i], counts')
      BY <3>1, Zenon
    <3>4. counts' \in [sessions : Nat, transfers : Nat, calls : Nat]
      BY <1>1, <3>1, Zenon
    <3> QED BY <1>1, <3>2, <3>3, <3>4, EmitTypes
  <2>2. ObexTypeOK'
    BY <1>1 DEF ObexTypeOK
  <2>3. ASSUME NEW i \in DOMAIN ftpCalls', ftpCalls'[i][1] = "CreateSession" PROVE ftpCalls'[i][2] \in 1..counts'.sessions
    <3>1. PICK j \in DOMAIN ftpCalls : ftpCalls'[i] = ftpCalls[j]
      OBVIOUS
    <3>2. ftpCalls[j][2] \in 1..counts.sessions
      BY <1>1, <2>3, <3>1, Zenon
    <3>3. counts' = counts
      OBVIOUS
    <3> QED BY <3>1, <3>2, <3>3, Zenon
  <2> QED BY <1>1, <2>1, <2>2, <2>3 DEF ObTypes
<1>3. TransferFollows'
  BY <1>1, EmitTransfer, Zenon
<1>4. SessionFollows'
  <2>1. NoneOf(q, {"session"}) /\ daemon'.sessions = daemon.sessions =>
        NoneOf(q, {"session"}) /\ \A n : SessionFits(n, daemon.sessions, counts.sessions)
                                         => SessionFits(n, daemon'.sessions, counts'.sessions)
    BY Zenon
  <2>2. session' = session
    OBVIOUS
  <2> QED BY <1>1, <2>1, <2>2, EmitSession, Zenon
<1>5. ResumedIsKnown'
  <2>1. transfer' = transfer /\ \A i \in DOMAIN q : Resumed(q[i]) => i = 1 /\ TransferFollows /\ daemon.active # 0 /\ transfer' = transfer
    BY <1>1
  <2> QED BY <1>1, <2>1, EmitResumed, Zenon
<1>6. CancelHasCall'
  <2>1. (ReplyWaits(events) => ReplyWaits(events \o q)) /\ (ReplyWaits(q) => ReplyWaits(events \o q))
    BY <1>1, JoinedWaits
  <2>2. CallWaits(ftpCalls) \/ ReplyWaits(events) => CallWaits(ftpCalls') \/ ReplyWaits(events')
    BY <2>1 DEF CallWaits
  <2> QED BY <1>1, <2>2 DEF CancelHasCall, ReplyWaits, CallWaits
<1>7. StreamClosedOnce'
  BY <1>1 DEF StreamClosedOnce
<1> QED BY <1>2, <1>3, <1>4, <1>5, <1>6, <1>7 DEF ObexInv

LEMMA TransferEndsKeeps ==
  ASSUME ObexInv, ~streamFault, TransferEnds PROVE ObexInv'
<1> DEFINE e == <<"done", daemon.active>>
           f == <<"removed", daemon.active>>
           q == <<e, f>>
<1>1. /\ ObTypes /\ DaemonOK /\ OwnDaemon /\ ObexTypeOK /\ ftpCalls \in Seq(FtpMethods \X Nat)
      /\ daemon \in [up : BOOLEAN, sessions : SUBSET (1..counts.sessions), active : 0..counts.transfers,
                     owner : 0..counts.sessions, suspended : BOOLEAN]
  BY DEF ObexInv, ObTypes, ObexTypeOK
<1>2. /\ daemon.active # 0 /\ daemon' = NoTransfer(daemon) /\ events' = events \o q
      /\ UNCHANGED <<session, transfer, ftpState, ftpReq, ftpCalls, stream, isUsed, counts, popenFailed, streamFault>>
  BY Zenon DEF TransferEnds
<1>3. /\ e \in Events /\ f \in Events /\ e[1] = "done" /\ f[1] = "removed"
      /\ Begun(e, counts) /\ Begun(f, counts) /\ ~Resumed(e) /\ ~Resumed(f)
  BY <1>1 DEF Events, Begun, Resumed
<1> HIDE DEF e, f
<1>4. Pair(q, e, f)
  BY <1>3, TwoEvents
<1> HIDE DEF q
<1>5. /\ q \in Seq(Events) /\ q[2] = f /\ \A i \in DOMAIN q : q[i] = e \/ q[i] = f
      /\ LastOf(q, Kinds, 2) /\ NoneOf(q, {"session"})
  <2>1. f[1] \in Kinds /\ e[1] \notin {"session"} /\ f[1] \notin {"session"}
    BY <1>3 DEF Kinds
  <2> QED BY <1>4, <2>1, PairEnds, Zenon
<1>6. /\ daemon' \in [up : BOOLEAN, sessions : SUBSET (1..counts.sessions), active : 0..counts.transfers,
                      owner : 0..counts.sessions, suspended : BOOLEAN]
      /\ daemon'.up = daemon.up /\ daemon'.sessions = daemon.sessions /\ daemon'.active = 0 /\ daemon'.owner = 0
  <2>1. 0 \in 0..counts.sessions /\ 0 \in 0..counts.transfers
    BY <1>1 DEF ObTypes
  <2> QED BY <1>1, <1>2, <2>1 DEF NoTransfer
<1>7. Leaves(q[2], daemon'.active)
  BY <1>3, <1>5, <1>6 DEF Leaves
<1>8. \A n : Creates(n)' <=> Creates(n)
  BY <1>2 DEF Creates
<1>9. DaemonOK'
  <2>1. daemon.up
    BY <1>1, <1>2 DEF DaemonOK, Dead
  <2> QED BY <1>6, <2>1 DEF DaemonOK
<1>10. OwnDaemon'
  BY <1>1, <1>2, <1>6, <1>8 DEF OwnDaemon
<1>11. /\ \A i \in DOMAIN q : Begun(q[i], counts) /\ (Resumed(q[i]) => i = 1 /\ daemon.active # 0)
  BY <1>3, <1>5
<1>12. /\ ftpCalls' \in Seq(FtpMethods \X Nat)
       /\ \A i \in DOMAIN ftpCalls' : \E j \in DOMAIN ftpCalls : ftpCalls'[i] = ftpCalls[j]
       /\ CallWaits(ftpCalls) => CallWaits(ftpCalls)' \/ ReplyWaits(q)
  BY <1>1, <1>2 DEF CallWaits
<1> QED BY <1>2, <1>5, <1>6, <1>7, <1>9, <1>10, <1>11, <1>12, DaemonEmits, Zenon

LEMMA Answered ==
  ASSUME ObTypes, ftpCalls # <<>>, ftpCalls' = Tail(ftpCalls), NEW ok \in BOOLEAN,
         NEW r, r = <<"reply", Head(ftpCalls)[1], ok>>
  PROVE  /\ r \in Events /\ Begun(r, counts) /\ r[1] = "reply" /\ (Resumed(r) <=> ok /\ Head(ftpCalls)[1] = "Resume")
         /\ Head(ftpCalls)[1] \in FtpMethods /\ Head(ftpCalls)[2] \in Nat
         /\ Head(ftpCalls)[1] = "CreateSession" => Creates(Head(ftpCalls)[2]) /\ Head(ftpCalls)[2] \in 1..counts.sessions
         /\ ftpCalls' \in Seq(FtpMethods \X Nat)
         /\ \A i \in DOMAIN ftpCalls' : \E j \in DOMAIN ftpCalls : ftpCalls'[i] = ftpCalls[j]
         /\ \A n : Creates(n)' => Creates(n)
         /\ \A q : (\E i \in DOMAIN q : q[i] = r) => (CallWaits(ftpCalls) => CallWaits(ftpCalls)' \/ ReplyWaits(q))
<1> DEFINE h == Head(ftpCalls)
           t == Tail(ftpCalls)
<1>1. /\ ftpCalls \in Seq(FtpMethods \X Nat)
      /\ \A i \in DOMAIN ftpCalls : ftpCalls[i][1] = "CreateSession" => ftpCalls[i][2] \in 1..counts.sessions
  BY DEF ObTypes
<1>2. /\ t \in Seq(FtpMethods \X Nat) /\ 1 \in DOMAIN ftpCalls /\ h = ftpCalls[1] /\ h \in FtpMethods \X Nat
      /\ \A j \in DOMAIN t : j + 1 \in DOMAIN ftpCalls /\ t[j] = ftpCalls[j + 1]
      /\ \A i \in DOMAIN ftpCalls : i # 1 => i - 1 \in DOMAIN t /\ t[i - 1] = ftpCalls[i]
  BY <1>1, TailFacts
<1>3. /\ ftpCalls' = t /\ r = <<"reply", h[1], ok>>
  OBVIOUS
<1> HIDE DEF h, t
<1>4. h[1] \in FtpMethods /\ h[2] \in Nat
  BY <1>2
<1>5. /\ r \in Events /\ Begun(r, counts) /\ r[1] = "reply" /\ r[2] = h[1] /\ r[3] = ok
  BY <1>3, <1>4 DEF Events, Begun
<1>6. Resumed(r) <=> ok /\ h[1] = "Resume"
  BY <1>5, Zenon DEF Resumed
<1>7. h[1] = "CreateSession" => Creates(h[2]) /\ h[2] \in 1..counts.sessions
  BY <1>1, <1>2 DEF Creates
<1>8. /\ ftpCalls' \in Seq(FtpMethods \X Nat)
      /\ \A i \in DOMAIN ftpCalls' : \E j \in DOMAIN ftpCalls : ftpCalls'[i] = ftpCalls[j]
  <2>1. t \in Seq(FtpMethods \X Nat) /\ \A i \in DOMAIN t : \E j \in DOMAIN ftpCalls : t[i] = ftpCalls[j]
    BY <1>2, Zenon
  <2> QED BY <1>3, <2>1, Zenon
<1>9. ASSUME NEW n, Creates(n)' PROVE Creates(n)
  <2>1. PICK i \in DOMAIN ftpCalls' : ftpCalls'[i][1] = "CreateSession" /\ ftpCalls'[i][2] = n
    BY <1>9 DEF Creates
  <2>2. PICK j \in DOMAIN ftpCalls : ftpCalls'[i] = ftpCalls[j]
    BY <1>8
  <2>3. ftpCalls[j][1] = "CreateSession" /\ ftpCalls[j][2] = n
    BY <2>1, <2>2, Zenon
  <2> QED BY <2>3, Zenon DEF Creates
<1>10. ASSUME NEW q, NEW i \in DOMAIN q, q[i] = r, CallWaits(ftpCalls) PROVE CallWaits(ftpCalls)' \/ ReplyWaits(q)
  <2>1. PICK j \in DOMAIN ftpCalls : ftpCalls[j][1] \in {"Cancel", "Resume"}
    BY <1>10 DEF CallWaits
  <2>2. CASE j = 1
    BY <1>2, <1>5, <1>10, <2>1, <2>2, Zenon DEF ReplyWaits
  <2>3. CASE j # 1
    <3>1. j - 1 \in DOMAIN t /\ t[j - 1] = ftpCalls[j]
      BY <1>2, <2>3
    <3> QED BY <1>3, <2>1, <3>1 DEF CallWaits
  <2> QED BY <2>2, <2>3
<1> QED BY <1>4, <1>5, <1>6, <1>7, <1>8, <1>9, <1>10, Zenon DEF h

LEMMA AnswersKeeps ==
  ASSUME ObexInv, ~streamFault, NEW ok \in BOOLEAN, ObexdAnswers(ok) PROVE ObexInv'
<1> DEFINE h == Head(ftpCalls)
           method == h[1]
           on == daemon.active # 0 /\ h[2] = daemon.active
           r == <<"reply", method, ok>>
           m == <<"session", h[2]>>
           f == <<"removed", daemon.active>>
<1>1. /\ ObTypes /\ DaemonOK /\ OwnDaemon /\ ObexTypeOK /\ events \in Seq(Events)
      /\ daemon \in [up : BOOLEAN, sessions : SUBSET (1..counts.sessions), active : 0..counts.transfers,
                     owner : 0..counts.sessions, suspended : BOOLEAN]
      /\ counts.sessions \in Nat /\ counts.transfers \in Nat
  BY DEF ObexInv, ObTypes, ObexTypeOK
<1>2. /\ ftpCalls # <<>> /\ ftpCalls' = Tail(ftpCalls)
      /\ UNCHANGED <<session, transfer, ftpState, ftpReq, stream, isUsed, counts, popenFailed, streamFault>>
      /\ ok => daemon.up /\ (method # "CreateSession" => on)
      /\ \/ ~ok /\ daemon' = daemon /\ events' = events \o <<r>>
         \/ /\ ok /\ method = "CreateSession"
            /\ daemon' = [daemon EXCEPT !.sessions = @ \cup {h[2]}]
            /\ events' = events \o <<m>> \o <<r>>
         \/ /\ ok /\ method \in {"Suspend", "Resume"}
            /\ daemon' = [daemon EXCEPT !.suspended = method = "Suspend"]
            /\ events' = events \o <<r>>
         \/ /\ ok /\ method = "Cancel"
            /\ daemon' = NoTransfer(daemon)
            /\ events' = events \o <<r>> \o <<f>>
  BY Zenon DEF ObexdAnswers
<1>3. /\ r \in Events /\ Begun(r, counts) /\ r[1] = "reply" /\ (Resumed(r) <=> ok /\ method = "Resume")
      /\ method \in FtpMethods /\ h[2] \in Nat
      /\ method = "CreateSession" => Creates(h[2]) /\ h[2] \in 1..counts.sessions
      /\ ftpCalls' \in Seq(FtpMethods \X Nat)
      /\ \A i \in DOMAIN ftpCalls' : \E j \in DOMAIN ftpCalls : ftpCalls'[i] = ftpCalls[j]
      /\ \A n : Creates(n)' => Creates(n)
      /\ \A q : (\E i \in DOMAIN q : q[i] = r) => (CallWaits(ftpCalls) => CallWaits(ftpCalls)' \/ ReplyWaits(q))
  BY <1>1, <1>2, Answered, SMTT(30)
<1>4. /\ f \in Events /\ f[1] = "removed" /\ Begun(f, counts) /\ ~Resumed(f)
  BY <1>1 DEF Events, Begun, Resumed
<1>5. /\ m \in Events /\ m[1] = "session" /\ m[2] = h[2] /\ ~Resumed(m)
      /\ h[2] \in 1..counts.sessions => Begun(m, counts)
  BY <1>1, <1>3 DEF Events, Begun, Resumed
<1> HIDE DEF h, method, on, r, m, f
<1>6. ok => daemon'.up /\ daemon.up
  BY <1>1, <1>2 DEF NoTransfer
<1>7. ASSUME daemon' \in [up : BOOLEAN, sessions : SUBSET (1..counts.sessions), active : 0..counts.transfers,
                          owner : 0..counts.sessions, suspended : BOOLEAN],
             daemon'.sessions = daemon.sessions, ok \/ daemon' = daemon,
             \/ daemon'.active = daemon.active /\ daemon'.owner = daemon.owner
             \/ daemon'.active = 0 /\ daemon'.owner = 0
      PROVE  DaemonOK' /\ OwnDaemon'
  <2>1. DaemonOK'
    BY <1>1, <1>3, <1>6, <1>7 DEF DaemonOK
  <2>2. OwnDaemon'
    BY <1>1, <1>2, <1>3, <1>7 DEF OwnDaemon
  <2> QED BY <2>1, <2>2
<1>8. ASSUME events' = events \o <<r>>, daemon' = [daemon EXCEPT !.suspended = daemon'.suspended],
             daemon'.suspended \in BOOLEAN, ok \/ daemon' = daemon, Resumed(r) => daemon.active # 0
      PROVE  ObexInv'
  <2> DEFINE q == <<r>>
  <2>1. /\ q \in Seq(Events) /\ 1 \in DOMAIN q /\ q[1] = r /\ \A i \in DOMAIN q : i = 1 /\ q[i] = r
        /\ NoneOf(q, Kinds) /\ NoneOf(q, {"session"})
    <3>1. r[1] \notin Kinds /\ r[1] \notin {"session"}
      BY <1>3 DEF Kinds
    <3> QED BY <1>3, <3>1, OneEvent, Zenon
  <2>2. events' = events \o q
    BY <1>8
  <2> HIDE DEF q
  <2>3. \A i \in DOMAIN q : Begun(q[i], counts) /\ (Resumed(q[i]) => i = 1 /\ daemon.active # 0)
    BY <1>3, <1>8, <2>1
  <2>4. CallWaits(ftpCalls) => CallWaits(ftpCalls)' \/ ReplyWaits(q)
    BY <1>3, <2>1, Zenon
  <2>5. /\ daemon' \in [up : BOOLEAN, sessions : SUBSET (1..counts.sessions), active : 0..counts.transfers,
                        owner : 0..counts.sessions, suspended : BOOLEAN]
        /\ daemon'.sessions = daemon.sessions /\ daemon'.active = daemon.active /\ daemon'.owner = daemon.owner
    BY <1>1, <1>8
  <2>6. DaemonOK' /\ OwnDaemon'
    BY <1>7, <1>8, <2>5
  <2>7. transfer' = transfer
    BY <1>2
  <2> QED BY <1>2, <1>3, <2>1, <2>2, <2>3, <2>4, <2>5, <2>6, <2>7, DaemonEmits, Zenon
<1>9. CASE ~ok /\ daemon' = daemon /\ events' = events \o <<r>>
  <2>1. daemon' = [daemon EXCEPT !.suspended = daemon'.suspended] /\ daemon'.suspended \in BOOLEAN /\ ~Resumed(r)
    BY <1>1, <1>3, <1>9
  <2> QED BY <1>8, <1>9, <2>1
<1>10. CASE /\ ok /\ method \in {"Suspend", "Resume"}
            /\ daemon' = [daemon EXCEPT !.suspended = method = "Suspend"]
            /\ events' = events \o <<r>>
  <2>1. daemon' = [daemon EXCEPT !.suspended = daemon'.suspended] /\ daemon'.suspended \in BOOLEAN
    BY <1>1, <1>10
  <2>2. daemon.active # 0
    BY <1>2, <1>10 DEF on
  <2> QED BY <1>8, <1>10, <2>1, <2>2
<1>11. CASE /\ ok /\ method = "Cancel"
            /\ daemon' = NoTransfer(daemon)
            /\ events' = events \o <<r>> \o <<f>>
  <2> DEFINE q == <<r>> \o <<f>>
  <2>1. Pair(q, r, f) /\ events' = events \o q
    BY <1>1, <1>3, <1>4, <1>11, TwoEvents
  <2> HIDE DEF q
  <2>2. /\ q \in Seq(Events) /\ 1 \in DOMAIN q /\ q[1] = r /\ q[2] = f
        /\ \A i \in DOMAIN q : q[i] = r \/ q[i] = f
        /\ LastOf(q, Kinds, 2) /\ NoneOf(q, {"session"})
    <3>1. f[1] \in Kinds /\ f[1] \notin {"session"} /\ r[1] \notin {"session"}
      BY <1>3, <1>4 DEF Kinds
    <3> QED BY <2>1, <3>1, PairEnds, Zenon
  <2>3. ~Resumed(r)
    BY <1>3, <1>11
  <2>4. \A i \in DOMAIN q : Begun(q[i], counts) /\ (Resumed(q[i]) => i = 1 /\ daemon.active # 0)
    BY <1>3, <1>4, <2>2, <2>3
  <2>5. CallWaits(ftpCalls) => CallWaits(ftpCalls)' \/ ReplyWaits(q)
    BY <1>3, <2>2, Zenon
  <2>6. /\ daemon' \in [up : BOOLEAN, sessions : SUBSET (1..counts.sessions), active : 0..counts.transfers,
                        owner : 0..counts.sessions, suspended : BOOLEAN]
        /\ daemon'.sessions = daemon.sessions /\ daemon'.active = 0 /\ daemon'.owner = 0
    <3>1. 0 \in 0..counts.sessions /\ 0 \in 0..counts.transfers
      BY <1>1
    <3> QED BY <1>1, <1>11, <3>1 DEF NoTransfer
  <2>7. DaemonOK' /\ OwnDaemon'
    BY <1>7, <1>11, <2>6
  <2>8. Leaves(q[2], daemon'.active)
    BY <1>4, <2>2, <2>6 DEF Leaves
  <2> QED BY <1>2, <1>3, <2>1, <2>2, <2>4, <2>5, <2>6, <2>7, <2>8, DaemonEmits, Zenon
<1>12. CASE /\ ok /\ method = "CreateSession"
            /\ daemon' = [daemon EXCEPT !.sessions = @ \cup {h[2]}]
            /\ events' = events \o <<m>> \o <<r>>
  <2> DEFINE q == <<m>> \o <<r>>
  <2>1. Pair(q, m, r) /\ events' = events \o q
    BY <1>1, <1>3, <1>5, <1>12, TwoEvents
  <2> HIDE DEF q
  <2>2. /\ q \in Seq(Events) /\ 2 \in DOMAIN q /\ q[1] = m /\ q[2] = r
        /\ \A i \in DOMAIN q : q[i] = m \/ q[i] = r
        /\ LastOf(q, {"session"}, 1) /\ NoneOf(q, Kinds)
    <3>1. m[1] \in {"session"} /\ r[1] \notin {"session"} /\ m[1] \notin Kinds /\ r[1] \notin Kinds
      BY <1>3, <1>5 DEF Kinds
    <3> QED BY <2>1, <3>1, PairEnds, Zenon
  <2>3. ~Resumed(r) /\ h[2] \in 1..counts.sessions /\ Creates(h[2])
    BY <1>3, <1>12
  <2>4. \A i \in DOMAIN q : Begun(q[i], counts) /\ (Resumed(q[i]) => i = 1 /\ daemon.active # 0)
    BY <1>3, <1>5, <2>2, <2>3
  <2>5. CallWaits(ftpCalls) => CallWaits(ftpCalls)' \/ ReplyWaits(q)
    BY <1>3, <2>2, Zenon
  <2>6. /\ daemon' \in [up : BOOLEAN, sessions : SUBSET (1..counts.sessions), active : 0..counts.transfers,
                        owner : 0..counts.sessions, suspended : BOOLEAN]
        /\ daemon'.sessions = daemon.sessions \cup {h[2]}
        /\ daemon'.active = daemon.active /\ daemon'.owner = daemon.owner
    BY <1>1, <1>12, <2>3
  <2>7. DaemonOK'
    BY <1>1, <1>6, <1>12, <2>6 DEF DaemonOK
  <2>8. OwnDaemon'
    <3> SUFFICES ASSUME ~isUsed
                 PROVE  /\ \E n \in Nat : daemon'.sessions \subseteq {n} /\ \A k \in Nat : Creates(k)' => k = n
                        /\ stream' = "none" => popenFailed'
      BY <1>2, Zenon DEF OwnDaemon
    <3>1. PICK n \in Nat : daemon.sessions \subseteq {n} /\ \A k \in Nat : Creates(k) => k = n
      BY <1>1, Zenon DEF OwnDaemon
    <3>2. h[2] = n
      BY <1>3, <2>3, <3>1
    <3>3. daemon'.sessions \subseteq {n} /\ \A k \in Nat : Creates(k)' => k = n
      BY <1>3, <2>6, <3>1, <3>2
    <3>4. stream' = "none" => popenFailed'
      BY <1>1, <1>2, <1>3, <2>3 DEF OwnDaemon
    <3> QED BY <3>3, <3>4
  <2>9. SessionFits(q[1][2], daemon'.sessions, counts'.sessions)
    BY <1>5, <2>2, <2>3, <2>6 DEF SessionFits
  <2>10. transfer' = transfer
    BY <1>2
  <2> QED BY <1>2, <1>3, <2>1, <2>2, <2>4, <2>5, <2>6, <2>7, <2>8, <2>9, <2>10, DaemonEmits, Zenon
<1> QED BY <1>2, <1>9, <1>10, <1>11, <1>12

LEMMA KnownTail ==
  ASSUME NEW s \in Seq(Events), s # <<>>, NEW i \in DOMAIN Tail(s), NEW t, NEW u, KnownAt(s, i + 1, t),
         Head(s)[1] = "added" => u # 0, Head(s)[1] \notin Kinds => u = t
  PROVE  KnownAt(Tail(s), i, u)
<1> DEFINE r == Tail(s)
<1>1. /\ 1 \in DOMAIN s /\ Head(s) = s[1]
      /\ \A j \in DOMAIN r : j \in Nat /\ j >= 1 /\ j + 1 \in DOMAIN s /\ r[j] = s[j + 1]
      /\ \A k \in DOMAIN s : k \in Nat /\ (k # 1 => k - 1 \in DOMAIN r /\ r[k - 1] = s[k])
  BY TailFacts
<1>2. i \in DOMAIN r
  OBVIOUS
<1> HIDE DEF r
<1>3. ASSUME NEW k \in DOMAIN s, k < i + 1, s[k][1] = "added",
             \A j \in DOMAIN s : k < j /\ j < i + 1 => s[j][1] \notin Kinds
      PROVE  KnownAt(r, i, u)
  <2>1. CASE k = 1
    <3>1. u # 0
      BY <1>1, <1>3, <2>1
    <3>2. ASSUME NEW j \in DOMAIN r, j < i PROVE r[j][1] \notin Kinds
      <4>1. j + 1 \in DOMAIN s /\ r[j] = s[j + 1] /\ j \in Nat /\ j >= 1 /\ i \in Nat
        BY <1>1, <1>2
      <4>2. k < j + 1 /\ j + 1 < i + 1
        BY <2>1, <3>2, <4>1
      <4> QED BY <1>3, <4>1, <4>2, Zenon
    <3> QED BY <3>1, <3>2, Zenon DEF KnownAt
  <2>2. CASE k # 1
    <3>0. k \in Nat /\ i \in Nat
      BY <1>1, <1>2
    <3>1. k - 1 \in DOMAIN r /\ r[k - 1] = s[k] /\ k - 1 < i
      BY <1>1, <1>3, <2>2, <3>0
    <3>2. ASSUME NEW j \in DOMAIN r, k - 1 < j, j < i PROVE r[j][1] \notin Kinds
      <4>1. j + 1 \in DOMAIN s /\ r[j] = s[j + 1] /\ j \in Nat /\ k \in Nat /\ i \in Nat
        BY <1>1, <1>2, <3>2
      <4>2. \A a, b, d \in Nat : a - 1 < b /\ b < d => a < b + 1 /\ b + 1 < d + 1
        OBVIOUS
      <4>3. k < j + 1 /\ j + 1 < i + 1
        BY <3>2, <4>1, <4>2, Zenon
      <4> QED BY <1>3, <4>1, <4>3, Zenon
    <3> QED BY <1>3, <3>1, <3>2, Zenon DEF KnownAt
  <2> QED BY <2>1, <2>2
<1>4. CASE t # 0 /\ \A j \in DOMAIN s : j < i + 1 => s[j][1] \notin Kinds
  <2>1. s[1][1] \notin Kinds
    BY <1>1, <1>2, <1>4
  <2>2. \A j \in DOMAIN r : j < i => r[j][1] \notin Kinds
    BY <1>1, <1>2, <1>4
  <2>3. u # 0
    BY <1>1, <1>4, <2>1
  <2> QED BY <2>2, <2>3, Zenon DEF KnownAt, r
<1> QED BY <1>3, <1>4, Zenon DEF KnownAt, r

LEMMA ReplyEffect ==
  ASSUME ObTypes, NEW e \in Events, FtpReply(e), Resumed(e) => transfer # 0
  PROVE  /\ ftpState' \in {"END", "RESUMING", "RESUMED", "SUSPENDING", "SUSPENDED", "CANCELING", "CANCELED", "ERROR"}
         /\ ftpReq' \in {"END", "GET", "PUT"}
         /\ ftpCalls' = ftpCalls \/ ftpCalls' = Append(ftpCalls, <<"Cancel", transfer>>)
         /\ ftpState' = "CANCELING" => /\ ftpState = "CANCELING"
                                       /\ \/ e[2] \notin {"Cancel", "Resume"}
                                          \/ ftpCalls' = Append(ftpCalls, <<"Cancel", transfer>>)
<1>1. /\ ftpState \in {"END", "RESUMING", "RESUMED", "SUSPENDING", "SUSPENDED", "CANCELING", "CANCELED", "ERROR"}
      /\ ftpReq \in {"END", "GET", "PUT"}
  BY DEF ObTypes, ObexTypeOK
<1>2. e[1] = "reply"
  BY DEF FtpReply
<1>3. CASE e[2] = "Cancel" /\ _ftp_cancel_callback(e[3])
  BY <1>1, <1>3 DEF _ftp_cancel_callback
<1>4. CASE e[2] = "Resume" /\ _ftp_resume_callback(e[3])
  <2>1. CASE e[3] /\ ftpReq = "PUT" /\ ftpState = "CANCELING"
    <3>1. transfer # 0
      BY <1>2, <1>4, <2>1, Zenon DEF Resumed
    <3>2. /\ ftpCalls' = Append(ftpCalls, <<"Cancel", transfer>>)
          /\ ftpState' = ftpState /\ ftpReq' = ftpReq
      BY <1>4, <2>1, <3>1 DEF _ftp_resume_callback
    <3> QED BY <1>1, <2>1, <3>2
  <2>2. CASE ~(e[3] /\ ftpReq = "PUT" /\ ftpState = "CANCELING")
    <3>1. ftpState' \in {"RESUMED", "ERROR"} /\ ftpReq' = ftpReq /\ ftpCalls' = ftpCalls
      BY <1>4, <2>2, Zenon DEF _ftp_resume_callback
    <3> QED BY <1>1, <3>1
  <2> QED BY <2>1, <2>2
<1>5. CASE e[2] = "Suspend" /\ _ftp_suspend_callback(e[3])
  BY <1>1, <1>5 DEF _ftp_suspend_callback
<1>6. CASE e[2] = "CreateSession" /\ UNCHANGED <<ftpState, ftpReq, ftpCalls>>
  BY <1>1, <1>6
<1> QED BY <1>3, <1>4, <1>5, <1>6, Zenon DEF FtpReply

LEMMA DispatchEffect ==
  ASSUME ObTypes, NEW e \in Events, Begun(e, counts), Resumed(e) => transfer # 0,
         ObexAdded(e) \/ ObexRemoved(e) \/ _obex_properties_changed(e) \/ FtpReply(e)
  PROVE  /\ session' = IF e[1] = "session" THEN e[2] ELSE session
         /\ e[1] = "added" => transfer' = e[2] /\ e[2] # 0
         /\ e[1] = "removed" => transfer' = 0
         /\ e[1] \notin Kinds => transfer' = transfer
         /\ session' \in 0..counts.sessions /\ transfer' \in 0..counts.transfers
         /\ ftpState' \in {"END", "RESUMING", "RESUMED", "SUSPENDING", "SUSPENDED", "CANCELING", "CANCELED", "ERROR"}
         /\ ftpReq' \in {"END", "GET", "PUT"}
         /\ ftpCalls' = ftpCalls \/ ftpCalls' = Append(ftpCalls, <<"Cancel", transfer>>)
         /\ ftpState' = "CANCELING" => /\ ftpState = "CANCELING"
                                       /\ \/ e[1] # "reply" \/ e[2] \notin {"Cancel", "Resume"}
                                          \/ ftpCalls' = Append(ftpCalls, <<"Cancel", transfer>>)
<1>1. /\ ftpState \in {"END", "RESUMING", "RESUMED", "SUSPENDING", "SUSPENDED", "CANCELING", "CANCELED", "ERROR"}
      /\ ftpReq \in {"END", "GET", "PUT"}
      /\ session \in 0..counts.sessions /\ transfer \in 0..counts.transfers
      /\ counts.transfers \in Nat /\ counts.sessions \in Nat
  BY DEF ObTypes, ObexTypeOK
<1>2. CASE ObexAdded(e)
  BY <1>1, <1>2 DEF ObexAdded, Begun, Kinds
<1>3. CASE ObexRemoved(e)
  BY <1>1, <1>3 DEF ObexRemoved, Begun, Kinds
<1>4. CASE _obex_properties_changed(e)
  BY <1>1, <1>4 DEF _obex_properties_changed, Kinds
<1>5. CASE FtpReply(e)
  <2>1. e[1] = "reply" /\ session' = session /\ transfer' = transfer
    BY <1>5 DEF FtpReply
  <2> QED BY <1>1, <1>5, <2>1, ReplyEffect DEF Kinds
<1> QED BY <1>2, <1>3, <1>4, <1>5

LEMMA DispatchKeeps ==
  ASSUME ObexInv, ~streamFault, ObexDispatch PROVE ObexInv'
<1> DEFINE e == Head(events)
           t == Tail(events)
           c == <<"Cancel", transfer>>
<1>1. /\ ObTypes /\ DaemonOK /\ OwnDaemon /\ TransferFollows /\ SessionFollows
      /\ ResumedIsKnown /\ CancelHasCall /\ StreamClosedOnce /\ ObexTypeOK
      /\ counts \in [sessions : Nat, transfers : Nat, calls : Nat] /\ events \in Seq(Events)
      /\ ftpCalls \in Seq(FtpMethods \X Nat)
      /\ \A i \in DOMAIN events : Begun(events[i], counts)
      /\ \A i \in DOMAIN ftpCalls : ftpCalls[i][1] = "CreateSession" => ftpCalls[i][2] \in 1..counts.sessions
  BY DEF ObexInv, ObTypes
<1>2. /\ events # <<>> /\ events' = t
      /\ ObexAdded(e) \/ ObexRemoved(e) \/ _obex_properties_changed(e) \/ FtpReply(e)
      /\ UNCHANGED <<stream, isUsed, daemon, counts, popenFailed, streamFault>>
  BY Zenon DEF ObexDispatch
<1>3. /\ t \in Seq(Events) /\ 1 \in DOMAIN events /\ e = events[1] /\ e \in Events
      /\ \A j \in DOMAIN t : j \in Nat /\ j >= 1 /\ j + 1 \in DOMAIN events /\ t[j] = events[j + 1]
      /\ \A i \in DOMAIN events : i \in Nat /\ (i # 1 => i - 1 \in DOMAIN t /\ t[i - 1] = events[i])
  BY <1>1, <1>2, TailFacts
<1>4. Begun(e, counts)
  BY <1>1, <1>3
<1>5. Resumed(e) => transfer # 0
  <2> SUFFICES ASSUME Resumed(e) PROVE transfer # 0
    OBVIOUS
  <2>1. KnownAt(events, 1, transfer)
    BY <1>1, <1>3 DEF ResumedIsKnown
  <2> QED BY <1>3, <2>1 DEF KnownAt
<1>6. /\ NoneOf(events, Kinds) => NoneOf(t, Kinds) /\ e[1] \notin Kinds
      /\ LastOf(events, Kinds, 1) => NoneOf(t, Kinds)
      /\ \A i : LastOf(events, Kinds, i) /\ i # 1 => LastOf(t, Kinds, i - 1) /\ t[i - 1] = events[i]
  BY <1>1, <1>2, AfterHead
<1>19. /\ NoneOf(events, {"session"}) => NoneOf(t, {"session"}) /\ e[1] \notin {"session"}
       /\ LastOf(events, {"session"}, 1) => NoneOf(t, {"session"})
       /\ \A i : LastOf(events, {"session"}, i) /\ i # 1 => LastOf(t, {"session"}, i - 1) /\ t[i - 1] = events[i]
  BY <1>1, <1>2, AfterHead
<1>7. \A i \in DOMAIN t : \A u : KnownAt(events, i + 1, transfer) /\ (e[1] = "added" => u # 0) /\ (e[1] \notin Kinds => u = transfer)
                                => KnownAt(t, i, u)
  BY <1>1, <1>2, KnownTail
<1> HIDE DEF e, t
<1>8. /\ session' = IF e[1] = "session" THEN e[2] ELSE session
      /\ e[1] = "added" => transfer' = e[2] /\ e[2] # 0
      /\ e[1] = "removed" => transfer' = 0
      /\ e[1] \notin Kinds => transfer' = transfer
      /\ session' \in 0..counts.sessions /\ transfer' \in 0..counts.transfers
      /\ ftpState' \in {"END", "RESUMING", "RESUMED", "SUSPENDING", "SUSPENDED", "CANCELING", "CANCELED", "ERROR"}
      /\ ftpReq' \in {"END", "GET", "PUT"}
      /\ ftpCalls' = ftpCalls \/ ftpCalls' = Append(ftpCalls, c)
      /\ ftpState' = "CANCELING" => /\ ftpState = "CANCELING"
                                    /\ \/ e[1] # "reply" \/ e[2] \notin {"Cancel", "Resume"}
                                       \/ ftpCalls' = Append(ftpCalls, c)
  BY <1>1, <1>2, <1>3, <1>4, <1>5, DispatchEffect
<1>9. c \in FtpMethods \X Nat /\ c[1] = "Cancel"
  BY <1>1 DEF FtpMethods, ObexTypeOK
<1> HIDE DEF c
<1>10. /\ ftpCalls' \in Seq(FtpMethods \X Nat)
       /\ \A i \in DOMAIN ftpCalls : i \in DOMAIN ftpCalls' /\ ftpCalls'[i] = ftpCalls[i]
       /\ \A i \in DOMAIN ftpCalls' : (i \in DOMAIN ftpCalls /\ ftpCalls'[i] = ftpCalls[i]) \/ ftpCalls'[i] = c
       /\ ftpCalls' = Append(ftpCalls, c) => \E i \in DOMAIN ftpCalls' : ftpCalls'[i] = c
  <2>1. CASE ftpCalls' = Append(ftpCalls, c)
    <3>1. ftpCalls \in Seq(FtpMethods \X Nat) /\ c \in FtpMethods \X Nat
      BY <1>1, <1>9
    <3> QED BY <2>1, <3>1, AppendedSeq, SMTT(30)
  <2>2. CASE ftpCalls' = ftpCalls /\ ftpCalls' # Append(ftpCalls, c)
    BY <1>1, <2>2
  <2> QED BY <1>8, <2>1, <2>2
<1>11. \A n : Creates(n)' <=> Creates(n)
  BY <1>9, <1>10 DEF Creates
<1>12. ObTypes'
  <2>1. ObexTypeOK'
    BY <1>1, <1>2, <1>8 DEF ObexTypeOK
  <2>2. \A i \in DOMAIN ftpCalls' : ftpCalls'[i][1] = "CreateSession" => ftpCalls'[i][2] \in 1..counts'.sessions
    BY <1>1, <1>2, <1>9, <1>10
  <2>3. \A i \in DOMAIN events' : Begun(events'[i], counts')
    BY <1>1, <1>2, <1>3
  <2> QED BY <1>1, <1>2, <1>3, <1>10, <2>1, <2>2, <2>3 DEF ObTypes
<1>13. DaemonOK' /\ OwnDaemon'
  BY <1>1, <1>2, <1>11 DEF DaemonOK, OwnDaemon
<1>14. TransferFollows'
  <2>1. CASE NoneOf(events, Kinds) /\ transfer = daemon.active
    <3>1. NoneOf(t, Kinds) /\ e[1] \notin Kinds
      BY <1>6, <2>1, Zenon
    <3> QED BY <1>2, <1>8, <2>1, <3>1 DEF TransferFollows
  <2>2. ASSUME NEW i, LastOf(events, Kinds, i), Leaves(events[i], daemon.active) PROVE TransferFollows'
    <3>1. CASE i = 1
      <4>1. NoneOf(t, Kinds)
        BY <1>6, <2>2, <3>1, Zenon
      <4>2. transfer' = daemon.active
        BY <1>3, <1>8, <2>2, <3>1 DEF Leaves
      <4> QED BY <1>2, <4>1, <4>2 DEF TransferFollows
    <3>2. CASE i # 1
      <4>1. LastOf(t, Kinds, i - 1) /\ t[i - 1] = events[i]
        BY <1>6, <2>2, <3>2, Zenon
      <4> QED BY <1>2, <2>2, <4>1, Zenon DEF TransferFollows
    <3> QED BY <3>1, <3>2
  <2> QED BY <1>1, <2>1, <2>2 DEF TransferFollows
<1>15. SessionFollows'
  <2>1. CASE NoneOf(events, {"session"}) /\ SessionFits(session, daemon.sessions, counts.sessions)
    <3>1. session' = session /\ NoneOf(t, {"session"})
      <4>1. NoneOf(t, {"session"}) /\ e[1] \notin {"session"}
        BY <1>19, <2>1, Zenon
      <4> QED BY <1>8, <4>1
    <3> QED BY <1>2, <2>1, <3>1 DEF SessionFollows
  <2>2. ASSUME NEW i, LastOf(events, {"session"}, i), SessionFits(events[i][2], daemon.sessions, counts.sessions)
        PROVE  SessionFollows'
    <3>1. CASE i = 1
      <4>1. NoneOf(t, {"session"})
        BY <1>19, <2>2, <3>1, Zenon
      <4>2. session' = events[i][2]
        BY <1>3, <1>8, <2>2, <3>1 DEF LastOf
      <4> QED BY <1>2, <2>2, <4>1, <4>2 DEF SessionFollows
    <3>2. CASE i # 1
      <4>1. LastOf(t, {"session"}, i - 1) /\ t[i - 1] = events[i]
        BY <1>19, <2>2, <3>2, Zenon
      <4> QED BY <1>2, <2>2, <4>1, Zenon DEF SessionFollows
    <3> QED BY <3>1, <3>2
  <2> QED BY <1>1, <2>1, <2>2 DEF SessionFollows
<1>16. ResumedIsKnown'
  <2> SUFFICES ASSUME NEW i \in DOMAIN t, Resumed(t[i]) PROVE KnownAt(t, i, transfer')
    BY <1>2 DEF ResumedIsKnown
  <2>1. KnownAt(events, i + 1, transfer)
    BY <1>1, <1>3 DEF ResumedIsKnown
  <2>2. (e[1] = "added" => transfer' # 0) /\ (e[1] \notin Kinds => transfer' = transfer)
    BY <1>8
  <2> QED BY <1>7, <2>1, <2>2
<1>17. CancelHasCall'
  <2> SUFFICES ASSUME ftpState' = "CANCELING" PROVE CallWaits(ftpCalls') \/ ReplyWaits(events')
    BY DEF CancelHasCall, CallWaits, ReplyWaits
  <2>1. CASE ftpCalls' = Append(ftpCalls, c)
    BY <1>9, <1>10, <2>1 DEF CallWaits
  <2>2. CASE ftpCalls' # Append(ftpCalls, c)
    <3>1. e[1] # "reply" \/ e[2] \notin {"Cancel", "Resume"}
      BY <1>8, <2>2
    <3>2. CallWaits(ftpCalls) \/ ReplyWaits(events)
      BY <1>1, <1>8 DEF CancelHasCall, CallWaits, ReplyWaits
    <3>3. CASE CallWaits(ftpCalls)
      BY <1>10, <3>3 DEF CallWaits
    <3>4. CASE ReplyWaits(events)
      BY <1>2, <1>3, <3>1, <3>4 DEF ReplyWaits
    <3> QED BY <3>2, <3>3, <3>4
  <2> QED BY <2>1, <2>2
<1>18. StreamClosedOnce'
  BY <1>1, <1>2 DEF StreamClosedOnce
<1> QED BY <1>12, <1>13, <1>14, <1>15, <1>16, <1>17, <1>18 DEF ObexInv

LEMMA ObexInvInit == ObexInit => ObexInv
<1> SUFFICES ASSUME ObexInit PROVE ObexInv
  OBVIOUS
<1>1. /\ session = 0 /\ transfer = 0 /\ ftpState = "END" /\ ftpReq = "END" /\ ftpCalls = <<>> /\ events = <<>>
      /\ stream = "none" /\ isUsed = FALSE /\ popenFailed = FALSE /\ streamFault = FALSE
      /\ counts = [sessions |-> 0, transfers |-> 0, calls |-> 0]
      /\ daemon \in {Dead, [Dead EXCEPT !.up = TRUE]}
  BY DEF ObexInit
<1>2. /\ daemon \in [up : BOOLEAN, sessions : SUBSET (1..counts.sessions), active : 0..counts.transfers,
                     owner : 0..counts.sessions, suspended : BOOLEAN]
      /\ daemon.sessions = {} /\ daemon.active = 0 /\ daemon.owner = 0 /\ (~daemon.up => daemon = Dead)
  <2>1. counts.sessions = 0 /\ counts.transfers = 0 /\ 0 \in 0..counts.sessions /\ 0 \in 0..counts.transfers
    BY <1>1
  <2>2. CASE daemon = Dead
    BY <2>1, <2>2 DEF Dead
  <2>3. CASE daemon = [Dead EXCEPT !.up = TRUE]
    BY <2>1, <2>3 DEF Dead
  <2> QED BY <1>1, <2>2, <2>3
<1>3. events \in Seq(Events) /\ ftpCalls \in Seq(FtpMethods \X Nat) /\ DOMAIN events = {} /\ DOMAIN ftpCalls = {}
  BY <1>1
<1>4. ObTypes
  <2>1. counts \in [sessions : Nat, transfers : Nat, calls : Nat] /\ session \in 0..counts.sessions /\ transfer \in 0..counts.transfers
    BY <1>1
  <2>2. ObexTypeOK
    BY <1>1, <1>2, <2>1 DEF ObexTypeOK
  <2> QED BY <1>3, <2>1, <2>2 DEF ObTypes
<1>5. DaemonOK /\ OwnDaemon
  BY <1>1, <1>2, <1>3 DEF DaemonOK, OwnDaemon, Creates
<1>6. TransferFollows /\ SessionFollows
  BY <1>1, <1>2, <1>3 DEF TransferFollows, SessionFollows, NoneOf, SessionFits
<1>7. ResumedIsKnown /\ CancelHasCall /\ StreamClosedOnce
  BY <1>1, <1>3 DEF ResumedIsKnown, CancelHasCall, StreamClosedOnce
<1> QED BY <1>4, <1>5, <1>6, <1>7 DEF ObexInv

LEMMA ObexStep == ObexInv /\ [ObexNext]_obexVars => ObexInv'
<1> SUFFICES ASSUME ObexInv, [ObexNext]_obexVars PROVE ObexInv'
  OBVIOUS
<1>1. CASE UNCHANGED obexVars
  <2>1. UNCHANGED <<session, transfer, ftpState, ftpReq, ftpCalls, stream, isUsed, daemon, events, counts, popenFailed, streamFault>>
    BY <1>1 DEF obexVars
  <2>2. ObTypes'
    BY <2>1 DEF ObexInv, ObTypes, ObexTypeOK
  <2>3. DaemonOK' /\ OwnDaemon'
    BY <2>1 DEF ObexInv, DaemonOK, OwnDaemon, Creates
  <2>4. TransferFollows' /\ SessionFollows' /\ ResumedIsKnown'
    BY <2>1 DEF ObexInv, TransferFollows, SessionFollows, ResumedIsKnown
  <2>5. CancelHasCall' /\ StreamClosedOnce'
    BY <2>1 DEF ObexInv, CancelHasCall, StreamClosedOnce
  <2> QED BY <2>2, <2>3, <2>4, <2>5 DEF ObexInv
<1>2. CASE ObexNext
  <2>1. ~streamFault
    BY <1>2 DEF ObexNext
  <2>2. ASSUME NEW ok \in BOOLEAN, bt_ftp_create_session(ok) PROVE ObexInv'
    BY <2>1, <2>2, FtpCreateKeeps
  <2>3. CASE bt_ftp_remove_session
    BY <2>1, <2>3, FtpRemoveKeeps
  <2>4. CASE bt_ftp_get_file \/ bt_ftp_put_file
    BY <2>1, <2>4, StartKeeps DEF bt_ftp_get_file, bt_ftp_put_file
  <2>5. CASE bt_ftp_resume_transfer \/ bt_ftp_suspend_transfer
    BY <2>1, <2>5, SendFtpKeeps DEF bt_ftp_resume_transfer, bt_ftp_suspend_transfer
  <2>6. CASE bt_ftp_cancel_transfer
    BY <2>1, <2>6, SendFtpKeeps DEF bt_ftp_cancel_transfer
  <2>7. CASE TransferEnds
    BY <2>1, <2>7, TransferEndsKeeps
  <2>8. ASSUME NEW n \in daemon.sessions, SessionDrops(n) PROVE ObexInv'
    BY <2>1, <2>8, SessionDropsKeeps DEF SessionDrops
  <2>9. ASSUME NEW ok \in BOOLEAN, ObexdAnswers(ok) PROVE ObexInv'
    BY <2>1, <2>9, AnswersKeeps
  <2>10. CASE ObexDispatch
    BY <2>1, <2>10, DispatchKeeps
  <2> QED BY <1>2, <2>2, <2>3, <2>4, <2>5, <2>6, <2>7, <2>8, <2>9, <2>10, Zenon DEF ObexNext, artik_bluetooth_ftp
<1> QED BY <1>1, <1>2

LEMMA ObexInvSound == ObexInv => TransfersSound
<1> SUFFICES ASSUME ObexInv PROVE TransfersSound
  OBVIOUS
<1>1. ObexTypeOK /\ CancelHasCall /\ StreamClosedOnce /\ TransferFollows /\ SessionFollows
  BY DEF ObexInv, ObTypes
<1>2. ASSUME events = <<>>
      PROVE  /\ transfer = daemon.active /\ session \in daemon.sessions \cup {0}
             /\ counts.sessions = 1 /\ daemon.sessions # {} => session # 0
  <2>1. \A i : i \notin DOMAIN events
    BY <1>2
  <2>2. transfer = daemon.active
    BY <1>1, <2>1, Zenon DEF TransferFollows, LastOf
  <2>3. SessionFits(session, daemon.sessions, counts.sessions)
    BY <1>1, <2>1, Zenon DEF SessionFollows, LastOf
  <2> QED BY <2>2, <2>3 DEF SessionFits
<1>3. FollowsObexd
  BY <1>2, Zenon DEF FollowsObexd
<1> QED BY <1>1, <1>3 DEF TransfersSound

(* A transfer that is started, ends or is cancelled while earlier signals  *)
(* wait is still the one the library ends with, a resumed upload that is   *)
(* to be cancelled is known when the resumption is reported, and obexd's   *)
(* stream is closed only where it was opened (ftp.c).                      *)
THEOREM TransfersAreSound == ObexSpec => []TransfersSound
<1>1. ObexSpec => []ObexInv
  BY ObexInvInit, ObexStep, PTL DEF ObexSpec
<1> QED BY <1>1, ObexInvSound, PTL

-----------------------------------------------------------------------------
(***************************************************************************)
(* BtGatt, the server.                                                     *)
(***************************************************************************)

GattNums == 0..(MaxServices - 1)

Serv == [num : GattNums, chars : Seq(Nat)]

AttrPaths == {<<s, c>> : s, c \in Nat} \cup {<<s, c, d>> : s, c, d \in Nat}

AttrSet == [path : AttrPaths, descs : Seq(Nat), value : GattValues, seen : GattValues \cup {Unknown},
            cbs : SUBSET {"read", "write"}, live : BOOLEAN]

Handed == {<<s>> : s \in GattNums} \cup {<<s, c>> : s \in GattNums, c \in Nat}
            \cup {<<s, c, d>> : s \in GattNums, c, d \in Nat}

ReqSet == [id : Nat, type : {"READ", "WRITE"}, block : Nat, value : GattValues \cup {Unknown}]

GtTypes ==
  /\ gattServices \in Seq(Serv)
  /\ attrs \in Seq(AttrSet)
  /\ handed \subseteq Handed
  /\ asked \subseteq GattNums
  /\ requests \subseteq ReqSet
  /\ asks \in Nat
  /\ gattFault \in BOOLEAN

\* What the lists and requests name was allocated.
Allocated ==
  /\ \A i \in DOMAIN gattServices :
       \A j \in DOMAIN gattServices[i].chars : gattServices[i].chars[j] \in Blocks
  /\ \A b \in Blocks : \A j \in DOMAIN attrs[b].descs : attrs[b].descs[j] \in Blocks
  /\ \A r \in requests : r.block \in Blocks /\ (r.type = "WRITE" => r.value \in GattValues)

\* Requests are numbered as they come.
Numbered ==
  /\ {r.id : r \in requests} \cup served = 1..asks
  /\ {r.id : r \in requests} \cap served = {}
  /\ \A r, s \in requests : r.id = s.id => r = s

\* An object's path is that of one block, or of one service on the list.
OwnPaths ==
  /\ \A b \in Blocks : attrs[b].path \in objects
  /\ \A b, c \in Blocks : attrs[b].path = attrs[c].path => b = c
  /\ \A i \in DOMAIN gattServices : <<gattServices[i].num>> \in objects
  /\ \A i, j \in DOMAIN gattServices : gattServices[i].num = gattServices[j].num => i = j

\* An application that keeps to one service, and takes the last one away
\* first, has ids of what there is, and no block of a list is freed.
Named ==
  cause = {} =>
    /\ \A i \in DOMAIN gattServices : i > 1 => gattServices[i].chars = <<>>
    /\ \A s \in Nat : <<s>> \in handed => s < Len(gattServices)
    /\ \A s, c \in Nat : <<s, c>> \in handed =>
         s = 0 /\ Len(gattServices) > 0 /\ c < Len(gattServices[1].chars)
    /\ \A s, c, d \in Nat : <<s, c, d>> \in handed => s = 0 /\ Len(gattServices) > 0
    /\ \A s \in asked : s < Len(gattServices)

Live ==
  cause = {} =>
    /\ \A b \in Blocks : InList(b) => attrs[b].live
    /\ \A r \in requests : attrs[r.block].live

GtInv ==
  /\ GtTypes /\ Allocated /\ Numbered /\ OwnPaths /\ PositionIsPath
  /\ Named /\ Live /\ FaultHasCause /\ ValueIsShown

-----------------------------------------------------------------------------
(***************************************************************************)
(* BtGatt, the client.                                                     *)
(***************************************************************************)
Sig == [kind : {"service", "value"}, char : Chars]

\* A value waits only for a device that is there, or was.
SignalsOfPeers ==
  "peer gone" \notin cliCause =>
    \A i \in DOMAIN signals : signals[i].kind = "value" => signals[i].char[1] \in resolved

CliInv ==
  /\ GattClientTypeOK
  /\ clientCalls \in Nat
  /\ wanted \subseteq Chars
  /\ sent \in Seq([start : BOOLEAN, char : Chars])
  /\ signals \in Seq(Sig)
  /\ cliFault \in BOOLEAN
  /\ WantedHasClient /\ DeliveredOnce /\ ClientFaultHasCause
  /\ gotten \in Nat
  /\ SignalsOfPeers

LEMMA AnyIsSig ==
  ASSUME NEW c \in Chars
  PROVE  [kind |-> "value", char |-> c] \in Sig /\ [kind |-> "service", char |-> c] \in Sig
BY DEF Sig

\* What is told about a signal that joins those that wait.
LEMMA SignalJoins ==
  ASSUME signals \in Seq(Sig), NEW s \in Sig, Signal(s)
  PROVE  /\ signals' \in Seq(Sig)
         /\ Len(signals') <= MaxSignals
         /\ \A i \in DOMAIN signals' : signals'[i] = s \/ (i \in DOMAIN signals /\ signals'[i] = signals[i])
<1>1. signals' = Append(signals, s) /\ Len(signals) < MaxSignals
  BY DEF Signal
<1>2. Len(signals) \in Nat /\ MaxSignals \in Nat
  BY LenProperties, GattClientAssumption
<1>3. /\ signals' \in Seq(Sig)
      /\ Len(signals') = Len(signals) + 1
      /\ signals'[Len(signals) + 1] = s
      /\ \A i \in 1..Len(signals) : signals'[i] = signals[i]
  BY <1>1, AppendProperties
<1>4. DOMAIN signals' = 1..Len(signals') /\ DOMAIN signals = 1..Len(signals)
  BY <1>3, LenProperties
<1>5. Len(signals') <= MaxSignals
  BY <1>1, <1>2, <1>3
<1>6. ASSUME NEW i \in DOMAIN signals'
      PROVE  signals'[i] = s \/ (i \in DOMAIN signals /\ signals'[i] = signals[i])
  <2>1. i \in 1..(Len(signals) + 1)
    BY <1>3, <1>4
  <2>2. i = Len(signals) + 1 \/ i \in 1..Len(signals)
    BY <2>1, <1>2
  <2> QED BY <2>2, <1>3, <1>4
<1> QED BY <1>3, <1>5, <1>6

LEMMA SignalsStay ==
  ASSUME SignalsOfPeers, signals' = signals, resolved \subseteq resolved', cliCause' = cliCause
  PROVE  SignalsOfPeers'
BY DEF SignalsOfPeers

\* What a step that delivers nothing keeps.
LEMMA NothingGotten ==
  ASSUME CliInv, gotten' = 0, cliFault' = cliFault, cliCause \subseteq cliCause'
  PROVE  DeliveredOnce' /\ ClientFaultHasCause' /\ gotten' \in Nat
<1>1. DeliveredOnce' /\ gotten' \in Nat
  BY DEF DeliveredOnce
<1>2. ClientFaultHasCause'
  BY DEF CliInv, ClientFaultHasCause
<1> QED BY <1>1, <1>2

LEMMA WantedStay ==
  ASSUME CliInv, wanted' = wanted, clients' = clients, "shared uuid" \in cliCause => "shared uuid" \in cliCause'
  PROVE  WantedHasClient'
BY DEF CliInv, WantedHasClient

LEMMA StartNotifyKeeps ==
  ASSUME CliInv, NEW c \in Chars, bt_gatt_start_notify(c)
  PROVE  CliInv'
<1> USE DEF bt_gatt_start_notify
<1>1. clientCalls \in Nat /\ clientCalls' = clientCalls + 1 /\ clients \in [Chars -> 0..clientCalls]
  BY DEF CliInv, GattClientTypeOK
<1>2. clients' = [clients EXCEPT ![c] = @ + 1]
  OBVIOUS
<1>3. \A k \in Chars : clients[k] \in 0..clientCalls
  BY <1>1
<1>4. \A k \in Chars : clients'[k] = IF k = c THEN clients[k] + 1 ELSE clients[k]
  BY <1>1, <1>2
<1>5. \A k \in Chars : clients'[k] \in 0..clientCalls' /\ clients'[k] >= clients[k] /\ (k = c => clients'[k] > 0)
  BY <1>1, <1>3, <1>4
<1>6. DOMAIN clients' = Chars /\ clients' = [k \in Chars |-> clients'[k]]
  BY <1>1, <1>2
<1>7. clients' \in [Chars -> 0..clientCalls']
  BY <1>5, <1>6
<1>8. GattClientTypeOK'
  BY <1>7 DEF CliInv, GattClientTypeOK
<1>9. WantedHasClient'
  <2> SUFFICES ASSUME "shared uuid" \notin cliCause', NEW k \in wanted'
      PROVE  k \in Chars /\ clients'[k] > 0
    BY DEF WantedHasClient
  <2>1. k \in Chars
    BY DEF CliInv
  <2>2. CASE k = c
    BY <2>2, <2>1, <1>5
  <2>3. CASE k # c
    <3>1. k \in wanted /\ clients[k] > 0
      BY <2>3 DEF CliInv, WantedHasClient
    <3> QED BY <3>1, <2>1, <1>1, <1>3, <1>5
  <2> QED BY <2>2, <2>3
<1>10. sent' \in Seq([start : BOOLEAN, char : Chars])
  <2>1. [start |-> TRUE, char |-> c] \in [start : BOOLEAN, char : Chars]
    OBVIOUS
  <2> QED BY <2>1, AppendProperties DEF CliInv
<1>11. SignalsOfPeers'
  BY SignalsStay DEF CliInv
<1>12. DeliveredOnce' /\ ClientFaultHasCause' /\ gotten' \in Nat
  BY NothingGotten
<1>13. clientCalls' \in Nat /\ wanted' \subseteq Chars /\ signals' \in Seq(Sig) /\ cliFault' \in BOOLEAN
  BY <1>1 DEF CliInv
<1> QED BY <1>8, <1>9, <1>10, <1>11, <1>12, <1>13 DEF CliInv

LEMMA StopNotifyKeeps ==
  ASSUME CliInv, NEW c \in Chars, bt_gatt_stop_notify(c)
  PROVE  CliInv'
<1>1. /\ clients' = [k \in Chars |-> IF k[2] = c[2] THEN 0 ELSE clients[k]]
      /\ clientCalls' = clientCalls + 1
      /\ sent' = Append(sent, [start |-> FALSE, char |-> c])
      /\ wanted' = wanted \ {c}
      /\ cliCause' = IF \E k \in wanted : k[2] = c[2] /\ k # c THEN cliCause \cup {"shared uuid"} ELSE cliCause
      /\ gotten' = 0
      /\ UNCHANGED <<powered, scanning, resolved, notifying, signals, timer, news, cliFault>>
  BY DEF bt_gatt_stop_notify, _remove_notify
<1>2. clientCalls \in Nat /\ clientCalls' = clientCalls + 1 /\ clients \in [Chars -> 0..clientCalls]
  BY <1>1 DEF CliInv, GattClientTypeOK
<1>3. \A k \in Chars : clients[k] \in 0..clientCalls
  BY <1>2
<1>4. clients' \in [Chars -> 0..clientCalls']
  <2>1. \A k \in Chars : (IF k[2] = c[2] THEN 0 ELSE clients[k]) \in 0..(clientCalls + 1)
    BY <1>2, <1>3
  <2> QED BY <2>1, <1>1
<1>5. clientCalls' \in Nat
  BY <1>2
<1>6. cliCause \subseteq cliCause'
  BY <1>1
<1>7. GattClientTypeOK'
  BY <1>1, <1>4 DEF CliInv, GattClientTypeOK
<1>8. WantedHasClient'
  <2> SUFFICES ASSUME "shared uuid" \notin cliCause', NEW k \in wanted'
      PROVE  k \in Chars /\ clients'[k] > 0
    BY DEF WantedHasClient
  <2>1. k \in Chars /\ k \in wanted /\ k # c
    BY <1>1 DEF CliInv
  <2>2. k[2] # c[2] /\ "shared uuid" \notin cliCause
    BY <2>1, <1>1
  <2>3. clients[k] > 0
    BY <2>1, <2>2 DEF CliInv, WantedHasClient
  <2> QED BY <2>1, <2>2, <2>3, <1>1
<1>9. sent' \in Seq([start : BOOLEAN, char : Chars])
  <2>1. [start |-> FALSE, char |-> c] \in [start : BOOLEAN, char : Chars]
    OBVIOUS
  <2> QED BY <2>1, <1>1, AppendProperties DEF CliInv
<1>10. "peer gone" \notin cliCause' => "peer gone" \notin cliCause
  BY <1>6
<1>11. SignalsOfPeers'
  BY <1>1, <1>10 DEF CliInv, SignalsOfPeers
<1>12. DeliveredOnce' /\ ClientFaultHasCause' /\ gotten' \in Nat
  BY <1>1, <1>6, NothingGotten
<1>13. wanted' \subseteq Chars /\ signals' \in Seq(Sig) /\ cliFault' \in BOOLEAN
  BY <1>1 DEF CliInv
<1> QED BY <1>5, <1>7, <1>8, <1>9, <1>11, <1>12, <1>13 DEF CliInv

LEMMA CharWrittenKeeps ==
  ASSUME CliInv, NEW c \in Chars, bt_gatt_char_write_value(c)
  PROVE  CliInv'
<1> DEFINE s == [kind |-> "value", char |-> c]
<1>1. s \in Sig /\ Signal(s) /\ signals \in Seq(Sig) /\ c[1] \in resolved
  BY AnyIsSig DEF bt_gatt_char_write_value, CliInv, _get_gatt_path
<1>2. s.char = c
  OBVIOUS
<1>3. UNCHANGED <<bluezVars, clients, clientCalls, wanted, timer, news, cliFault, cliCause>> /\ gotten' = 0
  BY DEF bt_gatt_char_write_value
<1> HIDE DEF s
<1>4. /\ signals' \in Seq(Sig)
      /\ Len(signals') <= MaxSignals
      /\ \A i \in DOMAIN signals' : signals'[i] = s \/ (i \in DOMAIN signals /\ signals'[i] = signals[i])
  BY <1>1, SignalJoins
<1>5. SignalsOfPeers'
  <2> SUFFICES ASSUME "peer gone" \notin cliCause', NEW i \in DOMAIN signals', signals'[i].kind = "value"
      PROVE  signals'[i].char[1] \in resolved'
    BY DEF SignalsOfPeers
  <2>1. CASE signals'[i] = s
    BY <2>1, <1>1, <1>2, <1>3 DEF bluezVars
  <2>2. CASE i \in DOMAIN signals /\ signals'[i] = signals[i]
    BY <2>2, <1>3 DEF CliInv, SignalsOfPeers, bluezVars
  <2> QED BY <2>1, <2>2, <1>4
<1>6. GattClientTypeOK'
  BY <1>3, <1>4 DEF CliInv, GattClientTypeOK, bluezVars
<1>7. WantedHasClient' /\ DeliveredOnce' /\ ClientFaultHasCause'
  BY <1>3, NothingGotten, WantedStay
<1> QED BY <1>3, <1>4, <1>5, <1>6, <1>7 DEF CliInv, bluezVars

\* Devices leave, and the adapter may go off or on.
LEMMA PeersGoneKeeps ==
  ASSUME CliInv, NEW gone, PeersGone(gone), powered' \in BOOLEAN, scanning' \in BOOLEAN,
         ~powered' => ~scanning' /\ resolved' = {},
         UNCHANGED <<sent, clients, clientCalls, wanted, signals, timer, news, cliFault>>
  PROVE  CliInv'
<1>1. /\ resolved' = resolved \ gone
      /\ notifying' = {c \in notifying : c[1] \notin gone}
      /\ cliCause' = IF gone \cap resolved # {} THEN cliCause \cup {"peer gone"} ELSE cliCause
      /\ gotten' = 0
  BY DEF PeersGone
<1>2. GattClientTypeOK'
  BY <1>1 DEF CliInv, GattClientTypeOK
<1>3. \A x \in cliCause : x \in cliCause'
  BY <1>1
<1>4. "shared uuid" \in cliCause' => "shared uuid" \in cliCause
  BY <1>1
<1>5. SignalsOfPeers'
  <2> SUFFICES ASSUME "peer gone" \notin cliCause', NEW i \in DOMAIN signals', signals'[i].kind = "value"
      PROVE  signals'[i].char[1] \in resolved'
    BY DEF SignalsOfPeers
  <2>1. gone \cap resolved = {} /\ "peer gone" \notin cliCause
    BY <1>1
  <2>2. resolved' = resolved
    BY <2>1, <1>1
  <2> QED BY <2>1, <2>2 DEF CliInv, SignalsOfPeers
<1>6. WantedHasClient' /\ DeliveredOnce' /\ ClientFaultHasCause'
  BY <1>1, <1>3, NothingGotten, WantedStay
<1> QED BY <1>1, <1>2, <1>5, <1>6 DEF CliInv

LEMMA ServicesFoundKeeps ==
  ASSUME CliInv, NEW d \in Peers, ServicesFound(d)
  PROVE  CliInv'
<1> DEFINE s == [kind |-> "service", char |-> <<d, HeartRate>>]
<1>0. <<d, HeartRate>> \in Chars
  BY GattClientAssumption DEF Chars
<1>1. s \in Sig /\ Signal(s) /\ signals \in Seq(Sig)
  BY <1>0, AnyIsSig DEF ServicesFound, CliInv
<1>2. s.kind = "service"
  OBVIOUS
<1>3. /\ UNCHANGED <<powered, scanning, notifying, sent, clients, clientCalls, wanted, timer, news, cliFault, cliCause>>
      /\ gotten' = 0 /\ resolved' = resolved \cup {d} /\ powered
  BY DEF ServicesFound
<1> HIDE DEF s
<1>4. /\ signals' \in Seq(Sig)
      /\ Len(signals') <= MaxSignals
      /\ \A i \in DOMAIN signals' : signals'[i] = s \/ (i \in DOMAIN signals /\ signals'[i] = signals[i])
  BY <1>1, SignalJoins
<1>5. SignalsOfPeers'
  <2> SUFFICES ASSUME "peer gone" \notin cliCause', NEW i \in DOMAIN signals', signals'[i].kind = "value"
      PROVE  signals'[i].char[1] \in resolved'
    BY DEF SignalsOfPeers
  <2>1. CASE signals'[i] = s
    BY <2>1, <1>2
  <2>2. CASE i \in DOMAIN signals /\ signals'[i] = signals[i]
    BY <2>2, <1>3 DEF CliInv, SignalsOfPeers
  <2> QED BY <2>1, <2>2, <1>4
<1>6. GattClientTypeOK'
  BY <1>3, <1>4 DEF CliInv, GattClientTypeOK
<1>7. WantedHasClient' /\ DeliveredOnce' /\ ClientFaultHasCause'
  BY <1>3, NothingGotten, WantedStay
<1> QED BY <1>3, <1>4, <1>5, <1>6, <1>7 DEF CliInv

\* The one effect of a signal: it is taken, and a value whose device is gone
\* is a fault.
LEMMA DispatchIs ==
  ASSUME CliInv, ~cliFault, _dbus_signal_callback
  PROVE  /\ signals # <<>> /\ signals' = Tail(signals)
         /\ UNCHANGED <<bluezVars, clients, clientCalls, wanted, cliCause>>
         /\ timer' \in BOOLEAN /\ news' \in BOOLEAN /\ gotten' \in {0, 1} /\ cliFault' \in BOOLEAN
         /\ cliFault' => Head(signals).kind = "value" /\ Head(signals).char[1] \notin resolved
<1>1. /\ signals # <<>> /\ signals' = Tail(signals)
      /\ UNCHANGED <<bluezVars, clients, clientCalls, wanted, cliCause>>
  BY DEF _dbus_signal_callback
<1>2. CASE Head(signals).kind = "service" /\ _on_interface_added /\ gotten' = 0 /\ UNCHANGED cliFault
  BY <1>1, <1>2 DEF _on_interface_added, CliInv
<1>3. CASE Head(signals).kind = "value" /\ _gatt_properties_changed(Head(signals).char) /\ UNCHANGED <<timer, news>>
  <2>1. timer' \in BOOLEAN /\ news' \in BOOLEAN
    BY <1>3 DEF CliInv, GattClientTypeOK
  <2>2. CASE Head(signals).char[1] \notin resolved
    <3>1. cliFault' = TRUE /\ gotten' = 0
      BY <1>3, <2>2, Zenon DEF _gatt_properties_changed
    <3> QED BY <1>1, <1>3, <2>1, <2>2, <3>1
  <2>3. CASE Head(signals).char[1] \in resolved
    <3>1. cliFault' = cliFault /\ gotten' \in {0, 1}
      BY <1>3, <2>3, Zenon DEF _gatt_properties_changed
    <3> QED BY <1>1, <1>3, <2>1, <3>1 DEF CliInv
  <2> QED BY <2>2, <2>3
<1> QED BY <1>2, <1>3 DEF _dbus_signal_callback

LEMMA SignalTaken ==
  ASSUME CliInv, NEW s, s = Head(signals), signals # <<>>, signals' = Tail(signals),
         UNCHANGED <<bluezVars, clients, clientCalls, wanted, cliCause>>,
         timer' \in BOOLEAN, news' \in BOOLEAN, gotten' \in {0, 1}, cliFault' \in BOOLEAN,
         cliFault' => s.kind = "value" /\ s.char[1] \notin resolved
  PROVE  CliInv'
<1>1. signals \in Seq(Sig)
  BY DEF CliInv
<1>2. /\ signals' \in Seq(Sig) /\ Len(signals') <= Len(signals) /\ s = signals[1] /\ 1 \in DOMAIN signals
      /\ \A j \in DOMAIN signals' : j + 1 \in DOMAIN signals /\ signals'[j] = signals[j + 1]
  <2>1. Len(signals') <= Len(signals)
    BY <1>1
  <2> QED BY <1>1, <2>1, TailFacts, Zenon
<1>5. SignalsOfPeers'
  <2> SUFFICES ASSUME "peer gone" \notin cliCause', NEW i \in DOMAIN signals', signals'[i].kind = "value"
      PROVE  signals'[i].char[1] \in resolved'
    BY DEF SignalsOfPeers
  <2> QED BY <1>2, ZenonT(60) DEF CliInv, SignalsOfPeers, bluezVars
<1>6. ClientFaultHasCause'
  BY <1>2 DEF CliInv, ClientFaultHasCause, SignalsOfPeers, bluezVars
<1>7. Len(signals') <= MaxSignals
  <2>1. Len(signals) <= MaxSignals /\ Len(signals) \in Nat /\ Len(signals') \in Nat
    BY <1>1, <1>2, LenProperties DEF CliInv, GattClientTypeOK
  <2> QED BY <2>1, <1>2, GattClientAssumption
<1>8. GattClientTypeOK'
  BY <1>7 DEF CliInv, GattClientTypeOK, bluezVars
<1>9. DeliveredOnce' /\ gotten' \in Nat
  BY DEF DeliveredOnce
<1>10. WantedHasClient'
  BY WantedStay
<1> QED BY <1>2, <1>5, <1>6, <1>8, <1>9, <1>10 DEF CliInv, bluezVars

LEMMA SignalDispatched ==
  ASSUME CliInv, ~cliFault, _dbus_signal_callback
  PROVE  CliInv'
BY DispatchIs, SignalTaken

LEMMA BluezHandlesKeeps ==
  ASSUME CliInv, BluezHandles
  PROVE  CliInv'
<1> DEFINE m == Head(sent)
<1>1. /\ UNCHANGED <<powered, scanning, resolved, clients, clientCalls, wanted, signals, timer, news, cliFault, cliCause>>
      /\ gotten' = 0 /\ sent' = Tail(sent) /\ sent # <<>>
      /\ notifying' = IF m.start /\ m.char[1] \in resolved THEN notifying \cup {m.char} ELSE notifying \ {m.char}
  BY DEF BluezHandles
<1>2. m \in [start : BOOLEAN, char : Chars] /\ sent' \in Seq([start : BOOLEAN, char : Chars])
  BY <1>1, HeadTailProperties DEF CliInv
<1>3. m.char \in Chars
  BY <1>2
<1> HIDE DEF m
<1>4. notifying \subseteq {c \in Chars : c[1] \in resolved}
  BY DEF CliInv, GattClientTypeOK
<1>5. notifying' \subseteq {c \in Chars : c[1] \in resolved'}
  BY <1>1, <1>3, <1>4
<1>6. GattClientTypeOK'
  BY <1>1, <1>5 DEF CliInv, GattClientTypeOK
<1>7. WantedHasClient' /\ DeliveredOnce' /\ ClientFaultHasCause' /\ SignalsOfPeers'
  BY <1>1, NothingGotten, WantedStay, SignalsStay DEF CliInv
<1> QED BY <1>1, <1>2, <1>6, <1>7 DEF CliInv

LEMMA CliStep == CliInv /\ [GattClientNext]_gattClientVars => CliInv'
<1> SUFFICES ASSUME CliInv, [GattClientNext]_gattClientVars PROVE CliInv'
  OBVIOUS
<1>1. CASE UNCHANGED gattClientVars
  BY <1>1 DEF gattClientVars, bluezVars, CliInv, GattClientTypeOK, WantedHasClient, DeliveredOnce,
     ClientFaultHasCause, SignalsOfPeers
<1>2. ASSUME NEW c \in Chars, os_bt_gatt_client(c) PROVE CliInv'
  BY <1>2, StartNotifyKeeps, StopNotifyKeeps, CharWrittenKeeps DEF os_bt_gatt_client
<1>3. ASSUME NEW on \in BOOLEAN, bt_set_powered(on) PROVE CliInv'
  <2> DEFINE gone == IF on THEN {} ELSE Peers
  <2>1. /\ powered' = on /\ scanning' = (scanning /\ on) /\ PeersGone(gone)
        /\ UNCHANGED <<sent, clients, clientCalls, wanted, signals, timer, news, cliFault>>
    BY <1>3 DEF bt_set_powered
  <2>2. resolved' = resolved \ gone /\ resolved \subseteq Peers /\ scanning \in BOOLEAN
    BY <2>1 DEF PeersGone, CliInv, GattClientTypeOK
  <2>3. powered' \in BOOLEAN /\ scanning' \in BOOLEAN /\ (~powered' => ~scanning' /\ resolved' = {})
    <3>1. CASE on
      BY <3>1, <2>1, <2>2
    <3>2. CASE ~on
      BY <3>2, <2>1, <2>2
    <3> QED BY <3>1, <3>2
  <2> HIDE DEF gone
  <2> QED BY <2>1, <2>3, PeersGoneKeeps
<1>4. ASSUME NEW on \in BOOLEAN, ScanSwitch(on) PROVE CliInv'
  BY <1>4 DEF ScanSwitch, CliInv, GattClientTypeOK, WantedHasClient, DeliveredOnce,
     ClientFaultHasCause, SignalsOfPeers
<1>5. CASE ~cliFault /\ _dbus_signal_callback
  BY <1>5, SignalDispatched
<1>6. CASE _on_timeout
  <2>1. /\ timer' = FALSE /\ news' = FALSE /\ gotten' = 0
        /\ UNCHANGED <<bluezVars, clients, clientCalls, wanted, signals, cliFault, cliCause>>
    BY <1>6 DEF _on_timeout
  <2>2. GattClientTypeOK'
    BY <2>1 DEF CliInv, GattClientTypeOK, bluezVars
  <2>3. WantedHasClient' /\ DeliveredOnce' /\ ClientFaultHasCause' /\ SignalsOfPeers' /\ gotten' \in Nat
    BY <2>1, NothingGotten, WantedStay, SignalsStay DEF CliInv, bluezVars
  <2> QED BY <2>1, <2>2, <2>3 DEF CliInv, bluezVars
<1>7. ASSUME NEW d \in Peers, ServicesFound(d) PROVE CliInv'
  BY <1>7, ServicesFoundKeeps
<1>8. ASSUME NEW d \in Peers, PeerLeaves(d) PROVE CliInv'
  <2>1. /\ PeersGone({d}) /\ powered' = powered /\ scanning' = scanning
        /\ UNCHANGED <<sent, clients, clientCalls, wanted, signals, timer, news, cliFault>>
    BY <1>8 DEF PeerLeaves
  <2>2. resolved' \subseteq resolved
    BY <2>1 DEF PeersGone
  <2>3. powered' \in BOOLEAN /\ scanning' \in BOOLEAN /\ (~powered' => ~scanning' /\ resolved' = {})
    BY <2>1, <2>2 DEF CliInv, GattClientTypeOK
  <2> QED BY <2>1, <2>3, PeersGoneKeeps
<1>9. CASE BluezHandles
  BY <1>9, BluezHandlesKeeps
<1> QED BY <1>1, <1>2, <1>3, <1>4, <1>5, <1>6, <1>7, <1>8, <1>9 DEF GattClientNext, GattClientApplication

LEMMA CliInit == GattClientInit => CliInv
<1> SUFFICES ASSUME GattClientInit PROVE CliInv
  OBVIOUS
<1> USE GattClientAssumption DEF GattClientInit
<1>1. sent \in Seq([start : BOOLEAN, char : Chars]) /\ signals \in Seq(Sig) /\ Len(signals) = 0
      /\ DOMAIN signals = {}
  OBVIOUS
<1>2. clients \in [Chars -> 0..clientCalls]
  OBVIOUS
<1>3. GattClientTypeOK
  <2>1. Len(signals) <= MaxSignals
    BY <1>1
  <2> QED BY <2>1, <1>2 DEF GattClientTypeOK
<1>4. WantedHasClient /\ DeliveredOnce /\ ClientFaultHasCause /\ SignalsOfPeers
  BY <1>1 DEF WantedHasClient, DeliveredOnce, ClientFaultHasCause, SignalsOfPeers
<1> QED BY <1>1, <1>3, <1>4 DEF CliInv

-----------------------------------------------------------------------------
(* The server: sequences.                                                  *)

LEMMA Appended ==
  ASSUME NEW S, NEW s \in Seq(S), NEW x \in S, NEW t, t = Append(s, x)
  PROVE  /\ t \in Seq(S) /\ Len(t) = Len(s) + 1 /\ Len(s) \in Nat
         /\ DOMAIN s = 1..Len(s) /\ DOMAIN t = 1..(Len(s) + 1)
         /\ t[Len(s) + 1] = x
         /\ \A i \in DOMAIN s : i \in DOMAIN t /\ t[i] = s[i]
         /\ \A i \in DOMAIN t : (i = Len(s) + 1 /\ t[i] = x) \/ (i \in DOMAIN s /\ t[i] = s[i])
OBVIOUS

LEMMA Spliced ==
  ASSUME NEW S, NEW p \in Seq(S), NEW q \in Seq(S)
  PROVE  /\ p \o q \in Seq(S) /\ Len(p \o q) = Len(p) + Len(q) /\ DOMAIN (p \o q) = 1..(Len(p) + Len(q))
         /\ \A i \in 1..Len(p) : (p \o q)[i] = p[i]
         /\ \A i \in 1..Len(q) : (p \o q)[Len(p) + i] = q[i]
OBVIOUS

LEMMA CutParts ==
  ASSUME NEW S, NEW s \in Seq(S), NEW k \in Nat, k < Len(s)
  PROVE  /\ Len(s) \in Nat
         /\ SubSeq(s, 1, k) \in Seq(S) /\ Len(SubSeq(s, 1, k)) = k
         /\ \A i \in 1..k : SubSeq(s, 1, k)[i] = s[i]
         /\ SubSeq(s, k + 2, Len(s)) \in Seq(S) /\ Len(SubSeq(s, k + 2, Len(s))) = Len(s) - k - 1
         /\ \A i \in 1..(Len(s) - k - 1) : SubSeq(s, k + 2, Len(s))[i] = s[k + 1 + i]
<1>1. Len(s) \in Nat /\ k \in 0..Len(s)
  BY LenProperties
<1>2. SubSeq(s, 1, k) \in Seq(S) /\ Len(SubSeq(s, 1, k)) = k /\ \A i \in 1..k : SubSeq(s, 1, k)[i] = s[i]
  BY <1>1, SubSeqProperties
<1>3. /\ SubSeq(s, k + 2, Len(s)) \in Seq(S) /\ Len(SubSeq(s, k + 2, Len(s))) = Len(s) - k - 1
      /\ \A i \in 1..(Len(s) - k - 1) : SubSeq(s, k + 2, Len(s))[i] = s[k + 1 + i]
  BY <1>1, SubSeqProperties
<1> QED BY <1>1, <1>2, <1>3

LEMMA Shifted ==
  ASSUME NEW n \in Nat, NEW k \in Nat, NEW i \in (k + 1)..(n - 1)
  PROVE  i - k \in 1..(n - k - 1) /\ k + (i - k) = i /\ k + 1 + (i - k) = i + 1
OBVIOUS

LEMMA BelowLast ==
  ASSUME NEW n \in Int, NEW m \in Int, m = n - 1, NEW s \in Nat, s < n, s # m
  PROVE  s < m
OBVIOUS

\* A service taken out of the list: those behind move up.
LEMMA CutOut ==
  ASSUME NEW S, NEW s \in Seq(S), NEW k \in Nat, k < Len(s), NEW n \in Nat, n = Len(s),
         NEW p \in Seq(S), NEW q \in Seq(S)
  PROVE  /\ Len(p) = k /\ \A i \in 1..k : p[i] = s[i]
         /\ Len(q) = n - k - 1 /\ \A i \in 1..(n - k - 1) : q[i] = s[k + 1 + i]
         => /\ p \o q \in Seq(S) /\ Len(p \o q) = n - 1 /\ DOMAIN (p \o q) = 1..(n - 1)
            /\ \A i \in 1..k : (p \o q)[i] = s[i]
            /\ \A i \in (k + 1)..(n - 1) : (p \o q)[i] = s[i + 1]
<1> DEFINE t == p \o q
<1>1. /\ t \in Seq(S) /\ Len(t) = Len(p) + Len(q) /\ DOMAIN t = 1..(Len(p) + Len(q))
      /\ \A i \in 1..Len(p) : t[i] = p[i]
      /\ \A i \in 1..Len(q) : t[Len(p) + i] = q[i]
  BY Spliced
<1> HIDE DEF t
<1> SUFFICES ASSUME Len(p) = k, \A i \in 1..k : p[i] = s[i],
                    Len(q) = n - k - 1, \A i \in 1..(n - k - 1) : q[i] = s[k + 1 + i]
             PROVE  /\ t \in Seq(S) /\ Len(t) = n - 1 /\ DOMAIN t = 1..(n - 1)
                    /\ \A i \in 1..k : t[i] = s[i]
                    /\ \A i \in (k + 1)..(n - 1) : t[i] = s[i + 1]
  BY DEF t
<1>2. k + (n - k - 1) = n - 1
  OBVIOUS
<1>3. Len(t) = n - 1 /\ DOMAIN t = 1..(n - 1)
  BY <1>1, <1>2
<1>4. \A i \in 1..k : t[i] = s[i]
  BY <1>1
<1>5. \A j \in 1..(n - k - 1) : t[k + j] = s[k + 1 + j]
  BY <1>1
<1>6. ASSUME NEW i \in (k + 1)..(n - 1) PROVE t[i] = s[i + 1]
  <2>1. i - k \in 1..(n - k - 1) /\ k + (i - k) = i /\ k + 1 + (i - k) = i + 1
    BY Shifted, Zenon
  <2> QED BY <2>1, <1>5, ZenonT(60)
<1> QED BY <1>1, <1>3, <1>4, <1>6

LEMMA Tuples ==
  /\ \A s, a, b : <<s>> # <<a, b>>
  /\ \A s, a, b, c : <<s>> # <<a, b, c>>
  /\ \A s, t, a, b, c : <<s, t>> # <<a, b, c>>
  /\ \A s, t : <<s>> = <<t>> => s = t
  /\ \A s, t, a, b : <<s, t>> = <<a, b>> => s = a /\ t = b
  /\ \A s, t, u, a, b, c : <<s, t, u>> = <<a, b, c>> => s = a /\ t = b /\ u = c
OBVIOUS

-----------------------------------------------------------------------------
(* The server: what its types say.                                         *)

LEMMA Shapes ==
  ASSUME GtTypes, Allocated
  PROVE  /\ Len(attrs) \in Nat /\ DOMAIN attrs = Blocks /\ Len(gattServices) \in Nat
         /\ DOMAIN gattServices = 1..Len(gattServices)
         /\ \A b \in Blocks : attrs[b] \in AttrSet
         /\ \A i \in DOMAIN gattServices : gattServices[i] \in Serv
BY LenProperties, ElementOfSeq DEF GtTypes, Blocks

\* One block changed, in what it holds and not in its place.
AttrsAgree ==
  /\ attrs' \in Seq(AttrSet) /\ Len(attrs') = Len(attrs)
  /\ \A b \in Blocks : /\ attrs'[b].path = attrs[b].path /\ attrs'[b].descs = attrs[b].descs
                       /\ attrs'[b].live = attrs[b].live
                       /\ attrs'[b].seen # Unknown => attrs'[b].value = attrs'[b].seen

LEMMA SameAgrees ==
  ASSUME GtTypes, ValueIsShown, attrs' = attrs
  PROVE  AttrsAgree
BY DEF GtTypes, ValueIsShown, AttrsAgree

LEMMA ChangeAgrees ==
  ASSUME GtTypes, Allocated, ValueIsShown, NEW b \in Blocks, NEW new \in AttrSet,
         new.path = attrs[b].path, new.descs = attrs[b].descs, new.live = attrs[b].live,
         new.seen # Unknown => new.value = new.seen,
         attrs' = [attrs EXCEPT ![b] = new]
  PROVE  AttrsAgree
<1>1. Len(attrs) \in Nat /\ DOMAIN attrs = Blocks /\ attrs \in Seq(AttrSet)
  BY Shapes DEF GtTypes
<1>2. attrs' \in Seq(AttrSet) /\ Len(attrs') = Len(attrs)
  BY <1>1, ExceptSeq DEF Blocks
<1>3. \A c \in Blocks : attrs'[c] = IF c = b THEN new ELSE attrs[c]
  BY <1>1
<1> QED BY <1>2, <1>3 DEF AttrsAgree, ValueIsShown

\* A block that holds a value, and shows it.
IsShown(a, v, new) == new = [a EXCEPT !.value = v, !.seen = v]

LEMMA RecordShown ==
  ASSUME NEW a \in AttrSet, NEW v \in GattValues, NEW new, IsShown(a, v, new)
  PROVE  new \in AttrSet /\ new.path = a.path /\ new.descs = a.descs /\ new.live = a.live /\ new.value = v /\ new.seen = v
BY DEF AttrSet, IsShown

LEMMA RecordCalled ==
  ASSUME NEW a \in AttrSet, NEW which \in {"read", "write"}, NEW new, new = [a EXCEPT !.cbs = @ \cup {which}]
  PROVE  new \in AttrSet /\ new.path = a.path /\ new.descs = a.descs /\ new.live = a.live
         /\ new.value = a.value /\ new.seen = a.seen
BY DEF AttrSet

LEMMA ShownAgrees ==
  ASSUME GtTypes, Allocated, ValueIsShown, NEW b \in Blocks, NEW v \in GattValues, attrs' = Shown(b, v)
  PROVE  AttrsAgree
<1>1. attrs[b] \in AttrSet /\ DOMAIN attrs = Blocks
  BY Shapes
<1>2. PICK new : IsShown(attrs[b], v, new)
  BY DEF IsShown
<1>3. new \in AttrSet /\ new.path = attrs[b].path /\ new.descs = attrs[b].descs /\ new.live = attrs[b].live
      /\ new.value = v /\ new.seen = v
  BY <1>1, <1>2, RecordShown, Zenon
<1>4. attrs' = [attrs EXCEPT ![b] = new]
  BY <1>1, <1>2 DEF Shown, IsShown
<1> QED BY <1>3, <1>4, ChangeAgrees

LEMMA CallbackAgrees ==
  ASSUME GtTypes, Allocated, ValueIsShown, NEW b \in Blocks, NEW which \in {"read", "write"},
         attrs' = [attrs EXCEPT ![b].cbs = @ \cup {which}]
  PROVE  AttrsAgree
<1> DEFINE new == [attrs[b] EXCEPT !.cbs = @ \cup {which}]
<1>1. attrs[b] \in AttrSet /\ DOMAIN attrs = Blocks
  BY Shapes
<1>2. new \in AttrSet /\ new.path = attrs[b].path /\ new.descs = attrs[b].descs /\ new.live = attrs[b].live
      /\ new.value = attrs[b].value /\ new.seen = attrs[b].seen
  BY <1>1, RecordCalled, Zenon
<1>3. attrs' = [attrs EXCEPT ![b] = new]
  BY <1>1
<1>4. new.seen # Unknown => new.value = new.seen
  BY <1>2 DEF ValueIsShown
<1> HIDE DEF new
<1> QED BY <1>2, <1>3, <1>4, ChangeAgrees

LEMMA AgreeKeeps ==
  ASSUME GtInv, AttrsAgree, UNCHANGED <<gattServices, objects, handed, cause, gattFault>>,
         asked' \subseteq GattNums, cause = {} => \A s \in asked' : s < Len(gattServices),
         requests' \subseteq ReqSet,
         \A r \in requests' : /\ r.block \in Blocks /\ (r.type = "WRITE" => r.value \in GattValues)
                              /\ cause = {} => attrs[r.block].live,
         asks' \in Nat, Numbered'
  PROVE  GtInv'
<1>1. Blocks' = Blocks /\ GtTypes /\ Allocated /\ DOMAIN attrs = Blocks
  BY Shapes DEF AttrsAgree, Blocks, GtInv
<1>2. GtTypes'
  BY <1>1 DEF GtTypes, AttrsAgree
<1>3. Allocated'
  BY <1>1 DEF Allocated, AttrsAgree
<1>4. OwnPaths' /\ PositionIsPath'
  BY <1>1 DEF GtInv, OwnPaths, PositionIsPath, AttrsAgree
<1>5. Named'
  BY DEF GtInv, Named
<1>6. \A b : InList(b)' <=> InList(b)
  BY <1>1 DEF InList, AttrsAgree, Allocated
<1>7. Live'
  BY <1>1, <1>6 DEF GtInv, Live, AttrsAgree
<1>8. ValueIsShown'
  BY <1>1 DEF ValueIsShown, AttrsAgree
<1>9. FaultHasCause'
  BY DEF GtInv, FaultHasCause
<1> QED BY <1>2, <1>3, <1>4, <1>5, <1>7, <1>8, <1>9 DEF GtInv

LEMMA FaultKeeps ==
  ASSUME GtInv, Fault, cause # {}
  PROVE  GtInv'
<1>1. /\ UNCHANGED <<gattServices, attrs, objects, handed, asked, requests, asks, served, cause>>
      /\ gattFault' = TRUE
  BY DEF Fault
<1>2. Blocks' = Blocks
  BY <1>1 DEF Blocks
<1>3. GtTypes' /\ Allocated' /\ Numbered'
  BY <1>1, <1>2 DEF GtInv, GtTypes, Allocated, Numbered
<1>4. OwnPaths' /\ PositionIsPath' /\ ValueIsShown'
  BY <1>1, <1>2 DEF GtInv, OwnPaths, PositionIsPath, ValueIsShown
<1>5. Named' /\ Live' /\ FaultHasCause'
  BY <1>1 DEF Named, Live, FaultHasCause
<1> QED BY <1>3, <1>4, <1>5 DEF GtInv

-----------------------------------------------------------------------------
(* The server: requests.                                                   *)

LEMMA NumberServed ==
  ASSUME Numbered, NEW r \in requests, served' = served \cup {r.id}, requests' = requests \ {r}, asks' = asks
  PROVE  Numbered'
<1>1. \A s \in requests' : s \in requests /\ s.id # r.id
  BY DEF Numbered
<1>2. {s.id : s \in requests'} \cup {r.id} = {s.id : s \in requests}
  BY <1>1
<1>3. r.id \notin {s.id : s \in requests'}
  BY <1>1
<1> QED BY <1>1, <1>2, <1>3 DEF Numbered

LEMMA NumberAsked ==
  ASSUME Numbered, asks \in Nat, asks' = asks + 1,
         \/ \E r : r.id = asks + 1 /\ requests' = requests \cup {r} /\ served' = served
         \/ requests' = requests /\ served' = served \cup {asks + 1}
  PROVE  Numbered'
<1>1. 1..asks' = (1..asks) \cup {asks + 1} /\ asks + 1 \notin 1..asks
  OBVIOUS
<1>2. \A r \in requests : r.id \in 1..asks
  BY DEF Numbered
<1>3. \A k \in served : k \in 1..asks
  BY DEF Numbered
<1>4. CASE requests' = requests /\ served' = served \cup {asks + 1}
  BY <1>1, <1>2, <1>3, <1>4 DEF Numbered
<1>5. ASSUME NEW r, r.id = asks + 1, requests' = requests \cup {r}, served' = served PROVE Numbered'
  <2>1. {s.id : s \in requests'} = {s.id : s \in requests} \cup {asks + 1}
    BY <1>5
  <2>2. \A s, t \in requests' : s.id = t.id => s = t
    BY <1>5, <1>1, <1>2 DEF Numbered
  <2>3. {s.id : s \in requests'} \cup served' = 1..asks'
    BY <2>1, <1>1, <1>5 DEF Numbered
  <2>4. {s.id : s \in requests'} \cap served' = {}
    BY <2>1, <1>1, <1>3, <1>5 DEF Numbered
  <2> QED BY <2>2, <2>3, <2>4 DEF Numbered
<1> QED BY <1>4, <1>5


\* What waits stays as it was, in blocks that stay where they are.
LEMMA RequestsStay ==
  ASSUME GtInv, AttrsAgree, UNCHANGED <<gattServices, objects, handed, cause, gattFault, asked>>,
         requests' \subseteq requests, asks' \in Nat, Numbered'
  PROVE  GtInv'
<1>1. asked' \subseteq GattNums /\ requests' \subseteq ReqSet
  BY DEF GtInv, GtTypes
<1>2. cause = {} => \A s \in asked' : s < Len(gattServices)
  BY DEF GtInv, Named
<1>3. \A r \in requests' : /\ r.block \in Blocks /\ (r.type = "WRITE" => r.value \in GattValues)
                           /\ cause = {} => attrs[r.block].live
  BY DEF GtInv, Allocated, Live
<1> QED BY <1>1, <1>2, <1>3, AgreeKeeps

LEMMA NewRequestKeeps ==
  ASSUME GtInv, UNCHANGED <<gattServices, attrs, objects, handed, asked, gattFault, cause, served>>,
         asks' = asks + 1, NEW r \in ReqSet, requests' = requests \cup {r}, r.id = asks + 1,
         r.block \in Blocks, InList(r.block), r.type = "WRITE" => r.value \in GattValues
  PROVE  GtInv'
<1>1. asked' \subseteq GattNums /\ requests' \subseteq ReqSet /\ asks \in Nat /\ asks' \in Nat
  BY DEF GtInv, GtTypes
<1>2. cause = {} => \A s \in asked' : s < Len(gattServices)
  BY DEF GtInv, Named
<1>3. ASSUME NEW q \in requests'
      PROVE  /\ q.block \in Blocks /\ (q.type = "WRITE" => q.value \in GattValues)
             /\ cause = {} => attrs[q.block].live
  <2>1. CASE q = r
    BY <2>1 DEF GtInv, Live
  <2>2. CASE q \in requests
    BY <2>2 DEF GtInv, Allocated, Live
  <2> QED BY <2>1, <2>2
<1>4. AttrsAgree
  BY SameAgrees DEF GtInv
<1>5. Numbered
  BY DEF GtInv
<1>6. Numbered'
  BY <1>1, <1>5, NumberAsked
<1> QED BY <1>1, <1>2, <1>3, <1>4, <1>6, AgreeKeeps

LEMMA AnsweredKeeps ==
  ASSUME GtInv, AttrsAgree, UNCHANGED <<gattServices, objects, handed, asked, gattFault, cause, requests>>,
         asks' = asks + 1, served' = served \cup {asks + 1}
  PROVE  GtInv'
<1>1. asks \in Nat /\ asks' \in Nat /\ Numbered
  BY DEF GtInv, GtTypes
<1>2. Numbered'
  BY <1>1, NumberAsked
<1> QED BY <1>1, <1>2, RequestsStay

LEMMA WriteKeeps ==
  ASSUME GtInv, NEW path, NEW v \in GattValues, WriteValue(path, v)
  PROVE  GtInv'
<1>0. GtTypes /\ Allocated /\ ValueIsShown /\ asks \in Nat
  BY DEF GtInv, GtTypes
<1>1. asks' = asks + 1 /\ UNCHANGED <<gattServices, objects, handed, asked, gattFault, cause>>
  BY DEF WriteValue
<1>2. CASE served' = served \cup {asks + 1} /\ UNCHANGED <<attrs, requests>>
  BY <1>0, <1>1, <1>2, SameAgrees, AnsweredKeeps
<1>3. ASSUME NEW b \in Find(path), "write" \in attrs[b].cbs,
             requests' = requests \cup {[id |-> asks + 1, type |-> "WRITE", block |-> b, value |-> v]},
             UNCHANGED <<attrs, served>>
      PROVE  GtInv'
  <2> DEFINE r == [id |-> asks + 1, type |-> "WRITE", block |-> b, value |-> v]
  <2>1. b \in Blocks /\ InList(b) /\ b \in Nat
    BY <1>0, Shapes DEF Find, Blocks
  <2>2. r \in ReqSet /\ r.id = asks + 1 /\ r.block = b /\ r.value = v
    BY <1>0, <2>1 DEF ReqSet
  <2>3. requests' = requests \cup {r}
    BY <1>3
  <2> HIDE DEF r
  <2> QED BY <1>1, <1>3, <2>1, <2>2, <2>3, NewRequestKeeps
<1>4. ASSUME NEW b \in Find(path), attrs' = Shown(b, v), served' = served \cup {asks + 1}, UNCHANGED requests
      PROVE  GtInv'
  <2>1. b \in Blocks
    BY DEF Find
  <2>2. AttrsAgree
    BY <1>0, <1>4, <2>1, ShownAgrees
  <2> QED BY <1>1, <1>4, <2>2, AnsweredKeeps
<1> QED BY <1>2, <1>3, <1>4 DEF WriteValue

LEMMA ReadKeeps ==
  ASSUME GtInv, NEW path, ReadValue(path)
  PROVE  GtInv'
<1>0. GtTypes /\ Allocated /\ ValueIsShown /\ asks \in Nat
  BY DEF GtInv, GtTypes
<1>1. asks' = asks + 1 /\ UNCHANGED <<gattServices, objects, handed, asked, gattFault, cause>>
  BY DEF ReadValue
<1>2. CASE served' = served \cup {asks + 1} /\ UNCHANGED <<attrs, requests>>
  BY <1>0, <1>1, <1>2, SameAgrees, AnsweredKeeps
<1>3. ASSUME NEW b \in Find(path), "read" \in attrs[b].cbs,
             requests' = requests \cup {[id |-> asks + 1, type |-> "READ", block |-> b, value |-> Unknown]},
             UNCHANGED <<attrs, served>>
      PROVE  GtInv'
  <2> DEFINE r == [id |-> asks + 1, type |-> "READ", block |-> b, value |-> Unknown]
  <2>1. b \in Blocks /\ InList(b) /\ b \in Nat
    BY <1>0, Shapes DEF Find, Blocks
  <2>2. r \in ReqSet /\ r.id = asks + 1 /\ r.block = b /\ r.type # "WRITE"
    BY <1>0, <2>1 DEF ReqSet
  <2>3. requests' = requests \cup {r}
    BY <1>3
  <2> HIDE DEF r
  <2> QED BY <1>1, <1>3, <2>1, <2>2, <2>3, NewRequestKeeps
<1>4. ASSUME NEW b \in Find(path), attrs' = Shown(b, attrs[b].value), served' = served \cup {asks + 1}, UNCHANGED requests
      PROVE  GtInv'
  <2>1. b \in Blocks /\ attrs[b].value \in GattValues
    BY <1>0, Shapes DEF Find, AttrSet
  <2>2. AttrsAgree
    BY <1>0, <1>4, <2>1, ShownAgrees
  <2> QED BY <1>1, <1>4, <2>2, AnsweredKeeps
<1> QED BY <1>2, <1>3, <1>4 DEF ReadValue

LEMMA SentKeeps ==
  ASSUME GtInv, NEW r \in requests, AttrsAgree, served' = served \cup {r.id}, requests' = requests \ {r},
         UNCHANGED <<gattServices, objects, handed, asked, asks, gattFault, cause>>
  PROVE  GtInv'
<1>1. asks' \in Nat /\ Numbered
  BY DEF GtInv, GtTypes
<1>2. Numbered'
  BY <1>1, NumberServed
<1> QED BY <1>1, <1>2, RequestsStay

LEMMA SetValueKeeps ==
  ASSUME GtInv, NEW r \in requests, NEW v \in GattValues, bt_gatt_req_set_value(r, v)
  PROVE  GtInv'
<1>0. GtTypes /\ Allocated /\ ValueIsShown /\ r.block \in Blocks
  BY DEF GtInv, Allocated
<1>1. CASE ~attrs[r.block].live /\ Fault
  BY <1>1, FaultKeeps DEF GtInv, Live
<1>2. CASE attrs' = Shown(r.block, v) /\ _send_request(r)
  <2>1. AttrsAgree
    BY <1>0, <1>2, ShownAgrees, Zenon
  <2>2. /\ served' = served \cup {r.id} /\ requests' = requests \ {r}
        /\ UNCHANGED <<gattServices, objects, handed, asked, asks, gattFault, cause>>
    BY <1>2, Zenon DEF _send_request
  <2> QED BY <2>1, <2>2, SentKeeps, Zenon
<1> QED BY <1>1, <1>2, Zenon DEF bt_gatt_req_set_value

LEMMA SetResultKeeps ==
  ASSUME GtInv, NEW r \in requests, NEW ok \in BOOLEAN, bt_gatt_req_set_result(r, ok)
  PROVE  GtInv'
<1>0. GtTypes /\ Allocated /\ ValueIsShown /\ r.block \in Blocks /\ (ok => r.type = "WRITE")
      /\ (r.type = "WRITE" => r.value \in GattValues)
  BY DEF GtInv, Allocated, bt_gatt_req_set_result
<1>1. CASE ~attrs[r.block].live /\ Fault
  BY <1>1, FaultKeeps DEF GtInv, Live
<1>2. CASE attrs' = (IF ok THEN Shown(r.block, r.value) ELSE attrs) /\ _send_request(r)
  <2>1. AttrsAgree
    <3>1. CASE ok
      <4>1. attrs' = Shown(r.block, r.value) /\ r.value \in GattValues
        BY <3>1, <1>0, <1>2, Zenon
      <4> QED BY <1>0, <4>1, ShownAgrees, Zenon
    <3>2. CASE ~ok
      <4>1. attrs' = attrs
        BY <3>2, <1>2, Zenon
      <4> QED BY <1>0, <4>1, SameAgrees, Zenon
    <3> QED BY <3>1, <3>2
  <2>2. /\ served' = served \cup {r.id} /\ requests' = requests \ {r}
        /\ UNCHANGED <<gattServices, objects, handed, asked, asks, gattFault, cause>>
    BY <1>2, Zenon DEF _send_request
  <2> QED BY <2>1, <2>2, SentKeeps, Zenon
<1> QED BY <1>1, <1>2, Zenon DEF bt_gatt_req_set_result

-----------------------------------------------------------------------------
(* The server: what an id finds.                                           *)

LEMMA FindsCharacteristic ==
  ASSUME GtInv, NEW svc \in GattNums, NEW chr \in Nat, cause = {}, svc = 0, Len(gattServices) > 0
  PROVE  /\ _find_chr_list_by_id(svc, chr) = Nth(gattServices[svc + 1].chars, chr)
         /\ Nth(gattServices[svc + 1].chars, chr) \in Blocks \cup {NULL}
         /\ chr < Len(gattServices[1].chars) => Nth(gattServices[svc + 1].chars, chr) \in Blocks
<1>1. GtTypes /\ Allocated /\ Len(gattServices) \in Nat /\ 1 \in DOMAIN gattServices
  BY Shapes DEF GtInv
<1>2. gattServices[1] \in Serv
  BY <1>1, Shapes
<1>3. gattServices[1].chars \in Seq(Nat)
  BY <1>2 DEF Serv
<1>4. ~(Len(gattServices) < svc) /\ Len(gattServices) # svc /\ svc + 1 = 1
  BY <1>1
<1>5. _find_chr_list_by_id(svc, chr) = Nth(gattServices[svc + 1].chars, chr)
  BY <1>4, Zenon DEF _find_chr_list_by_id
<1> DEFINE chars == gattServices[1].chars
<1>6. DOMAIN chars = 1..Len(chars) /\ Len(chars) \in Nat
  BY <1>3, LenProperties
<1>7. \A j \in DOMAIN chars : chars[j] \in Blocks
  BY <1>1 DEF Allocated
<1> HIDE DEF chars
<1>8. chr < Len(chars) => chr + 1 \in DOMAIN chars
  BY <1>6
<1>9. /\ Nth(chars, chr) \in Blocks \cup {NULL}
      /\ chr < Len(chars) => Nth(chars, chr) \in Blocks
  BY <1>7, <1>8, Zenon DEF Nth
<1> QED BY <1>4, <1>5, <1>9 DEF chars

LEMMA NoBlockIsCrash == Crash \notin Blocks \cup {NULL}
BY DEF Crash, Blocks, NULL

LEMMA FindsDescriptor ==
  ASSUME GtInv, NEW svc \in GattNums, NEW chr \in Nat, NEW d \in Nat, cause = {}, svc = 0, Len(gattServices) > 0
  PROVE  _find_desc_list_by_id(svc, chr, d) # Crash
<1>1. PICK c : c = _find_chr_list_by_id(svc, chr)
  OBVIOUS
<1>2. c \in Blocks \cup {NULL}
  BY <1>1, FindsCharacteristic, Zenon
<1>3. _find_desc_list_by_id(svc, chr, d) = IF c \in {NULL, Crash} THEN c ELSE Nth(attrs[c].descs, d)
  BY <1>1, Zenon DEF _find_desc_list_by_id
<1>4. CASE c \in {NULL, Crash}
  BY <1>2, <1>3, <1>4, NoBlockIsCrash, Zenon
<1>5. CASE c \notin {NULL, Crash}
  <2>1. c \in Blocks
    BY <1>2, <1>5
  <2>2. attrs[c].descs \in Seq(Nat)
    BY <2>1, Shapes DEF GtInv, AttrSet
  <2>3. Nth(attrs[c].descs, d) \in Nat
    <3>1. PICK s \in Seq(Nat) : s = attrs[c].descs
      BY <2>2
    <3>2. d < Len(s) => s[d + 1] \in Nat
      OBVIOUS
    <3> QED BY <3>1, <3>2 DEF Nth, NULL
  <2>4. Nth(attrs[c].descs, d) # Crash
    BY <2>3 DEF Crash
  <2> QED BY <1>3, <1>5, <2>4, Zenon
<1> QED BY <1>4, <1>5

LEMMA SetCallbackKeeps ==
  ASSUME GtInv, NEW b, NEW which \in {"read", "write"}, SetCallback(b, which), b = Crash => cause # {}
  PROVE  GtInv'
<1>1. CASE b = Crash /\ Fault
  BY <1>1, FaultKeeps
<1>2. CASE /\ b \in Blocks /\ attrs' = [attrs EXCEPT ![b].cbs = @ \cup {which}]
           /\ UNCHANGED <<gattServices, objects, handed, asked, requests, asks, served, gattFault, cause>>
  <2>1. AttrsAgree
    BY <1>2, CallbackAgrees DEF GtInv
  <2>2. asks' \in Nat /\ Numbered'
    BY <1>2 DEF GtInv, GtTypes, Numbered
  <2> QED BY <1>2, <2>1, <2>2, RequestsStay
<1> QED BY <1>1, <1>2 DEF SetCallback

LEMMA NotifyKeeps ==
  ASSUME GtInv, NEW svc, NEW chr, NEW v \in GattValues, bt_gatt_notify(svc, chr, v),
         _find_chr_list_by_id(svc, chr) = Crash => cause # {}
  PROVE  GtInv'
<1>0. PICK b : b = _find_chr_list_by_id(svc, chr)
  OBVIOUS
<1>1. CASE b = Crash /\ Fault
  BY <1>0, <1>1, FaultKeeps, Zenon
<1>2. CASE /\ b \in Blocks /\ attrs' = Shown(b, v)
           /\ UNCHANGED <<gattServices, objects, handed, asked, requests, asks, served, gattFault, cause>>
  <2>1. AttrsAgree
    BY <1>2, ShownAgrees, Zenon DEF GtInv
  <2>2. UNCHANGED <<gattServices, objects, handed, asked, requests, asks, served, gattFault, cause>>
    BY <1>2, Zenon
  <2>3. asks' \in Nat /\ Numbered' /\ requests' \subseteq requests
    BY <2>2, Zenon DEF GtInv, GtTypes, Numbered
  <2> QED BY <2>2, <2>1, <2>3, RequestsStay, Zenon
<1> QED BY <1>0, <1>1, <1>2, Zenon DEF bt_gatt_notify

-----------------------------------------------------------------------------
(* The server: building the list.                                          *)

\* A block is among some characteristics or their descriptors.
Holds(chars, b) ==
  \E i \in DOMAIN chars : chars[i] = b \/ \E j \in DOMAIN attrs[chars[i]].descs : attrs[chars[i]].descs[j] = b

LEMMA InListIs ==
  /\ \A b : InList(b) <=> \E s \in DOMAIN gattServices : Holds(gattServices[s].chars, b)
  /\ \A b : InList(b)' <=> \E s \in DOMAIN gattServices' : Holds(gattServices[s].chars, b)'
BY Zenon DEF InList, Holds

LEMMA NoneHeld ==
  \A chars, b : DOMAIN chars = {} => ~Holds(chars, b)
BY DEF Holds

\* Where no characteristic is added, none gets on the list.
LEMMA StillListed ==
  ASSUME attrs' = attrs,
         \A i \in DOMAIN gattServices' :
           \/ DOMAIN gattServices'[i].chars = {}
           \/ \E k \in DOMAIN gattServices : gattServices'[i].chars = gattServices[k].chars
  PROVE  \A b : InList(b)' => InList(b)
<1> SUFFICES ASSUME NEW b, InList(b)' PROVE InList(b)
  OBVIOUS
<1>2. PICK s \in DOMAIN gattServices' : Holds(gattServices[s].chars, b)'
  BY InListIs, Zenon
<1>3. PICK c : c = gattServices'[s].chars
  OBVIOUS
<1>4. Holds(c, b)
  BY <1>2, <1>3, Zenon DEF Holds
<1>5. DOMAIN c # {}
  BY <1>4, NoneHeld, Zenon
<1>6. PICK k \in DOMAIN gattServices : c = gattServices[k].chars
  BY <1>3, <1>5
<1> QED BY <1>4, <1>6, InListIs, Zenon

LEMMA AddServiceKeeps ==
  ASSUME GtInv, bt_gatt_add_service
  PROVE  GtInv'
<1> DEFINE n == Len(gattServices)
           new == [num |-> n, chars |-> <<>>]
<1>0. GtTypes /\ Allocated /\ OwnPaths /\ n \in Nat /\ DOMAIN gattServices = 1..n
      /\ \A i \in DOMAIN gattServices : gattServices[i] \in Serv
  BY Shapes DEF GtInv
<1>1. /\ n < MaxServices /\ <<n>> \notin objects /\ objects' = objects \cup {<<n>>}
      /\ gattServices' = Append(gattServices, new) /\ handed' = handed \cup {<<n>>}
      /\ UNCHANGED <<attrs, asked, requests, asks, served, gattFault, cause>>
  BY DEF bt_gatt_add_service
<1>2. n \in GattNums
  BY <1>0, <1>1, GattServerAssumption DEF GattNums
<1>3. new \in Serv /\ new.num = n /\ new.chars = <<>> /\ DOMAIN new.chars = {}
  BY <1>2 DEF Serv
<1>4. gattServices \in Seq(Serv)
  BY <1>0 DEF GtTypes
<1> HIDE DEF new
<1>5. /\ gattServices' \in Seq(Serv) /\ Len(gattServices') = n + 1 /\ DOMAIN gattServices' = 1..(n + 1)
      /\ gattServices'[n + 1] = new
      /\ \A i \in DOMAIN gattServices : i \in DOMAIN gattServices' /\ gattServices'[i] = gattServices[i]
      /\ \A i \in DOMAIN gattServices' : (i = n + 1 /\ gattServices'[i] = new)
                                         \/ (i \in DOMAIN gattServices /\ gattServices'[i] = gattServices[i])
  BY <1>1, <1>3, <1>4, Appended
<1>6. Blocks' = Blocks
  BY <1>1 DEF Blocks
<1>7. GtTypes'
  <2>1. <<n>> \in Handed
    BY <1>2 DEF Handed
  <2> QED BY <1>0, <1>1, <1>5, <2>1 DEF GtTypes
<1>8. Allocated'
  <2>1. \A i \in DOMAIN gattServices' : \A j \in DOMAIN gattServices'[i].chars : gattServices'[i].chars[j] \in Blocks
    BY <1>0, <1>3, <1>5 DEF Allocated
  <2> QED BY <2>1, <1>0, <1>1, <1>6 DEF Allocated
<1>9. Numbered' /\ ValueIsShown' /\ FaultHasCause'
  BY <1>1, <1>6 DEF GtInv, Numbered, ValueIsShown, FaultHasCause
<1>10. OwnPaths'
  <2>1. \A i \in DOMAIN gattServices : gattServices[i].num # n
    BY <1>0, <1>1 DEF OwnPaths
  <2>2. \A i \in DOMAIN gattServices' : <<gattServices'[i].num>> \in objects'
    BY <1>0, <1>1, <1>3, <1>5 DEF OwnPaths
  <2>3. ASSUME NEW i \in DOMAIN gattServices', NEW j \in DOMAIN gattServices', gattServices'[i].num = gattServices'[j].num
        PROVE  i = j
    BY <1>0, <1>3, <1>5, <2>1, <2>3 DEF OwnPaths
  <2>4. (\A b \in Blocks : attrs[b].path \in objects') /\ (\A b, c \in Blocks : attrs[b].path = attrs[c].path => b = c)
    BY <1>0, <1>1 DEF OwnPaths
  <2> QED BY <1>1, <1>6, <2>2, <2>3, <2>4 DEF OwnPaths
<1>11. PositionIsPath'
  <2> SUFFICES ASSUME "shifted" \notin cause', NEW i \in DOMAIN gattServices'
      PROVE  gattServices'[i].num = i - 1
    BY DEF PositionIsPath
  <2>1. CASE i = n + 1 /\ gattServices'[i] = new
    BY <2>1, <1>3, <1>0
  <2>2. CASE i \in DOMAIN gattServices /\ gattServices'[i] = gattServices[i]
    BY <2>2, <1>1 DEF GtInv, PositionIsPath
  <2> QED BY <2>1, <2>2, <1>5
<1>12. Named'
  <2> SUFFICES ASSUME cause' = {}
      PROVE  /\ \A i \in DOMAIN gattServices' : i > 1 => gattServices'[i].chars = <<>>
             /\ \A s \in Nat : <<s>> \in handed' => s < n + 1
             /\ \A s, c \in Nat : <<s, c>> \in handed' =>
                  s = 0 /\ n + 1 > 0 /\ c < Len(gattServices'[1].chars)
             /\ \A s, c, d \in Nat : <<s, c, d>> \in handed' => s = 0 /\ n + 1 > 0
             /\ \A s \in asked' : s < n + 1
    BY <1>5 DEF Named
  <2>1. cause = {} /\ asked' = asked /\ asked \subseteq Nat
    BY <1>0, <1>1 DEF GtTypes, GattNums
  <2>2. /\ \A i \in DOMAIN gattServices : i > 1 => gattServices[i].chars = <<>>
        /\ \A s \in Nat : <<s>> \in handed => s < n
        /\ \A s, c \in Nat : <<s, c>> \in handed => s = 0 /\ n > 0 /\ c < Len(gattServices[1].chars)
        /\ \A s, c, d \in Nat : <<s, c, d>> \in handed => s = 0 /\ n > 0
        /\ \A s \in asked : s < n
    BY <2>1 DEF GtInv, Named
  <2>3. \A i \in DOMAIN gattServices' : i > 1 => gattServices'[i].chars = <<>>
    BY <1>3, <1>5, <2>2
  <2>4. ASSUME NEW s \in Nat, <<s>> \in handed' PROVE s < n + 1
    <3>1. <<s>> \in handed \/ s = n
      BY <1>1, <2>4, Tuples, Zenon
    <3>2. CASE <<s>> \in handed
      <4>1. s < n /\ n \in Nat
        BY <3>2, <2>2, <1>0, Zenon
      <4> QED BY <4>1
    <3>3. CASE s = n
      BY <3>3, <1>0
    <3> QED BY <3>1, <3>2, <3>3
  <2>5. ASSUME NEW s \in Nat, NEW c \in Nat, <<s, c>> \in handed'
        PROVE  s = 0 /\ n + 1 > 0 /\ c < Len(gattServices'[1].chars)
    <3>1. <<s, c>> \in handed
      BY <1>1, <2>5, Tuples, Zenon
    <3>2. s = 0 /\ n > 0 /\ c < Len(gattServices[1].chars)
      BY <3>1, <2>2, Zenon
    <3>3. gattServices'[1] = gattServices[1]
      BY <3>2, <1>0, <1>5
    <3> QED BY <3>2, <3>3, <1>0
  <2>6. ASSUME NEW s \in Nat, NEW c \in Nat, NEW d \in Nat, <<s, c, d>> \in handed'
        PROVE  s = 0 /\ n + 1 > 0
    <3>1. <<s, c, d>> \in handed
      BY <1>1, <2>6, Tuples, Zenon
    <3> QED BY <3>1, <2>2, <1>0
  <2>7. ASSUME NEW s \in asked' PROVE s < n + 1
    <3>1. s < n /\ n \in Nat /\ s \in Nat
      BY <2>1, <2>2, <1>0
    <3> QED BY <3>1
  <2> QED BY <2>3, <2>4, <2>5, <2>6, <2>7
<1>13. Live'
  <2>1. \A i \in DOMAIN gattServices' :
          \/ DOMAIN gattServices'[i].chars = {}
          \/ \E k \in DOMAIN gattServices : gattServices'[i].chars = gattServices[k].chars
    BY <1>3, <1>5
  <2>2. \A b : InList(b)' => InList(b)
    BY <1>1, <2>1, StillListed
  <2> QED BY <2>2, <1>1, <1>6 DEF GtInv, Live
<1> QED BY <1>7, <1>8, <1>9, <1>10, <1>11, <1>12, <1>13 DEF GtInv

\* A new block behind the others, which keep what they hold.
Grows(path) ==
  /\ attrs' \in Seq(AttrSet) /\ Len(attrs') = Len(attrs) + 1
  /\ attrs'[Len(attrs) + 1] = Attr(path)
  /\ \A b \in Blocks : /\ attrs'[b].path = attrs[b].path /\ attrs'[b].live = attrs[b].live
                       /\ attrs'[b].value = attrs[b].value /\ attrs'[b].seen = attrs[b].seen

LEMMA AttrIs ==
  ASSUME NEW path \in AttrPaths
  PROVE  /\ Attr(path) \in AttrSet /\ Attr(path).path = path /\ Attr(path).descs = <<>>
         /\ DOMAIN Attr(path).descs = {} /\ Attr(path).live /\ Attr(path).seen = Unknown
BY GattServerAssumption DEF Attr, AttrSet

LEMMA BlocksGrow ==
  ASSUME Len(attrs) \in Nat, NEW path, Grows(path)
  PROVE  /\ Blocks' = Blocks \cup {Len(attrs) + 1} /\ Len(attrs) + 1 \notin Blocks
         /\ \A b \in Blocks' : b = Len(attrs) + 1 \/ b \in Blocks
         /\ Blocks \subseteq Blocks'
BY DEF Grows, Blocks

LEMMA GrowsKeeps ==
  ASSUME GtInv, NEW path \in AttrPaths, path \notin objects, Grows(path), objects' = objects \cup {path},
         UNCHANGED <<asked, requests, asks, served, gattFault>>, cause \subseteq cause'
  PROVE  /\ Numbered' /\ ValueIsShown' /\ FaultHasCause'
         /\ \A b \in Blocks' : attrs'[b].path \in objects'
         /\ \A b, c \in Blocks' : attrs'[b].path = attrs'[c].path => b = c
         /\ \A r \in requests' : r.block \in Blocks' /\ (r.type = "WRITE" => r.value \in GattValues)
         /\ cause' = {} => \A r \in requests' : attrs'[r.block].live
<1> DEFINE n == Len(attrs) + 1
<1>1. Len(attrs) \in Nat /\ Allocated /\ OwnPaths /\ Live
  BY Shapes DEF GtInv
<1>2. /\ Blocks' = Blocks \cup {n} /\ n \notin Blocks
      /\ \A b \in Blocks' : b = n \/ b \in Blocks
      /\ Blocks \subseteq Blocks'
  BY <1>1, BlocksGrow
<1>3. /\ attrs'[n].path = path /\ attrs'[n].seen = Unknown
      /\ \A b \in Blocks : /\ attrs'[b].path = attrs[b].path /\ attrs'[b].live = attrs[b].live
                           /\ attrs'[b].value = attrs[b].value /\ attrs'[b].seen = attrs[b].seen
  BY AttrIs DEF Grows
<1> HIDE DEF n
<1>4. ValueIsShown'
  BY <1>2, <1>3 DEF GtInv, ValueIsShown
<1>5. Numbered' /\ FaultHasCause'
  BY DEF GtInv, Numbered, FaultHasCause
<1>6. \A b \in Blocks' : attrs'[b].path \in objects'
  BY <1>1, <1>2, <1>3 DEF OwnPaths
<1>7. \A b \in Blocks : attrs[b].path # path
  BY <1>1 DEF OwnPaths
<1>8. ASSUME NEW b \in Blocks', NEW c \in Blocks', attrs'[b].path = attrs'[c].path PROVE b = c
  BY <1>1, <1>2, <1>3, <1>7, <1>8 DEF OwnPaths
<1>9. \A r \in requests' : r.block \in Blocks' /\ (r.type = "WRITE" => r.value \in GattValues)
  BY <1>1, <1>2 DEF Allocated
<1>10. cause' = {} => \A r \in requests' : attrs'[r.block].live
  BY <1>1, <1>3 DEF Allocated, Live
<1> QED BY <1>4, <1>5, <1>6, <1>8, <1>9, <1>10

LEMMA AddCharacteristicKeeps ==
  ASSUME GtInv, NEW svc \in GattNums, <<svc>> \in handed, bt_gatt_add_characteristic(svc)
  PROVE  GtInv'
<1> DEFINE chars == gattServices[1].chars
           n == Len(attrs) + 1
           m == Len(chars)
           path == <<0, m>>
<1>0. GtTypes /\ Allocated /\ OwnPaths /\ Len(attrs) \in Nat /\ Len(gattServices) \in Nat
      /\ DOMAIN gattServices = 1..Len(gattServices) /\ gattServices \in Seq(Serv)
      /\ \A i \in DOMAIN gattServices : gattServices[i] \in Serv
  BY Shapes DEF GtInv, GtTypes
<1>1. CASE gattServices = <<>>
  <2>1. Fault
    BY <1>1 DEF bt_gatt_add_characteristic
  <2>2. cause = {} => svc < Len(gattServices)
    BY DEF GtInv, Named, GattNums
  <2>3. cause # {}
    BY <1>1, <2>2 DEF GattNums
  <2> QED BY <2>1, <2>3, FaultKeeps
<1>2. CASE gattServices # <<>>
  <2>1. /\ path \notin objects /\ objects' = objects \cup {path}
        /\ attrs' = Append(attrs, Attr(path))
        /\ gattServices' = [gattServices EXCEPT ![1].chars = Append(@, n)]
        /\ handed' = handed \cup {<<svc, m>>}
        /\ cause' = IF svc # 0 THEN cause \cup {"misplaced"} ELSE cause
        /\ UNCHANGED <<asked, requests, asks, served, gattFault>>
    BY <1>2 DEF bt_gatt_add_characteristic
  <2>2. Len(gattServices) > 0 /\ 1 \in DOMAIN gattServices
    BY <1>0, <1>2, EmptySeq
  <2>3. chars \in Seq(Nat) /\ m \in Nat /\ gattServices[1] \in Serv
    BY <1>0, <2>2, LenProperties DEF Serv
  <2>4. path \in AttrPaths
    BY <2>3 DEF AttrPaths
  <2> HIDE DEF chars, m, path
  <2>5. /\ Attr(path) \in AttrSet /\ Attr(path).path = path /\ Attr(path).descs = <<>>
        /\ DOMAIN Attr(path).descs = {} /\ Attr(path).live
    BY <2>4, AttrIs
  <2>6. /\ attrs' \in Seq(AttrSet) /\ Len(attrs') = Len(attrs) + 1 /\ DOMAIN attrs = Blocks
        /\ attrs'[Len(attrs) + 1] = Attr(path) /\ \A b \in Blocks : attrs'[b] = attrs[b]
    <3>1. attrs \in Seq(AttrSet) /\ DOMAIN attrs = Blocks
      BY <1>0, Shapes DEF GtTypes
    <3> QED BY <3>1, <2>1, <2>5, Appended
  <2>7. Grows(path)
    BY <2>6 DEF Grows
  <2>8. /\ Blocks' = Blocks \cup {n} /\ n \notin Blocks /\ \A b \in Blocks' : b = n \/ b \in Blocks
        /\ Blocks \subseteq Blocks' /\ n \in Nat
    BY <1>0, <2>7, BlocksGrow
  <2>9. PICK new : new = [gattServices[1] EXCEPT !.chars = Append(chars, n)]
    OBVIOUS
  <2>10. PICK more : more = Append(chars, n)
    OBVIOUS
  <2>11. /\ more \in Seq(Nat) /\ Len(more) = m + 1
         /\ \A i \in DOMAIN more : more[i] = n \/ (i \in DOMAIN chars /\ more[i] = chars[i])
    BY <2>3, <2>8, <2>10, Appended DEF m
  <2>12. new \in Serv /\ new.num = gattServices[1].num /\ new.chars = more
    BY <2>3, <2>9, <2>10, <2>11 DEF Serv
  <2>13. gattServices' = [gattServices EXCEPT ![1] = new]
    BY <2>1, <2>9 DEF chars
  <2>14. /\ gattServices' \in Seq(Serv) /\ Len(gattServices') = Len(gattServices)
         /\ DOMAIN gattServices' = DOMAIN gattServices
         /\ \A i \in DOMAIN gattServices : gattServices'[i] = IF i = 1 THEN new ELSE gattServices[i]
    <3>1. gattServices' \in Seq(Serv) /\ Len(gattServices') = Len(gattServices)
      BY <1>0, <2>2, <2>12, <2>13, ExceptSeq
    <3> QED BY <3>1, <2>13
  <2>15. cause \subseteq cause' /\ (cause' = {} => cause = {} /\ svc = 0)
         /\ ("shifted" \notin cause' => "shifted" \notin cause)
    BY <2>1
  <2>16. /\ Numbered' /\ ValueIsShown' /\ FaultHasCause'
         /\ \A b \in Blocks' : attrs'[b].path \in objects'
         /\ \A b, c \in Blocks' : attrs'[b].path = attrs'[c].path => b = c
         /\ \A r \in requests' : r.block \in Blocks' /\ (r.type = "WRITE" => r.value \in GattValues)
         /\ cause' = {} => \A r \in requests' : attrs'[r.block].live
    BY <2>1, <2>4, <2>7, <2>15, GrowsKeeps
  <2>17. GtTypes'
    <3>1. <<svc, m>> \in Handed
      BY <2>3 DEF Handed
    <3> QED BY <1>0, <2>1, <2>6, <2>14, <3>1 DEF GtTypes
  <2>18. Allocated'
    <3>1. ASSUME NEW i \in DOMAIN gattServices', NEW j \in DOMAIN gattServices'[i].chars
          PROVE  gattServices'[i].chars[j] \in Blocks'
      <4>1. CASE i = 1
        <5>1. gattServices'[i].chars = more
          BY <4>1, <2>2, <2>12, <2>14
        <5>2. more[j] = n \/ (j \in DOMAIN chars /\ more[j] = chars[j])
          BY <5>1, <2>11
        <5> QED BY <5>1, <5>2, <2>2, <2>8, <1>0 DEF Allocated, chars
      <4>2. CASE i # 1
        BY <4>2, <2>8, <2>14, <1>0 DEF Allocated
      <4> QED BY <4>1, <4>2
    <3>2. ASSUME NEW b \in Blocks', NEW j \in DOMAIN attrs'[b].descs
          PROVE  attrs'[b].descs[j] \in Blocks'
      <4>1. CASE b = n
        BY <4>1, <2>5, <2>6
      <4>2. CASE b \in Blocks
        BY <4>2, <2>6, <2>8, <1>0 DEF Allocated
      <4> QED BY <4>1, <4>2, <2>8
    <3> QED BY <3>1, <3>2, <2>16 DEF Allocated
  <2>19. \A i \in DOMAIN gattServices' : i \in DOMAIN gattServices /\ gattServices'[i].num = gattServices[i].num
    BY <2>2, <2>12, <2>14
  <2>20. OwnPaths'
    <3>1. \A i \in DOMAIN gattServices' : <<gattServices'[i].num>> \in objects'
      BY <1>0, <2>1, <2>19 DEF OwnPaths
    <3>2. \A i, j \in DOMAIN gattServices' : gattServices'[i].num = gattServices'[j].num => i = j
      BY <1>0, <2>19 DEF OwnPaths
    <3> QED BY <3>1, <3>2, <2>16 DEF OwnPaths
  <2>21. PositionIsPath'
    BY <2>15, <2>19 DEF GtInv, PositionIsPath
  <2>22. Named'
    <3> SUFFICES ASSUME cause' = {}
        PROVE  /\ \A i \in DOMAIN gattServices' : i > 1 => gattServices'[i].chars = <<>>
               /\ \A s \in Nat : <<s>> \in handed' => s < Len(gattServices)
               /\ \A s, c \in Nat : <<s, c>> \in handed' =>
                    s = 0 /\ Len(gattServices) > 0 /\ c < m + 1
               /\ \A s, c, d \in Nat : <<s, c, d>> \in handed' => s = 0 /\ Len(gattServices) > 0
               /\ \A s \in asked' : s < Len(gattServices)
      BY <2>2, <2>11, <2>12, <2>14 DEF Named
    <3>1. cause = {} /\ svc = 0
      BY <2>15
    <3>2. /\ \A i \in DOMAIN gattServices : i > 1 => gattServices[i].chars = <<>>
          /\ \A s \in Nat : <<s>> \in handed => s < Len(gattServices)
          /\ \A s, c \in Nat : <<s, c>> \in handed => s = 0 /\ Len(gattServices) > 0 /\ c < m
          /\ \A s, c, d \in Nat : <<s, c, d>> \in handed => s = 0 /\ Len(gattServices) > 0
          /\ \A s \in asked : s < Len(gattServices)
      BY <3>1 DEF GtInv, Named, m, chars
    <3>3. \A i \in DOMAIN gattServices' : i > 1 => gattServices'[i].chars = <<>>
      <4>1. \A i \in DOMAIN gattServices' : i > 1 => i # 1
        BY <1>0, <2>14
      <4> QED BY <4>1, <3>2, <2>14
    <3>4. ASSUME NEW s \in Nat, <<s>> \in handed' PROVE s < Len(gattServices)
      BY <2>1, <3>2, <3>4, Tuples, Zenon
    <3>5. ASSUME NEW s \in Nat, NEW c \in Nat, <<s, c>> \in handed'
          PROVE  s = 0 /\ Len(gattServices) > 0 /\ c < m + 1
      <4>1. <<s, c>> \in handed \/ (s = svc /\ c = m)
        BY <2>1, <3>5, Tuples, Zenon
      <4>2. CASE <<s, c>> \in handed
        <5>1. s = 0 /\ Len(gattServices) > 0 /\ c < m
          BY <4>2, <3>2, Zenon
        <5> QED BY <5>1, <2>3
      <4>3. CASE s = svc /\ c = m
        BY <4>3, <3>1, <2>2, <2>3
      <4> QED BY <4>1, <4>2, <4>3
    <3>6. ASSUME NEW s \in Nat, NEW c \in Nat, NEW d \in Nat, <<s, c, d>> \in handed'
          PROVE  s = 0 /\ Len(gattServices) > 0
      BY <2>1, <3>2, <3>6, Tuples, Zenon
    <3>7. \A s \in asked' : s < Len(gattServices)
      BY <2>1, <3>2, Zenon
    <3> QED BY <3>3, <3>4, <3>5, <3>6, <3>7
  <2>23. Live'
    <3> SUFFICES ASSUME cause' = {}, NEW b \in Blocks', InList(b)' PROVE attrs'[b].live
      BY <2>16 DEF Live
    <3>1. CASE b = n
      BY <3>1, <2>5, <2>6
    <3>2. CASE b \in Blocks
      <4>1. PICK s \in DOMAIN gattServices' : Holds(gattServices[s].chars, b)'
        BY InListIs, Zenon
      <4>2. PICK q : q = gattServices'[s].chars
        OBVIOUS
      <4>3. PICK i \in DOMAIN q : q[i] = b \/ \E j \in DOMAIN attrs'[q[i]].descs : attrs'[q[i]].descs[j] = b
        BY <4>1, <4>2, Zenon DEF Holds
      <4>4. q[i] # n
        <5> SUFFICES ASSUME q[i] = n PROVE FALSE
          OBVIOUS
        <5>1. attrs'[q[i]].descs = <<>> /\ DOMAIN attrs'[q[i]].descs = {}
          BY <2>5, <2>6
        <5> QED BY <4>3, <5>1, <3>2, <2>8
      <4>5. s \in DOMAIN gattServices /\ i \in DOMAIN gattServices[s].chars /\ q[i] = gattServices[s].chars[i]
        <5>1. CASE s = 1
          <6>1. q = more
            BY <5>1, <4>2, <2>2, <2>12, <2>14
          <6>2. i \in DOMAIN chars /\ q[i] = chars[i]
            BY <6>1, <4>4, <2>11
          <6> QED BY <6>2, <5>1, <2>2 DEF chars
        <5>2. CASE s # 1
          BY <5>2, <4>2, <2>14
        <5> QED BY <5>1, <5>2
      <4>6. q[i] \in Blocks
        BY <4>5, <1>0 DEF Allocated
      <4>7. attrs'[q[i]] = attrs[q[i]]
        BY <4>6, <2>6
      <4>8. q[i] = b \/ \E j \in DOMAIN attrs[q[i]].descs : attrs[q[i]].descs[j] = b
        BY <4>3, <4>7
      <4>9. Holds(gattServices[s].chars, b)
        BY <4>5, <4>8, Zenon DEF Holds
      <4>10. InList(b)
        BY <4>5, <4>9, InListIs, Zenon
      <4> QED BY <4>10, <3>2, <2>6, <2>15 DEF GtInv, Live
    <3> QED BY <3>1, <3>2, <2>8
  <2> QED BY <2>16, <2>17, <2>18, <2>20, <2>21, <2>22, <2>23 DEF GtInv
<1> QED BY <1>1, <1>2

\* A block with the descriptors it has now.
HasDescs(a, more, new) == new = [a EXCEPT !.descs = more]

LEMMA RecordDescs ==
  ASSUME NEW a \in AttrSet, NEW more \in Seq(Nat), NEW new, HasDescs(a, more, new)
  PROVE  /\ new \in AttrSet /\ new.descs = more /\ new.path = a.path /\ new.live = a.live
         /\ new.value = a.value /\ new.seen = a.seen
BY DEF AttrSet, HasDescs

LEMMA PathIs ==
  ASSUME NEW s \in GattNums, NEW c \in Nat, NEW d \in Nat
  PROVE  <<s, c, d>> \in AttrPaths /\ <<s, c, d>> \in Handed /\ s \in Nat
<1>1. s \in Nat
  BY DEF GattNums
<1> QED BY <1>1 DEF AttrPaths, Handed

LEMMA AddDescriptorKeeps ==
  ASSUME GtInv, NEW svc \in GattNums, NEW chr \in Nat, <<svc, chr>> \in handed, bt_gatt_add_descriptor(svc, chr)
  PROVE  GtInv'
<1>0. GtTypes /\ Allocated /\ OwnPaths /\ Len(attrs) \in Nat /\ Len(gattServices) \in Nat
      /\ DOMAIN gattServices = 1..Len(gattServices) /\ DOMAIN attrs = Blocks /\ attrs \in Seq(AttrSet)
      /\ \A b \in Blocks : attrs[b] \in AttrSet
  BY Shapes DEF GtInv, GtTypes
<1>1. PICK c : c = IF svc < Len(gattServices) THEN Nth(gattServices[svc + 1].chars, chr) ELSE NULL
  OBVIOUS
<1>2. CASE c = NULL
  <2>1. Fault
    BY <1>1, <1>2, Zenon DEF bt_gatt_add_descriptor
  <2>2. ASSUME cause = {} PROVE FALSE
    <3>1. svc \in Nat
      BY DEF GattNums
    <3>2. svc = 0 /\ Len(gattServices) > 0 /\ chr < Len(gattServices[1].chars)
      BY <2>2, <3>1 DEF GtInv, Named
    <3>3. svc < Len(gattServices)
      BY <3>2
    <3>4. Nth(gattServices[svc + 1].chars, chr) \in Blocks
      BY <2>2, <3>2, FindsCharacteristic, Zenon
    <3> QED BY <1>1, <1>2, <3>3, <3>4 DEF Blocks, NULL
  <2> QED BY <2>1, <2>2, FaultKeeps
<1>3. CASE c # NULL
  <2>1. c \in Blocks
    <3>1. svc < Len(gattServices) /\ c = Nth(gattServices[svc + 1].chars, chr) /\ svc \in Nat
      BY <1>1, <1>3 DEF GattNums
    <3>2. svc + 1 \in DOMAIN gattServices
      BY <1>0, <3>1
    <3>3. PICK q : q = gattServices[svc + 1].chars
      OBVIOUS
    <3>4. q \in Seq(Nat) /\ \A j \in DOMAIN q : q[j] \in Blocks
      BY <1>0, <3>2, <3>3, Shapes DEF Allocated, Serv
    <3>5. chr < Len(q) /\ c = q[chr + 1]
      BY <1>3, <3>1, <3>3 DEF Nth
    <3>6. chr + 1 \in DOMAIN q
      BY <3>4, <3>5, LenProperties
    <3> QED BY <3>4, <3>5, <3>6
  <2> DEFINE n == Len(attrs) + 1
             descs == attrs[c].descs
             path == <<svc, chr, Len(descs)>>
  <2>2. /\ path \notin objects /\ objects' = objects \cup {path}
        /\ attrs' = Append([attrs EXCEPT ![c].descs = Append(@, n)], Attr(path))
        /\ handed' = handed \cup {path}
        /\ UNCHANGED <<gattServices, asked, requests, asks, served, gattFault, cause>>
    BY <1>1, <1>3, Zenon DEF bt_gatt_add_descriptor
  <2>3. descs \in Seq(Nat) /\ Len(descs) \in Nat /\ attrs[c] \in AttrSet
    BY <1>0, <2>1, LenProperties DEF AttrSet
  <2>4. path \in AttrPaths /\ path \in Handed /\ svc \in Nat
    BY <2>3, PathIs
  <2>5. PICK k : k = Len(descs)
    OBVIOUS
  <2>6. path = <<svc, chr, k>>
    BY <2>5
  <2> HIDE DEF descs, path
  <2>7. /\ Attr(path) \in AttrSet /\ Attr(path).path = path /\ Attr(path).descs = <<>>
        /\ DOMAIN Attr(path).descs = {} /\ Attr(path).live
    BY <2>4, AttrIs
  <2>8. PICK more : more = Append(descs, n)
    OBVIOUS
  <2>9. /\ more \in Seq(Nat)
        /\ \A i \in DOMAIN more : more[i] = n \/ (i \in DOMAIN descs /\ more[i] = descs[i])
    BY <1>0, <2>3, <2>8, Appended
  <2>10. PICK new : HasDescs(attrs[c], more, new)
    BY DEF HasDescs
  <2>11. /\ new \in AttrSet /\ new.descs = more /\ new.path = attrs[c].path /\ new.live = attrs[c].live
         /\ new.value = attrs[c].value /\ new.seen = attrs[c].seen
    <3>1. more \in Seq(Nat) /\ attrs[c] \in AttrSet
      BY <2>3, <2>9
    <3> QED BY <3>1, <2>10, RecordDescs
  <2>12. PICK base : base = [attrs EXCEPT ![c] = new]
    OBVIOUS
  <2>13. attrs' = Append(base, Attr(path))
    BY <2>2, <2>8, <2>10, <2>12 DEF descs, HasDescs
  <2>14. /\ base \in Seq(AttrSet) /\ Len(base) = Len(attrs)
         /\ \A b \in Blocks : base[b] = IF b = c THEN new ELSE attrs[b]
    <3>1. base \in Seq(AttrSet) /\ Len(base) = Len(attrs)
      BY <1>0, <2>1, <2>11, <2>12, ExceptSeq
    <3> QED BY <1>0, <3>1, <2>12
  <2>15. /\ attrs' \in Seq(AttrSet) /\ Len(attrs') = Len(attrs) + 1
         /\ attrs'[n] = Attr(path) /\ \A b \in Blocks : attrs'[b] = base[b]
    <3>1. DOMAIN base = Blocks
      BY <2>14, LenProperties DEF Blocks
    <3> QED BY <3>1, <2>7, <2>13, <2>14, Appended
  <2>16. Grows(path)
    BY <2>11, <2>14, <2>15 DEF Grows
  <2>17. /\ Blocks' = Blocks \cup {n} /\ n \notin Blocks /\ \A b \in Blocks' : b = n \/ b \in Blocks
         /\ Blocks \subseteq Blocks' /\ n \in Nat
    BY <1>0, <2>16, BlocksGrow
  <2>18. /\ Numbered' /\ ValueIsShown' /\ FaultHasCause'
         /\ \A b \in Blocks' : attrs'[b].path \in objects'
         /\ \A b1, b2 \in Blocks' : attrs'[b1].path = attrs'[b2].path => b1 = b2
         /\ \A r \in requests' : r.block \in Blocks' /\ (r.type = "WRITE" => r.value \in GattValues)
         /\ cause' = {} => \A r \in requests' : attrs'[r.block].live
    BY <2>2, <2>4, <2>16, GrowsKeeps
  <2>19. GtTypes'
    BY <1>0, <2>2, <2>4, <2>15 DEF GtTypes
  <2>20. \A b \in Blocks : \A j \in DOMAIN attrs'[b].descs :
            attrs'[b].descs[j] = n \/ (j \in DOMAIN attrs[b].descs /\ attrs'[b].descs[j] = attrs[b].descs[j])
    BY <2>9, <2>11, <2>14, <2>15, SMTT(30) DEF descs
  <2>21. Allocated'
    <3>1. ASSUME NEW b \in Blocks', NEW j \in DOMAIN attrs'[b].descs
          PROVE  attrs'[b].descs[j] \in Blocks'
      <4>1. CASE b = n
        BY <4>1, <2>7, <2>15
      <4>2. CASE b \in Blocks
        BY <4>2, <2>17, <2>20, <1>0 DEF Allocated
      <4> QED BY <4>1, <4>2, <2>17
    <3>2. \A i \in DOMAIN gattServices' :
            \A j \in DOMAIN gattServices'[i].chars : gattServices'[i].chars[j] \in Blocks'
      BY <1>0, <2>2, <2>17 DEF Allocated
    <3> QED BY <3>1, <3>2, <2>18 DEF Allocated
  <2>22. OwnPaths' /\ PositionIsPath'
    <3>1. gattServices' = gattServices /\ cause' = cause /\ objects \subseteq objects'
      BY <2>2
    <3>2. PositionIsPath'
      BY <3>1 DEF GtInv, PositionIsPath
    <3>3. OwnPaths'
      BY <1>0, <3>1, <2>18 DEF OwnPaths
    <3> QED BY <3>2, <3>3
  <2>23. Named'
    <3> SUFFICES ASSUME cause' = {}
        PROVE  /\ \A i \in DOMAIN gattServices : i > 1 => gattServices[i].chars = <<>>
               /\ \A s \in Nat : <<s>> \in handed' => s < Len(gattServices)
               /\ \A s, e \in Nat : <<s, e>> \in handed' =>
                    s = 0 /\ Len(gattServices) > 0 /\ e < Len(gattServices[1].chars)
               /\ \A s, e, d \in Nat : <<s, e, d>> \in handed' => s = 0 /\ Len(gattServices) > 0
               /\ \A s \in asked' : s < Len(gattServices)
      BY <2>2, Zenon DEF Named
    <3>1. cause = {}
      BY <2>2
    <3>2. /\ \A i \in DOMAIN gattServices : i > 1 => gattServices[i].chars = <<>>
          /\ \A s \in Nat : <<s>> \in handed => s < Len(gattServices)
          /\ \A s, e \in Nat : <<s, e>> \in handed =>
               s = 0 /\ Len(gattServices) > 0 /\ e < Len(gattServices[1].chars)
          /\ \A s, e, d \in Nat : <<s, e, d>> \in handed => s = 0 /\ Len(gattServices) > 0
          /\ \A s \in asked : s < Len(gattServices)
      BY <3>1 DEF GtInv, Named
    <3>3. ASSUME NEW s \in Nat, <<s>> \in handed' PROVE s < Len(gattServices)
      BY <2>2, <2>6, <3>2, <3>3, Tuples, Zenon
    <3>4. ASSUME NEW s \in Nat, NEW e \in Nat, <<s, e>> \in handed'
          PROVE  s = 0 /\ Len(gattServices) > 0 /\ e < Len(gattServices[1].chars)
      BY <2>2, <2>6, <3>2, <3>4, Tuples, Zenon
    <3>5. ASSUME NEW s \in Nat, NEW e \in Nat, NEW d \in Nat, <<s, e, d>> \in handed'
          PROVE  s = 0 /\ Len(gattServices) > 0
      <4>1. <<s, e, d>> \in handed \/ s = svc
        BY <2>2, <2>6, <3>5, Tuples, Zenon
      <4>2. svc = 0 /\ Len(gattServices) > 0
        BY <2>4, <3>2, Zenon
      <4> QED BY <4>1, <4>2, <3>2, Zenon
    <3>6. \A s \in asked' : s < Len(gattServices)
      BY <2>2, <3>2, Zenon
    <3> QED BY <3>2, <3>3, <3>4, <3>5, <3>6, Zenon
  <2>24. Live'
    <3> SUFFICES ASSUME cause' = {}, NEW b \in Blocks', InList(b)' PROVE attrs'[b].live
      BY <2>18 DEF Live
    <3>1. CASE b = n
      BY <3>1, <2>7, <2>15
    <3>2. CASE b \in Blocks
      <4>1. PICK s \in DOMAIN gattServices' : Holds(gattServices[s].chars, b)'
        BY InListIs, Zenon
      <4>2. PICK q : q = gattServices[s].chars
        OBVIOUS
      <4>3. PICK i \in DOMAIN q : q[i] = b \/ \E j \in DOMAIN attrs'[q[i]].descs : attrs'[q[i]].descs[j] = b
        BY <2>2, <4>1, <4>2, Zenon DEF Holds
      <4>4. s \in DOMAIN gattServices /\ q[i] \in Blocks
        BY <2>2, <4>2, <1>0 DEF Allocated
      <4>5. q[i] = b \/ \E j \in DOMAIN attrs[q[i]].descs : attrs[q[i]].descs[j] = b
        BY <4>3, <4>4, <2>17, <2>20, <3>2
      <4>6. Holds(q, b)
        BY <4>5, Zenon DEF Holds
      <4>7. InList(b)
        BY <4>2, <4>4, <4>6, InListIs, Zenon
      <4>8. cause = {} /\ attrs'[b].live = attrs[b].live
        BY <2>2, <2>16, <3>2 DEF Grows
      <4> QED BY <4>7, <4>8, <3>2 DEF GtInv, Live
    <3> QED BY <3>1, <3>2, <2>17
  <2> QED BY <2>18, <2>19, <2>21, <2>22, <2>23, <2>24 DEF GtInv
<1> QED BY <1>2, <1>3

-----------------------------------------------------------------------------
(* The server: taking a service away.                                      *)

\* What _free_service leaves of the list.
LEMMA FreedList ==
  ASSUME GtTypes, NEW svc \in GattNums,
         gattServices' = IF svc >= Len(gattServices) THEN gattServices
                         ELSE SubSeq(gattServices, 1, svc) \o SubSeq(gattServices, svc + 2, Len(gattServices))
  PROVE  /\ svc >= Len(gattServices) => gattServices' = gattServices
         /\ svc < Len(gattServices) =>
              /\ gattServices' \in Seq(Serv) /\ Len(gattServices') = Len(gattServices) - 1
              /\ DOMAIN gattServices' = 1..(Len(gattServices) - 1)
              /\ \A i \in 1..svc : gattServices'[i] = gattServices[i]
              /\ \A i \in (svc + 1)..(Len(gattServices) - 1) : gattServices'[i] = gattServices[i + 1]
<1>1. svc \in Nat /\ gattServices \in Seq(Serv) /\ Len(gattServices) \in Nat
  BY LenProperties DEF GattNums, GtTypes
<1>2. CASE svc >= Len(gattServices)
  BY <1>1, <1>2
<1>3. CASE svc < Len(gattServices)
  <2>1. PICK p : p = SubSeq(gattServices, 1, svc)
    OBVIOUS
  <2>2. PICK q : q = SubSeq(gattServices, svc + 2, Len(gattServices))
    OBVIOUS
  <2>3. PICK n \in Nat : n = Len(gattServices)
    BY <1>1
  <2>4. gattServices' = p \o q
    <3>1. ~(svc >= Len(gattServices))
      BY <1>1, <1>3
    <3> QED BY <3>1, <2>1, <2>2, Zenon
  <2>5. p \in Seq(Serv) /\ Len(p) = svc /\ \A i \in 1..svc : p[i] = gattServices[i]
    BY <1>1, <1>3, <2>1, CutParts
  <2>6. q \in Seq(Serv) /\ Len(q) = n - svc - 1 /\ \A i \in 1..(n - svc - 1) : q[i] = gattServices[svc + 1 + i]
    BY <1>1, <1>3, <2>2, <2>3, CutParts
  <2>7. /\ p \o q \in Seq(Serv) /\ Len(p \o q) = n - 1 /\ DOMAIN (p \o q) = 1..(n - 1)
        /\ \A i \in 1..svc : (p \o q)[i] = gattServices[i]
        /\ \A i \in (svc + 1)..(n - 1) : (p \o q)[i] = gattServices[i + 1]
    BY <1>1, <1>3, <2>3, <2>5, <2>6, CutOut
  <2>8. ~(svc >= Len(gattServices))
    BY <1>1, <1>3
  <2> QED BY <2>3, <2>4, <2>7, <2>8, Zenon
<1> QED BY <1>1, <1>2, <1>3

\* Every service left is one that was there, and no two are the same.
LEMMA LeftInList ==
  ASSUME GtTypes, Allocated, NEW svc \in GattNums,
         gattServices' = IF svc >= Len(gattServices) THEN gattServices
                         ELSE SubSeq(gattServices, 1, svc) \o SubSeq(gattServices, svc + 2, Len(gattServices))
  PROVE  /\ gattServices' \in Seq(Serv)
         /\ \E f : /\ \A i \in DOMAIN gattServices' : f[i] \in DOMAIN gattServices /\ gattServices'[i] = gattServices[f[i]]
                   /\ \A i, j \in DOMAIN gattServices' : f[i] = f[j] => i = j
                   /\ \A i \in DOMAIN gattServices' : svc >= Len(gattServices) - 1 => f[i] = i
                   /\ \A i \in DOMAIN gattServices' : i > 1 => f[i] > 1
<1>0. svc \in Nat /\ gattServices \in Seq(Serv) /\ Len(gattServices) \in Nat
      /\ DOMAIN gattServices = 1..Len(gattServices)
  BY Shapes DEF GattNums, GtTypes
<1> DEFINE n == Len(gattServices)
<1>1. CASE svc >= n
  <2> DEFINE f == [i \in 1..n |-> i]
  <2>1. gattServices' = gattServices
    BY <1>1, FreedList
  <2>2. \A i \in DOMAIN gattServices : f[i] = i
    BY <1>0
  <2> HIDE DEF f
  <2>3. /\ \A i \in DOMAIN gattServices' : f[i] \in DOMAIN gattServices /\ gattServices'[i] = gattServices[f[i]]
        /\ \A i, j \in DOMAIN gattServices' : f[i] = f[j] => i = j
        /\ \A i \in DOMAIN gattServices' : svc >= Len(gattServices) - 1 => f[i] = i
        /\ \A i \in DOMAIN gattServices' : i > 1 => f[i] > 1
    BY <2>1, <2>2
  <2> QED BY <1>0, <2>1, <2>3
<1>2. CASE svc < n
  <2> DEFINE f == [i \in 1..n |-> IF i <= svc THEN i ELSE i + 1]
  <2>1. /\ gattServices' \in Seq(Serv) /\ DOMAIN gattServices' = 1..(n - 1)
        /\ \A i \in 1..svc : gattServices'[i] = gattServices[i]
        /\ \A i \in (svc + 1)..(n - 1) : gattServices'[i] = gattServices[i + 1]
    BY <1>2, FreedList
  <2>2. \A i \in 1..(n - 1) : f[i] = IF i <= svc THEN i ELSE i + 1
    BY <1>0
  <2> HIDE DEF f
  <2>3. ASSUME NEW i \in DOMAIN gattServices'
        PROVE  /\ f[i] \in DOMAIN gattServices /\ gattServices'[i] = gattServices[f[i]]
               /\ svc >= n - 1 => f[i] = i
               /\ i > 1 => f[i] > 1
    <3>0. i \in 1..(n - 1)
      BY <2>1, Zenon
    <3>1. i \in 1..(n - 1) /\ n \in Nat /\ i \in Nat
      <4>1. n \in Nat
        BY <1>0
      <4> QED BY <3>0, <4>1
    <3>2. CASE i <= svc
      <4>1. i \in 1..svc /\ f[i] = i /\ i \in 1..n
        BY <3>1, <3>2, <1>0, <2>2
      <4> QED BY <4>1, <2>1, <1>0
    <3>3. CASE i > svc
      <4>1. i \in (svc + 1)..(n - 1) /\ f[i] = i + 1 /\ i + 1 \in 1..n /\ ~(svc >= n - 1)
        BY <3>1, <3>3, <1>0, <2>2
      <4>2. i > 1 => i + 1 > 1
        BY <3>1
      <4> QED BY <4>1, <4>2, <2>1, <1>0
    <3>4. i <= svc \/ i > svc
      BY <3>1, <1>0
    <3> QED BY <3>2, <3>3, <3>4, Zenon
  <2>4. ASSUME NEW i \in DOMAIN gattServices', NEW j \in DOMAIN gattServices', f[i] = f[j] PROVE i = j
    <3>0. i \in 1..(n - 1) /\ j \in 1..(n - 1)
      BY <2>1, Zenon
    <3>1. i \in 1..(n - 1) /\ j \in 1..(n - 1) /\ n \in Nat
      BY <3>0, <1>0
    <3>2. (IF i <= svc THEN i ELSE i + 1) = (IF j <= svc THEN j ELSE j + 1)
      BY <3>1, <2>2, <2>4
    <3> QED BY <3>1, <3>2, <1>0
  <2> QED BY <2>1, <2>3, <2>4
<1>3. svc >= n \/ svc < n
  BY <1>0
<1> QED BY <1>1, <1>2, <1>3

LEMMA FreedBlocks ==
  ASSUME GtTypes, Allocated, NEW freed,
         attrs' = [b \in Blocks |-> [attrs[b] EXCEPT !.live = @ /\ b \notin freed]]
  PROVE  /\ attrs' \in Seq(AttrSet) /\ Len(attrs') = Len(attrs)
         /\ \A b \in Blocks : /\ attrs'[b].path = attrs[b].path /\ attrs'[b].descs = attrs[b].descs
                              /\ attrs'[b].value = attrs[b].value /\ attrs'[b].seen = attrs[b].seen
                              /\ b \notin freed => attrs'[b].live = attrs[b].live
<1>1. Len(attrs) \in Nat /\ \A b \in Blocks : attrs[b] \in AttrSet
  BY Shapes
<1>2. ASSUME NEW b \in Blocks
      PROVE  /\ attrs'[b] \in AttrSet
             /\ attrs'[b].path = attrs[b].path /\ attrs'[b].descs = attrs[b].descs
             /\ attrs'[b].value = attrs[b].value /\ attrs'[b].seen = attrs[b].seen
             /\ b \notin freed => attrs'[b].live = attrs[b].live
  <2>1. PICK x \in BOOLEAN : x <=> (attrs[b].live /\ b \notin freed)
    OBVIOUS
  <2>2. attrs[b] \in AttrSet /\ attrs[b].live \in BOOLEAN
    BY <1>1 DEF AttrSet
  <2>3. attrs'[b] = [attrs[b] EXCEPT !.live = x]
    BY <2>1
  <2>4. x = (attrs[b].live /\ b \notin freed)
    BY <2>1, Zenon
  <2>5. b \notin freed => x = attrs[b].live
    BY <2>1, <2>2, Zenon
  <2> QED BY <2>2, <2>3, <2>5 DEF AttrSet
<1>3. attrs' \in [1..Len(attrs) -> AttrSet]
  BY <1>2 DEF Blocks
<1>4. attrs' \in Seq(AttrSet) /\ Len(attrs') = Len(attrs)
  BY <1>1, <1>3, IsASeq, LenProperties
<1> QED BY <1>2, <1>4

LEMMA NumIsNat == GattNums \subseteq Nat
BY DEF GattNums

\* What unregistering leaves when nothing has gone wrong before or now.
LEMMA UnregisterKeeps ==
  ASSUME GtInv, NEW svc \in GattNums, <<svc>> \in handed, bt_gatt_unregister_service(svc)
  PROVE  GtInv'
<1> DEFINE n == Len(gattServices)
           gone == IF svc < n THEN {gattServices[svc + 1].chars[i] : i \in DOMAIN gattServices[svc + 1].chars} ELSE {}
           freed == gone \cup UNION {{attrs[b].descs[j] : j \in DOMAIN attrs[b].descs} : b \in gone}
<1>0. GtTypes /\ Allocated /\ OwnPaths /\ Len(attrs) \in Nat /\ n \in Nat /\ svc \in Nat
      /\ DOMAIN gattServices = 1..n
  BY Shapes DEF GtInv, GattNums
<1>1. /\ gattServices' = IF svc >= n THEN gattServices
                         ELSE SubSeq(gattServices, 1, svc) \o SubSeq(gattServices, svc + 2, n)
      /\ attrs' = [b \in Blocks |-> [attrs[b] EXCEPT !.live = @ /\ b \notin freed]]
      /\ cause' = cause
           \cup (IF svc < n - 1 THEN {"shifted"} ELSE {})
           \cup (IF \E r \in requests : r.block \in freed THEN {"orphaned"} ELSE {})
           \cup (IF svc \in asked THEN {"unregistered while asked"} ELSE {})
      /\ handed' = {id \in handed : id[1] # svc}
      /\ UNCHANGED <<objects, asked, requests, asks, served, gattFault>>
  BY Zenon DEF bt_gatt_unregister_service, _free_service
<1>2. cause' = {} => /\ cause = {} /\ ~(svc < n - 1) /\ svc \notin asked
                     /\ \A r \in requests : r.block \notin freed
  BY <1>1
<1>3. cause \subseteq cause' /\ ("shifted" \notin cause' => "shifted" \notin cause /\ ~(svc < n - 1))
  BY <1>1
<1>4. cause = {} /\ svc > 0 => freed = {}
  <2> SUFFICES ASSUME cause = {}, svc > 0 PROVE gone = {}
    OBVIOUS
  <2>1. svc < n => svc + 1 \in DOMAIN gattServices /\ svc + 1 > 1
    BY <1>0
  <2>2. svc < n => gattServices[svc + 1].chars = <<>>
    BY <2>1 DEF GtInv, Named
  <2>3. svc < n => DOMAIN gattServices[svc + 1].chars = {}
    BY <2>2
  <2> QED BY <2>3
<1> HIDE DEF gone, freed
<1>5. PICK f : /\ \A i \in DOMAIN gattServices' : f[i] \in DOMAIN gattServices /\ gattServices'[i] = gattServices[f[i]]
               /\ \A i, j \in DOMAIN gattServices' : f[i] = f[j] => i = j
               /\ \A i \in DOMAIN gattServices' : svc >= n - 1 => f[i] = i
               /\ \A i \in DOMAIN gattServices' : i > 1 => f[i] > 1
  BY <1>0, <1>1, LeftInList
<1>6. gattServices' \in Seq(Serv)
  BY <1>0, <1>1, LeftInList
<1>7. /\ attrs' \in Seq(AttrSet) /\ Len(attrs') = Len(attrs)
      /\ \A b \in Blocks : /\ attrs'[b].path = attrs[b].path /\ attrs'[b].descs = attrs[b].descs
                           /\ attrs'[b].value = attrs[b].value /\ attrs'[b].seen = attrs[b].seen
                           /\ b \notin freed => attrs'[b].live = attrs[b].live
  BY <1>0, <1>1, FreedBlocks
<1>8. Blocks' = Blocks
  BY <1>7 DEF Blocks
<1>9. GtTypes'
  BY <1>0, <1>1, <1>6, <1>7 DEF GtTypes
<1>10. Allocated'
  <2>1. ASSUME NEW i \in DOMAIN gattServices', NEW j \in DOMAIN gattServices'[i].chars
        PROVE  gattServices'[i].chars[j] \in Blocks
    <3>1. f[i] \in DOMAIN gattServices /\ gattServices'[i] = gattServices[f[i]]
      BY <1>5
    <3> QED BY <3>1, <1>0 DEF Allocated
  <2>2. \A b \in Blocks : \A j \in DOMAIN attrs'[b].descs : attrs'[b].descs[j] \in Blocks
    BY <1>0, <1>7 DEF Allocated
  <2>3. \A r \in requests : r.block \in Blocks /\ (r.type = "WRITE" => r.value \in GattValues)
    BY <1>0 DEF Allocated
  <2>4. requests' = requests
    BY <1>1
  <2> QED BY <2>1, <2>2, <2>3, <2>4, <1>8, Zenon DEF Allocated
<1>11. Numbered' /\ FaultHasCause'
  BY <1>1, <1>3 DEF GtInv, Numbered, FaultHasCause
<1>12. ValueIsShown'
  BY <1>7, <1>8 DEF GtInv, ValueIsShown
<1>13. OwnPaths'
  <2>1. (\A b \in Blocks : attrs'[b].path \in objects) /\ (\A b, c \in Blocks : attrs'[b].path = attrs'[c].path => b = c)
    BY <1>0, <1>7 DEF OwnPaths
  <2>2. \A i \in DOMAIN gattServices' : <<gattServices'[i].num>> \in objects
    BY <1>0, <1>5 DEF OwnPaths
  <2>3. ASSUME NEW i \in DOMAIN gattServices', NEW j \in DOMAIN gattServices', gattServices'[i].num = gattServices'[j].num
        PROVE  i = j
    <3>1. f[i] = f[j]
      BY <1>0, <1>5, <2>3 DEF OwnPaths
    <3> QED BY <1>5, <3>1
  <2>4. objects' = objects
    BY <1>1
  <2> QED BY <1>8, <2>1, <2>2, <2>3, <2>4, Zenon DEF OwnPaths
<1>14. PositionIsPath'
  <2> SUFFICES ASSUME "shifted" \notin cause', NEW i \in DOMAIN gattServices'
      PROVE  gattServices'[i].num = i - 1
    BY DEF PositionIsPath
  <2>1. "shifted" \notin cause /\ svc >= n - 1
    BY <1>0, <1>3
  <2>2. f[i] = i /\ i \in DOMAIN gattServices /\ gattServices'[i] = gattServices[i]
    BY <1>5, <2>1
  <2> QED BY <2>1, <2>2 DEF GtInv, PositionIsPath
<1>15. ASSUME cause' = {}
       PROVE  /\ cause = {} /\ svc = n - 1 /\ svc \notin asked
              /\ Len(gattServices') = svc /\ DOMAIN gattServices' = 1..svc
              /\ \A i \in DOMAIN gattServices' : i \in DOMAIN gattServices /\ gattServices'[i] = gattServices[i]
  <2>1. svc < n
    <3>1. cause = {} /\ svc \in Nat
      BY <1>0, <1>2, <1>15
    <3> QED BY <3>1, Zenon DEF GtInv, Named
  <2>2. svc = n - 1
    <3>1. ~(svc < n - 1) /\ svc \in Nat /\ n \in Nat
      BY <1>0, <1>2, <1>15
    <3> QED BY <3>1, <2>1
  <2>3. Len(gattServices') = n - 1 /\ DOMAIN gattServices' = 1..(n - 1)
    BY <1>0, <1>1, <2>1, FreedList
  <2>4. \A i \in DOMAIN gattServices' : f[i] = i
    BY <1>0, <1>5, <2>2
  <2> QED BY <1>2, <1>5, <1>15, <2>2, <2>3, <2>4
<1>16. Named'
  <2> SUFFICES ASSUME cause' = {}
      PROVE  /\ \A i \in DOMAIN gattServices' : i > 1 => gattServices'[i].chars = <<>>
             /\ \A s \in Nat : <<s>> \in handed' => s < svc
             /\ \A s, c \in Nat : <<s, c>> \in handed' => s = 0 /\ svc > 0 /\ c < Len(gattServices'[1].chars)
             /\ \A s, c, d \in Nat : <<s, c, d>> \in handed' => s = 0 /\ svc > 0
             /\ \A s \in asked' : s < svc
    BY <1>15 DEF Named
  <2>1. /\ \A i \in DOMAIN gattServices : i > 1 => gattServices[i].chars = <<>>
        /\ \A s \in Nat : <<s>> \in handed => s < n
        /\ \A s, c \in Nat : <<s, c>> \in handed => s = 0 /\ n > 0 /\ c < Len(gattServices[1].chars)
        /\ \A s, c, d \in Nat : <<s, c, d>> \in handed => s = 0 /\ n > 0
        /\ \A s \in asked : s < n
    BY <1>15 DEF GtInv, Named
  <2>2. \A i \in DOMAIN gattServices' : i > 1 => gattServices'[i].chars = <<>>
    BY <1>15, <2>1
  <2>3. \A id \in handed' : id \in handed /\ id[1] # svc
    BY <1>1
  <2>4. ASSUME NEW s \in Nat, <<s>> \in handed' PROVE s < svc
    <3>1. s < n /\ s # svc
      BY <2>1, <2>3, <2>4
    <3>2. n \in Int /\ svc \in Int
      BY <1>0
    <3> QED BY <3>1, <3>2, <1>15, BelowLast, Zenon
  <2>5. ASSUME NEW s \in Nat, NEW c \in Nat, <<s, c>> \in handed'
        PROVE  s = 0 /\ svc > 0 /\ c < Len(gattServices'[1].chars)
    <3>1. s = 0 /\ s # svc /\ c < Len(gattServices[1].chars)
      BY <2>1, <2>3, <2>5
    <3>2. svc > 0 /\ 1 \in 1..svc
      BY <3>1, <1>0
    <3>3. gattServices'[1] = gattServices[1]
      BY <3>2, <1>15
    <3> QED BY <3>1, <3>2, <3>3
  <2>6. ASSUME NEW s \in Nat, NEW c \in Nat, NEW d \in Nat, <<s, c, d>> \in handed' PROVE s = 0 /\ svc > 0
    <3>1. s = 0 /\ s # svc
      BY <2>1, <2>3, <2>6
    <3> QED BY <3>1, <1>0
  <2>7. ASSUME NEW s \in asked' PROVE s < svc
    <3>1. s \in asked /\ s \in Nat /\ s # svc /\ s < n
      <4>1. s \in asked /\ s # svc
        BY <1>1, <1>15, <2>7
      <4>2. s \in Nat
        BY <4>1, <1>0, NumIsNat DEF GtTypes
      <4> QED BY <4>1, <4>2, <2>1, Zenon
    <3> QED BY <3>1, <1>15, <1>0
  <2> QED BY <2>2, <2>4, <2>5, <2>6, <2>7
<1>17. Live'
  <2> SUFFICES ASSUME cause' = {}
      PROVE  /\ \A b \in Blocks : InList(b)' => attrs'[b].live
             /\ \A r \in requests : attrs'[r.block].live
    BY <1>1, <1>8 DEF Live
  <2>1. cause = {} /\ \A r \in requests : r.block \notin freed
    BY <1>2
  <2>2. ASSUME NEW r \in requests PROVE attrs'[r.block].live
    BY <2>1, <1>0, <1>7 DEF GtInv, Live, Allocated
  <2>3. ASSUME NEW b \in Blocks, InList(b)' PROVE attrs'[b].live
    <3>1. PICK s \in DOMAIN gattServices' : Holds(gattServices[s].chars, b)'
      BY <2>3, InListIs, Zenon
    <3>2. s \in DOMAIN gattServices /\ gattServices'[s] = gattServices[s] /\ svc > 0
      BY <1>0, <1>15
    <3>3. freed = {}
      BY <1>4, <2>1, <3>2
    <3>4. PICK q : q = gattServices[s].chars
      OBVIOUS
    <3>5. PICK i \in DOMAIN q : q[i] = b \/ \E j \in DOMAIN attrs'[q[i]].descs : attrs'[q[i]].descs[j] = b
      BY <3>1, <3>2, <3>4, Zenon DEF Holds
    <3>6. attrs'[q[i]].descs = attrs[q[i]].descs
      BY <3>2, <3>4, <1>0, <1>7 DEF Allocated
    <3>7. Holds(q, b)
      BY <3>5, <3>6, Zenon DEF Holds
    <3>8. InList(b)
      BY <3>2, <3>4, <3>7, InListIs, Zenon
    <3> QED BY <3>3, <3>8, <2>1, <1>7 DEF GtInv, Live
  <2> QED BY <2>2, <2>3
<1> QED BY <1>9, <1>10, <1>11, <1>12, <1>13, <1>14, <1>16, <1>17 DEF GtInv

LEMMA RegisterServiceKeeps ==
  ASSUME GtInv, NEW svc \in GattNums, <<svc>> \in handed, bt_gatt_register_service(svc)
  PROVE  GtInv'
<1>1. /\ asked' = asked \cup {svc}
      /\ UNCHANGED <<gattServices, attrs, objects, handed, requests, asks, served, gattFault, cause>>
  BY DEF bt_gatt_register_service
<1>2. AttrsAgree /\ asks' \in Nat /\ Numbered' /\ requests' \subseteq ReqSet
  BY <1>1, SameAgrees DEF GtInv, GtTypes, Numbered
<1>3. asked' \subseteq GattNums
  BY <1>1 DEF GtInv, GtTypes
<1>4. cause = {} => \A s \in asked' : s < Len(gattServices)
  BY <1>1 DEF GtInv, Named, GattNums
<1>5. \A r \in requests' : /\ r.block \in Blocks /\ (r.type = "WRITE" => r.value \in GattValues)
                           /\ cause = {} => attrs[r.block].live
  BY <1>1 DEF GtInv, Allocated, Live
<1> QED BY <1>1, <1>2, <1>3, <1>4, <1>5, AgreeKeeps

LEMMA ObjectsReadKeeps ==
  ASSUME GtInv, NEW svc \in asked, _serv_method_call(svc)
  PROVE  GtInv'
<1>0. svc \in Nat /\ Len(gattServices) \in Nat
  BY Shapes DEF GtInv, GtTypes, GattNums
<1>1. CASE svc >= Len(gattServices)
  <2>1. Fault
    BY <1>1, Zenon DEF _serv_method_call
  <2>2. cause # {}
    BY <1>0, <1>1 DEF GtInv, Named
  <2> QED BY <2>1, <2>2, FaultKeeps, Zenon
<1>2. CASE ~(svc >= Len(gattServices))
  <2>1. /\ asked' = asked \ {svc}
        /\ UNCHANGED <<gattServices, attrs, objects, handed, requests, asks, served, gattFault, cause>>
    BY <1>2, Zenon DEF _serv_method_call
  <2>2. AttrsAgree
    BY <2>1, SameAgrees, Zenon DEF GtInv
  <2>3. asks' \in Nat /\ Numbered' /\ requests' \subseteq ReqSet
    BY <2>1, Zenon DEF GtInv, GtTypes, Numbered
  <2>4. asked' \subseteq GattNums /\ (cause = {} => \A s \in asked' : s < Len(gattServices))
    BY <2>1, Zenon DEF GtInv, GtTypes, Named
  <2>5. \A r \in requests' : /\ r.block \in Blocks /\ (r.type = "WRITE" => r.value \in GattValues)
                             /\ cause = {} => attrs[r.block].live
    BY <2>1, Zenon DEF GtInv, Allocated, Live
  <2> QED BY <2>1, <2>2, <2>3, <2>4, <2>5, AgreeKeeps, Zenon
<1> QED BY <1>1, <1>2

-----------------------------------------------------------------------------
(* The server: every step.                                                 *)

LEMMA IdIs ==
  ASSUME GtTypes, NEW id \in handed
  PROVE  /\ Len(id) = 1 => id[1] \in GattNums /\ <<id[1]>> \in handed
         /\ Len(id) = 2 => id[1] \in GattNums /\ id[2] \in Nat /\ <<id[1], id[2]>> \in handed
         /\ Len(id) = 3 => id[1] \in GattNums /\ id[2] \in Nat /\ id[3] \in Nat /\ <<id[1], id[2], id[3]>> \in handed
         /\ Len(id) \in 1..3
<1>1. id \in Handed
  BY DEF GtTypes
<1>2. \/ \E s \in GattNums : id = <<s>>
      \/ \E s \in GattNums, c \in Nat : id = <<s, c>>
      \/ \E s \in GattNums, c, d \in Nat : id = <<s, c, d>>
  BY <1>1 DEF Handed
<1>3. ASSUME NEW s \in GattNums, id = <<s>> PROVE Len(id) = 1 /\ id[1] = s /\ <<id[1]>> \in handed
  BY <1>3
<1>4. ASSUME NEW s \in GattNums, NEW c \in Nat, id = <<s, c>>
      PROVE  Len(id) = 2 /\ id[1] = s /\ id[2] = c /\ <<id[1], id[2]>> \in handed
  BY <1>4
<1>5. ASSUME NEW s \in GattNums, NEW c \in Nat, NEW d \in Nat, id = <<s, c, d>>
      PROVE  Len(id) = 3 /\ id[1] = s /\ id[2] = c /\ id[3] = d /\ <<id[1], id[2], id[3]>> \in handed
  BY <1>5
<1> QED BY <1>2, <1>3, <1>4, <1>5

LEMMA ServiceCallKeeps ==
  ASSUME GtInv, NEW svc \in GattNums, <<svc>> \in handed, os_bt_gatt_service(svc)
  PROVE  GtInv'
BY AddCharacteristicKeeps, RegisterServiceKeeps, UnregisterKeeps DEF os_bt_gatt_service

LEMMA CharacteristicCallKeeps ==
  ASSUME GtInv, NEW svc \in GattNums, NEW chr \in Nat, <<svc, chr>> \in handed, os_bt_gatt_characteristic(svc, chr)
  PROVE  GtInv'
<1>1. _find_chr_list_by_id(svc, chr) = Crash => cause # {}
  <2> SUFFICES ASSUME cause = {} PROVE _find_chr_list_by_id(svc, chr) # Crash
    OBVIOUS
  <2>1. svc = 0 /\ Len(gattServices) > 0
    BY NumIsNat, Zenon DEF GtInv, Named
  <2> QED BY <2>1, FindsCharacteristic, NoBlockIsCrash, Zenon
<1>2. CASE bt_gatt_set_chr_on_read_request(svc, chr)
  BY <1>1, <1>2, SetCallbackKeeps, Zenon DEF bt_gatt_set_chr_on_read_request
<1>3. CASE bt_gatt_set_chr_on_write_request(svc, chr)
  BY <1>1, <1>3, SetCallbackKeeps, Zenon DEF bt_gatt_set_chr_on_write_request
<1>4. CASE bt_gatt_add_descriptor(svc, chr)
  BY <1>4, AddDescriptorKeeps
<1>5. ASSUME NEW v \in GattValues, bt_gatt_notify(svc, chr, v) PROVE GtInv'
  BY <1>1, <1>5, NotifyKeeps, Zenon
<1> QED BY <1>2, <1>3, <1>4, <1>5, Zenon DEF os_bt_gatt_characteristic

LEMMA DescriptorCallKeeps ==
  ASSUME GtInv, NEW svc \in GattNums, NEW chr \in Nat, NEW d \in Nat, <<svc, chr, d>> \in handed,
         os_bt_gatt_descriptor(svc, chr, d)
  PROVE  GtInv'
<1>1. _find_desc_list_by_id(svc, chr, d) = Crash => cause # {}
  <2> SUFFICES ASSUME cause = {} PROVE _find_desc_list_by_id(svc, chr, d) # Crash
    OBVIOUS
  <2>1. svc = 0 /\ Len(gattServices) > 0
    BY NumIsNat, Zenon DEF GtInv, Named
  <2> QED BY <2>1, FindsDescriptor, Zenon
<1>2. CASE bt_gatt_set_desc_on_read_request(svc, chr, d)
  BY <1>1, <1>2, SetCallbackKeeps, Zenon DEF bt_gatt_set_desc_on_read_request
<1>3. CASE bt_gatt_set_desc_on_write_request(svc, chr, d)
  BY <1>1, <1>3, SetCallbackKeeps, Zenon DEF bt_gatt_set_desc_on_write_request
<1> QED BY <1>2, <1>3, Zenon DEF os_bt_gatt_descriptor

LEMMA GtStep == GtInv /\ [GattNext]_gattVars => GtInv'
<1> SUFFICES ASSUME GtInv, [GattNext]_gattVars PROVE GtInv'
  OBVIOUS
<1>0. GtTypes
  BY DEF GtInv
<1>1. CASE UNCHANGED gattVars
  <2>1. UNCHANGED <<gattServices, attrs, objects, handed, asked, requests, asks, served, gattFault, cause>>
    BY <1>1 DEF gattVars
  <2>2. AttrsAgree /\ asks' \in Nat /\ Numbered' /\ requests' \subseteq requests
    BY <2>1, SameAgrees DEF GtInv, GtTypes, Numbered
  <2> QED BY <2>1, <2>2, RequestsStay
<1>2. CASE bt_gatt_add_service
  BY <1>2, AddServiceKeeps
<1>3. ASSUME NEW id \in handed, Len(id) = 1, os_bt_gatt_service(id[1]) PROVE GtInv'
  BY <1>0, <1>3, IdIs, ServiceCallKeeps
<1>4. ASSUME NEW id \in handed, Len(id) = 2, os_bt_gatt_characteristic(id[1], id[2]) PROVE GtInv'
  BY <1>0, <1>4, IdIs, CharacteristicCallKeeps
<1>5. ASSUME NEW id \in handed, Len(id) = 3, os_bt_gatt_descriptor(id[1], id[2], id[3]) PROVE GtInv'
  BY <1>0, <1>5, IdIs, DescriptorCallKeeps
<1>6. ASSUME NEW r \in requests, GattAnswers(r) PROVE GtInv'
  BY <1>6, SetValueKeeps, SetResultKeeps DEF GattAnswers
<1>7. ASSUME NEW svc \in asked, _serv_method_call(svc) PROVE GtInv'
  BY <1>7, ObjectsReadKeeps, Zenon
<1>8. ASSUME NEW path \in objects, _char_method_call(path) \/ _desc_method_call(path) PROVE GtInv'
  BY <1>8, ReadKeeps, WriteKeeps, Zenon DEF _char_method_call, _desc_method_call
<1> QED BY <1>1, <1>2, <1>3, <1>4, <1>5, <1>6, <1>7, <1>8, Zenon DEF GattNext, artik_bluetooth_gatt

LEMMA GtInit == GattInit => GtInv
<1> SUFFICES ASSUME GattInit PROVE GtInv
  OBVIOUS
<1> USE DEF GattInit
<1>1. Len(gattServices) = 0 /\ DOMAIN gattServices = {} /\ Len(attrs) = 0 /\ Blocks = {} /\ 1..asks = {}
  BY DEF Blocks
<1>2. GtTypes
  <2>1. gattServices \in Seq(Serv) /\ attrs \in Seq(AttrSet)
    OBVIOUS
  <2>2. handed \subseteq Handed /\ asked \subseteq GattNums /\ requests \subseteq ReqSet
    OBVIOUS
  <2> QED BY <2>1, <2>2 DEF GtTypes
<1>3. Allocated /\ OwnPaths /\ PositionIsPath /\ ValueIsShown
  BY <1>1 DEF Allocated, OwnPaths, PositionIsPath, ValueIsShown
<1>4. Numbered /\ FaultHasCause /\ Named /\ Live
  BY <1>1 DEF Numbered, FaultHasCause, Named, Live
<1> QED BY <1>2, <1>3, <1>4 DEF GtInv

LEMMA GtInvSound == GtInv => GattTypeOK /\ PathsDistinct /\ PositionIsPath /\ FaultHasCause /\ ValueIsShown
<1> SUFFICES ASSUME GtInv PROVE GattTypeOK /\ PathsDistinct
  BY DEF GtInv
<1>1. GtTypes /\ Allocated /\ OwnPaths /\ Numbered
      /\ (\A b \in Blocks : attrs[b] \in AttrSet) /\ \A i \in DOMAIN gattServices : gattServices[i] \in Serv
  BY Shapes DEF GtInv
<1>2. \A i \in DOMAIN gattServices :
        /\ gattServices[i].num \in 0..(MaxServices - 1)
        /\ \A j \in DOMAIN gattServices[i].chars : gattServices[i].chars[j] \in Blocks
  BY <1>1 DEF Allocated, Serv, GattNums
<1>3. \A b \in Blocks : attrs[b].value \in GattValues /\ attrs[b].cbs \subseteq {"read", "write"}
  BY <1>1 DEF AttrSet
<1>4. \A id \in handed : Len(id) \in 1..3
  BY <1>1, IdIs
<1>5. GattTypeOK
  BY <1>1, <1>2, <1>3, <1>4 DEF GattTypeOK, GtTypes, GattNums, Numbered
<1>6. ASSUME NEW path PROVE Cardinality(Find(path)) <= 1
  <2>1. \A b, c \in Find(path) : b = c
    BY <1>1 DEF Find, OwnPaths
  <2>2. CASE Find(path) = {}
    BY <2>2, FS_EmptySet
  <2>3. ASSUME NEW b \in Find(path) PROVE Cardinality(Find(path)) <= 1
    <3>1. Find(path) = {b}
      BY <2>1
    <3>2. Cardinality(Find(path)) = 1
      BY <3>1, FS_Singleton, Zenon
    <3> QED BY <3>2
  <2> QED BY <2>2, <2>3
<1>7. PathsDistinct
  BY <1>1, <1>6 DEF PathsDistinct, OwnPaths
<1> QED BY <1>5, <1>7

\* The GATT server keeps a path for each service and block, and an
\* application that takes services away last first meets no freed memory;
\* the client keeps a client for what is wanted and delivers it once, for any
\* number of services, blocks, requests, devices and signals
\* (gatt_server.c, gatt_client.c).
THEOREM GattIsSound == GattSpec /\ GattClientSpec => []GattSound
<1>1. GattSpec => []GtInv
  BY GtInit, GtStep, PTL DEF GattSpec
<1>2. GattClientSpec => []CliInv
  BY CliInit, CliStep, PTL DEF GattClientSpec
<1>3. GtInv /\ CliInv => GattSound
  BY GtInvSound DEF GattSound, CliInv
<1> QED BY <1>1, <1>2, <1>3, PTL

=============================================================================
