------------------------------ MODULE BtAgent ------------------------------
(***************************************************************************)
(* bluetooth: the pairing agent (agent.c) and the serial port profile      *)
(* (spp.c).  Each is an object this process exports and a registration     *)
(* BlueZ keeps of it.  The agent exports first and registers then, the     *)
(* profile the other way round.  BlueZ may refuse, restart (it forgets     *)
(* every registration, the objects stay) and call what it knows of at any  *)
(* time; what it calls waits for the main loop, and a call of an object    *)
(* that is not exported is refused by GDBus without asking this code.      *)
(***************************************************************************)
EXTENDS Integers, FiniteSets

CONSTANTS
  MaxAgentReqs,   \* requests BlueZ makes of the agent
  MaxSppCalls     \* calls BlueZ makes of the profile

ASSUME AgentAssumption == MaxAgentReqs \in Nat /\ MaxSppCalls \in Nat

VARIABLES
  agent,     \* exported, id (agent_registration_id names it), known to BlueZ
  agentCb,   \* the application's callbacks replace the default ones
  asking,    \* requests of BlueZ the main loop has to dispatch
  held,      \* requests the application has to answer
  agentDone, \* how often each request was answered
  spp,       \* exported, id, known to BlueZ
  sppStep,   \* bt_spp_register_profile is between its two steps
  sppServer, \* _spp_server, allocated or NULL
  sppCalls,  \* calls of BlueZ the main loop has to dispatch
  sppLost,   \* how many calls of BlueZ found no object
  sppFault,  \* _spp_server was NULL when a handler used it
  agentCause \* what happened that may leave an object behind

agentVars == <<agent, agentCb, asking, held, agentDone, spp, sppStep, sppServer,
               sppCalls, sppLost, sppFault, agentCause>>

AgentPart == <<agent, agentCb, asking, held, agentDone>>
SppPart == <<spp, sppStep, sppServer, sppCalls, sppLost, sppFault>>

Off == [object |-> FALSE, id |-> FALSE, known |-> FALSE]

AgentInit ==
  /\ agent = Off /\ agentCb = FALSE
  /\ asking = {} /\ held = {} /\ agentDone = [r \in 1..MaxAgentReqs |-> 0]
  /\ spp = Off /\ sppStep = "none" /\ sppServer = FALSE
  /\ sppCalls = 0 /\ sppLost = 0 /\ sppFault = FALSE
  /\ agentCause = {}

\* The call of bt_spp_register_profile keeps the main loop from dispatching.
Free == sppStep = "none"

\* g_dbus_connection_register_object: a path is exported once.  Where it is
\* already, the id is 0 and names nothing.
Export(o) == IF o.object THEN [o EXCEPT !.id = FALSE] ELSE [o EXCEPT !.object = TRUE, !.id = TRUE]

\* g_dbus_connection_unregister_object.
Unexport(o) == IF o.id THEN [o EXCEPT !.object = FALSE, !.id = FALSE] ELSE o

-----------------------------------------------------------------------------
(* The agent.  It shares nothing with the profile, so that its steps need  *)
(* not wait for those of bt_spp_register_profile.                          *)

\* An export that fails returns before RegisterAgent, with the id lost.
bt_agent_register_capability ==
  /\ \/ /\ agent.object
        /\ agent' = Export(agent)
        /\ agentCause' = agentCause \cup {"agent twice"}
     \/ /\ ~agent.object
        /\ \E refused \in BOOLEAN :
             /\ agent' = [Export(agent) EXCEPT !.known = ~refused]
             /\ agentCause' = IF refused THEN agentCause \cup {"agent refused"} ELSE agentCause
  /\ UNCHANGED <<agentCb, asking, held, agentDone, SppPart>>

\* Mutant: the object is taken away before BlueZ is asked, which may refuse.
UnexportsFirst ==
  /\ agent.known
  /\ \E refused \in BOOLEAN : agent' = [Unexport(agent) EXCEPT !.known = refused]
  /\ UNCHANGED <<agentCb, asking, held, agentDone, SppPart, agentCause>>

\* UnregisterAgent fails for an agent BlueZ does not know: nothing is done.
bt_agent_unregister ==
  /\ agent.known
  /\ agent' = [Unexport(agent) EXCEPT !.known = FALSE]
  /\ UNCHANGED <<agentCb, asking, held, agentDone, SppPart, agentCause>>

\* bt_agent_set_default changes nothing here: BlueZ asks this agent first.
bt_agent_set_default == agent.known /\ UNCHANGED agentVars

bt_agent_set_callback ==
  /\ agentCb' = TRUE
  /\ UNCHANGED <<agent, asking, held, agentDone, SppPart, agentCause>>

send_response(r) == agentDone' = [agentDone EXCEPT ![r] = @ + 1]

\* The application answers with a pincode, a passkey, nothing or an error.
bt_agent_send(r) ==
  /\ r \in held
  /\ held' = held \ {r}
  /\ send_response(r)
  /\ UNCHANGED <<agent, agentCb, asking, SppPart, agentCause>>

\* Mutant: the handle is not given to the application's callback.
DropsHandle(r) ==
  /\ r \in asking
  /\ asking' = asking \ {r}
  /\ IF agent.object /\ agentCb THEN UNCHANGED agentDone ELSE send_response(r)
  /\ UNCHANGED <<agent, agentCb, held, SppPart, agentCause>>

\* GDBus looks again whether the object is still there.  The default
\* callbacks answer at once; Release and Cancel want no answer.
handle_method_call(r) ==
  /\ r \in asking
  /\ asking' = asking \ {r}
  /\ IF agent.object /\ agentCb
     THEN held' = held \cup {r} /\ UNCHANGED agentDone
     ELSE send_response(r) /\ UNCHANGED held
  /\ UNCHANGED <<agent, agentCb, SppPart, agentCause>>

-----------------------------------------------------------------------------
(* The serial port profile.                                                *)

\* RegisterProfile is refused where BlueZ knows the profile.
bt_spp_register_profile ==
  /\ Free
  /\ ~spp.known
  /\ spp' = [spp EXCEPT !.known = TRUE]
  /\ sppStep' = "export"
  /\ UNCHANGED <<AgentPart, sppServer, sppCalls, sppLost, sppFault, agentCause>>

\* Then the object, and _spp_server once it is exported.
_register_spp_object ==
  /\ sppStep = "export"
  /\ sppStep' = "none"
  /\ spp' = Export(spp)
  /\ sppServer' = (sppServer \/ ~spp.object)
  /\ UNCHANGED <<AgentPart, sppCalls, sppLost, sppFault, agentCause>>

\* An object that cannot be taken away keeps its server: E_BT_ERROR.
bt_spp_unregister_profile ==
  /\ Free
  /\ spp.known
  /\ spp' = [Unexport(spp) EXCEPT !.known = FALSE]
  /\ sppServer' = (sppServer /\ ~spp.id)
  /\ agentCause' = IF sppCalls > 0 THEN agentCause \cup {"spp unregistered"} ELSE agentCause
  /\ UNCHANGED <<AgentPart, sppStep, sppCalls, sppLost, sppFault>>

\* Release, NewConnection and RequestDisconnection read _spp_server.
_handle_method_call ==
  /\ Free
  /\ sppCalls > 0
  /\ sppCalls' = sppCalls - 1
  /\ IF spp.object
     THEN sppFault' = (sppFault \/ ~sppServer) /\ UNCHANGED sppLost
     ELSE sppLost' = sppLost + 1 /\ UNCHANGED sppFault
  /\ UNCHANGED <<AgentPart, spp, sppStep, sppServer, agentCause>>

-----------------------------------------------------------------------------
(* BlueZ.                                                                  *)

Asked == asking \cup held \cup {r \in 1..MaxAgentReqs : agentDone[r] > 0}

AgentAsks(r) ==
  /\ agent.known
  /\ r \notin Asked
  /\ asking' = asking \cup {r}
  /\ UNCHANGED <<agent, agentCb, held, agentDone, SppPart, agentCause>>

\* A call that arrives while the object is not exported is refused at once.
SppConnects ==
  /\ spp.known
  /\ sppCalls + sppLost < MaxSppCalls
  /\ IF spp.object
     THEN sppCalls' = sppCalls + 1 /\ UNCHANGED <<sppLost, agentCause>>
     ELSE /\ sppLost' = sppLost + 1
          /\ agentCause' = IF Free THEN agentCause ELSE agentCause \cup {"spp early"}
          /\ UNCHANGED sppCalls
  /\ UNCHANGED <<AgentPart, spp, sppStep, sppServer, sppFault>>

BluezRestarts ==
  /\ agent.known \/ spp.known
  /\ agent' = [agent EXCEPT !.known = FALSE]
  /\ spp' = [spp EXCEPT !.known = FALSE]
  /\ agentCause' = agentCause \cup {"restart"}
  /\ UNCHANGED <<agentCb, asking, held, agentDone, sppStep, sppServer, sppCalls, sppLost, sppFault>>

-----------------------------------------------------------------------------
os_bt_agent ==
  \/ bt_agent_register_capability \/ bt_agent_unregister \/ bt_agent_set_default
  \/ bt_agent_set_callback
  \/ \E r \in 1..MaxAgentReqs : bt_agent_send(r)

os_bt_spp == bt_spp_register_profile \/ bt_spp_unregister_profile

AgentApplication == os_bt_agent \/ os_bt_spp

AgentNext ==
  \/ AgentApplication
  \/ _register_spp_object \/ _handle_method_call
  \/ \E r \in 1..MaxAgentReqs : handle_method_call(r) \/ AgentAsks(r)
  \/ SppConnects \/ BluezRestarts

\* The main loop runs, and the application answers what it holds.
AgentFairness ==
  /\ WF_agentVars(_register_spp_object)
  /\ \A r \in 1..MaxAgentReqs : WF_agentVars(handle_method_call(r)) /\ WF_agentVars(bt_agent_send(r))

AgentSpec == AgentInit /\ [][AgentNext]_agentVars /\ AgentFairness

-----------------------------------------------------------------------------
(* The kinds of the variables; a request is in one place.                  *)
AgentTypeOK ==
  /\ agent \in [object : BOOLEAN, id : BOOLEAN, known : BOOLEAN]
  /\ spp \in [object : BOOLEAN, id : BOOLEAN, known : BOOLEAN]
  /\ agentCb \in BOOLEAN /\ sppServer \in BOOLEAN /\ sppFault \in BOOLEAN
  /\ asking \cup held \subseteq 1..MaxAgentReqs /\ asking \cap held = {}
  /\ agentDone \in [1..MaxAgentReqs -> 0..1]
  /\ sppStep \in {"none", "export"}
  /\ sppCalls \in 0..MaxSppCalls /\ sppLost \in 0..MaxSppCalls

(* BlueZ never knows an agent whose object this process does not export,   *)
(* whatever BlueZ refuses and however often the application registers.     *)
KnownAgentExported == agent.known => agent.object

(* An agent object that BlueZ does not know makes every later registration *)
(* fail.  It is left behind only after BlueZ refused or restarted, or      *)
(* after the application registered a second time and the id was lost.     *)
AgentLeftHasCause ==
  agent.object /\ ~agent.known => agentCause \cap {"agent twice", "agent refused", "restart"} # {}

(* Every request of BlueZ is answered exactly once, by the default         *)
(* callbacks or by the application, also when the callbacks are set or the *)
(* agent is unregistered while it waits.                                   *)
RequestAnswered == \A r \in 1..MaxAgentReqs : r \in asking ~> agentDone[r] = 1

(* The handlers of the profile use _spp_server without a test: it is there *)
(* whenever the object is, also after BlueZ restarted and an export failed.*)
SppObjectHasServer == spp.object => sppServer /\ ~sppFault

(* A profile BlueZ knows has its object but for the window between         *)
(* RegisterProfile and the export: a connection BlueZ hands over is        *)
(* refused for want of an object only in that window, or when the profile  *)
(* was unregistered while the call waited for the main loop.               *)
SppLossHasCause ==
  /\ spp.known /\ Free => spp.object
  /\ sppLost > 0 => agentCause \cap {"spp early", "spp unregistered"} # {}

\* An agent BlueZ knows is exported, a profile's object has its server, and a
\* request or connection is lost only in the gaps the parts name (agent.c,
\* spp.c).
AgentSound ==
  /\ AgentTypeOK /\ KnownAgentExported /\ AgentLeftHasCause
  /\ SppObjectHasServer /\ SppLossHasCause

=============================================================================
