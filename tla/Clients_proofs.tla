--------------------------- MODULE Clients_proofs ---------------------------
(***************************************************************************)
(* Proofs about the clients of brokers and management servers: lwm2m on    *)
(* TizenRT (TinyLwm2m) and on Linux (Lwm2m), and mqtt (Mqtt).              *)
(***************************************************************************)
EXTENDS Mqtt, Lwm2m, TinyLwm2m, FiniteSetTheorems, SequenceTheorems, TLAPS

-----------------------------------------------------------------------------
(* TinyLwm2m.  A thread that runs has its node, on the list or about to be *)
(* joined, and a node whose client is stopped is being joined, unless the  *)
(* application did one of the things tyCause names.                        *)

TyNode == [cbs : SUBSET TyEvents, quit : BOOLEAN]
TyPlaces == {"none", "loop", "error", "event", "failed", "stop"}

TyTypes ==
  /\ tyNodes \in [TyLive -> TyNode] /\ TyLive \subseteq TyAddrs
  /\ tyThreads \in [TyAddrs -> TyPlaces]
  /\ tyClients \in [TyAddrs -> {"none", "up", "stopped"}]
  /\ tyRegs \in [TyAddrs -> SUBSET {"execute", "changed"}]
  /\ tyStarts \in Nat /\ tyLeaks \in Nat /\ tyLeaks <= tyStarts
  /\ tyFault \in BOOLEAN

TyAgree ==
  /\ \A a \in TyAddrs : (tyThreads[a] # "none") <=> (tyClients[a] = "up")
  /\ \A a \in TyLive : tyClients[a] # "none"

TyCauses ==
  /\ "in callback" \notin tyCause =>
       /\ \A a \in tyJoin : a \in TyLive
       /\ \A a \in TyAddrs : tyThreads[a] # "none" => a \in TyLive \cup tyJoin
  /\ \A a \in TyLive : tyClients[a] # "up" => a \in tyJoin \/ tyCause # {}
  /\ tyFault => tyCause # {}

TyInv == TyTypes /\ TyAgree /\ TyCauses

LEMMA TyConnectStep ==
  ASSUME TyInv, NEW c, NEW a \in TyAddrs, tiny_client_connect(c, a)
  PROVE  TyInv'
<1>1. /\ a \notin TyLive /\ tyStarts' = tyStarts + 1 /\ UNCHANGED <<tyJoin, tyFault, tyCause>>
  BY DEF tiny_client_connect
<1>2. CASE UNCHANGED <<tyNodes, tyThreads, tyClients, tyRegs>> /\ tyLeaks' \in {tyLeaks, tyLeaks + 1}
  <2>1. TyTypes'
    BY <1>1, <1>2 DEF TyInv, TyTypes, TyLive
  <2> QED BY <1>1, <1>2, <2>1 DEF TyInv, TyAgree, TyCauses, TyLive
<1>3. CASE /\ tyNodes' = [x \in TyLive \cup {a} |-> IF x = a THEN [cbs |-> {}, quit |-> FALSE] ELSE tyNodes[x]]
           /\ tyThreads' = [tyThreads EXCEPT ![a] = "loop"]
           /\ tyClients' = [tyClients EXCEPT ![a] = "up"]
           /\ tyRegs' = [tyRegs EXCEPT ![a] = {}]
           /\ UNCHANGED tyLeaks
  <2>1. TyLive' = TyLive \cup {a}
    BY <1>3 DEF TyLive
  <2>2. tyNodes' \in [TyLive' -> TyNode]
    <3>1. [cbs |-> {}, quit |-> FALSE] \in TyNode
      BY DEF TyNode
    <3> QED BY <1>3, <2>1, <3>1 DEF TyInv, TyTypes
  <2>3. /\ tyThreads' \in [TyAddrs -> TyPlaces]
        /\ tyClients' \in [TyAddrs -> {"none", "up", "stopped"}]
        /\ tyRegs' \in [TyAddrs -> SUBSET {"execute", "changed"}]
    BY <1>3 DEF TyInv, TyTypes, TyPlaces
  <2>4. TyTypes'
    BY <1>1, <1>3, <2>1, <2>2, <2>3 DEF TyInv, TyTypes
  <2>5. TyAgree' /\ TyCauses'
    BY <1>1, <1>3, <2>1 DEF TyInv, TyTypes, TyAgree, TyCauses
  <2> QED BY <2>4, <2>5 DEF TyInv
<1> QED BY <1>2, <1>3 DEF tiny_client_connect

(* The node of an address leaves the list.                                 *)
LEMMA TyDeleted ==
  ASSUME TyTypes, NEW a, TyDelete(a)
  PROVE  TyLive' = TyLive \ {a} /\ tyNodes' \in [TyLive' -> TyNode]
BY DEF TyDelete, TyTypes, TyLive

(* A field of a node is set.                                               *)
LEMMA TyNodeSet ==
  ASSUME TyTypes, NEW a \in TyLive, NEW n \in TyNode, tyNodes' = [tyNodes EXCEPT ![a] = n]
  PROVE  TyLive' = TyLive /\ tyNodes' \in [TyLive' -> TyNode]
BY DEF TyTypes, TyLive

LEMMA TyQuitSet ==
  ASSUME TyTypes, NEW a \in TyLive, tyNodes' = [tyNodes EXCEPT ![a].quit = TRUE]
  PROVE  TyLive' = TyLive /\ tyNodes' \in [TyLive' -> TyNode]
<1> DEFINE n == [tyNodes[a] EXCEPT !.quit = TRUE]
<1>1. n \in TyNode
  BY DEF TyTypes, TyNode
<1>2. tyNodes' = [tyNodes EXCEPT ![a] = n]
  OBVIOUS
<1> QED BY <1>1, <1>2, TyNodeSet

LEMMA TyDisconnectStep ==
  ASSUME TyInv, NEW c, NEW a \in TyAddrs, tiny_client_disconnect(c, a)
  PROVE  TyInv'
<1>1. a \in TyLive /\ UNCHANGED <<tyThreads, tyClients, tyRegs, tyStarts, tyLeaks, tyFault>>
  BY DEF tiny_client_disconnect, TyMay
<1>2. CASE c = a
  <2>1. TyDelete(a) /\ tyCause' = tyCause \cup {"in callback"} /\ UNCHANGED tyJoin
    BY <1>2 DEF tiny_client_disconnect
  <2>2. TyLive' = TyLive \ {a} /\ tyNodes' \in [TyLive' -> TyNode]
    BY <2>1, TyDeleted DEF TyInv
  <2> QED BY <1>1, <2>1, <2>2 DEF TyInv, TyTypes, TyAgree, TyCauses
<1>3. CASE c # a
  <2>1. /\ tyNodes' = [tyNodes EXCEPT ![a].quit = TRUE] /\ tyJoin' = tyJoin \cup {a}
        /\ UNCHANGED tyCause
    BY <1>3 DEF tiny_client_disconnect
  <2>2. TyLive' = TyLive /\ tyNodes' \in [TyLive' -> TyNode]
    BY <1>1, <2>1, TyQuitSet DEF TyInv
  <2> QED BY <1>1, <2>1, <2>2 DEF TyInv, TyTypes, TyAgree, TyCauses
<1> QED BY <1>2, <1>3

LEMMA TyReturnStep ==
  ASSUME TyInv, NEW a \in TyAddrs, DisconnectReturns(a)
  PROVE  TyInv'
<1>1. /\ a \in tyJoin /\ tyThreads[a] = "none" /\ tyJoin' = tyJoin \ {a} /\ ~tyFault
      /\ UNCHANGED <<tyThreads, tyClients, tyRegs, tyStarts, tyLeaks, tyCause>>
  BY DEF DisconnectReturns
<1>2. CASE a \in TyLive
  <2>1. TyDelete(a) /\ UNCHANGED tyFault
    BY <1>2 DEF DisconnectReturns
  <2>2. TyLive' = TyLive \ {a} /\ tyNodes' \in [TyLive' -> TyNode]
    BY <2>1, TyDeleted DEF TyInv
  <2> QED BY <1>1, <2>1, <2>2 DEF TyInv, TyTypes, TyAgree, TyCauses
<1>3. CASE a \notin TyLive
  <2>1. tyFault' = TRUE /\ UNCHANGED tyNodes
    BY <1>3 DEF DisconnectReturns
  <2>2. tyCause # {}
    BY <1>1, <1>3 DEF TyInv, TyCauses
  <2> QED BY <1>1, <1>3, <2>1, <2>2 DEF TyInv, TyTypes, TyAgree, TyCauses, TyLive
<1> QED BY <1>2, <1>3

(* A thread that goes on without its node: the node was deleted in one of  *)
(* the thread's own callbacks.                                             *)
LEMMA TyLostNode ==
  ASSUME TyInv, NEW a \in TyAddrs, tyThreads[a] # "none", a \notin TyLive
  PROVE  "in callback" \in tyCause
BY DEF TyInv, TyCauses

LEMMA TyMoves ==
  ASSUME TyInv, NEW a \in TyAddrs, NEW pc \in TyPlaces \ {"none"}, ThreadTo(a, pc),
         tyThreads[a] # "none", UNCHANGED tyClients
  PROVE  /\ tyThreads' \in [TyAddrs -> TyPlaces]
         /\ \A b \in TyAddrs : (tyThreads'[b] # "none") <=> (tyThreads[b] # "none")
         /\ \A b \in TyAddrs : (tyThreads'[b] # "none") <=> (tyClients'[b] = "up")
BY DEF TyInv, TyTypes, TyAgree, ThreadTo

LEMMA TyServiceStep ==
  ASSUME TyInv, NEW a \in TyAddrs, _lwm2m_service_thread(a)
  PROVE  TyInv'
<1>1. /\ tyThreads[a] = "loop"
      /\ UNCHANGED <<tyNodes, tyClients, tyRegs, tyJoin, tyStarts, tyLeaks, tyCause>>
      /\ TyLive' = TyLive
  BY DEF _lwm2m_service_thread, TyLive
<1>2. CASE a \notin TyLive
  <2>1. tyFault' = TRUE /\ UNCHANGED tyThreads /\ tyCause # {}
    BY <1>1, <1>2, TyLostNode DEF _lwm2m_service_thread
  <2> QED BY <1>1, <2>1 DEF TyInv, TyTypes, TyAgree, TyCauses
<1>3. CASE a \in TyLive
  <2>1. UNCHANGED tyFault /\ (UNCHANGED tyThreads \/ \E pc \in TyPlaces \ {"none"} : ThreadTo(a, pc))
    BY <1>3 DEF _lwm2m_service_thread, TyPlaces
  <2>2. CASE UNCHANGED tyThreads
    BY <1>1, <2>1, <2>2 DEF TyInv, TyTypes, TyAgree, TyCauses
  <2>3. CASE \E pc \in TyPlaces \ {"none"} : ThreadTo(a, pc)
    <3>1. /\ tyThreads' \in [TyAddrs -> TyPlaces]
          /\ \A b \in TyAddrs : (tyThreads'[b] # "none") <=> (tyThreads[b] # "none")
          /\ \A b \in TyAddrs : (tyThreads'[b] # "none") <=> (tyClients'[b] = "up")
      BY <1>1, <2>3, TyMoves
    <3> QED BY <1>1, <2>1, <3>1 DEF TyInv, TyTypes, TyAgree, TyCauses
  <2> QED BY <2>1, <2>2, <2>3
<1> QED BY <1>2, <1>3

(* A callback begins or ends.                                              *)
LEMMA TyCallbackStep ==
  ASSUME TyInv, NEW a \in TyAddrs, CallbackEnds(a) \/ \E e \in TyEvents : on_lwm2m_event(a, e)
  PROVE  TyInv'
<1>1. /\ tyThreads[a] # "none" /\ \E pc \in TyPlaces \ {"none"} : ThreadTo(a, pc)
      /\ UNCHANGED <<tyNodes, tyClients, tyRegs, tyJoin, tyStarts, tyLeaks, tyFault, tyCause>>
      /\ TyLive' = TyLive
  BY DEF CallbackEnds, on_lwm2m_event, TyLive, TyPlaces
<1>2. /\ tyThreads' \in [TyAddrs -> TyPlaces]
      /\ \A b \in TyAddrs : (tyThreads'[b] # "none") <=> (tyThreads[b] # "none")
      /\ \A b \in TyAddrs : (tyThreads'[b] # "none") <=> (tyClients'[b] = "up")
  BY <1>1, TyMoves
<1> QED BY <1>1, <1>2 DEF TyInv, TyTypes, TyAgree, TyCauses

LEMMA TyFailedStep ==
  ASSUME TyInv, NEW a \in TyAddrs, ThreadFailed(a)
  PROVE  TyInv'
<1>1. /\ tyThreads[a] = "failed"
      /\ UNCHANGED <<tyClients, tyRegs, tyJoin, tyStarts, tyLeaks, tyCause>>
  BY DEF ThreadFailed
<1>2. CASE a \notin TyLive
  <2>1. tyFault' = TRUE /\ UNCHANGED <<tyNodes, tyThreads>> /\ tyCause # {}
    BY <1>1, <1>2, TyLostNode DEF ThreadFailed
  <2> QED BY <1>1, <2>1 DEF TyInv, TyTypes, TyAgree, TyCauses, TyLive
<1>3. CASE a \in TyLive
  <2>1. /\ tyNodes' = [tyNodes EXCEPT ![a].quit = TRUE] /\ ThreadTo(a, "stop") /\ UNCHANGED tyFault
    BY <1>3 DEF ThreadFailed
  <2>2. TyLive' = TyLive /\ tyNodes' \in [TyLive' -> TyNode]
    BY <1>3, <2>1, TyQuitSet DEF TyInv
  <2>3. /\ tyThreads' \in [TyAddrs -> TyPlaces]
        /\ \A b \in TyAddrs : (tyThreads'[b] # "none") <=> (tyThreads[b] # "none")
        /\ \A b \in TyAddrs : (tyThreads'[b] # "none") <=> (tyClients'[b] = "up")
    <3>1. "stop" \in TyPlaces \ {"none"}
      BY DEF TyPlaces
    <3> QED BY <1>1, <2>1, <3>1, TyMoves
  <2> QED BY <1>1, <2>1, <2>2, <2>3 DEF TyInv, TyTypes, TyAgree, TyCauses
<1> QED BY <1>2, <1>3

LEMMA TyStopStep ==
  ASSUME TyInv, NEW a \in TyAddrs, ThreadStops(a)
  PROVE  TyInv'
<1>1. /\ tyThreads[a] = "stop" /\ tyThreads' = [tyThreads EXCEPT ![a] = "none"]
      /\ tyClients' = [tyClients EXCEPT ![a] = "stopped"]
      /\ tyFault' = (a \notin TyLive)
      /\ UNCHANGED <<tyNodes, tyRegs, tyJoin, tyStarts, tyLeaks>> /\ TyLive' = TyLive
  BY DEF ThreadStops, ThreadTo, TyLive
<1>2. tyCause \subseteq tyCause' /\ (a \notin tyJoin => tyCause' # {})
      /\ ("in callback" \in tyCause' => "in callback" \in tyCause)
  BY DEF ThreadStops
<1>3. TyTypes' /\ TyAgree'
  BY <1>1 DEF TyInv, TyTypes, TyAgree, TyPlaces
<1>4. tyFault' => tyCause' # {}
  BY <1>1, <1>2, TyLostNode
<1>5. \A b \in TyAddrs : /\ tyThreads'[b] # "none" => tyThreads[b] # "none"
                         /\ b # a => tyClients'[b] = tyClients[b]
  BY <1>1 DEF TyInv, TyTypes
<1>6. ASSUME "in callback" \notin tyCause'
      PROVE  /\ \A b \in tyJoin' : b \in TyLive'
             /\ \A b \in TyAddrs : tyThreads'[b] # "none" => b \in TyLive' \cup tyJoin'
  BY <1>1, <1>2, <1>5, <1>6 DEF TyInv, TyCauses, ThreadStops
<1>7. ASSUME NEW b \in TyLive', tyClients'[b] # "up" PROVE b \in tyJoin' \/ tyCause' # {}
  BY <1>1, <1>2, <1>5, <1>7 DEF TyInv, TyTypes, TyCauses
<1> QED BY <1>3, <1>4, <1>6, <1>7 DEF TyInv, TyCauses

(* Uses of a client: in a stopped one a use is a fault.                    *)
LEMMA TyUseStep ==
  ASSUME TyInv, NEW c, NEW a \in TyAddrs,
         \/ tiny_write_resource(c, a) \/ tiny_read_resource(c, a)
         \/ \E e \in TyEvents : tiny_set_callback(c, a, e) \/ tiny_unset_callback(c, a, e)
  PROVE  TyInv'
<1>1. /\ UsesClient(c, a) /\ UNCHANGED <<tyThreads, tyClients, tyJoin, tyStarts, tyLeaks>>
  BY DEF tiny_write_resource, tiny_read_resource, tiny_set_callback, tiny_unset_callback
<1>2. /\ a \in TyLive /\ tyFault' = (tyClients[a] # "up")
      /\ tyCause \subseteq tyCause' /\ (a \in tyJoin => tyCause' # {})
      /\ ("in callback" \in tyCause' => "in callback" \in tyCause)
  BY <1>1 DEF UsesClient, TyMay
<1> DEFINE Typed == /\ TyLive' = TyLive /\ tyNodes' \in [TyLive' -> TyNode]
                    /\ tyRegs' \in [TyAddrs -> SUBSET {"execute", "changed"}]
<1>3. Typed
  <2>1. CASE tiny_write_resource(c, a) \/ tiny_read_resource(c, a)
    BY <2>1 DEF tiny_write_resource, tiny_read_resource, TyInv, TyTypes, TyLive
  <2>2. ASSUME NEW s \in SUBSET TyEvents, NEW r \in SUBSET {"execute", "changed"},
               tyNodes' = [tyNodes EXCEPT ![a].cbs = s], tyRegs' = [tyRegs EXCEPT ![a] = r]
        PROVE  Typed
    <3> DEFINE n == [tyNodes[a] EXCEPT !.cbs = s]
    <3>1. n \in TyNode
      BY <1>2 DEF TyInv, TyTypes, TyNode
    <3>2. tyNodes' = [tyNodes EXCEPT ![a] = n]
      BY <2>2
    <3>3. TyLive' = TyLive /\ tyNodes' \in [TyLive' -> TyNode]
      BY <1>2, <3>1, <3>2, TyNodeSet DEF TyInv
    <3> QED BY <2>2, <3>3 DEF TyInv, TyTypes
  <2>3. tyNodes[a].cbs \in SUBSET TyEvents /\ tyRegs[a] \in SUBSET {"execute", "changed"}
    BY <1>2 DEF TyInv, TyTypes, TyNode
  <2>4. ASSUME NEW e \in TyEvents, tiny_set_callback(c, a, e) PROVE Typed
    <3>1. /\ tyNodes[a].cbs \cup {e} \in SUBSET TyEvents
          /\ tyRegs[a] \cup {TyWakaamaOf(e)} \in SUBSET {"execute", "changed"}
      BY <2>3 DEF TyWakaamaOf
    <3> QED BY <2>2, <2>4, <3>1 DEF tiny_set_callback
  <2>5. ASSUME NEW e \in TyEvents, tiny_unset_callback(c, a, e) PROVE Typed
    <3>1. /\ tyNodes[a].cbs \ {e} \in SUBSET TyEvents
          /\ tyRegs[a] \ {TyWakaamaOf(e)} \in SUBSET {"execute", "changed"}
      BY <2>3
    <3> QED BY <2>2, <2>5, <3>1 DEF tiny_unset_callback
  <2> QED BY <2>1, <2>4, <2>5
<1>4. tyFault' => tyCause' # {}
  BY <1>2 DEF TyInv, TyCauses
<1> QED BY <1>1, <1>2, <1>3, <1>4 DEF TyInv, TyTypes, TyAgree, TyCauses

(* tinyara_lwm2m.c: a client runs exactly as long as its thread, a client  *)
(* whose disconnect returned has neither, and a freed node or a stopped    *)
(* client is used only after one of the calls tyCause names.               *)
THEOREM TinyLwm2mIsSound == TySpec => []TinyLwm2mSound
<1>1. TyInit => TyInv
  <2> SUFFICES ASSUME TyInit PROVE TyInv
    OBVIOUS
  <2>1. TyLive = {} /\ tyNodes \in [TyLive -> TyNode]
    BY DEF TyInit, TyLive
  <2>2. TyTypes
    <3>1. /\ tyThreads \in [TyAddrs -> TyPlaces]
          /\ tyClients \in [TyAddrs -> {"none", "up", "stopped"}]
          /\ tyRegs \in [TyAddrs -> SUBSET {"execute", "changed"}]
      BY DEF TyInit, TyPlaces
    <3>2. tyFault \in BOOLEAN /\ tyStarts = 0 /\ tyLeaks = 0
      BY Zenon DEF TyInit
    <3> QED BY <2>1, <3>1, <3>2 DEF TyTypes
  <2> QED BY <2>1, <2>2 DEF TyInit, TyInv, TyAgree, TyCauses
<1>2. TyInv /\ [TyNext]_tyVars => TyInv'
  <2> SUFFICES ASSUME TyInv, [TyNext]_tyVars PROVE TyInv'
    OBVIOUS
  <2>1. CASE UNCHANGED tyVars
    BY <2>1 DEF tyVars, TyInv, TyTypes, TyAgree, TyCauses, TyLive
  <2>2. ASSUME NEW a \in TyAddrs,
               \/ tiny_exec_factory_reset(a) \/ tiny_exec_device_reboot(a)
               \/ tiny_exec_firmware_update(a) \/ tiny_resource_changed(a)
        PROVE  TyInv'
    BY <2>2, TyCallbackStep
    DEF tiny_exec_factory_reset, tiny_exec_device_reboot, tiny_exec_firmware_update,
        tiny_resource_changed, TyEvents
  <2> QED BY <2>1, <2>2, TyConnectStep, TyDisconnectStep, TyReturnStep, TyServiceStep,
             TyCallbackStep, TyFailedStep, TyStopStep, TyUseStep
          DEF TyNext, TyThread
<1>3. TyInv => TinyLwm2mSound
  BY DEF TyInv, TyTypes, TyAgree, TyCauses, TinyLwm2mSound, TyTypeOK, TyFaultHasCause,
         DisconnectedIsQuiet, ServicedIsUp, TyPlaces
<1> QED BY <1>1, <1>2, <1>3, PTL DEF TySpec

-----------------------------------------------------------------------------
(* Lwm2m.  A timeout or an idle callback belongs to a node on the list or  *)
(* was left by a disconnect; ids of timeouts are given once, so that the   *)
(* one service_cbk_id names is removed for its own node only.              *)

LwNode == [cbs : SUBSET LwEvents, cbkId : 0..MaxLwTimers]
LwTimer == [id : 1..MaxLwTimers, node : LwAddrs]
LwIdle == [id : Nat, node : LwAddrs, event : {"execute", "changed"}, stored : BOOLEAN]

LwTypes ==
  /\ lwNodes \in [LwLive -> LwNode] /\ LwLive \subseteq LwAddrs
  /\ lwRegs \in [LwAddrs -> SUBSET {"execute", "changed"}]
  /\ lwTimers \subseteq LwTimer /\ lwNextId \in 1..(MaxLwTimers + 1)
  /\ lwIdles \subseteq LwIdle /\ lwPosts \in Nat
  /\ lwCall.kind \in {"none", "error", "event", "quiet"}
  /\ lwFault \in BOOLEAN /\ lwCause \subseteq {"left", "overtaken", "unset"}
  /\ lwFailed \in [nodes : SUBSET LwAddrs, starts : Nat]

LwTimeouts ==
  /\ \A t \in lwTimers : t.id < lwNextId /\ (t.node \in LwLive \/ "left" \in lwCause)
  /\ \A t, u \in lwTimers : t.id = u.id => t = u
  /\ \A a \in LwLive : lwNodes[a].cbkId < lwNextId
  /\ \A a, b \in LwLive : lwNodes[a].cbkId = lwNodes[b].cbkId /\ lwNodes[a].cbkId # 0 => a = b
  /\ KeepsServicing

LwPosted == \A i \in lwIdles : i.id \in 1..lwPosts /\ (i.node \in LwLive \/ "left" \in lwCause)

LwRegistered ==
  /\ \A a \in LwAddrs : a \notin LwLive => lwRegs[a] = {}
  /\ WantedIsRegistered

LwHolds == LwLoopBalanced /\ MonitoringKeeps /\ LwFaultHasCause

LwInv == LwTypes /\ LwTimeouts /\ LwPosted /\ LwRegistered /\ LwHolds

LEMMA LwFinite ==
  ASSUME LwTypes
  PROVE  IsFiniteSet(LwLive) /\ Cardinality(LwLive) \in Nat
<1>1. IsFiniteSet(LwLive)
  BY Lwm2mAssumption, FS_Subset DEF LwTypes
<1> QED BY <1>1, FS_CardinalityType

(* What the parts of the invariant depend on.                              *)
LEMMA LwFrame ==
  ASSUME LwInv, UNCHANGED <<lwNodes, lwRegs, lwTimers, lwNextId, lwRefs, lwFailed, lwObjects>>,
         lwCause \subseteq lwCause'
  PROVE  /\ LwTimeouts' /\ LwRegistered' /\ LwLoopBalanced' /\ MonitoringKeeps'
         /\ LwLive' = LwLive
BY DEF LwInv, LwTimeouts, LwRegistered, LwHolds, LwLoopBalanced, MonitoringKeeps, KeepsServicing,
       WantedIsRegistered, LwLive

LEMMA LwConnectStep ==
  ASSUME LwInv, NEW a \in LwAddrs, os_lwm2m_client_connect(a)
  PROVE  LwInv'
<1> USE Lwm2mAssumption
<1>1. /\ a \notin LwLive /\ lwNextId <= MaxLwTimers /\ lwRefs' = lwRefs + 1
      /\ UNCHANGED <<lwRegs, lwIdles, lwPosts, lwCall, lwObjects, lwFault, lwCause>>
  BY DEF os_lwm2m_client_connect
<1>2. CASE /\ lwFailed' = [lwFailed EXCEPT !.starts = @ + 1]
           /\ UNCHANGED <<lwNodes, lwTimers, lwNextId>>
  <2>1. /\ lwFailed' \in [nodes : SUBSET LwAddrs, starts : Nat] /\ lwFailed'.nodes = lwFailed.nodes
        /\ lwFailed'.starts = lwFailed.starts + 1
    BY <1>2 DEF LwInv, LwTypes
  <2>2. LwLive' = LwLive
    BY <1>2 DEF LwLive
  <2>3. LwTypes'
    BY <1>1, <1>2, <2>1, <2>2 DEF LwInv, LwTypes
  <2>4. LwTimeouts' /\ LwPosted' /\ LwRegistered'
    BY <1>1, <1>2, <2>1, <2>2 DEF LwInv, LwTimeouts, KeepsServicing, LwPosted, LwRegistered,
                                  WantedIsRegistered
  <2>5. LwLoopBalanced'
    <3>1. lwFailed.starts \in Nat /\ Cardinality(LwLive) \in Nat /\ lwRefs = Cardinality(LwLive) + lwFailed.starts
      BY LwFinite DEF LwInv, LwTypes, LwHolds, LwLoopBalanced
    <3> QED BY <1>1, <2>1, <2>2, <3>1 DEF LwLoopBalanced
  <2>6. MonitoringKeeps' /\ LwFaultHasCause'
    BY <1>1 DEF LwInv, LwHolds, MonitoringKeeps, LwFaultHasCause
  <2> QED BY <2>3, <2>4, <2>5, <2>6 DEF LwInv, LwHolds
<1>3. ASSUME NEW ok \in BOOLEAN,
             lwNodes' = [x \in LwLive \cup {a} |->
                           IF x = a THEN [cbs |-> {}, cbkId |-> IF ok THEN lwNextId ELSE 0]
                                    ELSE lwNodes[x]],
             lwTimers' = IF ok THEN lwTimers \cup {[id |-> lwNextId, node |-> a]} ELSE lwTimers,
             lwNextId' = IF ok THEN lwNextId + 1 ELSE lwNextId,
             lwFailed' = [lwFailed EXCEPT !.nodes = IF ok THEN @ \ {a} ELSE @ \cup {a}]
      PROVE  LwInv'
  <2>1. LwLive' = LwLive \cup {a}
    BY <1>3 DEF LwLive
  <2> DEFINE n == [cbs |-> {}, cbkId |-> IF ok THEN lwNextId ELSE 0]
  <2>2. n \in LwNode /\ n.cbs = {} /\ n.cbkId = (IF ok THEN lwNextId ELSE 0)
    BY <1>1 DEF LwNode, LwInv, LwTypes
  <2>3. lwNodes'[a] = n /\ \A b \in LwLive : lwNodes'[b] = lwNodes[b]
    BY <1>1, <1>3
  <2>4. lwNodes' \in [LwLive' -> LwNode]
    BY <1>3, <2>1, <2>2 DEF LwInv, LwTypes
  <2> HIDE DEF n
  <2>5. /\ lwFailed' \in [nodes : SUBSET LwAddrs, starts : Nat]
        /\ lwFailed'.nodes = (IF ok THEN lwFailed.nodes \ {a} ELSE lwFailed.nodes \cup {a})
        /\ lwFailed'.starts = lwFailed.starts
    BY <1>3 DEF LwInv, LwTypes
  <2>6. lwTimers' \subseteq LwTimer /\ lwNextId' \in 1..(MaxLwTimers + 1) /\ lwNextId' >= lwNextId
    BY <1>1, <1>3 DEF LwInv, LwTypes, LwTimer
  <2>7. LwTypes'
    BY <1>1, <2>1, <2>4, <2>5, <2>6 DEF LwInv, LwTypes
  <2>8. /\ \A t \in lwTimers' : t.id < lwNextId' /\ (t.node \in LwLive' \/ "left" \in lwCause')
        /\ \A t, u \in lwTimers' : t.id = u.id => t = u
    BY <1>1, <1>3, <2>1 DEF LwInv, LwTypes, LwTimer, LwTimeouts
  <2>9. /\ \A b \in LwLive' : lwNodes'[b].cbkId < lwNextId'
        /\ \A b, c \in LwLive' : lwNodes'[b].cbkId = lwNodes'[c].cbkId /\ lwNodes'[b].cbkId # 0 => b = c
    BY <1>1, <1>3, <2>1, <2>2, <2>3 DEF LwInv, LwTypes, LwNode, LwTimeouts
  <2>10. KeepsServicing'
    <3> SUFFICES ASSUME NEW b \in LwLive'
                 PROVE  b \in lwFailed'.nodes \/ \E t \in lwTimers' : t.node = b /\ t.id = lwNodes'[b].cbkId
      BY DEF KeepsServicing
    <3>1. CASE b = a
      <4>1. CASE ok
        <5> DEFINE t == [id |-> lwNextId, node |-> a]
        <5>1. t \in lwTimers' /\ t.node = b /\ t.id = lwNodes'[b].cbkId
          BY <1>3, <2>2, <2>3, <3>1, <4>1
        <5> QED BY <5>1
      <4>2. CASE ~ok
        BY <2>5, <3>1, <4>2
      <4> QED BY <4>1, <4>2
    <3>2. CASE b # a
      BY <1>1, <1>3, <2>1, <2>3, <2>5, <3>2 DEF LwInv, LwTimeouts, KeepsServicing
    <3> QED BY <3>1, <3>2
  <2>11. LwPosted' /\ LwRegistered'
    BY <1>1, <2>1, <2>2, <2>3 DEF LwInv, LwPosted, LwRegistered, WantedIsRegistered
  <2>12. LwLoopBalanced'
    <3>1. Cardinality(LwLive') = Cardinality(LwLive) + 1
      BY <1>1, <2>1, LwFinite, FS_AddElement DEF LwInv
    <3>2. lwFailed.starts \in Nat /\ Cardinality(LwLive) \in Nat /\ lwRefs = Cardinality(LwLive) + lwFailed.starts
      BY LwFinite DEF LwInv, LwTypes, LwHolds, LwLoopBalanced
    <3> QED BY <1>1, <2>5, <3>1, <3>2 DEF LwLoopBalanced
  <2>13. MonitoringKeeps' /\ LwFaultHasCause'
    BY <1>1 DEF LwInv, LwHolds, MonitoringKeeps, LwFaultHasCause
  <2> QED BY <2>7, <2>8, <2>9, <2>10, <2>11, <2>12, <2>13 DEF LwInv, LwTimeouts, LwHolds
<1> QED BY <1>2, <1>3 DEF os_lwm2m_client_connect

LEMMA LwDisconnectStep ==
  ASSUME LwInv, NEW a \in LwAddrs, os_lwm2m_client_disconnect(a)
  PROVE  LwInv'
<1>1. /\ a \in LwLive /\ lwNodes' = Without(lwNodes, a) /\ lwRegs' = [lwRegs EXCEPT ![a] = {}]
      /\ lwRefs' = lwRefs - 1 /\ lwFailed' = [lwFailed EXCEPT !.nodes = @ \ {a}]
      /\ UNCHANGED <<lwTimers, lwNextId, lwIdles, lwPosts, lwCall, lwObjects, lwFault>>
  BY DEF os_lwm2m_client_disconnect, Known
<1>2. /\ lwCause \subseteq lwCause' /\ lwCause' \subseteq lwCause \cup {"left"}
      /\ (\E t \in lwTimers : t.node = a) => "left" \in lwCause'
      /\ (\E i \in lwIdles : i.node = a) => "left" \in lwCause'
  BY DEF os_lwm2m_client_disconnect
<1>3. LwLive' = LwLive \ {a} /\ \A b \in LwLive \ {a} : lwNodes'[b] = lwNodes[b]
  BY <1>1 DEF LwLive, Without
<1>4. lwNodes' \in [LwLive' -> LwNode]
  BY <1>1, <1>3 DEF LwInv, LwTypes, Without, LwLive
<1>5. /\ lwFailed' \in [nodes : SUBSET LwAddrs, starts : Nat]
      /\ lwFailed'.nodes = lwFailed.nodes \ {a} /\ lwFailed'.starts = lwFailed.starts
  BY <1>1 DEF LwInv, LwTypes
<1>6. LwTypes'
  BY <1>1, <1>2, <1>3, <1>4, <1>5 DEF LwInv, LwTypes
<1>7. LwTimeouts'
  BY <1>1, <1>2, <1>3, <1>5 DEF LwInv, LwTimeouts, KeepsServicing
<1>8. LwPosted'
  BY <1>1, <1>2, <1>3 DEF LwInv, LwPosted
<1>9. LwRegistered'
  BY <1>1, <1>2, <1>3 DEF LwInv, LwTypes, LwRegistered, WantedIsRegistered
<1>10. LwLoopBalanced'
  <2>1. Cardinality(LwLive') = Cardinality(LwLive) - 1
    BY <1>1, <1>3, LwFinite, FS_RemoveElement DEF LwInv
  <2>2. lwFailed.starts \in Nat /\ Cardinality(LwLive) \in Nat /\ lwRefs = Cardinality(LwLive) + lwFailed.starts
    BY LwFinite DEF LwInv, LwTypes, LwHolds, LwLoopBalanced
  <2> QED BY <1>1, <1>5, <2>1, <2>2 DEF LwLoopBalanced
<1>11. MonitoringKeeps' /\ LwFaultHasCause'
  BY <1>1, <1>2 DEF LwInv, LwHolds, MonitoringKeeps, LwFaultHasCause
<1> QED BY <1>6, <1>7, <1>8, <1>9, <1>10, <1>11 DEF LwInv, LwHolds

(* A timeout fires: its node is gone, the servicing fails, or it is        *)
(* renewed.                                                                *)
LEMMA LwServiceStep ==
  ASSUME LwInv, NEW t \in lwTimers, on_lwm2m_service_callback(t)
  PROVE  LwInv'
<1> USE Lwm2mAssumption
<1>1. UNCHANGED <<lwRegs, lwIdles, lwPosts, lwRefs, lwObjects, lwCause>>
  BY DEF on_lwm2m_service_callback
<1>2. t.id \in 1..MaxLwTimers /\ t.node \in LwAddrs
  BY DEF LwInv, LwTypes, LwTimer
<1>3. CASE /\ t.node \notin LwLive /\ lwFault' = TRUE /\ lwTimers' = lwTimers \ {t}
           /\ UNCHANGED <<lwNextId, lwCall, lwNodes, lwFailed>>
  <2>1. "left" \in lwCause /\ LwLive' = LwLive
    BY <1>3 DEF LwInv, LwTimeouts, LwLive
  <2>2. LwTypes'
    BY <1>1, <1>3, <2>1 DEF LwInv, LwTypes
  <2>3. KeepsServicing'
    BY <1>3, <2>1 DEF LwInv, LwTimeouts, KeepsServicing
  <2>4. LwTimeouts'
    BY <1>1, <1>3, <2>1, <2>3 DEF LwInv, LwTimeouts
  <2>5. LwPosted' /\ LwRegistered' /\ LwHolds'
    BY <1>1, <1>3, <2>1 DEF LwInv, LwPosted, LwRegistered, WantedIsRegistered, LwHolds,
                            LwLoopBalanced, MonitoringKeeps, LwFaultHasCause
  <2> QED BY <2>2, <2>4, <2>5 DEF LwInv
<1>4. CASE /\ t.node \in LwLive /\ lwTimers' = lwTimers \ {t}
           /\ lwFailed' = [lwFailed EXCEPT !.nodes = @ \cup {t.node}]
           /\ lwCall' = IF "error" \in lwNodes[t.node].cbs THEN [kind |-> "error", idle |-> 0] ELSE NoCall
           /\ UNCHANGED <<lwNextId, lwFault, lwNodes>>
  <2>1. LwLive' = LwLive /\ lwCall'.kind \in {"none", "error", "event", "quiet"}
    BY <1>4 DEF LwLive, NoCall
  <2>2. /\ lwFailed' \in [nodes : SUBSET LwAddrs, starts : Nat]
        /\ lwFailed'.nodes = lwFailed.nodes \cup {t.node} /\ lwFailed'.starts = lwFailed.starts
    BY <1>2, <1>4 DEF LwInv, LwTypes
  <2>3. LwTypes'
    BY <1>1, <1>4, <2>1, <2>2 DEF LwInv, LwTypes
  <2>4. KeepsServicing'
    BY <1>4, <2>1, <2>2 DEF LwInv, LwTimeouts, KeepsServicing
  <2>5. LwTimeouts'
    BY <1>1, <1>4, <2>1, <2>4 DEF LwInv, LwTimeouts
  <2>6. LwPosted' /\ LwRegistered' /\ LwHolds'
    BY <1>1, <1>4, <2>1, <2>2 DEF LwInv, LwPosted, LwRegistered, WantedIsRegistered, LwHolds,
                                  LwLoopBalanced, MonitoringKeeps, LwFaultHasCause
  <2> QED BY <2>3, <2>5, <2>6 DEF LwInv
<1>5. ASSUME t.node \in LwLive, lwNextId <= MaxLwTimers, NEW ok \in BOOLEAN,
             lwTimers' = {u \in lwTimers : u # t /\ u.id # lwNodes[t.node].cbkId}
                              \cup (IF ok THEN {[id |-> lwNextId, node |-> t.node]} ELSE {}),
             lwNextId' = IF ok THEN lwNextId + 1 ELSE lwNextId,
             lwNodes' = IF ok THEN [lwNodes EXCEPT ![t.node].cbkId = lwNextId] ELSE lwNodes,
             lwFailed' = IF ok THEN lwFailed ELSE [lwFailed EXCEPT !.nodes = @ \cup {t.node}],
             UNCHANGED <<lwCall, lwFault>>
      PROVE  LwInv'
  <2> DEFINE a == t.node
             kept == {u \in lwTimers : u # t /\ u.id # lwNodes[a].cbkId}
  <2>1. /\ LwLive' = LwLive /\ lwNodes' \in [LwLive' -> LwNode]
        /\ \A b \in LwLive : lwNodes'[b].cbs = lwNodes[b].cbs
        /\ \A b \in LwLive : b # a => lwNodes'[b] = lwNodes[b]
        /\ lwNodes'[a].cbkId = (IF ok THEN lwNextId ELSE lwNodes[a].cbkId)
    <3>1. CASE ok
      <4> DEFINE n == [lwNodes[a] EXCEPT !.cbkId = lwNextId]
      <4>1. n \in LwNode /\ n.cbs = lwNodes[a].cbs /\ n.cbkId = lwNextId
        BY <1>5 DEF LwInv, LwTypes, LwNode
      <4>2. lwNodes' = [lwNodes EXCEPT ![a] = n]
        BY <1>5, <3>1
      <4> HIDE DEF n
      <4> QED BY <1>5, <3>1, <4>1, <4>2 DEF LwInv, LwTypes, LwLive
    <3>2. CASE ~ok
      BY <1>5, <3>2 DEF LwInv, LwTypes, LwLive
    <3> QED BY <3>1, <3>2
  <2>2. /\ lwFailed' \in [nodes : SUBSET LwAddrs, starts : Nat]
        /\ lwFailed'.nodes = (IF ok THEN lwFailed.nodes ELSE lwFailed.nodes \cup {a})
        /\ lwFailed'.starts = lwFailed.starts
    BY <1>2, <1>5 DEF LwInv, LwTypes
  <2>3. /\ lwTimers' \subseteq LwTimer /\ lwNextId' \in 1..(MaxLwTimers + 1) /\ lwNextId' >= lwNextId
    BY <1>2, <1>5 DEF LwInv, LwTypes, LwTimer
  <2>4. LwTypes'
    BY <1>1, <1>5, <2>1, <2>2, <2>3 DEF LwInv, LwTypes
  <2>5. /\ \A u \in lwTimers' : u.id < lwNextId' /\ (u.node \in LwLive' \/ "left" \in lwCause')
        /\ \A u, v \in lwTimers' : u.id = v.id => u = v
    BY <1>1, <1>5, <2>1 DEF LwInv, LwTypes, LwTimer, LwTimeouts
  <2>6. /\ \A b \in LwLive' : lwNodes'[b].cbkId < lwNextId'
        /\ \A b, c \in LwLive' : lwNodes'[b].cbkId = lwNodes'[c].cbkId /\ lwNodes'[b].cbkId # 0 => b = c
    BY <1>5, <2>1 DEF LwInv, LwTypes, LwNode, LwTimeouts
  <2>7. KeepsServicing'
    <3> SUFFICES ASSUME NEW b \in LwLive'
                 PROVE  b \in lwFailed'.nodes \/ \E u \in lwTimers' : u.node = b /\ u.id = lwNodes'[b].cbkId
      BY DEF KeepsServicing
    <3>1. CASE b = a /\ ok
      <4> DEFINE u == [id |-> lwNextId, node |-> a]
      <4>1. u \in lwTimers' /\ u.node = b /\ u.id = lwNodes'[b].cbkId
        BY <1>5, <2>1, <3>1
      <4> QED BY <4>1
    <3>2. CASE b = a /\ ~ok
      BY <2>2, <3>2
    <3>3. CASE b # a
      <4>1. b \in LwLive /\ lwNodes'[b] = lwNodes[b] /\ lwFailed.nodes \subseteq lwFailed'.nodes
        BY <2>1, <2>2, <3>3
      <4>2. ASSUME NEW u \in lwTimers, u.node = b, u.id = lwNodes[b].cbkId PROVE u \in lwTimers'
        <5>1. u.id # 0 /\ u # t
          BY <3>3, <4>2 DEF LwInv, LwTypes, LwTimer
        <5>2. u.id # lwNodes[a].cbkId
          BY <1>5, <3>3, <4>1, <4>2, <5>1 DEF LwInv, LwTimeouts
        <5> QED BY <1>5, <5>1, <5>2
      <4> QED BY <4>1, <4>2 DEF LwInv, LwTimeouts, KeepsServicing
    <3> QED BY <3>1, <3>2, <3>3
  <2>8. LwPosted' /\ LwRegistered'
    BY <1>1, <2>1 DEF LwInv, LwPosted, LwRegistered, WantedIsRegistered
  <2>9. LwHolds'
    BY <1>1, <1>5, <2>1, <2>2 DEF LwInv, LwHolds, LwLoopBalanced, MonitoringKeeps, LwFaultHasCause
  <2> QED BY <2>4, <2>5, <2>6, <2>7, <2>8, <2>9 DEF LwInv, LwTimeouts
<1> QED BY <1>3, <1>4, <1>5 DEF on_lwm2m_service_callback

(* Wakaama's events pass through the idle callbacks.                       *)
LEMMA LwPostStep ==
  ASSUME LwInv, NEW a \in LwAddrs, NEW e \in {"execute", "changed"}, Post(a, e)
  PROVE  LwInv'
<1> DEFINE i == [id |-> lwPosts + 1, node |-> a, event |-> e, stored |-> FALSE]
<1>1. /\ a \in LwLive /\ lwPosts' = lwPosts + 1 /\ lwIdles' = lwIdles \cup {i}
      /\ UNCHANGED <<lwNodes, lwRegs, lwTimers, lwNextId, lwCall, lwRefs, lwObjects, lwFault,
                     lwCause, lwFailed>>
  BY DEF Post
<1>2. i \in LwIdle /\ i.id = lwPosts + 1 /\ i.node = a
  BY DEF LwIdle, LwInv, LwTypes
<1> HIDE DEF i
<1>3. /\ LwTimeouts' /\ LwRegistered' /\ LwLoopBalanced' /\ MonitoringKeeps' /\ LwLive' = LwLive
  BY <1>1, LwFrame
<1>4. LwTypes' /\ LwPosted' /\ LwFaultHasCause'
  BY <1>1, <1>2, <1>3 DEF LwInv, LwTypes, LwPosted, LwHolds, LwFaultHasCause
<1> QED BY <1>3, <1>4 DEF LwInv, LwHolds

LEMMA LwStoreStep ==
  ASSUME LwInv, NEW i \in lwIdles, os_add_idle_callback(i)
  PROVE  LwInv'
<1> DEFINE j == [i EXCEPT !.stored = TRUE]
<1>1. /\ lwIdles' = (lwIdles \ {i}) \cup {j}
      /\ UNCHANGED <<lwNodes, lwRegs, lwTimers, lwNextId, lwPosts, lwCall, lwRefs, lwObjects, lwFault,
                     lwCause, lwFailed>>
  BY DEF os_add_idle_callback
<1>2. j \in LwIdle /\ j.id = i.id /\ j.node = i.node
  BY DEF LwIdle, LwInv, LwTypes
<1> HIDE DEF j
<1>3. /\ LwTimeouts' /\ LwRegistered' /\ LwLoopBalanced' /\ MonitoringKeeps' /\ LwLive' = LwLive
  BY <1>1, LwFrame
<1>4. LwTypes' /\ LwPosted' /\ LwFaultHasCause'
  BY <1>1, <1>2, <1>3 DEF LwInv, LwTypes, LwPosted, LwHolds, LwFaultHasCause
<1> QED BY <1>3, <1>4 DEF LwInv, LwHolds

LEMMA LwIdleStep ==
  ASSUME LwInv, NEW i \in lwIdles, on_idle_callback(i)
  PROVE  LwInv'
<1>1. UNCHANGED <<lwNodes, lwRegs, lwTimers, lwNextId, lwPosts, lwRefs, lwObjects, lwCause, lwFailed>>
  BY DEF on_idle_callback
<1>2. /\ LwTimeouts' /\ LwRegistered' /\ LwLoopBalanced' /\ MonitoringKeeps' /\ LwLive' = LwLive
  BY <1>1, LwFrame
<1>3. CASE i.node \in LwLive
  <2>1. lwCall'.kind \in {"event", "quiet"} /\ UNCHANGED <<lwFault, lwIdles>>
    BY <1>3 DEF on_idle_callback
  <2>2. LwTypes' /\ LwPosted' /\ LwFaultHasCause'
    BY <1>1, <1>2, <2>1 DEF LwInv, LwTypes, LwPosted, LwHolds, LwFaultHasCause
  <2> QED BY <1>2, <2>2 DEF LwInv, LwHolds
<1>4. CASE i.node \notin LwLive
  <2>1. lwFault' = TRUE /\ lwIdles' = lwIdles \ {i} /\ UNCHANGED lwCall /\ "left" \in lwCause
    BY <1>4 DEF on_idle_callback, LwInv, LwPosted
  <2>2. LwTypes' /\ LwPosted' /\ LwFaultHasCause'
    BY <1>1, <1>2, <2>1 DEF LwInv, LwTypes, LwPosted, LwHolds, LwFaultHasCause
  <2> QED BY <1>2, <2>2 DEF LwInv, LwHolds
<1> QED BY <1>3, <1>4

LEMMA LwEndsStep ==
  ASSUME LwInv, IdleEnds \/ ErrorEnds
  PROVE  LwInv'
<1>1. /\ UNCHANGED <<lwNodes, lwRegs, lwTimers, lwNextId, lwPosts, lwRefs, lwObjects, lwFailed>>
      /\ lwCall' = NoCall
  BY DEF IdleEnds, ErrorEnds
<1>2. CASE ErrorEnds
  <2>1. UNCHANGED <<lwIdles, lwFault, lwCause>>
    BY <1>2 DEF ErrorEnds
  <2>2. /\ LwTimeouts' /\ LwRegistered' /\ LwLoopBalanced' /\ MonitoringKeeps' /\ LwLive' = LwLive
    BY <1>1, <2>1, LwFrame
  <2>3. LwTypes' /\ LwPosted' /\ LwFaultHasCause'
    BY <1>1, <2>1, <2>2 DEF LwInv, LwTypes, LwPosted, LwHolds, LwFaultHasCause, NoCall
  <2> QED BY <2>2, <2>3 DEF LwInv, LwHolds
<1>3. CASE IdleEnds
  <2>1. PICK i \in lwIdles :
          /\ lwFault' = (i.node \notin LwLive \/ ~i.stored)
          /\ lwCause' = IF i.stored THEN lwCause ELSE lwCause \cup {"overtaken"}
          /\ lwIdles' = lwIdles \ {i}
    BY <1>3 DEF IdleEnds
  <2>2. lwCause \subseteq lwCause' /\ lwCause' \subseteq {"left", "overtaken", "unset"}
    BY <2>1 DEF LwInv, LwTypes
  <2>3. /\ LwTimeouts' /\ LwRegistered' /\ LwLoopBalanced' /\ MonitoringKeeps' /\ LwLive' = LwLive
    BY <1>1, <2>2, LwFrame
  <2>4. LwTypes' /\ LwPosted'
    BY <1>1, <2>1, <2>2, <2>3 DEF LwInv, LwTypes, LwPosted, NoCall
  <2>5. LwFaultHasCause'
    <3>1. i.node \in LwLive \/ "left" \in lwCause'
      BY <2>2 DEF LwInv, LwPosted
    <3>2. ~i.stored => "overtaken" \in lwCause'
      BY <2>1
    <3> QED BY <2>1, <3>1, <3>2 DEF LwFaultHasCause
  <2> QED BY <2>3, <2>4, <2>5 DEF LwInv, LwHolds
<1> QED BY <1>2, <1>3

(* Callbacks are set and unset together with Wakaama's registrations.      *)
LEMMA LwCallbackStep ==
  ASSUME LwInv, NEW a \in LwAddrs, NEW cbs \in SUBSET LwEvents, NEW regs \in SUBSET {"execute", "changed"},
         a \in LwLive, lwNodes' = [lwNodes EXCEPT ![a].cbs = cbs], lwRegs' = [lwRegs EXCEPT ![a] = regs],
         lwCause \subseteq lwCause', lwCause' \subseteq {"left", "overtaken", "unset"},
         "unset" \in lwCause' \/ (cbs \ {"error"}) \subseteq regs,
         UNCHANGED <<lwTimers, lwNextId, lwIdles, lwPosts, lwCall, lwRefs, lwObjects, lwFault, lwFailed>>
  PROVE  LwInv'
<1> DEFINE n == [lwNodes[a] EXCEPT !.cbs = cbs]
<1>1. n \in LwNode /\ n.cbs = cbs /\ n.cbkId = lwNodes[a].cbkId
  BY DEF LwInv, LwTypes, LwNode
<1>2. lwNodes' = [lwNodes EXCEPT ![a] = n]
  OBVIOUS
<1> HIDE DEF n
<1>3. /\ LwLive' = LwLive /\ lwNodes' \in [LwLive' -> LwNode]
      /\ \A b \in LwLive : lwNodes'[b].cbkId = lwNodes[b].cbkId
      /\ lwNodes'[a].cbs = cbs /\ \A b \in LwLive : b # a => lwNodes'[b].cbs = lwNodes[b].cbs
  BY <1>1, <1>2 DEF LwInv, LwTypes, LwLive
<1>4. /\ lwRegs' \in [LwAddrs -> SUBSET {"execute", "changed"}] /\ lwRegs'[a] = regs
      /\ \A b \in LwAddrs : b # a => lwRegs'[b] = lwRegs[b]
  BY DEF LwInv, LwTypes
<1>5. LwTypes' /\ LwPosted'
  BY <1>3, <1>4 DEF LwInv, LwTypes, LwPosted
<1>6. LwTimeouts'
  BY <1>3 DEF LwInv, LwTimeouts, KeepsServicing
<1>7. LwRegistered'
  <2>1. ASSUME NEW b \in LwAddrs, b \notin LwLive' PROVE lwRegs'[b] = {}
    BY <1>3, <1>4, <2>1 DEF LwInv, LwRegistered
  <2>2. ASSUME NEW b \in LwLive' PROVE "unset" \in lwCause' \/ (lwNodes'[b].cbs \ {"error"}) \subseteq lwRegs'[b]
    <3>1. CASE b = a
      BY <1>3, <1>4, <3>1
    <3>2. CASE b # a
      BY <1>3, <1>4, <3>2 DEF LwInv, LwTypes, LwRegistered, WantedIsRegistered
    <3> QED BY <3>1, <3>2
  <2> QED BY <2>1, <2>2 DEF LwRegistered, WantedIsRegistered
<1>8. LwHolds'
  BY <1>3 DEF LwInv, LwHolds, LwLoopBalanced, MonitoringKeeps, LwFaultHasCause
<1> QED BY <1>5, <1>6, <1>7, <1>8 DEF LwInv

LEMMA LwSetStep ==
  ASSUME LwInv, NEW a \in LwAddrs, NEW e \in LwEvents, os_lwm2m_set_callback(a, e)
  PROVE  LwInv'
<1>1. /\ a \in LwLive /\ lwNodes' = [lwNodes EXCEPT ![a].cbs = lwNodes[a].cbs \cup {e}]
      /\ lwRegs' = [lwRegs EXCEPT ![a] = lwRegs[a] \cup {WakaamaOf(e)}]
      /\ UNCHANGED <<lwTimers, lwNextId, lwIdles, lwPosts, lwCall, lwRefs, lwObjects, lwFault,
                     lwCause, lwFailed>>
  BY DEF os_lwm2m_set_callback, Known
<1>2. /\ lwNodes[a].cbs \cup {e} \in SUBSET LwEvents
      /\ lwRegs[a] \cup {WakaamaOf(e)} \in SUBSET {"execute", "changed"}
      /\ lwCause \subseteq {"left", "overtaken", "unset"}
  BY <1>1 DEF LwInv, LwTypes, LwNode, WakaamaOf
<1>3. "unset" \in lwCause \/ ((lwNodes[a].cbs \cup {e}) \ {"error"}) \subseteq lwRegs[a] \cup {WakaamaOf(e)}
  BY <1>1 DEF LwInv, LwRegistered, WantedIsRegistered, WakaamaOf, LwEvents
<1> QED BY <1>1, <1>2, <1>3, LwCallbackStep

LEMMA LwUnsetStep ==
  ASSUME LwInv, NEW a \in LwAddrs, NEW e \in LwEvents, os_lwm2m_unset_callback(a, e)
  PROVE  LwInv'
<1>1. /\ a \in LwLive /\ lwNodes' = [lwNodes EXCEPT ![a].cbs = lwNodes[a].cbs \ {e}]
      /\ lwRegs' = [lwRegs EXCEPT ![a] = lwRegs[a] \ {WakaamaOf(e)}]
      /\ UNCHANGED <<lwTimers, lwNextId, lwIdles, lwPosts, lwCall, lwRefs, lwObjects, lwFault, lwFailed>>
      /\ lwCause' = IF e = "error" /\ "changed" \in lwNodes[a].cbs THEN lwCause \cup {"unset"} ELSE lwCause
  BY DEF os_lwm2m_unset_callback, Known
<1>2. /\ lwNodes[a].cbs \ {e} \in SUBSET LwEvents
      /\ lwRegs[a] \ {WakaamaOf(e)} \in SUBSET {"execute", "changed"}
      /\ lwCause \subseteq lwCause' /\ lwCause' \subseteq {"left", "overtaken", "unset"}
  BY <1>1 DEF LwInv, LwTypes, LwNode
<1>3. "unset" \in lwCause' \/ ((lwNodes[a].cbs \ {e}) \ {"error"}) \subseteq lwRegs[a] \ {WakaamaOf(e)}
  <2>1. "unset" \in lwCause \/ (lwNodes[a].cbs \ {"error"}) \subseteq lwRegs[a]
    BY <1>1 DEF LwInv, LwRegistered, WantedIsRegistered
  <2>2. lwNodes[a].cbs \subseteq {"error", "execute", "changed"}
    BY <1>1 DEF LwInv, LwTypes, LwNode, LwEvents
  <2> QED BY <1>1, <2>1, <2>2 DEF WakaamaOf, LwEvents
<1> QED BY <1>1, <1>2, <1>3, LwCallbackStep

(* No two parameters share a field of a monitoring object, and the first   *)
(* router address is where it belongs.                                     *)
LEMMA MonitoringIsKept ==
  ASSUME NEW n \in 0..2, NEW r \in 0..2
  PROVE  /\ \A x, y \in MonitoringFields(n, r) : (x[1] = y[1]) = (x[2] = y[2])
         /\ \A x \in MonitoringFields(n, r) : x[1] = "router_ip_addr" => x[2] = "routeaddr[0]"
<1> DEFINE lastAddress == IF n = 1 THEN "ipaddr[0]" ELSE "ipaddr[1]"
<1>1. lastAddress \in {"ipaddr[0]", "ipaddr[1]"}
  OBVIOUS
<1> HIDE DEF lastAddress
<1>2. ASSUME NEW x \in MonitoringFields(n, r)
      PROVE  \/ x = <<"avl_network_bearer", "netbearer">> \/ x = <<"radio_signal_strength", "avlnetbearer">>
             \/ x = <<"link_quality", "signalstrength">> \/ x = <<"link_utilization", "linkquality">>
             \/ x = <<"cell_id", "cellid">> \/ x = <<"smnc", "smnc">> \/ x = <<"smcc", "smcc">>
             \/ x = <<"apn", "apn">>
             \/ x = <<"ip_addr2", lastAddress>>
             \/ x = <<"router_ip_addr", "routeaddr[0]">> \/ x = <<"router_ip_addr2", "routeaddr[1]">>
  <2>1. CASE x \in {<<"avl_network_bearer", "netbearer">>, <<"radio_signal_strength", "avlnetbearer">>,
                   <<"link_quality", "signalstrength">>, <<"link_utilization", "linkquality">>,
                   <<"cell_id", "cellid">>, <<"smnc", "smnc">>, <<"smcc", "smcc">>, <<"apn", "apn">>}
    BY <2>1, Zenon
  <2>2. CASE x \in (IF n = 0 THEN {} ELSE {<<"ip_addr2", IF n = 1 THEN "ipaddr[0]" ELSE "ipaddr[1]">>})
    <3>1. n = 0 \/ n # 0
      OBVIOUS
    <3>2. x = <<"ip_addr2", lastAddress>>
      BY <2>2, <3>1, Zenon DEF lastAddress
    <3> QED BY <3>2, Zenon
  <2>3. CASE x \in (IF r >= 1 THEN {<<"router_ip_addr", "routeaddr[0]">>} ELSE {})
    BY <2>3
  <2>4. CASE x \in (IF r >= 2 THEN {<<"router_ip_addr2", "routeaddr[1]">>} ELSE {})
    BY <2>4
  <2> QED BY <1>2, <2>1, <2>2, <2>3, <2>4, Zenon DEF MonitoringFields
<1> QED BY <1>1, <1>2

LEMMA LwObjectStep ==
  ASSUME LwInv, LwObjectNext
  PROVE  LwInv'
<1> DEFINE Rest == UNCHANGED <<lwNodes, lwRegs, lwTimers, lwNextId, lwIdles, lwPosts, lwCall, lwRefs,
                              lwFault, lwCause, lwFailed>>
           Builds == \E n, r \in 0..2 :
                       lwObjects' = lwObjects \cup {[kind |-> "monitoring", contents |-> MonitoringFields(n, r)]}
           Adds == \E o : o.kind \in {"device", "firmware"} /\ lwObjects' = lwObjects \cup {o}
<1>1. Rest /\ (Adds \/ Builds \/ lwObjects' \subseteq lwObjects)
  <2>1. CASE os_lwm2m_create_device_object
    <3>1. Rest /\ lwObjects' = lwObjects \cup {[kind |-> "device", contents |-> {}]}
      BY <2>1, Zenon DEF os_lwm2m_create_device_object, Creates
    <3>2. Adds
      <4> DEFINE d == [kind |-> "device", contents |-> {}]
      <4>1. d.kind \in {"device", "firmware"}
        OBVIOUS
      <4>2. lwObjects' = lwObjects \cup {d}
        BY <3>1, Zenon
      <4> HIDE DEF d
      <4> WITNESS d
      <4> QED BY <4>1, <4>2
    <3> QED BY <3>1, <3>2, Zenon
  <2>2. CASE os_lwm2m_create_firmware_object
    <3>1. Rest /\ lwObjects' = lwObjects \cup {[kind |-> "firmware", contents |-> {}]}
      BY <2>2, Zenon DEF os_lwm2m_create_firmware_object, Creates
    <3>2. Adds
      <4> DEFINE d == [kind |-> "firmware", contents |-> {}]
      <4>1. d.kind \in {"device", "firmware"}
        OBVIOUS
      <4>2. lwObjects' = lwObjects \cup {d}
        BY <3>1, Zenon
      <4> HIDE DEF d
      <4> WITNESS d
      <4> QED BY <4>1, <4>2
    <3> QED BY <3>1, <3>2, Zenon
  <2>3. CASE \E n, r \in 0..2 : os_lwm2m_create_connectivity_monitoring_object(n, r)
    BY <2>3, Zenon DEF os_lwm2m_create_connectivity_monitoring_object, Creates
  <2>4. CASE \E o \in lwObjects : os_lwm2m_free_object(o)
    BY <2>4, Zenon DEF os_lwm2m_free_object
  <2> QED BY <2>1, <2>2, <2>3, <2>4, Zenon DEF LwObjectNext
<1>2. MonitoringKeeps'
  <2>1. CASE Builds
    BY <2>1, MonitoringIsKept DEF LwInv, LwHolds, MonitoringKeeps
  <2> QED BY <1>1, <2>1 DEF LwInv, LwHolds, MonitoringKeeps
<1>3. LwTypes' /\ LwPosted' /\ LwFaultHasCause' /\ LwLoopBalanced'
  BY <1>1 DEF LwInv, LwTypes, LwPosted, LwHolds, LwFaultHasCause, LwLoopBalanced, LwLive
<1>4. LwTimeouts' /\ LwRegistered'
  BY <1>1 DEF LwInv, LwTimeouts, KeepsServicing, LwRegistered, WantedIsRegistered, LwLive
<1> QED BY <1>2, <1>3, <1>4 DEF LwInv, LwHolds

LEMMA LwStutters ==
  ASSUME LwInv, UNCHANGED lwVars
  PROVE  LwInv'
<1>1. LwTypes' /\ LwPosted' /\ LwHolds'
  BY DEF lwVars, LwInv, LwTypes, LwPosted, LwHolds, LwFaultHasCause, LwLoopBalanced, MonitoringKeeps, LwLive
<1>2. LwTimeouts' /\ LwRegistered'
  BY DEF lwVars, LwInv, LwTimeouts, KeepsServicing, LwRegistered, WantedIsRegistered, LwLive
<1> QED BY <1>1, <1>2 DEF LwInv

(* linux_lwm2m.c: a connected client is serviced until that fails, what    *)
(* the application wants is registered unless it unset the error callback, *)
(* the loop module is held once per node and refused start, and a freed    *)
(* node or an unwritten id is used only after what lwCause names.          *)
THEOREM Lwm2mIsSound == LwSpec => []Lwm2mSound
<1> USE Lwm2mAssumption
<1>1. LwInit => LwInv
  <2> SUFFICES ASSUME LwInit PROVE LwInv
    OBVIOUS
  <2>1. LwLive = {} /\ lwNodes \in [LwLive -> LwNode]
    BY DEF LwInit, LwLive
  <2>2. LwTypes
    <3>1. /\ lwRegs \in [LwAddrs -> SUBSET {"execute", "changed"}] /\ lwCall.kind = "none"
          /\ lwFailed \in [nodes : SUBSET LwAddrs, starts : Nat]
      BY DEF LwInit, NoCall
    <3>2. lwFault \in BOOLEAN
      BY Zenon DEF LwInit
    <3>3. /\ lwNextId \in 1..(MaxLwTimers + 1) /\ lwTimers = {} /\ lwIdles = {} /\ lwPosts \in Nat
          /\ lwCause = {}
      BY DEF LwInit
    <3> QED BY <2>1, <3>1, <3>2, <3>3 DEF LwTypes
  <2>3. LwTimeouts /\ LwPosted /\ LwRegistered
    BY <2>1 DEF LwInit, LwTimeouts, KeepsServicing, LwPosted, LwRegistered, WantedIsRegistered
  <2>4. LwHolds
    <3>1. Cardinality(LwLive) = 0
      BY <2>1, FS_EmptySet
    <3> QED BY <3>1 DEF LwInit, LwHolds, LwLoopBalanced, MonitoringKeeps, LwFaultHasCause
  <2> QED BY <2>2, <2>3, <2>4 DEF LwInv
<1>2. LwInv /\ [LwClientNext \/ LwObjectNext]_lwVars => LwInv'
  <2> SUFFICES ASSUME LwInv, [LwClientNext \/ LwObjectNext]_lwVars PROVE LwInv'
    OBVIOUS
  <2>1. ASSUME LwApplication PROVE LwInv'
    <3>1. ASSUME NEW a \in LwAddrs,
                 os_lwm2m_client_write_resource(a) \/ os_lwm2m_client_read_resource(a)
          PROVE  LwInv'
      BY <3>1, LwStutters DEF os_lwm2m_client_write_resource, os_lwm2m_client_read_resource
    <3>2. ASSUME os_serialize_tlv_int \/ os_serialize_tlv_string PROVE LwInv'
      BY <3>2, LwStutters DEF os_serialize_tlv_int, os_serialize_tlv_string
    <3> QED BY <2>1, <3>1, <3>2, LwConnectStep, LwDisconnectStep, LwSetStep, LwUnsetStep
            DEF LwApplication
  <2>2. ASSUME LwDispatch PROVE LwInv'
    BY <2>2, LwServiceStep, LwIdleStep, LwEndsStep DEF LwDispatch
  <2>3. ASSUME NEW a \in LwAddrs,
               \/ on_exec_factory_reset(a) \/ on_exec_device_reboot(a)
               \/ on_exec_firmware_update(a) \/ on_resource_changed(a)
        PROVE  LwInv'
    BY <2>3, LwPostStep
    DEF on_exec_factory_reset, on_exec_device_reboot, on_exec_firmware_update, on_resource_changed
  <2> QED BY <2>1, <2>2, <2>3, LwStoreStep, LwObjectStep, LwStutters DEF LwClientNext
<1>3. LwInv => Lwm2mSound
  <2> SUFFICES ASSUME LwInv PROVE Lwm2mSound
    OBVIOUS
  <2>1. lwRefs \in Nat
    BY LwFinite DEF LwInv, LwTypes, LwHolds, LwLoopBalanced
  <2>2. LwTypeOK
    <3>1. \A t \in lwTimers : t.id \in 1..(lwNextId - 1) /\ t.node \in LwAddrs
      BY DEF LwInv, LwTypes, LwTimer, LwTimeouts
    <3>2. \A i \in lwIdles : i.id \in 1..lwPosts /\ i.node \in LwAddrs
      BY DEF LwInv, LwTypes, LwIdle, LwPosted
    <3>3. \A a \in LwLive : lwNodes[a].cbs \subseteq LwEvents /\ lwNodes[a].cbkId \in 0..MaxLwTimers
      BY DEF LwInv, LwTypes, LwNode
    <3>4. \A a \in LwAddrs : lwRegs[a] \subseteq IF a \in LwLive THEN {"execute", "changed"} ELSE {}
      BY DEF LwInv, LwTypes, LwRegistered
    <3> QED BY <2>1, <3>1, <3>2, <3>3, <3>4 DEF LwInv, LwTypes, LwTypeOK
  <2> QED BY <2>2 DEF LwInv, LwTimeouts, LwRegistered, LwHolds, Lwm2mSound
<1> QED BY <1>1, <1>2, <1>3, PTL DEF LwSpec

-----------------------------------------------------------------------------
(* Mqtt.  The list holds every client once, and a freed node only where    *)
(* creation failed half way; the clients that are listed hold one          *)
(* reference to the loop each, whatever fails and whatever the application *)
(* calls from its callbacks.                                               *)

MqClient == [loop : BOOLEAN, sock : 0..MaxConn, watch_id : 0..MaxConn, on : SUBSET Kinds,
             owed : SUBSET AllKinds]
MqPlaces == {"idle", "read", "write", "misc", "return 0", "return 1"}
MqHandler == [watch : 0..MaxConn, client : Addrs \cup {NoAddr}, at : MqPlaces]
MqFaults == {"none", "null_loop", "null_client", "freed_client", "freed_node"}

MqTypes ==
  /\ nodes \in Seq(Addrs) /\ freed \subseteq Addrs /\ known \subseteq Addrs
  /\ client \in [Addrs -> MqClient]
  /\ attached \subseteq Conns /\ owner \in [Conns -> Addrs \cup {NoAddr}] /\ last \in 0..MaxConn
  /\ handler \in MqHandler /\ cb \in AllKinds \cup {"none"} /\ mqttFault \in MqFaults

MqList ==
  /\ \A i, j \in DOMAIN nodes : nodes[i] = nodes[j] => i = j
  /\ \A a \in Listed : client[a].loop
  /\ IsFiniteSet(Listed) /\ loop_refs = Cardinality(Listed)

MqInv == MqTypes /\ MqList

(* A sequence without one of its elements.                                 *)
LEMMA RemovedAt ==
  ASSUME NEW S, NEW s \in Seq(S), NEW i \in 1..Len(s)
  PROVE  /\ RemoveAt(s, i) \in Seq(S) /\ Len(RemoveAt(s, i)) = Len(s) - 1
         /\ \A j \in 1..(Len(s) - 1) : RemoveAt(s, i)[j] = IF j < i THEN s[j] ELSE s[j + 1]
<1> DEFINE f == SubSeq(s, 1, i - 1)
           g == SubSeq(s, i + 1, Len(s))
<1>1. f \in Seq(S) /\ Len(f) = i - 1 /\ \A j \in 1..(i - 1) : f[j] = s[j]
  OBVIOUS
<1>2. g \in Seq(S) /\ Len(g) = Len(s) - i /\ \A j \in 1..(Len(s) - i) : g[j] = s[i + j]
  OBVIOUS
<1>3. RemoveAt(s, i) = f \o g
  BY DEF RemoveAt
<1> HIDE DEF f, g
<1>4. f \o g \in Seq(S) /\ Len(f \o g) = Len(s) - 1
  <2>1. f \o g \in Seq(S) /\ Len(f \o g) = Len(f) + Len(g)
    BY <1>1, <1>2, ConcatProperties
  <2>2. Len(s) \in Nat
    OBVIOUS
  <2> QED BY <1>1, <1>2, <2>1, <2>2
<1>5. ASSUME NEW j \in 1..(Len(s) - 1) PROVE (f \o g)[j] = IF j < i THEN s[j] ELSE s[j + 1]
  <2>1. CASE j < i
    BY <1>1, <1>2, <2>1
  <2>2. CASE j >= i
    <3>1. (f \o g)[j] = g[j - (i - 1)]
      BY <1>1, <1>2, <2>2
    <3>2. g[j - (i - 1)] = s[i + (j - (i - 1))] /\ i + (j - (i - 1)) = j + 1
      BY <1>2, <2>2
    <3> QED BY <2>2, <3>1, <3>2
  <2>3. j < i \/ j >= i
    OBVIOUS
  <2> QED BY <2>1, <2>2, <2>3, Zenon
<1> QED BY <1>3, <1>4, <1>5

(* The list without a node: the others are there, once each.               *)
LEMMA UnlinkedOnce ==
  ASSUME MqInv, NEW a \in Listed
  PROVE  /\ Unlinked(a) \in Seq(Addrs)
         /\ \A i, j \in DOMAIN Unlinked(a) : Unlinked(a)[i] = Unlinked(a)[j] => i = j
         /\ {Unlinked(a)[i] : i \in DOMAIN Unlinked(a)} = {nodes[i] : i \in DOMAIN nodes} \ {a}
<1> DEFINE p == CHOOSE i \in DOMAIN nodes : nodes[i] = a
           u == Unlinked(a)
<1>1. p \in 1..Len(nodes) /\ nodes[p] = a /\ nodes \in Seq(Addrs)
  BY DEF Listed, MqInv, MqTypes
<1>2. u = RemoveAt(nodes, p)
  BY DEF Unlinked
<1> HIDE DEF p, u
<1>3. /\ u \in Seq(Addrs) /\ Len(u) = Len(nodes) - 1
      /\ \A j \in 1..(Len(nodes) - 1) : u[j] = IF j < p THEN nodes[j] ELSE nodes[j + 1]
  BY <1>1, <1>2, RemovedAt
<1>4. \A i, j \in 1..Len(nodes) : nodes[i] = nodes[j] => i = j
  BY <1>1 DEF MqInv, MqList
<1>5. \A i, j \in DOMAIN u : u[i] = u[j] => i = j
  <2>1. Len(nodes) \in Nat /\ DOMAIN u = 1..(Len(nodes) - 1)
    BY <1>1, <1>3
  <2> SUFFICES ASSUME NEW i \in 1..(Len(nodes) - 1), NEW j \in 1..(Len(nodes) - 1), u[i] = u[j]
               PROVE  i = j
    BY <2>1
  <2> DEFINE from(k) == IF k < p THEN k ELSE k + 1
  <2>2. from(i) \in 1..Len(nodes) /\ from(j) \in 1..Len(nodes)
    BY <1>1, <2>1
  <2>3. u[i] = nodes[from(i)] /\ u[j] = nodes[from(j)]
    BY <1>3
  <2>4. from(i) = from(j)
    <3> HIDE DEF from
    <3> QED BY <1>4, <2>2, <2>3
  <2> QED BY <1>1, <2>1, <2>4
<1>6. \A i \in DOMAIN u : u[i] # a /\ \E j \in DOMAIN nodes : nodes[j] = u[i]
  <2>1. /\ Len(nodes) \in Nat /\ DOMAIN u = 1..(Len(nodes) - 1)
        /\ DOMAIN nodes = 1..Len(nodes)
    BY <1>1, <1>3
  <2> SUFFICES ASSUME NEW i \in 1..(Len(nodes) - 1)
               PROVE  u[i] # a /\ \E j \in 1..Len(nodes) : nodes[j] = u[i]
    BY <2>1
  <2>2. CASE i < p
    BY <1>1, <1>3, <1>4, <2>1, <2>2
  <2>3. CASE i >= p
    <3>1. u[i] = nodes[i + 1] /\ i + 1 \in 1..Len(nodes) /\ i + 1 # p
      BY <1>1, <1>3, <2>1, <2>3
    <3> QED BY <1>1, <1>4, <3>1
  <2> QED BY <1>1, <2>1, <2>2, <2>3
<1>7. \A j \in DOMAIN nodes : nodes[j] # a => \E i \in DOMAIN u : u[i] = nodes[j]
  <2> SUFFICES ASSUME NEW j \in 1..Len(nodes), j # p PROVE \E i \in 1..Len(u) : u[i] = nodes[j]
    BY <1>1, <1>3, SMTT(30)
  <2>1. CASE j < p
    <3>1. j \in 1..Len(u) /\ u[j] = nodes[j]
      BY <1>1, <1>3, <2>1
    <3> QED BY <3>1
  <2>2. CASE j > p
    <3>1. j - 1 \in 1..Len(u) /\ u[j - 1] = nodes[j]
      BY <1>1, <1>3, <2>2
    <3> QED BY <3>1
  <2> QED BY <1>1, <2>1, <2>2
<1>8. {u[i] : i \in DOMAIN u} = {nodes[i] : i \in DOMAIN nodes} \ {a}
  BY <1>6, <1>7
<1> QED BY <1>3, <1>5, <1>8 DEF u

(* Destroying a client that was found gives back its reference.            *)
LEMMA MqDestroyed ==
  ASSUME MqInv, NEW a \in Listed, a \in Addrs, Destroy(a), known' \subseteq known,
         UNCHANGED <<freed, owner, last, handler, cb, mqttFault>>
  PROVE  MqInv' /\ Listed' = Listed \ {a}
<1>1. /\ nodes' = Unlinked(a) /\ client' = [client EXCEPT ![a] = NoClient]
      /\ attached' = attached \ {client[a].watch_id} /\ loop_refs' = loop_refs - 1
  BY DEF Destroy
<1>2. NoClient \in MqClient
  BY MqttAssumption DEF NoClient, MqClient
<1>3. MqTypes'
  BY <1>1, <1>2, UnlinkedOnce DEF MqInv, MqTypes
<1>4. Listed' = Listed \ {a}
  <2>1. {nodes'[i] : i \in DOMAIN nodes'} = {nodes[i] : i \in DOMAIN nodes} \ {a}
    BY <1>1, UnlinkedOnce, ZenonT(60)
  <2>2. freed' = freed
    OBVIOUS
  <2> QED BY <2>1, <2>2 DEF Listed
<1>5. IsFiniteSet(Listed') /\ Cardinality(Listed') = Cardinality(Listed) - 1
  BY <1>4, FS_RemoveElement DEF MqInv, MqList
<1>6. \A b \in Listed' : b \in Listed /\ client'[b].loop
  <2> SUFFICES ASSUME NEW b \in Listed' PROVE b \in Listed /\ client'[b].loop
    OBVIOUS
  <2>1. b \in Listed /\ b # a
    BY <1>4
  <2>2. b \in Addrs
    BY <2>1 DEF Listed, MqInv, MqTypes
  <2> QED BY <1>1, <2>1, <2>2 DEF MqInv, MqList, MqTypes
<1>7. MqList'
  BY <1>1, <1>5, <1>6, UnlinkedOnce DEF MqInv, MqList
<1> QED BY <1>3, <1>4, <1>7 DEF MqInv

(* The fields of a client that operations set.                             *)
LEMMA MqOwes ==
  ASSUME NEW r \in MqClient, NEW o \in SUBSET AllKinds
  PROVE  [r EXCEPT !.owed = o] \in MqClient /\ [r EXCEPT !.owed = o].loop = r.loop
BY DEF MqClient

LEMMA MqClosed ==
  ASSUME NEW r \in MqClient
  PROVE  /\ [r EXCEPT !.sock = 0, !.owed = {}] \in MqClient
         /\ [r EXCEPT !.sock = 0, !.owed = {}].loop = r.loop
<1>1. 0 \in 0..MaxConn
  BY MqttAssumption
<1> QED BY <1>1 DEF MqClient

LEMMA MqConnected ==
  ASSUME NEW r \in MqClient, NEW n \in 0..MaxConn
  PROVE  /\ [r EXCEPT !.sock = n, !.watch_id = n, !.owed = {"connect"}] \in MqClient
         /\ [r EXCEPT !.sock = n, !.watch_id = n, !.owed = {"connect"}].loop = r.loop
<1>1. {"connect"} \in SUBSET AllKinds
  BY DEF AllKinds
<1> QED BY <1>1 DEF MqClient

(* A step that only sets fields of one client other than its loop.         *)
LEMMA MqFieldStep ==
  ASSUME MqInv, NEW a \in Addrs, NEW c \in MqClient, c.loop = client[a].loop,
         client' = [client EXCEPT ![a] = c], UNCHANGED <<nodes, freed, known, loop_refs>>,
         attached' \subseteq Conns, owner' \in [Conns -> Addrs \cup {NoAddr}], last' \in 0..MaxConn,
         handler' \in MqHandler, cb' \in AllKinds \cup {"none"}, mqttFault' \in MqFaults
  PROVE  MqInv' /\ Listed' = Listed
<1>1. MqTypes' /\ Listed' = Listed
  BY DEF MqInv, MqTypes, Listed
<1>2. \A b \in Listed : client'[b].loop
  <2> SUFFICES ASSUME NEW b \in Listed PROVE client'[b].loop
    OBVIOUS
  <2>1. b \in Addrs /\ client[b].loop
    BY DEF Listed, MqInv, MqTypes, MqList
  <2> QED BY <2>1 DEF MqInv, MqTypes
<1>3. MqList'
  BY <1>1, <1>2 DEF MqInv, MqList
<1> QED BY <1>1, <1>3 DEF MqInv

LEMMA MqStutters ==
  ASSUME MqInv, UNCHANGED <<nodes, freed, client, known, loop_refs>>,
         attached' \subseteq Conns, owner' \in [Conns -> Addrs \cup {NoAddr}], last' \in 0..MaxConn,
         handler' \in MqHandler, cb' \in AllKinds \cup {"none"}, mqttFault' \in MqFaults
  PROVE  MqInv' /\ Listed' = Listed
<1>1. MqTypes' /\ Listed' = Listed
  BY DEF MqInv, MqTypes, Listed
<1>2. MqList'
  BY <1>1 DEF MqInv, MqList
<1> QED BY <1>1, <1>2 DEF MqInv

LEMMA MqCrash ==
  ASSUME MqInv, NEW why \in MqFaults, Crash(why)
  PROVE  MqInv'
<1>1. /\ UNCHANGED <<nodes, freed, client, known, loop_refs, attached, owner, last, handler, cb>>
      /\ mqttFault' \in MqFaults
  BY DEF Crash
<1>2. /\ attached' \subseteq Conns /\ owner' \in [Conns -> Addrs \cup {NoAddr}] /\ last' \in 0..MaxConn
      /\ handler' \in MqHandler /\ cb' \in AllKinds \cup {"none"}
  BY <1>1 DEF MqInv, MqTypes
<1> QED BY <1>1, <1>2, MqStutters

(* A node more at the end of the list.                                     *)
LEMMA MqCreated ==
  ASSUME MqInv, NEW a \in Addrs, mqtt_create_client(a)
  PROVE  MqInv' /\ Listed' = Listed \cup {a}
<1>1. /\ a \notin Listed /\ freed = {} /\ nodes' = Append(nodes, a) /\ known' = known \cup {a}
      /\ client' = [client EXCEPT ![a] = [NoClient EXCEPT !.loop = TRUE]]
      /\ loop_refs' = loop_refs + 1
      /\ UNCHANGED <<freed, attached, owner, last, handler, cb, mqttFault>>
  BY DEF mqtt_create_client
<1>2. [NoClient EXCEPT !.loop = TRUE] \in MqClient /\ [NoClient EXCEPT !.loop = TRUE].loop
  <2>1. NoClient \in MqClient
    BY MqttAssumption DEF NoClient, MqClient
  <2>2. \A r \in MqClient : [r EXCEPT !.loop = TRUE] \in MqClient /\ [r EXCEPT !.loop = TRUE].loop
    BY DEF MqClient
  <2> QED BY <2>1, <2>2, Zenon
<1>3. MqTypes'
  BY <1>1, <1>2 DEF MqInv, MqTypes
<1>4. /\ nodes' \in Seq(Addrs) /\ Len(nodes') = Len(nodes) + 1 /\ nodes'[Len(nodes) + 1] = a
      /\ \A i \in 1..Len(nodes) : nodes'[i] = nodes[i] /\ nodes[i] # a
  BY <1>1 DEF MqInv, MqTypes, Listed
<1>5. \A i, j \in DOMAIN nodes' : nodes'[i] = nodes'[j] => i = j
  BY <1>4 DEF MqInv, MqTypes, MqList
<1>6. Listed' = Listed \cup {a}
  <2>1. /\ Len(nodes) \in Nat /\ DOMAIN nodes = 1..Len(nodes)
        /\ DOMAIN nodes' = 1..(Len(nodes) + 1)
    BY <1>4 DEF MqInv, MqTypes
  <2>2. {nodes'[i] : i \in DOMAIN nodes'} = {nodes[i] : i \in DOMAIN nodes} \cup {a}
    BY <1>4, <2>1
  <2> QED BY <1>1, <2>2 DEF Listed
<1>7. IsFiniteSet(Listed') /\ Cardinality(Listed') = Cardinality(Listed) + 1
  BY <1>1, <1>6, FS_AddElement DEF MqInv, MqList
<1>8. \A b \in Listed' : client'[b].loop
  <2> SUFFICES ASSUME NEW b \in Listed' PROVE client'[b].loop
    OBVIOUS
  <2>1. CASE b = a
    BY <1>1, <1>2, <2>1 DEF MqInv, MqTypes
  <2>2. CASE b # a
    <3>1. b \in Listed /\ b \in Addrs
      BY <1>6, <2>2 DEF Listed, MqInv, MqTypes
    <3> QED BY <1>1, <2>2, <3>1 DEF MqInv, MqTypes, MqList
  <2> QED BY <2>1, <2>2
<1>9. MqList'
  BY <1>1, <1>5, <1>7, <1>8 DEF MqInv, MqList
<1> QED BY <1>3, <1>6, <1>9 DEF MqInv

LEMMA MqHalfCreated ==
  ASSUME MqInv, NEW a \in Addrs, CreateNoInstance(a)
  PROVE  MqInv'
<1>1. /\ a \notin Listed /\ freed = {} /\ nodes' = Append(nodes, a) /\ freed' = {a}
      /\ UNCHANGED <<client, known, loop_refs, attached, owner, last, handler, cb, mqttFault>>
  BY DEF CreateNoInstance
<1>2. MqTypes'
  BY <1>1 DEF MqInv, MqTypes
<1>3. /\ nodes' \in Seq(Addrs) /\ Len(nodes') = Len(nodes) + 1 /\ nodes'[Len(nodes) + 1] = a
      /\ \A i \in 1..Len(nodes) : nodes'[i] = nodes[i] /\ nodes[i] # a
  BY <1>1 DEF MqInv, MqTypes, Listed
<1>4. \A i, j \in DOMAIN nodes' : nodes'[i] = nodes'[j] => i = j
  BY <1>3 DEF MqInv, MqTypes, MqList
<1>5. Listed' = Listed
  <2>1. /\ Len(nodes) \in Nat /\ DOMAIN nodes = 1..Len(nodes)
        /\ DOMAIN nodes' = 1..(Len(nodes) + 1)
    BY <1>3 DEF MqInv, MqTypes
  <2>2. {nodes'[i] : i \in DOMAIN nodes'} = {nodes[i] : i \in DOMAIN nodes} \cup {a}
    BY <1>3, <2>1
  <2>3. a \notin {nodes[i] : i \in DOMAIN nodes}
    BY <1>3, <2>1
  <2> QED BY <1>1, <2>2, <2>3 DEF Listed
<1>6. MqList'
  BY <1>1, <1>4, <1>5 DEF MqInv, MqList
<1> QED BY <1>2, <1>6 DEF MqInv

(* The operations on a client that was found.                              *)
LEMMA MqUsed ==
  ASSUME MqInv, NEW a \in Addrs,
         \/ \E k \in Kinds : mqtt_set(a, k)
         \/ mqtt_connect(a) \/ ConnectRefused(a) \/ mqtt_disconnect(a)
         \/ \E k \in Kinds : Ask(a, k)
  PROVE  MqInv' /\ Listed' = Listed
<1> DEFINE Rest == UNCHANGED <<nodes, freed, known, loop_refs, handler, mqttFault>>
<1>0. client[a] \in MqClient /\ MqTypes
  BY DEF MqInv, MqTypes
<1>6. /\ 0 \in 0..MaxConn /\ {} \in SUBSET AllKinds /\ {"connect"} \in SUBSET AllKinds
      /\ \A o \in SUBSET AllKinds : o \cup {"disconnect"} \in SUBSET AllKinds
      /\ \A k \in Kinds, o \in SUBSET AllKinds : o \cup {k} \in SUBSET AllKinds
      /\ client[a].owed \in SUBSET AllKinds
  BY <1>0, MqttAssumption DEF AllKinds, MqClient
<1>1. ASSUME NEW k \in Kinds, mqtt_set(a, k) PROVE MqInv' /\ Listed' = Listed
  <2> DEFINE c == [client[a] EXCEPT !.on = client[a].on \cup {k}]
  <2>1. c \in MqClient /\ c.loop = client[a].loop
    BY <1>0 DEF MqClient
  <2>2. client' = [client EXCEPT ![a] = c] /\ Rest /\ UNCHANGED <<attached, owner, last, cb>>
    BY <1>1 DEF mqtt_set
  <2> HIDE DEF c
  <2> QED BY <1>0, <2>1, <2>2, MqFieldStep DEF MqTypes
<1>2. ASSUME mqtt_connect(a) PROVE MqInv' /\ Listed' = Listed
  <2> DEFINE c == [client[a] EXCEPT !.sock = last + 1, !.watch_id = last + 1, !.owed = {"connect"}]
  <2>1. /\ last < MaxConn /\ last' = last + 1 /\ Rest /\ UNCHANGED cb
        /\ attached' = attached \cup {last'} /\ owner' = [owner EXCEPT ![last'] = a]
        /\ client' = [client EXCEPT ![a] = c]
    BY <1>2 DEF mqtt_connect
  <2>2. last + 1 \in 1..MaxConn
    BY <1>0, <2>1, MqttAssumption DEF MqTypes
  <2>3. c \in MqClient /\ c.loop = client[a].loop
    <3>1. last + 1 \in 0..MaxConn
      BY <2>2
    <3> QED BY <1>0, <3>1, MqConnected, Zenon
  <2>4. attached' \subseteq Conns /\ owner' \in [Conns -> Addrs \cup {NoAddr}] /\ last' \in 0..MaxConn
    BY <1>0, <2>1, <2>2 DEF MqTypes, Conns
  <2> HIDE DEF c
  <2> QED BY <1>0, <2>1, <2>3, <2>4, MqFieldStep DEF MqTypes
<1>3. ASSUME ConnectRefused(a) PROVE MqInv' /\ Listed' = Listed
  <2> DEFINE c == [client[a] EXCEPT !.sock = 0, !.owed = {}]
  <2>1. c \in MqClient /\ c.loop = client[a].loop
    BY <1>0, <1>6, MqOwes, MqClosed, Zenon
  <2>2. client' = [client EXCEPT ![a] = c] /\ Rest /\ UNCHANGED <<attached, owner, last, cb>>
    BY <1>3 DEF ConnectRefused
  <2> HIDE DEF c
  <2> QED BY <1>0, <2>1, <2>2, MqFieldStep DEF MqTypes
<1>4. ASSUME mqtt_disconnect(a) PROVE MqInv' /\ Listed' = Listed
  <2> DEFINE c == [client[a] EXCEPT !.sock = 0, !.owed = {}]
             d == [client[a] EXCEPT !.owed = client[a].owed \cup {"disconnect"}]
  <2>1. /\ c \in MqClient /\ c.loop = client[a].loop
        /\ d \in MqClient /\ d.loop = client[a].loop
    BY <1>0, <1>6, MqOwes, MqClosed, Zenon
  <2>2. Rest /\ UNCHANGED <<attached, owner, last>>
    BY <1>4 DEF mqtt_disconnect
  <2>3. cb' \in AllKinds \cup {"none"}
    BY <1>0, <1>4 DEF mqtt_disconnect, Notify, MqTypes, AllKinds
  <2>4. client' = [client EXCEPT ![a] = c] \/ client' = [client EXCEPT ![a] = d]
    BY <1>4 DEF mqtt_disconnect, Closed
  <2> HIDE DEF c, d
  <2> QED BY <1>0, <2>1, <2>2, <2>3, <2>4, MqFieldStep DEF MqTypes
<1>5. ASSUME NEW k \in Kinds, Ask(a, k) PROVE MqInv' /\ Listed' = Listed
  <2> DEFINE c == [client[a] EXCEPT !.owed = client[a].owed \cup {k}]
  <2>1. c \in MqClient /\ c.loop = client[a].loop
    BY <1>0, <1>6, MqOwes, MqClosed, Zenon
  <2>2. client' = [client EXCEPT ![a] = c] /\ Rest /\ UNCHANGED <<attached, owner, last, cb>>
    BY <1>5 DEF Ask
  <2> HIDE DEF c
  <2> QED BY <1>0, <2>1, <2>2, MqFieldStep DEF MqTypes
<1> QED BY <1>1, <1>2, <1>3, <1>4, <1>5

(* The watch handler.                                                      *)
LEMMA MqHandlerStep ==
  ASSUME MqInv, (\E w \in Conns : HandlerStart(w)) \/ HandlerSteps
  PROVE  MqInv'
<1>0. /\ MqTypes /\ (mqttFault \in MqFaults)
      /\ \A p \in MqPlaces : [handler EXCEPT !.at = p] \in MqHandler
  BY DEF MqInv, MqTypes, MqHandler
<1>1. ASSUME NEW w \in Conns, HandlerStart(w) PROVE MqInv'
  <2>1. handler' = [watch |-> w, client |-> owner[w],
                    at |-> IF owner[w] \in Listed THEN "read" ELSE "return 0"]
        /\ UNCHANGED <<nodes, freed, client, known, loop_refs, attached, owner, last, cb, mqttFault>>
    BY <1>1 DEF HandlerStart, others
  <2>2. handler' \in MqHandler
    <3>1. (IF owner[w] \in Listed THEN "read" ELSE "return 0") \in MqPlaces
      BY DEF MqPlaces
    <3>2. w \in 0..MaxConn /\ owner[w] \in Addrs \cup {NoAddr}
      BY <1>0 DEF MqTypes, Conns
    <3> QED BY <2>1, <3>1, <3>2, Zenon DEF MqHandler
  <2> QED BY <1>0, <2>1, <2>2, MqStutters DEF MqTypes
<1>2. ASSUME LibraryFails \/ LoopRead \/ LoopWrite PROVE MqInv'
  <2> DEFINE a == handler.client
  <2>1. /\ UNCHANGED <<nodes, freed, known, loop_refs, attached, owner, last, mqttFault>>
        /\ a \in Listed
    BY <1>2, Zenon DEF LibraryFails, LoopRead, LoopWrite, others
  <2>2. a \in Addrs
    BY <2>1 DEF Listed, MqInv, MqTypes
  <2>3. client[a] \in MqClient
    BY <1>0, <2>2 DEF MqTypes
  <2>4. handler' \in MqHandler
    BY <1>0, <1>2 DEF LibraryFails, LoopRead, LoopWrite, Place, MqPlaces
  <2>5. cb' \in AllKinds \cup {"none"}
    <3>1. cb = "none" /\ client[a].owed \subseteq AllKinds
      BY <1>2, <2>3 DEF LibraryFails, LoopRead, LoopWrite, MqClient
    <3>2. cb' = cb \/ cb' = "none" \/ \E k \in AllKinds : cb' = k
      <4>1. CASE LibraryFails \/ LoopWrite
        BY <4>1 DEF LibraryFails, LoopWrite, Notify, AllKinds
      <4>2. CASE LoopRead
        BY <3>1, <4>2 DEF LoopRead, Notify, AllKinds
      <4> QED BY <1>2, <4>1, <4>2
    <3> QED BY <3>1, <3>2
  <2>6. \/ client' = client
        \/ client' = [client EXCEPT ![a] = [client[a] EXCEPT !.sock = 0, !.owed = {}]]
        \/ \E k \in AllKinds : client' = [client EXCEPT ![a] = [client[a] EXCEPT !.owed = client[a].owed \ {k}]]
    <3>1. CASE LibraryFails \/ LoopWrite
      BY <3>1 DEF LibraryFails, LoopWrite, Closed
    <3>2. CASE LoopRead
      <4>1. client[a].owed \subseteq AllKinds
        BY <2>3 DEF MqClient
      <4> QED BY <3>2, <4>1 DEF LoopRead
    <3> QED BY <1>2, <3>1, <3>2
  <2> HIDE DEF a
  <2>7. CASE client' = client
    BY <1>0, <2>1, <2>4, <2>5, <2>7, MqStutters DEF MqTypes
  <2>8. CASE client' = [client EXCEPT ![a] = [client[a] EXCEPT !.sock = 0, !.owed = {}]]
    <3>1. /\ [client[a] EXCEPT !.sock = 0, !.owed = {}] \in MqClient
          /\ [client[a] EXCEPT !.sock = 0, !.owed = {}].loop = client[a].loop
      BY <2>3, MqClosed, Zenon
    <3> QED BY <1>0, <2>1, <2>2, <2>4, <2>5, <2>8, <3>1, MqFieldStep DEF MqTypes
  <2>9. ASSUME NEW k \in AllKinds,
               client' = [client EXCEPT ![a] = [client[a] EXCEPT !.owed = client[a].owed \ {k}]]
        PROVE  MqInv'
    <3>1. client[a].owed \ {k} \in SUBSET AllKinds
      BY <2>3 DEF MqClient
    <3>2. /\ [client[a] EXCEPT !.owed = client[a].owed \ {k}] \in MqClient
          /\ [client[a] EXCEPT !.owed = client[a].owed \ {k}].loop = client[a].loop
      BY <2>3, <3>1, MqOwes, Zenon
    <3> QED BY <1>0, <2>1, <2>2, <2>4, <2>5, <2>9, <3>2, MqFieldStep DEF MqTypes
  <2> QED BY <2>6, <2>7, <2>8, <2>9
<1>3. ASSUME LoopMisc PROVE MqInv'
  <2>1. /\ handler' = [handler EXCEPT !.at = "return 1"] /\ "return 1" \in MqPlaces
        /\ UNCHANGED <<nodes, freed, client, known, loop_refs, attached, owner, last, cb, mqttFault>>
    BY <1>3 DEF LoopMisc, others, Place, MqPlaces
  <2> QED BY <1>0, <2>1, MqStutters DEF MqTypes
<1>4. ASSUME HandlerUsesFreed PROVE MqInv'
  BY <1>4, MqCrash DEF HandlerUsesFreed, MqFaults
<1>5. ASSUME HandlerReturns PROVE MqInv'
  <2>1. /\ UNCHANGED <<nodes, freed, client, known, loop_refs, owner, last, cb, mqttFault>>
        /\ attached' \subseteq attached /\ handler' = Idle
    BY <1>5 DEF HandlerReturns
  <2>2. handler' \in MqHandler
    BY <2>1, MqttAssumption DEF Idle, MqHandler, MqPlaces
  <2> QED BY <1>0, <2>1, <2>2, MqStutters DEF MqTypes
<1>6. ASSUME CallbackReturns PROVE MqInv'
  BY <1>0, <1>6, MqStutters DEF CallbackReturns, others, MqTypes
<1> QED BY <1>1, <1>2, <1>3, <1>4, <1>5, <1>6 DEF HandlerSteps

(* Every step keeps the invariant.                                         *)
LEMMA MqStep ==
  ASSUME MqInv, MqttNext
  PROVE  MqInv'
<1>1. ASSUME NEW a \in Addrs, mqtt_destroy_client(a) \/ ConnectNoSocket(a) PROVE MqInv'
  <2>1. /\ a \in Listed /\ Destroy(a) /\ known' \subseteq known
        /\ UNCHANGED <<freed, owner, last, handler, cb, mqttFault>>
    BY <1>1, Zenon DEF mqtt_destroy_client, ConnectNoSocket, Found
  <2> QED BY <2>1, MqDestroyed
<1>2. ASSUME NEW a \in Addrs, CreateBadOption(a) \/ WalkFreedNode(a) \/ DisconnectStale(a) PROVE MqInv'
  <2>1. Crash("null_loop") \/ Crash("freed_node") \/ Crash("null_client")
    BY <1>2, Zenon DEF CreateBadOption, WalkFreedNode, DisconnectStale
  <2> QED BY <2>1, MqCrash DEF MqFaults
<1>3. ASSUME NEW a \in Addrs,
             mqtt_subscribe(a) \/ mqtt_unsubscribe(a) \/ \E len \in 0..1 : mqtt_publish(a, len)
      PROVE  \E k \in Kinds : Ask(a, k)
  <2>1. Ask(a, "subscribe") \/ Ask(a, "unsubscribe") \/ Ask(a, "publish")
    BY <1>3, Zenon DEF mqtt_subscribe, mqtt_unsubscribe, mqtt_publish
  <2> QED BY <2>1 DEF Ask
<1> QED BY <1>1, <1>2, <1>3, MqCreated, MqHalfCreated, MqUsed, MqHandlerStep DEF MqttNext

LEMMA MqttInductive == MqttSpec => []MqInv
<1>1. MqttInit => MqInv
  <2> SUFFICES ASSUME MqttInit PROVE MqInv
    OBVIOUS
  <2>1. NoClient \in MqClient
    BY MqttAssumption DEF NoClient, MqClient
  <2>2. Idle \in MqHandler
    BY MqttAssumption DEF Idle, MqHandler, MqPlaces
  <2>3. MqTypes
    BY <2>1, <2>2, MqttAssumption DEF MqttInit, MqTypes, MqFaults
  <2>4. Listed = {}
    BY DEF MqttInit, Listed
  <2>5. MqList
    BY <2>4, FS_EmptySet DEF MqttInit, MqList
  <2> QED BY <2>3, <2>5 DEF MqInv
<1>2. MqInv /\ [MqttNext]_mqttVars => MqInv'
  <2>1. MqInv /\ UNCHANGED mqttVars => MqInv'
    BY DEF MqInv, MqTypes, MqList, Listed, mqttVars
  <2> QED BY <2>1, MqStep
<1> QED BY <1>1, <1>2, PTL DEF MqttSpec

(* mqtt_client.c: the loop module is held once for every client that is on *)
(* the list, whatever calls fail and whatever the application's callbacks  *)
(* do, and given back when destroy_client takes the client off the list.   *)
THEOREM LoopIsBalanced == MqttSpec => []LoopBalanced
<1>1. MqInv => LoopBalanced
  <2> SUFFICES ASSUME MqInv PROVE LoopBalanced
    OBVIOUS
  <2>1. {a \in Listed : client[a].loop} = Listed
    BY DEF MqInv, MqList
  <2> QED BY <2>1 DEF MqInv, MqList, LoopBalanced
<1> QED BY <1>1, MqttInductive, PTL

(* Where nothing fails, no callback destroys a client and no client        *)
(* connects again, what the application knows is listed, every watch on    *)
(* the loop is the one of a listed client, which a handler under way goes  *)
(* on finding, and the certificate files are those of the one client.      *)
MqWatched ==
  /\ freed = {} /\ known \subseteq Listed /\ mqttFault = "none"
  /\ \A w \in attached : owner[w] \in Listed /\ client[owner[w]].watch_id = w
  /\ handler.at \in {"read", "write", "misc"} => handler.client \in Listed

MqFiles ==
  /\ ~UseTls => loaded = NoAddr
  /\ UseTls => /\ Listed = {} => tls_files = NoAddr
               /\ \A a \in Listed : tls_files = a
  /\ loaded = NoAddr \/ loaded[1] = loaded[2]

MqSafe == MqInv /\ MqWatched /\ MqFiles

MqCareful ==
  /\ Fails = {} /\ Reconnects = FALSE
  /\ \A k \in AllKinds : "destroy" \notin CallbackOps[k]
  /\ UseTls => \A a, b \in Addrs : a = b

(* A step that leaves the list, the watches and the files as they are, and *)
(* the watch of every client.                                              *)
LEMMA MqSafeStep ==
  ASSUME MqSafe, MqInv', UNCHANGED <<nodes, freed, known, owner, tls_files, loaded, mqttFault>>,
         attached' \subseteq attached,
         \A a \in Addrs : client'[a].watch_id = client[a].watch_id,
         handler'.at \in {"read", "write", "misc"} => handler'.client \in Listed
  PROVE  MqSafe'
<1>1. Listed' = Listed
  BY DEF Listed
<1>2. \A a \in Listed : a \in Addrs
  BY DEF MqSafe, MqInv, MqTypes, Listed
<1>3. MqWatched' /\ MqFiles'
  BY <1>1, <1>2 DEF MqSafe, MqWatched, MqFiles
<1> QED BY <1>3 DEF MqSafe

LEMMA MqSafeCreate ==
  ASSUME MqCareful, MqSafe, NEW a \in Addrs, mqtt_create_client(a)
  PROVE  MqSafe'
<1>1. MqInv' /\ Listed' = Listed \cup {a}
  BY MqCreated DEF MqSafe
<1>2. /\ a \notin Listed /\ known' = known \cup {a}
      /\ client' = [client EXCEPT ![a] = [NoClient EXCEPT !.loop = TRUE]]
      /\ UNCHANGED <<freed, attached, owner, last, handler, cb, loaded, mqttFault>>
      /\ tls_write_temp_cert_files(a)
  BY DEF mqtt_create_client
<1>3. \A b \in Listed : b \in Addrs
  BY DEF MqSafe, MqInv, MqTypes, Listed
<1>4. MqWatched'
  <2>1. ASSUME NEW w \in attached PROVE owner[w] \in Listed' /\ client'[owner[w]].watch_id = w
    <3>1. owner[w] \in Listed /\ owner[w] # a /\ owner[w] \in Addrs /\ client[owner[w]].watch_id = w
      BY <1>2, <1>3 DEF MqSafe, MqWatched
    <3> QED BY <1>1, <1>2, <3>1 DEF MqSafe, MqInv, MqTypes
  <2> QED BY <1>1, <1>2, <2>1 DEF MqSafe, MqWatched
<1>5. MqFiles'
  <2>1. CASE ~UseTls
    BY <1>2, <2>1 DEF MqSafe, MqFiles
  <2>2. CASE UseTls
    <3>1. Listed = {}
      BY <1>2, <1>3, <2>2 DEF MqCareful
    <3>2. tls_files' = a
      BY <1>2, <2>2, <3>1 DEF tls_write_temp_cert_files, MqSafe, MqFiles
    <3> QED BY <1>1, <1>2, <2>2, <3>1, <3>2 DEF MqSafe, MqFiles
  <2> QED BY <2>1, <2>2
<1> QED BY <1>1, <1>4, <1>5 DEF MqSafe

LEMMA MqSafeDestroy ==
  ASSUME MqCareful, MqSafe, NEW a \in Addrs, mqtt_destroy_client(a)
  PROVE  MqSafe'
<1>1. /\ handler.at = "idle" /\ a \in Listed /\ Destroy(a) /\ known' = known \ {a}
      /\ UNCHANGED <<freed, owner, last, handler, cb, loaded, mqttFault>>
  <2>1. handler.at = "idle"
    BY DEF mqtt_destroy_client, App, MqCareful, MqSafe, MqInv, MqTypes
  <2> QED BY <2>1, Zenon DEF mqtt_destroy_client, Found
<1>2. MqInv' /\ Listed' = Listed \ {a}
  BY <1>1, MqDestroyed DEF MqSafe
<1>3. /\ client' = [client EXCEPT ![a] = NoClient] /\ attached' = attached \ {client[a].watch_id}
      /\ tls_files' = IF UseTls THEN NoAddr ELSE tls_files
  BY <1>1 DEF Destroy
<1>4. \A b \in Listed : b \in Addrs
  BY DEF MqSafe, MqInv, MqTypes, Listed
<1>5. MqWatched'
  <2>1. ASSUME NEW w \in attached' PROVE owner[w] \in Listed' /\ client'[owner[w]].watch_id = w
    <3>1. w \in attached /\ w # client[a].watch_id
      BY <1>3
    <3>2. owner[w] \in Listed /\ owner[w] \in Addrs /\ client[owner[w]].watch_id = w
      BY <1>4, <3>1 DEF MqSafe, MqWatched
    <3>3. owner[w] # a
      BY <3>1, <3>2
    <3> QED BY <1>2, <1>3, <3>2, <3>3 DEF MqSafe, MqInv, MqTypes
  <2>2. handler' = handler /\ handler.at \notin {"read", "write", "misc"}
    BY <1>1
  <2> QED BY <1>1, <1>2, <2>1, <2>2 DEF MqSafe, MqWatched
<1>6. MqFiles'
  <2>1. UseTls => Listed' = {}
    BY <1>2, <1>4 DEF MqCareful
  <2> QED BY <1>1, <1>3, <2>1 DEF MqSafe, MqFiles
<1> QED BY <1>2, <1>5, <1>6 DEF MqSafe

LEMMA MqSafeConnect ==
  ASSUME MqCareful, MqSafe, NEW a \in Addrs, mqtt_connect(a)
  PROVE  MqSafe'
<1>1. /\ a \in Listed /\ client[a].watch_id = 0 /\ last' = last + 1
      /\ client' = [client EXCEPT ![a].sock = last', ![a].watch_id = last', ![a].owed = {"connect"}]
      /\ attached' = attached \cup {last'} /\ owner' = [owner EXCEPT ![last'] = a]
      /\ loaded' = IF UseTls THEN <<a, tls_files>> ELSE loaded
      /\ UNCHANGED <<nodes, freed, known, loop_refs, handler, cb, tls_files, mqttFault>>
  BY DEF mqtt_connect, Found, MqCareful
<1>2. MqInv' /\ Listed' = Listed
  BY MqUsed DEF MqSafe
<1>3. last' \in Conns
  <2>1. last < MaxConn /\ last \in 0..MaxConn
    BY DEF mqtt_connect, MqSafe, MqInv, MqTypes
  <2> QED BY <1>1, <2>1, MqttAssumption DEF Conns
<1>4. ASSUME NEW w \in attached' PROVE owner'[w] \in Listed' /\ client'[owner'[w]].watch_id = w
  <2>0. client \in [Addrs -> MqClient] /\ client[a] \in MqClient /\ owner \in [Conns -> Addrs \cup {NoAddr}]
    BY DEF MqSafe, MqInv, MqTypes
  <2>1. CASE w = last'
    <3>1. owner'[w] = a
      BY <1>1, <1>3, <2>0, <2>1
    <3>2. client'[a].watch_id = last'
      BY <1>1, <2>0 DEF MqClient
    <3>3. owner'[w] \in Listed'
      <4>1. a \in Listed'
        BY <1>1, <1>2, Zenon
      <4> QED BY <3>1, <4>1
    <3>4. client'[owner'[w]].watch_id = w
      BY <2>1, <3>1, <3>2, Zenon
    <3> QED BY <3>3, <3>4
  <2>2. CASE w # last'
    <3>1. w \in attached /\ w \in Conns /\ w # 0
      BY <1>1, <2>2 DEF MqSafe, MqInv, MqTypes, Conns
    <3>2. owner'[w] = owner[w] /\ owner[w] \in Listed /\ client[owner[w]].watch_id = w
      BY <1>1, <1>3, <2>0, <2>2, <3>1 DEF MqSafe, MqWatched
    <3>3. owner[w] # a /\ owner[w] \in Addrs
      BY <1>1, <3>1, <3>2 DEF Listed, MqSafe, MqInv, MqTypes
    <3> QED BY <1>1, <1>2, <2>0, <3>2, <3>3
  <2> QED BY <2>1, <2>2
<1>5. MqWatched'
  BY <1>1, <1>2, <1>4 DEF MqSafe, MqWatched
<1>6. MqFiles'
  <2>1. UseTls => tls_files = a
    BY <1>1 DEF MqSafe, MqFiles
  <2> QED BY <1>1, <1>2, <2>1 DEF MqSafe, MqFiles
<1> QED BY <1>2, <1>5, <1>6 DEF MqSafe

(* mqtt_client.c, as long as nothing fails, no callback destroys a client, *)
(* no client connects again and clients with certificates are used one at  *)
(* a time: no freed client or closed instance is used, nothing of a        *)
(* destroyed client is left on the loop, and every connection is made with *)
(* the client's own certificates.                                          *)
THEOREM MqttIsSound ==
  ASSUME MqCareful
  PROVE  MqttSpec => []MqttSound
<1>1. MqttInit /\ MqInv => MqSafe
  <2> SUFFICES ASSUME MqttInit, MqInv PROVE MqSafe
    OBVIOUS
  <2>1. Listed = {}
    BY DEF MqttInit, Listed
  <2> QED BY <2>1 DEF MqttInit, Idle, MqSafe, MqWatched, MqFiles
<1>2. MqInv' /\ MqSafe /\ [MqttNext]_mqttVars => MqSafe'
  <2> SUFFICES ASSUME MqInv', MqSafe, [MqttNext]_mqttVars PROVE MqSafe'
    OBVIOUS
  <2>0. \A a \in Listed : a \in Addrs /\ client[a] \in MqClient
    BY DEF MqSafe, MqInv, MqTypes, Listed
  <2>1. CASE UNCHANGED mqttVars
    BY <2>1 DEF mqttVars, MqSafe, MqWatched, MqFiles, Listed
  <2>2. ASSUME NEW a \in Addrs,
               \/ CreateNoInstance(a) \/ CreateBadOption(a) \/ WalkFreedNode(a)
               \/ ConnectNoSocket(a) \/ ConnectRefused(a) \/ DisconnectStale(a)
        PROVE  FALSE
    BY <2>2 DEF CreateNoInstance, CreateBadOption, WalkFreedNode, ConnectNoSocket, ConnectRefused,
                DisconnectStale, WalkFaults, MqCareful, MqSafe, MqWatched
  <2>3. ASSUME NEW a \in Addrs,
               \/ \E k \in Kinds : mqtt_set(a, k)
               \/ mqtt_disconnect(a) \/ \E k \in Kinds : Ask(a, k)
        PROVE  MqSafe'
    <3>1. UNCHANGED <<nodes, freed, known, owner, tls_files, loaded, mqttFault, attached, handler>>
      BY <2>3, Zenon DEF mqtt_set, mqtt_disconnect, Ask
    <3>2. \A b \in Addrs : client'[b].watch_id = client[b].watch_id
      <4>1. client \in [Addrs -> MqClient]
        BY DEF MqSafe, MqInv, MqTypes
      <4>2. CASE \E k \in Kinds : mqtt_set(a, k)
        <5>1. PICK k \in Kinds : client' = [client EXCEPT ![a].on = client[a].on \cup {k}]
          BY <4>2 DEF mqtt_set
        <5> QED BY <4>1, <5>1 DEF MqClient
      <4>3. CASE mqtt_disconnect(a)
        <5>1. \/ client' = [client EXCEPT ![a].sock = 0, ![a].owed = {}]
              \/ client' = [client EXCEPT ![a].owed = client[a].owed \cup {"disconnect"}]
          BY <4>3 DEF mqtt_disconnect, Closed
        <5> QED BY <4>1, <5>1 DEF MqClient
      <4>4. CASE \E k \in Kinds : Ask(a, k)
        <5>1. PICK k \in Kinds : client' = [client EXCEPT ![a].owed = client[a].owed \cup {k}]
          BY <4>4 DEF Ask
        <5> QED BY <4>1, <5>1 DEF MqClient
      <4> QED BY <2>3, <4>2, <4>3, <4>4
    <3> QED BY <3>1, <3>2, MqSafeStep DEF MqSafe, MqWatched
  <2>4. ASSUME NEW a \in Addrs,
               mqtt_subscribe(a) \/ mqtt_unsubscribe(a) \/ \E len \in 0..1 : mqtt_publish(a, len)
        PROVE  MqSafe'
    <3>1. Ask(a, "subscribe") \/ Ask(a, "unsubscribe") \/ Ask(a, "publish")
      BY <2>4, Zenon DEF mqtt_subscribe, mqtt_unsubscribe, mqtt_publish
    <3> QED BY <2>3, <3>1 DEF Ask
  <2>5. ASSUME NEW w \in Conns, HandlerStart(w) PROVE MqSafe'
    <3>1. /\ UNCHANGED <<nodes, freed, known, owner, tls_files, loaded, mqttFault, attached, client>>
          /\ w \in attached
          /\ handler' = [watch |-> w, client |-> owner[w],
                         at |-> IF owner[w] \in Listed THEN "read" ELSE "return 0"]
      BY <2>5 DEF HandlerStart, others
    <3> QED BY <3>1, MqSafeStep DEF MqSafe, MqWatched
  <2>6. ASSUME LibraryFails \/ LoopRead \/ LoopWrite \/ LoopMisc PROVE MqSafe'
    <3>1. UNCHANGED <<nodes, freed, known, owner, tls_files, loaded, mqttFault, attached>>
      BY <2>6, Zenon DEF LibraryFails, LoopRead, LoopWrite, LoopMisc, others
    <3>2. handler.client \in Listed
      BY <2>6, Zenon DEF LibraryFails, LoopRead, LoopWrite, LoopMisc
    <3>3. \E p \in MqPlaces : handler' = [handler EXCEPT !.at = p]
      BY <2>6 DEF LibraryFails, LoopRead, LoopWrite, LoopMisc, Place, MqPlaces
    <3>4. handler'.client \in Listed
      BY <3>2, <3>3 DEF MqSafe, MqInv, MqTypes, MqHandler
    <3>5. \A b \in Addrs : client'[b].watch_id = client[b].watch_id
      <4>1. client \in [Addrs -> MqClient]
        BY DEF MqSafe, MqInv, MqTypes
      <4>2. CASE LoopRead
        <5>1. \/ client' = client
              \/ \E k \in AllKinds \cup client[handler.client].owed :
                   client' = [client EXCEPT ![handler.client].owed = client[handler.client].owed \ {k}]
          BY <4>2 DEF LoopRead
        <5>2. ASSUME NEW b \in Addrs PROVE client'[b].watch_id = client[b].watch_id
          <6>1. CASE client' = client
            BY <6>1
          <6>2. ASSUME NEW o, client' = [client EXCEPT ![handler.client].owed = o]
                PROVE  client'[b].watch_id = client[b].watch_id
            BY <4>1, <6>2 DEF MqClient
          <6> QED BY <5>1, <6>1, <6>2, Zenon
        <5> QED BY <5>2
      <4>3. CASE LibraryFails \/ LoopWrite \/ LoopMisc
        <5>1. client' = client \/ client' = [client EXCEPT ![handler.client].sock = 0, ![handler.client].owed = {}]
          BY <4>3, Zenon DEF LibraryFails, LoopWrite, LoopMisc, Closed
        <5> QED BY <4>1, <5>1 DEF MqClient
      <4> QED BY <2>6, <4>2, <4>3
    <3> QED BY <3>1, <3>4, <3>5, MqSafeStep
  <2>7. ASSUME HandlerUsesFreed PROVE FALSE
    BY <2>7 DEF HandlerUsesFreed, MqSafe, MqWatched
  <2>8. ASSUME HandlerReturns PROVE MqSafe'
    <3>1. /\ UNCHANGED <<nodes, freed, known, owner, tls_files, loaded, mqttFault, client>>
          /\ attached' \subseteq attached /\ handler'.at = "idle"
      BY <2>8 DEF HandlerReturns, Idle
    <3> QED BY <3>1, MqSafeStep
  <2>9. ASSUME CallbackReturns PROVE MqSafe'
    <3>1. UNCHANGED <<nodes, freed, known, owner, tls_files, loaded, mqttFault, client, attached, handler>>
      BY <2>9 DEF CallbackReturns, others
    <3> QED BY <3>1, MqSafeStep DEF MqSafe, MqWatched
  <2> QED BY <2>1, <2>2, <2>3, <2>4, <2>5, <2>6, <2>7, <2>8, <2>9,
             MqSafeCreate, MqSafeDestroy, MqSafeConnect DEF MqttNext, HandlerSteps
<1>3. MqSafe => MqttSound
  <2> SUFFICES ASSUME MqSafe PROVE MqttSound
    OBVIOUS
  <2>1. loop_refs \in Nat
    BY FS_CardinalityType DEF MqSafe, MqInv, MqList
  <2>2. MqttTypeOK
    <3>1. /\ \A a \in Addrs :
               /\ client[a].loop \in BOOLEAN
               /\ client[a].sock \in 0..MaxConn /\ client[a].watch_id \in 0..MaxConn
               /\ client[a].on \subseteq Kinds /\ client[a].owed \subseteq AllKinds
          /\ handler.watch \in 0..MaxConn /\ handler.client \in Addrs \cup {NoAddr}
      BY DEF MqSafe, MqInv, MqTypes, MqClient, MqHandler
    <3> QED BY <2>1, <3>1 DEF MqSafe, MqInv, MqTypes, MqFaults, MqttTypeOK
  <2> QED BY <2>2 DEF MqSafe, MqWatched, MqFiles, MqttSound, NoFault, DestroyedIsUnwatched, OwnCertificates
<1> QED BY <1>1, <1>2, <1>3, MqttInductive, PTL DEF MqttSpec

=============================================================================
