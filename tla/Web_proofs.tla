----------------------------- MODULE Web_proofs -----------------------------
(***************************************************************************)
(* A websocket stream and the http requests over the secure element, for   *)
(* any number of streams, messages, threads and requests.                  *)
(***************************************************************************)
EXTENDS Websocket, Http, Cloud, FiniteSetTheorems, WellFoundedInduction, TLAPS

-----------------------------------------------------------------------------
(* The nodes of the streams.                                               *)

Node == [handle : Addrs, error_connect : BOOLEAN]

IsFirst(ns, w, i) ==
  /\ i \in DOMAIN ns
  /\ ns[i].handle = w
  /\ \A j \in 1..(i - 1) : ns[j].handle # w

(* A set of numbers that is not empty has a least element.                 *)
LEMMA LeastNumber ==
  ASSUME NEW S, S \subseteq Nat, S # {}
  PROVE  \E i \in S : \A j \in S : i <= j
<1>1. PICK i \in S : \A j \in S : ~(<<j, i>> \in OpToRel(<, Nat))
  BY WFMin, NatLessThanWellFounded, Zenon
<1>2. ASSUME NEW j \in S PROVE i <= j
  <2>1. <<j, i>> \in Nat \X Nat
    OBVIOUS
  <2>2. ~(j < i)
    BY <1>1, <2>1 DEF OpToRel
  <2> QED BY <2>2
<1> QED BY <1>2

(* A handle that some node has is found, and at one place only.            *)
LEMMA FirstExists ==
  ASSUME NEW ns \in Seq(Node), NEW w, \E i \in DOMAIN ns : ns[i].handle = w
  PROVE  \E i : IsFirst(ns, w, i)
<1> DEFINE S == {i \in DOMAIN ns : ns[i].handle = w}
<1>1. S \subseteq Nat /\ S # {}
  OBVIOUS
<1> HIDE DEF S
<1>2. PICK i \in S : \A j \in S : i <= j
  BY <1>1, LeastNumber
<1>3. i \in DOMAIN ns /\ ns[i].handle = w
  BY DEF S
<1>4. ASSUME NEW j \in 1..(i - 1) PROVE ns[j].handle # w
  <2>1. j \in DOMAIN ns /\ ~(i <= j)
    BY <1>3, <1>4
  <2> QED BY <1>2, <2>1 DEF S
<1> QED BY <1>3, <1>4 DEF IsFirst

LEMMA FirstIsUnique ==
  ASSUME NEW ns \in Seq(Node), NEW w, NEW i, NEW j, IsFirst(ns, w, i), IsFirst(ns, w, j)
  PROVE  i = j
<1>1. i \in 1..Len(ns) /\ j \in 1..Len(ns)
  BY DEF IsFirst
<1>2. ~(i < j) /\ ~(j < i)
  BY <1>1 DEF IsFirst
<1> QED BY <1>1, <1>2

(* artik_list_get_by_handle returns that node.                             *)
LEMMA NodeOfIsFirst ==
  ASSUME nodes \in Seq(Node), NEW w, \E i \in DOMAIN nodes : nodes[i].handle = w
  PROVE  IsFirst(nodes, w, NodeOf(w))
<1>1. PICK i : IsFirst(nodes, w, i)
  BY FirstExists
<1> QED BY <1>1, Zenon DEF IsFirst, NodeOf

LEMMA NodeOfIsFirstPrime ==
  ASSUME nodes' \in Seq(Node), \E i \in DOMAIN nodes' : nodes'[i].handle = wsi'
  PROVE  IsFirst(nodes', wsi', NodeOf(wsi)')
<1>1. PICK i : IsFirst(nodes', wsi', i)
  BY FirstExists
<1> QED BY <1>1, Zenon DEF IsFirst, NodeOf

(* Setting error_connect changes nothing else, and the node is found       *)
(* again where it was.                                                     *)
LEMMA WithErrorMarks ==
  ASSUME nodes \in Seq(Node), \E i \in DOMAIN nodes : nodes[i].handle = wsi,
         nodes' = WithError
  PROVE  /\ nodes' \in Seq(Node)
         /\ \E i \in DOMAIN nodes' : nodes'[i].handle = wsi
         /\ wsi' = wsi => nodes'[NodeOf(wsi)'].error_connect
<1> DEFINE n == NodeOf(wsi)
<1>1. IsFirst(nodes, wsi, n)
  BY NodeOfIsFirst
<1> HIDE DEF n
<1>2. nodes' = [nodes EXCEPT ![n].error_connect = TRUE]
  BY DEF WithError, n
<1>3. n \in 1..Len(nodes)
  BY <1>1 DEF IsFirst
<1>4. DOMAIN nodes' = DOMAIN nodes /\ Len(nodes') = Len(nodes)
  BY <1>2, <1>3
<1>5. nodes[n] \in Node
  BY <1>3
<1>6. [nodes[n] EXCEPT !.error_connect = TRUE] \in Node
  BY <1>5 DEF Node
<1>7. nodes' \in Seq(Node)
  BY <1>2, <1>3, <1>6
<1>8. \A i \in DOMAIN nodes : nodes'[i].handle = nodes[i].handle
  BY <1>2, <1>3, <1>5 DEF Node
<1>9. nodes'[n].error_connect
  BY <1>2, <1>3, <1>5 DEF Node
<1>10. IsFirst(nodes', wsi, n)
  BY <1>1, <1>3, <1>4, <1>8 DEF IsFirst
<1>11. \E i \in DOMAIN nodes' : nodes'[i].handle = wsi
  BY <1>10 DEF IsFirst
<1>12. ASSUME wsi' = wsi PROVE nodes'[NodeOf(wsi)'].error_connect
  <2>1. IsFirst(nodes', wsi', NodeOf(wsi)')
    BY <1>7, <1>11, <1>12, NodeOfIsFirstPrime
  <2>2. NodeOf(wsi)' = n
    BY <1>7, <1>10, <1>12, <2>1, FirstIsUnique
  <2> QED BY <1>9, <2>2
<1> QED BY <1>7, <1>11, <1>12

-----------------------------------------------------------------------------
(* The invariant of a stream.                                              *)

OpenHasNode == IsOpen => \E i \in DOMAIN nodes : nodes[i].handle = wsi

FreedIsMarked == IsOpen /\ ~wsi_alive => nodes[NodeOf(wsi)].error_connect

(* What the event announces is the last message, and was not delivered.    *)
ReceiveSlot ==
  /\ \A i \in DOMAIN delivered : delivered[i] <= got
  /\ "receive" \in events => /\ got > 0 /\ receive_message = got
                             /\ \A i \in DOMAIN delivered : delivered[i] < got

(* A slot that is taken holds the last message, which was not sent.        *)
SendSlot ==
  /\ \A i \in DOMAIN wire : wire[i] <= written
  /\ send_message # 0 => /\ send_message = written
                         /\ \A i \in DOMAIN wire : wire[i] < written

LinkInv == ClosedIsQuiet /\ OpenHasNode /\ FreedIsMarked
ReceiveInv == Increasing(delivered) /\ ReceiveSlot
SendInv == Increasing(wire) /\ SendSlot
WebsocketInv == TypeOK /\ LinkInv /\ ReceiveInv /\ SendInv

(* What is added at the end of an increasing sequence, and is larger, keeps *)
(* it increasing.                                                          *)
LEMMA AppendIncreases ==
  ASSUME NEW s \in Seq(Nat), NEW n \in Nat, Increasing(s), \A i \in DOMAIN s : s[i] < n
  PROVE  /\ Increasing(Append(s, n))
         /\ \A i \in DOMAIN Append(s, n) : Append(s, n)[i] <= n
<1>1. Append(s, n) \in Seq(Nat) /\ Len(Append(s, n)) = Len(s) + 1
  OBVIOUS
<1>2. \A i \in DOMAIN s : i \in Nat /\ Append(s, n)[i] = s[i] /\ s[i] \in Nat
  OBVIOUS
<1>3. Append(s, n)[Len(s) + 1] = n
  OBVIOUS
<1>4. \A i \in DOMAIN Append(s, n) : i \in DOMAIN s \/ i = Len(s) + 1
  BY <1>1
<1>5. ASSUME NEW i \in DOMAIN Append(s, n), NEW j \in DOMAIN Append(s, n), i < j
      PROVE  Append(s, n)[i] < Append(s, n)[j]
  <2>1. i \in DOMAIN s
    BY <1>4, <1>5
  <2>2. CASE j \in DOMAIN s
    BY <1>2, <1>5, <2>1, <2>2 DEF Increasing
  <2>3. CASE j = Len(s) + 1
    BY <1>2, <1>3, <2>1, <2>3
  <2> QED BY <1>4, <2>2, <2>3
<1>6. ASSUME NEW i \in DOMAIN Append(s, n) PROVE Append(s, n)[i] <= n
  <2>1. CASE i \in DOMAIN s
    BY <1>2, <2>1
  <2>2. CASE i = Len(s) + 1
    BY <1>3, <2>2
  <2> QED BY <1>4, <2>1, <2>2
<1> QED BY <1>5, <1>6 DEF Increasing

LEMMA WebsocketInit ==
  ASSUME Init
  PROVE  WebsocketInv
<1>1. TypeOK
  <2>1. <<>> \in Seq([handle : Addrs, error_connect : BOOLEAN]) /\ <<>> \in Seq(1..MaxMsg)
    OBVIOUS
  <2>2. 0 \in 0..MaxOpen /\ 0 \in 0..MaxMsg
    BY WebsocketAssumption
  <2> QED BY <2>1, <2>2, Zenon DEF Init, TypeOK
<1>2. LinkInv
  BY DEF Init, LinkInv, ClosedIsQuiet, OpenHasNode, FreedIsMarked, IsOpen
<1>3. ReceiveInv
  BY DEF Init, ReceiveInv, ReceiveSlot, Increasing
<1>4. SendInv
  BY DEF Init, SendInv, SendSlot, Increasing
<1> QED BY <1>1, <1>2, <1>3, <1>4 DEF WebsocketInv

(* The steps, without what they do not say about the slots.                *)
LEMMA NextCases ==
  ASSUME [Next]_vars
  PROVE  \/ \E w \in Addrs : os_websocket_open_stream(w)
         \/ SetWatch({"close", "connect", "error"})
         \/ SetWatch({"receive"})
         \/ os_websocket_write_stream
         \/ CloseLive
         \/ CloseFreed
         \/ ServiceStarts
         \/ \E n \in {-1, 0} : ServiceEnds(n)
         \/ ClientWriteable
         \/ WsiDestroy
         \/ ClientEstablished
         \/ ClientReceive
         \/ Closed
         \/ ssl_ctx_info_callback
         \/ \E fd \in Fds : ConnectionCallback(fd)
         \/ os_websocket_receive_callback
         \/ UNCHANGED vars
BY Zenon DEF Next, ServiceWork, Callbacks, os_websocket_close_stream,
   os_websocket_set_connection_callback, os_websocket_set_receive_callback

(* What is received stays in order: only ClientReceive and the callback of *)
(* the receive watch touch it, and closing drops the event.                *)
LEMMA ReceiveStep ==
  ASSUME WebsocketInv, [Next]_vars
  PROVE  ReceiveInv'
<1> USE DEF WebsocketInv
<1>1. ASSUME UNCHANGED <<delivered, got>>,
             "receive" \in events' => "receive" \in events /\ UNCHANGED receive_message
      PROVE  ReceiveInv'
  BY <1>1 DEF ReceiveInv, ReceiveSlot, Increasing
<1>2. CASE ClientReceive
  <2>1. /\ got' = got + 1 /\ receive_message' = got + 1 /\ delivered' = delivered
        /\ got \in Nat /\ delivered \in Seq(Nat)
    BY <1>2, WebsocketAssumption DEF ClientReceive, TypeOK
  <2>2. \A i \in DOMAIN delivered : delivered[i] \in Nat /\ delivered[i] <= got
    BY <2>1 DEF ReceiveInv, ReceiveSlot
  <2>3. \A i \in DOMAIN delivered : delivered[i] < got + 1 /\ delivered[i] <= got + 1
    BY <2>1, <2>2
  <2>4. ReceiveSlot'
    BY <2>1, <2>3 DEF ReceiveSlot
  <2>5. Increasing(delivered)'
    BY <2>1 DEF ReceiveInv, Increasing
  <2> QED BY <2>4, <2>5 DEF ReceiveInv
<1>3. CASE os_websocket_receive_callback
  <2>1. /\ "receive" \in events /\ "receive" \notin events'
        /\ delivered' = Append(delivered, receive_message) /\ got' = got
    BY <1>3 DEF os_websocket_receive_callback, Dispatch
  <2>2. /\ receive_message = got /\ got \in Nat /\ delivered \in Seq(Nat)
        /\ \A i \in DOMAIN delivered : delivered[i] < got
    BY <2>1, WebsocketAssumption DEF ReceiveInv, ReceiveSlot, TypeOK
  <2>3. Increasing(delivered)
    BY DEF ReceiveInv
  <2>4. Increasing(Append(delivered, got)) /\ \A i \in DOMAIN delivered' : delivered'[i] <= got
    BY <2>1, <2>2, <2>3, AppendIncreases
  <2> QED BY <2>1, <2>2, <2>4 DEF ReceiveInv, ReceiveSlot, Increasing
<1>4. CASE \E fd \in Fds : ConnectionCallback(fd)
  BY <1>1, <1>4 DEF ConnectionCallback, Dispatch, slots
<1>5. CASE ClientWriteable
  BY <1>1, <1>5 DEF ClientWriteable, LwsEvent
<1>6. CASE WsiDestroy
  BY <1>1, <1>6 DEF WsiDestroy, LwsEvent, history
<1>7. CASE ClientEstablished \/ Closed \/ ssl_ctx_info_callback
  BY <1>1, <1>7 DEF ClientEstablished, Closed, ssl_ctx_info_callback, LwsEvent, history, slots
<1>8. CASE CloseLive
  BY <1>1, <1>8 DEF CloseLive, history
<1>9. CASE CloseFreed \/ ServiceStarts \/ \E n \in {-1, 0} : ServiceEnds(n)
  BY <1>1, <1>9 DEF CloseFreed, ServiceStarts, ServiceEnds, history, slots
<1>10. CASE SetWatch({"close", "connect", "error"}) \/ SetWatch({"receive"})
  BY <1>1, <1>10 DEF SetWatch, history, slots
<1>11. CASE os_websocket_write_stream
  BY <1>1, <1>11 DEF os_websocket_write_stream
<1>12. CASE \E w \in Addrs : os_websocket_open_stream(w)
  <2>1. UNCHANGED <<slots, got, delivered, written, wire, events>>
    BY <1>12, Zenon DEF os_websocket_open_stream
  <2> QED BY <1>1, <2>1 DEF slots
<1>13. CASE UNCHANGED vars
  BY <1>1, <1>13 DEF vars
<1> QED
  BY <1>2, <1>3, <1>4, <1>5, <1>6, <1>7, <1>8, <1>9, <1>10, <1>11, <1>12, <1>13, NextCases

(* What is sent stays in order: a message is put into the slot with a      *)
(* larger number, and the slot is emptied when it is sent.                 *)
LEMMA SendStep ==
  ASSUME WebsocketInv, [Next]_vars
  PROVE  SendInv'
<1> USE DEF WebsocketInv
<1>1. ASSUME UNCHANGED <<wire, written>>, send_message' \in {0, send_message}
      PROVE  SendInv'
  BY <1>1 DEF SendInv, SendSlot, Increasing
<1>2. CASE os_websocket_write_stream
  <2>1. /\ written' = written + 1 /\ send_message' = written + 1 /\ wire' = wire
        /\ written \in Nat /\ wire \in Seq(Nat)
    BY <1>2, WebsocketAssumption DEF os_websocket_write_stream, TypeOK
  <2>2. \A i \in DOMAIN wire : wire[i] \in Nat /\ wire[i] <= written
    BY <2>1 DEF SendInv, SendSlot
  <2>3. \A i \in DOMAIN wire : wire[i] < written + 1 /\ wire[i] <= written + 1
    BY <2>1, <2>2
  <2>4. SendSlot'
    BY <2>1, <2>3 DEF SendSlot
  <2>5. Increasing(wire)'
    BY <2>1 DEF SendInv, Increasing
  <2> QED BY <2>4, <2>5 DEF SendInv
<1>3. CASE ClientWriteable
  <2>1. /\ send_message' = 0 /\ written' = written
        /\ written \in Nat /\ wire \in Seq(Nat)
    BY <1>3, WebsocketAssumption DEF ClientWriteable, TypeOK
  <2>2. CASE send_message = 0
    <3>1. wire' = wire
      BY <1>3, <2>2 DEF ClientWriteable
    <3> QED BY <1>1, <2>1, <3>1
  <2>3. CASE send_message # 0
    <3>1. wire' = Append(wire, written)
      BY <1>3, <2>3 DEF ClientWriteable, SendInv, SendSlot
    <3>2. \A i \in DOMAIN wire : wire[i] < written
      BY <2>3 DEF SendInv, SendSlot
    <3>3. Increasing(wire)
      BY DEF SendInv
    <3>4. Increasing(Append(wire, written)) /\ \A i \in DOMAIN wire' : wire'[i] <= written
      BY <2>1, <3>1, <3>2, <3>3, AppendIncreases
    <3> QED BY <2>1, <3>1, <3>4 DEF SendInv, SendSlot, Increasing
  <2> QED BY <2>2, <2>3
<1>4. CASE (\E fd \in Fds : ConnectionCallback(fd)) \/ os_websocket_receive_callback
  BY <1>1, <1>4 DEF ConnectionCallback, os_websocket_receive_callback, Dispatch, slots
<1>5. CASE ClientReceive
  BY <1>1, <1>5 DEF ClientReceive
<1>6. CASE WsiDestroy
  BY <1>1, <1>6 DEF WsiDestroy, history
<1>7. CASE ClientEstablished \/ Closed \/ ssl_ctx_info_callback
  BY <1>1, <1>7 DEF ClientEstablished, Closed, ssl_ctx_info_callback, history, slots
<1>8. CASE CloseLive
  BY <1>1, <1>8 DEF CloseLive, history
<1>9. CASE CloseFreed \/ ServiceStarts \/ \E n \in {-1, 0} : ServiceEnds(n)
  BY <1>1, <1>9 DEF CloseFreed, ServiceStarts, ServiceEnds, history, slots
<1>10. CASE SetWatch({"close", "connect", "error"}) \/ SetWatch({"receive"})
  BY <1>1, <1>10 DEF SetWatch, history, slots
<1>12. CASE \E w \in Addrs : os_websocket_open_stream(w)
  <2>1. UNCHANGED <<slots, got, delivered, written, wire, events>>
    BY <1>12, Zenon DEF os_websocket_open_stream
  <2> QED BY <1>1, <2>1 DEF slots
<1>13. CASE UNCHANGED vars
  BY <1>1, <1>13 DEF vars
<1> QED
  BY <1>2, <1>3, <1>4, <1>5, <1>6, <1>7, <1>8, <1>9, <1>10, <1>12, <1>13, NextCases

(* A stream that is open has its node, which is marked once its wsi is     *)
(* freed; a closed one has nothing on the loop.                            *)
LEMMA LinkStep ==
  ASSUME WebsocketInv, [Next]_vars
  PROVE  LinkInv'
<1>1. /\ nodes \in Seq(Node) /\ idle \in BOOLEAN /\ in_service \in BOOLEAN
      /\ NULL \notin Addrs
  BY WebsocketAssumption DEF WebsocketInv, TypeOK, Node
<1>2. ClosedIsQuiet /\ OpenHasNode /\ FreedIsMarked
  BY DEF WebsocketInv, LinkInv
<1>3. ASSUME UNCHANGED <<wsi, wsi_alive, nodes>>, ClosedIsQuiet'
      PROVE  LinkInv'
  <2>1. NodeOf(wsi)' = NodeOf(wsi)
    BY <1>3, Zenon DEF NodeOf
  <2>2. OpenHasNode'
    BY <1>2, <1>3 DEF OpenHasNode, IsOpen
  <2>3. FreedIsMarked'
    BY <1>2, <1>3, <2>1 DEF FreedIsMarked, IsOpen
  <2> QED BY <1>3, <2>2, <2>3 DEF LinkInv
<1>4. CASE \E w \in Addrs : os_websocket_open_stream(w)
  <2>1. PICK w \in Addrs : os_websocket_open_stream(w)
    BY <1>4
  <2>2. wsi' = w /\ wsi_alive' = TRUE /\ w # NULL
    BY <1>1, <2>1 DEF os_websocket_open_stream
  <2>3. nodes' = Append(nodes, [handle |-> w, error_connect |-> FALSE])
    BY <2>1 DEF os_websocket_open_stream
  <2>4. Len(nodes) + 1 \in DOMAIN nodes' /\ nodes'[Len(nodes) + 1].handle = w
    BY <1>1, <2>3
  <2>5. OpenHasNode'
    BY <2>2, <2>4 DEF OpenHasNode
  <2>6. FreedIsMarked' /\ ClosedIsQuiet'
    BY <2>2 DEF FreedIsMarked, ClosedIsQuiet, IsOpen
  <2> QED BY <2>5, <2>6 DEF LinkInv
<1>5. CASE CloseLive
  <2>1. wsi' = NULL
    BY <1>5 DEF CloseLive
  <2>2. ~idle' /\ watches' = {} /\ ~in_service'
    BY <1>5 DEF CloseLive, App
  <2> QED BY <2>1, <2>2 DEF LinkInv, ClosedIsQuiet, OpenHasNode, FreedIsMarked, IsOpen
<1>6. CASE WsiDestroy
  <2>1. /\ in_service /\ nodes' = WithError /\ wsi' = wsi
        /\ UNCHANGED <<idle, watches, in_service>>
    BY <1>6 DEF WsiDestroy, LwsEvent
  <2>2. IsOpen
    BY <1>2, <2>1 DEF ClosedIsQuiet
  <2>3. /\ \E i \in DOMAIN nodes' : nodes'[i].handle = wsi'
        /\ nodes'[NodeOf(wsi)'].error_connect
    BY <1>1, <1>2, <2>1, <2>2, WithErrorMarks DEF OpenHasNode
  <2>4. OpenHasNode' /\ FreedIsMarked'
    BY <2>3 DEF OpenHasNode, FreedIsMarked
  <2>5. ClosedIsQuiet'
    BY <2>1, <2>2 DEF ClosedIsQuiet, IsOpen
  <2> QED BY <2>4, <2>5 DEF LinkInv
<1>7. CASE SetWatch({"close", "connect", "error"}) \/ SetWatch({"receive"})
  <2>1. UNCHANGED <<wsi, wsi_alive, nodes>> /\ IsOpen
    BY <1>7 DEF SetWatch, link
  <2> QED BY <1>3, <2>1 DEF ClosedIsQuiet, IsOpen
<1>8. CASE os_websocket_write_stream
  <2>1. UNCHANGED <<wsi, wsi_alive, nodes>> /\ IsOpen
    BY <1>8 DEF os_websocket_write_stream, link
  <2> QED BY <1>3, <2>1 DEF ClosedIsQuiet, IsOpen
<1>9. CASE CloseFreed
  <2>1. UNCHANGED <<wsi, wsi_alive, nodes>> /\ IsOpen
    BY <1>9 DEF CloseFreed, link
  <2> QED BY <1>3, <2>1 DEF ClosedIsQuiet, IsOpen
<1>10. CASE ServiceStarts \/ \E n \in {-1, 0} : ServiceEnds(n)
  <2>1. UNCHANGED <<wsi, wsi_alive, nodes>> /\ (idle \/ in_service)
    BY <1>10 DEF ServiceStarts, ServiceEnds, link
  <2> QED BY <1>2, <1>3, <2>1 DEF ClosedIsQuiet, IsOpen
<1>11. CASE ClientWriteable \/ ClientReceive
  <2>1. UNCHANGED <<wsi, wsi_alive, nodes>> /\ in_service
    BY <1>11 DEF ClientWriteable, ClientReceive, LwsEvent, link
  <2> QED BY <1>2, <1>3, <2>1 DEF ClosedIsQuiet, IsOpen
<1>12. CASE ClientEstablished \/ Closed \/ ssl_ctx_info_callback
  <2>1. UNCHANGED <<wsi, wsi_alive, nodes>> /\ in_service
    BY <1>12 DEF ClientEstablished, Closed, ssl_ctx_info_callback, LwsEvent
  <2> QED BY <1>2, <1>3, <2>1 DEF ClosedIsQuiet, IsOpen
<1>13. CASE (\E fd \in Fds : ConnectionCallback(fd)) \/ os_websocket_receive_callback
  <2>1. UNCHANGED <<wsi, wsi_alive, nodes, idle, watches, in_service>>
    BY <1>13 DEF ConnectionCallback, os_websocket_receive_callback, Dispatch, link
  <2> QED BY <1>2, <1>3, <2>1 DEF ClosedIsQuiet, IsOpen
<1>14. CASE UNCHANGED vars
  <2>1. UNCHANGED <<wsi, wsi_alive, nodes, idle, watches, in_service>>
    BY <1>14 DEF vars
  <2> QED BY <1>2, <1>3, <2>1 DEF ClosedIsQuiet, IsOpen
<1> QED
  BY <1>4, <1>5, <1>6, <1>7, <1>8, <1>9, <1>10, <1>11, <1>12, <1>13, <1>14, NextCases

(* The types of what the steps change; closing and losing a wsi mark a     *)
(* node, and the message that is delivered is never the empty slot.        *)
StreamTypes ==
  /\ nodes \in Seq(Node) /\ delivered \in Seq(1..MaxMsg) /\ wire \in Seq(1..MaxMsg)

LEMMA StreamTypesStep ==
  ASSUME WebsocketInv, [Next]_vars
  PROVE  StreamTypes'
<1>1. StreamTypes
  BY DEF WebsocketInv, TypeOK, StreamTypes, Node
<1>2. ASSUME UNCHANGED <<nodes, delivered, wire>> PROVE StreamTypes'
  BY <1>1, <1>2 DEF StreamTypes
<1>3. CASE \E w \in Addrs : os_websocket_open_stream(w)
  <2>1. PICK w \in Addrs : os_websocket_open_stream(w)
    BY <1>3
  <2>2. [handle |-> w, error_connect |-> FALSE] \in Node
    BY DEF Node
  <2>3. nodes' = Append(nodes, [handle |-> w, error_connect |-> FALSE])
    BY <2>1 DEF os_websocket_open_stream
  <2>4. UNCHANGED <<delivered, wire>>
    BY <2>1, Zenon DEF os_websocket_open_stream
  <2>5. nodes' \in Seq(Node)
    BY <1>1, <2>2, <2>3 DEF StreamTypes
  <2> QED BY <1>1, <2>4, <2>5 DEF StreamTypes
<1>4. CASE CloseLive \/ WsiDestroy
  <2>1. nodes' = WithError /\ UNCHANGED <<delivered, wire>>
    BY <1>4 DEF CloseLive, WsiDestroy, history
  <2>2. IsOpen
    BY <1>4 DEF CloseLive, WsiDestroy, LwsEvent, WebsocketInv, LinkInv, ClosedIsQuiet
  <2>3. \E i \in DOMAIN nodes : nodes[i].handle = wsi
    BY <2>2 DEF WebsocketInv, LinkInv, OpenHasNode
  <2>4. nodes' \in Seq(Node)
    BY <1>1, <2>1, <2>3, WithErrorMarks DEF StreamTypes
  <2> QED BY <1>1, <2>1, <2>4 DEF StreamTypes
<1>5. CASE ClientWriteable
  <2>1. UNCHANGED <<nodes, delivered>>
    BY <1>5 DEF ClientWriteable, link
  <2>2. send_message \in 0..MaxMsg /\ MaxMsg \in Nat
    BY WebsocketAssumption DEF WebsocketInv, TypeOK
  <2>3. wire' = IF send_message # 0 THEN Append(wire, send_message) ELSE wire
    BY <1>5 DEF ClientWriteable
  <2>4. send_message # 0 => send_message \in 1..MaxMsg
    BY <2>2
  <2>5. wire' \in Seq(1..MaxMsg)
    <3>1. CASE send_message = 0
      BY <1>1, <2>3, <3>1 DEF StreamTypes
    <3>2. CASE send_message # 0
      <4>1. wire' = Append(wire, send_message) /\ send_message \in 1..MaxMsg
        BY <2>3, <2>4, <3>2
      <4> QED BY <1>1, <4>1 DEF StreamTypes
    <3> QED BY <3>1, <3>2
  <2> QED BY <1>1, <2>1, <2>5 DEF StreamTypes
<1>6. CASE os_websocket_receive_callback
  <2>1. /\ "receive" \in events /\ delivered' = Append(delivered, receive_message)
        /\ UNCHANGED <<nodes, wire>>
    BY <1>6 DEF os_websocket_receive_callback, Dispatch, link
  <2>2. receive_message = got /\ got > 0 /\ got \in 0..MaxMsg /\ MaxMsg \in Nat
    BY <2>1, WebsocketAssumption DEF WebsocketInv, TypeOK, ReceiveInv, ReceiveSlot
  <2>3. receive_message \in 1..MaxMsg
    BY <2>2
  <2>4. delivered' \in Seq(1..MaxMsg)
    BY <1>1, <2>1, <2>3 DEF StreamTypes
  <2> QED BY <1>1, <2>1, <2>4 DEF StreamTypes
<1>7. CASE \E fd \in Fds : ConnectionCallback(fd)
  BY <1>2, <1>7 DEF ConnectionCallback, Dispatch, link
<1>8. CASE ClientReceive
  BY <1>2, <1>8 DEF ClientReceive, link
<1>9. CASE ClientEstablished \/ Closed \/ ssl_ctx_info_callback
  BY <1>2, <1>9 DEF ClientEstablished, Closed, ssl_ctx_info_callback, history
<1>10. CASE CloseFreed \/ ServiceStarts \/ \E n \in {-1, 0} : ServiceEnds(n)
  BY <1>2, <1>10 DEF CloseFreed, ServiceStarts, ServiceEnds, history, link
<1>11. CASE SetWatch({"close", "connect", "error"}) \/ SetWatch({"receive"})
  BY <1>2, <1>11 DEF SetWatch, history, link
<1>12. CASE os_websocket_write_stream
  BY <1>2, <1>12 DEF os_websocket_write_stream, link
<1>13. CASE UNCHANGED vars
  BY <1>2, <1>13 DEF vars
<1> QED
  BY <1>3, <1>4, <1>5, <1>6, <1>7, <1>8, <1>9, <1>10, <1>11, <1>12, <1>13, NextCases

(* The variables of the loop and of the connection.                        *)
LoopTypes ==
  /\ opened \in 0..MaxOpen
  /\ wsi \in Addrs \cup {NULL}
  /\ conn \in {"connecting", "established", "closing", "gone"}
  /\ watches \subseteq Fds /\ events \subseteq Fds /\ reported \subseteq Fds
  /\ fault \in {"none", "freed_wsi"}

FlagTypes ==
  /\ wsi_alive \in BOOLEAN /\ idle \in BOOLEAN
  /\ in_service \in BOOLEAN /\ writable \in BOOLEAN

CountTypes ==
  /\ send_message \in 0..MaxMsg /\ receive_message \in 0..MaxMsg
  /\ got \in 0..MaxMsg /\ written \in 0..MaxMsg

LEMMA TypesSplit == TypeOK <=> StreamTypes /\ LoopTypes /\ FlagTypes /\ CountTypes
BY DEF TypeOK, StreamTypes, LoopTypes, FlagTypes, CountTypes, Node

LEMMA CountTypesStep ==
  ASSUME CountTypes, [Next]_vars
  PROVE  CountTypes'
<1> USE WebsocketAssumption DEF CountTypes
<1>1. CASE \E w \in Addrs : os_websocket_open_stream(w)
  <2>1. UNCHANGED <<slots, got, written>>
    BY <1>1, Zenon DEF os_websocket_open_stream
  <2> QED BY <2>1 DEF slots
<1>2. CASE SetWatch({"close", "connect", "error"}) \/ SetWatch({"receive"})
  BY <1>2 DEF SetWatch, slots, history
<1>3. CASE os_websocket_write_stream
  BY <1>3 DEF os_websocket_write_stream
<1>4. CASE CloseLive
  BY <1>4 DEF CloseLive, history
<1>5. CASE CloseFreed \/ ServiceStarts \/ \E n \in {-1, 0} : ServiceEnds(n)
  BY <1>5 DEF CloseFreed, ServiceStarts, ServiceEnds, slots, history
<1>6. CASE ClientWriteable
  BY <1>6 DEF ClientWriteable
<1>7. CASE WsiDestroy
  BY <1>7 DEF WsiDestroy, history
<1>8. CASE ClientReceive
  BY <1>8 DEF ClientReceive
<1>9. CASE ClientEstablished \/ Closed \/ ssl_ctx_info_callback
  BY <1>9 DEF ClientEstablished, Closed, ssl_ctx_info_callback, slots, history
<1>10. CASE (\E fd \in Fds : ConnectionCallback(fd)) \/ os_websocket_receive_callback
  BY <1>10 DEF ConnectionCallback, os_websocket_receive_callback, Dispatch, slots
<1>11. CASE UNCHANGED vars
  BY <1>11 DEF vars
<1> QED
  BY <1>1, <1>2, <1>3, <1>4, <1>5, <1>6, <1>7, <1>8, <1>9, <1>10, <1>11, NextCases

LEMMA FlagTypesStep ==
  ASSUME FlagTypes, [Next]_vars
  PROVE  FlagTypes'
<1> USE DEF FlagTypes
<1>1. CASE \E w \in Addrs : os_websocket_open_stream(w)
  BY <1>1, Zenon DEF os_websocket_open_stream, slots
<1>2. CASE SetWatch({"close", "connect", "error"}) \/ SetWatch({"receive"})
  BY <1>2, Zenon DEF SetWatch, slots, link
<1>3. CASE os_websocket_write_stream
  BY <1>3, Zenon DEF os_websocket_write_stream, link
<1>4. CASE CloseLive
  BY <1>4, Zenon DEF CloseLive
<1>5. CASE CloseFreed
  BY <1>5, Zenon DEF CloseFreed, slots, link
<1>6. CASE ServiceStarts
  BY <1>6, Zenon DEF ServiceStarts, slots, link
<1>7. ASSUME NEW n \in {-1, 0}, ServiceEnds(n) PROVE FlagTypes'
  <2>1. (n >= 0) \in BOOLEAN
    OBVIOUS
  <2> QED BY <1>7, <2>1, Zenon DEF ServiceEnds, slots, link
<1>8. CASE ClientWriteable
  BY <1>8, Zenon DEF ClientWriteable, LwsEvent, link
<1>9. CASE WsiDestroy
  BY <1>9, Zenon DEF WsiDestroy, LwsEvent
<1>10. CASE ClientReceive
  BY <1>10, Zenon DEF ClientReceive, LwsEvent, link
<1>11. CASE ClientEstablished \/ Closed \/ ssl_ctx_info_callback
  BY <1>11, Zenon DEF ClientEstablished, Closed, ssl_ctx_info_callback, LwsEvent, slots
<1>12. CASE (\E fd \in Fds : ConnectionCallback(fd)) \/ os_websocket_receive_callback
  BY <1>12, Zenon DEF ConnectionCallback, os_websocket_receive_callback, Dispatch, slots, link
<1>13. CASE UNCHANGED vars
  BY <1>13, Zenon DEF vars
<1> QED
  BY <1>1, <1>2, <1>3, <1>4, <1>5, <1>6, <1>7, <1>8, <1>9, <1>10, <1>11, <1>12, <1>13, NextCases

LEMMA LoopTypesStep ==
  ASSUME LoopTypes, [Next]_vars
  PROVE  LoopTypes'
<1> USE WebsocketAssumption DEF LoopTypes
<1>1. ASSUME NEW w \in Addrs, os_websocket_open_stream(w) PROVE LoopTypes'
  <2>1. wsi' = w /\ opened < MaxOpen /\ opened' = opened + 1
    BY <1>1, Zenon DEF os_websocket_open_stream
  <2>2. conn' = "connecting" /\ reported' = {} /\ UNCHANGED <<watches, events, fault>>
    BY <1>1, Zenon DEF os_websocket_open_stream
  <2> QED BY <2>1, <2>2
<1>2. CASE SetWatch({"close", "connect", "error"}) \/ SetWatch({"receive"})
  BY <1>2 DEF SetWatch, history, link, Fds
<1>3. CASE os_websocket_write_stream
  BY <1>3 DEF os_websocket_write_stream, link
<1>4. CASE CloseLive
  BY <1>4 DEF CloseLive, history
<1>5. CASE CloseFreed \/ ServiceStarts \/ \E n \in {-1, 0} : ServiceEnds(n)
  BY <1>5 DEF CloseFreed, ServiceStarts, ServiceEnds, link, history
<1>6. CASE ClientWriteable
  BY <1>6 DEF ClientWriteable, LwsEvent, link
<1>7. CASE WsiDestroy
  BY <1>7 DEF WsiDestroy, LwsEvent, history, Fds
<1>8. CASE ClientReceive
  BY <1>8 DEF ClientReceive, LwsEvent, link, Fds
<1>9. CASE ClientEstablished \/ Closed \/ ssl_ctx_info_callback
  BY <1>9 DEF ClientEstablished, Closed, ssl_ctx_info_callback, LwsEvent, history, Fds
<1>10. CASE (\E fd \in Fds : ConnectionCallback(fd)) \/ os_websocket_receive_callback
  BY <1>10 DEF ConnectionCallback, os_websocket_receive_callback, Dispatch, link
<1>11. CASE UNCHANGED vars
  BY <1>11 DEF vars
<1> QED
  BY <1>1, <1>2, <1>3, <1>4, <1>5, <1>6, <1>7, <1>8, <1>9, <1>10, <1>11, NextCases

LEMMA WebsocketStep ==
  ASSUME WebsocketInv, [Next]_vars
  PROVE  WebsocketInv'
<1>1. TypeOK'
  <2>1. LoopTypes /\ FlagTypes /\ CountTypes
    BY TypesSplit DEF WebsocketInv
  <2>2. (TypeOK <=> StreamTypes /\ LoopTypes /\ FlagTypes /\ CountTypes)'
    BY TypesSplit, PTL
  <2> QED BY <2>1, <2>2, StreamTypesStep, LoopTypesStep, FlagTypesStep, CountTypesStep
<1> QED BY <1>1, LinkStep, ReceiveStep, SendStep DEF WebsocketInv

THEOREM WebsocketInductive == Spec => []WebsocketInv
<1>1. Init => WebsocketInv
  BY WebsocketInit
<1>2. WebsocketInv /\ [Next]_vars => WebsocketInv'
  BY WebsocketStep
<1> QED BY <1>1, <1>2, PTL DEF Spec

(* For every number of streams and messages: messages arrive in order and  *)
(* at most once in both directions, although neither slot is locked and    *)
(* the receive slot is never emptied, and a stream that was closed has     *)
(* nothing left on the loop.                                               *)
THEOREM StreamIsSound == Spec => []StreamSound
<1>1. WebsocketInv => StreamSound
  BY DEF WebsocketInv, LinkInv, ReceiveInv, SendInv, StreamSound, InOrderOnce
<1> QED BY <1>1, WebsocketInductive, PTL

(* A message is accepted only for a wsi that libwebsockets has not freed:  *)
(* error_connect was set when it went, at the node that                    *)
(* os_websocket_write_stream finds, whichever stream that node was made    *)
(* for.                                                                    *)
THEOREM WritesAreSafe == Spec => WriteIsSafe
<1>1. ASSUME WebsocketInv, [Next]_vars, written' # written PROVE wsi_alive
  <2>1. os_websocket_write_stream
    <3>1. ASSUME UNCHANGED written PROVE FALSE
      BY <1>1, <3>1
    <3>2. CASE \E w \in Addrs : os_websocket_open_stream(w)
      BY <3>1, <3>2, Zenon DEF os_websocket_open_stream
    <3>3. CASE SetWatch({"close", "connect", "error"}) \/ SetWatch({"receive"})
      BY <3>1, <3>3 DEF SetWatch, history
    <3>4. CASE CloseLive \/ CloseFreed
      BY <3>1, <3>4 DEF CloseLive, CloseFreed, history
    <3>5. CASE ServiceStarts \/ \E n \in {-1, 0} : ServiceEnds(n)
      BY <3>1, <3>5 DEF ServiceStarts, ServiceEnds, history
    <3>6. CASE ClientWriteable \/ ClientReceive
      BY <3>1, <3>6 DEF ClientWriteable, ClientReceive
    <3>7. CASE WsiDestroy \/ ClientEstablished \/ Closed \/ ssl_ctx_info_callback
      BY <3>1, <3>7 DEF WsiDestroy, ClientEstablished, Closed, ssl_ctx_info_callback, history
    <3>8. CASE (\E fd \in Fds : ConnectionCallback(fd)) \/ os_websocket_receive_callback
      BY <3>1, <3>8 DEF ConnectionCallback, os_websocket_receive_callback, Dispatch
    <3>9. CASE UNCHANGED vars
      BY <3>1, <3>9 DEF vars
    <3> QED
      BY <1>1, <3>2, <3>3, <3>4, <3>5, <3>6, <3>7, <3>8, <3>9, NextCases
  <2> QED BY <1>1, <2>1 DEF os_websocket_write_stream, WebsocketInv, LinkInv, FreedIsMarked
<1>2. WebsocketInv /\ [Next]_vars => [written' # written => wsi_alive]_vars
  BY <1>1
<1> QED BY <1>2, WebsocketInductive, PTL DEF Spec, WriteIsSafe

-----------------------------------------------------------------------------
(* Requests of several threads, linux_http.c.                              *)

InCurl == {"curl", "request", "cert", "key", "perform", "stuck", "exit"}
Pcs == InCurl \cup {"idle", "init", "lock", "release"}
ReqType == [pc : Pcs, stream : BOOLEAN, se : BOOLEAN, sec : SUBSET SecHandles]
ConfType == [cert : {"app", "element"}, key : {"app", "element"}]
OpensslType == [algs : BOOLEAN, engine : BOOLEAN, global : BOOLEAN]

HttpTypes ==
  /\ req \in [Threads -> ReqType] /\ conf \in [Threads -> ConfType]
  /\ mutex \in [initialized : BOOLEAN, holder : Threads \cup {"none"}]
  /\ inCurl \subseteq Threads
  /\ reinit \in BOOLEAN /\ torn \in [Threads -> BOOLEAN] /\ raced \in [Threads -> BOOLEAN]
  /\ openssl \in OpensslType /\ requested \subseteq SecHandles

(* A thread is in curl from curl_global_init to curl_global_cleanup, and   *)
(* has at most one handle, from its request to its release.                *)
ThreadSound(u) ==
  /\ req[u].pc \in InCurl <=> u \in inCurl
  /\ req[u].pc \in {"idle", "init", "lock", "curl", "request"} => req[u].sec = {}
  /\ req[u].pc \in {"cert", "key", "release"} => req[u].sec # {}
  /\ req[u].sec = {} \/ \E h \in SecHandles : req[u].sec = {h}

(* Between the certificate and the key the configuration has the           *)
(* element's certificate; otherwise it has a pair, or is known to be torn. *)
PairSound(u) ==
  IF req[u].pc = "key" THEN conf[u].cert = "element"
  ELSE torn[u] \/ conf[u].cert = conf[u].key

(* Whoever is in curl found the algorithms added by the first that entered, *)
(* or knows that a handle was released since.                              *)
TlsSound(u) ==
  u \in inCurl /\ ~raced[u] =>
    /\ openssl.algs
    /\ req[u].se /\ req[u].pc \in {"cert", "key", "perform"} => openssl.engine

MutexSound ==
  /\ mutex.holder # "none" => mutex.holder \in inCurl
  /\ ~reinit => \A u \in inCurl : u = mutex.holder
  /\ ~mutex.initialized =>
       inCurl = {} /\ mutex.holder = "none" /\ \A u \in Threads : req[u].pc # "lock"

HandlesSound == requested \ AppHandles \subseteq UNION {req[u].sec : u \in Threads}

HttpInv ==
  /\ HttpTypes /\ MutexSound /\ HandlesSound
  /\ \A u \in Threads : ThreadSound(u) /\ PairSound(u) /\ TlsSound(u)
  /\ answer = NoAnswer /\ verifying = [v \in VerHandles |-> NoVerify]

(* A step of thread t.                                                     *)
HttpStep(t) ==
  \/ \E stream, se \in BOOLEAN : Enter(t, stream, se)
  \/ mutex_lock(t) /\ UNCHANGED <<conf, torn, requested, verifying, timeHeld, answer>>
  \/ EasyInit(t) /\ UNCHANGED <<conf, reinit, torn, raced, secVars>>
  \/ RequestSecurity(t) /\ UNCHANGED <<conf, mutex, inCurl, reinit, torn, raced>>
  \/ GetCertificate(t) /\ UNCHANGED <<mutex, inCurl, reinit, torn, raced, secVars>>
  \/ GetKey(t) /\ UNCHANGED <<mutex, inCurl, reinit, raced, verifying, timeHeld, answer>>
  \/ Perform(t) /\ UNCHANGED <<conf, mutex, inCurl, reinit, torn, raced, secVars>>
  \/ Exit(t) /\ UNCHANGED <<conf, reinit, torn, raced, secVars>>
  \/ Release(t) /\ UNCHANGED <<conf, mutex, inCurl, reinit, torn, verifying, timeHeld, answer>>

LEMMA HttpCases ==
  ASSUME HttpNext
  PROVE  \E t \in Threads : HttpStep(t)
<1>1. ASSUME NEW t \in Threads, NEW stream \in BOOLEAN, Request(t, stream)
      PROVE  HttpStep(t)
  BY <1>1, Zenon DEF Request, HttpStep
<1> QED
  BY <1>1, Zenon DEF HttpNext, Thread, os_http_get_stream, os_http_get, os_http_post,
     os_http_put, os_http_delete

(* What a step makes of the record of its thread, and that it leaves those *)
(* of the others alone.                                                    *)
LEMMA ReqAt ==
  ASSUME req \in [Threads -> ReqType], NEW t \in Threads, NEW r \in ReqType,
         req' = [req EXCEPT ![t] = r]
  PROVE  /\ req' \in [Threads -> ReqType] /\ req'[t] = r
         /\ \A u \in Threads : u # t => req'[u] = req[u]
OBVIOUS

LEMMA GotoAt ==
  ASSUME req \in [Threads -> ReqType], NEW t \in Threads, NEW pc \in Pcs, Goto(t, pc)
  PROVE  /\ req' \in [Threads -> ReqType]
         /\ req'[t].pc = pc /\ req'[t].se = req[t].se /\ req'[t].sec = req[t].sec
         /\ \A u \in Threads : u # t => req'[u] = req[u]
<1> DEFINE r == [req[t] EXCEPT !.pc = pc]
<1>1. req[t] \in ReqType
  OBVIOUS
<1>2. /\ r \in ReqType /\ r.pc = pc
      /\ r.se = req[t].se /\ r.sec = req[t].sec
  BY <1>1 DEF ReqType
<1>3. req' = [req EXCEPT ![t] = r]
  BY DEF Goto
<1> HIDE DEF r
<1> QED BY <1>2, <1>3, ReqAt

LEMMA IdleType == Idle \in ReqType /\ Idle.pc = "idle" /\ Idle.sec = {} /\ ~Idle.se
BY DEF Idle, ReqType, Pcs

LEMMA HttpStart ==
  ASSUME HttpInit
  PROVE  HttpInv
<1>1. HttpTypes
  BY IdleType DEF HttpInit, SecurityInit, HttpTypes, ConfType, OpensslType
<1>2. \A u \in Threads : req[u] = Idle /\ conf[u].cert = conf[u].key
  BY DEF HttpInit
<1>3. inCurl = {} /\ requested = {} /\ mutex.holder = "none" /\ ~mutex.initialized
  BY DEF HttpInit, SecurityInit
<1>4. MutexSound
  BY <1>2, <1>3, IdleType DEF MutexSound
<1>5. HandlesSound
  BY <1>3 DEF HandlesSound
<1>6. \A u \in Threads : ThreadSound(u) /\ PairSound(u) /\ TlsSound(u)
  BY <1>2, <1>3, IdleType DEF ThreadSound, PairSound, TlsSound, InCurl
<1>7. answer = NoAnswer /\ verifying = [v \in VerHandles |-> NoVerify]
  BY DEF HttpInit, SecurityInit
<1> QED BY <1>1, <1>4, <1>5, <1>6, <1>7 DEF HttpInv

ThreadInv(u) == ThreadSound(u) /\ PairSound(u) /\ TlsSound(u)

(* A step leaves a thread sound that it does not move, if what the thread  *)
(* finds in OpenSSL stays or is known to be gone.                          *)
LEMMA OthersStay ==
  ASSUME NEW u \in Threads, ThreadInv(u),
         req'[u] = req[u], conf'[u] = conf[u], torn'[u] = torn[u],
         u \in inCurl' <=> u \in inCurl,
         u \in inCurl /\ ~raced'[u] =>
           /\ ~raced[u]
           /\ openssl.algs => openssl'.algs
           /\ openssl.engine => openssl'.engine
  PROVE  ThreadInv(u)'
<1>1. ThreadSound(u)'
  BY DEF ThreadInv, ThreadSound
<1>2. PairSound(u)'
  BY DEF ThreadInv, PairSound
<1>3. TlsSound(u)'
  BY DEF ThreadInv, TlsSound
<1> QED BY <1>1, <1>2, <1>3 DEF ThreadInv

(* The handles stay with their threads where no thread gives one up.       *)
LEMMA HandlesStay ==
  ASSUME HandlesSound, NEW t \in Threads, requested' = requested,
         req[t].sec \subseteq req'[t].sec, \A u \in Threads : u # t => req'[u] = req[u]
  PROVE  HandlesSound'
<1>1. ASSUME NEW h \in requested \ AppHandles
      PROVE  \E u \in Threads : h \in req'[u].sec
  <2>1. PICK u \in Threads : h \in req[u].sec
    BY <1>1 DEF HandlesSound
  <2>2. CASE u = t
    BY <2>1, <2>2
  <2>3. CASE u # t
    BY <2>1, <2>3
  <2> QED BY <2>2, <2>3
<1> QED BY <1>1 DEF HandlesSound

LEMMA EnterStep ==
  ASSUME HttpInv, NEW t \in Threads, NEW stream \in BOOLEAN, NEW se \in BOOLEAN,
         Enter(t, stream, se)
  PROVE  HttpInv'
<1> DEFINE r == [Idle EXCEPT !.stream = stream, !.se = se,
                             !.pc = IF mutex.initialized THEN "lock" ELSE "init"]
<1>1. r \in ReqType /\ r.pc \in {"lock", "init"} /\ r.sec = {}
      /\ (~mutex.initialized => r.pc # "lock")
  BY DEF Idle, ReqType, Pcs
<1>2. req[t] = Idle /\ req' = [req EXCEPT ![t] = r]
  BY DEF Enter
<1>3. UNCHANGED <<conf, mutex, inCurl, reinit, torn, raced, secVars>>
  BY DEF Enter
<1>4. UNCHANGED <<openssl, requested, answer, verifying>>
  BY <1>3 DEF secVars
<1> HIDE DEF r
<1>5. req' \in [Threads -> ReqType] /\ req'[t] = r /\ \A u \in Threads : u # t => req'[u] = req[u]
  BY <1>1, <1>2, ReqAt DEF HttpInv, HttpTypes
<1>6. HttpTypes'
  BY <1>3, <1>4, <1>5 DEF HttpInv, HttpTypes
<1>7. MutexSound'
  BY <1>1, <1>3, <1>5 DEF HttpInv, MutexSound
<1>8. HandlesSound'
  BY <1>1, <1>2, <1>4, <1>5, IdleType, HandlesStay DEF HttpInv
<1>9. ThreadInv(t)'
  <2>1. t \notin inCurl
    BY <1>2, IdleType DEF HttpInv, ThreadSound, InCurl
  <2>2. PairSound(t)
    BY DEF HttpInv
  <2> QED
    BY <1>1, <1>2, <1>3, <1>5, <2>1, <2>2, IdleType DEF ThreadInv, ThreadSound, PairSound, TlsSound, InCurl
<1>10. \A u \in Threads : u # t => ThreadInv(u)'
  BY <1>3, <1>4, <1>5, OthersStay DEF HttpInv, ThreadInv
<1> QED BY <1>4, <1>6, <1>7, <1>8, <1>9, <1>10 DEF HttpInv, ThreadInv

(* Without a race of two initialisations the mutex is free and nobody is   *)
(* in curl when it is initialised.                                         *)
LEMMA LockInitStep ==
  ASSUME HttpInv, NEW t \in Threads, mutex_lock(t), req[t].pc = "init",
         UNCHANGED <<conf, torn, requested, verifying, timeHeld, answer>>
  PROVE  HttpInv'
<1>1. /\ mutex' = [initialized |-> TRUE, holder |-> "none"] /\ Goto(t, "lock")
      /\ reinit' = (reinit \/ mutex.initialized) /\ UNCHANGED <<inCurl, openssl, raced>>
  BY DEF mutex_lock
<1>2. /\ req' \in [Threads -> ReqType] /\ req'[t].pc = "lock" /\ req'[t].sec = req[t].sec
      /\ \A u \in Threads : u # t => req'[u] = req[u]
  BY <1>1, GotoAt DEF HttpInv, HttpTypes, Pcs
<1>3. HttpTypes'
  BY <1>1, <1>2 DEF HttpInv, HttpTypes
<1>4. MutexSound'
  BY <1>1 DEF HttpInv, MutexSound
<1>5. HandlesSound'
  BY <1>2, HandlesStay DEF HttpInv
<1>6. ThreadInv(t)'
  <2>1. ThreadSound(t) /\ PairSound(t)
    BY DEF HttpInv
  <2>2. t \notin inCurl
    BY <2>1 DEF ThreadSound, InCurl
  <2> QED BY <1>1, <1>2, <2>1, <2>2 DEF ThreadInv, ThreadSound, PairSound, TlsSound, InCurl
<1>7. \A u \in Threads : u # t => ThreadInv(u)'
  BY <1>1, <1>2, OthersStay DEF HttpInv, ThreadInv
<1> QED BY <1>3, <1>4, <1>5, <1>6, <1>7 DEF HttpInv, ThreadInv

(* The first to enter adds the algorithms; one that follows finds them, or *)
(* learns what those before know.                                          *)
LEMMA LockTakeStep ==
  ASSUME HttpInv, NEW t \in Threads, mutex_lock(t), req[t].pc = "lock",
         UNCHANGED <<conf, torn, requested, verifying, timeHeld, answer>>
  PROVE  HttpInv'
<1>1. /\ mutex.holder = "none" /\ mutex' = [mutex EXCEPT !.holder = t] /\ Goto(t, "curl")
      /\ inCurl' = inCurl \cup {t} /\ UNCHANGED reinit
      /\ openssl' = [openssl EXCEPT !.algs = @ \/ inCurl = {}]
      /\ raced' = [raced EXCEPT ![t] = \E u \in inCurl : raced[u]]
  BY DEF mutex_lock
<1>2. /\ req' \in [Threads -> ReqType] /\ req'[t].pc = "curl" /\ req'[t].sec = req[t].sec
      /\ \A u \in Threads : u # t => req'[u] = req[u]
  BY <1>1, GotoAt DEF HttpInv, HttpTypes, Pcs, InCurl
<1>3. /\ raced' \in [Threads -> BOOLEAN]
      /\ raced'[t] = \E u \in inCurl : raced[u]
      /\ \A u \in Threads : u # t => raced'[u] = raced[u]
  BY <1>1, Zenon DEF HttpInv, HttpTypes
<1>4. /\ openssl' \in OpensslType /\ openssl'.engine = openssl.engine
      /\ openssl'.algs = (openssl.algs \/ inCurl = {})
  BY <1>1 DEF HttpInv, HttpTypes, OpensslType
<1>5. /\ mutex' \in [initialized : BOOLEAN, holder : Threads \cup {"none"}]
      /\ mutex'.holder = t /\ mutex'.initialized = mutex.initialized
  BY <1>1 DEF HttpInv, HttpTypes
<1>6. HttpTypes'
  BY <1>1, <1>2, <1>3, <1>4, <1>5 DEF HttpInv, HttpTypes
<1>7. t \notin inCurl /\ ThreadSound(t) /\ PairSound(t)
  BY DEF HttpInv, ThreadSound, InCurl
<1>8. MutexSound'
  <2>1. \A u \in inCurl : u \in Threads
    BY DEF HttpInv, HttpTypes
  <2>2. ~reinit => inCurl = {}
    BY <1>1, <2>1, HttpAssumption DEF HttpInv, MutexSound
  <2>3. mutex.initialized
    BY DEF HttpInv, MutexSound
  <2> QED BY <1>1, <1>5, <2>2, <2>3 DEF MutexSound
<1>9. HandlesSound'
  BY <1>2, HandlesStay DEF HttpInv
<1>10. ThreadInv(t)'
  <2>1. ThreadSound(t)' /\ PairSound(t)'
    BY <1>1, <1>2, <1>7 DEF ThreadSound, PairSound, InCurl
  <2>2. ASSUME ~raced'[t] PROVE openssl'.algs
    <3>1. CASE inCurl = {}
      BY <1>4, <3>1
    <3>2. CASE inCurl # {}
      <4>1. PICK u \in inCurl : ~raced[u]
        BY <1>3, <2>2, <3>2
      <4>2. openssl.algs
        BY <4>1 DEF HttpInv, HttpTypes, TlsSound
      <4> QED BY <1>4, <4>2
    <3> QED BY <3>1, <3>2
  <2>3. TlsSound(t)'
    BY <1>2, <2>2 DEF TlsSound
  <2> QED BY <2>1, <2>3 DEF ThreadInv
<1>11. \A u \in Threads : u # t => ThreadInv(u)'
  BY <1>1, <1>2, <1>3, <1>4, OthersStay DEF HttpInv, ThreadInv
<1> QED BY <1>6, <1>8, <1>9, <1>10, <1>11 DEF HttpInv, ThreadInv

(* A request that is over leaves curl and the mutex.                       *)
LEMMA LeaveCurl ==
  ASSUME HttpInv, NEW t \in Threads, t \in inCurl, mutex_unlock, inCurl' = inCurl \ {t},
         UNCHANGED reinit, \A u \in Threads : req'[u].pc = "lock" => req[u].pc = "lock"
  PROVE  /\ MutexSound'
         /\ mutex' \in [initialized : BOOLEAN, holder : Threads \cup {"none"}]
<1>1. mutex' = [mutex EXCEPT !.holder = "none"]
  BY DEF mutex_unlock
<1>2. /\ mutex' \in [initialized : BOOLEAN, holder : Threads \cup {"none"}]
      /\ mutex'.holder = "none" /\ mutex'.initialized = mutex.initialized
  BY <1>1 DEF HttpInv, HttpTypes
<1>3. ~reinit => inCurl' = {}
  BY DEF HttpInv, MutexSound
<1>4. mutex.initialized
  BY DEF HttpInv, MutexSound
<1> QED BY <1>2, <1>3, <1>4 DEF MutexSound

LEMMA EasyInitStep ==
  ASSUME HttpInv, NEW t \in Threads, EasyInit(t),
         UNCHANGED <<conf, reinit, torn, raced, secVars>>
  PROVE  HttpInv'
<1>1. req[t].pc = "curl" /\ UNCHANGED <<openssl, requested, answer, verifying>>
  BY DEF EasyInit, secVars
<1>2. ThreadSound(t) /\ PairSound(t) /\ TlsSound(t) /\ req[t].sec = {} /\ t \in inCurl
  BY <1>1 DEF HttpInv, ThreadSound, InCurl
<1>3. CASE Goto(t, IF req[t].se THEN "request" ELSE "perform") /\ UNCHANGED <<mutex, inCurl>>
  <2>1. /\ req' \in [Threads -> ReqType] /\ req'[t].sec = req[t].sec /\ req'[t].se = req[t].se
        /\ req'[t].pc = IF req[t].se THEN "request" ELSE "perform"
        /\ \A u \in Threads : u # t => req'[u] = req[u]
    BY <1>3, GotoAt DEF HttpInv, HttpTypes, Pcs, InCurl
  <2>2. HttpTypes'
    BY <1>1, <1>3, <2>1 DEF HttpInv, HttpTypes
  <2>3. MutexSound'
    BY <1>3, <2>1 DEF HttpInv, MutexSound
  <2>4. HandlesSound'
    BY <1>1, <2>1, HandlesStay DEF HttpInv
  <2>5. ThreadInv(t)'
    BY <1>1, <1>2, <1>3, <2>1 DEF ThreadInv, ThreadSound, PairSound, TlsSound, InCurl
  <2>6. \A u \in Threads : u # t => ThreadInv(u)'
    BY <1>1, <1>3, <2>1, OthersStay DEF HttpInv, ThreadInv
  <2> QED BY <1>1, <2>2, <2>3, <2>4, <2>5, <2>6 DEF HttpInv, ThreadInv
<1>4. CASE req' = [req EXCEPT ![t] = Idle] /\ mutex_unlock /\ inCurl' = inCurl \ {t}
  <2>1. /\ req' \in [Threads -> ReqType] /\ req'[t] = Idle
        /\ \A u \in Threads : u # t => req'[u] = req[u]
    BY <1>4, IdleType, ReqAt DEF HttpInv, HttpTypes
  <2>2. MutexSound' /\ mutex' \in [initialized : BOOLEAN, holder : Threads \cup {"none"}]
    BY <1>2, <1>4, <2>1, IdleType, LeaveCurl
  <2>3. HttpTypes'
    BY <1>1, <1>4, <2>1, <2>2 DEF HttpInv, HttpTypes
  <2>4. HandlesSound'
    BY <1>1, <1>2, <2>1, HandlesStay DEF HttpInv
  <2>5. ThreadInv(t)'
    BY <1>1, <1>2, <1>4, <2>1, IdleType DEF ThreadInv, ThreadSound, PairSound, TlsSound, InCurl
  <2>6. \A u \in Threads : u # t => ThreadInv(u)'
    BY <1>1, <1>4, <2>1, OthersStay DEF HttpInv, ThreadInv
  <2> QED BY <1>1, <2>2, <2>3, <2>4, <2>5, <2>6 DEF HttpInv, ThreadInv
<1> QED BY <1>3, <1>4 DEF EasyInit

(* The handle a thread is given is new, and it finds the engine.           *)
LEMMA RequestSecurityStep ==
  ASSUME HttpInv, NEW t \in Threads, RequestSecurity(t),
         UNCHANGED <<conf, mutex, inCurl, reinit, torn, raced>>
  PROVE  HttpInv'
<1>1. req[t].pc = "request" /\ UNCHANGED <<answer, verifying>>
  BY DEF RequestSecurity
<1>2. ThreadSound(t) /\ PairSound(t) /\ TlsSound(t) /\ req[t].sec = {} /\ t \in inCurl
  BY <1>1 DEF HttpInv, ThreadSound, InCurl
<1>3. CASE Goto(t, "exit") /\ UNCHANGED <<requested, openssl>>
  <2>1. /\ req' \in [Threads -> ReqType] /\ req'[t].sec = req[t].sec /\ req'[t].pc = "exit"
        /\ \A u \in Threads : u # t => req'[u] = req[u]
    BY <1>3, GotoAt DEF HttpInv, HttpTypes, Pcs, InCurl
  <2>2. HttpTypes'
    BY <1>1, <1>3, <2>1 DEF HttpInv, HttpTypes
  <2>3. MutexSound'
    BY <1>3, <2>1 DEF HttpInv, MutexSound
  <2>4. HandlesSound'
    BY <1>3, <2>1, HandlesStay DEF HttpInv
  <2>5. ThreadInv(t)'
    BY <1>1, <1>2, <1>3, <2>1 DEF ThreadInv, ThreadSound, PairSound, TlsSound, InCurl
  <2>6. \A u \in Threads : u # t => ThreadInv(u)'
    BY <1>3, <2>1, OthersStay DEF HttpInv, ThreadInv
  <2> QED BY <1>1, <2>2, <2>3, <2>4, <2>5, <2>6 DEF HttpInv, ThreadInv
<1>4. ASSUME NEW h \in SecHandles \ AppHandles, os_security_request(h),
             req' = [req EXCEPT ![t].sec = {h},
                                ![t].pc = IF h \in requested' THEN "cert" ELSE "exit"]
      PROVE  HttpInv'
  <2> DEFINE r == [req[t] EXCEPT !.sec = {h}, !.pc = IF h \in requested' THEN "cert" ELSE "exit"]
  <2>1. req[t] \in ReqType
    BY DEF HttpInv, HttpTypes
  <2>2. /\ r \in ReqType /\ r.sec = {h} /\ r.se = req[t].se
        /\ r.pc = IF h \in requested' THEN "cert" ELSE "exit"
    BY <2>1 DEF ReqType, Pcs, InCurl
  <2>3. req' = [req EXCEPT ![t] = r]
    BY <1>4
  <2> HIDE DEF r
  <2>4. /\ req' \in [Threads -> ReqType] /\ req'[t] = r
        /\ \A u \in Threads : u # t => req'[u] = req[u]
    BY <2>2, <2>3, ReqAt DEF HttpInv, HttpTypes
  <2>5. /\ openssl' \in OpensslType /\ openssl'.algs = openssl.algs
        /\ openssl.engine => openssl'.engine
        /\ h \in requested' => openssl'.engine
        /\ requested' \in {requested, requested \cup {h}} /\ h \notin requested
    BY <1>4 DEF os_security_request, HttpInv, HttpTypes, OpensslType
  <2>6. HttpTypes'
    BY <2>4, <2>5 DEF HttpInv, HttpTypes
  <2>7. MutexSound'
    BY <2>2, <2>4 DEF HttpInv, MutexSound
  <2>8. HandlesSound'
    <3>1. ASSUME NEW x \in requested' \ AppHandles PROVE \E u \in Threads : x \in req'[u].sec
      <4>1. CASE x = h
        BY <2>2, <2>4, <4>1
      <4>2. CASE x # h
        <5>1. PICK u \in Threads : x \in req[u].sec
          BY <2>5, <4>2 DEF HttpInv, HandlesSound
        <5>2. u # t
          BY <1>2, <5>1
        <5> QED BY <2>4, <5>1, <5>2
      <4> QED BY <4>1, <4>2
    <3> QED BY <3>1 DEF HandlesSound
  <2>9. ThreadInv(t)'
    <3>1. ThreadSound(t)'
      BY <1>2, <2>2, <2>4 DEF ThreadSound, InCurl
    <3>2. PairSound(t)' /\ TlsSound(t)'
      BY <1>1, <1>2, <2>2, <2>4, <2>5 DEF PairSound, TlsSound
    <3> QED BY <3>1, <3>2 DEF ThreadInv
  <2>10. \A u \in Threads : u # t => ThreadInv(u)'
    BY <2>4, <2>5, OthersStay DEF HttpInv, ThreadInv
  <2> QED BY <1>1, <2>6, <2>7, <2>8, <2>9, <2>10 DEF HttpInv, ThreadInv
<1> QED BY <1>3, <1>4 DEF RequestSecurity

(* The steps inside curl that touch neither the mutex nor a handle: the    *)
(* certificate, the key and the transfer.                                  *)
LEMMA InsideStep ==
  ASSUME HttpInv, NEW t \in Threads, NEW pc \in InCurl \ {"cert"}, Goto(t, pc),
         req[t].pc \in InCurl \ {"curl", "request"},
         UNCHANGED <<mutex, inCurl, reinit, raced, openssl, requested, answer, verifying>>,
         conf' \in [Threads -> ConfType], torn' \in [Threads -> BOOLEAN],
         \A u \in Threads : u # t => conf'[u] = conf[u] /\ torn'[u] = torn[u],
         pc \in {"key", "perform"} => req[t].pc \in {"cert", "key"},
         pc \in {"key", "perform"} => req[t].sec # {},
         pc \notin {"curl", "request"},
         PairSound(t)'
  PROVE  HttpInv'
<1>1. /\ req' \in [Threads -> ReqType] /\ req'[t].sec = req[t].sec /\ req'[t].se = req[t].se
      /\ req'[t].pc = pc
      /\ \A u \in Threads : u # t => req'[u] = req[u]
  BY GotoAt DEF HttpInv, HttpTypes, Pcs
<1>2. ThreadSound(t) /\ TlsSound(t)
  BY DEF HttpInv
<1>3. HttpTypes'
  BY <1>1 DEF HttpInv, HttpTypes
<1>4. MutexSound'
  BY <1>1 DEF HttpInv, MutexSound, InCurl
<1>5. HandlesSound'
  BY <1>1, HandlesStay DEF HttpInv
<1>6. ThreadInv(t)'
  BY <1>1, <1>2 DEF ThreadInv, ThreadSound, TlsSound, InCurl
<1>7. \A u \in Threads : u # t => ThreadInv(u)'
  BY <1>1, OthersStay DEF HttpInv, ThreadInv
<1> QED BY <1>3, <1>4, <1>5, <1>6, <1>7 DEF HttpInv, ThreadInv

(* The parts of a configuration are replaced one at a time.                *)
LEMMA ConfAt ==
  ASSUME conf \in [Threads -> ConfType], NEW t \in Threads
  PROVE  /\ [conf EXCEPT ![t].cert = "element"] \in [Threads -> ConfType]
         /\ [conf EXCEPT ![t].cert = "element"][t].cert = "element"
         /\ [conf EXCEPT ![t].key = "element"] \in [Threads -> ConfType]
         /\ [conf EXCEPT ![t].key = "element"][t].key = "element"
         /\ [conf EXCEPT ![t].key = "element"][t].cert = conf[t].cert
         /\ \A u \in Threads : u # t => /\ [conf EXCEPT ![t].cert = "element"][u] = conf[u]
                                        /\ [conf EXCEPT ![t].key = "element"][u] = conf[u]
BY DEF ConfType

LEMMA GetCertificateStep ==
  ASSUME HttpInv, NEW t \in Threads, GetCertificate(t),
         UNCHANGED <<mutex, inCurl, reinit, torn, raced, secVars>>
  PROVE  HttpInv'
<1>1. req[t].pc = "cert" /\ UNCHANGED <<openssl, requested, answer, verifying>>
  BY DEF GetCertificate, secVars
<1>2. PICK r : /\ Goto(t, IF r = "S_OK" THEN "key" ELSE "exit")
               /\ conf' = IF r = "S_OK" THEN [conf EXCEPT ![t].cert = "element"] ELSE conf
  BY DEF GetCertificate
<1>3. conf \in [Threads -> ConfType] /\ torn \in [Threads -> BOOLEAN]
  BY DEF HttpInv, HttpTypes
<1>4. req[t].sec # {} /\ PairSound(t)
  BY <1>1 DEF HttpInv, ThreadSound
<1>5. CASE r = "S_OK"
  <2>1. Goto(t, "key") /\ conf' = [conf EXCEPT ![t].cert = "element"]
    BY <1>2, <1>5
  <2>2. req'[t].pc = "key"
    BY <2>1, GotoAt DEF HttpInv, HttpTypes, Pcs, InCurl
  <2>3. PairSound(t)'
    BY <1>3, <2>1, <2>2, ConfAt DEF PairSound
  <2>4. /\ conf' \in [Threads -> ConfType]
        /\ \A u \in Threads : u # t => conf'[u] = conf[u] /\ torn'[u] = torn[u]
    BY <1>3, <2>1, ConfAt
  <2>5. "key" \in InCurl \ {"cert"} /\ req[t].pc \in InCurl \ {"curl", "request"}
    BY <1>1 DEF InCurl
  <2> QED BY <1>1, <1>3, <1>4, <2>1, <2>3, <2>4, <2>5, InsideStep
<1>6. CASE r # "S_OK"
  <2>1. Goto(t, "exit") /\ conf' = conf
    BY <1>2, <1>6
  <2>2. req'[t].pc = "exit"
    BY <2>1, GotoAt DEF HttpInv, HttpTypes, Pcs, InCurl
  <2>3. PairSound(t)'
    BY <1>1, <1>4, <2>1, <2>2 DEF PairSound
  <2>4. "exit" \in InCurl \ {"cert"} /\ req[t].pc \in InCurl \ {"curl", "request"}
    BY <1>1 DEF InCurl
  <2> QED BY <1>1, <1>3, <2>1, <2>3, <2>4, InsideStep
<1> QED BY <1>5, <1>6

LEMMA GetKeyStep ==
  ASSUME HttpInv, NEW t \in Threads, GetKey(t),
         UNCHANGED <<mutex, inCurl, reinit, raced, verifying, timeHeld, answer>>
  PROVE  HttpInv'
<1>1. req[t].pc = "key" /\ UNCHANGED <<openssl, requested>>
  BY DEF GetKey
<1>2. PICK r : /\ Goto(t, IF r = "S_OK" THEN "perform" ELSE "exit")
               /\ conf' = IF r = "S_OK" THEN [conf EXCEPT ![t].key = "element"] ELSE conf
               /\ torn' = [torn EXCEPT ![t] = r # "S_OK" /\ conf[t].key # "element"]
  BY DEF GetKey
<1>3. conf \in [Threads -> ConfType] /\ torn \in [Threads -> BOOLEAN]
  BY DEF HttpInv, HttpTypes
<1>4. req[t].sec # {} /\ conf[t].cert = "element"
  BY <1>1 DEF HttpInv, ThreadSound, PairSound
<1>5. (r # "S_OK" /\ conf[t].key # "element") \in BOOLEAN
  OBVIOUS
<1>6. /\ torn' \in [Threads -> BOOLEAN] /\ \A u \in Threads : u # t => torn'[u] = torn[u]
      /\ torn'[t] = (r # "S_OK" /\ conf[t].key # "element")
  BY <1>2, <1>3, <1>5, Zenon
<1>7. req[t].pc \in InCurl \ {"curl", "request"}
  BY <1>1 DEF InCurl
<1>8. CASE r = "S_OK"
  <2>1. Goto(t, "perform") /\ conf' = [conf EXCEPT ![t].key = "element"]
    BY <1>2, <1>8
  <2>2. req'[t].pc = "perform"
    BY <2>1, GotoAt DEF HttpInv, HttpTypes, Pcs, InCurl
  <2>3. conf' \in [Threads -> ConfType] /\ \A u \in Threads : u # t => conf'[u] = conf[u]
    BY <1>3, <2>1, ConfAt
  <2>4. conf'[t].cert = conf'[t].key
    BY <1>3, <1>4, <2>1, ConfAt
  <2>5. PairSound(t)'
    BY <2>2, <2>4 DEF PairSound
  <2>6. "perform" \in InCurl \ {"cert"}
    BY DEF InCurl
  <2> QED BY <1>1, <1>4, <1>6, <1>7, <2>1, <2>3, <2>5, <2>6, InsideStep
<1>9. CASE r # "S_OK"
  <2>1. Goto(t, "exit") /\ conf' = conf
    BY <1>2, <1>9
  <2>2. req'[t].pc = "exit"
    BY <2>1, GotoAt DEF HttpInv, HttpTypes, Pcs, InCurl
  <2>3. PairSound(t)'
    BY <1>4, <1>6, <1>9, <2>1, <2>2 DEF PairSound
  <2>4. "exit" \in InCurl \ {"cert"}
    BY DEF InCurl
  <2> QED BY <1>1, <1>3, <1>6, <1>7, <2>1, <2>3, <2>4, InsideStep
<1> QED BY <1>8, <1>9

LEMMA PerformStep ==
  ASSUME HttpInv, NEW t \in Threads, Perform(t),
         UNCHANGED <<conf, mutex, inCurl, reinit, torn, raced, secVars>>
  PROVE  HttpInv'
<1>1. req[t].pc = "perform" /\ UNCHANGED <<openssl, requested, answer, verifying>>
  BY DEF Perform, secVars
<1>2. PICK pc \in {"stuck", "exit"} : Goto(t, pc)
  BY DEF Perform
<1>3. conf \in [Threads -> ConfType] /\ torn \in [Threads -> BOOLEAN]
  BY DEF HttpInv, HttpTypes
<1>4. req'[t].pc = pc
  BY <1>2, GotoAt DEF HttpInv, HttpTypes, Pcs, InCurl
<1>5. PairSound(t)
  BY DEF HttpInv
<1>6. PairSound(t)'
  BY <1>1, <1>4, <1>5 DEF PairSound
<1>7. pc \in InCurl \ {"cert"} /\ req[t].pc \in InCurl \ {"curl", "request"}
  BY <1>1 DEF InCurl
<1> QED BY <1>1, <1>2, <1>3, <1>6, <1>7, InsideStep

LEMMA ExitStep ==
  ASSUME HttpInv, NEW t \in Threads, Exit(t),
         UNCHANGED <<conf, reinit, torn, raced, secVars>>
  PROVE  HttpInv'
<1> DEFINE r == IF req[t].sec # {} THEN [req[t] EXCEPT !.pc = "release"] ELSE Idle
<1>1. /\ req[t].pc = "exit" /\ inCurl' = inCurl \ {t} /\ mutex_unlock
      /\ UNCHANGED <<openssl, requested, answer, verifying>>
  BY DEF Exit, secVars
<1>2. req' = [req EXCEPT ![t] = r]
  BY DEF Exit
<1>3. req[t] \in ReqType
  BY DEF HttpInv, HttpTypes
<1>4. /\ r \in ReqType /\ r.sec = req[t].sec
      /\ r.pc = IF req[t].sec # {} THEN "release" ELSE "idle"
  BY <1>3, IdleType DEF ReqType, Pcs
<1> HIDE DEF r
<1>5. /\ req' \in [Threads -> ReqType] /\ req'[t] = r
      /\ \A u \in Threads : u # t => req'[u] = req[u]
  BY <1>2, <1>4, ReqAt DEF HttpInv, HttpTypes
<1>6. ThreadSound(t) /\ PairSound(t) /\ t \in inCurl
  BY <1>1 DEF HttpInv, ThreadSound, InCurl
<1>7. MutexSound' /\ mutex' \in [initialized : BOOLEAN, holder : Threads \cup {"none"}]
  BY <1>1, <1>4, <1>5, <1>6, LeaveCurl
<1>8. HttpTypes'
  BY <1>1, <1>5, <1>7 DEF HttpInv, HttpTypes
<1>9. HandlesSound'
  BY <1>1, <1>4, <1>5, HandlesStay DEF HttpInv
<1>10. ThreadInv(t)'
  BY <1>1, <1>4, <1>5, <1>6 DEF ThreadInv, ThreadSound, PairSound, TlsSound, InCurl
<1>11. \A u \in Threads : u # t => ThreadInv(u)'
  BY <1>1, <1>5, OthersStay DEF HttpInv, ThreadInv
<1> QED BY <1>1, <1>7, <1>8, <1>9, <1>10, <1>11 DEF HttpInv, ThreadInv

(* The release takes the tables of OpenSSL from whoever is in curl, who    *)
(* are then known to have lost them.                                       *)
LEMMA ReleaseStep ==
  ASSUME HttpInv, NEW t \in Threads, Release(t),
         UNCHANGED <<conf, mutex, inCurl, reinit, torn, verifying, timeHeld, answer>>
  PROVE  HttpInv'
<1>1. req[t].pc = "release" /\ req' = [req EXCEPT ![t] = Idle]
  BY DEF Release
<1>2. PICK h \in req[t].sec :
        /\ os_security_release(h)
        /\ raced' = [u \in Threads |-> raced[u] \/ (u \in inCurl /\ h \in requested)]
  BY DEF Release
<1>3. ThreadSound(t) /\ PairSound(t) /\ t \notin inCurl
  BY <1>1 DEF HttpInv, ThreadSound, InCurl
<1>4. req[t].sec = {h}
  BY <1>3 DEF ThreadSound
<1>5. /\ req' \in [Threads -> ReqType] /\ req'[t] = Idle
      /\ \A u \in Threads : u # t => req'[u] = req[u]
  BY <1>1, IdleType, ReqAt DEF HttpInv, HttpTypes
<1>6. /\ openssl' \in OpensslType /\ requested' = requested \ {h}
      /\ h \notin requested => openssl' = openssl
  BY <1>2 DEF os_security_release, HttpInv, HttpTypes, OpensslType
<1>7. \A u \in Threads : (raced[u] \/ (u \in inCurl /\ h \in requested)) \in BOOLEAN
  OBVIOUS
<1>8. /\ raced' \in [Threads -> BOOLEAN]
      /\ \A u \in Threads : raced'[u] = (raced[u] \/ (u \in inCurl /\ h \in requested))
  BY <1>2, <1>7, Zenon
<1>9. HttpTypes'
  BY <1>5, <1>6, <1>8 DEF HttpInv, HttpTypes
<1>10. MutexSound'
  BY <1>5, IdleType DEF HttpInv, MutexSound
<1>11. HandlesSound'
  <2>1. ASSUME NEW x \in requested' \ AppHandles PROVE \E u \in Threads : x \in req'[u].sec
    <3>1. PICK u \in Threads : x \in req[u].sec
      BY <1>6, <2>1 DEF HttpInv, HandlesSound
    <3>2. u # t
      BY <1>4, <1>6, <2>1, <3>1
    <3> QED BY <1>5, <3>1, <3>2
  <2> QED BY <2>1 DEF HandlesSound
<1>12. ThreadInv(t)'
  BY <1>1, <1>3, <1>5, IdleType DEF ThreadInv, ThreadSound, PairSound, TlsSound, InCurl
<1>13. \A u \in Threads : u # t => ThreadInv(u)'
  BY <1>5, <1>6, <1>8, OthersStay DEF HttpInv, ThreadInv
<1> QED BY <1>9, <1>10, <1>11, <1>12, <1>13 DEF HttpInv, ThreadInv

THEOREM HttpInductive == HttpSpec => []HttpInv
<1>1. HttpInit => HttpInv
  BY HttpStart
<1>2. ASSUME HttpInv, NEW t \in Threads, HttpStep(t) PROVE HttpInv'
  <2>1. CASE \E stream, se \in BOOLEAN : Enter(t, stream, se)
    BY <1>2, <2>1, EnterStep
  <2>2. CASE mutex_lock(t) /\ UNCHANGED <<conf, torn, requested, verifying, timeHeld, answer>>
    <3>1. req[t].pc \in {"init", "lock"}
      BY <2>2 DEF mutex_lock
    <3> QED BY <1>2, <2>2, <3>1, LockInitStep, LockTakeStep
  <2> QED
    BY <1>2, <2>1, <2>2, EasyInitStep, RequestSecurityStep, GetCertificateStep, GetKeyStep,
       PerformStep, ExitStep, ReleaseStep DEF HttpStep
<1>3. ASSUME HttpInv, UNCHANGED httpVars PROVE HttpInv'
  <2>1. UNCHANGED <<req, conf, mutex, inCurl, reinit, torn, raced>>
    BY <1>3 DEF httpVars, httpOnly
  <2>2. UNCHANGED <<openssl, requested, verifying, answer>>
    BY <1>3 DEF httpVars, secVars
  <2> QED
    BY <1>3, <2>1, <2>2 DEF HttpInv, HttpTypes, MutexSound, HandlesSound, ThreadSound, PairSound, TlsSound
<1>4. HttpInv /\ [HttpNext]_httpVars => HttpInv'
  BY <1>2, <1>3, HttpCases
<1> QED BY <1>1, <1>4, PTL DEF HttpSpec

(* For every number of threads and requests: one thread at a time is in    *)
(* curl unless two of them initialised the mutex, an idle thread holds     *)
(* nothing, certificate and key match unless a request failed between      *)
(* them, and TLS is ready unless a handle was released meanwhile.          *)
THEOREM HttpIsSound == HttpSpec => []HttpSound
<1>1. ASSUME HttpInv PROVE HttpSound
  <2>1. SecurityTypeOK
    BY <1>1 DEF HttpInv, HttpTypes, SecurityTypeOK, NoVerify, OpensslType
  <2>2. VerifiedIsGenuine /\ GenuineIsRefusedAfterRelease
    BY <1>1 DEF HttpInv, NoAnswer, VerifiedIsGenuine, GenuineIsRefusedAfterRelease
  <2>3. HttpTypeOK
    BY <1>1 DEF HttpInv, HttpTypes, ThreadSound, HttpTypeOK, ReqType, Pcs, InCurl, ConfType
  <2>4. OneInCurl
    <3>1. CASE reinit
      BY <3>1 DEF OneInCurl
    <3>2. CASE ~reinit
      <4>1. inCurl = {} \/ inCurl = {mutex.holder}
        BY <1>1, <3>2 DEF HttpInv, MutexSound
      <4>2. Cardinality(inCurl) \in {0, 1}
        BY <4>1, FS_EmptySet, FS_Singleton
      <4> QED BY <4>2 DEF OneInCurl
    <3> QED BY <3>1, <3>2
  <2>5. IdleHoldsNothing
    <3>1. ASSUME NEW t \in Threads, req[t] = Idle, mutex.holder = t PROVE FALSE
      <4>1. t \in inCurl
        BY <1>1, <3>1, HttpAssumption DEF HttpInv, MutexSound
      <4> QED BY <1>1, <3>1, <4>1, IdleType DEF HttpInv, ThreadSound, InCurl
    <3> QED BY <1>1, <3>1 DEF HttpInv, HandlesSound, IdleHoldsNothing
  <2>6. PairMatches
    BY <1>1 DEF HttpInv, PairSound, PairMatches
  <2>7. TlsIsReady
    BY <1>1 DEF HttpInv, ThreadSound, TlsSound, TlsIsReady, InCurl
  <2> QED BY <2>1, <2>2, <2>3, <2>4, <2>5, <2>6, <2>7 DEF HttpSound
<1> QED BY <1>1, HttpInductive, PTL

-----------------------------------------------------------------------------
(* Verification of signatures, linux_security.c.                           *)

(* What init found out about a block before it answers S_OK.               *)
Accepted(s, since) ==
  /\ s.signed /\ s.signers = 1 /\ s.chain
  /\ since # 0 => s.year # 0 /\ s.year >= since

Sinces == {0, 2000}
Verification == [live : {TRUE}, sig : Signatures, since : Sinces, data : Seq(Chunks)]

SecurityInv ==
  /\ openssl \in OpensslType /\ requested \subseteq SecHandles /\ cleaned \in BOOLEAN
  /\ verifying \in [VerHandles -> {NoVerify} \cup Verification]
  /\ \A v \in VerHandles : verifying[v].live =>
       /\ Accepted(verifying[v].sig, verifying[v].since)
       /\ Len(verifying[v].data) <= MaxChunks /\ openssl.global
  /\ openssl.global /\ ~cleaned => openssl.algs
  /\ VerifiedIsGenuine /\ GenuineIsRefusedAfterRelease

(* The two digits of a year stand for that year.                           *)
LEMMA YearIsKept ==
  ASSUME NEW year \in 1950..2049
  PROVE  convert_asn1_time(year) = year
BY DEF convert_asn1_time, asn1_parse_int

(* init answers S_OK for the blocks it should accept and for no other,     *)
(* when the algorithms are there.                                          *)
LEMMA AnswerIsRight ==
  ASSUME NEW s, s.signed \in BOOLEAN, s.signers \in 0..2, s.chain \in BOOLEAN,
         s.year \in {0} \cup 1950..2049, NEW since \in Sinces, NEW algs \in BOOLEAN
  PROVE  VerifyAnswer(s, since, algs) = "S_OK" <=> Accepted(s, since) /\ algs
<1>1. s.year \in Int /\ (s.year = 0 \/ convert_asn1_time(s.year) = s.year)
  BY YearIsKept
<1> QED BY <1>1 DEF VerifyAnswer, Accepted, Sinces

(* The records with the parts init sets.                                   *)
LEMMA InitOpenssl ==
  ASSUME NEW o \in OpensslType, NEW b \in BOOLEAN
  PROVE  /\ [o EXCEPT !.algs = b, !.global = TRUE] \in OpensslType
         /\ [o EXCEPT !.algs = b, !.global = TRUE].algs = b
         /\ [o EXCEPT !.algs = b, !.global = TRUE].global
BY DEF OpensslType

LEMMA InitBlock ==
  ASSUME NEW s \in SigType, NEW b \in BOOLEAN
  PROVE  /\ [s EXCEPT !.chain = b].chain = b
         /\ [s EXCEPT !.chain = b].signed = s.signed
         /\ [s EXCEPT !.chain = b].signers = s.signers
         /\ [s EXCEPT !.chain = b].year = s.year
BY DEF SigType

LEMMA SecurityInitStep ==
  ASSUME SecurityInv, NEW v \in VerHandles, NEW s \in Signatures, NEW since \in Sinces,
         os_verify_signature_init(v, s, since)
  PROVE  SecurityInv'
<1>1. s \in SigType /\ openssl \in OpensslType /\ openssl.global \in BOOLEAN
  BY SecurityAssumption DEF SecurityInv, OpensslType
<1>2. PICK full \in BOOLEAN : full = (openssl.algs \/ ~openssl.global)
  OBVIOUS
<1>3. PICK held \in BOOLEAN : held = (s.chain /\ full)
  OBVIOUS
<1> DEFINE c == [s EXCEPT !.chain = held]
           ret == VerifyAnswer(c, since, full)
           n == [live |-> TRUE, sig |-> s, since |-> since, data |-> <<>>]
<1>4. /\ openssl' = [openssl EXCEPT !.algs = full, !.global = TRUE]
      /\ cleaned' = (cleaned /\ openssl.global) /\ requested' = requested
  BY <1>2, Zenon DEF os_verify_signature_init
<1>5. /\ verifying' = IF ret # "S_OK" THEN verifying ELSE [verifying EXCEPT ![v] = n]
      /\ answer' = IF ret = "S_OK" THEN NoAnswer
                   ELSE [ret |-> ret, sig |-> s, since |-> since, data |-> s.data]
  <2>1. c = [s EXCEPT !.chain = @ /\ (openssl.algs \/ ~openssl.global)]
    BY <1>2, <1>3, Zenon
  <2> HIDE DEF c, n
  <2>2. ret = VerifyAnswer([s EXCEPT !.chain = @ /\ (openssl.algs \/ ~openssl.global)], since,
                           openssl.algs \/ ~openssl.global)
    BY <1>2, <2>1, Zenon
  <2> HIDE DEF ret
  <2> QED BY <2>2, Zenon DEF os_verify_signature_init, n
<1>6. ret = "S_OK" <=> Accepted(s, since) /\ full
  <2>1. /\ s.signed \in BOOLEAN /\ s.signers \in 0..2 /\ s.chain \in BOOLEAN
        /\ s.year \in {0} \cup 1950..2049
    BY <1>1 DEF SigType
  <2>2. c.chain = held /\ c.signed = s.signed /\ c.signers = s.signers /\ c.year = s.year
    BY <1>1, InitBlock
  <2> HIDE DEF c
  <2>3. ret = "S_OK" <=> Accepted(c, since) /\ full
    BY <2>1, <2>2, AnswerIsRight
  <2>4. Accepted(c, since) <=> Accepted(s, since) /\ full
    BY <1>3, <2>1, <2>2 DEF Accepted
  <2> QED BY <2>3, <2>4
<1> HIDE DEF ret, c
<1>7. openssl' \in OpensslType /\ openssl'.global /\ openssl'.algs = full
  BY <1>1, <1>4, InitOpenssl
<1>8. cleaned' \in BOOLEAN /\ (~full => cleaned')
  BY <1>1, <1>2, <1>4 DEF SecurityInv
<1>9. n \in Verification /\ n.sig = s /\ n.since = since /\ Len(n.data) = 0
  BY DEF Verification
<1> HIDE DEF n
<1>10. /\ verifying' \in [VerHandles -> {NoVerify} \cup Verification]
      /\ \A u \in VerHandles : verifying'[u] = verifying[u] \/ (verifying'[u] = n /\ ret = "S_OK")
  BY <1>5, <1>9 DEF SecurityInv
<1>11. ASSUME NEW u \in VerHandles, verifying'[u].live
       PROVE  /\ Accepted(verifying'[u].sig, verifying'[u].since)
              /\ Len(verifying'[u].data) <= MaxChunks
  <2>1. CASE verifying'[u] = verifying[u]
    BY <1>11, <2>1 DEF SecurityInv
  <2>2. CASE verifying'[u] = n /\ ret = "S_OK"
    BY <1>6, <1>9, <2>2, SecurityAssumption
  <2> QED BY <1>10, <2>1, <2>2
<1>12. VerifiedIsGenuine'
  BY <1>5 DEF VerifiedIsGenuine, NoAnswer
<1>13. GenuineIsRefusedAfterRelease'
  <2>1. ASSUME answer'.ret # "none", Genuine(answer'), answer'.ret # "S_OK" PROVE cleaned'
    <3>1. ret # "S_OK" /\ answer' = [ret |-> ret, sig |-> s, since |-> since, data |-> s.data]
      BY <1>5, <2>1 DEF NoAnswer
    <3>2. Accepted(s, since)
      BY <2>1, <3>1 DEF Genuine, Accepted
    <3> QED BY <1>6, <1>8, <3>1, <3>2
  <2> QED BY <2>1 DEF GenuineIsRefusedAfterRelease, Genuine
<1> QED BY <1>2, <1>4, <1>7, <1>8, <1>10, <1>11, <1>12, <1>13 DEF SecurityInv

(* The other operations of a verification.                                 *)
LEMMA SecurityUpdateStep ==
  ASSUME SecurityInv, NEW v \in VerHandles, NEW c \in Chunks, os_verify_signature_update(v, c)
  PROVE  SecurityInv'
<1> DEFINE n == [verifying[v] EXCEPT !.data = Append(@, c)]
<1>1. /\ verifying[v].live /\ Len(verifying[v].data) < MaxChunks
      /\ verifying' = [verifying EXCEPT ![v] = n] /\ answer' = NoAnswer
      /\ UNCHANGED <<openssl, requested, cleaned>>
  BY DEF os_verify_signature_update
<1>2. verifying[v] \in Verification
  BY <1>1 DEF SecurityInv, NoVerify
<1>3. n \in Verification /\ n.sig = verifying[v].sig /\ n.since = verifying[v].since
  <2> HIDE DEF n
  <2>0. verifying[v].data \in Seq(Chunks)
    BY <1>2 DEF Verification
  <2>1. Append(verifying[v].data, c) \in Seq(Chunks)
    BY <2>0
  <2>2. n = [verifying[v] EXCEPT !.data = Append(verifying[v].data, c)]
    BY DEF n
  <2>3. n \in Verification
    BY <1>2, <2>1, <2>2, Zenon DEF Verification
  <2>4. n.sig = verifying[v].sig /\ n.since = verifying[v].since
    BY <1>2, <2>2 DEF Verification
  <2> QED BY <2>3, <2>4
<1>4. Len(n.data) <= MaxChunks
  <2>1. verifying[v].data \in Seq(Chunks) /\ n.data = Append(verifying[v].data, c)
    BY <1>2 DEF Verification
  <2> HIDE DEF n
  <2> QED BY <1>1, <2>1, SecurityAssumption
<1> HIDE DEF n
<1>5. /\ verifying' \in [VerHandles -> {NoVerify} \cup Verification]
      /\ verifying'[v] = n /\ \A u \in VerHandles : u # v => verifying'[u] = verifying[u]
  BY <1>1, <1>3 DEF SecurityInv
<1>6. ASSUME NEW u \in VerHandles, verifying'[u].live
      PROVE  /\ Accepted(verifying'[u].sig, verifying'[u].since)
             /\ Len(verifying'[u].data) <= MaxChunks /\ openssl'.global
  <2>1. CASE u # v
    BY <1>1, <1>5, <1>6, <2>1 DEF SecurityInv
  <2>2. CASE u = v
    BY <1>1, <1>3, <1>4, <1>5, <2>2 DEF SecurityInv
  <2> QED BY <2>1, <2>2
<1>7. VerifiedIsGenuine' /\ GenuineIsRefusedAfterRelease'
  BY <1>1 DEF VerifiedIsGenuine, GenuineIsRefusedAfterRelease, NoAnswer
<1> QED BY <1>1, <1>5, <1>6, <1>7 DEF SecurityInv

LEMMA SecurityFinalStep ==
  ASSUME SecurityInv, NEW v \in VerHandles, os_verify_signature_final(v)
  PROVE  SecurityInv'
<1> DEFINE n == verifying[v]
           ret == IF n.data # n.sig.data THEN "E_SECURITY_DIGEST_MISMATCH"
                  ELSE IF ~openssl.algs THEN "E_SECURITY_INVALID_PKCS7"
                  ELSE IF ~n.sig.right THEN "E_SECURITY_SIGNATURE_MISMATCH"
                  ELSE "S_OK"
<1>1. /\ n.live /\ verifying' = [verifying EXCEPT ![v] = NoVerify]
      /\ answer' = [ret |-> ret, sig |-> n.sig, since |-> n.since, data |-> n.data]
      /\ UNCHANGED <<openssl, requested, cleaned>>
  BY DEF os_verify_signature_final
<1>2. ret = "S_OK" <=> n.data = n.sig.data /\ openssl.algs /\ n.sig.right
  OBVIOUS
<1>3. Accepted(n.sig, n.since) /\ openssl.global
  BY <1>1 DEF SecurityInv
<1> HIDE DEF n, ret
<1>4. /\ verifying' \in [VerHandles -> {NoVerify} \cup Verification]
      /\ \A u \in VerHandles : verifying'[u] = verifying[u] \/ verifying'[u] = NoVerify
  BY <1>1 DEF SecurityInv
<1>5. ASSUME NEW u \in VerHandles, verifying'[u].live
      PROVE  /\ Accepted(verifying'[u].sig, verifying'[u].since)
             /\ Len(verifying'[u].data) <= MaxChunks /\ openssl'.global
  <2>1. verifying'[u] = verifying[u]
    BY <1>4, <1>5 DEF NoVerify
  <2> QED BY <1>1, <1>5, <2>1 DEF SecurityInv
<1>6. Genuine(answer') <=> n.sig.right /\ n.data = n.sig.data
  BY <1>1, <1>3 DEF Genuine, Accepted
<1>7. VerifiedIsGenuine'
  BY <1>1, <1>2, <1>6 DEF VerifiedIsGenuine, Genuine
<1>8. GenuineIsRefusedAfterRelease'
  <2>1. ASSUME Genuine(answer'), answer'.ret # "S_OK" PROVE cleaned'
    BY <1>1, <1>2, <1>3, <1>6, <2>1 DEF SecurityInv
  <2> QED BY <2>1 DEF GenuineIsRefusedAfterRelease, Genuine
<1> QED BY <1>1, <1>4, <1>5, <1>7, <1>8 DEF SecurityInv

(* Requests and releases of handles between the steps of a verification.   *)
LEMMA SecurityHandleStep ==
  ASSUME SecurityInv, NEW h \in SecHandles, SecRequest(h) \/ SecRelease(h)
  PROVE  SecurityInv'
<1>1. UNCHANGED <<verifying, answer>>
  BY DEF SecRequest, SecRelease
<1>2. openssl \in OpensslType
  BY DEF SecurityInv
<1>3. /\ openssl' \in OpensslType /\ openssl'.global = openssl.global
      /\ requested' \subseteq SecHandles
      /\ cleaned' = TRUE \/ (cleaned' = cleaned /\ openssl'.algs = openssl.algs)
  <2>1. CASE SecRequest(h)
    <3>1. requested' \subseteq SecHandles /\ cleaned' = cleaned
      BY <2>1 DEF SecRequest, os_security_request, SecurityInv
    <3>2. openssl' = openssl \/ openssl' = [openssl EXCEPT !.engine = TRUE]
      BY <2>1 DEF SecRequest, os_security_request
    <3>3. openssl' \in OpensslType /\ openssl'.global = openssl.global /\ openssl'.algs = openssl.algs
      BY <1>2, <3>2 DEF OpensslType
    <3> QED BY <3>1, <3>3
  <2>2. CASE SecRelease(h)
    <3>1. requested' \subseteq SecHandles
      BY <2>2 DEF SecRelease, os_security_release, SecurityInv
    <3>2. \/ UNCHANGED <<openssl, cleaned>>
          \/ openssl' = [openssl EXCEPT !.algs = FALSE, !.engine = FALSE] /\ cleaned' = TRUE
      BY <2>2, Zenon DEF SecRelease, os_security_release
    <3>3. openssl' \in OpensslType /\ openssl'.global = openssl.global
      BY <1>2, <3>2 DEF OpensslType
    <3> QED BY <3>1, <3>2, <3>3
  <2> QED BY <2>1, <2>2
<1>4. cleaned' \in BOOLEAN /\ (openssl'.global /\ ~cleaned' => openssl'.algs)
  <2>1. cleaned \in BOOLEAN /\ (openssl.global /\ ~cleaned => openssl.algs)
    BY DEF SecurityInv
  <2> QED BY <1>3, <2>1, Zenon
<1>5. VerifiedIsGenuine'
  BY <1>1 DEF SecurityInv, VerifiedIsGenuine, Genuine
<1>6. GenuineIsRefusedAfterRelease'
  BY <1>1, <1>3 DEF SecurityInv, GenuineIsRefusedAfterRelease, Genuine
<1> QED BY <1>1, <1>3, <1>4, <1>5, <1>6 DEF SecurityInv

(* For every number of verifications and whatever they interleave with:    *)
(* os_verify_signature_final answers S_OK only for the data the block was  *)
(* made for, under a chain to the CA and signed late enough, and refuses   *)
(* such a block only after a handle was released.                          *)
THEOREM VerificationIsSound ==
  SecuritySpec => [](SecurityTypeOK /\ VerifiedIsGenuine /\ GenuineIsRefusedAfterRelease)
<1>1. ASSUME SecurityInit PROVE SecurityInv
  <2>1. openssl \in OpensslType /\ ~openssl.global /\ requested = {} /\ cleaned = FALSE
    BY <1>1 DEF SecurityInit, OpensslType
  <2>2. /\ verifying \in [VerHandles -> {NoVerify} \cup Verification]
        /\ \A v \in VerHandles : ~verifying[v].live
    BY <1>1 DEF SecurityInit, NoVerify
  <2>3. answer.ret = "none"
    BY <1>1 DEF SecurityInit, NoAnswer
  <2>4. VerifiedIsGenuine /\ GenuineIsRefusedAfterRelease
    BY <2>3 DEF VerifiedIsGenuine, GenuineIsRefusedAfterRelease
  <2> QED BY <2>1, <2>2, <2>4 DEF SecurityInv
<1>2. SecurityInv /\ [SecurityNext]_secVars => SecurityInv'
  <2>1. ASSUME SecurityInv, SecurityNext PROVE SecurityInv'
    <3>1. CASE \E h \in AppHandles : SecRequest(h) \/ SecRelease(h)
      BY <2>1, <3>1, SecurityHandleStep, SecurityAssumption
    <3>2. CASE \E v \in VerHandles, s \in Signatures, since \in Sinces : os_verify_signature_init(v, s, since)
      BY <2>1, <3>2, SecurityInitStep
    <3>3. CASE \E v \in VerHandles, c \in Chunks : os_verify_signature_update(v, c)
      BY <2>1, <3>3, SecurityUpdateStep
    <3>4. CASE \E v \in VerHandles : os_verify_signature_final(v)
      BY <2>1, <3>4, SecurityFinalStep
    <3>5. CASE UNCHANGED secVars
      BY <2>1, <3>5 DEF SecurityInv, secVars, VerifiedIsGenuine, GenuineIsRefusedAfterRelease, Genuine
    <3> QED BY <2>1, <3>1, <3>2, <3>3, <3>4, <3>5 DEF SecurityNext, SecQuery, Sinces
  <2>2. ASSUME SecurityInv, UNCHANGED secVars PROVE SecurityInv'
    BY <2>2 DEF SecurityInv, secVars, VerifiedIsGenuine, GenuineIsRefusedAfterRelease, Genuine
  <2> QED BY <2>1, <2>2
<1>3. ASSUME SecurityInv PROVE SecurityTypeOK /\ VerifiedIsGenuine /\ GenuineIsRefusedAfterRelease
  <2>1. openssl \in [algs : BOOLEAN, engine : BOOLEAN, global : BOOLEAN] /\ requested \subseteq SecHandles
    BY <1>3 DEF SecurityInv, OpensslType
  <2>2. ASSUME NEW v \in VerHandles, verifying[v].live
        PROVE  verifying[v].sig \in Signatures /\ Len(verifying[v].data) <= MaxChunks /\ openssl.global
    <3>1. verifying[v] \in Verification
      BY <1>3, <2>2 DEF SecurityInv, NoVerify
    <3>2. verifying[v].sig \in Signatures
      BY <3>1 DEF Verification
    <3> QED BY <1>3, <2>2, <3>2 DEF SecurityInv
  <2> QED BY <1>3, <2>1, <2>2 DEF SecurityInv, SecurityTypeOK
<1> QED BY <1>1, <1>2, <1>3, PTL DEF SecuritySpec

-----------------------------------------------------------------------------
(* The REST calls of artik_cloud.c.                                        *)

ServerType ==
  [devices : SUBSET Devices, tokens : SUBSET Devices, messages : 0..MaxMessages,
   reg : {"none", "started", "confirmed", "complete"}]

(* What the cloud may become.                                              *)
ServerSound(s) == s \in ServerType /\ s.tokens \subseteq s.devices

RestInv ==
  /\ ServerSound(server) /\ ToldWhatHappened
  /\ httpHeld \in 0..MaxHttpHeld /\ httpRefused = httpHeld
  /\ acked \in Nat /\ unsure \in Nat /\ server.messages = acked + unsure

(* A call keeps the invariant whatever is lost of it, if the cloud may     *)
(* become what the call asks for and loses no message by it.               *)
LEMMA CallKeeps ==
  ASSUME RestInv, NEW op, NEW after, NEW status \in {200, 401, 409}, Calls(op, after, status),
         ServerSound(after), after.messages >= server.messages,
         status = 409 => after.reg # "none"
  PROVE  RestInv'
<1>1. /\ server.messages \in 0..MaxMessages /\ after.messages \in 0..MaxMessages
      /\ acked \in Nat /\ unsure \in Nat /\ server.messages = acked + unsure /\ MaxMessages \in Nat
  BY CloudAssumption DEF RestInv, ServerSound, ServerType
<1>2. httpHeld \in 0..MaxHttpHeld /\ httpRefused = httpHeld /\ MaxHttpHeld \in Nat
  BY CloudAssumption DEF RestInv
<1>3. CASE /\ httpHeld < MaxHttpHeld
           /\ \E ret \in {"E_BAD_ARGS", "E_NO_MEM"} : told' = ret
           /\ httpHeld' = httpHeld + 1 /\ httpRefused' = httpRefused + 1
           /\ UNCHANGED <<server, lastStatus, acked, unsure>>
  <2>1. ToldWhatHappened'
    BY <1>3 DEF ToldWhatHappened
  <2> QED BY <1>1, <1>2, <1>3, <2>1 DEF RestInv
<1>4. CASE /\ server' = after /\ lastStatus' = status
           /\ told' = StatusError(op, status)
           /\ acked' = acked + after.messages - server.messages
           /\ UNCHANGED <<httpHeld, httpRefused, unsure>>
  <2>1. ToldWhatHappened'
    BY <1>4 DEF ToldWhatHappened, StatusError
  <2>2. acked' \in Nat /\ after.messages = acked' + unsure
    BY <1>1, <1>4
  <2> QED BY <1>2, <1>4, <2>1, <2>2 DEF RestInv
<1>5. CASE told' = "E_HTTP_ERROR" /\ UNCHANGED <<server, lastStatus, unsure, httpHeld, httpRefused, acked>>
  BY <1>5 DEF RestInv, ToldWhatHappened
<1>6. CASE /\ told' = "E_HTTP_ERROR" /\ server' = after
           /\ unsure' = unsure + after.messages - server.messages
           /\ UNCHANGED <<httpHeld, httpRefused, acked>>
  <2>1. unsure' \in Nat /\ after.messages = acked + unsure'
    BY <1>1, <1>6
  <2> QED BY <1>6, <2>1 DEF RestInv, ToldWhatHappened
<1> QED BY <1>3, <1>4, <1>5, <1>6 DEF Calls

LEMMA AskKeeps ==
  ASSUME RestInv, NEW op, NEW can, NEW after, Asks(op, can, after),
         can => ServerSound(after) /\ after.messages >= server.messages
  PROVE  RestInv'
<1>1. ServerSound(server) /\ server.messages >= server.messages
  BY DEF RestInv, ServerSound, ServerType
<1> QED BY <1>1, CallKeeps DEF Asks

LEMMA RestStep ==
  ASSUME RestInv, CloudNext
  PROVE  RestInv'
<1>1. /\ ServerSound(server) /\ server \in ServerType /\ server.messages \in 0..MaxMessages
      /\ server.messages >= server.messages /\ MaxMessages \in Nat
  BY CloudAssumption DEF RestInv, ServerSound, ServerType
<1>2. CASE \/ get_current_user_profile \/ get_user_devices \/ get_user_device_types
           \/ get_user_application_properties \/ sdr_registration_status
  BY <1>1, <1>2, AskKeeps DEF get_current_user_profile, get_user_devices, get_user_device_types,
     get_user_application_properties, sdr_registration_status
<1>3. ASSUME NEW d \in Devices, get_device(d) \/ get_device_token(d) PROVE RestInv'
  BY <1>1, <1>3, AskKeeps DEF get_device, get_device_token
<1>4. ASSUME NEW d \in Devices, add_device(d) PROVE RestInv'
  <2>1. ServerSound([server EXCEPT !.devices = @ \cup {d}])
    BY <1>1 DEF ServerSound, ServerType
  <2>2. [server EXCEPT !.devices = @ \cup {d}].messages = server.messages
    BY <1>1 DEF ServerType
  <2> QED BY <1>1, <1>4, <2>1, <2>2, AskKeeps DEF add_device
<1>5. ASSUME NEW d \in Devices, NEW op, Tells(op, d) PROVE RestInv'
  <2>1. ASSUME server.messages < MaxMessages
        PROVE  /\ ServerSound([server EXCEPT !.messages = @ + 1])
               /\ [server EXCEPT !.messages = @ + 1].messages >= server.messages
    <3>1. server.messages + 1 \in 0..MaxMessages /\ server.messages + 1 >= server.messages
      BY <1>1, <2>1
    <3>2. /\ [server EXCEPT !.messages = server.messages + 1] \in ServerType
          /\ [server EXCEPT !.messages = server.messages + 1].messages = server.messages + 1
          /\ [server EXCEPT !.messages = server.messages + 1].tokens = server.tokens
          /\ [server EXCEPT !.messages = server.messages + 1].devices = server.devices
      BY <1>1, <3>1 DEF ServerType
    <3> QED BY <1>1, <3>1, <3>2 DEF ServerSound
  <2> QED BY <1>5, <2>1, AskKeeps DEF Tells
<1>6. ASSUME NEW d \in Devices, update_device_token(d) PROVE RestInv'
  <2>1. d \in server.devices => ServerSound([server EXCEPT !.tokens = @ \cup {d}])
    BY <1>1 DEF ServerSound, ServerType
  <2>2. [server EXCEPT !.tokens = @ \cup {d}].messages = server.messages
    BY <1>1 DEF ServerType
  <2> QED BY <1>1, <1>6, <2>1, <2>2, AskKeeps DEF update_device_token
<1>7. ASSUME NEW d \in Devices, delete_device_token(d) PROVE RestInv'
  <2>1. ServerSound([server EXCEPT !.tokens = @ \ {d}])
    BY <1>1 DEF ServerSound, ServerType
  <2>2. [server EXCEPT !.tokens = @ \ {d}].messages = server.messages
    BY <1>1 DEF ServerType
  <2> QED BY <1>1, <1>7, <2>1, <2>2, AskKeeps DEF delete_device_token
<1>8. ASSUME NEW d \in Devices, delete_device(d) PROVE RestInv'
  <2>1. ServerSound([server EXCEPT !.devices = @ \ {d}, !.tokens = @ \ {d}])
    BY <1>1 DEF ServerSound, ServerType
  <2>2. [server EXCEPT !.devices = @ \ {d}, !.tokens = @ \ {d}].messages = server.messages
    BY <1>1 DEF ServerType
  <2> QED BY <1>1, <1>8, <2>1, <2>2, AskKeeps DEF delete_device
<1>9. ASSUME NEW r \in {"started", "confirmed", "complete"}
      PROVE  /\ ServerSound([server EXCEPT !.reg = r])
             /\ [server EXCEPT !.reg = r].messages = server.messages
             /\ [server EXCEPT !.reg = r].reg = r
  BY <1>1, <1>9 DEF ServerSound, ServerType
<1>10. CASE sdr_start_registration
  <2>1. CASE server.reg # "none" /\ Calls("sdr_start_registration", server, 409)
    BY <1>1, <2>1, CallKeeps
  <2>2. CASE Asks("sdr_start_registration", server.reg = "none", [server EXCEPT !.reg = "started"])
    BY <1>1, <1>9, <2>2, AskKeeps
  <2> QED BY <1>10, <2>1, <2>2 DEF sdr_start_registration
<1>11. CASE sdr_complete_registration
  BY <1>1, <1>9, <1>11, AskKeeps DEF sdr_complete_registration
<1>12. CASE UserConfirms
  <2>1. /\ server' = [server EXCEPT !.reg = "confirmed"]
        /\ UNCHANGED <<told, lastStatus, httpHeld, httpRefused, acked, unsure>>
    BY <1>12 DEF UserConfirms
  <2>2. ServerSound(server') /\ server'.messages = server.messages /\ server'.reg # "none"
    BY <1>9, <2>1
  <2> QED BY <2>1, <2>2 DEF RestInv, ToldWhatHappened
<1> QED
  BY <1>2, <1>3, <1>4, <1>5, <1>6, <1>7, <1>8, <1>10, <1>11, <1>12
  DEF CloudNext, cloud_send_message, send_action

-----------------------------------------------------------------------------
(* The streams of the cloud.                                               *)

UriType == [ok : BOOLEAN, tls : BOOLEAN, port : Nat]
Watched == {"close", "connect", "error", "receive"}
StreamType ==
  [node : BOOLEAN, uri : UriType, open : BOOLEAN, tls : BOOLEAN, port : Nat, sec : BOOLEAN,
   watches : SUBSET Watched, data : {"none", "app", "cloud"},
   state : {"none", "connecting", "established", "gone"}, told : BOOLEAN,
   events : SUBSET Watched, slot : {"none", "message", "register"}]

PortOf(u) == IF u.port # 0 THEN u.port ELSE IF u.tls THEN 443 ELSE 80

CsTypes ==
  /\ ws \in [Streams -> StreamType] /\ cloud \in [Streams -> {"none", "live", "freed"}]
  /\ sent \in [Streams -> Seq({"message", "register"})]
  /\ early \in [Streams -> BOOLEAN] /\ halfSet \in [Streams -> BOOLEAN]
  /\ noMemory \in BOOLEAN /\ leftSec \in BOOLEAN

(* A stream s with node c of the cloud and history q: until the first      *)
(* message is sent, the slot is empty or holds the registration, and it    *)
(* stays empty only while the application was not told of the connection   *)
(* or when the connection is gone.                                         *)
StreamInv(s, c, q, e, half) ==
  /\ s.state # "none" <=> s.open
  /\ s.open => s.node
  /\ c = "live" => s.open
  /\ Len(q) <= MaxSent
  /\ c = "live" /\ ~e =>
       IF q = <<>> THEN \/ s.slot = "register"
                        \/ s.slot = "none" /\ (~s.told \/ s.state = "gone")
       ELSE q[1] = "register"
  /\ s.data = "cloud" => c = "live" \/ half

(* What holds of a stream unless an allocation or a set-up failed.         *)
SetupInv(s, mem, left) ==
  /\ s.open /\ ~mem => s.tls = s.uri.tls /\ s.port = PortOf(s.uri)
  /\ s.sec /\ ~left => s.open

CsInv ==
  /\ CsTypes /\ wsHeld \in 0..MaxHeld /\ refused = wsHeld /\ CallbackDataLives
  /\ \A h \in Streams : /\ StreamInv(ws[h], cloud[h], sent[h], early[h], halfSet[h])
                        /\ SetupInv(ws[h], noMemory, leftSec)

(* A step on one stream keeps the others.                                  *)
LEMMA StreamStep ==
  ASSUME CsInv, CsTypes', NEW h \in Streams,
         \A g \in Streams : g # h =>
           /\ ws'[g] = ws[g] /\ cloud'[g] = cloud[g] /\ sent'[g] = sent[g]
           /\ early'[g] = early[g] /\ halfSet'[g] = halfSet[g],
         noMemory => noMemory', leftSec => leftSec',
         wsHeld' \in 0..MaxHeld, refused' = wsHeld', CallbackDataLives',
         StreamInv(ws'[h], cloud'[h], sent'[h], early'[h], halfSet'[h]),
         SetupInv(ws'[h], noMemory', leftSec')
  PROVE  CsInv'
<1>1. ASSUME NEW g \in Streams
      PROVE  /\ StreamInv(ws'[g], cloud'[g], sent'[g], early'[g], halfSet'[g])
             /\ SetupInv(ws'[g], noMemory', leftSec')
  <2>1. CASE g = h
    BY <2>1
  <2>2. CASE g # h
    <3>1. StreamInv(ws'[g], cloud'[g], sent'[g], early'[g], halfSet'[g])
      BY <2>2 DEF CsInv
    <3>2. SetupInv(ws[g], noMemory, leftSec) /\ ws'[g] = ws[g]
      BY <2>2 DEF CsInv
    <3>3. SetupInv(ws'[g], noMemory', leftSec')
      BY <3>2 DEF SetupInv
    <3> QED BY <3>1, <3>3
  <2> QED BY <2>1, <2>2
<1> QED BY <1>1 DEF CsInv

(* A step that only changes the record of a stream.                        *)
LEMMA RecordStep ==
  ASSUME CsInv, NEW h \in Streams, NEW r \in StreamType, wsFault = "none",
         ws' = [ws EXCEPT ![h] = r],
         UNCHANGED <<cloud, sent, early, halfSet, noMemory, leftSec, wsHeld, refused, wsFault>>,
         StreamInv(r, cloud[h], sent[h], early[h], halfSet[h]),
         SetupInv(r, noMemory, leftSec)
  PROVE  CsInv'
<1>1. /\ ws' \in [Streams -> StreamType] /\ ws'[h] = r
      /\ \A g \in Streams : g # h => ws'[g] = ws[g]
  BY DEF CsInv, CsTypes
<1>2. CsTypes'
  BY <1>1 DEF CsInv, CsTypes
<1>3. CallbackDataLives'
  BY DEF CallbackDataLives
<1>4. wsHeld' \in 0..MaxHeld /\ refused' = wsHeld'
  BY DEF CsInv
<1> QED BY <1>1, <1>2, <1>3, <1>4, StreamStep

LEMMA NoStreamType ==
  /\ NoStream \in StreamType /\ NoStream.state = "none" /\ ~NoStream.open /\ ~NoStream.node
  /\ NoStream.data = "none" /\ ~NoStream.sec
BY DEF NoStream, StreamType, UriType

(* What the set-up of a stream may return.                                 *)
LEMMA OutcomeTypes ==
  ASSUME NEW u \in UriType, NEW se \in BOOLEAN, NEW o \in OpenOutcomes(u, se)
  PROVE  /\ o.ok \in BOOLEAN /\ o.tls \in BOOLEAN /\ o.port \in Nat /\ o.sec \in BOOLEAN
         /\ o.mem \in BOOLEAN
         /\ o.ok => o.sec = se
         /\ o.ok /\ o.mem => o.tls = u.tls /\ o.port = PortOf(u)
<1>1. u.ok \in BOOLEAN /\ u.tls \in BOOLEAN /\ u.port \in Nat
  BY DEF UriType
<1>2. ASSUME NEW c \in setup_ssl_ctx(se),
             o = [ok |-> FALSE, tls |-> FALSE, port |-> 0, sec |-> c.sec, mem |-> TRUE]
      PROVE  o.ok = FALSE /\ o.tls = FALSE /\ o.port = 0 /\ o.sec \in BOOLEAN /\ o.mem = TRUE
  <2>1. CASE se
    <3>1. c \in SetupElement
      BY <2>1 DEF setup_ssl_ctx
    <3>2. \/ c = [ctx |-> FALSE, sec |-> FALSE]
          \/ c = [ctx |-> FALSE, sec |-> TRUE]
          \/ c = [ctx |-> TRUE, sec |-> TRUE]
      BY <3>1, Zenon DEF SetupElement
    <3>3. c.sec = TRUE \/ c.sec = FALSE
      BY <3>2
    <3> QED BY <1>2, <3>3
  <2>2. CASE ~se
    <3>1. PICK x \in BOOLEAN : c = [ctx |-> x, sec |-> FALSE]
      BY <2>2 DEF setup_ssl_ctx
    <3>2. c.sec \in BOOLEAN
      BY <3>1
    <3> QED BY <1>2, <3>2
  <2> QED BY <2>1, <2>2
<1>3. ASSUME NEW mem \in BOOLEAN, NEW p \in websocket_parse_uri(u, mem),
             o = [ok |-> TRUE, tls |-> p.tls, port |-> p.port, sec |-> se, mem |-> mem]
      PROVE  /\ o.ok = TRUE /\ o.tls \in BOOLEAN /\ o.port \in Nat /\ o.sec = se /\ o.mem = mem
             /\ mem => o.tls = u.tls /\ o.port = PortOf(u)
  <2>0. u.ok
    <3>1. ~u.ok => websocket_parse_uri(u, mem) = {}
      BY Zenon DEF websocket_parse_uri
    <3> QED BY <3>1
  <2>1. CASE mem
    <3>1. p = [tls |-> u.tls, port |-> IF u.port = 0 THEN Default(u.tls) ELSE u.port]
      BY <2>0, <2>1, Zenon DEF websocket_parse_uri
    <3>2. p.tls = u.tls /\ p.port = PortOf(u) /\ p.port \in Nat
      BY <1>1, <3>1 DEF Default, PortOf
    <3> QED BY <1>1, <1>3, <3>2
  <2>2. CASE ~mem
    <3>1. \/ p = [tls |-> FALSE, port |-> IF u.port = 0 THEN Default(FALSE) ELSE u.port]
          \/ p = [tls |-> u.tls, port |-> Default(u.tls)]
      BY <2>0, <2>2, Zenon DEF websocket_parse_uri
    <3>2. CASE p = [tls |-> FALSE, port |-> IF u.port = 0 THEN Default(FALSE) ELSE u.port]
      <4>1. p.tls = FALSE /\ p.port \in Nat
        BY <1>1, <3>2 DEF Default
      <4> QED BY <1>3, <2>2, <4>1
    <3>3. CASE p = [tls |-> u.tls, port |-> Default(u.tls)]
      <4>1. p.tls = u.tls /\ p.port \in Nat
        BY <1>1, <3>3 DEF Default
      <4> QED BY <1>1, <1>3, <2>2, <4>1
    <3> QED BY <3>1, <3>2, <3>3
  <2> QED BY <1>3, <2>1, <2>2
<1>4. \/ \E c \in setup_ssl_ctx(se) :
           o = [ok |-> FALSE, tls |-> FALSE, port |-> 0, sec |-> c.sec, mem |-> TRUE]
      \/ \E mem \in BOOLEAN : \E p \in websocket_parse_uri(u, mem) :
           o = [ok |-> TRUE, tls |-> p.tls, port |-> p.port, sec |-> se, mem |-> mem]
  BY DEF OpenOutcomes
<1>5. CASE \E c \in setup_ssl_ctx(se) :
             o = [ok |-> FALSE, tls |-> FALSE, port |-> 0, sec |-> c.sec, mem |-> TRUE]
  <2>1. o.ok = FALSE /\ o.tls = FALSE /\ o.port = 0 /\ o.sec \in BOOLEAN /\ o.mem = TRUE
    BY <1>2, <1>5
  <2>2. o.port \in Nat
    BY <2>1
  <2> QED BY <2>1, <2>2, Zenon
<1>6. CASE \E mem \in BOOLEAN : \E p \in websocket_parse_uri(u, mem) :
             o = [ok |-> TRUE, tls |-> p.tls, port |-> p.port, sec |-> se, mem |-> mem]
  <2>1. PICK mem \in BOOLEAN : \E p \in websocket_parse_uri(u, mem) :
             o = [ok |-> TRUE, tls |-> p.tls, port |-> p.port, sec |-> se, mem |-> mem]
    BY <1>6
  <2>2. /\ o.ok = TRUE /\ o.tls \in BOOLEAN /\ o.port \in Nat /\ o.sec = se /\ o.mem = mem
        /\ mem => o.tls = u.tls /\ o.port = PortOf(u)
    BY <1>3, <2>1
  <2> QED BY <2>2
<1> QED BY <1>4, <1>5, <1>6

(* The record of a stream after its set-up.                                *)
LEMMA OpenedRecord ==
  ASSUME NEW s \in StreamType, NEW se \in BOOLEAN, NEW o \in OpenOutcomes(s.uri, se),
         ~s.open, s.state = "none", s.node
  PROVE  LET r == Opened(s, o, se)
         IN  /\ r \in StreamType /\ r.uri = s.uri /\ r.node
             /\ r.open = o.ok
             /\ o.ok => /\ r.state = "connecting" /\ r.tls = o.tls /\ r.port = o.port /\ r.data = "none"
                        /\ ~r.told /\ r.slot = "none"
             /\ ~o.ok => r.state = "none" /\ r.data = s.data /\ (r.sec = (s.sec \/ o.sec))
<1>1. s.uri \in UriType
  BY DEF StreamType
<1>2. /\ o.ok \in BOOLEAN /\ o.tls \in BOOLEAN /\ o.port \in Nat /\ o.sec \in BOOLEAN
      /\ o.mem \in BOOLEAN
  BY <1>1, OutcomeTypes
<1>3. CASE o.ok
  <2> DEFINE r == [s EXCEPT !.open = TRUE, !.tls = o.tls, !.port = o.port, !.sec = se,
                            !.state = "connecting", !.told = FALSE, !.watches = {}, !.data = "none",
                            !.events = {}, !.slot = "none"]
  <2>1. r \in StreamType
    BY <1>2 DEF StreamType
  <2>2. /\ r.uri = s.uri /\ r.node = s.node /\ r.open = TRUE /\ r.state = "connecting" /\ r.tls = o.tls
        /\ r.port = o.port /\ r.data = "none" /\ ~r.told /\ r.slot = "none"
    BY DEF StreamType
  <2>3. Opened(s, o, se) = r
    BY <1>3 DEF Opened
  <2> HIDE DEF r
  <2> QED BY <1>2, <1>3, <2>1, <2>2, <2>3
<1>4. CASE ~o.ok
  <2>1. PICK b \in BOOLEAN : b = (s.sec \/ o.sec)
    BY Zenon
  <2> DEFINE r == [s EXCEPT !.sec = b]
  <2>2. Opened(s, o, se) = r
    BY <1>4, <2>1, Zenon DEF Opened
  <2>3. r \in StreamType
    BY DEF StreamType
  <2>4. /\ r.uri = s.uri /\ r.node = s.node /\ r.open = s.open /\ r.state = s.state
        /\ r.data = s.data /\ r.sec = b
    BY DEF StreamType
  <2>5. s.open = FALSE /\ o.ok = FALSE
    BY <1>2, <1>4 DEF StreamType
  <2> HIDE DEF r
  <2> QED BY <1>4, <2>1, <2>2, <2>3, <2>4, <2>5
<1> QED BY <1>2, <1>3, <1>4

(* A step that sets everything a stream has.                               *)
LEMMA WholeStep ==
  ASSUME CsInv, NEW h \in Streams, NEW r \in StreamType, NEW c \in {"none", "live", "freed"},
         NEW q \in Seq({"message", "register"}), NEW e \in BOOLEAN, NEW f \in BOOLEAN,
         ws' = [ws EXCEPT ![h] = r], cloud' = [cloud EXCEPT ![h] = c],
         sent' = [sent EXCEPT ![h] = q], early' = [early EXCEPT ![h] = e],
         halfSet' = [halfSet EXCEPT ![h] = f],
         noMemory' \in BOOLEAN, leftSec' \in BOOLEAN, noMemory => noMemory', leftSec => leftSec',
         wsHeld' \in 0..MaxHeld, refused' = wsHeld', wsFault' = "none",
         StreamInv(r, c, q, e, f), SetupInv(r, noMemory', leftSec')
  PROVE  CsInv'
<1>1. /\ ws' \in [Streams -> StreamType] /\ ws'[h] = r
      /\ \A g \in Streams : g # h => ws'[g] = ws[g]
  BY DEF CsInv, CsTypes
<1>2. /\ cloud' \in [Streams -> {"none", "live", "freed"}] /\ cloud'[h] = c
      /\ \A g \in Streams : g # h => cloud'[g] = cloud[g]
  BY DEF CsInv, CsTypes
<1>3. /\ sent' \in [Streams -> Seq({"message", "register"})] /\ sent'[h] = q
      /\ \A g \in Streams : g # h => sent'[g] = sent[g]
  BY DEF CsInv, CsTypes
<1>4. /\ early' \in [Streams -> BOOLEAN] /\ early'[h] = e
      /\ \A g \in Streams : g # h => early'[g] = early[g]
  BY DEF CsInv, CsTypes
<1>5. /\ halfSet' \in [Streams -> BOOLEAN] /\ halfSet'[h] = f
      /\ \A g \in Streams : g # h => halfSet'[g] = halfSet[g]
  BY DEF CsInv, CsTypes
<1>6. CsTypes'
  BY <1>1, <1>2, <1>3, <1>4, <1>5 DEF CsTypes
<1>7. CallbackDataLives'
  BY DEF CallbackDataLives
<1> QED BY <1>1, <1>2, <1>3, <1>4, <1>5, <1>6, <1>7, StreamStep

(* One stream's share of every variable replaced, and what must be true of *)
(* the replacement: WholeStep with its hypotheses under one name.          *)
StreamReplaced(h, r, c, q, e, f) ==
  /\ h \in Streams /\ r \in StreamType /\ c \in {"none", "live", "freed"}
  /\ q \in Seq({"message", "register"}) /\ e \in BOOLEAN /\ f \in BOOLEAN
  /\ ws' = [ws EXCEPT ![h] = r] /\ cloud' = [cloud EXCEPT ![h] = c]
  /\ sent' = [sent EXCEPT ![h] = q] /\ early' = [early EXCEPT ![h] = e]
  /\ halfSet' = [halfSet EXCEPT ![h] = f]
  /\ noMemory' \in BOOLEAN /\ leftSec' \in BOOLEAN
  /\ (noMemory => noMemory') /\ (leftSec => leftSec')
  /\ wsHeld' \in 0..MaxHeld /\ refused' = wsHeld' /\ wsFault' = "none"
  /\ StreamInv(r, c, q, e, f) /\ SetupInv(r, noMemory', leftSec')

LEMMA ReplacedStep ==
  ASSUME CsInv, NEW h, NEW r, NEW c, NEW q, NEW e, NEW f, StreamReplaced(h, r, c, q, e, f)
  PROVE  CsInv'
<1>1. /\ h \in Streams /\ r \in StreamType /\ c \in {"none", "live", "freed"}
      /\ q \in Seq({"message", "register"}) /\ e \in BOOLEAN /\ f \in BOOLEAN
  BY Zenon DEF StreamReplaced
<1>2. /\ ws' = [ws EXCEPT ![h] = r] /\ cloud' = [cloud EXCEPT ![h] = c]
      /\ sent' = [sent EXCEPT ![h] = q] /\ early' = [early EXCEPT ![h] = e]
      /\ halfSet' = [halfSet EXCEPT ![h] = f]
  BY Zenon DEF StreamReplaced
<1>3. /\ noMemory' \in BOOLEAN /\ leftSec' \in BOOLEAN
      /\ (noMemory => noMemory') /\ (leftSec => leftSec')
      /\ wsHeld' \in 0..MaxHeld /\ refused' = wsHeld' /\ wsFault' = "none"
      /\ StreamInv(r, c, q, e, f) /\ SetupInv(r, noMemory', leftSec')
  BY Zenon DEF StreamReplaced
<1> QED BY <1>1, <1>2, <1>3, WholeStep, Zenon

(* The record after a write, after a clean-up and after a request.         *)
LEMMA WrittenRecord ==
  ASSUME NEW s \in StreamType, NEW m \in {"message", "register"}
  PROVE  /\ Written(s, m) \in StreamType
         /\ Written(s, m).state = s.state /\ Written(s, m).open = s.open
         /\ Written(s, m).node = s.node /\ Written(s, m).told = s.told
         /\ Written(s, m).data = s.data /\ Written(s, m).tls = s.tls
         /\ Written(s, m).uri = s.uri /\ Written(s, m).port = s.port /\ Written(s, m).sec = s.sec
         /\ Written(s, m).slot = (IF s.state = "gone" THEN s.slot ELSE m)
BY DEF Written, StreamType

LEMMA CleanedRecord ==
  ASSUME NEW s \in StreamType
  PROVE  /\ Cleaned(s) \in StreamType /\ ~Cleaned(s).open /\ Cleaned(s).state = "none"
         /\ Cleaned(s).data = "none" /\ (Cleaned(s).sec => s.sec /\ ~s.open)
BY DEF Cleaned, NoStream, StreamType, UriType

LEMMA RequestedRecord ==
  ASSUME NEW u \in UriType
  PROVE  LET r == [NoStream EXCEPT !.node = TRUE, !.uri = u]
         IN  /\ r \in StreamType /\ ~r.open /\ r.node /\ r.state = "none" /\ r.data = "none"
             /\ ~r.sec /\ r.uri = u
BY DEF NoStream, StreamType, UriType

LEMMA StreamsAt ==
  ASSUME CsInv, NEW h \in Streams
  PROVE  /\ ws[h] \in StreamType /\ cloud[h] \in {"none", "live", "freed"}
         /\ sent[h] \in Seq({"message", "register"}) /\ early[h] \in BOOLEAN
         /\ halfSet[h] \in BOOLEAN /\ MaxSent \in Nat /\ MaxHeld \in Nat
         /\ StreamInv(ws[h], cloud[h], sent[h], early[h], halfSet[h])
         /\ SetupInv(ws[h], noMemory, leftSec)
         /\ noMemory \in BOOLEAN /\ leftSec \in BOOLEAN
         /\ wsHeld \in 0..MaxHeld /\ refused = wsHeld
         /\ ws = [ws EXCEPT ![h] = ws[h]] /\ cloud = [cloud EXCEPT ![h] = cloud[h]]
         /\ sent = [sent EXCEPT ![h] = sent[h]] /\ early = [early EXCEPT ![h] = early[h]]
         /\ halfSet = [halfSet EXCEPT ![h] = halfSet[h]]
BY CloudStreamAssumption DEF CsInv, CsTypes

(* Streams of applications.                                                *)
LEMMA AppRequestStep ==
  ASSUME CsInv, NEW h \in Streams, NEW u \in Uris, artik_websocket_request(h, u)
  PROVE  CsInv'
<1> DEFINE r == [NoStream EXCEPT !.node = TRUE, !.uri = u]
<1>1. /\ ~ws[h].node /\ ws' = [ws EXCEPT ![h] = r]
      /\ sent' = [sent EXCEPT ![h] = <<>>] /\ early' = [early EXCEPT ![h] = FALSE]
      /\ halfSet' = [halfSet EXCEPT ![h] = FALSE] /\ wsFault = "none"
      /\ UNCHANGED <<cloud, noMemory, leftSec, wsFault, wsHeld, refused>>
  BY Zenon DEF artik_websocket_request, Frame
<1>2. u \in UriType
  BY CloudStreamAssumption DEF UriType
<1>3. /\ r \in StreamType /\ ~r.open /\ r.node /\ r.state = "none" /\ r.data = "none" /\ ~r.sec
  BY <1>2, RequestedRecord
<1> HIDE DEF r
<1>4. cloud[h] # "live"
  BY <1>1, StreamsAt DEF StreamInv
<1>5. StreamInv(r, cloud[h], <<>>, FALSE, FALSE) /\ SetupInv(r, noMemory', leftSec')
  BY <1>3, <1>4, StreamsAt DEF StreamInv, SetupInv
<1>6. <<>> \in Seq({"message", "register"})
  OBVIOUS
<1>7. /\ cloud[h] \in {"none", "live", "freed"} /\ cloud' = [cloud EXCEPT ![h] = cloud[h]]
      /\ noMemory' \in BOOLEAN /\ leftSec' \in BOOLEAN /\ (noMemory => noMemory')
      /\ (leftSec => leftSec') /\ wsHeld' \in 0..MaxHeld /\ refused' = wsHeld' /\ wsFault' = "none"
  BY <1>1, StreamsAt
<1> QED BY <1>1, <1>3, <1>5, <1>6, <1>7, WholeStep

LEMMA AppOpenStep ==
  ASSUME CsInv, NEW h \in Streams, NEW se \in BOOLEAN, artik_websocket_open_stream(h, se)
  PROVE  CsInv'
<1>1. PICK o \in OpenOutcomes(ws[h].uri, se) :
        /\ ws' = [ws EXCEPT ![h] = Opened(ws[h], o, se)]
        /\ noMemory' = (noMemory \/ ~o.mem)
        /\ leftSec' = (leftSec \/ (o.sec /\ ~o.ok))
  BY DEF artik_websocket_open_stream
<1>2. /\ ws[h].node /\ ~ws[h].open /\ cloud[h] = "none" /\ wsFault = "none"
      /\ UNCHANGED <<cloud, sent, early, halfSet, wsFault, wsHeld, refused>>
  BY Zenon DEF artik_websocket_open_stream, Frame
<1> DEFINE r == Opened(ws[h], o, se)
<1>3. ws[h] \in StreamType /\ ws[h].uri \in UriType /\ ws[h].state = "none"
  BY <1>2, StreamsAt DEF StreamInv, StreamType
<1>4. /\ r \in StreamType /\ r.uri = ws[h].uri /\ r.node
      /\ r.open = o.ok
      /\ o.ok => /\ r.state = "connecting" /\ r.tls = o.tls /\ r.port = o.port /\ r.data = "none"
                 /\ ~r.told /\ r.slot = "none"
      /\ ~o.ok => r.state = "none" /\ r.data = ws[h].data /\ (r.sec = (ws[h].sec \/ o.sec))
  BY <1>2, <1>3, OpenedRecord
<1>5. /\ o.ok \in BOOLEAN /\ o.sec \in BOOLEAN /\ o.mem \in BOOLEAN
      /\ o.ok /\ o.mem => o.tls = ws[h].uri.tls /\ o.port = PortOf(ws[h].uri)
  BY <1>3, OutcomeTypes
<1>6. /\ noMemory' \in BOOLEAN /\ leftSec' \in BOOLEAN
      /\ (noMemory => noMemory') /\ (leftSec => leftSec')
      /\ (~noMemory' => o.mem) /\ (~leftSec' => ~leftSec /\ (o.sec => o.ok))
  BY <1>1, <1>5
<1> HIDE DEF r
<1>7. StreamInv(r, cloud[h], sent[h], early[h], halfSet[h])
  BY <1>2, <1>4, <1>5, StreamsAt DEF StreamInv
<1>8. SetupInv(r, noMemory', leftSec')
  <2>1. SetupInv(ws[h], noMemory, leftSec)
    BY StreamsAt
  <2>2. r.open /\ ~noMemory' => r.tls = r.uri.tls /\ r.port = PortOf(r.uri)
    BY <1>4, <1>5, <1>6
  <2>3. r.sec /\ ~leftSec' => r.open
    BY <1>2, <1>4, <1>5, <1>6, <2>1 DEF SetupInv
  <2> QED BY <2>2, <2>3 DEF SetupInv
<1>9. ws' = [ws EXCEPT ![h] = r]
  BY <1>1 DEF r
<1>10. /\ cloud' = [cloud EXCEPT ![h] = cloud[h]] /\ sent' = [sent EXCEPT ![h] = sent[h]]
       /\ early' = [early EXCEPT ![h] = early[h]] /\ halfSet' = [halfSet EXCEPT ![h] = halfSet[h]]
       /\ wsHeld' \in 0..MaxHeld /\ refused' = wsHeld' /\ wsFault' = "none"
  BY <1>2, StreamsAt
<1>11. /\ cloud[h] \in {"none", "live", "freed"} /\ sent[h] \in Seq({"message", "register"})
       /\ early[h] \in BOOLEAN /\ halfSet[h] \in BOOLEAN
  BY StreamsAt
<1>12. StreamReplaced(h, r, cloud[h], sent[h], early[h], halfSet[h])
  BY <1>4, <1>6, <1>7, <1>8, <1>9, <1>10, <1>11, Zenon DEF StreamReplaced
<1> QED BY <1>12, ReplacedStep, Zenon

(* Steps that touch one record and nothing the invariant says of it but    *)
(* the slot, the watches and the events.                                   *)
LEMMA AppWriteStep ==
  ASSUME CsInv, NEW h \in Streams, artik_websocket_write_stream(h)
  PROVE  CsInv'
<1> DEFINE r == Written(ws[h], "message")
<1>1. /\ ws' = [ws EXCEPT ![h] = r] /\ cloud[h] = "none" /\ wsFault = "none"
      /\ UNCHANGED <<cloud, sent, early, halfSet, noMemory, leftSec, wsHeld, refused, wsFault>>
  BY Zenon DEF artik_websocket_write_stream, Frame
<1>2. /\ r \in StreamType /\ r.state = ws[h].state /\ r.open = ws[h].open /\ r.node = ws[h].node
      /\ r.data = ws[h].data /\ r.tls = ws[h].tls /\ r.uri = ws[h].uri /\ r.port = ws[h].port
      /\ r.sec = ws[h].sec
  BY StreamsAt, WrittenRecord
<1> HIDE DEF r
<1>3. StreamInv(r, cloud[h], sent[h], early[h], halfSet[h]) /\ SetupInv(r, noMemory, leftSec)
  BY <1>1, <1>2, StreamsAt DEF StreamInv, SetupInv
<1> QED BY <1>1, <1>2, <1>3, RecordStep

LEMMA AppWatchStep ==
  ASSUME CsInv, NEW h \in Streams, artik_websocket_set_connection_callback(h)
  PROVE  CsInv'
<1>1. PICK w \in ConnectionWatches :
        ws' = [ws EXCEPT ![h].watches = ws[h].watches \cup w, ![h].data = "app"]
  BY DEF artik_websocket_set_connection_callback
<1>2. /\ cloud[h] = "none" /\ wsFault = "none"
      /\ UNCHANGED <<cloud, sent, early, halfSet, noMemory, leftSec, wsHeld, refused, wsFault>>
  BY Zenon DEF artik_websocket_set_connection_callback, Frame
<1> DEFINE r == [ws[h] EXCEPT !.watches = ws[h].watches \cup w, !.data = "app"]
<1>3. ws[h] \in StreamType /\ w \subseteq Watched
  BY StreamsAt DEF ConnectionWatches, Watched
<1>4. ws' = [ws EXCEPT ![h] = r]
  <2>1. ws \in [Streams -> StreamType]
    BY DEF CsInv, CsTypes
  <2> QED BY <1>1, <1>3, <2>1 DEF StreamType
<1>5. r \in StreamType
  BY <1>3 DEF StreamType
<1>6. /\ r.state = ws[h].state /\ r.open = ws[h].open /\ r.node = ws[h].node
      /\ r.data = "app" /\ r.tls = ws[h].tls /\ r.uri = ws[h].uri /\ r.port = ws[h].port
      /\ r.sec = ws[h].sec
  BY <1>3 DEF StreamType
<1> HIDE DEF r
<1>7. StreamInv(r, cloud[h], sent[h], early[h], halfSet[h]) /\ SetupInv(r, noMemory, leftSec)
  BY <1>2, <1>6, StreamsAt DEF StreamInv, SetupInv
<1> QED BY <1>2, <1>4, <1>5, <1>7, RecordStep

LEMMA ReceiveWatchStep ==
  ASSUME CsInv, NEW h \in Streams,
         artik_websocket_set_receive_callback(h) \/ websocket_set_receive_callback(h)
  PROVE  CsInv'
<1> DEFINE r == [ws[h] EXCEPT !.watches = ws[h].watches \cup {"receive"}]
<1>1. /\ ws' = [ws EXCEPT ![h].watches = ws[h].watches \cup {"receive"}] /\ wsFault = "none"
      /\ UNCHANGED <<cloud, sent, early, halfSet, noMemory, leftSec, wsHeld, refused, wsFault>>
  BY Zenon DEF artik_websocket_set_receive_callback, websocket_set_receive_callback, Frame, CanHold
<1>2. ws[h] \in StreamType
  BY StreamsAt
<1>3. ws' = [ws EXCEPT ![h] = r]
  <2>1. ws \in [Streams -> StreamType]
    BY DEF CsInv, CsTypes
  <2> QED BY <1>1, <1>2, <2>1 DEF StreamType
<1>4. r \in StreamType
  BY <1>2 DEF StreamType, Watched
<1>5. /\ r.state = ws[h].state /\ r.open = ws[h].open /\ r.node = ws[h].node
      /\ r.data = ws[h].data /\ r.tls = ws[h].tls /\ r.uri = ws[h].uri /\ r.port = ws[h].port
      /\ r.sec = ws[h].sec /\ r.slot = ws[h].slot /\ r.told = ws[h].told
  BY <1>2 DEF StreamType
<1> HIDE DEF r
<1>6. StreamInv(r, cloud[h], sent[h], early[h], halfSet[h]) /\ SetupInv(r, noMemory, leftSec)
  BY <1>5, StreamsAt DEF StreamInv, SetupInv
<1> QED BY <1>1, <1>3, <1>4, <1>6, RecordStep

LEMMA AppCloseStep ==
  ASSUME CsInv, NEW h \in Streams, artik_websocket_close_stream(h)
  PROVE  CsInv'
<1> DEFINE r == Cleaned(ws[h])
<1>1. /\ ws' = [ws EXCEPT ![h] = r] /\ cloud[h] = "none" /\ wsFault = "none"
      /\ UNCHANGED <<cloud, sent, early, halfSet, noMemory, leftSec, wsHeld, refused, wsFault>>
  BY Zenon DEF artik_websocket_close_stream, Frame
<1>2. /\ r \in StreamType /\ ~r.open /\ r.state = "none" /\ r.data = "none"
      /\ (r.sec => ws[h].sec /\ ~ws[h].open)
  BY StreamsAt, CleanedRecord
<1> HIDE DEF r
<1>3. StreamInv(r, cloud[h], sent[h], early[h], halfSet[h]) /\ SetupInv(r, noMemory, leftSec)
  BY <1>1, <1>2, StreamsAt DEF StreamInv, SetupInv
<1> QED BY <1>1, <1>2, <1>3, RecordStep

(* The connection opens, ends, or sends what waits in the slot: the first  *)
(* message sent is what the slot held until then.                          *)
LEMMA LwsStepKeeps ==
  ASSUME CsInv, NEW h \in Streams, LwsStep(h)
  PROVE  CsInv'
<1>1. /\ wsFault = "none"
      /\ UNCHANGED <<cloud, wsHeld, refused, early, halfSet, noMemory, leftSec, wsFault>>
  BY Zenon DEF LwsStep
<1>2. ws[h] \in StreamType /\ ws \in [Streams -> StreamType]
  BY StreamsAt DEF CsInv, CsTypes
<1>3. ASSUME ws[h].state = "connecting", UNCHANGED sent,
             ws' = [ws EXCEPT ![h].state = "established", ![h].events = ws[h].events \cup {"connect"}]
      PROVE  CsInv'
  <2> DEFINE r == [ws[h] EXCEPT !.state = "established", !.events = ws[h].events \cup {"connect"}]
  <2>1. ws' = [ws EXCEPT ![h] = r]
    BY <1>2, <1>3 DEF StreamType
  <2>2. r \in StreamType
    BY <1>2 DEF StreamType, Watched
  <2>3. /\ r.state = "established" /\ r.open = ws[h].open /\ r.node = ws[h].node
        /\ r.data = ws[h].data /\ r.tls = ws[h].tls /\ r.uri = ws[h].uri /\ r.port = ws[h].port
        /\ r.sec = ws[h].sec /\ r.slot = ws[h].slot /\ r.told = ws[h].told
    BY <1>2 DEF StreamType
  <2> HIDE DEF r
  <2>4. StreamInv(r, cloud[h], sent[h], early[h], halfSet[h]) /\ SetupInv(r, noMemory, leftSec)
    BY <1>3, <2>3, StreamsAt DEF StreamInv, SetupInv
  <2> QED BY <1>1, <1>3, <2>1, <2>2, <2>4, RecordStep
<1>4. ASSUME NEW e \in {"close", "error"}, ws[h].state \in {"connecting", "established"},
             UNCHANGED sent,
             ws' = [ws EXCEPT ![h].state = "gone", ![h].events = ws[h].events \cup {e, "close"}]
      PROVE  CsInv'
  <2> DEFINE r == [ws[h] EXCEPT !.state = "gone", !.events = ws[h].events \cup {e, "close"}]
  <2>1. ws' = [ws EXCEPT ![h] = r]
    BY <1>2, <1>4 DEF StreamType
  <2>2. r \in StreamType
    BY <1>2 DEF StreamType, Watched
  <2>3. /\ r.state = "gone" /\ r.open = ws[h].open /\ r.node = ws[h].node
        /\ r.data = ws[h].data /\ r.tls = ws[h].tls /\ r.uri = ws[h].uri /\ r.port = ws[h].port
        /\ r.sec = ws[h].sec /\ r.slot = ws[h].slot /\ r.told = ws[h].told
    BY <1>2 DEF StreamType
  <2> HIDE DEF r
  <2>4. StreamInv(r, cloud[h], sent[h], early[h], halfSet[h]) /\ SetupInv(r, noMemory, leftSec)
    BY <1>4, <2>3, StreamsAt DEF StreamInv, SetupInv
  <2> QED BY <1>1, <1>4, <2>1, <2>2, <2>4, RecordStep
<1>5. ASSUME ws[h].state = "established", ws[h].slot # "none", Len(sent[h]) < MaxSent,
             sent' = [sent EXCEPT ![h] = Append(sent[h], ws[h].slot)],
             ws' = [ws EXCEPT ![h].slot = "none"]
      PROVE  CsInv'
  <2> DEFINE r == [ws[h] EXCEPT !.slot = "none"]
             q == Append(sent[h], ws[h].slot)
  <2>1. ws' = [ws EXCEPT ![h] = r]
    BY <1>2, <1>5 DEF StreamType
  <2>2. r \in StreamType
    BY <1>2 DEF StreamType
  <2>3. /\ r.state = ws[h].state /\ r.open = ws[h].open /\ r.node = ws[h].node
        /\ r.data = ws[h].data /\ r.tls = ws[h].tls /\ r.uri = ws[h].uri /\ r.port = ws[h].port
        /\ r.sec = ws[h].sec /\ r.slot = "none" /\ r.told = ws[h].told
    BY <1>2 DEF StreamType
  <2>4. /\ q \in Seq({"message", "register"}) /\ Len(q) <= MaxSent /\ q # <<>>
        /\ (sent[h] = <<>> => q[1] = ws[h].slot) /\ (sent[h] # <<>> => q[1] = sent[h][1])
    <3>1. ws[h].slot \in {"message", "register"}
      BY <1>2, <1>5 DEF StreamType
    <3> QED BY <1>5, <3>1, StreamsAt, SMTT(30)
  <2> HIDE DEF r, q
  <2>5. StreamInv(r, cloud[h], q, early[h], halfSet[h])
    BY <1>5, <2>3, <2>4, StreamsAt DEF StreamInv
  <2>6. SetupInv(r, noMemory', leftSec')
    BY <1>1, <2>3, StreamsAt DEF SetupInv
  <2>7. sent' = [sent EXCEPT ![h] = q]
    BY <1>5 DEF q
  <2>8. /\ cloud' = [cloud EXCEPT ![h] = cloud[h]] /\ early' = [early EXCEPT ![h] = early[h]]
        /\ halfSet' = [halfSet EXCEPT ![h] = halfSet[h]]
        /\ wsHeld' \in 0..MaxHeld /\ refused' = wsHeld' /\ wsFault' = "none"
        /\ noMemory' \in BOOLEAN /\ leftSec' \in BOOLEAN /\ (noMemory => noMemory')
        /\ (leftSec => leftSec')
    BY <1>1, StreamsAt
  <2>9. cloud[h] \in {"none", "live", "freed"} /\ early[h] \in BOOLEAN /\ halfSet[h] \in BOOLEAN
    BY StreamsAt
  <2> QED BY <2>1, <2>2, <2>4, <2>5, <2>6, <2>7, <2>8, <2>9, WholeStep
<1> QED BY <1>3, <1>4, <1>5 DEF LwsStep

(* Streams of the cloud.  The outcomes of an open: no stream, a stream     *)
(* with its node and watches, a stream whose watches failed, and a stream  *)
(* without a node.                                                         *)
LEMMA CloudOpenStep ==
  ASSUME CsInv, NEW h \in Streams, NEW se \in BOOLEAN, websocket_open_stream(h, se)
  PROVE  CsInv'
<1> DEFINE b == [NoStream EXCEPT !.node = TRUE, !.uri = CloudUri]
           s(o) == Opened(b, o, se)
<1>1. /\ wsHeld < MaxHeld /\ wsFault = "none" /\ ~ws[h].node /\ cloud[h] = "none"
      /\ sent' = [sent EXCEPT ![h] = <<>>] /\ early' = [early EXCEPT ![h] = FALSE]
      /\ wsFault' = "none"
  BY Zenon DEF websocket_open_stream, CanHold
<1>2. PICK o \in OpenOutcomes(CloudUri, se) :
        /\ noMemory' = (noMemory \/ ~o.mem)
        /\ leftSec' = (leftSec \/ (o.sec /\ ~o.ok))
        /\ \/ /\ ~o.ok /\ ws' = [ws EXCEPT ![h] = s(o)]
              /\ UNCHANGED <<cloud, halfSet, wsHeld, refused>>
           \/ /\ o.ok
              /\ \E w \in ConnectionWatches :
                   LET all == w = {"close", "connect", "error"}
                   IN /\ ws' = [ws EXCEPT ![h] = [s(o) EXCEPT !.watches = w, !.data = "cloud"]]
                      /\ cloud' = [cloud EXCEPT ![h] = IF all THEN "live" ELSE "freed"]
                      /\ halfSet' = [halfSet EXCEPT ![h] = ~all]
              /\ UNCHANGED <<wsHeld, refused>>
           \/ /\ o.ok /\ ws' = [ws EXCEPT ![h] = s(o)]
              /\ wsHeld' = wsHeld + 1 /\ refused' = refused + 1
              /\ UNCHANGED <<cloud, halfSet>>
  BY Zenon DEF websocket_open_stream
<1> DEFINE r == s(o)
<1>3. CloudUri \in UriType
  BY DEF CloudUri, UriType
<1>4. b \in StreamType /\ ~b.open /\ b.node /\ b.state = "none" /\ b.data = "none" /\ ~b.sec
      /\ b.uri = CloudUri
  BY <1>3, RequestedRecord
<1> HIDE DEF b
<1>5. /\ r \in StreamType /\ r.uri = CloudUri /\ r.node /\ r.open = o.ok
      /\ o.ok => /\ r.state = "connecting" /\ r.tls = o.tls /\ r.port = o.port /\ r.data = "none"
                 /\ ~r.told /\ r.slot = "none"
      /\ ~o.ok => r.state = "none" /\ r.data = b.data /\ (r.sec = (b.sec \/ o.sec))
  BY <1>4, OpenedRecord
<1>6. /\ o.ok \in BOOLEAN /\ o.sec \in BOOLEAN /\ o.mem \in BOOLEAN
      /\ o.ok /\ o.mem => o.tls = CloudUri.tls /\ o.port = PortOf(CloudUri)
  BY <1>3, OutcomeTypes
<1>7. /\ noMemory' \in BOOLEAN /\ leftSec' \in BOOLEAN
      /\ (noMemory => noMemory') /\ (leftSec => leftSec')
      /\ (~noMemory' => o.mem) /\ (~leftSec' /\ o.sec => o.ok)
  BY <1>2, <1>6, StreamsAt
<1>8. <<>> \in Seq({"message", "register"}) /\ Len(<<>>) = 0 /\ MaxSent \in Nat
      /\ FALSE \in BOOLEAN /\ TRUE \in BOOLEAN
  BY CloudStreamAssumption
<1> HIDE DEF s
<1>9. SetupInv(r, noMemory', leftSec')
  <2>1. r.open /\ ~noMemory' => r.tls = r.uri.tls /\ r.port = PortOf(r.uri)
    BY <1>5, <1>6, <1>7
  <2>2. r.sec /\ ~leftSec' => r.open
    BY <1>4, <1>5, <1>6, <1>7
  <2> QED BY <2>1, <2>2 DEF SetupInv
<1>10. StreamInv(r, "none", <<>>, FALSE, halfSet[h])
  BY <1>4, <1>5, <1>8 DEF StreamInv
<1>11. /\ halfSet[h] \in BOOLEAN /\ halfSet = [halfSet EXCEPT ![h] = halfSet[h]]
       /\ cloud = [cloud EXCEPT ![h] = "none"] /\ wsHeld \in 0..MaxHeld /\ refused = wsHeld
       /\ "none" \in {"none", "live", "freed"} /\ MaxHeld \in Nat
  BY <1>1, StreamsAt
<1>12. ASSUME ws' = [ws EXCEPT ![h] = r], UNCHANGED <<cloud, halfSet>>,
              wsHeld' \in 0..MaxHeld, refused' = wsHeld'
       PROVE  CsInv'
  <2>1. halfSet' = [halfSet EXCEPT ![h] = halfSet[h]] /\ cloud' = [cloud EXCEPT ![h] = "none"]
    BY <1>11, <1>12
  <2> QED BY <1>1, <1>5, <1>7, <1>8, <1>9, <1>10, <1>11, <1>12, <2>1, WholeStep
<1>13. ASSUME NEW w \in ConnectionWatches, NEW c \in {"none", "live", "freed"}, NEW f \in BOOLEAN, o.ok,
              c = "live" \/ f,
              ws' = [ws EXCEPT ![h] = [r EXCEPT !.watches = w, !.data = "cloud"]],
              cloud' = [cloud EXCEPT ![h] = c], halfSet' = [halfSet EXCEPT ![h] = f],
              UNCHANGED <<wsHeld, refused>>
       PROVE  CsInv'
  <2> DEFINE t == [r EXCEPT !.watches = w, !.data = "cloud"]
  <2>1. w \subseteq Watched
    BY DEF ConnectionWatches, Watched
  <2> HIDE DEF r
  <2>2. t \in StreamType
    BY <1>5, <2>1 DEF StreamType
  <2>3. /\ t.state = r.state /\ t.open = r.open /\ t.node = r.node /\ t.slot = r.slot
        /\ t.told = r.told /\ t.tls = r.tls /\ t.port = r.port /\ t.uri = r.uri /\ t.sec = r.sec
    BY <1>5 DEF StreamType
  <2>4. ws' = [ws EXCEPT ![h] = t]
    BY <1>13
  <2> HIDE DEF t
  <2>5. SetupInv(t, noMemory', leftSec')
    BY <1>9, <2>3 DEF SetupInv
  <2>6. StreamInv(t, c, <<>>, FALSE, f)
    BY <1>5, <1>8, <1>13, <2>3 DEF StreamInv
  <2>7. wsHeld' \in 0..MaxHeld /\ refused' = wsHeld'
    BY <1>11, <1>13
  <2> QED BY <1>1, <1>7, <1>8, <1>13, <2>2, <2>4, <2>5, <2>6, <2>7, WholeStep
<1>14. CASE ~o.ok /\ ws' = [ws EXCEPT ![h] = s(o)] /\ UNCHANGED <<cloud, halfSet, wsHeld, refused>>
  BY <1>11, <1>12, <1>14
<1>15. CASE /\ o.ok /\ ws' = [ws EXCEPT ![h] = s(o)] /\ wsHeld' = wsHeld + 1
            /\ refused' = refused + 1 /\ UNCHANGED <<cloud, halfSet>>
  <2>1. wsHeld' \in 0..MaxHeld /\ refused' = wsHeld'
    BY <1>1, <1>11, <1>15
  <2> QED BY <1>12, <1>15, <2>1
<1>16. ASSUME o.ok, NEW w \in ConnectionWatches, UNCHANGED <<wsHeld, refused>>,
              ws' = [ws EXCEPT ![h] = [s(o) EXCEPT !.watches = w, !.data = "cloud"]],
              cloud' = [cloud EXCEPT ![h] = IF w = {"close", "connect", "error"} THEN "live" ELSE "freed"],
              halfSet' = [halfSet EXCEPT ![h] = ~(w = {"close", "connect", "error"})]
       PROVE  CsInv'
  <2>1. CASE w = {"close", "connect", "error"}
    <3>1. /\ cloud' = [cloud EXCEPT ![h] = "live"] /\ halfSet' = [halfSet EXCEPT ![h] = FALSE]
          /\ "live" \in {"none", "live", "freed"}
      BY <1>16, <2>1, Zenon
    <3> QED BY <1>8, <1>13, <1>16, <3>1
  <2>2. CASE w # {"close", "connect", "error"}
    <3>1. /\ cloud' = [cloud EXCEPT ![h] = "freed"] /\ halfSet' = [halfSet EXCEPT ![h] = TRUE]
          /\ "freed" \in {"none", "live", "freed"}
      BY <1>16, <2>2, Zenon
    <3> QED BY <1>8, <1>13, <1>16, <3>1
  <2> QED BY <2>1, <2>2
<1> QED BY <1>2, <1>14, <1>15, <1>16, Zenon

(* A refused call leaves its reference and nothing else.                   *)
LEMMA RefusedStep ==
  ASSUME CsInv, CanHold, wsHeld' = wsHeld + 1, refused' = refused + 1,
         UNCHANGED <<ws, cloud, sent, early, halfSet, noMemory, leftSec, wsFault>>
  PROVE  CsInv'
<1>1. wsHeld' \in 0..MaxHeld /\ refused' = wsHeld'
  BY CloudStreamAssumption DEF CsInv, CanHold
<1>2. CsTypes' /\ CallbackDataLives'
  BY DEF CsInv, CsTypes, CallbackDataLives
<1> QED BY <1>1, <1>2 DEF CsInv

(* A message sent before the registration has gone out is early.           *)
LEMMA CloudSendStep ==
  ASSUME CsInv, NEW h \in Streams, websocket_send_message(h)
  PROVE  CsInv'
<1>1. CASE cloud[h] # "live"
  BY <1>1, RefusedStep DEF websocket_send_message
<1>2. CASE cloud[h] = "live"
  <2>1. PICK e \in BOOLEAN : e = (early[h] \/ ~ws[h].told \/ ws[h].slot = "register")
    BY Zenon
  <2> DEFINE r == Written(ws[h], "message")
  <2>2. /\ ws' = [ws EXCEPT ![h] = r] /\ early' = [early EXCEPT ![h] = e] /\ wsFault = "none"
        /\ UNCHANGED <<cloud, sent, halfSet, noMemory, leftSec, wsFault, wsHeld, refused>>
    BY <1>2, <2>1, Zenon DEF websocket_send_message, CanHold
  <2>3. /\ r \in StreamType /\ r.state = ws[h].state /\ r.open = ws[h].open /\ r.node = ws[h].node
        /\ r.data = ws[h].data /\ r.tls = ws[h].tls /\ r.uri = ws[h].uri /\ r.port = ws[h].port
        /\ r.sec = ws[h].sec /\ r.told = ws[h].told
        /\ r.slot = (IF ws[h].state = "gone" THEN ws[h].slot ELSE "message")
    BY StreamsAt, WrittenRecord
  <2> HIDE DEF r
  <2>4. StreamInv(r, cloud[h], sent[h], e, halfSet[h])
    <3>1. ~e => ~early[h] /\ ws[h].told /\ ws[h].slot # "register"
      BY <2>1, Zenon
    <3> QED BY <2>3, <3>1, StreamsAt DEF StreamInv
  <2>5. SetupInv(r, noMemory', leftSec')
    BY <2>2, <2>3, StreamsAt DEF SetupInv
  <2>6. /\ cloud' = [cloud EXCEPT ![h] = cloud[h]] /\ sent' = [sent EXCEPT ![h] = sent[h]]
        /\ halfSet' = [halfSet EXCEPT ![h] = halfSet[h]]
        /\ wsHeld' \in 0..MaxHeld /\ refused' = wsHeld' /\ wsFault' = "none"
        /\ noMemory' \in BOOLEAN /\ leftSec' \in BOOLEAN /\ (noMemory => noMemory')
        /\ (leftSec => leftSec')
    BY <2>2, StreamsAt
  <2>7. /\ cloud[h] \in {"none", "live", "freed"} /\ sent[h] \in Seq({"message", "register"})
        /\ halfSet[h] \in BOOLEAN /\ e \in BOOLEAN
    BY <2>1, StreamsAt, Zenon
  <2>8. ws' = [ws EXCEPT ![h] = r] /\ early' = [early EXCEPT ![h] = e] /\ r \in StreamType
    BY <2>2, <2>3
  <2>9. StreamReplaced(h, r, cloud[h], sent[h], e, halfSet[h])
    BY <2>4, <2>5, <2>6, <2>7, <2>8, Zenon DEF StreamReplaced
  <2> QED BY <2>9, ReplacedStep, Zenon
<1> QED BY <1>1, <1>2

LEMMA CloudCloseStep ==
  ASSUME CsInv, NEW h \in Streams, websocket_close_stream(h)
  PROVE  CsInv'
<1>1. CASE cloud[h] # "live"
  BY <1>1, RefusedStep DEF websocket_close_stream
<1>2. CASE cloud[h] = "live"
  <2> DEFINE r == Cleaned(ws[h])
  <2>1. /\ ws' = [ws EXCEPT ![h] = r] /\ cloud' = [cloud EXCEPT ![h] = "none"] /\ wsFault = "none"
        /\ UNCHANGED <<sent, early, halfSet, noMemory, leftSec, wsFault, wsHeld, refused>>
    BY <1>2, Zenon DEF websocket_close_stream, CanHold
  <2>2. /\ r \in StreamType /\ ~r.open /\ r.state = "none" /\ r.data = "none"
        /\ (r.sec => ws[h].sec /\ ~ws[h].open)
    BY StreamsAt, CleanedRecord
  <2> HIDE DEF r
  <2>3. StreamInv(r, "none", sent[h], early[h], halfSet[h]) /\ SetupInv(r, noMemory', leftSec')
    BY <2>1, <2>2, StreamsAt DEF StreamInv, SetupInv
  <2>4. /\ sent' = [sent EXCEPT ![h] = sent[h]] /\ early' = [early EXCEPT ![h] = early[h]]
        /\ halfSet' = [halfSet EXCEPT ![h] = halfSet[h]]
        /\ wsHeld' \in 0..MaxHeld /\ refused' = wsHeld' /\ wsFault' = "none"
        /\ noMemory' \in BOOLEAN /\ leftSec' \in BOOLEAN /\ (noMemory => noMemory')
        /\ (leftSec => leftSec')
    BY <2>1, StreamsAt
  <2>5. /\ "none" \in {"none", "live", "freed"} /\ sent[h] \in Seq({"message", "register"})
        /\ early[h] \in BOOLEAN /\ halfSet[h] \in BOOLEAN
    BY StreamsAt
  <2>6. ws' = [ws EXCEPT ![h] = r] /\ cloud' = [cloud EXCEPT ![h] = "none"] /\ r \in StreamType
    BY <2>1, <2>2
  <2> QED BY <2>3, <2>4, <2>5, <2>6, WholeStep
<1> QED BY <1>1, <1>2

(* The callback runs with the node of the stream, unless the stream is one *)
(* whose watches failed.                                                   *)
LEMMA EventStep ==
  ASSUME CsInv, NEW h \in Streams, NEW fd \in {"close", "connect", "error"}, ConnectionEvent(h, fd)
  PROVE  CsInv'
<1>1. /\ wsFault = "none"
      /\ UNCHANGED <<cloud, sent, wsHeld, refused, early, halfSet, noMemory, leftSec>>
  BY Zenon DEF ConnectionEvent
<1>2. ws[h] \in StreamType /\ ws \in [Streams -> StreamType]
  BY StreamsAt DEF CsInv, CsTypes
<1>3. ASSUME ws' = [ws EXCEPT ![h].events = ws[h].events \ {fd}], UNCHANGED wsFault
      PROVE  CsInv'
  <2> DEFINE r == [ws[h] EXCEPT !.events = ws[h].events \ {fd}]
  <2>1. ws' = [ws EXCEPT ![h] = r]
    BY <1>2, <1>3 DEF StreamType
  <2>2. r \in StreamType
    BY <1>2 DEF StreamType
  <2>3. /\ r.state = ws[h].state /\ r.open = ws[h].open /\ r.node = ws[h].node
        /\ r.data = ws[h].data /\ r.tls = ws[h].tls /\ r.uri = ws[h].uri /\ r.port = ws[h].port
        /\ r.sec = ws[h].sec /\ r.slot = ws[h].slot /\ r.told = ws[h].told
    BY <1>2 DEF StreamType
  <2> HIDE DEF r
  <2>4. StreamInv(r, cloud[h], sent[h], early[h], halfSet[h]) /\ SetupInv(r, noMemory, leftSec)
    BY <2>3, StreamsAt DEF StreamInv, SetupInv
  <2> QED BY <1>1, <1>3, <2>1, <2>2, <2>4, RecordStep
<1>4. ASSUME websocket_connection_callback(h, fd)
      PROVE  CsInv'
  <2> DEFINE t == IF fd = "connect" THEN Written(ws[h], "register") ELSE ws[h]
  <2>1. PICK b \in BOOLEAN : b = (t.told \/ fd = "connect")
    BY Zenon
  <2> DEFINE r == [t EXCEPT !.events = t.events \ {fd}, !.told = b]
  <2>2. /\ ws' = [ws EXCEPT ![h] = r] /\ ws[h].data = "cloud"
        /\ wsFault' = IF cloud[h] = "live" THEN "none" ELSE "callback"
    <3>1. Informed(ws[h], fd) = r
      BY <2>1, Zenon DEF Informed
    <3> QED BY <1>4, <3>1, Zenon DEF websocket_connection_callback
  <2>3. /\ t \in StreamType /\ t.state = ws[h].state /\ t.open = ws[h].open /\ t.node = ws[h].node
        /\ t.data = ws[h].data /\ t.tls = ws[h].tls /\ t.uri = ws[h].uri /\ t.port = ws[h].port
        /\ t.sec = ws[h].sec /\ t.told = ws[h].told
        /\ t.slot = IF fd = "connect" /\ ws[h].state # "gone" THEN "register" ELSE ws[h].slot
    BY <1>2, WrittenRecord
  <2> HIDE DEF t
  <2>4. r \in StreamType
    BY <2>3 DEF StreamType
  <2>5. /\ r.state = t.state /\ r.open = t.open /\ r.node = t.node
        /\ r.data = t.data /\ r.tls = t.tls /\ r.uri = t.uri /\ r.port = t.port
        /\ r.sec = t.sec /\ r.slot = t.slot /\ r.told = b
    BY <2>3 DEF StreamType
  <2> HIDE DEF r
  <2>6. StreamInv(r, cloud[h], sent[h], early[h], halfSet[h])
    BY <2>1, <2>3, <2>5, StreamsAt DEF StreamInv
  <2>7. SetupInv(r, noMemory', leftSec')
    BY <1>1, <2>3, <2>5, StreamsAt DEF SetupInv
  <2>8. CallbackDataLives'
    BY <1>1, <2>2, StreamsAt DEF StreamInv, CallbackDataLives
  <2>9. /\ ws' \in [Streams -> StreamType] /\ ws'[h] = r
        /\ \A g \in Streams : g # h => ws'[g] = ws[g]
    BY <1>2, <2>2, <2>4
  <2>10. CsTypes' /\ wsHeld' \in 0..MaxHeld /\ refused' = wsHeld'
    BY <1>1, <2>9 DEF CsTypes, CsInv
  <2> QED BY <1>1, <2>6, <2>7, <2>8, <2>9, <2>10, StreamStep
<1> QED BY <1>3, <1>4, Zenon DEF ConnectionEvent

LEMMA CloudStreamStep ==
  ASSUME CsInv, CloudStreamNext
  PROVE  CsInv'
<1>1. ASSUME NEW h \in Streams, websocket_set_connection_callback(h)
      PROVE  CsInv'
  BY <1>1 DEF websocket_set_connection_callback, csVars, CsInv, CsTypes, CallbackDataLives,
              StreamInv, SetupInv
<1> QED BY <1>1, AppRequestStep, AppOpenStep, AppWriteStep, AppWatchStep, ReceiveWatchStep,
           AppCloseStep, CloudOpenStep, CloudSendStep, CloudCloseStep, EventStep, LwsStepKeeps
        DEF CloudStreamNext

(* artik_cloud.c: the application is told what the cloud did and no        *)
(* message is sent twice; a stream connects as its URI says, registers     *)
(* before anything else unless the application was early, and references   *)
(* or freed nodes are left only by the failures the parts name.            *)
THEOREM CloudIsSound == CloudSpec => []CloudSound
<1> DEFINE Inv == RestInv /\ CsInv
           Step == \/ CloudNext /\ UNCHANGED csVars
                   \/ CloudStreamNext /\ UNCHANGED cloudVars
<1>1. CloudInit /\ CloudStreamInit => Inv
  <2> SUFFICES ASSUME CloudInit, CloudStreamInit PROVE Inv
    OBVIOUS
  <2>1. RestInv
    BY CloudAssumption DEF CloudInit, RestInv, ServerSound, ServerType, ToldWhatHappened
  <2>2. CsTypes /\ CallbackDataLives
    <3>1. NoStream \in StreamType /\ <<>> \in Seq({"message", "register"})
      BY NoStreamType
    <3>2. /\ ws \in [Streams -> StreamType] /\ sent \in [Streams -> Seq({"message", "register"})]
      BY <3>1, Zenon DEF CloudStreamInit
    <3>3. cloud \in [Streams -> {"none", "live", "freed"}]
      BY DEF CloudStreamInit
    <3>4. early \in [Streams -> BOOLEAN] /\ halfSet \in [Streams -> BOOLEAN]
      BY Zenon DEF CloudStreamInit
    <3> QED BY <3>2, <3>3, <3>4 DEF CloudStreamInit, CsTypes, CallbackDataLives
  <2>3. wsHeld \in 0..MaxHeld /\ refused = wsHeld
    BY CloudStreamAssumption DEF CloudStreamInit
  <2>4. ASSUME NEW h \in Streams
        PROVE  /\ StreamInv(ws[h], cloud[h], sent[h], early[h], halfSet[h])
               /\ SetupInv(ws[h], noMemory, leftSec)
    <3>1. ws[h] = NoStream /\ cloud[h] = "none" /\ sent[h] = <<>> /\ Len(sent[h]) = 0
      BY DEF CloudStreamInit
    <3> QED BY <3>1, NoStreamType, CloudStreamAssumption DEF StreamInv, SetupInv
  <2> QED BY <2>1, <2>2, <2>3, <2>4 DEF CsInv
<1>2. Inv /\ [Step]_<<cloudVars, csVars>> => Inv'
  <2> SUFFICES ASSUME Inv, [Step]_<<cloudVars, csVars>> PROVE Inv'
    OBVIOUS
  <2>1. UNCHANGED cloudVars => RestInv'
    BY DEF cloudVars, RestInv, ServerSound, ServerType, ToldWhatHappened
  <2>2. UNCHANGED csVars => CsInv'
    BY DEF csVars, CsInv, CsTypes, CallbackDataLives, StreamInv, SetupInv
  <2> QED BY <2>1, <2>2, RestStep, CloudStreamStep, Zenon
<1>3. Inv => CloudSound
  <2> SUFFICES ASSUME Inv PROVE CloudSound
    OBVIOUS
  <2>1. CloudTypeOK /\ ToldWhatHappened /\ HttpHeldByRefused /\ MessagesAccounted
    BY DEF RestInv, ServerSound, ServerType, CloudTypeOK, HttpHeldByRefused, MessagesAccounted
  <2>2. CloudStreamTypeOK
    BY StreamsAt DEF CsInv, CloudStreamTypeOK, StreamInv, StreamType, Watched
  <2>3. RegisteredFirst
    BY StreamsAt DEF RegisteredFirst, StreamInv
  <2>4. CallbackDataLives /\ HeldByRefused
    BY DEF CsInv, HeldByRefused
  <2>5. ConnectsAsAsked /\ ElementIsReturned
    BY StreamsAt DEF ConnectsAsAsked, ElementIsReturned, SetupInv, PortOf
  <2> QED BY <2>1, <2>2, <2>3, <2>4, <2>5 DEF CloudSound
<1> QED BY <1>1, <1>2, <1>3, PTL DEF CloudSpec

=============================================================================
