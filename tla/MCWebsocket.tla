---------------------------- MODULE MCWebsocket ----------------------------
(***************************************************************************)
(* The web side of connectivity on small instances: a websocket stream,    *)
(* http requests of two threads with the secure element, verifications of  *)
(* signatures, streams and calls of the cloud.  The groups share no        *)
(* variable (but http and security, of which one group runs).              *)
(***************************************************************************)
EXTENDS Websocket, Http, Cloud

CONSTANTS w1, w2

VARIABLE group

TwoAddrs == {w1, w2}

Block(signed, signers, chain, year, right) ==
  [signed |-> signed, signers |-> signers, chain |-> chain, year |-> year,
   data |-> <<1, 2>>, right |-> right]

MCSignatures ==
  {Block(TRUE, 1, TRUE, 2000, TRUE), Block(TRUE, 1, TRUE, 1980, TRUE),
   Block(TRUE, 1, FALSE, 2020, TRUE), Block(TRUE, 1, TRUE, 0, FALSE),
   Block(TRUE, 2, TRUE, 2020, TRUE), Block(FALSE, 0, FALSE, 0, TRUE)}

MCUris == {[ok |-> FALSE, tls |-> FALSE, port |-> 0], [ok |-> TRUE, tls |-> FALSE, port |-> 0],
           [ok |-> TRUE, tls |-> TRUE, port |-> 8443], [ok |-> TRUE, tls |-> TRUE, port |-> 0]}

MCInit == /\ Init /\ HttpInit /\ CloudStreamInit /\ CloudInit
          /\ group \in {"websocket", "http", "security", "stream", "cloud"}

\* Bound: one of the threads makes a second request.  Only entering a request,
\* for which no fairness is assumed, adds to calls.
OneCallsAgain == Cardinality({t \in Threads : calls[t] > 1}) <= 1

MCNext ==
  /\ \/ group = "websocket" /\ Next /\ UNCHANGED <<httpVars, csVars, cloudVars>>
     \/ group = "http" /\ HttpNext /\ OneCallsAgain' /\ UNCHANGED <<vars, csVars, cloudVars>>
     \/ group = "security" /\ SecurityNext /\ UNCHANGED <<vars, httpOnly, csVars, cloudVars>>
     \/ group = "stream" /\ CloudStreamNext /\ UNCHANGED <<vars, httpVars, cloudVars>>
     \/ group = "cloud" /\ CloudNext /\ UNCHANGED <<vars, httpVars, csVars>>
  /\ UNCHANGED group

MCVars == <<vars, httpVars, csVars, cloudVars, group>>

MCSpec == MCInit /\ [][MCNext]_MCVars /\ Fairness /\ HttpFairness

\* Writes reach a live wsi, what a stream received is delivered, what it
\* accepted is sent, its end is reported, and an http request returns, each
\* but for the cases its part names (lws_callback,
\* os_websocket_process_stream, os_http_*).
WebServes ==
  /\ WriteIsSafe /\ ReceivedIsDelivered /\ WrittenIsSent /\ CloseIsReported
  /\ RequestReturns

=============================================================================
