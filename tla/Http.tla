-------------------------------- MODULE Http --------------------------------
(***************************************************************************)
(* linux_http.c: requests over libcurl made by several threads.  One       *)
(* mutex, initialised by whoever comes first, is held from                 *)
(* curl_global_init to curl_global_cleanup; the handle on the secure       *)
(* element, which a request with use_se takes inside, is released after    *)
(* the mutex.  Steps of Security are the steps a request makes there.      *)
(***************************************************************************)
EXTENDS Security

CONSTANTS
  Threads,     \* threads of the application, each with an artik_ssl_config of its own
  MaxCalls     \* requests of a thread

ASSUME HttpAssumption == MaxCalls \in Nat /\ "none" \notin Threads

VARIABLES
  req,        \* where a thread is in its request; sec is {} or its sec_handle
  conf,       \* its artik_ssl_config: where the client certificate and key come from
  mutex,      \* lock_initialized and who holds the lock
  inCurl,     \* threads between curl_global_init and curl_global_cleanup
  calls,      \* requests made
  reinit,     \* the mutex was initialised while it was in use
  torn,       \* a request of the thread got the certificate but not the key
  raced       \* another thread released a handle since this one entered curl

httpOnly == <<req, conf, mutex, inCurl, calls, reinit, torn, raced>>
httpVars == <<httpOnly, secVars>>

Idle == [pc |-> "idle", stream |-> FALSE, se |-> FALSE, sec |-> {}]

HttpInit ==
  /\ SecurityInit
  /\ req = [t \in Threads |-> Idle]
  /\ conf = [t \in Threads |-> [cert |-> "app", key |-> "app"]]
  /\ mutex = [initialized |-> FALSE, holder |-> "none"]
  /\ inCurl = {}
  /\ calls = [t \in Threads |-> 0]
  /\ reinit = FALSE
  /\ torn = [t \in Threads |-> FALSE] /\ raced = [t \in Threads |-> FALSE]

Goto(t, pc) == req' = [req EXCEPT ![t].pc = pc]

\* mutex_lock reads lock_initialized without a lock.
Enter(t, stream, se) ==
  /\ req[t] = Idle /\ calls[t] < MaxCalls
  /\ calls' = [calls EXCEPT ![t] = @ + 1]
  /\ req' = [req EXCEPT ![t] = [Idle EXCEPT !.stream = stream, !.se = se,
                                            !.pc = IF mutex.initialized THEN "lock" ELSE "init"]]
  /\ UNCHANGED <<conf, mutex, inCurl, reinit, torn, raced, secVars>>

\* A second initialisation makes a mutex that is held free.  With the mutex the
\* thread calls curl_global_init, which fills OpenSSL's tables when it is the
\* first inside.
mutex_lock(t) ==
  \/ /\ req[t].pc = "init"
     /\ mutex' = [initialized |-> TRUE, holder |-> "none"] /\ Goto(t, "lock")
     /\ reinit' = (reinit \/ mutex.initialized)
     /\ UNCHANGED <<inCurl, openssl, raced, cleaned>>
  \/ /\ req[t].pc = "lock" /\ mutex.holder = "none"
     /\ mutex' = [mutex EXCEPT !.holder = t] /\ Goto(t, "curl")
     /\ inCurl' = inCurl \cup {t}
     /\ openssl' = [openssl EXCEPT !.algs = @ \/ inCurl = {}]
     /\ cleaned' = (cleaned /\ inCurl # {})
     /\ raced' = [raced EXCEPT ![t] = \E u \in inCurl : raced[u]]
     /\ UNCHANGED reinit

mutex_unlock == mutex' = [mutex EXCEPT !.holder = "none"]

\* Mutant: the early return leaves the mutex locked.
EasyInitKeepsLock(t) ==
  /\ req[t].pc = "curl"
  /\ \/ Goto(t, IF req[t].se THEN "request" ELSE "perform") /\ UNCHANGED <<mutex, inCurl>>
     \/ req' = [req EXCEPT ![t] = Idle] /\ inCurl' = inCurl \ {t} /\ UNCHANGED mutex

\* curl_easy_init; without a handle the request is over.
EasyInit(t) ==
  /\ req[t].pc = "curl"
  /\ \/ Goto(t, IF req[t].se THEN "request" ELSE "perform") /\ UNCHANGED <<mutex, inCurl>>
     \/ req' = [req EXCEPT ![t] = Idle] /\ mutex_unlock /\ inCurl' = inCurl \ {t}

\* artik_request_api_module and security->request: sec_handle is set also when
\* the request fails, but for memory.  The node that goes leaves its address to
\* the next one.
RequestSecurity(t) ==
  /\ req[t].pc = "request"
  /\ \/ \E h \in SecHandles \ AppHandles :
          /\ os_security_request(h)
          /\ req' = [req EXCEPT ![t].sec = {h},
                                ![t].pc = IF h \in requested' THEN "cert" ELSE "exit"]
     \/ Goto(t, "exit") /\ UNCHANGED <<requested, openssl>>
  /\ UNCHANGED <<verifying, timeHeld, answer, cleaned>>

\* The client certificate of the application's configuration is freed and
\* replaced as soon as there is one.
GetCertificate(t) ==
  /\ req[t].pc = "cert"
  /\ \E h \in req[t].sec : \E r \in os_security_get_certificate(h) :
       /\ Goto(t, IF r = "S_OK" THEN "key" ELSE "exit")
       /\ conf' = IF r = "S_OK" THEN [conf EXCEPT ![t].cert = "element"] ELSE conf

GetKey(t) ==
  /\ req[t].pc = "key"
  /\ \E h \in req[t].sec : \E r \in os_security_get_key_from_cert(h) :
       /\ Goto(t, IF r = "S_OK" THEN "perform" ELSE "exit")
       /\ conf' = IF r = "S_OK" THEN [conf EXCEPT ![t].key = "element"] ELSE conf
       /\ torn' = [torn EXCEPT ![t] = r # "S_OK" /\ conf[t].key # "element"]
  /\ UNCHANGED <<requested, openssl, cleaned>>

\* The pair goes into the context of the connection: it is refused when the
\* parts do not belong together or an algorithm is missing.
ssl_ctx_callback(t) == conf[t].cert = conf[t].key /\ openssl.algs

\* Data arrives: it is added to the response, or there is no memory and the
\* response is lost, which ends the transfer.
response_callback(t) == {"go on", "end"}

\* The application's function decides; it may also make a request of its own,
\* which waits for the mutex this thread holds.
stream_callback(t) == {"go on", "end", "nested"}

\* curl_easy_perform, and every exit of it.
Perform(t) ==
  /\ req[t].pc = "perform"
  /\ \/ /\ ssl_ctx_callback(t)
        /\ \E r \in IF req[t].stream THEN stream_callback(t) ELSE response_callback(t) :
             Goto(t, IF r = "nested" THEN "stuck" ELSE "exit")
     \/ Goto(t, "exit")

\* curl_easy_cleanup, curl_global_cleanup, and the mutex.
Exit(t) ==
  /\ req[t].pc = "exit"
  /\ inCurl' = inCurl \ {t} /\ mutex_unlock
  /\ req' = [req EXCEPT ![t] = IF req[t].sec # {} THEN [@ EXCEPT !.pc = "release"] ELSE Idle]

\* security->release of sec_handle, outside the mutex: one that is left from a
\* request that failed finds nothing, or the node that has its address now.
Release(t) ==
  /\ req[t].pc = "release"
  /\ req' = [req EXCEPT ![t] = Idle]
  /\ \E h \in req[t].sec :
       /\ os_security_release(h)
       /\ raced' = [u \in Threads |-> raced[u] \/ (u \in inCurl /\ h \in requested)]

\* The whole of a request; but for the stream callback the five
\* functions differ only in what they ask curl for.
Request(t, stream) ==
  \/ \E se \in BOOLEAN : Enter(t, stream, se)
  \/ /\ req[t].stream = stream /\ UNCHANGED calls
     /\ \/ mutex_lock(t) /\ UNCHANGED <<conf, torn, requested, verifying, timeHeld, answer>>
        \/ EasyInit(t) /\ UNCHANGED <<conf, reinit, torn, raced, secVars>>
        \/ RequestSecurity(t) /\ UNCHANGED <<conf, mutex, inCurl, reinit, torn, raced>>
        \/ GetCertificate(t) /\ UNCHANGED <<mutex, inCurl, reinit, torn, raced, secVars>>
        \/ GetKey(t) /\ UNCHANGED <<mutex, inCurl, reinit, raced, verifying, timeHeld, answer>>
        \/ Perform(t) /\ UNCHANGED <<conf, mutex, inCurl, reinit, torn, raced, secVars>>
        \/ Exit(t) /\ UNCHANGED <<conf, reinit, torn, raced, secVars>>
        \/ Release(t) /\ UNCHANGED <<conf, mutex, inCurl, reinit, torn, verifying, timeHeld, answer>>

os_http_get_stream(t) == Request(t, TRUE)
os_http_get(t)        == Request(t, FALSE)
os_http_post(t)       == Request(t, FALSE)
os_http_put(t)        == Request(t, FALSE)
os_http_delete(t)     == Request(t, FALSE)

Thread(t) ==
  \/ os_http_get_stream(t) \/ os_http_get(t) \/ os_http_post(t)
  \/ os_http_put(t) \/ os_http_delete(t)

HttpNext == \E t \in Threads : Thread(t)

HttpSpec == HttpInit /\ [][HttpNext]_httpVars

\* A thread that has begun a request goes on when it can; the mutex is taken by
\* those who wait for it.  Nothing makes a thread begin one.
HttpFairness == \A t \in Threads : WF_httpVars(req[t].pc # "idle" /\ Thread(t))

-----------------------------------------------------------------------------
\* A thread is inside curl exactly between its curl_global_init and its
\* curl_global_cleanup; program counters, configurations and the holder have
\* their types.
HttpTypeOK ==
  /\ \A t \in Threads :
       /\ req[t].pc \in {"idle", "init", "lock", "curl", "request", "cert", "key", "perform",
                         "stuck", "exit", "release"}
       /\ conf[t] \in [cert : {"app", "element"}, key : {"app", "element"}]
       /\ req[t].pc \in {"curl", "request", "cert", "key", "perform", "stuck", "exit"} <=> t \in inCurl
  /\ mutex.holder \in Threads \cup {"none"}

\* curl_global_init and curl_global_cleanup, which are not thread-safe, are
\* never run by two threads at once, unless two threads both found the mutex
\* uninitialised.
OneInCurl == Cardinality(inCurl) > 1 => reinit

\* A thread that is not in a request does not hold the mutex, and a handle on
\* the secure element is that of a thread that will release it, whichever step
\* of a request failed and whichever address the handle got.
IdleHoldsNothing ==
  /\ \A t \in Threads : req[t] = Idle => mutex.holder # t
  /\ requested \ AppHandles \subseteq UNION {req[t].sec : t \in Threads}

\* The certificate and the key presented to a server come from the same place,
\* unless an earlier request of this configuration failed between the two.
PairMatches ==
  \A t \in Threads : req[t].pc = "perform" /\ ~torn[t] => conf[t].cert = conf[t].key

\* During a transfer OpenSSL's algorithms, and with use_se the engine, are in
\* place, unless another thread is releasing its handle, which it does without
\* the mutex.
TlsIsReady ==
  \A t \in Threads : req[t].pc = "perform" /\ ~raced[t] =>
    openssl.algs /\ (req[t].se => openssl.engine)

\* Every request returns, unless a stream callback makes a request itself.
RequestReturns ==
  \A t \in Threads : req[t].pc # "idle" ~> req[t].pc = "idle" \/ \E u \in Threads : req[u].pc = "stuck"

\* One thread at a time is inside curl, an idle thread holds nothing,
\* certificate and key belong together, TLS finds OpenSSL ready, and a
\* verified signature is genuine and fresh, each but for the races and
\* failures its part names (linux_http.c, linux_security.c).
HttpSound ==
  /\ SecurityTypeOK /\ VerifiedIsGenuine /\ GenuineIsRefusedAfterRelease
  /\ HttpTypeOK /\ OneInCurl /\ IdleHoldsNothing /\ PairMatches /\ TlsIsReady

=============================================================================
