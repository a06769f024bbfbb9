------------------------------ MODULE Security ------------------------------
(***************************************************************************)
(* linux_security.c: handles on the secure element's OpenSSL engine and    *)
(* the verification of PKCS7 signatures, over the process-wide state of    *)
(* OpenSSL (its tables of algorithms, the default engine), which belongs   *)
(* to everyone who uses the library.  Every operation is one step; its     *)
(* callers interleave.                                                     *)
(***************************************************************************)
EXTENDS Integers, Sequences, FiniteSets

CONSTANTS
  SecHandles,   \* addresses of security_node's
  AppHandles,   \* those of them applications ask for themselves
  VerHandles,   \* addresses of verify_node's
  Signatures,   \* PKCS7 blocks an application may hold, see SigType
  Chunks,       \* pieces of data
  MaxChunks     \* pieces of data of one verification

\* A block: is it a signed-data block, how many signers, does the certificate
\* chain to the CA, the year of signing (0: no attribute), the data signed, and
\* is the signature over the attributes right.
SigType == [signed : BOOLEAN, signers : 0..2, chain : BOOLEAN, year : {0} \cup 1950..2049,
            data : Seq(Chunks), right : BOOLEAN]

ASSUME SecurityAssumption == AppHandles \subseteq SecHandles /\ MaxChunks \in Nat /\ \A s \in Signatures : s \in SigType

VARIABLES
  openssl,       \* process state: tables of algorithms, default engine, openssl_global_init
  requested,     \* requested_node: the live handles
  verifying,     \* verify_nodes: the block and the data digested so far
  timeHeld,      \* the time module was requested and not released
  answer,        \* what the last verification was told
  cleaned        \* a handle was released since the last time the algorithms were added

secVars == <<openssl, requested, verifying, timeHeld, answer, cleaned>>

NoVerify == [live |-> FALSE]
NoAnswer == [ret |-> "none"]

SecurityInit ==
  /\ openssl = [algs |-> FALSE, engine |-> FALSE, global |-> FALSE]
  /\ requested = {}
  /\ verifying = [v \in VerHandles |-> NoVerify]
  /\ timeHeld = FALSE /\ answer = NoAnswer /\ cleaned = FALSE

-----------------------------------------------------------------------------
(* Handles on the secure element *)

\* The node is added and the caller's variable set before the engine is found,
\* initialised and made the default; when one of these fails the node goes and
\* the variable keeps its address.
os_security_request(h) ==
  /\ h \notin requested
  /\ \/ requested' = requested \cup {h} /\ openssl' = [openssl EXCEPT !.engine = TRUE]
     \/ UNCHANGED <<requested, openssl>>

\* OBJ_cleanup, EVP_cleanup and ENGINE_cleanup empty the tables of the process
\* whoever else uses them; openssl_global_init stays as it is.
os_security_release(h) ==
  IF h \in requested
  THEN /\ requested' = requested \ {h}
       /\ openssl' = [openssl EXCEPT !.algs = FALSE, !.engine = FALSE]
       /\ cleaned' = TRUE
  ELSE UNCHANGED <<requested, openssl, cleaned>>

\* The certificate of the element as PEM, or no memory.
os_security_get_certificate(h) == IF h \in requested THEN {"S_OK", "E_NO_MEM"} ELSE {"E_BAD_ARGS"}

\* The curve of the certificate, if its parameters name one.
get_curve_nid == {"curve", "unknown"}

\* A key whose private number is the x of the public point: the element knows
\* which key is meant.  It fails on an unknown curve or a point off the curve.
create_pub_key(nid) == IF nid = "curve" THEN {"key", "null"} ELSE {"null"}

os_security_get_key_from_cert(h) ==
  IF h \notin requested THEN {"E_BAD_ARGS"}
  ELSE {"E_NO_MEM", "E_BAD_ARGS"}
       \cup IF \E nid \in get_curve_nid : "key" \in create_pub_key(nid) THEN {"S_OK"} ELSE {}

\* The serial number of the certificate; a number longer than the buffer is refused.
os_get_certificate_sn(h) ==
  {r \in {"S_OK", "E_BAD_ARGS", "E_INVALID_VALUE", "E_NO_MEM"} :
     r = "S_OK" => "S_OK" \in os_security_get_certificate(h)}

os_get_random_bytes(h) == IF h \in requested THEN {"S_OK", "E_BAD_ARGS"} ELSE {"E_BAD_ARGS"}

os_security_get_root_ca(h) == {"E_NOT_SUPPORTED"}

-----------------------------------------------------------------------------
(* Verification of signatures *)

\* Two decimal digits.
asn1_parse_int(n) == n % 100

\* The two digits of UTCTime stand for 1950 to 2049.
convert_asn1_time(year) ==
  LET yy == asn1_parse_int(year) IN 1900 + yy + (IF yy < 50 THEN 100 ELSE 0)

\* What init answers: the checks in the code's order.  `since' is
\* signing_time_in, 0 if the application gives none.
VerifyAnswer(s, since, algs) ==
  IF ~s.signed \/ s.signers = 0 THEN "E_SECURITY_INVALID_PKCS7"
  ELSE IF s.signers > 1 THEN "E_NOT_SUPPORTED"
  ELSE IF ~s.chain THEN "E_SECURITY_CA_VERIF_FAILED"
  ELSE IF since # 0 /\ s.year = 0 THEN "E_SECURITY_INVALID_PKCS7"
  ELSE IF since # 0 /\ convert_asn1_time(s.year) < since THEN "E_SECURITY_SIGNING_TIME_ROLLBACK"
  ELSE IF ~algs THEN "E_BAD_ARGS"
  ELSE "S_OK"

\* The algorithms are added by the first verification of the process only.  A
\* chain signed with an algorithm that is not in the tables does not verify.
os_verify_signature_init(v, s, since) ==
  LET algs == openssl.algs \/ ~openssl.global
      ret == VerifyAnswer([s EXCEPT !.chain = @ /\ algs], since, algs)
  IN /\ ~verifying[v].live
     /\ openssl' = [openssl EXCEPT !.algs = algs, !.global = TRUE]
     /\ timeHeld' = (timeHeld \/ (since # 0 /\ s.year # 0 /\ s.signed /\ s.signers = 1
                                  /\ s.chain /\ algs))
     /\ verifying' = IF ret # "S_OK" THEN verifying
                     ELSE [verifying EXCEPT ![v] = [live |-> TRUE, sig |-> s, since |-> since,
                                                    data |-> <<>>]]
     /\ answer' = IF ret = "S_OK" THEN NoAnswer
                  ELSE [ret |-> ret, sig |-> s, since |-> since, data |-> s.data]
     /\ cleaned' = (cleaned /\ openssl.global)
     /\ UNCHANGED requested

\* The digest was looked up by init: the tables do not matter here.
os_verify_signature_update(v, c) ==
  /\ verifying[v].live /\ Len(verifying[v].data) < MaxChunks
  /\ verifying' = [verifying EXCEPT ![v].data = Append(@, c)]
  /\ answer' = NoAnswer
  /\ UNCHANGED <<openssl, requested, timeHeld, cleaned>>

\* The digest is compared first, then looked up again for the signature over
\* the attributes.  The node goes whatever the answer.
os_verify_signature_final(v) ==
  LET n == verifying[v]
      ret == IF n.data # n.sig.data THEN "E_SECURITY_DIGEST_MISMATCH"
             ELSE IF ~openssl.algs THEN "E_SECURITY_INVALID_PKCS7"
             ELSE IF ~n.sig.right THEN "E_SECURITY_SIGNATURE_MISMATCH"
             ELSE "S_OK"
  IN /\ n.live
     /\ verifying' = [verifying EXCEPT ![v] = NoVerify]
     /\ answer' = [ret |-> ret, sig |-> n.sig, since |-> n.since, data |-> n.data]
     /\ UNCHANGED <<openssl, requested, timeHeld, cleaned>>

SecRequest(h) == os_security_request(h) /\ UNCHANGED <<verifying, timeHeld, answer, cleaned>>
SecRelease(h) == os_security_release(h) /\ UNCHANGED <<verifying, timeHeld, answer>>

\* Operations that leave everything as it is, whatever they answer.
SecQuery(h) ==
  \E r \in os_get_certificate_sn(h) \cup os_get_random_bytes(h) \cup os_security_get_root_ca(h) :
    UNCHANGED secVars

SecurityNext ==
  \/ \E h \in AppHandles : SecRequest(h) \/ SecRelease(h) \/ SecQuery(h)
  \/ \E v \in VerHandles :
       \/ \E s \in Signatures, since \in {0, 2000} : os_verify_signature_init(v, s, since)
       \/ \E c \in Chunks : os_verify_signature_update(v, c)
       \/ os_verify_signature_final(v)

SecuritySpec == SecurityInit /\ [][SecurityNext]_secVars

-----------------------------------------------------------------------------
Genuine(a) == /\ a.sig.signed /\ a.sig.signers = 1 /\ a.sig.chain /\ a.sig.right
              /\ a.data = a.sig.data
              /\ a.since # 0 => a.sig.year # 0 /\ a.sig.year >= a.since

\* The tables are only full after someone filled them; handles and
\* verifications keep their types.
SecurityTypeOK ==
  /\ openssl \in [algs : BOOLEAN, engine : BOOLEAN, global : BOOLEAN]
  /\ requested \subseteq SecHandles
  /\ \A v \in VerHandles : verifying[v].live =>
       /\ verifying[v].sig \in Signatures /\ Len(verifying[v].data) <= MaxChunks
       /\ openssl.global

\* os_verify_signature_final answers S_OK only for the very data the block was
\* made for, under a certificate that chains to the CA, and signed no earlier
\* than the application asked, whatever other verifications do in between.
VerifiedIsGenuine == answer.ret = "S_OK" => Genuine(answer)

\* A genuine block over the data given is refused only when a handle on the
\* secure element was released since the algorithms were added: the release
\* empties the tables and openssl_global_init keeps them from being filled again.
GenuineIsRefusedAfterRelease == answer.ret # "none" /\ Genuine(answer) /\ answer.ret # "S_OK" => cleaned

=============================================================================
