------------------------------ MODULE TinyLoop ------------------------------
(***************************************************************************)
(* The main loop on TizenRT (tinyara_loop.c): sources of libuv, each with  *)
(* a structure whose pointer is kept in a vector of its kind, found again  *)
(* by an id that is counted from 0 to IdLimit - 1 and around.  Everything  *)
(* runs in one thread: the application calls the loop before it runs and   *)
(* in its callbacks.                                                       *)
(*                                                                         *)
(* A structure is cleared before it is freed, and the callbacks read its   *)
(* id once more after that: nothing is allocated in between, so that they  *)
(* read 0.  The structure of an idle source never gets its id, and holds   *)
(* what malloc found there.  libuv is external: a source that is started   *)
(* is reported when it is due, until it is stopped.                        *)
(***************************************************************************)
EXTENDS Integers, Sequences

CONSTANTS
  IdLimit,     \* 255 in the code
  UshrtMax,    \* 65535: the length of a vector is a uint16_t
  MaxSources   \* sources added in a behaviour

ASSUME TinyLoopAssumption ==
  /\ IdLimit \in Nat \ {0} /\ MaxSources \in Nat
  /\ UshrtMax \in Nat \ {0} /\ UshrtMax <= 65535

TlKinds == {"timeout", "periodic", "watch", "idle"}

VARIABLES
  tlSrc,      \* the structures: kind, id field, id returned, state
  tlVec,      \* the vector of each kind: the structures it points to
  tlCap,      \* the elements its memory has room for
  tlNextId,   \* _id_timeout and the others
  tlWrapped,  \* kinds whose ids have started again at 0
  tlCall,     \* the source whose callback runs, 0 for none
  tlRunning,  \* os_loop_run has not returned
  tlAsked,    \* sources the application has removed
  tlFault     \* freed memory was used as if it were a source

tlVars == <<tlSrc, tlVec, tlCap, tlNextId, tlWrapped, tlCall, tlRunning, tlAsked, tlFault>>

Sources == 1..Len(tlSrc)
TlLive == {n \in Sources : tlSrc[n].state = "live"}

TlInit ==
  /\ tlSrc = <<>>
  /\ tlVec = [k \in TlKinds |-> <<>>]
  /\ tlCap = [k \in TlKinds |-> 0]
  /\ tlNextId = [k \in TlKinds |-> 0]
  /\ tlWrapped = {} /\ tlCall = 0 /\ tlRunning = FALSE
  /\ tlAsked = {} /\ tlFault = FALSE

TlApp == ~tlFault /\ (tlRunning => tlCall # 0)

-----------------------------------------------------------------------------
(* The vector.                                                             *)

Powers == {1, 2, 4, 8, 16, 32, 64, 128, 256, 512, 1024, 2048, 4096, 8192, 16384, 32768, 65536}

\* The least power of two that is not below u.
align_power2_uint(u) ==
  IF u <= 1 THEN u ELSE CHOOSE p \in Powers : p >= u /\ \A q \in Powers : q >= u => p <= q

\* For the uint16_t a vector counts its elements in.
align_power2(u) == IF align_power2_uint(u) <= UshrtMax THEN align_power2_uint(u) ELSE UshrtMax

\* Length and room of the vector of a kind after one element more.
_vector_grow(k) ==
  LET len == (Len(tlVec[k]) + 1) % (UshrtMax + 1)
  IN  [len |-> len,
       cap |-> IF align_power2(len) # align_power2(Len(tlVec[k])) THEN align_power2(len) ELSE tlCap[k]]

\* _vector_append_n, _ptr_vector_append: the element is written at the end.
_ptr_vector_append(k, n) ==
  LET v == _vector_grow(k)
  IN  /\ tlCap' = [tlCap EXCEPT ![k] = v.cap]
      /\ IF v.len = 0
         THEN tlFault' = TRUE /\ UNCHANGED tlVec
         ELSE tlVec' = [tlVec EXCEPT ![k] = Append(@, n)] /\ UNCHANGED tlFault

\* The room left after an element is taken out and len are there.
_vector_shrink(len, cap) ==
  IF len = 0 THEN 0
  ELSE IF align_power2(len) = align_power2_uint(len + 1) THEN cap ELSE align_power2(len)

\* _vector_del, one by one until the vector of a kind has the length "to":
\* room is the room it has at each length it comes through.
_vector_del(k, to) ==
  \E room \in [to..Len(tlVec[k]) -> 0..UshrtMax] :
    /\ room[Len(tlVec[k])] = tlCap[k]
    /\ \A len \in to..(Len(tlVec[k]) - 1) : room[len] = _vector_shrink(len, room[len + 1])
    /\ tlCap' = [tlCap EXCEPT ![k] = room[to]]

\* The structures the vector of a kind points to.
InVector(k) == {tlVec[k][i] : i \in DOMAIN tlVec[k]}

\* What the id field of a structure reads as, a freed one's included.
IdRead(n) == IF tlSrc[n].state = "live" THEN tlSrc[n].id ELSE 0

-----------------------------------------------------------------------------
(* Adding, removing, running.                                              *)

NewId(k) == IF tlNextId[k] >= IdLimit THEN 0 ELSE tlNextId[k]

\* What the four functions do.  The id of the structure is written last, for
\* idle sources not at all.
Adds(k, field) ==
  /\ TlApp /\ Len(tlSrc) < MaxSources
  /\ tlSrc' = Append(tlSrc, [kind |-> k, id |-> field, given |-> NewId(k), state |-> "live"])
  /\ _ptr_vector_append(k, Len(tlSrc) + 1)
  /\ tlNextId' = [tlNextId EXCEPT ![k] = NewId(k) + 1]
  /\ tlWrapped' = IF tlNextId[k] >= IdLimit THEN tlWrapped \cup {k} ELSE tlWrapped
  /\ UNCHANGED <<tlCall, tlRunning, tlAsked>>

tiny_add_timeout_callback == Adds("timeout", NewId("timeout"))
tiny_add_periodic_callback == Adds("periodic", NewId("periodic"))
tiny_add_fd_watch == Adds("watch", NewId("watch"))
tiny_add_idle_callback == \E garbage \in {0, 1, IdLimit} : Adds("idle", garbage)

\* Mutant: the structures found are freed and stay in the vector.
CleanupKeepsEntries(k, id, by, fired) ==
  /\ tlSrc' = [n \in Sources |->
       IF n \in InVector(k) /\ tlSrc[n].state = "live" /\ IdRead(n) = id
       THEN [tlSrc[n] EXCEPT !.state = "removed"] ELSE tlSrc[n]]
  /\ UNCHANGED <<tlVec, tlCap>>

\* timeout_cleanup, periodic_cleanup, watch_cleanup and idle_cleanup: every
\* element with the id is stopped, freed and taken out, from the last to the
\* first, and those behind it move up: pos says where each that stays was.
\* The structure "fired" was cleared and freed just before.  "by" is the
\* source the caller means.
cleanup(k, id, by, fired) ==
  LET Reads(n) == IF n = fired THEN 0 ELSE IdRead(n)
      stay == {i \in DOMAIN tlVec[k] : Reads(tlVec[k][i]) # id}
  IN  /\ tlSrc' = [n \in Sources |->
           IF n = fired THEN [tlSrc[n] EXCEPT !.state = "fired"]
           ELSE IF n \in InVector(k) /\ tlSrc[n].state = "live" /\ Reads(n) = id
           THEN [tlSrc[n] EXCEPT !.state = IF n = by THEN "removed" ELSE "lost"]
           ELSE tlSrc[n]]
      /\ \E len \in 0..Len(tlVec[k]) : \E pos \in [1..len -> stay] :
           /\ \A i, j \in 1..len : i < j => pos[i] < pos[j]
           /\ \A p \in stay : \E i \in 1..len : pos[i] = p
           /\ tlVec' = [tlVec EXCEPT ![k] = [i \in 1..len |-> tlVec[k][pos[i]]]]
           /\ _vector_del(k, len)

\* os_remove_*_callback and os_remove_fd_watch, for a source added before.
tiny_remove(n) ==
  /\ TlApp /\ n \in Sources /\ n \notin tlAsked
  /\ tlSrc[n].state = "live"
  /\ cleanup(tlSrc[n].kind, tlSrc[n].given, n, 0)
  /\ tlAsked' = tlAsked \cup {n}
  /\ UNCHANGED <<tlNextId, tlWrapped, tlCall, tlRunning, tlFault>>

tiny_loop_run ==
  /\ ~tlFault /\ ~tlRunning /\ TlLive # {}
  /\ tlRunning' = TRUE
  /\ UNCHANGED <<tlSrc, tlVec, tlCap, tlNextId, tlWrapped, tlCall, tlAsked, tlFault>>

\* uv_run returns when no source is active.
RunEnds ==
  /\ ~tlFault /\ tlRunning /\ tlCall = 0 /\ TlLive = {}
  /\ tlRunning' = FALSE
  /\ UNCHANGED <<tlSrc, tlVec, tlCap, tlNextId, tlWrapped, tlCall, tlAsked, tlFault>>

\* uv_loop_close refuses a loop with handles, and the default loop is taken
\* again by the next call: nothing that runs is ended.
tiny_loop_quit == TlApp /\ UNCHANGED tlVars

-----------------------------------------------------------------------------
(* Callbacks.                                                              *)

\* libuv reports a source that is due.
Reports(n) ==
  /\ ~tlFault /\ tlRunning /\ tlCall = 0 /\ n \in TlLive
  /\ tlCall' = n
  /\ UNCHANGED <<tlSrc, tlVec, tlCap, tlNextId, tlWrapped, tlRunning, tlAsked, tlFault>>

\* The callback keeps its source: a structure that it removed is not read.
Stays ==
  /\ ~tlFault /\ tlCall # 0 /\ tlSrc[tlCall].kind # "timeout"
  /\ tlCall' = 0
  /\ UNCHANGED <<tlSrc, tlVec, tlCap, tlNextId, tlWrapped, tlRunning, tlAsked, tlFault>>

\* The source is stopped, cleared, freed and looked for by the id it reads as
\* now; one that the callback has removed has no handle left to stop.
Ends(k) ==
  /\ ~tlFault /\ tlCall # 0 /\ tlSrc[tlCall].kind = k
  /\ IF tlSrc[tlCall].state = "live"
     THEN cleanup(k, 0, 0, tlCall) /\ tlCall' = 0 /\ UNCHANGED tlFault
     ELSE tlFault' = TRUE /\ UNCHANGED <<tlSrc, tlVec, tlCap, tlCall>>
  /\ UNCHANGED <<tlNextId, tlWrapped, tlRunning, tlAsked>>

_timeout_callback == Ends("timeout")
_periodic_callback == Ends("periodic")
_watch_callback == Ends("watch")
_idle_callback == Ends("idle")

TlNext ==
  \/ tiny_add_timeout_callback \/ tiny_add_periodic_callback \/ tiny_add_fd_watch \/ tiny_add_idle_callback
  \/ \E n \in Sources : tiny_remove(n) \/ Reports(n)
  \/ tiny_loop_run \/ RunEnds \/ tiny_loop_quit
  \/ Stays \/ _timeout_callback \/ _periodic_callback \/ _watch_callback \/ _idle_callback

TlSpec == TlInit /\ [][TlNext]_tlVars

-----------------------------------------------------------------------------
(* Properties.                                                             *)

\* Ids are below the limit, a callback is one of a source.
TlTypeOK ==
  /\ \A n \in Sources : /\ tlSrc[n].kind \in TlKinds /\ tlSrc[n].given \in 0..(IdLimit - 1)
                        /\ tlSrc[n].kind # "idle" => tlSrc[n].id = tlSrc[n].given
  /\ tlNextId \in [TlKinds -> 0..IdLimit]
  /\ tlCall \in 0..Len(tlSrc) /\ tlRunning \in BOOLEAN /\ tlFault \in BOOLEAN

\* Memory is used after it is freed, or the vector written outside its room,
\* only where a source that ends had been removed in its own callback, by its
\* id or as one that reads the same, or where a kind has as many sources as a
\* uint16_t counts: no source is ended twice.
TlFaultHasCause ==
  tlFault => \/ tlCall # 0 /\ tlSrc[tlCall].state \in {"removed", "lost"}
             \/ \E k \in TlKinds : Len(tlVec[k]) = UshrtMax

\* The vector of a kind points to its live sources, once each, although the
\* callbacks free a structure before they look for it: the id they look for
\* is read from the freed structure, and so is the one it is compared with.
VectorIsLive ==
  ~tlFault => \A k \in TlKinds :
    /\ InVector(k) = {n \in TlLive : tlSrc[n].kind = k}
    /\ \A i, j \in DOMAIN tlVec[k] : tlVec[k][i] = tlVec[k][j] => i = j

\* The memory of a vector has room for its elements, and no more than the
\* next power of two, through every growing and shrinking.
VectorFits ==
  ~tlFault => \A k \in TlKinds : Len(tlVec[k]) <= tlCap[k] /\ tlCap[k] = align_power2(Len(tlVec[k]))

\* A source is taken off the loop without the application's asking only where
\* its structure reads the id 0, which every source that ends looks for, or
\* ids were given out a second time, or it is an idle source, whose structure
\* has none.
LostHasCause ==
  \A n \in Sources : tlSrc[n].state = "lost" =>
    tlSrc[n].id = 0 \/ tlSrc[n].kind \in tlWrapped \cup {"idle"}

\* A source the application removed is off the loop, except an idle source.
RemovedIsGone == \A n \in tlAsked : tlSrc[n].state # "live" \/ tlSrc[n].kind = "idle"

\* The vectors hold live sources, fit their memory as they grow, and a removal
\* takes the source it names; a source is lost or a structure used after its
\* end only in the ways the parts name (tinyara_loop.c).
TinyLoopSound ==
  /\ TlTypeOK /\ TlFaultHasCause /\ VectorIsLive /\ VectorFits /\ LostHasCause
  /\ RemovedIsGone

=============================================================================
