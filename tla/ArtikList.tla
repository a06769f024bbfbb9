------------------------------ MODULE ArtikList ------------------------------
(***************************************************************************)
(* The generic list of src/inc/base/artik_list.h, which most modules keep  *)
(* their handles in, at the level of its pointers: nodes are allocated,    *)
(* linked, unlinked and freed.  Each function runs to its end, a loop over *)
(* the list is the number of links it follows.                             *)
(*                                                                         *)
(* A second head holds what artik_list_cpy makes of the list.  What memory *)
(* holds after free is not defined; the model clears it, which nothing     *)
(* observes as long as NothingDangles holds.                               *)
(***************************************************************************)
EXTENDS Naturals, Sequences, FiniteSets

CONSTANTS Nodes,     \* addresses malloc can return
          NULL,      \* the null pointer
          Handles    \* handles the callers pass; a node's own address for 0

ASSUME ListAssumption ==
    /\ IsFiniteSet(Nodes)
    /\ NULL \notin Nodes
    /\ NULL \notin Handles

VARIABLES list,      \* head of the list
          dest,      \* head of its copy
          next,      \* the next field of every node
          handle,    \* the handle field of every node
          alive      \* nodes allocated and not freed

alVars == <<list, dest, next, handle, alive>>

Pointers == Nodes \cup {NULL}

Lengths == 0..(Cardinality(Nodes) + 1)

\* Where a loop that starts at head is after n steps of elem = elem->next.
At(head, n) ==
    LET at[k \in 0..n] ==
          IF k = 0 THEN head
          ELSE IF at[k - 1] = NULL THEN NULL ELSE next[at[k - 1]]
    IN  at[n]

\* "while (elem && !test) elem = elem->next", for the nodes S that pass.
Steps(head, S) ==
    CHOOSE n \in Lengths :
        /\ At(head, n) \in S \cup {NULL}
        /\ \A k \in 0..(n - 1) : At(head, k) \notin S \cup {NULL}

Found(head, S) == At(head, Steps(head, S))

Reached(head) == {At(head, n) : n \in Lengths} \ {NULL}

AlInit ==
    /\ list = NULL
    /\ dest = NULL
    /\ next = [n \in Nodes |-> NULL]
    /\ handle = [n \in Nodes |-> n]
    /\ alive = {}

-----------------------------------------------------------------------------
(***************************************************************************)
(* Queries                                                                 *)
(***************************************************************************)
artik_list_size(head) == Steps(head, {})

artik_list_end(head) ==
    IF head = NULL THEN NULL ELSE Found(head, {n \in Nodes : next[n] = NULL})

artik_list_get_by_handle(head, h) == Found(head, {n \in Nodes : handle[n] = h})

artik_list_get_by_pos(head, pos) ==
    IF pos >= artik_list_size(head) THEN NULL ELSE At(head, pos)

artik_list_get_by_check(head, S) == Found(head, S)

-----------------------------------------------------------------------------
(***************************************************************************)
(* Adding.  malloc may return any address that is not in use, or fail.     *)
(***************************************************************************)

\* free(elem) for every node of F, after the links of the rest were set to l.
Free(F, l) ==
    /\ alive' = alive \ F
    /\ next' = [n \in Nodes |-> IF n \in F THEN NULL ELSE l[n]]
    /\ handle' = [n \in Nodes |-> IF n \in F THEN n ELSE handle[n]]

\* Mutant of artik_list_add: the new node becomes the head.
AddPrepends(h) ==
    \E n \in Nodes \ alive :
        /\ alive' = alive \cup {n}
        /\ handle' = [handle EXCEPT ![n] = IF h = NULL THEN n ELSE h]
        /\ next' = [next EXCEPT ![n] = list]
        /\ list' = n
        /\ UNCHANGED dest

artik_list_add(h) ==
    \E n \in Nodes \ alive :
        LET last == artik_list_end(list) IN
        /\ alive' = alive \cup {n}
        /\ handle' = [handle EXCEPT ![n] = IF h = NULL THEN n ELSE h]
        /\ next' = IF last = NULL THEN [next EXCEPT ![n] = NULL]
                   ELSE [next EXCEPT ![n] = NULL, ![last] = n]
        /\ list' = IF last = NULL THEN n ELSE list
        /\ UNCHANGED dest

-----------------------------------------------------------------------------
(***************************************************************************)
(* Deleting.  The four functions differ in the node their loop stops at.   *)
(***************************************************************************)

\* Mutant of Unlink: the rest of the list goes with the node.
UnlinkDropsRest(k) ==
    LET elem == At(list, k) IN
    /\ Free({elem}, IF k = 0 THEN next
                    ELSE [next EXCEPT ![At(list, k - 1)] = NULL])
    /\ list' = IF elem = list THEN NULL ELSE list
    /\ UNCHANGED dest

\* The node after k links is unlinked, cleared and freed.
Unlink(k) ==
    LET elem == At(list, k) IN
    /\ Free({elem}, IF k = 0 THEN next
                    ELSE [next EXCEPT ![At(list, k - 1)] = next[elem]])
    /\ list' = IF elem = list THEN next[elem] ELSE list
    /\ UNCHANGED dest

DeleteWhere(S) ==
    LET k == Steps(list, S) IN
    /\ At(list, k) # NULL
    /\ Unlink(k)

artik_list_delete_node(n) == DeleteWhere({n})

artik_list_delete_handle(h) == DeleteWhere({n \in Nodes : handle[n] = h})

artik_list_delete_check(S) == DeleteWhere(S)

artik_list_delete_pos(pos) ==
    /\ pos < artik_list_size(list)
    /\ Unlink(pos)

artik_list_delete_all ==
    /\ list # NULL
    /\ Free(Reached(list), next)
    /\ list' = NULL
    /\ UNCHANGED dest

-----------------------------------------------------------------------------
(***************************************************************************)
(* artik_list_cpy: the first node is allocated unless dest has one, and    *)
(* memcpy gives it the original's next pointer; the loop then finds *res   *)
(* not NULL and copies every further node onto itself.                     *)
(***************************************************************************)
artik_list_cpy ==
    /\ list # NULL
    /\ \E n \in IF dest = NULL THEN Nodes \ alive ELSE {dest} :
         /\ alive' = alive \cup {n}
         /\ next' = [next EXCEPT ![n] = next[list]]
         /\ handle' = [handle EXCEPT ![n] = handle[list]]
         /\ dest' = n
    /\ UNCHANGED list

AlNext ==
    \/ \E h \in Handles \cup {NULL} : artik_list_add(h)
    \/ \E n \in Nodes : artik_list_delete_node(n)
    \/ \E h \in Handles \cup Nodes : artik_list_delete_handle(h)
    \/ \E S \in SUBSET Nodes : artik_list_delete_check(S)
    \/ \E pos \in Lengths : artik_list_delete_pos(pos)
    \/ artik_list_delete_all
    \/ artik_list_cpy

AlSpec == AlInit /\ [][AlNext]_alVars

-----------------------------------------------------------------------------
\* The type invariant.
AlTypeOK ==
    /\ list \in Pointers /\ dest \in Pointers
    /\ next \in [Nodes -> Pointers]
    /\ handle \in [Nodes -> Nodes \cup Handles]
    /\ alive \subseteq Nodes

\* The list ends, and no node it leads to has been freed.
NothingDangles ==
    /\ \E n \in Lengths : At(list, n) = NULL
    /\ Reached(list) \subseteq alive

\* Every allocated node is still in the list, but for the copy's own node.
NothingIsLost == alive \subseteq Reached(list) \cup {dest}

\* What the pointers spell out.
Content == [k \in 1..artik_list_size(list) |->
              [node |-> At(list, k - 1), handle |-> handle[At(list, k - 1)]]]

\* The queries answer what a search of the sequence would.
QueriesAgree ==
    LET s == Content
        FirstIn(I) == IF I = {} THEN NULL
                      ELSE s[CHOOSE i \in I : \A j \in I : i <= j].node
    IN  /\ artik_list_end(list) = IF s = <<>> THEN NULL ELSE s[Len(s)].node
        /\ \A pos \in Lengths :
             artik_list_get_by_pos(list, pos) =
               IF pos < Len(s) THEN s[pos + 1].node ELSE NULL
        /\ \A h \in Handles \cup Nodes :
             artik_list_get_by_handle(list, h) =
               FirstIn({i \in DOMAIN s : s[i].handle = h})
        /\ \A S \in SUBSET Nodes :
             artik_list_get_by_check(list, S) =
               FirstIn({i \in DOMAIN s : s[i].node \in S})

\* The pointer surgery implements the sequence: an element is added at the
\* end, a deletion takes one element out and leaves all others where they
\* were, in order.
Sequence == INSTANCE SeqList WITH seq <- Content, Handles <- Handles \cup Nodes

SequenceSpec == Sequence!Spec

\* After any sequence of additions and deletions no link dangles, no allocated
\* node is out of reach, and the queries answer for the sequence the list
\* stands for (artik_list.h).
ListSound ==
  /\ AlTypeOK /\ NothingDangles /\ NothingIsLost /\ QueriesAgree

=============================================================================
