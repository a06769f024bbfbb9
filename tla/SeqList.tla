------------------------------- MODULE SeqList -------------------------------
(***************************************************************************)
(* What a list of handles is to its users: a sequence to which elements    *)
(* are added at the end, from which one is taken anywhere, and which can   *)
(* be emptied.  An element is a node and the handle it was added with.     *)
(***************************************************************************)
EXTENDS Naturals, Sequences, SequencesExt

CONSTANTS Nodes, Handles

VARIABLE seq

Init == seq = <<>>

Add(n, h) == /\ \A i \in DOMAIN seq : seq[i].node # n
             /\ seq' = Append(seq, [node |-> n, handle |-> h])

Delete(i) == seq' = RemoveAt(seq, i)

Clear == seq' = <<>>

Next == \/ \E n \in Nodes, h \in Handles : Add(n, h)
        \/ \E i \in DOMAIN seq : Delete(i)
        \/ Clear

Spec == Init /\ [][Next]_seq
=============================================================================
