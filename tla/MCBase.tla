------------------------------- MODULE MCBase -------------------------------
(***************************************************************************)
(* The base library on small instances: the main loops of Linux and of     *)
(* TizenRT, the generic list, and time.  They share no variable, so TLC    *)
(* explores one group at a time.                                           *)
(***************************************************************************)
EXTENDS Loop, ArtikList, TinyLoop, Time

VARIABLE group

CONSTANTS n1, n2, n3, h1

MCNodes == {n1, n2, n3}

MCInit ==
  /\ Init /\ AlInit /\ TlInit /\ TmInit /\ TmDateInit
  /\ group \in {"loop", "list", "tiny_loop", "time", "dates"}

MCNext ==
  /\ \/ group = "loop" /\ Next /\ UNCHANGED <<alVars, tlVars, tmVars, tmPair>>
     \/ group = "list" /\ AlNext /\ UNCHANGED <<vars, tlVars, tmVars, tmPair>>
     \/ group = "tiny_loop" /\ TlNext /\ UNCHANGED <<vars, alVars, tmVars, tmPair>>
     \/ group = "time" /\ TmNext /\ UNCHANGED <<vars, alVars, tlVars, tmPair>>
     \/ group = "dates" /\ TmDateNext /\ UNCHANGED <<vars, alVars, tlVars, tmVars>>
  /\ UNCHANGED group

MCSpec ==
  MCInit /\ [][MCNext]_<<vars, alVars, tlVars, tmVars, tmPair, group>> /\ Fairness

=============================================================================
