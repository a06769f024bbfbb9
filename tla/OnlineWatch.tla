---------------------------- MODULE OnlineWatch ----------------------------
(***************************************************************************)
(* The watch of the online status (linux_network.c, artik_network.c): one  *)
(* netlink socket in the main loop while there are watchers, whose         *)
(* callbacks network_connection calls one after the other when the status  *)
(* it asks a web server for has changed.  Callbacks may add and remove     *)
(* watchers.                                                               *)
(***************************************************************************)
EXTENDS Integers, Sequences, FiniteSets, SequencesExt

CONSTANTS
  MaxWatchers,  \* watchers that are added
  MaxLinks,     \* changes of the network
  NoStatus

ASSUME OnlineWatchAssumption == MaxWatchers \in Nat /\ MaxLinks \in Nat /\ NoStatus \notin BOOLEAN

VARIABLES
  status,    \* watch_online_status: NULL, or the current_online_status
  root,      \* its list of watchers
  fds,       \* netlink sockets: open, and those whose watch is in the loop
  added,     \* watchers so far
  told,      \* what each watcher was told last, or found when it was added
  at,        \* the node network_connection is at, 0 outside of it
  online,    \* whether the web server can be reached
  links, netlink,  \* messages of the kernel, "up" or "down"
  owFault, owCause

onlineVars == <<status, root, fds, added, told, at, online, links, netlink, owFault, owCause>>

OnlineInit ==
  /\ status = NoStatus /\ root = <<>>
  /\ fds = [open |-> 0, watched |-> 0]
  /\ added = 0 /\ told = [w \in 1..MaxWatchers |-> NoStatus] /\ at = 0
  /\ online = TRUE /\ links = 0 /\ netlink = <<>>
  /\ owFault = FALSE /\ owCause = {}

\* The answer of the web server: E_HTTP_ERROR means offline.
artik_get_current_public_ip == online
artik_get_online_status == artik_get_current_public_ip

-----------------------------------------------------------------------------
(* The application, in a callback (at # 0) or outside.                     *)

Attach(w, s) ==
  /\ root' = Append(root, w)
  /\ told' = [told EXCEPT ![w] = s]
  /\ added' = w

\* A step that fails ends the call; the socket is closed by none of them.
initialize_watch_online_status ==
  /\ status = NoStatus
  /\ added < MaxWatchers
  /\ \/ /\ status' = artik_get_online_status
        /\ fds' = [open |-> fds.open + 1, watched |-> fds.watched + 1]
        /\ netlink' = <<>>
        /\ Attach(added + 1, status')
        /\ UNCHANGED owCause
     \/ /\ fds.open < 2
        /\ fds' = [fds EXCEPT !.open = @ + 1]
        /\ owCause' = owCause \cup {"start failed"}
        /\ UNCHANGED <<status, netlink, root, told, added>>
  /\ UNCHANGED <<at, online, links, owFault>>

os_network_add_watch_online_status ==
  \/ initialize_watch_online_status
  \/ /\ status # NoStatus
     /\ added < MaxWatchers
     /\ Attach(added + 1, status)
     /\ UNCHANGED <<status, fds, at, online, links, netlink, owFault, owCause>>

\* artik_list_delete_handle: the node of the watcher leaves the list.
Without(w) == RemoveAt(root, CHOOSE i \in DOMAIN root : root[i] = w)

\* The last one takes the socket and the status with it.
os_network_remove_watch_online_status(w) ==
  /\ status # NoStatus
  /\ w \in ToSet(root)
  /\ root' = Without(w)
  /\ told' = [told EXCEPT ![w] = NoStatus]
  /\ IF root' = <<>>
     THEN status' = NoStatus /\ fds' = [open |-> fds.open - 1, watched |-> fds.watched - 1] /\ netlink' = <<>>
     ELSE UNCHANGED <<status, fds, netlink>>
  /\ owCause' = IF at = w THEN owCause \cup {"removed itself"} ELSE owCause
  /\ UNCHANGED <<added, at, online, links, owFault>>

artik_watch_online_status ==
  \/ os_network_add_watch_online_status
  \/ \E w \in 1..MaxWatchers : os_network_remove_watch_online_status(w)

-----------------------------------------------------------------------------
(* The main loop.                                                          *)

\* The callback of a node is called on the way to it.
Visit(w) == at' = w /\ told' = IF w = 0 THEN told ELSE [told EXCEPT ![w] = status']

\* Mutant: only bad news makes it ask.
AsksWhenDown ==
  /\ at = 0 /\ netlink # <<>> /\ fds.watched > 0
  /\ netlink' = Tail(netlink)
  /\ status' = IF Head(netlink) = "down" /\ status THEN artik_get_online_status ELSE status
  /\ Visit(IF status' # status THEN root[1] ELSE 0)
  /\ UNCHANGED <<root, fds, added, online, links, owFault, owCause>>

\* A message that may mean a change makes it ask for the status; a failure
\* other than of the request itself keeps the status as it was.
network_connection ==
  /\ at = 0 /\ netlink # <<>> /\ fds.watched > 0
  /\ netlink' = Tail(netlink)
  /\ LET check == (Head(netlink) = "up") # status IN
     \/ /\ status' = IF check THEN artik_get_online_status ELSE status
        /\ UNCHANGED owCause
     \/ check /\ UNCHANGED status /\ owCause' = owCause \cup {"check failed"}
  /\ Visit(IF status' # status THEN root[1] ELSE 0)
  /\ UNCHANGED <<root, fds, added, online, links, owFault>>

\* The callback returns: the next node is read from the one it was called for.
NextNode ==
  /\ at # 0
  /\ UNCHANGED status
  /\ IF at \notin ToSet(root)
     THEN owFault' = TRUE /\ UNCHANGED <<at, told>>
     ELSE /\ Visit(LET i == CHOOSE i \in DOMAIN root : root[i] = at
                   IN IF i = Len(root) THEN 0 ELSE root[i + 1])
          /\ UNCHANGED owFault
  /\ UNCHANGED <<root, fds, added, online, links, netlink, owCause>>

\* The network changes and the kernel says so to the socket that is open.
LinkChanges ==
  /\ links < MaxLinks
  /\ links' = links + 1
  /\ online' = ~online
  /\ netlink' = IF status = NoStatus THEN netlink ELSE Append(netlink, IF online' THEN "up" ELSE "down")
  /\ UNCHANGED <<status, root, fds, added, told, at, owFault, owCause>>

-----------------------------------------------------------------------------
OnlineNext ==
  /\ ~owFault
  /\ artik_watch_online_status \/ network_connection \/ NextNode \/ LinkChanges

\* The main loop dispatches the socket, and callbacks return.
OnlineFairness == WF_onlineVars(~owFault /\ network_connection) /\ WF_onlineVars(~owFault /\ NextNode)

OnlineSpec == OnlineInit /\ [][OnlineNext]_onlineVars /\ OnlineFairness

-----------------------------------------------------------------------------
(* The kinds of the variables; the loop watches a socket exactly while     *)
(* there are watchers.                                                     *)
OnlineTypeOK ==
  /\ status \in BOOLEAN \cup {NoStatus}
  /\ root # <<>> <=> status # NoStatus
  /\ fds.watched = IF status = NoStatus THEN 0 ELSE 1
  /\ fds.open >= fds.watched
  /\ at \in 0..MaxWatchers

(* Once the kernel's messages are handled the status is the true one,      *)
(* however messages about changes and changes back wait together; only a   *)
(* failed check leaves it behind.                                          *)
StatusIsTrue ==
  status # NoStatus /\ netlink = <<>> /\ "check failed" \notin owCause => status = online

(* Every watcher, also one that is added or outlives others during the     *)
(* round of callbacks, knows the status once the round is over.            *)
WatchersAgree ==
  at = 0 => \A w \in ToSet(root) : told[w] = status

(* A node that is freed is read only when a callback removes the very      *)
(* watcher it was called for.                                              *)
WalkFaultHasCause == owFault => "removed itself" \in owCause

(* Watchers are told of the status the network has settled on.             *)
Unsettled == \E w \in ToSet(root) : told[w] # online
SettledIsTold == Unsettled ~> ~Unsettled \/ owFault \/ "check failed" \in owCause

\* Once the messages are handled the known status is the true one and all
\* watchers were told the same; the walk meets a freed node only when its own
\* callback removed it (network_connection).
OnlineSound ==
  /\ OnlineTypeOK /\ StatusIsTrue /\ WatchersAgree /\ WalkFaultHasCause

=============================================================================
