------------------------------- MODULE BtObex -------------------------------
(***************************************************************************)
(* bluetooth: the file transfer client (ftp.c and the obex part of         *)
(* core.c).  session_path and transfer_property follow signals of obexd;   *)
(* suspend, resume and cancel are sent without waiting and ftp_state is    *)
(* set when they are sent and again when their replies are dispatched.     *)
(* Signals and replies of obexd reach the main loop in the order obexd     *)
(* sent them.  obexd itself is started and stopped with popen.             *)
(***************************************************************************)
EXTENDS Integers, Sequences

CONSTANTS
  MaxTransfers,   \* transfers that are begun
  MaxFtpCalls,    \* calls that are sent without waiting
  MaxSessions     \* times a session is asked for

ASSUME ObexAssumption == MaxTransfers \in Nat /\ MaxFtpCalls \in Nat /\ MaxSessions \in Nat

VARIABLES
  session,      \* session_path, 0 when empty
  transfer,     \* transfer_property.object_path, 0 when NULL
  ftpState, ftpReq,
  ftpCalls,     \* calls on their way to obexd
  stream,       \* obexd_start_stream: none (NULL) or open
  isUsed,       \* obexed_is_used
  daemon,       \* obexd: running, sessions, transfer, its session, suspended
  events,       \* what the main loop has to dispatch
  counts,       \* sessions, transfers and calls so far
  popenFailed, streamFault

obexVars == <<session, transfer, ftpState, ftpReq, ftpCalls, stream, isUsed,
              daemon, events, counts, popenFailed, streamFault>>

Dead == [up |-> FALSE, sessions |-> {}, active |-> 0, owner |-> 0, suspended |-> FALSE]

NoTransfer(d) == [d EXCEPT !.active = 0, !.owner = 0, !.suspended = FALSE]

ObexInit ==
  /\ session = 0
  /\ transfer = 0
  /\ ftpState = "END" /\ ftpReq = "END"
  /\ ftpCalls = <<>>
  /\ stream = "none" /\ isUsed = FALSE
  /\ daemon \in {Dead, [Dead EXCEPT !.up = TRUE]}
  /\ events = <<>>
  /\ counts = [sessions |-> 0, transfers |-> 0, calls |-> 0]
  /\ popenFailed = FALSE /\ streamFault = FALSE

Count(what, max) == counts[what] < max /\ counts' = [counts EXCEPT ![what] = @ + 1]

-----------------------------------------------------------------------------
(* Sessions.                                                               *)

\* The stream is forgotten before the check whether obexd runs, which may
\* itself fail; obexd is started only when it does not run.
_call_exe(ok) ==
  /\ popenFailed' = (popenFailed \/ ~ok)
  /\ \/ ~ok /\ stream' = "none" /\ UNCHANGED <<isUsed, daemon>>
     \/ /\ ok /\ daemon.up
        /\ isUsed' = TRUE /\ stream' = "none" /\ UNCHANGED daemon
     \/ /\ ok /\ ~daemon.up
        /\ isUsed' = FALSE /\ stream' = "open" /\ daemon' = [Dead EXCEPT !.up = TRUE]

bt_ftp_create_session(ok) ==
  /\ Count("sessions", MaxSessions)
  /\ _call_exe(ok)
  /\ ftpCalls' = IF ok THEN Append(ftpCalls, <<"CreateSession", counts'.sessions>>) ELSE ftpCalls
  /\ UNCHANGED <<session, transfer, ftpState, ftpReq, events, streamFault>>

\* A session ends, with its transfer, and what obexd emits then.
Without(n) == [(IF daemon.owner = n THEN NoTransfer(daemon) ELSE daemon) EXCEPT !.sessions = @ \ {n}]

SessionEnds(n) == (IF daemon.owner = n THEN <<<<"removed", daemon.active>>>> ELSE <<>>)
                  \o <<<<"session", 0>>>>

\* Both streams are closed; closing NULL is a fault.
_destroy_exe ==
  IF isUsed THEN daemon' = Without(session) /\ UNCHANGED <<stream, streamFault>>
  ELSE /\ daemon' = Dead
       /\ streamFault' = (stream = "none")
       /\ stream' = "none"

\* Calls of a daemon that is stopped are answered by the bus, with errors.
Unanswered == [i \in DOMAIN ftpCalls |-> <<"reply", ftpCalls[i][1], FALSE>>]

\* E_NOT_INITIALIZED without a session; obexd refuses one it does not have.
bt_ftp_remove_session ==
  /\ session # 0
  /\ session \in daemon.sessions
  /\ _destroy_exe
  /\ events' = events \o SessionEnds(session) \o (IF isUsed THEN <<>> ELSE Unanswered)
  /\ ftpCalls' = IF isUsed THEN ftpCalls ELSE <<>>
  /\ UNCHANGED <<session, transfer, ftpState, ftpReq, isUsed, counts, popenFailed>>

-----------------------------------------------------------------------------
(* Transfers.                                                              *)

_check_status == session # 0 /\ ftpState # "CANCELING"

\* get_file and put_file wait for obexd's answer.  The signal that the
\* transfer was added comes before the answer and is dispatched after it.
StartTransfer(req) ==
  /\ _check_status
  /\ transfer = 0
  /\ session \in daemon.sessions /\ daemon.active = 0
  /\ Count("transfers", MaxTransfers)
  /\ daemon' = [daemon EXCEPT !.active = counts.transfers + 1, !.owner = session, !.suspended = FALSE]
  /\ events' = Append(events, <<"added", counts.transfers + 1>>)
  /\ transfer' = counts.transfers + 1
  /\ ftpReq' = req
  /\ UNCHANGED <<session, ftpState, ftpCalls, stream, isUsed, popenFailed, streamFault>>

bt_ftp_get_file == StartTransfer("GET")
bt_ftp_put_file == StartTransfer("PUT")

SendFtp(method, state) ==
  /\ _check_status
  /\ transfer # 0
  /\ Count("calls", MaxFtpCalls)
  /\ ftpCalls' = Append(ftpCalls, <<method, transfer>>)
  /\ ftpState' = state
  /\ UNCHANGED <<session, transfer, ftpReq, stream, isUsed, daemon, events, popenFailed, streamFault>>

bt_ftp_resume_transfer == SendFtp("Resume", "RESUMING")
bt_ftp_suspend_transfer == SendFtp("Suspend", "SUSPENDING")

\* A suspended upload is resumed first, and cancelled by the reply.
bt_ftp_cancel_transfer ==
  SendFtp(IF ftpReq = "PUT" /\ ftpState = "SUSPENDED" THEN "Resume" ELSE "Cancel", "CANCELING")

-----------------------------------------------------------------------------
(* obexd.                                                                  *)

\* The transfer ends, well or badly.
TransferEnds ==
  /\ daemon.active # 0 /\ ~daemon.suspended
  /\ daemon' = NoTransfer(daemon)
  /\ events' = events \o <<<<"done", daemon.active>>, <<"removed", daemon.active>>>>
  /\ UNCHANGED <<session, transfer, ftpState, ftpReq, ftpCalls, stream, isUsed, counts, popenFailed, streamFault>>

\* The remote side ends a session.
SessionDrops(n) ==
  /\ n \in daemon.sessions
  /\ daemon' = Without(n)
  /\ events' = events \o SessionEnds(n)
  /\ UNCHANGED <<session, transfer, ftpState, ftpReq, ftpCalls, stream, isUsed, counts, popenFailed, streamFault>>

\* The next call is answered.
ObexdAnswers(ok) ==
  LET method == Head(ftpCalls)[1]
      on == daemon.active # 0 /\ Head(ftpCalls)[2] = daemon.active
      reply == <<<<"reply", method, ok>>>>
  IN /\ ftpCalls # <<>>
     /\ ftpCalls' = Tail(ftpCalls)
     /\ ok => daemon.up /\ (method # "CreateSession" => on)
     /\ \/ ~ok /\ daemon' = daemon /\ events' = events \o reply
        \/ /\ ok /\ method = "CreateSession"
           /\ daemon' = [daemon EXCEPT !.sessions = @ \cup {Head(ftpCalls)[2]}]
           /\ events' = events \o <<<<"session", Head(ftpCalls)[2]>>>> \o reply
        \/ /\ ok /\ method \in {"Suspend", "Resume"}
           /\ daemon' = [daemon EXCEPT !.suspended = method = "Suspend"]
           /\ events' = events \o reply
        \/ /\ ok /\ method = "Cancel"
           /\ daemon' = NoTransfer(daemon)
           /\ events' = events \o reply \o <<<<"removed", daemon.active>>>>
     /\ UNCHANGED <<session, transfer, ftpState, ftpReq, stream, isUsed, counts, popenFailed, streamFault>>

-----------------------------------------------------------------------------
(* The main loop.                                                          *)

ObexAdded(e) ==
  \/ /\ e[1] = "session" /\ e[2] # 0
     /\ session' = e[2]
     /\ UNCHANGED <<transfer, ftpState, ftpReq, ftpCalls>>
  \/ /\ e[1] = "added"
     /\ transfer' = e[2]
     /\ UNCHANGED <<session, ftpState, ftpReq, ftpCalls>>

\* _on_interface_removed: whichever transfer it is.
ObexRemoved(e) ==
  \/ /\ e[1] = "session" /\ e[2] = 0
     /\ session' = 0
     /\ UNCHANGED <<transfer, ftpState, ftpReq, ftpCalls>>
  \/ /\ e[1] = "removed"
     /\ transfer' = 0
     /\ UNCHANGED <<session, ftpState, ftpReq, ftpCalls>>

_obex_properties_changed(e) ==
  /\ e[1] = "done"
  /\ transfer' = IF transfer = e[2] THEN 0 ELSE transfer
  /\ UNCHANGED <<session, ftpState, ftpReq, ftpCalls>>

_ftp_cancel_callback(ok) ==
  /\ ftpState' = IF ok THEN "CANCELED" ELSE "ERROR"
  /\ ftpReq' = IF ok THEN "END" ELSE ftpReq
  /\ UNCHANGED ftpCalls

\* Mutant: the state is taken for resumed, whatever was asked for.
ResumeForgetsCancel(ok) ==
  /\ ftpState' = IF ~ok THEN "ERROR" ELSE IF ftpState = "CANCELING" THEN ftpState ELSE "RESUMED"
  /\ UNCHANGED <<ftpReq, ftpCalls>>

\* Nothing is sent to a transfer that is gone.
_ftp_resume_callback(ok) ==
  IF ok /\ ftpReq = "PUT" /\ ftpState = "CANCELING"
  THEN /\ ftpCalls' = IF transfer = 0 THEN ftpCalls ELSE Append(ftpCalls, <<"Cancel", transfer>>)
       /\ UNCHANGED <<ftpState, ftpReq>>
  ELSE ftpState' = (IF ok THEN "RESUMED" ELSE "ERROR") /\ UNCHANGED <<ftpReq, ftpCalls>>

_ftp_suspend_callback(ok) ==
  /\ ftpState' = IF ok THEN "SUSPENDED" ELSE "ERROR"
  /\ UNCHANGED <<ftpReq, ftpCalls>>

FtpReply(e) ==
  /\ e[1] = "reply"
  /\ \/ e[2] = "Cancel" /\ _ftp_cancel_callback(e[3])
     \/ e[2] = "Resume" /\ _ftp_resume_callback(e[3])
     \/ e[2] = "Suspend" /\ _ftp_suspend_callback(e[3])
     \/ e[2] = "CreateSession" /\ UNCHANGED <<ftpState, ftpReq, ftpCalls>>
  /\ UNCHANGED <<session, transfer>>

ObexDispatch ==
  /\ events # <<>>
  /\ events' = Tail(events)
  /\ \/ ObexAdded(Head(events)) \/ ObexRemoved(Head(events))
     \/ _obex_properties_changed(Head(events)) \/ FtpReply(Head(events))
  /\ UNCHANGED <<stream, isUsed, daemon, counts, popenFailed, streamFault>>

-----------------------------------------------------------------------------
artik_bluetooth_ftp ==
  \/ \E ok \in BOOLEAN : bt_ftp_create_session(ok)
  \/ bt_ftp_remove_session
  \/ bt_ftp_get_file \/ bt_ftp_put_file
  \/ bt_ftp_resume_transfer \/ bt_ftp_suspend_transfer \/ bt_ftp_cancel_transfer

ObexNext ==
  /\ ~streamFault
  /\ \/ artik_bluetooth_ftp
     \/ TransferEnds
     \/ \E n \in daemon.sessions : SessionDrops(n)
     \/ \E ok \in BOOLEAN : ObexdAnswers(ok)
     \/ ObexDispatch

\* obexd, or the bus in its place, answers; the main loop runs.
ObexFairness ==
  /\ WF_obexVars(~streamFault /\ \E ok \in BOOLEAN : ObexdAnswers(ok))
  /\ WF_obexVars(~streamFault /\ ObexDispatch)

ObexSpec == ObexInit /\ [][ObexNext]_obexVars /\ ObexFairness

-----------------------------------------------------------------------------
(* The kinds of the variables.                                             *)
ObexTypeOK ==
  /\ session \in 0..counts.sessions /\ transfer \in 0..counts.transfers
  /\ ftpState \in {"END", "RESUMING", "RESUMED", "SUSPENDING", "SUSPENDED",
                   "CANCELING", "CANCELED", "ERROR"}
  /\ ftpReq \in {"END", "GET", "PUT"}
  /\ stream \in {"none", "open"} /\ isUsed \in BOOLEAN
  /\ daemon \in [up : BOOLEAN, sessions : SUBSET (1..counts.sessions), active : 0..counts.transfers,
                owner : 0..counts.sessions, suspended : BOOLEAN]

(* Once every signal has been dispatched the library knows of a transfer   *)
(* exactly when obexd has one, however the end of one transfer and the     *)
(* start of the next overlap; a session it knows of exists, and it knows   *)
(* of one that exists unless it has forgotten it for the end of another.   *)
FollowsObexd ==
  events = <<>> => /\ transfer = daemon.active
                   /\ session \in daemon.sessions \cup {0}
                   /\ counts.sessions = 1 /\ daemon.sessions # {} => session # 0

(* The state that makes every call fail with E_BUSY lasts only while a     *)
(* reply is to come that ends it.                                          *)
CancelHasCall ==
  ftpState = "CANCELING" =>
    \/ \E i \in DOMAIN ftpCalls : ftpCalls[i][1] \in {"Cancel", "Resume"}
    \/ \E i \in DOMAIN events : events[i][1] = "reply" /\ events[i][2] \in {"Cancel", "Resume"}

(* ... and it ends.                                                        *)
CancelEnds == ftpState = "CANCELING" ~> ftpState # "CANCELING" \/ streamFault

(* A stream that is not open is closed only after popen has failed.        *)
StreamClosedOnce == streamFault => popenFailed

\* The path of the transfer is that of obexd's transfer once the signals are
\* handled, a cancelling transfer has a call on its way, and obexd's stream is
\* closed once, but for the overlaps the parts name (ftp.c).
TransfersSound ==
  /\ ObexTypeOK /\ FollowsObexd /\ CancelHasCall /\ StreamClosedOnce

=============================================================================
