------------------------------- MODULE Media -------------------------------
(***************************************************************************)
(* media (linux_media.c): one sound at a time, played by an element of     *)
(* GStreamer whose bus is watched from the main loop.  GStreamer is        *)
(* external: an element that plays posts one end of stream, or an error    *)
(* and nothing more, and one that is stopped posts nothing.                *)
(***************************************************************************)
EXTENDS Integers

CONSTANT MaxSounds  \* sounds started in a behaviour

ASSUME MediaAssumption == MaxSounds \in Nat

VARIABLES
  mdData,     \* "none" for NULL, or the callback of the sound that is held
  mdPlayer,   \* what the element of this sound does
  mdSounds,   \* sounds started
  mdBus,      \* messages on the buses that are watched: kind and sound
  mdIn,       \* the finished callback of a sound runs
  mdTold,     \* how often the end of each sound was reported
  mdWanted,   \* sounds with a callback set
  mdFailed,   \* sounds that ended with an error
  mdFault     \* freed data was used

mdVars == <<mdData, mdPlayer, mdSounds, mdBus, mdIn, mdTold, mdWanted, mdFailed, mdFault>>

MdInit ==
  /\ mdData = "none" /\ mdPlayer = "none" /\ mdSounds = 0 /\ mdBus = {} /\ mdIn = FALSE
  /\ mdTold = [s \in 1..MaxSounds |-> 0] /\ mdWanted = {} /\ mdFailed = {} /\ mdFault = FALSE

\* A missing file and a sound that is held refuse the call; an element that
\* cannot be made or started leaves nothing but a watch.
os_play_sound_file ==
  /\ mdData = "none" /\ mdSounds < MaxSounds
  /\ mdSounds' = mdSounds + 1
  /\ \/ mdData' = "silent" /\ mdPlayer' = "playing"
     \/ UNCHANGED <<mdData, mdPlayer>>
  /\ UNCHANGED <<mdBus, mdIn, mdTold, mdWanted, mdFailed, mdFault>>

\* The callback is that of the sound that is held: it has to be set again for
\* the next one, and after the start.
os_set_finished_callback ==
  /\ mdData # "none"
  /\ \/ mdData' = "told" /\ mdWanted' = mdWanted \cup {mdSounds}
     \/ mdData' = "silent" /\ mdWanted' = mdWanted \ {mdSounds}
  /\ UNCHANGED <<mdPlayer, mdSounds, mdBus, mdIn, mdTold, mdFailed, mdFault>>

GstEnds ==
  /\ mdPlayer = "playing"
  /\ mdPlayer' = "over"
  /\ \/ mdBus' = mdBus \cup {[kind |-> "eos", sound |-> mdSounds]} /\ UNCHANGED mdFailed
     \/ /\ mdBus' = mdBus \cup {[kind |-> "error", sound |-> mdSounds]}
        /\ mdFailed' = mdFailed \cup {mdSounds}
  /\ UNCHANGED <<mdData, mdSounds, mdIn, mdTold, mdWanted, mdFault>>

\* Mutant: the message stays on the bus and is handled again.
ReportsAgain(m) ==
  /\ m \in mdBus /\ ~mdIn
  /\ mdBus' = mdBus
  /\ mdIn' = (mdData = "told")
  /\ mdTold' = IF mdData = "told" THEN [mdTold EXCEPT ![m.sound] = @ + 1] ELSE mdTold
  /\ UNCHANGED <<mdData, mdPlayer, mdSounds, mdWanted, mdFailed, mdFault>>

\* An error is dropped: the data stays, and with it the element.  The end of
\* the stream stops the element and calls the callback, the data still held.
handle_message(m) ==
  /\ m \in mdBus /\ ~mdIn
  /\ mdBus' = mdBus \ {m}
  /\ IF m.kind = "error" \/ mdData = "none"
     THEN UNCHANGED <<mdData, mdPlayer, mdIn, mdTold>>
     ELSE IF mdData = "told"
     THEN mdIn' = TRUE /\ mdTold' = [mdTold EXCEPT ![m.sound] = @ + 1] /\ UNCHANGED <<mdData, mdPlayer>>
     ELSE mdData' = "none" /\ mdPlayer' = "none" /\ UNCHANGED <<mdIn, mdTold>>
  /\ UNCHANGED <<mdSounds, mdWanted, mdFailed, mdFault>>

\* The callback is back, and the data freed.
FinishedReturns ==
  /\ mdIn
  /\ mdIn' = FALSE
  /\ mdData' = "none" /\ mdPlayer' = "none"
  /\ mdFault' = (mdData = "none")
  /\ UNCHANGED <<mdSounds, mdBus, mdTold, mdWanted, mdFailed>>

MdNext ==
  \/ os_play_sound_file \/ os_set_finished_callback \/ GstEnds
  \/ (\E m \in mdBus : handle_message(m)) \/ FinishedReturns

MdSpec == MdInit /\ [][MdNext]_mdVars

\* GStreamer comes to the end of a sound, and the main loop dispatches.
MdFairness == WF_mdVars(GstEnds) /\ WF_mdVars((\E m \in mdBus : handle_message(m)) \/ FinishedReturns)

\* The state of the element goes with the data that holds it.
MdTypeOK ==
  /\ mdData \in {"none", "silent", "told"} /\ mdPlayer \in {"none", "playing", "over"}
  /\ (mdData = "none") = (mdPlayer = "none")
  /\ \A m \in mdBus : m.sound = mdSounds
  /\ ~mdFault

\* The end of a sound is reported at most once, and of one that failed never.
ToldOnce == \A s \in 1..MaxSounds : mdTold[s] <= IF s \in mdFailed THEN 0 ELSE 1

\* A sound that is started ends and leaves the module ready for the next one,
\* unless it ends with an error: after that the module stays busy.
SoundEnds == (mdPlayer = "playing") ~> (mdData = "none" \/ mdSounds \in mdFailed)

\* The one sound that plays has its element and data, and its end is reported
\* once (linux_media.c).
MediaSound ==
  /\ MdTypeOK /\ ToldOnce

=============================================================================
