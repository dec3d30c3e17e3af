-------------------------------- MODULE Speaker --------------------------------
(***************************************************************************)
(* speaker_device.py and audio_player.py: the MQTT thread handles "speak"  *)
(* and "stop"; each accepted speak has a thread of its own that lets the   *)
(* text be synthesised and plays it with an external program.              *)
(***************************************************************************)
EXTENDS Integers, FiniteSets

CONSTANTS
    Speak,     \* the speak requests
    MaxStops   \* bound: stop requests

Nobody  == "nobody"
Handler == "handler"  \* the MQTT thread

ASSUME SpeakerAssumption == MaxStops \in Nat /\ Nobody \notin Speak /\ Handler \notin Speak

VARIABLES
    speaking,  \* _speaking
    stopFlag,  \* the event _stop_playback
    process,   \* AudioPlayer._process: whose player program, or Nobody
    sound,     \* of each speak: its player program is "none", "playing" or "over"
    pc,        \* of each speak: what its thread does next
    handler,   \* the MQTT thread is "idle", at "start" or at a step of _handle_stop
    doomed,    \* of each thread: the program its stop() is about to terminate, or Nobody
    stops,     \* (history) stop requests
    stuck      \* (history) who set the flag last got no thread

speakerVars == <<speaking, stopFlag, process, sound, pc, handler, doomed, stops, stuck>>

SpeakerInit ==
    /\ speaking = FALSE /\ stopFlag = FALSE /\ process = Nobody
    /\ sound = [s \in Speak |-> "none"] /\ pc = [s \in Speak |-> "new"]
    /\ handler = "idle" /\ stops = 0 /\ stuck = FALSE
    /\ doomed = [t \in Speak \cup {Handler} |-> Nobody]

IsPlaying == process # Nobody /\ sound[process] = "playing"
Step(s, from, to) == pc[s] = from /\ pc' = [pc EXCEPT ![s] = to]

------------------------------------------------------------------------------
(* The MQTT thread.                                                        *)

\* Slip: the flag is set without being tested.
HandleSpeakAlways(s) ==
    /\ handler = "idle" /\ Step(s, "new", "accepted")
    /\ speaking' = TRUE /\ handler' = "start"
    /\ UNCHANGED <<stopFlag, process, sound, doomed, stops, stuck>>

\* speak: refused as busy, or accepted, ...
HandleSpeak(s) ==
    /\ handler = "idle"
    /\ IF speaking THEN Step(s, "new", "refused") /\ UNCHANGED <<speaking, handler>>
       ELSE Step(s, "new", "accepted") /\ speaking' = TRUE /\ handler' = "start"
    /\ UNCHANGED <<stopFlag, process, sound, doomed, stops, stuck>>

\* ... and its thread is started.  A parameter that cannot be read (an infinite
\* volume) or a thread that cannot be started throws: _on_message logs it, and the
\* flag stays as it is.
StartThread(s) ==
    /\ handler = "start" /\ handler' = "idle"
    /\ \/ Step(s, "accepted", "synthesize") /\ UNCHANGED stuck
       \/ Step(s, "accepted", "failed") /\ stuck' = speaking
    /\ UNCHANGED <<speaking, stopFlag, process, sound, doomed, stops>>

\* stop: the event is set, ...
HandleStop ==
    /\ handler = "idle" /\ stops < MaxStops
    /\ stops' = stops + 1 /\ stopFlag' = TRUE /\ handler' = "is_playing"
    /\ UNCHANGED <<speaking, process, sound, pc, doomed, stuck>>

\* ... the player is stopped if it plays, ...
LookAtPlayer ==
    /\ handler = "is_playing"
    /\ handler' = IF IsPlaying THEN "take" ELSE "release"
    /\ UNCHANGED <<speaking, stopFlag, process, sound, pc, doomed, stops, stuck>>

\* AudioPlayer.stop() by thread t: the program is taken, if one still plays, ...
TakePlayer(t) ==
    /\ doomed' = [doomed EXCEPT ![t] = IF IsPlaying THEN process ELSE Nobody]
    /\ process' = Nobody

\* ... and terminated.
TerminatePlayer(t) ==
    /\ sound' = IF doomed[t] = Nobody THEN sound ELSE [sound EXCEPT ![doomed[t]] = "over"]
    /\ doomed' = [doomed EXCEPT ![t] = Nobody]

StopPlayer ==
    \/ /\ handler = "take" /\ handler' = "terminate" /\ TakePlayer(Handler)
       /\ UNCHANGED <<speaking, stopFlag, sound, pc, stops, stuck>>
    \/ /\ handler = "terminate" /\ handler' = "release" /\ TerminatePlayer(Handler)
       /\ UNCHANGED <<speaking, stopFlag, process, pc, stops, stuck>>

\* ... and the device is not busy any more.
ReleaseSpeaker ==
    /\ handler = "release"
    /\ speaking' = FALSE /\ stuck' = FALSE /\ handler' = "idle"
    /\ UNCHANGED <<stopFlag, process, sound, pc, doomed, stops>>

------------------------------------------------------------------------------
(* The thread of a speak.                                                  *)

\* There is no player, or the synthesis fails; else the event is cleared.
Synthesize(s) ==
    /\ \/ Step(s, "synthesize", "finally")
       \/ Step(s, "synthesize", "clear")
    /\ UNCHANGED <<speaking, stopFlag, process, sound, handler, doomed, stops, stuck>>

ClearStop(s) ==
    /\ Step(s, "clear", "play")
    /\ stopFlag' = FALSE
    /\ UNCHANGED <<speaking, process, sound, handler, doomed, stops, stuck>>

\* play(), under the player's lock: an exception if a program plays already.
BeginPlay(s) ==
    /\ IF IsPlaying THEN Step(s, "play", "finally") /\ UNCHANGED process
       ELSE Step(s, "play", "popen") /\ process' = Nobody
    /\ UNCHANGED <<speaking, stopFlag, sound, handler, doomed, stops, stuck>>

\* Under the lock again: the program starts, or cannot be started.
StartPlayer(s) ==
    /\ \/ /\ Step(s, "popen", "wait")
          /\ process' = s /\ sound' = [sound EXCEPT ![s] = "playing"]
       \/ Step(s, "popen", "finally") /\ UNCHANGED <<process, sound>>
    /\ UNCHANGED <<speaking, stopFlag, handler, doomed, stops, stuck>>

\* The wait looks at _process, whoever's it is: none is an exception, one that is
\* over ends the wait, and the event stops the player.
Wait(s) ==
    /\ \/ process = Nobody /\ Step(s, "wait", "finally")
       \/ process # Nobody /\ sound[process] = "over" /\ Step(s, "wait", "reset")
       \/ IsPlaying /\ stopFlag /\ Step(s, "wait", "take")
    /\ UNCHANGED <<speaking, stopFlag, process, sound, handler, doomed, stops, stuck>>

\* _process is forgotten, whoever's it is by now.
ResetPlayer(s) ==
    /\ Step(s, "reset", "finally")
    /\ process' = Nobody
    /\ UNCHANGED <<speaking, stopFlag, sound, handler, doomed, stops, stuck>>

HaltPlayer(s) ==
    \/ /\ Step(s, "take", "terminate") /\ TakePlayer(s)
       /\ UNCHANGED <<speaking, stopFlag, sound, handler, stops, stuck>>
    \/ /\ Step(s, "terminate", "finally") /\ TerminatePlayer(s)
       /\ UNCHANGED <<speaking, stopFlag, process, handler, stops, stuck>>

\* Slip: the flag is cleared only after a playback.
FinallyPlayed(s) ==
    /\ Step(s, "finally", "done")
    /\ speaking' = IF sound[s] = "none" THEN speaking ELSE FALSE
    /\ UNCHANGED <<stopFlag, process, sound, handler, doomed, stops, stuck>>

\* finally: the file goes, and the device is not busy any more.
Finally(s) ==
    /\ Step(s, "finally", "done")
    /\ speaking' = FALSE /\ stuck' = FALSE
    /\ UNCHANGED <<stopFlag, process, sound, handler, doomed, stops>>

\* The player program comes to its end.
SoundEnds(s) ==
    /\ sound[s] = "playing"
    /\ sound' = [sound EXCEPT ![s] = "over"]
    /\ UNCHANGED <<speaking, stopFlag, process, pc, handler, doomed, stops, stuck>>

ThreadStep(s) ==
    \/ Synthesize(s) \/ ClearStop(s) \/ BeginPlay(s) \/ StartPlayer(s)
    \/ Wait(s) \/ ResetPlayer(s) \/ HaltPlayer(s) \/ Finally(s)

SpeakerNext ==
    \/ HandleStop \/ LookAtPlayer \/ StopPlayer \/ ReleaseSpeaker
    \/ \E s \in Speak : HandleSpeak(s) \/ StartThread(s) \/ ThreadStep(s) \/ SoundEnds(s)

SpeakerSpec == SpeakerInit /\ [][SpeakerNext]_speakerVars

------------------------------------------------------------------------------
Active(s) == pc[s] \notin {"new", "refused", "failed", "done"}

\* Until the first stop, one speak at a time is synthesised or played: the others
\* are refused as busy, and every program that plays is the one stop would find
\* (_handle_speak, _synthesize_and_play, AudioPlayer.play).
SpeakingIsExclusive ==
    stops = 0 =>
        /\ \A s, t \in Speak : Active(s) /\ Active(t) => s = t
        /\ \A s \in Speak : sound[s] = "playing" => process = s

\* The device does not stay busy: whatever fails, is stopped or overlaps in the
\* threads of the speaks, the busy flag is cleared in the end, unless the speak that
\* set it throws before it has a thread: nobody but a stop, or the thread of an
\* earlier speak, clears it then (_handle_speak, the finally of _synthesize_and_play,
\* _handle_stop).
BusyEnds == speaking ~> (~speaking \/ stuck)
==============================================================================
