---------------------------- MODULE AudioWorker ----------------------------
(* The threads that own the audio backends (recorder/src/lib.rs: the worker,*)
(* WorkerAudio, open_audio_source): each backend is opened, read and closed *)
(* on one thread, the recorder waits for every step of it with a deadline,  *)
(* opens the tracks in order and releases them when the start fails or the  *)
(* recording ends.  A call into the platform's audio service may take any   *)
(* time: whether it ever returns is left to the fairness of a run.          *)
EXTENDS Integers, Sequences, SequencesExt

CONSTANT Tracks   \* the audio tracks, in the order they are opened

ASSUME AudioWorkerAssumption ==
    /\ Tracks \in Seq({"microphone", "game"}) /\ Tracks # <<>>
    /\ \A i, j \in DOMAIN Tracks : Tracks[i] = Tracks[j] => i = j

VARIABLES recorder, worker
workerVars == <<recorder, worker>>
Names == ToSet(Tracks)

WorkerInit ==
    /\ recorder = [at |-> "opening", track |-> 1, release |-> <<>>, ends |-> "refused"]
    /\ worker = [t \in Names |-> [at |-> "none", device |-> "closed", opened |-> "nothing", heard |-> FALSE,
                                  requests |-> <<>>, handle |-> FALSE, answer |-> "nothing", awaited |-> FALSE]]

Opening == Tracks[recorder.track]
Releasing == Head(recorder.release)

(* --- the thread that owns a backend ------------------------------------- *)
OpensDevice(t, ok) ==
    /\ worker[t].at = "opening"
    /\ worker' = [worker EXCEPT ![t].device = IF ok THEN "open" ELSE @,
                                ![t].opened = IF worker[t].awaited THEN IF ok THEN "open" ELSE "failed" ELSE @,
                                ![t].at = IF ok /\ worker[t].awaited THEN "serving" ELSE "closing"]
    /\ UNCHANGED recorder

(* Nobody waits for it any more, or it never came up: released here.        *)
ClosesDevice(t) ==
    /\ worker[t].at = "closing"
    /\ worker' = [worker EXCEPT ![t].device = "released", ![t].at = "ended"] /\ UNCHANGED recorder

TakesRequest(t) ==
    /\ worker[t].at = "serving" /\ worker[t].requests # <<>>
    /\ worker' = [worker EXCEPT ![t].at = Head(worker[t].requests), ![t].requests = Tail(@)]
    /\ UNCHANGED recorder

(* Every reply has a channel of its own: one nobody waits for is dropped.   *)
Answered(w, what) == [w EXCEPT !.answer = IF w.awaited /\ w.requests = <<>> THEN what ELSE @]

DeliversBlock(t, what) ==
    /\ worker[t].at = "read"
    /\ worker' = [worker EXCEPT ![t] = [Answered(worker[t], what) EXCEPT !.at = "serving",
                                          !.heard = @ \/ what = "block"]]
    /\ UNCHANGED recorder

StopsDevice(t) ==
    /\ worker[t].at = "stop"
    /\ worker' = [worker EXCEPT ![t] = [Answered(worker[t], "stopped") EXCEPT !.at = "ended", !.device = "released"]]
    /\ UNCHANGED recorder

(* The recorder let go of it while it waited for work.                      *)
LeftAlone(t) ==
    /\ worker[t].at = "serving" /\ worker[t].requests = <<>> /\ ~worker[t].handle
    /\ worker' = [worker EXCEPT ![t].device = "released", ![t].at = "ended"] /\ UNCHANGED recorder

Panics(t) ==
    /\ worker[t].at \in {"opening", "read", "stop"}
    /\ worker' = [worker EXCEPT ![t].device = "released", ![t].at = "ended"] /\ UNCHANGED recorder

(* --- the recorder's side ------------------------------------------------ *)
Spawns ==
    /\ recorder.at = "opening" /\ worker[Opening].at = "none"
    /\ worker' = [worker EXCEPT ![Opening].at = "opening", ![Opening].handle = TRUE, ![Opening].awaited = TRUE]
    /\ UNCHANGED recorder

Ask(t, what) == [worker EXCEPT ![t].requests = Append(@, what), ![t].answer = "nothing", ![t].awaited = TRUE]

(* Mutant of LetGo: the handle outlives the refusal.                        *)
LetGoOfReply(w, t) == [w EXCEPT ![t].awaited = FALSE, ![t].answer = "nothing"]

LetGo(w, t) == [w EXCEPT ![t].handle = FALSE, ![t].awaited = FALSE, ![t].answer = "nothing"]

(* The tracks opened before are stopped, this one is only let go of: it may *)
(* be stuck inside the platform.                                            *)
Refuses ==
    /\ recorder' = [recorder EXCEPT !.at = "releasing", !.ends = "refused",
                                    !.release = SubSeq(Tracks, 1, recorder.track - 1)]
    /\ worker' = LetGo(worker, Opening)

OpenAnswered ==
    /\ recorder.at = "opening" /\ worker[Opening].opened = "open"
    /\ recorder' = [recorder EXCEPT !.at = "first"] /\ worker' = Ask(Opening, "read")

(* It failed, the thread died, or it took longer than AUDIO_OPEN_BUDGET.    *)
OpenRefused ==
    recorder.at = "opening" /\ worker[Opening].at # "none" /\ worker[Opening].opened # "open" /\ Refuses

FirstBlock ==
    /\ recorder.at = "first" /\ worker[Opening].answer = "block"
    /\ worker' = [worker EXCEPT ![Opening].awaited = FALSE]
    /\ recorder' = IF recorder.track < Len(Tracks) THEN [recorder EXCEPT !.at = "opening", !.track = @ + 1]
                   ELSE [recorder EXCEPT !.at = "recording"]

(* Nothing within AUDIO_FIRST_BLOCK_BUDGET, an error, or no answer in time. *)
NoFirstBlock == recorder.at = "first" /\ worker[Opening].answer # "block" /\ Refuses

(* A start that fails for another reason than a track (the display).        *)
OtherSourceFails ==
    /\ recorder.at = "opening" /\ worker[Opening].at = "none"
    /\ recorder' = [recorder EXCEPT !.at = "releasing", !.ends = "refused",
                                    !.release = SubSeq(Tracks, 1, recorder.track - 1)]
    /\ UNCHANGED worker

(* The loop ends, asked to or because a read failed: game audio first.      *)
Finishes == [recorder EXCEPT !.at = "releasing", !.ends = "stopped", !.release = Reverse(Tracks)]

AsksForBlock(t) ==
    /\ recorder.at = "recording"
    /\ IF worker[t].at = "ended" THEN recorder' = Finishes /\ UNCHANGED worker
       ELSE /\ recorder' = [recorder EXCEPT !.at = "reading", !.track = CHOOSE k \in DOMAIN Tracks : Tracks[k] = t]
            /\ worker' = Ask(t, "read")

ReadAnswered ==
    /\ recorder.at = "reading" /\ worker[Opening].answer \in {"block", "none"}
    /\ recorder' = [recorder EXCEPT !.at = "recording"]
    /\ worker' = [worker EXCEPT ![Opening].awaited = FALSE, ![Opening].answer = "nothing"]

(* An error, a dead thread, or no answer within WORKER_PUMP_REPLY_WAIT.     *)
ReadFailed ==
    /\ recorder.at = "reading" /\ worker[Opening].answer \notin {"block", "none"}
    /\ recorder' = Finishes /\ worker' = [worker EXCEPT ![Opening].awaited = FALSE]

RecordingStops == recorder.at = "recording" /\ recorder' = Finishes /\ UNCHANGED worker

Released == [recorder EXCEPT !.at = "releasing", !.release = Tail(@)]

StopAsked ==
    /\ recorder.at = "releasing" /\ recorder.release # <<>>
    /\ IF worker[Releasing].at = "ended" THEN recorder' = Released /\ UNCHANGED worker
       ELSE recorder' = [recorder EXCEPT !.at = "stopping"] /\ worker' = Ask(Releasing, "stop")

(* It answered, it died, or WORKER_STOP_BUDGET ran out: joined all the same.*)
StopWaited ==
    /\ recorder.at = "stopping" /\ worker' = [worker EXCEPT ![Releasing].awaited = FALSE]
    /\ recorder' = [recorder EXCEPT !.at = "joining"]

Joined ==
    /\ recorder.at = "joining" /\ worker[Releasing].at = "ended"
    /\ recorder' = Released /\ UNCHANGED worker

Done ==
    /\ recorder.at = "releasing" /\ recorder.release = <<>>
    /\ recorder' = [recorder EXCEPT !.at = recorder.ends] /\ UNCHANGED worker

RecorderStep ==
    \/ Spawns \/ OpenAnswered \/ OpenRefused \/ FirstBlock \/ NoFirstBlock
    \/ ReadAnswered \/ ReadFailed \/ StopAsked \/ StopWaited \/ Joined \/ Done
WorkerStep(t) ==
    \/ \E ok \in BOOLEAN : OpensDevice(t, ok)
    \/ ClosesDevice(t) \/ TakesRequest(t)
    \/ \E what \in {"block", "none", "error"} : DeliversBlock(t, what)
    \/ StopsDevice(t) \/ LeftAlone(t)
WorkerNext ==
    \/ RecorderStep \/ RecordingStops \/ OtherSourceFails
    \/ \E t \in Names : WorkerStep(t) \/ Panics(t) \/ AsksForBlock(t)

(* --- properties --------------------------------------------------------- *)
WorkerTypes ==
    /\ recorder.at \in {"opening", "first", "recording", "reading", "releasing", "stopping", "joining",
                        "refused", "stopped"}
    /\ recorder.track \in DOMAIN Tracks /\ ToSet(recorder.release) \subseteq Names
    /\ \A t \in Names :
          /\ worker[t].at \in {"none", "opening", "closing", "serving", "read", "stop", "ended"}
          /\ worker[t].device \in {"closed", "open", "released"} /\ Len(worker[t].requests) <= 2

(* A recording is running only if every one of its tracks has delivered     *)
(* sound, whatever opened late, failed late or answered nothing             *)
(* (lib.rs: open_audio_source); and when stop has returned every device has *)
(* been given back on its own thread (lib.rs: WorkerAudio::stop).           *)
SoundBeforeAndSilenceAfter ==
    /\ WorkerTypes
    /\ recorder.at \in {"recording", "reading"} => \A t \in Names : worker[t].heard
    /\ recorder.at = "stopped" => \A t \in Names : worker[t].at = "ended" /\ worker[t].device # "open"

(* A device that was opened is given back in the end, also the one whose    *)
(* opening was given up on (lib.rs: audio_worker, Drop for WorkerAudio).    *)
EveryDeviceIsGivenBack ==
    recorder.at \in {"refused", "stopped"} ~> \A t \in Names : worker[t].at \in {"none", "ended"}
=============================================================================
