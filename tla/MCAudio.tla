------------------------------ MODULE MCAudio ------------------------------
(* The three sides of an audio track, one per behaviour: what a backend     *)
(* makes of a device's packets, the thread the recorder runs it on, and     *)
(* what it takes from Windows and gives back.                               *)
EXTENDS AudioSource, AudioWorker, AudioDevice

MCTracks == <<"microphone", "game">>
VARIABLE part
mcVars == <<audioVars, workerVars, deviceVars, part>>

MCInit == AudioInit /\ WorkerInit /\ DeviceInit /\ part \in {"source", "worker", "device"}
          /\ (part # "source" => track = "mic")
          /\ (world.game # Nothing => world.device # Nothing)
          /\ com["other"].count = 0 /\ backend.supported = backend.finder
          /\ (part # "device" => backend.kind = "microphone" /\ com["audio"].count = 0)
MCNext ==
    \/ part = "source" /\ AudioNext /\ UNCHANGED <<workerVars, deviceVars, part>>
    \/ part = "worker" /\ WorkerNext /\ UNCHANGED <<audioVars, deviceVars, part>>
    \/ part = "device" /\ DeviceNext /\ UNCHANGED <<audioVars, workerVars, part>>

(* The recorder's budgets run out, the platform's calls return.             *)
MCSpec == MCInit /\ [][MCNext]_mcVars
          /\ WF_mcVars(part = "worker" /\ RecorderStep /\ UNCHANGED <<audioVars, deviceVars, part>>)
          /\ \A t \in Names : WF_mcVars(part = "worker" /\ WorkerStep(t) /\ UNCHANGED <<audioVars, deviceVars, part>>)

(* Sound before a recording runs and silence after it; nothing opened is    *)
(* left behind, nobody else's apartment is ended, and a silent stream is    *)
(* suspected when it has earned it.                                         *)
BackendsAreKept == SoundBeforeAndSilenceAfter /\ ApartmentIsGivenBack /\ SuspicionIsEarned
=============================================================================
