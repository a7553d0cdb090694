----------------------------- MODULE MCEncoder -----------------------------
(***************************************************************************)
(* What a recording is started from, one part at a time: the start of the  *)
(* engine, in every mode, with and without a game watcher, the microphone, *)
(* the measurement and the texture path; the encoder's child that a start  *)
(* spawns, with pixels and one or both audio tracks, or textures and none; *)
(* the chords and the tray it is started from; and the transforms two      *)
(* threads open, measure and list at once.                                 *)
(***************************************************************************)
EXTENDS RecorderStart, EncoderChild, DesktopShell, TransformSetup
CONSTANTS nvenc, qsv
VARIABLE part

AutoOrder == <<nvenc, qsv>>
Base == [mode |-> "buffer", save |-> FALSE, mic |-> TRUE, audio |-> TRUE, adapt |-> TRUE, games |-> TRUE,
         fps |-> 2, zero_copy |-> "auto", opens |-> FALSE, vendor |-> "auto", codec |-> "h264"]
StartOptions ==
    {Base, [Base EXCEPT !.mode = "session", !.opens = TRUE],
     [Base EXCEPT !.save = TRUE, !.mic = FALSE, !.zero_copy = "yes", !.vendor = qsv],
     [Base EXCEPT !.games = FALSE, !.adapt = FALSE, !.zero_copy = "yes", !.opens = TRUE, !.save = TRUE],
     [Base EXCEPT !.games = FALSE, !.audio = FALSE, !.zero_copy = "no", !.opens = TRUE, !.adapt = FALSE],
     [Base EXCEPT !.mic = FALSE, !.audio = FALSE, !.fps = 0, !.opens = TRUE]}
TwoChords == <<"clip", "toggle">>

\* Machines with no encoder, with ones that refuse at every step, with one
\* that must be warmed up, and with one that has no events to wait for.
Driver == [activates |-> TRUE, async |-> TRUE, manager |-> TRUE, codec |-> "h264", cold |-> TRUE, warm |-> TRUE,
           inputs |-> {"bgra", "nv12"}, rates |-> TRUE, detached |-> TRUE]
Hevc == [Driver EXCEPT !.codec = "hevc", !.cold = FALSE, !.inputs = {"nv12"}, !.detached = FALSE]
DriverSets ==
    {<<>>, <<Driver>>, <<[Driver EXCEPT !.activates = FALSE], [Driver EXCEPT !.manager = FALSE], Driver, Hevc>>,
     <<[Hevc EXCEPT !.warm = FALSE], Hevc>>, <<[Driver EXCEPT !.async = FALSE], Driver>>,
     <<[Driver EXCEPT !.inputs = {}], [Driver EXCEPT !.rates = FALSE]>>}
InputFormats == <<"bgra", "argb", "nv12">>

MCInit ==
    /\ part \in {"start", "child", "shell", "transform"}
    /\ StartInit /\ (part # "start" => opt = Base /\ advertised = {})
    /\ \/ EncoderInit(FALSE, {"game"})
       \/ part = "child" /\ (EncoderInit(FALSE, Track) \/ EncoderInit(TRUE, {}))
    /\ ShellInit /\ (part # "shell" => \A i \in Numbers : chord[i] = "free")
    /\ SetupInit /\ (part # "transform" => machine = <<>> /\ codec = "h264")
MCNext ==
    \/ part = "start" /\ StartNext /\ UNCHANGED <<encoderVars, shellVars, setupVars, part>>
    \/ part = "child" /\ EncoderNext /\ UNCHANGED <<startVars, shellVars, setupVars, part>>
    \/ part = "shell" /\ ShellNext /\ UNCHANGED <<startVars, encoderVars, setupVars, part>>
    \/ part = "transform" /\ SetupNext /\ UNCHANGED <<startVars, encoderVars, shellVars, part>>

\* What a running recording claims is delivered, and the transforms it and
\* the panels open are opened as they were asked for, on a platform that is
\* started once for each (begin_recording, MftEncoder::open).
RecordingsStartAsPromised == ARecordingIsAsPromised /\ EncodersOpenAsAsked

\* The threads run; a wait with a budget ends with it.  Nothing is asked of the
\* child or of the transform, and in each part nothing of another's threads.
EncoderFairness ==
    /\ WF_encoderVars(part = "child" /\ FeedStep /\ UNCHANGED childVars)
    /\ WF_encoderVars(part = "child" /\ VideoWrites)
    /\ \A t \in Track : WF_encoderVars(part = "child" /\ t \in DOMAIN tracks /\ AudioWrites(t))
    /\ WF_encoderVars(part = "child" /\ Closing)
MCSpec ==
    /\ MCInit /\ [][MCNext]_<<startVars, encoderVars, shellVars, setupVars, part>>
    /\ EncoderFairness
    /\ \A r \in Refreshers : WF_shellVars(part = "shell" /\ Refreshing(r))
=============================================================================
