-------------------------- MODULE TransformSetup --------------------------
(***************************************************************************)
(* How a hardware encoder is opened (crates/encoder/src/mft.rs): the one   *)
(* sequence of steps a Media Foundation transform accepts, asked for by    *)
(* the start of a recording (which first asks whether it would open), by   *)
(* the measurement of its rate, and by the probes that list what the       *)
(* machine has.  Each caller runs on a thread of its own; what they share  *)
(* is the platform, which counts its users.                                *)
(*                                                                         *)
(* A transform belongs to the driver.  What it accepts is a record of      *)
(* `machine`: whether it activates and is asynchronous, takes the device,  *)
(* takes the wanted size cold or only warmed up, and which input formats.  *)
(***************************************************************************)
EXTENDS Integers, Sequences, FiniteSets, SequencesExt

CONSTANTS
    Askers,            \* threads that open or probe encoders
    Machines,          \* the machines considered: sequences of drivers
    CANDIDATE_INPUTS,  \* the input formats, in the order they are tried
    BGRA,              \* the one captured textures have
    WARM_UP, PROBE_SLACK, ProbeWindow,  \* the measurement's times
    MaxMeasured,       \* bound: frames a measurement counts
    MaxCalls,          \* bound: calls of each thread
    SetupFaults        \* bound: calls of Media Foundation that fail

\* What a driver answers, whatever its own state is.
DriverAnswers ==
    [activates : BOOLEAN, async : BOOLEAN, manager : BOOLEAN, codec : {"h264", "hevc"}, cold : BOOLEAN,
     warm : BOOLEAN, inputs : SUBSET ToSet(CANDIDATE_INPUTS), rates : BOOLEAN, detached : BOOLEAN]

ASSUME SetupAssumption ==
    /\ IsFiniteSet(Askers) /\ \A m \in Machines : m \in Seq(DriverAnswers)
    /\ CANDIDATE_INPUTS \in Seq(STRING) /\ BGRA \in ToSet(CANDIDATE_INPUTS) /\ "none" \notin ToSet(CANDIDATE_INPUTS)
    /\ {WARM_UP, PROBE_SLACK, ProbeWindow, MaxMeasured, MaxCalls, SetupFaults} \subseteq Nat

VARIABLES
    machine,   \* the machine's drivers, in the order they are enumerated
    codec,     \* the codec that is asked for
    users,     \* MFStartup calls without their MFShutdown
    asker,     \* what each thread is doing
    answers,   \* what `auto` was told, and what the recordings after it met
    calls, setupFaults

setupVars == <<machine, codec, users, asker, answers, calls, setupFaults>>

Opens   == {"choose", "measure", "record"}
Surveys == {"list", "types", "ordering", "ladder", "variants"}
Fresh   == [unlocked |-> FALSE, managed |-> FALSE, warmed |-> FALSE, output |-> "none",
            input |-> "none", pinned |-> FALSE]
Idle    == [call |-> "none", at |-> "idle", candidate |-> 0, rows |-> {}, encoder |-> Fresh,
            texture |-> "none", now |-> 0, inside |-> 0, frames |-> 0, window |-> <<>>, rate |-> 0]

----------------------------------------------------------------------------
\* The driver's answers.
TakesManager(d, tr) == d.manager /\ (d.async => tr.unlocked)
TakesOutput(d, tr, type) ==
    /\ d.codec = type.codec /\ type.profile = type.codec /\ tr.managed
    /\ type.size = "wanted" => d.cold \/ (d.warm /\ tr.warmed)
TakesInput(d, tr, format) == tr.output # "none" /\ format \in d.inputs

----------------------------------------------------------------------------
\* The steps, each on the transform the one before it left.
Unlock(d, tr) == [tr EXCEPT !.unlocked = d.async]
prepare_transform(d, tr) == [Unlock(d, tr) EXCEPT !.managed = TakesManager(d, Unlock(d, tr))]

OutputType(size) == [codec |-> codec, size |-> size, profile |-> codec]
set_output_type_once(d, tr, size) ==
    IF TakesOutput(d, tr, OutputType(size))
    THEN [tr EXCEPT !.output = size, !.warmed = @ \/ size = "small"] ELSE [tr EXCEPT !.output = "none"]

\* An HEVC encoder is given a small size first, whose refusal is no refusal.
set_output_type(d, tr) ==
    set_output_type_once(d, IF codec = "hevc" THEN set_output_type_once(d, tr, "small") ELSE tr, "wanted")

\* The rate is set through an interface that may be missing or refuse.
pin_bitrate(d, tr) == [tr EXCEPT !.pinned = d.rates]

\* The captured texture's own format is tried first.
candidate_inputs(preferred) ==
    LET index == SelectInSeq(CANDIDATE_INPUTS, LAMBDA f : f = preferred)
    IN  IF index = 0 THEN CANDIDATE_INPUTS ELSE <<preferred>> \o RemoveAt(CANDIDATE_INPUTS, index)
FirstAccepted(d, tr, formats) ==
    LET place == SelectInSeq(formats, LAMBDA f : TakesInput(d, tr, f))
    IN  IF place = 0 THEN "none" ELSE formats[place]

\* The transform as it is when every step has been taken; the steps after a
\* refusal are not taken, and the input then is "none".
configure_encoder(d, preferred) ==
    LET ready  == prepare_transform(d, Fresh)
        typed  == set_output_type(d, ready)
        pinned == pin_bitrate(d, typed)
    IN  IF d.activates /\ ready.managed /\ typed.output = "wanted"
        THEN [pinned EXCEPT !.input = FirstAccepted(d, pinned, candidate_inputs(preferred))] ELSE Fresh
Preferred(call) == IF call = "choose" THEN "none" ELSE BGRA

----------------------------------------------------------------------------
\* What the probes report of one driver.
accepted_subtypes(d, tr) ==
    {f \in ToSet(CANDIDATE_INPUTS) : TakesInput(d, set_output_type_once(d, tr, "small"), f)}
\* The device is taken away again before the types are asked for, at the
\* small size: a driver that insists on it then takes none.
ask_one(d) ==
    LET ready == prepare_transform(d, Fresh)
    IN  {<<"accepts_d3d11", d.activates /\ ready.managed>>,
         <<"accepts", accepted_subtypes(d, [ready EXCEPT !.managed = d.activates /\ d.detached])>>}

\* The probes' own type carries the HEVC profile: they are asked about HEVC only.
build_output_type(variant, size) ==
    [codec |-> codec, size |-> size, profile |-> IF variant = "pipeline" THEN "hevc" ELSE "other"]
Prepared(d) == d.activates /\ prepare_transform(d, Fresh).managed
Accepted(d, tr, variant, size) == Prepared(d) /\ TakesOutput(d, tr, build_output_type(variant, size))
available_types(d) == {<<"output", Accepted(d, prepare_transform(d, Fresh), "pipeline", "wanted")>>}
ordering_rows(d) ==
    LET tr(managed) == [prepare_transform(d, Fresh) EXCEPT !.managed = @ /\ managed]
    IN  {<<managed, first, first = "output" /\ Accepted(d, tr(managed), "pipeline", "wanted")>> :
            managed \in BOOLEAN, first \in {"input", "output"}}
\* A fresh transform for each size; a driver that cannot be prepared has no row.
ladder_rows(d) ==
    IF Prepared(d)
    THEN {<<size, Accepted(d, prepare_transform(d, Fresh), "pipeline", size)>> : size \in {"small", "wanted"}} ELSE {}
\* One transform for all variants, at the wanted size.
variant_rows(d) ==
    {<<v, Accepted(d, prepare_transform(d, Fresh), v, "wanted")>> : v \in {"pipeline", "changed"}}
RowsOf(call, d) ==
    CASE call = "list" -> ask_one(d)
      [] codec # "hevc" -> {}
      [] call = "types" -> available_types(d)
      [] call = "ordering" -> ordering_rows(d)
      [] call = "ladder" -> ladder_rows(d)
      [] call = "variants" -> variant_rows(d)

----------------------------------------------------------------------------
Goes(a, record) == asker' = [asker EXCEPT ![a] = record]
SetupFault == setupFaults > 0 /\ setupFaults' = setupFaults - 1
Answered(a, kind) ==
    answers' = IF asker[a].call \in {"choose", "record"} THEN answers \cup {<<asker[a].call, kind>>} ELSE answers
Ends(a, kind) == Goes(a, [asker[a] EXCEPT !.at = kind, !.encoder = Fresh]) /\ Answered(a, kind)

\* A call starts the platform.  A device that cannot be made fails before it.
Open(a, call) ==
    /\ asker[a].at \in {"idle", "ended", "failed"} /\ calls[a] > 0 /\ calls' = [calls EXCEPT ![a] = @ - 1]
    /\ \/ /\ Goes(a, [Idle EXCEPT !.call = call, !.at = "started"])
          /\ users' = users + 1 /\ UNCHANGED setupFaults
       \/ /\ SetupFault /\ Goes(a, [Idle EXCEPT !.call = call, !.at = "failed"])
          /\ UNCHANGED users
    /\ UNCHANGED <<machine, codec, answers>>

\* The device manager and the list of the machine's encoders.
OpenStarted(a) ==
    /\ asker[a].at = "started"
    /\ \/ /\ machine # <<>> /\ Goes(a, [asker[a] EXCEPT !.at = "trying", !.candidate = 1])
          /\ UNCHANGED <<users, answers, setupFaults>>
       \/ /\ machine = <<>> /\ users' = users - 1 /\ UNCHANGED setupFaults
          /\ Ends(a, IF asker[a].call \in Opens THEN "failed" ELSE "ended")
       \/ /\ SetupFault /\ users' = users - 1 /\ Goes(a, [asker[a] EXCEPT !.at = "failed"])
          /\ UNCHANGED answers
    /\ UNCHANGED <<machine, codec, calls>>

\* One candidate after the other, until one is configured; one that is and
\* has no events to wait for fails the whole call.
TryCandidate(a) ==
    /\ asker[a].at = "trying" /\ asker[a].call \in Opens
    /\ LET driver == machine[asker[a].candidate]
           tr == configure_encoder(driver, Preferred(asker[a].call))
       IN  IF tr.input # "none"
           THEN IF driver.async
                THEN Goes(a, [asker[a] EXCEPT !.at = "opened", !.encoder = tr]) /\ UNCHANGED <<users, answers>>
                ELSE Ends(a, "failed") /\ users' = users - 1
           ELSE IF asker[a].candidate < Len(machine)
                THEN Goes(a, [asker[a] EXCEPT !.candidate = @ + 1]) /\ UNCHANGED <<users, answers>>
                ELSE Ends(a, "failed") /\ users' = users - 1
    /\ UNCHANGED <<machine, codec, calls, setupFaults>>

\* A probe asks every candidate, and a refusal is a row of its answer.
AskCandidate(a) ==
    /\ asker[a].at = "trying" /\ asker[a].call \in Surveys
    /\ LET i == asker[a].candidate
           rows == asker[a].rows \cup {<<i, row>> : row \in RowsOf(asker[a].call, machine[i])}
           last == i = Len(machine)
       IN  /\ Goes(a, [asker[a] EXCEPT !.rows = rows, !.at = IF last THEN "ended" ELSE "trying",
                                       !.candidate = IF last THEN i ELSE i + 1])
           /\ users' = IF last THEN users - 1 ELSE users
    /\ UNCHANGED <<machine, codec, answers, calls, setupFaults>>

\* Whether it would open is all `auto` asks: the encoder is dropped at once.
CanEncode(a) ==
    /\ asker[a].at = "opened" /\ asker[a].call = "choose"
    /\ Ends(a, "ended") /\ users' = users - 1
    /\ UNCHANGED <<machine, codec, calls, setupFaults>>

\* Dropping an encoder takes the device back and balances its start.
DropEncoder(a) ==
    /\ asker[a].at = "recording" \/ (asker[a].at = "measured" /\ asker[a].call = "measure")
    /\ Goes(a, [asker[a] EXCEPT !.at = "ended", !.encoder = Fresh]) /\ users' = users - 1
    /\ UNCHANGED <<machine, codec, answers, calls, setupFaults>>

OpenForTexture(a) ==
    /\ asker[a].at = "opened" /\ asker[a].call = "record"
    /\ Goes(a, [asker[a] EXCEPT !.at = "recording", !.texture = BGRA])
    /\ answers' = answers \cup {<<"record", "ended">>}
    /\ UNCHANGED <<machine, codec, users, calls, setupFaults>>

----------------------------------------------------------------------------
\* The measurement feeds a texture in the format the encoder took, whenever
\* it asks for one, and counts what it finishes after the warm-up.
synthetic_capture_texture(a) ==
    /\ asker[a].at = "opened" /\ asker[a].call = "measure"
    /\ Goes(a, [asker[a] EXCEPT !.at = "measuring", !.texture = asker[a].encoder.input])
    /\ UNCHANGED <<machine, codec, users, answers, calls, setupFaults>>

ProbeDeadline == WARM_UP + ProbeWindow + PROBE_SLACK
Measured(a) == asker[a].at = "measuring" /\ asker[a].now < ProbeDeadline
Tick(a) == Measured(a) /\ Goes(a, [asker[a] EXCEPT !.now = @ + 1])
NeedInput(a) == Measured(a) /\ asker[a].inside < 2 /\ asker[a].frames < MaxMeasured
                /\ Goes(a, [asker[a] EXCEPT !.inside = @ + 1])
HaveOutput(a) ==
    /\ Measured(a) /\ asker[a].inside > 0
    /\ LET now == asker[a].now
           start == IF asker[a].window = <<>> THEN now ELSE asker[a].window[1]
           frames == asker[a].frames + 1
       IN  Goes(a, IF now < WARM_UP THEN [asker[a] EXCEPT !.inside = @ - 1]
                   ELSE IF now - start < ProbeWindow
                   THEN [asker[a] EXCEPT !.inside = @ - 1, !.frames = frames, !.window = <<start, now>>]
                   ELSE [asker[a] EXCEPT !.at = "measured", !.inside = @ - 1, !.frames = frames,
                                         !.window = <<start, now>>, !.rate = frames \div (now - start)])
\* A wedged encoder is an error and not a rate.
WindowMissed(a) ==
    asker[a].at = "measuring" /\ asker[a].now >= ProbeDeadline /\ Goes(a, [asker[a] EXCEPT !.at = "measured"])
measure_encode_fps(a) ==
    /\ Tick(a) \/ NeedInput(a) \/ HaveOutput(a) \/ WindowMissed(a)
    /\ UNCHANGED <<machine, codec, users, answers, calls, setupFaults>>

----------------------------------------------------------------------------
SetupInit ==
    /\ machine \in Machines /\ codec \in {"h264", "hevc"}
    /\ users = 0 /\ answers = {} /\ asker = [a \in Askers |-> Idle]
    /\ calls = [a \in Askers |-> MaxCalls] /\ setupFaults = SetupFaults
SetupNext ==
    \E a \in Askers :
        \/ \E call \in Opens \cup Surveys : Open(a, call)
        \/ OpenStarted(a) \/ TryCandidate(a) \/ AskCandidate(a) \/ CanEncode(a) \/ OpenForTexture(a)
        \/ synthetic_capture_texture(a) \/ measure_encode_fps(a) \/ DropEncoder(a)

----------------------------------------------------------------------------
\* The platform is started once for every call that is under way and every
\* encoder that lives, on every path out of a call that fails (open,
\* probe_hardware_encoders, Drop for MftEncoder).
PlatformIsBalanced ==
    users = Cardinality({a \in Askers : asker[a].at \notin {"idle", "ended", "failed"}})

\* An encoder that is fed is one that was unlocked and given the device, has
\* the size that was asked for and not the one it was warmed up with, and
\* was told its rate if it can be (configure_encoder, set_output_type).
EncoderIsReady ==
    \A a \in Askers : asker[a].at \in {"recording", "measuring", "measured"} =>
        LET tr == asker[a].encoder  driver == machine[asker[a].candidate]
        IN  /\ tr.unlocked /\ tr.managed /\ tr.output = "wanted" /\ tr.input \in driver.inputs
            /\ tr.pinned = driver.rates
            /\ codec = "hevc" => tr.warmed

\* What `auto` was told is what the recording meets: an encoder that opened
\* for the choice opens for the recording, whichever format each of them
\* asks for first, and the other way round (can_encode_with_textures,
\* open_for_texture).
ChoiceIsKept ==
    \A kind \in {"ended", "failed"} : <<"choose", kind>> \in answers =>
        \A other \in {"ended", "failed"} : <<"record", other>> \in answers => other = kind

\* A rate is measured over a whole window of finished frames that opened
\* after the warm-up, on a texture the encoder takes (measure_encode_fps).
RateIsMeasured ==
    \A a \in Askers :
        /\ asker[a].call = "measure" /\ asker[a].at \in {"measuring", "measured"} =>
              asker[a].texture = asker[a].encoder.input
        /\ asker[a].rate > 0 => /\ asker[a].window[1] >= WARM_UP
                                /\ asker[a].window[2] - asker[a].window[1] >= ProbeWindow
EncodersOpenAsAsked == PlatformIsBalanced /\ EncoderIsReady /\ ChoiceIsKept /\ RateIsMeasured
=============================================================================
