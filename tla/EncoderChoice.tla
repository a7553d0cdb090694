--------------------------- MODULE EncoderChoice ----------------------------
(* Which hardware encoder a recording uses (encoder/src/probe.rs) and how   *)
(* long a child ffmpeg that is asked may take (media/src/binaries.rs).      *)
(*                                                                          *)
(* An encoder is the pair of a codec and a vendor, as its ffmpeg name is.   *)
EXTENDS Integers, Sequences, SequencesExt

CONSTANTS Codecs,       \* H264 and HEVC
          Vendors,      \* NVENC, QSV and AMF
          AUTO_ORDER    \* the order "auto" tries them in

ASSUME EncoderChoiceAssumption == AUTO_ORDER \in Seq(Vendors) /\ Vendors = ToSet(AUTO_ORDER)

VARIABLES advertised,   \* the encoders this ffmpeg was built with
          works,        \* the encoders this machine can run
          smokeResults  \* the smoke tests of this process, by encoder

choiceVars == <<advertised, works, smokeResults>>
NoVendor == "none"

hw_encoder_name(codec, vendor) == <<codec, vendor>>
Encoders == Codecs \X Vendors

candidates_for(requested) == IF requested = "auto" THEN AUTO_ORDER ELSE <<requested>>

(* A child is waited for until it ends or its deadline passes and it is     *)
(* killed: an encoder that works can still be too slow for its deadline.    *)
run_with_stdin(encoder) == IF encoder \in works THEN {"exited", "timed_out"} ELSE {"failed", "timed_out"}
smoke_test_encoder(encoder) == {outcome = "exited" : outcome \in run_with_stdin(encoder)}

Cached(encoder) == encoder \in DOMAIN smokeResults

(* The results a smoke test of each encoder would have now: the cached ones *)
(* are not run again.                                                       *)
smoke_test_cached ==
    {r \in [Encoders -> BOOLEAN] :
        \A e \in Encoders : IF Cached(e) THEN r[e] = smokeResults[e] ELSE r[e] \in smoke_test_encoder(e)}

Usable(encoder, results) == encoder \in advertised /\ results[encoder]

(* The place of the first usable candidate, 0 when there is none.           *)
select_usable(candidates, codec, results) ==
    SelectInSeq(candidates, LAMBDA v : Usable(hw_encoder_name(codec, v), results))

(* The tests that were run to find it: those of the advertised candidates   *)
(* up to the chosen one.                                                    *)
TestsRun(candidates, codec, results) ==
    LET chosen == select_usable(candidates, codec, results)
        tried == {hw_encoder_name(codec, candidates[i]) :
                    i \in 1..(IF chosen = 0 THEN Len(candidates) ELSE chosen)}
    IN  tried \cap advertised

(* One selection: its answer and what it leaves in the cache.               *)
select_vendor(requested, codec, results) ==
    LET candidates == candidates_for(requested)
        chosen == select_usable(candidates, codec, results)
    IN  [vendor |-> IF chosen = 0 THEN NoVendor ELSE candidates[chosen],
         cache |-> [e \in DOMAIN smokeResults \cup TestsRun(candidates, codec, results) |-> results[e]]]

ChoiceInit ==
    /\ advertised \in SUBSET Encoders
    /\ works \in SUBSET advertised
    /\ smokeResults = [e \in {} |-> FALSE]

----------------------------------------------------------------------------
(* The measurement of the rate a machine can sustain                        *)
(* (encoder/src/throughput.rs) and the rate that follows (fps.rs). A thread *)
(* writes frames into a child ffmpeg for a budget of time; the measuring    *)
(* thread waits for the child with a deadline, joins the writer and reads   *)
(* how the child ended.                                                     *)

CONSTANTS PROBE_BUDGET,         \* how long frames are fed
          PROBE_DRAIN_TIMEOUT,  \* how long the child may take after that
          MaxFed                \* bound: frames the child takes

ASSUME RateProbeAssumption == {PROBE_BUDGET, PROBE_DRAIN_TIMEOUT, MaxFed} \subseteq Nat \ {0}

VARIABLE probe
NoRate == -1
Unmeasured == -2
IdleProbe == [at |-> "idle", path |-> "RawPixels", child |-> "none", writer |-> "none", clock |-> 0,
              startedAt |-> -1, frames |-> 0, window |-> 0, waited |-> "no", rate |-> NoRate]

(* --- the decision ------------------------------------------------------- *)
AtLeastOne(n) == IF n = 0 THEN 1 ELSE n

(* The measured rate is a whole number here: floor has nothing left to cut. *)
decide(configured, adapt, measured) ==
    LET asked == AtLeastOne(configured)
    IN  IF adapt /\ measured \in Nat /\ measured < asked THEN AtLeastOne(measured) ELSE asked

(* A probe that failed costs the measured rate, not the recording.          *)
decide_rate(configured, adapt, measured) == decide(configured, adapt, measured)

(* --- the measurement ---------------------------------------------------- *)
frames_per_second(frames, window) ==
    IF frames = 0 \/ window = 0 THEN Unmeasured ELSE frames \div window

Hardware == probe.path = "EncodedBitstream"
Measuring == probe.at = "measuring"

(* The recording's own path is the one that is measured: the hardware path  *)
(* feeds a transform of its own, and off Windows there is none to feed.     *)
measured_path(video) == video
ProbeStarts(video) ==
    probe' = IF measured_path(video) = "RawPixels"
             THEN [IdleProbe EXCEPT !.at = "measuring", !.child = "running", !.writer = "feeding"]
             ELSE [IdleProbe EXCEPT !.at = "measuring", !.path = measured_path(video)]

(* A frame the child took. The first one starts the clock and is not        *)
(* counted; a frame that ends at or after the budget is the last.           *)
Feed ==
    /\ Measuring /\ probe.writer = "feeding" /\ probe.child = "running" /\ probe.frames < MaxFed
    /\ LET window == probe.clock - probe.startedAt
       IN  probe' = IF probe.startedAt = -1 THEN [probe EXCEPT !.startedAt = probe.clock]
                    ELSE [probe EXCEPT !.frames = @ + 1, !.window = window,
                                       !.writer = IF window >= PROBE_BUDGET THEN "done" ELSE "feeding"]

(* A write into a child that is gone fails and ends the feeding.            *)
WriterBreaks ==
    /\ Measuring /\ probe.writer = "feeding" /\ probe.child # "running"
    /\ probe' = [probe EXCEPT !.writer = "done"]

(* The child drains what it was given after its input closed, or dies of    *)
(* its own at any time.                                                     *)
ChildEnds ==
    /\ Measuring /\ probe.child = "running"
    /\ \/ probe.writer = "done" /\ probe' = [probe EXCEPT !.child = "succeeded"]
       \/ probe' = [probe EXCEPT !.child = "failed"]

(* Time passes: the child stalls, or works slowly.                          *)
ProbeClock ==
    /\ Measuring /\ ~Hardware /\ probe.waited = "no" /\ probe.clock < PROBE_BUDGET + PROBE_DRAIN_TIMEOUT
    /\ probe' = [probe EXCEPT !.clock = @ + 1]

(* wait_with_deadline: the child is polled until it ended or the deadline   *)
(* has passed, and then killed and reaped.                                  *)
WaitWithDeadline ==
    /\ Measuring /\ ~Hardware /\ probe.waited = "no"
    /\ \/ probe.child # "running" /\ probe' = [probe EXCEPT !.waited = "ended"]
       \/ /\ probe.child = "running" /\ probe.clock >= PROBE_BUDGET + PROBE_DRAIN_TIMEOUT
          /\ probe' = [probe EXCEPT !.waited = "timed_out", !.child = "killed"]

(* The writer is joined, and only then is the child's end looked at.        *)
ProbeReturns ==
    /\ Measuring /\ probe.waited # "no" /\ probe.writer = "done"
    /\ probe' = [probe EXCEPT !.at = "done",
                              !.rate = IF probe.waited = "timed_out" \/ probe.child # "succeeded" THEN Unmeasured
                                       ELSE frames_per_second(probe.frames, probe.window)]

(* The transform of the hardware path is driven for the budget on this      *)
(* thread: it answers with a rate or fails, and elsewhere than on Windows   *)
(* there is none.                                                           *)
measure_hardware_encoder_fps ==
    /\ Measuring /\ Hardware
    /\ \E rate \in {Unmeasured} \cup 1..MaxFed : probe' = [probe EXCEPT !.at = "done", !.rate = rate]

ProbeStep == measure_hardware_encoder_fps \/ Feed \/ WriterBreaks \/ ChildEnds \/ ProbeClock \/ WaitWithDeadline \/ ProbeReturns
=============================================================================
