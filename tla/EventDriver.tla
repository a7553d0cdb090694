---------------------------- MODULE EventDriver ----------------------------
(***************************************************************************)
(* The event driver (crates/recorder/src/event_driver.rs): one thread that *)
(* receives what the sources derive and turns it into clips and markers.   *)
(* A highlight waits until its burst has settled; the first of a burst is  *)
(* clipped, the others are recorded beside it.                             *)
(*                                                                         *)
(* Time passes only while the driver gathers or waits for a clip, and it   *)
(* waits for the driver: an event is received, and a deadline acted on, in *)
(* the unit of time in which it is due.                                    *)
(***************************************************************************)
EXTENDS EventSink

CONSTANTS
    Quiet, MaxBurst,    \* Coalesce
    LolPre, GsiPre,     \* the pre-roll of a clip, per source
    PostRoll,           \* its post-roll
    Splice,             \* how long the splice and its answer may take
    Muted,              \* the kinds that take no clip
    MaxRecordings       \* how often a recording begins

\* A burst takes time: Coalesce::for_pre_roll gives it a second or more, and
\* at least as long as its quiet.  The pre-rolls are sized by nothing: a game's
\* own pre_seconds may be shorter than a burst.
ASSUME DriverAssumption ==
    /\ {Quiet, MaxBurst} \subseteq Nat \ {0} /\ Quiet <= MaxBurst
    /\ {LolPre, GsiPre, PostRoll, Splice} \subseteq Nat
    /\ MaxRecordings \in Nat \ {0}
    /\ Muted \subseteq Kinds

VARIABLES
    driver,       \* where the thread is
    burst,        \* the events in hand, and when each was received
    started,      \* when the burst began
    last,         \* when its last highlight was received
    trigger,      \* when the clip was asked for
    stop,         \* the driver is being dropped
    recording     \* how many recordings began, and whether one is running

driverVars == <<driver, burst, started, last, trigger, stop, recording>>

Timed == [event : Events, at_ms : Nat, of : Nat]

DriverTypes ==
    /\ driver \in {"receiving", "gathering", "clipping", "noting", "left"}
    /\ burst \in Seq(Timed)
    /\ started \in Nat /\ last \in Nat /\ trigger \in Nat
    /\ stop \in BOOLEAN
    /\ recording \in [count : 0..MaxRecordings, on : BOOLEAN]

DriverInit ==
    /\ driver = "receiving"
    /\ burst = <<>>
    /\ started = 0 /\ last = 0 /\ trigger = 0
    /\ stop = FALSE
    /\ recording \in {[count |-> 0, on |-> FALSE], [count |-> 1, on |-> TRUE]}

----------------------------------------------------------------------------
(* The recorder, as the driver sees it.                                     *)

RecordingEnds ==
    /\ recording.on
    /\ recording' = [recording EXCEPT !.on = FALSE]
    /\ TakesATurn
    /\ UNCHANGED <<driver, burst, started, last, trigger, stop, channel, closing, now>>

RecordingBegins ==
    /\ ~recording.on
    /\ recording.count < MaxRecordings
    /\ recording' = [count |-> recording.count + 1, on |-> TRUE]
    /\ TakesATurn
    /\ UNCHANGED <<driver, burst, started, last, trigger, stop, channel, closing, now>>

\* The driver is dropped: with the recorder, or at the end of the program.
DriverDropped ==
    /\ ~stop
    /\ stop' = TRUE
    /\ NoTurn
    /\ UNCHANGED <<driver, burst, started, last, trigger, recording, channel, closing, now>>

----------------------------------------------------------------------------
(* The thread.                                                              *)

Clips(event) == IsHighlight(event.kind) /\ event.kind \notin Muted
PreOf(source) == IF source = "lol" THEN LolPre ELSE GsiPre

\* Stamped when it is received, on the timeline of the running recording.
Stamped(event) == [event |-> event, at_ms |-> now, of |-> recording.count]

NoBurst == burst' = <<>> /\ started' = 0 /\ last' = 0 /\ trigger' = 0

\* An event that takes no clip is noted at once, or ignored with no recording.
ReceivesMarker ==
    /\ driver = "receiving" /\ ~stop
    /\ channel # <<>>
    /\ ~recording.on \/ ~Clips(Head(channel))
    /\ channel' = Tail(channel)
    /\ NoTurn
    /\ UNCHANGED <<driverVars, closing, now>>

\* A highlight begins a burst.
ReceivesHighlight ==
    /\ driver = "receiving" /\ ~stop
    /\ channel # <<>>
    /\ recording.on /\ Clips(Head(channel))
    /\ channel' = Tail(channel)
    /\ burst' = <<Stamped(Head(channel))>>
    /\ started' = now /\ last' = now
    /\ driver' = "gathering"
    /\ NoTurn
    /\ UNCHANGED <<trigger, stop, recording, closing, now>>

\* Mutant of Settled: the burst goes on as long as highlights come.
SettledWhenQuiet == now >= last + Quiet

\* The burst is settled: quiet since its last highlight, or as long as it may be.
Settled == now >= last + Quiet \/ now >= started + MaxBurst

\* The burst is over: it is settled, or nobody is left who could add to it.
BurstIsOver(noSource) == Settled \/ (noSource /\ channel = <<>>)

\* A marker is gathered and neither extends the burst nor ends it.
Gathers ==
    /\ driver = "gathering" /\ ~Settled
    /\ channel # <<>>
    /\ channel' = Tail(channel)
    /\ burst' = Append(burst, Stamped(Head(channel)))
    /\ last' = IF Clips(Head(channel)) THEN now ELSE last
    /\ NoTurn
    /\ UNCHANGED <<driver, started, trigger, stop, recording, closing, now>>

\* The clip is asked for, and refused at once when nothing is recorded.
AsksForClip(noSource) ==
    /\ driver = "gathering" /\ BurstIsOver(noSource)
    /\ IF recording.on
       THEN driver' = "clipping" /\ trigger' = now /\ UNCHANGED burst
       ELSE driver' = "noting" /\ burst' = Tail(burst) /\ UNCHANGED trigger
    /\ NoTurn
    /\ UNCHANGED <<started, last, stop, recording, channel, closing, now>>

\* The answer: after the post-roll, or as soon as the recording is over.
Answered == now >= trigger + PostRoll \/ ~recording.on

ClipAnswered ==
    /\ driver = "clipping"
    /\ Answered
    /\ driver' = "noting"
    /\ burst' = Tail(burst)
    /\ NoTurn
    /\ UNCHANGED <<started, last, trigger, stop, recording, channel, closing, now>>

\* What is left of the burst is recorded, event after event.
NotesNext ==
    /\ driver = "noting"
    /\ IF Len(burst) > 1
       THEN burst' = Tail(burst) /\ UNCHANGED <<driver, started, last, trigger>>
       ELSE NoBurst /\ driver' = "receiving"
    /\ NoTurn
    /\ UNCHANGED <<stop, recording, channel, closing, now>>

\* The loop ends between two bursts; the receiver goes first.
Leaves(noSource) ==
    /\ driver = "receiving"
    /\ stop \/ (noSource /\ channel = <<>>)
    /\ driver' = "left"
    /\ closing' = "lol"
    /\ channel' = <<>>
    /\ NoTurn
    /\ UNCHANGED <<burst, started, last, trigger, stop, recording, now>>

\* Each handle waits for its own thread before the next one is dropped.
DropsNextSource(from, to) ==
    /\ closing = from
    /\ closing' = to
    /\ NoTurn
    /\ UNCHANGED <<driverVars, channel, now>>

\* Time passes while the driver waits for something that is not due.
Tick(noSource) ==
    /\ \/ driver = "gathering" /\ ~BurstIsOver(noSource) /\ channel = <<>>
       \/ driver = "clipping" /\ now < trigger + PostRoll + Splice
    /\ now' = now + 1
    /\ NoTurn
    /\ UNCHANGED <<driverVars, channel, closing>>

RecorderMoves == RecordingEnds \/ RecordingBegins \/ DriverDropped

DriverStep(noSource) ==
    \/ ReceivesMarker \/ ReceivesHighlight \/ Gathers
    \/ AsksForClip(noSource) \/ ClipAnswered \/ NotesNext
=============================================================================
