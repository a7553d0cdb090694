---------------------------- MODULE CapturePump -----------------------------
(***************************************************************************)
(* Frames from the compositor to the encoder: the capture pool and its     *)
(* arrival handler (crates/capture/src/wgc.rs), the wait on it             *)
(* (crates/capture/src/lib.rs), the pacer and the pump                     *)
(* (crates/recorder/src/pump.rs), and the queue of textures in front of    *)
(* the hardware encoder (crates/encoder/src/mft.rs).                       *)
(*                                                                         *)
(* Three threads share them: the pool's worker, which reports arrivals;    *)
(* the pump; and the encoder, which reads the textures it was handed.  The *)
(* compositor is external.  A frame is the number of its presentation, and *)
(* time is counted in polls of FRAME_POLL; any step may take any time.     *)
(***************************************************************************)
EXTENDS Integers, Sequences, SequencesExt, FiniteSetsExt

CONSTANTS
    Interval,        \* polls between two slots of the pacer
    BUFFER_COUNT,    \* frames the pool holds, the unclosed one included
    DEPTH,           \* textures of the handover ring
    QUEUE_DEPTH,     \* textures waiting for the encoder
    Frames,          \* bound: frames presented
    EndTime          \* bound: polls

ASSUME CaptureAssumption ==
    /\ {Interval, BUFFER_COUNT, DEPTH, QUEUE_DEPTH} \subseteq Nat \ {0}
    /\ Frames \in Nat /\ EndTime \in Nat

VARIABLES
    now,
    presented,   \* frames presented so far
    screen,      \* whether the screen still has the size it started with
    pool,        \* the frames the pool holds
    taken,       \* frames taken from the pool and not closed
    arrivals,    \* presentations the handler has not reported yet
    arrived,     \* FrameSignal's flag
    textures,    \* whether frames are handed over as textures
    pump,        \* where the pump is, and until when it waits
    frame,       \* the frame the pump has
    ring,        \* Handover: the next slot, and the frame each slot shows
    next_due,    \* FramePacer
    feed,        \* textures waiting for the encoder
    encoding,    \* the texture the encoder reads
    commits      \* the last commit, and how far the commits up to it ran ahead
                 \* of the pacer's rate (history)

poolVars == <<presented, screen, pool, taken, arrivals>>
encodeVars == <<feed, encoding>>
captureVars == <<now, poolVars, arrived, textures, pump, frame, ring, next_due,
                 encodeVars, commits>>

NoFrame == [id |-> 0]

\* WgcCapture::new builds the session, so frames arrive before start.
CaptureInit(delivers) ==
    /\ now = 0 /\ presented = 0 /\ screen = TRUE
    /\ pool = <<>> /\ taken = 0 /\ arrivals = 0 /\ arrived = FALSE
    /\ textures = delivers
    /\ pump = [at |-> "new", until |-> 0]
    /\ frame = NoFrame
    /\ ring = [next |-> 0, shows |-> [s \in 0..(DEPTH - 1) |-> 0]]
    /\ next_due = 0
    /\ feed = <<>> /\ encoding = NoFrame
    /\ commits = [last |-> 0, ahead |-> 0]

GoTo(where) == pump' = [at |-> where, until |-> 0]
StayUntil(where) == pump' = [pump EXCEPT !.at = where]
GoUntil(where, when) == pump' = [at |-> where, until |-> when]

----------------------------------------------------------------------------
(* The compositor and the pool's worker thread.                             *)

CaptureTicks ==
    /\ now < EndTime
    /\ now' = now + 1
    /\ UNCHANGED <<poolVars, arrived, textures, pump, frame, ring, next_due,
                   encodeVars, commits>>

\* A frame is delivered only into a free buffer of the pool.
Present ==
    /\ pump.at # "stopped" /\ presented < Frames
    /\ Len(pool) + taken < BUFFER_COUNT
    /\ presented' = presented + 1
    /\ pool' = Append(pool, [id |-> presented', same |-> screen])
    /\ arrivals' = arrivals + 1
    /\ UNCHANGED <<now, screen, taken, arrived, textures, pump, frame, ring, next_due,
                   encodeVars, commits>>

ScreenChanges ==
    /\ screen /\ pump.at # "stopped"
    /\ screen' = FALSE
    /\ UNCHANGED <<now, presented, pool, taken, arrivals, arrived, textures, pump, frame,
                   ring, next_due, encodeVars, commits>>

\* The FrameArrived handler: FrameSignal::arrive.
FrameArrived ==
    /\ arrivals > 0
    /\ arrivals' = arrivals - 1
    /\ arrived' = TRUE
    /\ IF pump.at = "asleep" THEN StayUntil("woken") ELSE UNCHANGED pump
    /\ UNCHANGED <<now, presented, screen, pool, taken, textures, frame, ring,
                   next_due, encodeVars, commits>>

----------------------------------------------------------------------------
(* The pump.                                                                *)

\* FramePacer::new, when the loop starts.
Start ==
    /\ pump.at = "new"
    /\ GoTo("idle")
    /\ next_due' = now
    /\ UNCHANGED <<now, poolVars, arrived, textures, frame, ring, encodeVars, commits>>

is_due == now >= next_due

\* pump_once with a slot: next_frame(FRAME_POLL).
NextFrame ==
    /\ pump.at = "idle" /\ is_due
    /\ GoUntil("look", now + 1)
    /\ UNCHANGED <<now, poolVars, arrived, textures, frame, ring, next_due, encodeVars,
                   commits>>

\* pump_once without one: the pool is emptied, and the pump sleeps.
discard_pending ==
    /\ pump.at = "idle" /\ ~is_due
    /\ pool' = <<>>
    /\ GoUntil("sleep", Min({next_due, now + 1}))
    /\ UNCHANGED <<now, presented, screen, taken, arrivals, arrived, textures, frame,
                   ring, next_due, encodeVars, commits>>

SleepEnds ==
    /\ pump.at = "sleep" /\ now >= pump.until
    /\ GoTo("idle")
    /\ UNCHANGED <<now, poolVars, arrived, textures, frame, ring, next_due, encodeVars,
                   commits>>

\* poll_frame finds a frame: it is the pump's until it is closed.
TakeFrame ==
    /\ pump.at \in {"look", "last"} /\ pool # <<>>
    /\ frame' = Head(pool)
    /\ pool' = Tail(pool)
    /\ taken' = taken + 1
    /\ GoTo("copy")
    /\ UNCHANGED <<now, presented, screen, arrivals, arrived, textures, ring, next_due,
                   encodeVars, commits>>

\* take_or_wait finds none: after the deadline, or after the last look, the
\* call returns without a frame.
NoFrameThere ==
    /\ pump.at \in {"look", "last"} /\ pool = <<>>
    /\ IF pump.at = "last" \/ now >= pump.until THEN GoTo("idle") ELSE StayUntil("wait")
    /\ UNCHANGED <<now, poolVars, arrived, textures, frame, ring, next_due, encodeVars,
                   commits>>

\* FrameSignal::wait: a report already there is consumed and nothing waits.
wait ==
    /\ pump.at = "wait"
    /\ arrived' = FALSE
    /\ StayUntil(IF arrived THEN "look" ELSE "asleep")
    /\ UNCHANGED <<now, poolVars, textures, frame, ring, next_due, encodeVars, commits>>

\* The wait runs out, or the condition variable wakes by itself.
WaitRunsOut ==
    /\ pump.at = "asleep"
    /\ StayUntil("woken")
    /\ UNCHANGED <<now, poolVars, arrived, textures, frame, ring, next_due, encodeVars,
                   commits>>

Woken ==
    /\ pump.at = "woken"
    /\ arrived' = FALSE
    /\ StayUntil(IF arrived THEN "look" ELSE "last")
    /\ UNCHANGED <<now, poolVars, textures, frame, ring, next_due, encodeVars, commits>>

\* copy_out into the ring's next texture (Handover::texture); the frame's slot
\* is where its picture is.
handover_texture ==
    /\ ring' = [next |-> (ring.next + 1) % DEPTH,
                shows |-> [ring.shows EXCEPT ![ring.next] = frame.id]]
    /\ frame' = [id |-> frame.id, same |-> frame.same, slot |-> ring.next]

copy_out == IF textures THEN handover_texture ELSE UNCHANGED <<ring, frame>>

\* The frame is closed whether or not the copy worked.
CloseFrame(copied) == taken' = taken - 1

\* poll_frame ends: with the frame, or with the copy's error.
FrameIsOut ==
    /\ pump.at = "copy"
    /\ copy_out
    /\ CloseFrame(TRUE)
    /\ GoTo("submit")
    /\ UNCHANGED <<now, presented, screen, pool, arrivals, arrived, textures, next_due,
                   encodeVars, commits>>

CopyFails ==
    /\ pump.at = "copy"
    /\ CloseFrame(FALSE)
    /\ frame' = NoFrame
    /\ GoTo("failed")
    /\ UNCHANGED <<now, presented, screen, pool, arrivals, arrived, textures, ring, next_due,
                   encodeVars, commits>>

\* Mutant of commit: a stall is caught up slot by slot.
commitEverySlot(at) == next_due + Interval

\* FramePacer::commit: the next slot; two slots behind, the cadence starts anew.
commit(at) ==
    IF at - (next_due + Interval) >= 2 * Interval THEN at + Interval ELSE next_due + Interval

\* guard_frame_size, commit, submit_video.  A texture the queue has no room for
\* is dropped and counted (MftFeed::submit).
Submit ==
    /\ pump.at = "submit" /\ frame.same
    /\ next_due' = commit(now)
    /\ commits' = [last |-> now,
                   ahead |-> Interval + Max({0, commits.ahead - (now - commits.last)})]
    /\ feed' = IF textures /\ Len(feed) < QUEUE_DEPTH
               THEN Append(feed, [id |-> frame.id, slot |-> frame.slot]) ELSE feed
    /\ frame' = NoFrame
    /\ GoTo("idle")
    /\ UNCHANGED <<now, poolVars, arrived, textures, ring, encoding>>

guard_frame_size ==
    /\ pump.at = "submit" /\ ~frame.same
    /\ frame' = NoFrame
    /\ GoTo("failed")
    /\ UNCHANGED <<now, poolVars, arrived, textures, ring, next_due, encodeVars, commits>>

\* WgcCapture::stop: the session, the handler and the pool are closed.
stop ==
    /\ pump.at \in {"idle", "failed"}
    /\ pool' = <<>> /\ arrivals' = 0
    /\ GoTo("stopped")
    /\ UNCHANGED <<now, presented, screen, taken, arrived, textures, frame, ring,
                   next_due, encodeVars, commits>>

----------------------------------------------------------------------------
(* The encoder's thread.                                                    *)

EncoderReads ==
    /\ encoding = NoFrame /\ feed # <<>>
    /\ encoding' = Head(feed)
    /\ feed' = Tail(feed)
    /\ UNCHANGED <<now, poolVars, arrived, textures, pump, frame, ring, next_due,
                   commits>>

EncoderHasRead ==
    /\ encoding # NoFrame
    /\ encoding' = NoFrame
    /\ UNCHANGED <<now, poolVars, arrived, textures, pump, frame, ring, next_due, feed,
                   commits>>

CaptureNext ==
    \/ CaptureTicks \/ Present \/ ScreenChanges \/ FrameArrived
    \/ Start \/ NextFrame \/ discard_pending \/ SleepEnds
    \/ TakeFrame \/ NoFrameThere \/ wait \/ WaitRunsOut \/ Woken
    \/ FrameIsOut \/ CopyFails \/ Submit \/ guard_frame_size \/ stop
    \/ EncoderReads \/ EncoderHasRead

----------------------------------------------------------------------------
(* Properties.                                                              *)

\* The capture is never starved by its own pump.  The pump does not sleep beside
\* a frame nobody will report: while the pool holds one, the handler has yet to
\* run (FrameSignal, take_or_wait).  And every frame taken is closed, the one
\* whose copy failed too: the pool is short of a buffer only while a frame is
\* being copied (poll_frame).
CaptureIsNotStarved ==
    /\ pump.at = "asleep" /\ pool # <<>> => arrivals > 0
    /\ taken = IF pump.at = "copy" THEN 1 ELSE 0

\* However long the capture or the encoder stalled, the pacer catches up at most
\* two slots: no stretch of commits is denser than its rate by more.  And it
\* never lets a slot pass that a frame could have had (FramePacer).
PaceIsKept ==
    /\ commits.ahead < 4 * Interval
    /\ commits.ahead > 0 => next_due <= commits.last + Interval

\* What QUEUE_DEPTH promises: a texture still waiting for the encoder, or being
\* read by it, shows the frame it was handed over with.
HandoverIsNotOverwritten ==
    \A held \in {feed[i] : i \in DOMAIN feed} \cup ({encoding} \ {NoFrame}) :
       ring.shows[held.slot] = held.id

----------------------------------------------------------------------------
(***************************************************************************)
(* The capture's clock (crates/capture/src/lib.rs): a frame's place on the *)
(* recording's timeline, from the compositor's stamp and the wall clock at *)
(* which the frame was taken.  The two run at one rate and are read after  *)
(* two different delays; a frame may wait in the pool for any time, and    *)
(* the pool may fail to stamp one.                                         *)
(***************************************************************************)

CONSTANTS
    Intervals,   \* how much time may pass on either clock between two frames
    ClockEnd     \* bound: the last frame, on either clock

ASSUME ClockAssumption == Intervals \subseteq Nat /\ ClockEnd \in Nat

VARIABLES
    wall,     \* the wall clock when the last frame was taken
    stamped,  \* the compositor's stamp of the last frame
    last,     \* CaptureClock::last, and the time of the frame given last
    anchor,   \* where the stretch of stamped frames began (history)
    agreed    \* no stamp of this stretch was refused (history)

clockVars == <<wall, stamped, last, anchor, agreed>>

NoStamp == -1

ClockInit ==
    /\ wall = 0 /\ stamped = 0 /\ agreed = TRUE
    /\ last = [at |-> 0, stamp |-> NoStamp, now |-> 0]
    /\ anchor = last

\* Within a factor of two, or both nothing.
agree(shown, passed) ==
    \/ shown = 0 /\ passed = 0
    \/ shown > 0 /\ passed > 0 /\ shown * 2 >= passed /\ passed * 2 >= shown

\* A frame without a stamp is at the moment it was taken, and ends the stretch.
Stampless ==
    \E passed \in Intervals :
       /\ wall + passed <= ClockEnd
       /\ wall' = wall + passed
       /\ last' = [at |-> wall', stamp |-> NoStamp, now |-> wall']
       /\ anchor' = last'
       /\ agreed' = TRUE
       /\ UNCHANGED stamped

\* CaptureClock::at for a stamped frame.  The first of a stretch is put at the
\* wall clock, the next ones an interval after the frame before.
Stamped ==
    \E passed, shown \in Intervals :
       LET interval == IF agree(shown, passed) THEN shown ELSE passed
           first == last.stamp = NoStamp
       IN  /\ wall + passed <= ClockEnd /\ stamped + shown <= ClockEnd
           /\ wall' = wall + passed
           /\ stamped' = stamped + shown
           /\ last' = [at |-> IF first THEN wall' ELSE last.at + interval,
                       stamp |-> stamped', now |-> wall']
           /\ anchor' = IF first THEN last' ELSE anchor
           /\ agreed' = (first \/ (agreed /\ agree(shown, passed)))

ClockNext == Stampless \/ Stamped

\* Over a stretch of stamped frames, however the stamps and the delays went, the
\* timeline has run at no less than half and no more than twice the wall clock's
\* rate, and exactly the compositor's while no stamp was refused (CaptureClock).
TimelineKeepsItsRate ==
    last.stamp # NoStamp =>
       LET given == last.at - anchor.at
           passed == last.now - anchor.now
       IN  /\ 2 * given >= passed /\ given <= 2 * passed
           /\ agreed => given = last.stamp - anchor.stamp
=============================================================================
