-------------------------- MODULE HardwareEncoder --------------------------
(***************************************************************************)
(* The hardware encoder on its own thread (crates/encoder/src/mft.rs):     *)
(* textures come in through a queue two deep, the transform encodes them   *)
(* when it chooses, and what it finishes is handed to the video queue of   *)
(* the child with the capture time it is paired with.                      *)
(*                                                                         *)
(* The transform is Media Foundation's: it asks for input, announces       *)
(* output, changes its type and fails in its own time.  A frame is the     *)
(* number of its capture, which is also its capture time.                  *)
(***************************************************************************)
EXTENDS Integers, Sequences, FiniteSets, SequencesExt

CONSTANTS
    Frames,          \* how many frames are captured
    QUEUE_DEPTH,     \* textures that may wait for the encoder
    VideoDepth,      \* chunks that may wait for the child
    Slots,           \* frames the transform holds
    RENEGOTIATION_ATTEMPTS,
    TransformFaults  \* how often the transform may misbehave

ASSUME HardwareAssumption ==
    /\ {Frames, TransformFaults} \subseteq Nat
    /\ {QUEUE_DEPTH, VideoDepth, Slots, RENEGOTIATION_ATTEMPTS} \subseteq Nat \ {0}

VARIABLES
    textures,    \* the queue in front of the thread
    handed,      \* the feed still has its sender
    feed,        \* where the thread is
    texture,     \* the frame it has in hand
    transform,   \* Media Foundation's transform
    events,      \* the transform's event queue
    pairing,     \* FramePairing: capture times of the frames handed over
    units,       \* what an exchange with the transform has produced
    misread,     \* a finished sample was lost behind the transform (history)
    video,       \* the video queue
    senders,     \* who holds a sender of it
    readable,    \* its reader is there
    unencoded,   \* frames counted as never encoded
    hwFaults     \* what the transform may still get wrong

hwVars == <<textures, handed, feed, texture, transform, events, pairing, units,
            misread, unencoded, hwFaults>>
queueVars == <<video, senders, readable>>

NoTime == 0
Header == 0
Frame  == 1..Frames
Chunk  == [frame : Frame \cup {Header}, captured_at : Frame \cup {NoTime}]
Busy   == {"header", "asking", "collecting", "handing", "finishing", "tail"}

HardwareTypes ==
    /\ textures \in Seq(Frame) /\ Len(textures) <= QUEUE_DEPTH
    /\ handed \in BOOLEAN /\ misread \in BOOLEAN
    /\ feed \in {"absent", "receiving", "ended"} \cup Busy
    /\ texture \in Frame \cup {Header}
    /\ transform \in [open : BOOLEAN, asked : 0..Slots, inside : Seq(Frame),
                      finished : 0..Frames, changes : 0..RENEGOTIATION_ATTEMPTS,
                      usable : BOOLEAN]
    /\ events \in Seq({"need", "output"})
    /\ pairing \in Seq(Frame)
    /\ units \in Seq(Chunk)
    /\ video \in Seq(Chunk) /\ Len(video) <= VideoDepth
    /\ senders \subseteq {"pump", "feed"} /\ readable \in BOOLEAN
    /\ unencoded \in Nat
    /\ hwFaults \in 0..TransformFaults

NoTransform == [open |-> FALSE, asked |-> 0, inside |-> <<>>, finished |-> 0,
                changes |-> 0, usable |-> TRUE]

\* MftFeed::spawn, for a recording whose video arrives encoded.
HardwareInit(present) ==
    /\ textures = <<>> /\ handed = present
    /\ feed = IF present THEN "receiving" ELSE "absent"
    /\ texture = Header
    /\ transform = NoTransform /\ events = <<>> /\ pairing = <<>> /\ units = <<>>
    /\ misread = FALSE
    /\ video = <<>> /\ readable = TRUE
    /\ senders = {"pump"} \cup IF present THEN {"feed"} ELSE {}
    /\ unencoded = 0
    /\ hwFaults = TransformFaults

----------------------------------------------------------------------------
(* The transform.                                                           *)

Transform(changed) ==
    /\ transform' = changed
    /\ UNCHANGED <<textures, handed, feed, texture, pairing, units,
                   misread, unencoded>>
    /\ UNCHANGED queueVars

\* It asks once for each frame it has room for.
TransformAsks ==
    /\ transform.open /\ feed # "finishing"
    /\ transform.asked + Len(transform.inside) < Slots
    /\ Transform([transform EXCEPT !.asked = @ + 1])
    /\ events' = Append(events, "need")
    /\ UNCHANGED hwFaults

TransformFinishes ==
    /\ transform.open
    /\ transform.finished < Len(transform.inside)
    /\ Transform([transform EXCEPT !.finished = @ + 1])
    /\ events' = Append(events, "output")
    /\ UNCHANGED hwFaults

\* It changes its output type, once or several times over, and offers types
\* of which one can or none can replace the one it had.
TransformChangesType ==
    /\ transform.open /\ hwFaults > 0 /\ transform.changes = 0
    /\ \E n \in 1..RENEGOTIATION_ATTEMPTS, usable \in BOOLEAN :
           Transform([transform EXCEPT !.changes = n, !.usable = usable])
    /\ hwFaults' = hwFaults - 1
    /\ UNCHANGED events

TransformMoves == TransformAsks \/ TransformFinishes \/ TransformChangesType

----------------------------------------------------------------------------
(* Taking output.                                                           *)

\* renegotiate_output_type inside take_output: the streams are renegotiated as
\* long as the transform offers a type, and not for ever.
Renegotiates == transform.usable /\ transform.changes < RENEGOTIATION_ATTEMPTS

\* Mutant of Finished: a frame given the time of the one handed over last.
FinishedNewest(frame) ==
    [frame |-> frame, captured_at |-> IF pairing = <<>> THEN NoTime ELSE Last(pairing)]

\* FramePairing::finished: the oldest frame handed over.
Finished(frame) ==
    [frame |-> frame, captured_at |-> IF pairing = <<>> THEN NoTime ELSE Head(pairing)]

\* The sample is taken, and the type set again before it where that was asked.
TakesSample ==
    /\ transform.finished > 0
    /\ transform.changes = 0 \/ Renegotiates
    /\ units' = Append(units, Finished(Head(transform.inside)))
    /\ pairing' = IF pairing = <<>> THEN <<>> ELSE Tail(pairing)
    /\ transform' = [transform EXCEPT !.inside = Tail(@), !.finished = @ - 1, !.changes = 0]
    /\ UNCHANGED <<misread, hwFaults>>

\* The type cannot be set again, ProcessOutput fails, or the sample it gave
\* cannot be read.
TakeFails ==
    \/ /\ transform.changes > 0 /\ ~Renegotiates
       /\ UNCHANGED <<transform, misread, hwFaults>>
    \/ /\ transform.changes = 0 /\ hwFaults > 0
       /\ hwFaults' = hwFaults - 1
       /\ UNCHANGED <<transform, misread>>
    \/ /\ transform.changes = 0 /\ transform.finished > 0 /\ hwFaults > 0
       /\ hwFaults' = hwFaults - 1
       /\ transform' = [transform EXCEPT !.inside = Tail(@), !.finished = @ - 1]
       /\ misread' = TRUE

----------------------------------------------------------------------------
(* Opening.                                                                 *)

\* The thread is over: its end of the queues is dropped, and the encoder.
EndsFeed(taken) ==
    /\ feed' = "ended"
    /\ senders' = senders \ {"feed"}
    /\ textures' = <<>> /\ texture' = Header
    /\ video' = video \o taken
    /\ transform' = NoTransform /\ events' = <<>> /\ pairing' = <<>> /\ units' = <<>>
    /\ UNCHANGED readable

Receives ==
    /\ feed = "receiving" /\ textures # <<>>
    /\ texture' = Head(textures) /\ textures' = Tail(textures)
    /\ \/ /\ transform.open
          /\ feed' = "asking"
          /\ UNCHANGED <<transform, unencoded, hwFaults>>
       \/ /\ ~transform.open
          /\ transform' = [transform EXCEPT !.open = TRUE]
          /\ feed' = "header"
          /\ UNCHANGED <<unencoded, hwFaults>>
       \/ /\ ~transform.open /\ hwFaults > 0      \* published no usable header
          /\ hwFaults' = hwFaults - 1
          /\ transform' = [transform EXCEPT !.open = TRUE]
          /\ feed' = "asking"
          /\ UNCHANGED unencoded
       \/ /\ ~transform.open /\ hwFaults > 0      \* cannot be opened, this time
          /\ hwFaults' = hwFaults - 1
          /\ unencoded' = unencoded + 1
          /\ UNCHANGED <<feed, transform>>
    /\ UNCHANGED <<events, pairing, units, misread, queueVars, handed>>

\* It was opened and does not start: the thread is over.
CannotStart ==
    /\ feed = "receiving" /\ textures # <<>> /\ ~transform.open /\ hwFaults > 0
    /\ hwFaults' = hwFaults - 1
    /\ EndsFeed(<<>>)
    /\ UNCHANGED <<misread, unencoded, handed>>

\* The channel is closed and empty.
FeedClosed ==
    /\ feed = "receiving" /\ textures = <<>> /\ ~handed
    /\ IF transform.open
         THEN /\ feed' = "finishing"
              /\ UNCHANGED <<textures, texture, transform, events, pairing, units, queueVars>>
         ELSE EndsFeed(<<>>)
    /\ UNCHANGED <<misread, unencoded, hwFaults, handed>>

----------------------------------------------------------------------------
(* Handing over to the video queue.                                         *)

HasRoom == Len(video) < VideoDepth

\* hand_over of the header, before the first frame: queued, or dropped where
\* it found no room, and the frame goes on without it; with nobody to read it
\* the thread is over before it has kept the encoder.
HeaderHanded ==
    /\ feed = "header"
    /\ IF readable
         THEN /\ video' = IF HasRoom THEN Append(video, [frame |-> Header, captured_at |-> NoTime])
                                      ELSE video
              /\ feed' = "asking"
              /\ UNCHANGED <<textures, texture, transform, events, pairing, units, senders, readable>>
         ELSE EndsFeed(<<>>)
    /\ UNCHANGED <<misread, unencoded, hwFaults, handed>>

\* Mutant of HandOver: a frame that finds no room waits for it, for ever.
WaitsForRoom ==
    /\ feed = "handing" /\ units # <<>>
    /\ \/ /\ readable /\ HasRoom
          /\ video' = Append(video, Head(units)) /\ units' = Tail(units)
       \/ ~readable /\ units' = <<>> /\ UNCHANGED video
    /\ UNCHANGED <<textures, feed, texture, transform, events, pairing, misread, senders,
                   readable, unencoded, hwFaults, handed>>

\* hand_over: queued; or dropped, stopping or out of budget; or, with nobody
\* to read it, the rest of the exchange is dropped with it.
HandOver ==
    /\ feed = "handing" /\ units # <<>>
    /\ \/ /\ readable /\ HasRoom
          /\ video' = Append(video, Head(units)) /\ units' = Tail(units)
       \/ readable /\ ~HasRoom /\ units' = Tail(units) /\ UNCHANGED video
       \/ ~readable /\ units' = <<>> /\ UNCHANGED video
    /\ UNCHANGED <<textures, feed, texture, transform, events, pairing, misread, senders,
                   readable, unencoded, hwFaults, handed>>

HandedAll ==
    /\ feed = "handing" /\ units = <<>>
    /\ feed' = "receiving"
    /\ UNCHANGED <<textures, texture, transform, events, pairing, units, misread, unencoded,
                   hwFaults, queueVars, handed>>

----------------------------------------------------------------------------
(* The exchange with the transform.                                         *)

\* pump_events, asked for input: the texture in hand is pushed.
Pushes ==
    /\ feed = "asking" /\ events # <<>> /\ Head(events) = "need"
    /\ events' = Tail(events)
    /\ pairing' = Append(pairing, texture)
    /\ transform' = [transform EXCEPT !.asked = @ - 1, !.inside = Append(@, texture)]
    /\ feed' = "collecting"
    /\ UNCHANGED <<textures, texture, units, misread, unencoded, hwFaults, queueVars, handed>>

Announced ==
    /\ feed \in {"asking", "collecting", "finishing"}
    /\ events # <<>> /\ Head(events) = "output"
    /\ events' = Tail(events)
    /\ UNCHANGED <<textures, texture, unencoded, queueVars, handed>>

OutputTaken == Announced /\ TakesSample /\ UNCHANGED feed

\* What a failure means depends on where it is met: before the push it ends
\* the stream, behind the push nobody looks, and in the drain it ends the
\* drain.  What the exchange had produced is lost with it, except behind the
\* push.
OutputRefused ==
    /\ Announced /\ TakeFails
    /\ feed' = CASE feed = "asking"     -> "finishing"
                 [] feed = "collecting" -> "handing"
                 [] feed = "finishing"  -> "tail"
    /\ units' = IF feed = "collecting" THEN units ELSE <<>>
    /\ UNCHANGED pairing

\* pump_events returns at a request for input, whoever called it.
RequestPassedOver ==
    /\ feed \in {"collecting", "finishing"}
    /\ events # <<>> /\ Head(events) = "need"
    /\ events' = Tail(events)
    /\ feed' = IF feed = "collecting" THEN "handing" ELSE feed
    /\ UNCHANGED <<textures, texture, transform, pairing, units, misread, unencoded,
                   hwFaults, queueVars, handed>>

NothingQueued ==
    /\ feed = "collecting" /\ events = <<>>
    /\ feed' = "handing"
    /\ UNCHANGED <<textures, texture, transform, events, pairing, units, misread, unencoded,
                   hwFaults, queueVars, handed>>

\* The deadline of encode_texture: what it had collected is not returned.
GivesUp ==
    /\ feed = "asking" /\ events = <<>>
    /\ feed' = "finishing" /\ units' = <<>>
    /\ UNCHANGED <<textures, texture, transform, events, pairing, misread, unencoded,
                   hwFaults, queueVars, handed>>

DrainDeadline ==
    /\ feed = "finishing"
    /\ feed' = "tail"
    /\ UNCHANGED <<textures, texture, transform, events, pairing, units, misread, unencoded,
                   hwFaults, queueVars, handed>>

\* The tail goes into the queue as far as it fits.
TailQueued ==
    /\ feed = "tail"
    /\ EndsFeed(IF readable THEN SubSeq(units, 1, Min({Len(units), VideoDepth - Len(video)})) ELSE <<>>)
    /\ UNCHANGED <<misread, unencoded, hwFaults, handed>>

FeedStep ==
    \/ Receives \/ CannotStart \/ FeedClosed
    \/ HeaderHanded \/ HandOver \/ HandedAll
    \/ Pushes \/ OutputTaken \/ OutputRefused \/ RequestPassedOver \/ NothingQueued
    \/ GivesUp \/ DrainDeadline \/ TailQueued

----------------------------------------------------------------------------
(* What the pump calls.                                                     *)

\* MftFeed::submit: never waits, and a full queue drops and counts the frame.
\* A thread that is gone takes nothing and nothing is said.
Submit(frame) ==
    /\ feed # "absent" /\ handed
    /\ IF feed = "ended" THEN UNCHANGED <<textures, unencoded>>
       ELSE IF Len(textures) < QUEUE_DEPTH
              THEN textures' = Append(textures, frame) /\ UNCHANGED unencoded
              ELSE unencoded' = unencoded + 1 /\ UNCHANGED textures
    /\ UNCHANGED <<handed, feed, texture, transform, events, pairing, units,
                   misread, hwFaults>>

\* MftFeed::shutdown, up to its join.
TellFeedToStop ==
    /\ handed' = FALSE
    /\ UNCHANGED <<textures, feed, texture, transform, events, pairing, units, misread,
                   unencoded, hwFaults>>
=============================================================================
