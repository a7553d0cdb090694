--------------------------- MODULE EncoderChild ----------------------------
(***************************************************************************)
(* The ffmpeg child and its inputs (crates/encoder/src/ffmpeg.rs): a pipe  *)
(* for the video and a loopback socket per audio track, each behind a      *)
(* bounded queue and written by a thread of its own, so that submitting    *)
(* never waits.  Closing has an order, because the threads end only when   *)
(* their channels or the child do.                                         *)
(*                                                                         *)
(* The child is ffmpeg: it dials the audio inputs in the order of its      *)
(* arguments, reads, stops reading, or exits, all in its own time.  A      *)
(* block of audio is one unit long.                                        *)
(***************************************************************************)
EXTENDS HardwareEncoder

CONSTANTS
    Blocks,          \* audio blocks submitted per track
    AudioDepth       \* units of the queue of a track

ASSUME ChildAssumption == Blocks \in Nat /\ AudioDepth \in Nat \ {0}

VARIABLES
    textured,    \* the video arrives encoded (VideoInput)
    tracks,      \* per track: its queue, debt, writer and what was written
    child,       \* [state, status, killed]
    writer,      \* the video writer
    written,     \* the frames the child has been written
    captured,    \* frames submitted
    dropped,     \* frames that found the video queue full
    owner,       \* where the owner is: open, or how far it has closed
    closing,     \* "no", "finish" or "drop"
    result       \* what finish returned

childVars == <<textured, tracks, child, writer, written, captured, dropped, owner, closing, result>>
encoderVars == <<hwVars, queueVars, childVars>>

Track == {"game", "mic"}
Silence == 0
Piece == [block : 0..Blocks, length : 1..Blocks]

Steps == <<"open", "feed", "inputs", "child", "video", "audio", "done">>

ChildTypes ==
    /\ textured \in BOOLEAN
    /\ \A t \in DOMAIN tracks :
          /\ t \in Track
          /\ tracks[t].queue \in Seq(Piece) /\ Len(tracks[t].queue) <= AudioDepth
          /\ tracks[t].written \in Seq(Piece)
          /\ tracks[t].owed \in 0..Blocks /\ tracks[t].dropped \in 0..Blocks
          /\ tracks[t].submitted \in 0..Blocks
          /\ tracks[t].open \in BOOLEAN
          /\ tracks[t].writer \in {"accepting", "running", "ended", "failed", "deadline"}
    /\ child \in [state : {"running", "stuck", "exited"},
                  status : {"none", "ok", "failed"}, killed : BOOLEAN]
    /\ writer \in {"running", "ended", "failed"}
    /\ written \in Seq(Chunk)
    /\ captured \in 0..Frames /\ dropped \in 0..Frames
    /\ owner \in Range(Steps)
    /\ closing \in {"no", "finish", "drop"}
    /\ result \in {"none", "ok", "deadline", "status", "writer"}

NewTrack == [queue |-> <<>>, owed |-> 0, dropped |-> 0, submitted |-> 0, open |-> TRUE,
             writer |-> "accepting", written |-> <<>>]

\* FfmpegEncoder::spawn: a microphone comes only beside the game's audio.
EncoderInit(hardware, inputs) ==
    /\ inputs \in {{}, {"game"}, Track}
    /\ HardwareInit(hardware)
    /\ textured = hardware
    /\ tracks = [t \in inputs |-> NewTrack]
    /\ child = [state |-> "running", status |-> "none", killed |-> FALSE]
    /\ writer = "running" /\ written = <<>>
    /\ captured = 0 /\ dropped = 0
    /\ owner = "open" /\ closing = "no" /\ result = "none"

----------------------------------------------------------------------------
(* Submitting.                                                              *)

\* submit_video: a texture goes to the hardware encoder; pixels go into the
\* queue, or are dropped and counted.  With no writer left it is an error and
\* nothing changes.
SubmitsVideo ==
    /\ owner = "open" /\ captured < Frames
    /\ captured' = captured + 1
    /\ IF textured THEN Submit(captured + 1) /\ UNCHANGED <<video, senders, readable, dropped>>
       ELSE /\ IF ~readable THEN UNCHANGED <<video, dropped>>
               ELSE IF HasRoom
                 THEN /\ video' = Append(video, [frame |-> captured + 1, captured_at |-> captured + 1])
                      /\ UNCHANGED dropped
                 ELSE dropped' = dropped + 1 /\ UNCHANGED video
            /\ UNCHANGED <<hwVars, senders, readable>>
    /\ UNCHANGED <<textured, tracks, child, writer, written, owner, closing, result>>

Data(n) == [block |-> n, length |-> 1]
Quiet(n) == [block |-> Silence, length |-> n]

\* enqueue_audio: the silence owed goes first, in one piece, and the block
\* only behind it; what does not fit is owed in turn.
Enqueued(track, n) ==
    LET room == AudioDepth - Len(track.queue)
        pays == track.owed > 0 /\ room > 0
        debt == IF pays THEN 0 ELSE track.owed
        paid == IF pays THEN <<Quiet(track.owed)>> ELSE <<>>
        data == IF debt = 0 /\ room > Len(paid) THEN <<Data(n)>> ELSE <<>>
    IN  [track EXCEPT !.queue = @ \o paid \o data,
                      !.owed = debt + 1 - Len(data),
                      !.dropped = @ + 1 - Len(data),
                      !.submitted = n]

Writing(track) == track.writer \in {"accepting", "running"}

\* submit_audio and submit_mic_audio.
SubmitsAudio(t) ==
    /\ owner = "open" /\ tracks[t].submitted < Blocks /\ Writing(tracks[t])
    /\ tracks' = [tracks EXCEPT ![t] = Enqueued(@, tracks[t].submitted + 1)]
    /\ UNCHANGED <<hwVars, queueVars, textured, child, writer, written, captured, dropped,
                   owner, closing, result>>

----------------------------------------------------------------------------
(* The writers.                                                             *)

EndsWriter(how) ==
    /\ writer' = how /\ readable' = FALSE /\ video' = <<>>
    /\ UNCHANGED <<senders, written>>

\* pump_video (its pacing is in FrameSchedule): it blocks while the child does
\* not read, and fails once the child is gone.
VideoWrites ==
    /\ writer = "running"
    /\ \/ /\ video # <<>> /\ child.state = "running"
          /\ \A t \in DOMAIN tracks : tracks[t].writer # "accepting"
          /\ written' = Append(written, Head(video)) /\ video' = Tail(video)
          /\ UNCHANGED <<writer, senders, readable>>
       \/ video # <<>> /\ child.state = "exited" /\ EndsWriter("failed")
       \/ video = <<>> /\ senders = {} /\ EndsWriter("ended")
    /\ UNCHANGED <<hwVars, textured, tracks, child, captured, dropped, owner, closing, result>>

\* pump_audio, behind accept_within.
AudioWrites(t) ==
    LET track == tracks[t] IN
    /\ \/ /\ track.writer = "running" /\ track.queue # <<>> /\ child.state = "running"
          /\ tracks' = [tracks EXCEPT ![t].queue = Tail(@),
                                      ![t].written = Append(@, Head(track.queue))]
       \/ /\ track.writer = "running" /\ track.queue # <<>> /\ child.state = "exited"
          /\ tracks' = [tracks EXCEPT ![t].queue = <<>>, ![t].writer = "failed"]
       \/ /\ track.writer = "running" /\ track.queue = <<>> /\ ~track.open
          /\ tracks' = [tracks EXCEPT ![t].writer = "ended"]
       \/ /\ track.writer = "accepting"        \* AUDIO_CONNECT_TIMEOUT
          /\ tracks' = [tracks EXCEPT ![t].queue = <<>>, ![t].writer = "deadline"]
    /\ UNCHANGED <<hwVars, queueVars, textured, child, writer, written, captured, dropped,
                   owner, closing, result>>

----------------------------------------------------------------------------
(* The child.                                                               *)

Child(changed) ==
    /\ child' = changed
    /\ UNCHANGED <<hwVars, queueVars, textured, writer, written, captured, dropped,
                   owner, closing, result>>

\* ffmpeg_args: the game's audio is the first input, the microphone the second
\* and the video the last; the child opens them in that order.
Dials(t) ==
    /\ child.state = "running" /\ tracks[t].writer = "accepting"
    /\ t = "mic" => tracks["game"].writer # "accepting"
    /\ tracks' = [tracks EXCEPT ![t].writer = "running"]
    /\ Child(child)

ChildFails == child.state # "exited" /\ Child([child EXCEPT !.state = "exited", !.status = "failed"])
              /\ UNCHANGED tracks

ChildStopsReading == child.state = "running" /\ Child([child EXCEPT !.state = "stuck"])
                     /\ UNCHANGED tracks

\* Every input it was given has ended.
ChildFinishes ==
    /\ child.state = "running"
    /\ writer = "ended" /\ \A t \in DOMAIN tracks : ~Writing(tracks[t])
    /\ Child([child EXCEPT !.state = "exited", !.status = "ok"])
    /\ UNCHANGED tracks

----------------------------------------------------------------------------
(* Closing.                                                                 *)

Owner(step) ==
    /\ owner' = step
    /\ UNCHANGED <<textured, written, captured, dropped>>

\* finish, or the drop of an encoder that was not finished: the hardware
\* encoder's thread comes first.
Closes(how) ==
    /\ owner = "open"
    /\ closing' = how
    /\ Owner("feed")
    /\ IF textured THEN TellFeedToStop ELSE UNCHANGED hwVars
    /\ UNCHANGED <<queueVars, tracks, child, writer, result>>

FeedJoined ==
    /\ owner = "feed" /\ feed \in {"absent", "ended"}
    /\ Owner("inputs")
    /\ UNCHANGED <<hwVars, queueVars, tracks, child, writer, closing, result>>

DropsSenders ==
    /\ owner = "inputs"
    /\ Owner("child")
    /\ senders' = senders \ {"pump"}
    /\ tracks' = [t \in DOMAIN tracks |-> [tracks[t] EXCEPT !.open = FALSE]]
    /\ UNCHANGED <<hwVars, video, readable, child, writer, closing, result>>

\* wait_bounded: the child is waited for and killed when its budget is spent; a
\* drop does not wait.
ChildReaped ==
    /\ owner = "child"
    /\ \/ child.state = "exited" /\ UNCHANGED child
       \/ /\ child.state # "exited"
          /\ child' = [state |-> "exited", status |-> "failed", killed |-> TRUE]
    /\ Owner("video")
    /\ UNCHANGED <<hwVars, queueVars, tracks, writer, closing, result>>

VideoJoined ==
    /\ owner = "video" /\ writer # "running"
    /\ Owner("audio")
    /\ UNCHANGED <<hwVars, queueVars, tracks, child, writer, closing, result>>

Deadline == \E t \in DOMAIN tracks : tracks[t].writer = "deadline"
Failed   == writer = "failed" \/ \E t \in DOMAIN tracks : tracks[t].writer = "failed"

\* Mutant of Verdict: the exit status speaks for the writers.
VerdictOfStatus == IF child.status = "ok" THEN "ok" ELSE "status"

\* The rest of finish: the connect deadline is reported before the exit
\* status, and that before a writer's error.
Verdict ==
    IF Deadline THEN "deadline"
    ELSE IF child.status # "ok" THEN "status"
    ELSE IF Failed THEN "writer" ELSE "ok"

AudioJoined ==
    /\ owner = "audio" /\ \A t \in DOMAIN tracks : ~Writing(tracks[t])
    /\ Owner("done")
    /\ result' = IF closing = "finish" THEN Verdict ELSE "none"
    /\ UNCHANGED <<hwVars, queueVars, tracks, child, writer, closing>>

Closing == FeedJoined \/ DropsSenders \/ ChildReaped \/ VideoJoined \/ AudioJoined

Writers == VideoWrites \/ \E t \in DOMAIN tracks : AudioWrites(t)

EncoderNext ==
    \/ SubmitsVideo \/ \E t \in DOMAIN tracks : SubmitsAudio(t) \/ Dials(t)
    \/ Writers
    \/ FeedStep /\ UNCHANGED childVars
    \/ TransformMoves /\ UNCHANGED childVars
    \/ ChildFails \/ ChildStopsReading \/ ChildFinishes
    \/ \E how \in {"finish", "drop"} : Closes(how)
    \/ Closing

----------------------------------------------------------------------------
(* Properties.                                                              *)

EncoderTypes == HardwareTypes /\ ChildTypes

\* A frame the child is given carries the time it was captured at, bursts,
\* drops, renegotiations and refused frames notwithstanding, as long as no
\* finished sample was lost behind the transform (timeline.rs:127).
TimesAreTheirOwn ==
    misread \/ \A c \in Range(video) \cup Range(written) \cup Range(units) :
        c.frame # Header => c.captured_at = c.frame

\* The offset of each piece of a track is the number of blocks before it: what
\* was dropped is there as silence, wherever the queue filled (ffmpeg.rs:1477).
Units(pieces) == UNION {{k} \X (1..pieces[k].length) : k \in DOMAIN pieces}
Length(pieces) == Cardinality(Units(pieces))
TrackIsOnTheTimeline ==
    \A t \in DOMAIN tracks :
        LET pieces == tracks[t].written \o tracks[t].queue IN
        /\ \A k \in DOMAIN pieces :
              pieces[k].block # Silence =>
                  Length(SubSeq(pieces, 1, k)) = pieces[k].block
        /\ Writing(tracks[t]) => Length(pieces) + tracks[t].owed = tracks[t].submitted

\* Frames and sound reach the child on one timeline.
MediaIsOnItsTimeline == EncoderTypes /\ TimesAreTheirOwn /\ TrackIsOnTheTimeline

\* A finish that returns Ok has written everything that was queued, and said
\* so of every writer and of the child (ffmpeg.rs:1115).
FinishTellsTheTruth ==
    result = "ok" =>
        /\ child.status = "ok" /\ ~child.killed /\ writer = "ended"
        /\ \A t \in DOMAIN tracks :
              /\ tracks[t].writer = "ended"
              /\ Length(tracks[t].written) + tracks[t].owed = tracks[t].submitted
        /\ ~textured => Len(written) + dropped = captured

\* Closing returns, whatever the child and the transform do: a child that
\* never dials, never reads or never exits, a queue that stays full, a request
\* for input that never comes (ffmpeg.rs:1115, ffmpeg.rs:1233).
ClosingReturns == closing # "no" ~> owner = "done"

----------------------------------------------------------------------------
(* What the code's words say and the code does not keep.                    *)

\* "an encoder that never asks is a fault to report, not a hang" (mft.rs:1107):
\* the encoder given up for not asking had not asked.
OnlyASilentEncoderIsGivenUp == [][GivesUp => transform.asked = 0]_encoderVars
=============================================================================
