----------------------------- MODULE SessionSink -----------------------------
(***************************************************************************)
(* A replay buffer that also saves its session: the thread that empties    *)
(* the encoder's pipe into the ring hands every chunk to a writer thread   *)
(* over a bounded queue, and must never wait for the disk.  At the end the *)
(* file is remuxed into the session file.  Chunks are numbered.            *)
(***************************************************************************)
EXTENDS Integers, Sequences, SequencesExt

CONSTANTS
    SINK_QUEUE_CHUNKS, \* chunks the writer may be behind by
    MaxChunks,         \* bound: chunks of the stream
    SinkFaults         \* bound: how often the disk, the stream or ffmpeg fails

ASSUME SinkAssumption ==
    SINK_QUEUE_CHUNKS \in Nat \ {0} /\ MaxChunks \in Nat /\ SinkFaults \in Nat

VARIABLES
    fed,     \* chunks the reader took from the pipe
    reader,  \* the ring's reader thread: reading, done
    ringWhy, \* MemoryRing's failure slot
    tx,      \* whether the reader still hands chunks on
    queue,   \* what the writer has not taken yet
    writer,  \* the writer thread: writing, done
    part,    \* what the file holds
    sinkWhy, \* the sink's failure slot
    rowSize, \* size_bytes of the session's row
    onDisk,  \* what the file held when the row was given its size
    ending,  \* recording, joined, closed, left
    saved,   \* what the session file holds
    mishaps  \* faults so far

sinkVars == <<fed, reader, ringWhy, tx, queue, writer, part, sinkWhy, rowSize, onDisk, ending, saved, mishaps>>

SinkFault == mishaps < SinkFaults /\ mishaps' = mishaps + 1

\* start_sink: the file is created before the threads run.
SinkInit ==
    /\ fed = 0 /\ reader = "reading" /\ ringWhy = "none"
    /\ tx = TRUE /\ queue = <<>>
    /\ writer = "writing" /\ part = <<>> /\ sinkWhy = "none"
    /\ rowSize = 0 /\ onDisk = 0
    /\ ending = "recording" /\ saved = <<>>
    /\ mishaps = 0

\* The first reason the file stopped growing is the one that is kept.
record_sink_failure(why) == IF sinkWhy = "none" THEN why ELSE sinkWhy

\* SinkFeed::push: queued, never written inline.  A full queue ends the file; a
\* writer that is gone has said why.
Queued == tx /\ writer = "writing" /\ Len(queue) < SINK_QUEUE_CHUNKS
FeedAfter == Queued
SinkWhyAfter == IF tx /\ writer = "writing" /\ ~ Queued THEN record_sink_failure("slow") ELSE sinkWhy

\* One read of the pipe: the file gets the chunk before the ring does, and a
\* chunk the ring cannot parse ends the reader.
ReadChunk ==
    /\ reader = "reading" /\ fed < MaxChunks
    /\ fed' = fed + 1
    /\ queue' = IF Queued THEN Append(queue, fed') ELSE queue
    /\ sinkWhy' = SinkWhyAfter
    /\ \/ tx' = FeedAfter /\ UNCHANGED <<reader, ringWhy, mishaps>>
       \/ SinkFault /\ reader' = "done" /\ ringWhy' = "unparsable" /\ tx' = FALSE
    /\ UNCHANGED <<writer, part, rowSize, onDisk, ending, saved>>

\* The encoder is gone and its pipe is at its end; the reader's end of the
\* queue goes with the reader.
EndOfStream ==
    /\ reader = "reading"
    /\ reader' = "done" /\ tx' = FALSE
    /\ UNCHANGED <<fed, ringWhy, queue, writer, part, sinkWhy, rowSize, onDisk, ending, saved, mishaps>>

\* The writer takes the oldest chunk.  A write that fails ends the thread, and
\* what is still queued is lost with it.
WriteChunk ==
    /\ writer = "writing" /\ queue # <<>>
    /\ \/ /\ part' = Append(part, Head(queue)) /\ queue' = Tail(queue)
          /\ UNCHANGED <<writer, sinkWhy, mishaps>>
       \/ /\ SinkFault
          /\ writer' = "done" /\ queue' = <<>>
          /\ sinkWhy' = record_sink_failure("write")
          /\ UNCHANGED part
    /\ UNCHANGED <<fed, reader, ringWhy, tx, rowSize, onDisk, ending, saved>>

\* Nobody feeds it any more and the queue is drained: the file is made durable.
WriterEnds ==
    /\ writer = "writing" /\ queue = <<>> /\ ~ tx
    /\ writer' = "done"
    /\ \/ UNCHANGED <<sinkWhy, mishaps>>
       \/ SinkFault /\ sinkWhy' = record_sink_failure("flush")
    /\ UNCHANGED <<fed, reader, ringWhy, tx, queue, part, rowSize, onDisk, ending, saved>>

\* Ledger::stats of a ring in memory: no bytes on disk.
bytes_on_disk == 0

\* The tick gives the row the size the ledger reports.
report_session_size ==
    /\ ending = "recording" /\ reader = "reading"
    /\ rowSize' = bytes_on_disk
    /\ onDisk' = Len(part)
    /\ UNCHANGED <<fed, reader, ringWhy, tx, queue, writer, part, sinkWhy, ending, saved, mishaps>>

Joined == reader = "done" /\ writer = "done"
JoinRing ==
    /\ ending = "recording" /\ Joined
    /\ ending' = "joined"
    /\ UNCHANGED <<fed, reader, ringWhy, tx, queue, writer, part, sinkWhy, rowSize, onDisk, saved, mishaps>>

\* finish_saved_session: nothing recorded, the remuxed file, or the part left
\* for the next start.
FinishSaved ==
    /\ ending = "joined"
    /\ \/ ending' = "closed" /\ saved' = part /\ UNCHANGED mishaps
       \/ part # <<>> /\ SinkFault /\ ending' = "left" /\ UNCHANGED saved
    /\ UNCHANGED <<fed, reader, ringWhy, tx, queue, writer, part, sinkWhy, rowSize, onDisk>>

SinkNext ==
    \/ ReadChunk \/ EndOfStream \/ WriteChunk \/ WriterEnds
    \/ report_session_size \/ JoinRing \/ FinishSaved

-----------------------------------------------------------------------------
\* The saved session is the beginning of the recording, without a gap; and when
\* it is not the whole of it, the writer or the reader has said why.
SavedSessionIsAPrefix ==
    /\ part = [i \in 1..Len(part) |-> i]
    /\ ending \in {"closed", "left"} /\ Len(part) < fed => sinkWhy # "none" \/ ringWhy # "none"
    /\ ending = "closed" => saved = part

\* While it records, the row shows the sessions cap what the recording takes on
\* the disk: a comment of tick, which the ledger in memory does not honour.
RowShowsTheFile == rowSize = onDisk
=============================================================================
