----------------------------- MODULE MemoryRing -----------------------------
(***************************************************************************)
(* The in-memory replay buffer: the ring of encoder fragments              *)
(* (crates/replay/src/ram_buffer.rs), the thread that reads the encoder's  *)
(* pipe into it and the clip request served out of it                      *)
(* (crates/recorder/src/memory_ring.rs).                                   *)
(*                                                                         *)
(* Three actors: the encoder, which decides what a read returns; the       *)
(* reader thread, which holds the ring's lock from the first fragment of a *)
(* chunk to the end of the eviction loop; and the engine thread, which     *)
(* takes a trigger, waits until the ring's span covers the post-roll and   *)
(* then cuts the window.                                                   *)
(*                                                                         *)
(* Bytes are abstracted to a size, a fragment to where it starts and how   *)
(* long it is.  Media times are in an arbitrary unit.                      *)
(***************************************************************************)
EXTENDS Integers, Sequences

CONSTANTS
    CapBytes,     \* BufferConfig::ram_cap_bytes
    MaxPreMs,     \* BufferConfig::max_pre_ms
    MaxPostMs,    \* BufferConfig::max_post_ms
    SegmentMs,    \* the keyframe interval: no fragment is longer
    Rounding,     \* what flooring ticks to ms can take off a fragment's length
    Sizes,        \* the sizes a fragment can have
    Windows,      \* the <<pre, post>> windows a clip can ask for
    MaxBatch,     \* how many fragments one read can complete
    MaxMs         \* bound: the encoder stops after this much footage

ASSUME RingAssumption ==
    /\ CapBytes \in Nat
    /\ MaxPreMs \in Nat
    /\ MaxPostMs \in Nat
    /\ SegmentMs \in Nat \ {0}
    /\ Rounding \in Nat
    /\ Sizes \subseteq Nat \ {0}
    /\ Windows \subseteq (0..MaxPreMs) \X (0..MaxPostMs)
    /\ MaxBatch \in Nat
    /\ MaxMs \in Nat

VARIABLES
    segments,   \* the held fragments, oldest first
    bytes,      \* MemoryRingBuffer::bytes, kept rather than summed
    evicted,    \* fragments dropped off the front
    next_seq,   \* the number the next fragment gets
    header,     \* whether the splitter has seen ftyp+moov
    encoded,    \* media time of the encoder's next fragment
    batch,      \* fragments the splitter returned that are not admitted yet
    reader,     \* where the reader thread is
    failure,    \* whether a reason the reader stopped early is recorded
    poisoned,   \* whether the reader died holding the ring's lock
    byteEvicted,\* history: an eviction happened for the byte cap alone
    clip        \* the clip request the engine thread is serving

ringVars == <<segments, bytes, evicted, next_seq, byteEvicted>>
readerVars == <<header, encoded, batch, reader, failure, poisoned>>
vars == <<ringVars, readerVars, clip>>

(* Mutant of CapMs: the cap is the window alone. *)
CapMsWindowOnly == MaxPreMs + MaxPostMs

(***************************************************************************)
(* The duration cap: what a trigger can ask for, plus one segment.         *)
(***************************************************************************)
CapMs == MaxPreMs + MaxPostMs + SegmentMs

(* A fragment as the splitter hands it over.  duration_ms is 0 when the     *)
(* sample table could not be read, and otherwise the real length less what  *)
(* the conversion from ticks to milliseconds floors away.                   *)
Fragment == [start_ms : Nat, length : 1..SegmentMs, duration_ms : Nat, size : Sizes]

(* at: how many bytes of fragments the stream carried before this one (not *)
(* in the code: it states what `bytes` sums without a recursion).          *)
Segment == [seq : Nat, start_ms : Nat, end_ms : Nat, size : Sizes, at : Nat]

(* A clip request, and what it was answered with. *)
Clip == [phase : {"idle", "waiting", "cut", "refused"}, trigger : Nat,
         pre : 0..MaxPreMs, post : 0..MaxPostMs, from : Nat, to : Nat,
         first : Nat, last : Nat, whole : BOOLEAN, newest : Nat, truncated : BOOLEAN]

NoClip == [phase |-> "idle", trigger |-> 0, pre |-> 0, post |-> 0, from |-> 0, to |-> 0,
           first |-> 0, last |-> 0, whole |-> TRUE, newest |-> 0, truncated |-> FALSE]

-----------------------------------------------------------------------------
Newest == segments[Len(segments)]
Oldest == segments[1]

is_closed(s) == s.end_ms > s.start_ms

span_ms == IF segments = <<>> THEN 0 ELSE Newest.end_ms

(* The lock is free unless the reader is inside MemoryRingBuffer::push. *)
Unlocked == reader \notin {"admit", "evict"}

Init ==
    /\ segments = <<>>
    /\ bytes = 0
    /\ evicted = 0
    /\ next_seq = 0
    /\ byteEvicted = FALSE
    /\ header = FALSE
    /\ encoded = 0
    /\ batch = <<>>
    /\ reader = "reading"
    /\ failure = FALSE
    /\ poisoned = FALSE
    /\ clip = NoClip

-----------------------------------------------------------------------------
(* The encoder's side of a fragment: it starts where the last one ended. *)
NextFragments(f) ==
    /\ f.start_ms = encoded
    /\ f.duration_ms = 0 \/ f.duration_ms + Rounding >= f.length
    /\ f.duration_ms <= f.length

(* A read that completes a box or none: the lock is taken and released     *)
(* without the ring changing.                                              *)
ReadHeader ==
    /\ reader = "reading"
    /\ header' = TRUE
    /\ UNCHANGED <<ringVars, encoded, batch, reader, failure, poisoned, clip>>

(* The encoder's stream carries one more fragment into the chunk that the  *)
(* current read returns.                                                   *)
FragmentCompletes ==
    /\ reader = "reading"
    /\ header
    /\ Len(batch) < MaxBatch
    /\ encoded < MaxMs
    /\ \E length \in 1..SegmentMs, duration \in 0..SegmentMs, size \in Sizes :
          LET f == [start_ms |-> encoded, length |-> length,
                    duration_ms |-> duration, size |-> size]
          IN  /\ NextFragments(f)
              /\ batch' = Append(batch, f)
              /\ encoded' = encoded + length
    /\ UNCHANGED <<ringVars, header, reader, failure, poisoned, clip>>

(* The read returns with complete fragments: the ring's lock is taken. *)
ReadChunk ==
    /\ reader = "reading"
    /\ batch # <<>>
    /\ reader' = "admit"
    /\ UNCHANGED <<ringVars, header, encoded, batch, failure, poisoned, clip>>

(* One turn of push's loop over the fragments of the chunk. *)
CloseNewest(start) ==
    IF segments = <<>> \/ is_closed(Newest)
    THEN segments
    ELSE [segments EXCEPT ![Len(segments)].end_ms = start]

AdmitFragment ==
    /\ reader = "admit"
    /\ batch # <<>>
    /\ LET f == Head(batch)
       IN  segments' = Append(CloseNewest(f.start_ms),
                              [seq |-> next_seq,
                               start_ms |-> f.start_ms,
                               end_ms |-> f.start_ms + f.duration_ms,
                               size |-> f.size,
                               at |-> IF segments = <<>> THEN 0 ELSE Newest.at + Newest.size])
    /\ bytes' = bytes + Head(batch).size
    /\ next_seq' = next_seq + 1
    /\ batch' = Tail(batch)
    /\ reader' = IF Tail(batch) = <<>> THEN "evict" ELSE "admit"
    /\ UNCHANGED <<evicted, byteEvicted, header, encoded, failure, poisoned, clip>>

OverTime == Newest.start_ms - Oldest.start_ms > CapMs
OverBytes == bytes > CapBytes

(* Mutant of EvictOldest: the last fragment can go. *)
EvictOldestToEmpty ==
    /\ reader = "evict"
    /\ segments # <<>>
    /\ OverTime \/ OverBytes
    /\ segments' = Tail(segments)
    /\ bytes' = bytes - Oldest.size
    /\ evicted' = evicted + 1
    /\ byteEvicted' = (byteEvicted \/ ~OverTime)
    /\ UNCHANGED <<next_seq, readerVars, clip>>

(* One turn of enforce_caps: the oldest fragment goes. *)
EvictOldest ==
    /\ reader = "evict"
    /\ Len(segments) > 1
    /\ OverTime \/ OverBytes
    /\ segments' = Tail(segments)
    /\ bytes' = bytes - Oldest.size
    /\ evicted' = evicted + 1
    /\ byteEvicted' = (byteEvicted \/ ~OverTime)
    /\ UNCHANGED <<next_seq, readerVars, clip>>

(* Mutant of PushReturns: at most one fragment is evicted per push. *)
PushReturnsAtOnce ==
    /\ reader = "evict"
    /\ reader' = "reading"
    /\ UNCHANGED <<ringVars, header, encoded, batch, failure, poisoned, clip>>

(* enforce_caps ends, push returns and the lock is released. *)
PushReturns ==
    /\ reader = "evict"
    /\ Len(segments) <= 1 \/ ~(OverTime \/ OverBytes)
    /\ reader' = "reading"
    /\ UNCHANGED <<ringVars, header, encoded, batch, failure, poisoned, clip>>

(* Ok(0): the encoder closed the pipe. *)
StreamEnds ==
    /\ reader = "reading"
    /\ batch = <<>>
    /\ reader' = "ended"
    /\ UNCHANGED <<ringVars, header, encoded, batch, failure, poisoned, clip>>

(* The pipe broke, or the splitter rejected the chunk: the fragments the   *)
(* chunk completed before the bad box are dropped with it.                 *)
ReadFails ==
    /\ reader = "reading"
    /\ reader' = "ended"
    /\ failure' = TRUE
    /\ batch' = <<>>
    /\ UNCHANGED <<ringVars, header, encoded, poisoned, clip>>

(* A panic is caught and recorded; inside push it also poisons the lock. *)
ReaderPanics ==
    /\ reader # "ended"
    /\ poisoned' = ~Unlocked
    /\ reader' = "ended"
    /\ failure' = TRUE
    /\ batch' = <<>>
    /\ UNCHANGED <<ringVars, header, encoded, clip>>

-----------------------------------------------------------------------------
(* The engine's span: an unreadable ring reports zero. *)
ReadSpan == IF poisoned THEN 0 ELSE span_ms

(* take_clip: the trigger is the end of the footage the ring holds; an     *)
(* unreadable ring fails the request before it has a trigger.              *)
TakeTrigger ==
    /\ Unlocked
    /\ ~poisoned
    /\ clip.phase # "waiting"
    /\ \E w \in Windows :
          clip' = [NoClip EXCEPT !.phase = "waiting", !.trigger = span_ms,
                                 !.pre = w[1], !.post = w[2]]
    /\ UNCHANGED <<ringVars, readerVars>>

WantStart == IF clip.trigger < clip.pre THEN 0 ELSE clip.trigger - clip.pre
WantEnd == clip.trigger + clip.post
Overlaps(s) == s.start_ms < WantEnd /\ s.end_ms > WantStart

(* MemoryRingBuffer::window: the positions of the closed fragments that    *)
(* overlap [start, end).                                                   *)
Selected == {i \in DOMAIN segments : is_closed(segments[i]) /\ Overlaps(segments[i])}

TruncatedFront(i) == segments[i].start_ms > WantStart

PostRollHeld == ReadSpan >= WantEnd

(* clip_source after the post-roll wait: the window is selected, validated *)
(* and copied out under the lock.  Positions i and j are its ends.         *)
CutClip ==
    /\ Unlocked
    /\ clip.phase = "waiting"
    /\ PostRollHeld
    /\ ~failure
    /\ header
    /\ \E i, j \in Selected :
          /\ \A k \in Selected : i <= k /\ k <= j
          /\ clip' = [clip EXCEPT !.phase = "cut",
                                  !.from = segments[i].start_ms,
                                  !.to = segments[j].end_ms,
                                  !.first = segments[i].seq,
                                  !.last = segments[j].seq,
                                  !.whole = i..j \subseteq Selected,
                                  !.newest = Newest.start_ms,
                                  !.truncated = TruncatedFront(i)]
    /\ UNCHANGED <<ringVars, readerVars>>

(* The request fails: the ring cannot be read, its reader stopped early,   *)
(* nothing in it covers the window, or the wait's deadline passed.         *)
ClipRefused ==
    /\ clip.phase = "waiting" \/ poisoned
    /\ Unlocked
    /\ \/ failure
       \/ PostRollHeld /\ (~header \/ Selected = {})
       \/ ~PostRollHeld
    /\ clip' = [clip EXCEPT !.phase = "refused"]
    /\ UNCHANGED <<ringVars, readerVars>>

Reader == ReadChunk \/ AdmitFragment \/ EvictOldest \/ PushReturns
Faults == ReadFails \/ ReaderPanics
Engine == TakeTrigger \/ CutClip \/ ClipRefused

Next ==
    \/ ReadHeader
    \/ FragmentCompletes
    \/ StreamEnds
    \/ Reader
    \/ Faults
    \/ Engine

Spec == Init /\ [][Next]_vars

-----------------------------------------------------------------------------
TypeOK ==
    /\ segments \in Seq(Segment)
    /\ bytes \in Nat
    /\ evicted \in Nat
    /\ next_seq \in Nat
    /\ byteEvicted \in BOOLEAN
    /\ header \in BOOLEAN
    /\ encoded \in Nat
    /\ batch \in Seq(Fragment)
    /\ reader \in {"reading", "admit", "evict", "ended"}
    /\ failure \in BOOLEAN
    /\ poisoned \in BOOLEAN
    /\ clip \in Clip

(* Eviction never takes the last fragment, whatever the caps: once footage *)
(* has arrived the ring always has some, and the fragments it holds are    *)
(* the newest of the stream, in order, none missing.                       *)
HoldsTheNewest ==
    /\ evicted + Len(segments) = next_seq
    /\ next_seq > 0 => segments # <<>>
    /\ \A i \in DOMAIN segments : segments[i].seq = evicted + i - 1

(* The kept byte count is the size of what is held, through every push and *)
(* eviction (the eviction loop trusts it, and it is unsigned: a drift      *)
(* would wrap or evict everything).                                        *)
BytesAreExact ==
    IF segments = <<>> THEN bytes = 0
    ELSE bytes = Newest.at + Newest.size - Oldest.at

(* Outside a push the ring is within both caps, or it is down to one       *)
(* fragment: a clip request never sees it over budget.                     *)
UnderCaps ==
    Unlocked => \/ poisoned
                \/ Len(segments) <= 1
                \/ ~OverTime /\ ~OverBytes

(* The caps are kept, and what is measured against them is what is held.   *)
WithinCaps == BytesAreExact /\ UnderCaps

(* A clip is one unbroken run of closed fragments: neither the newest one  *)
(* with an unproven end nor an unreadable sample table leaves a hole in    *)
(* what is cut.                                                            *)
ClipIsWhole == clip.phase = "cut" => clip.whole /\ clip.from < clip.to

(* "never short of it": a clip that is served reaches the end of the       *)
(* post-roll it waited for, to within the rounding of one fragment.        *)
ClipReachesPostRoll ==
    clip.phase = "cut" => clip.to + Rounding >= clip.trigger + clip.post

(* The reason the duration cap is the window plus one segment: a clip cut  *)
(* before the reader is a whole fragment past its post-roll has all the    *)
(* pre-roll the recording had, unless the byte cap took it.                *)
PreRollSurvivesPostRoll ==
    /\ clip.phase = "cut"
    /\ ~byteEvicted
    /\ clip.newest <= clip.trigger + clip.post
    => clip.trigger < clip.pre \/ clip.from <= clip.trigger - clip.pre + Rounding

(* What ram_buffer.rs says of truncated_front: it is set when the requested *)
(* pre-roll reaches before the oldest footage, as the file ring's is.  A    *)
(* request that reaches before the start of the recording does.             *)
ShortPreRollIsReported ==
    clip.phase = "cut" /\ clip.trigger < clip.pre => clip.truncated

(* A clip is what was asked for: whole, as long as the post-roll it waited  *)
(* for, and with all the pre-roll the ring could have kept for it.          *)
ClipIsAsAsked == ClipIsWhole /\ ClipReachesPostRoll /\ PreRollSurvivesPostRoll
=============================================================================
