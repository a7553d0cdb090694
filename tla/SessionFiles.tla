---------------------------- MODULE SessionFiles ----------------------------
(***************************************************************************)
(* The stream-copy edits a recording is made of: a concatenation of        *)
(* segments, a remux of a stream or of a file, and the chapters put into a *)
(* clip.  A media file is what of a stream it holds; ffmpeg is the         *)
(* external program that either copies all of it in its budget, or fails   *)
(* and leaves a part behind.                                               *)
(***************************************************************************)
EXTENDS Integers, FiniteSets, FiniteSetsExt, SequencesExt

GAME_AUDIO_TITLE == "Game Audio"
MICROPHONE_TITLE == "Microphone"

\* Names for the audio tracks, which a copy does not carry: the microphone is
\* the second of two.
audio_titles(streams) ==
    SubSeq(<<GAME_AUDIO_TITLE, MICROPHONE_TITLE>>, 1, Min({streams, 2}))

\* A file as a copy sees it: whether ffprobe can read a layout from it, and how
\* many audio tracks that layout has.
Layout(f) == [readable |-> f.whole, audio |-> f.audio]

\* All the inputs must have the first one's layout: -map 0 takes the streams of
\* the first and is silently wrong about the others.
check_concat_layout(files) ==
    /\ files # <<>>
    /\ \A i \in DOMAIN files : files[i].whole /\ Layout(files[i]) = Layout(files[1])

\* The list names the files in order, and every one must exist to be resolved.
write_concat_list(seqs, present) == Range(seqs) \subseteq present

\* The audio tracks a concatenation ends up with: -map 0 keeps them all.
ConcatTracks(files) == audio_titles(files[1].audio)

\* Numbers from the least to the greatest: each stands where its rank says.
InOrder(S) == [i \in 1..Cardinality(S) |-> CHOOSE x \in S : Cardinality({y \in S : y <= x}) = i]

\* A clip's chapters: the moments inside the clip, each once, as offsets from
\* its first frame.
clip_chapters(events, trigger, started, duration) ==
    LET marks == {at \in events \cup trigger : at >= started /\ at < started + duration}
    IN {at - started : at \in marks}

\* The chapters as they are written, in order: one at or past the end is
\* dropped, each runs to the next, and a lead-in covers what precedes the first.
ffmetadata(chapters, duration) ==
    LET kept == {c \in chapters : c < duration}
        all == InOrder(IF kept = {} THEN {} ELSE {0} \cup kept)
    IN [i \in DOMAIN all |->
          [start |-> all[i], end |-> IF i < Len(all) THEN all[i + 1] ELSE duration]]

\* Chapters are written into a copy that then takes the clip's place, so a clip
\* whose chapters fail is the clip without them.
add_chapters(chapters, duration, ok) == IF ok THEN ffmetadata(chapters, duration) ELSE <<>>

----------------------------------------------------------------------------
(***************************************************************************)
(* The segments of a full session: ffmpeg writes them, the recorder's      *)
(* ledger learns of them from the directory, clips are cut from them while *)
(* the recording runs, and at its end they become the session file.        *)
(*                                                                         *)
(* Time is counted in ticks of media, SEG of which make a segment; a       *)
(* segment's bytes are the ticks it holds.  The directory may hold         *)
(* segments of an earlier run: the recorder itself opens a fresh one, and  *)
(* SessionRing promises to continue whatever it is given.                  *)
(***************************************************************************)

CONSTANTS
    SEG,        \* ticks in a segment (segment_time)
    MARGIN,     \* POST_ROLL_MARGIN in ticks
    Earlier,    \* what the directory may hold when it is opened
    ClipWindows,\* the pre- and post-rolls a clip may ask for
    MaxMedia,   \* bound: ticks of media a run encodes
    MaxClips,   \* bound: clips asked for
    FilesFaults \* bound: ffmpeg or the disk fails this often

ASSUME SessionFilesAssumption ==
    /\ SEG \in Nat \ {0}
    /\ MARGIN \in Nat \ {0}
    /\ \A e \in Earlier : e \subseteq Nat /\ IsFiniteSet(e)
    /\ ClipWindows \subseteq [pre : Nat, post : Nat]
    /\ {MaxMedia, MaxClips, FilesFaults} \subseteq Nat

VARIABLES
    disk,    \* the segment files, by number
    ledger,  \* the ledger: bytes recorded for each segment it knows
    highest, \* highest_known, -1 for none
    origin,  \* where this run starts on the ledger's timeline
    child,   \* the encoder: its state and the segment it writes
    media,   \* ticks of media this run encoded
    looked,  \* whether the directory was read since the last tick
    clips,   \* the clips asked for, oldest first
    session, \* how the recording ends: running, stopping, finished ...
    out,     \* the session file: its segments and its audio tracks' names
    harm     \* faults so far

filesVars == <<disk, ledger, highest, origin, child, media, looked, clips, session, out, harm>>

NoSegment == -1
NoFile == [seqs |-> <<>>, titles |-> <<>>]
MaxOr(S, none) == IF S = {} THEN none ELSE Max(S)

-----------------------------------------------------------------------------
\* The ledger and its scanner.

\* A segment number and where it lies on the timeline: nominal.
start_ms(seq) == seq * SEG
end_ms(seq) == start_ms(seq) + SEG

\* Newest segment's end: how much of the timeline the ledger can prove.
LedgerSpan(l) == IF DOMAIN l = {} THEN 0 ELSE end_ms(Max(DOMAIN l))
total_bytes(l) == MapThenSumSet(LAMBDA s : l[s], DOMAIN l)

\* The pushes of one pass.  The ledger is kept in order and each number once:
\* the entry that was pushed first stays.
push(l, seqs) == [s \in DOMAIN l \cup seqs |-> IF s \in DOMAIN l THEN l[s] ELSE disk[s].bytes]

newly_complete(observed, known) ==
    {s \in observed : s > known /\ \E later \in observed : s < later}

\* The number a fresh encoder starts at: past the ledger's and the disk's.
\* Mutant of next_segment_number: it asks the ledger alone.
next_segment_numberOfLedger(l, observed) == MaxOr(DOMAIN l, -1) + 1
next_segment_number(l, observed) == MaxOr(DOMAIN l \cup observed, -1) + 1

\* The segments in the directory, and those a listing trusts: a file that is
\* still empty was created and not yet written.
observed_seqs == DOMAIN disk
segments_on_disk == {s \in observed_seqs : disk[s].bytes > 0}

\* This run's recorded media, the ring's span.
span_ms == Max({0, LedgerSpan(ledger) - origin})

-----------------------------------------------------------------------------
\* Opening the directory.

Whole(bytes, old, audio) == [bytes |-> bytes, whole |-> TRUE, audio |-> audio, old |-> old]

\* What an earlier run left: its newest segment may be torn.
EarlierFiles(seqs, torn) ==
    [s \in seqs |-> [Whole(SEG, TRUE, 1) EXCEPT !.whole = ~ (torn /\ s = Max(seqs))]]

\* What is already there is indexed before the encoder is spawned, because its
\* first number depends on it; that number is where this run's time starts.
adopt_existing == newly_complete(observed_seqs, NoSegment)
reserve_number == next_segment_number(ledger, observed_seqs)

\* The directory is opened and the encoder is told where to start.
FilesInit ==
    /\ \E e \in Earlier : \E torn \in BOOLEAN : disk = EarlierFiles(e, torn /\ e # {})
    /\ ledger = [s \in adopt_existing |-> disk[s].bytes]
    /\ highest = MaxOr(adopt_existing, NoSegment)
    /\ origin = start_ms(reserve_number)
    /\ \E tracks \in {1, 2} :
          child = [state |-> "running", seq |-> origin \div SEG, open |-> FALSE, audio |-> tracks]
    /\ media = 0
    /\ looked = TRUE
    /\ clips = <<>>
    /\ session = "running"
    /\ out = NoFile
    /\ harm = 0

FilesFault == harm < FilesFaults /\ harm' = harm + 1

\* The loop serves one clip at a time: the newest may still wait.
Waiting == clips # <<>> /\ Last(clips).stage = "waiting"
Update(stage) == [clips EXCEPT ![Len(clips)] = [@ EXCEPT !.stage = stage, !.waited = 0]]
Waited == IF Waiting THEN [clips EXCEPT ![Len(clips)].waited = @ + 1] ELSE clips

post_roll_budget(post) == post + 2 * SEG + MARGIN

-----------------------------------------------------------------------------
\* ffmpeg's segment muxer: a segment is closed before the next is created, and
\* the next is created before anything is written into it.

OpenSegment ==
    /\ child.state = "running" /\ ~ child.open
    /\ child' = [child EXCEPT !.open = TRUE]
    /\ disk' = [s \in DOMAIN disk \cup {child.seq} |->
                   IF s = child.seq THEN [Whole(0, FALSE, child.audio) EXCEPT !.whole = FALSE] ELSE disk[s]]
    /\ UNCHANGED <<ledger, highest, origin, media, looked, clips, session, out, harm>>

\* A tick of media is encoded.  A segment is full at its nominal length, which is
\* what the ledger counts; measured, its file holds up to a frame less.  The loop reads the directory more often than
\* that: every STATUS_INTERVAL, and every POST_ROLL_SCAN_INTERVAL of a wait.
WriteMedia ==
    /\ child.state = "running" /\ child.open /\ looked
    /\ media < MaxMedia
    /\ media' = media + 1
    /\ looked' = (session # "running")
    /\ clips' = Waited
    /\ LET bytes == disk[child.seq].bytes + 1
           full == bytes = SEG
       IN /\ disk' = [disk EXCEPT ![child.seq].bytes = bytes, ![child.seq].whole = full]
          /\ child' = IF full THEN [child EXCEPT !.seq = @ + 1, !.open = FALSE] ELSE child
    /\ UNCHANGED <<ledger, highest, origin, session, out, harm>>

\* The encoder hangs: it takes frames and finishes no segment, while a wait for
\* a post-roll goes on.
EncoderHangs ==
    /\ session = "running" /\ child.state = "running" /\ Waiting
    /\ FilesFault
    /\ child' = [child EXCEPT !.state = "hung"]
    /\ UNCHANGED <<disk, ledger, highest, origin, media, looked, clips, session, out>>

WaitInVain ==
    /\ session = "running" /\ child.state = "hung" /\ Waiting
    /\ Last(clips).waited < post_roll_budget(Last(clips).post)
    /\ clips' = Waited
    /\ UNCHANGED <<disk, ledger, highest, origin, child, media, looked, session, out, harm>>

-----------------------------------------------------------------------------
\* The loop: it scans, and serves the clips one after the other.

\* SessionRing::scan: what is newly complete is indexed.
scan ==
    LET found == newly_complete(observed_seqs, highest)
    IN /\ ledger' = push(ledger, found)
       /\ highest' = MaxOr(found, highest)

\* SessionRing::scan_all: the newest too, once ffmpeg is gone.
\* Mutant of scan_all: the live scan is used.
scan_allLive == scan
scan_all ==
    /\ ledger' = push(ledger, segments_on_disk)
    /\ highest' = MaxOr(segments_on_disk \cup {highest}, highest)

Scan ==
    /\ session = "running" /\ ~ looked
    /\ looked' = TRUE
    /\ scan
    /\ UNCHANGED <<disk, origin, child, media, clips, session, out, harm>>

\* A clip is asked for: its trigger is where the proven footage ends, and the
\* loop now waits for the post-roll.
TakeClip ==
    /\ session = "running" /\ ~ Waiting
    /\ Len(clips) < MaxClips
    /\ \E w \in ClipWindows :
          clips' = Append(clips, [stage |-> "waiting", waited |-> 0, asked |-> media, trigger |-> span_ms,
                                  pre |-> w.pre, post |-> w.post, window |-> <<>>,
                                  short |-> FALSE, marks |-> <<>>])
    /\ UNCHANGED <<disk, ledger, highest, origin, child, media, looked, session, out, harm>>

\* window::resolve: the segments that overlap [trigger - pre, trigger + post],
\* and whether the buffer starts after the pre-roll does.
WindowOf(trigger, pre, post) ==
    LET start == Max({0, trigger - pre})
    IN InOrder({s \in DOMAIN ledger : end_ms(s) > start /\ start_ms(s) < trigger + post})
Truncated(trigger, pre) == trigger < pre + start_ms(Min(DOMAIN ledger))
Resolves(trigger, post) == DOMAIN ledger # {} /\ LedgerSpan(ledger) >= trigger + post

Absolute(trigger) == origin + trigger

\* The post-roll is on disk: the window is resolved, and its copy begins on a
\* thread of its own; or the resolution or the copy is refused.
PostRollArrives ==
    LET c == Last(clips)
        at == Absolute(c.trigger)
    IN /\ session = "running" /\ Waiting /\ looked
       /\ span_ms >= c.trigger + c.post
       /\ clips' =
            IF ~ Resolves(at, c.post) THEN Update("refused")
            ELSE [clips EXCEPT ![Len(clips)] =
                    [@ EXCEPT !.stage = IF WindowOf(at, c.pre, c.post) = <<>> THEN "refused" ELSE "splicing",
                              !.waited = 0, !.window = WindowOf(at, c.pre, c.post),
                              !.short = Truncated(at, c.pre)]]
       /\ UNCHANGED <<disk, ledger, highest, origin, child, media, looked, session, out, harm>>

\* The wait gives up once its budget is over.
PostRollExpires ==
    /\ session = "running" /\ Waiting /\ looked
    /\ span_ms < Last(clips).trigger + Last(clips).post
    /\ Last(clips).waited >= post_roll_budget(Last(clips).post)
    /\ clips' = Update("expired")
    /\ UNCHANGED <<disk, ledger, highest, origin, child, media, looked, session, out, harm>>

Spliced(i, stage, marks) == [clips EXCEPT ![i].stage = stage, ![i].marks = marks]

\* ClipSplicer::splice on its thread: layouts, list, copy, then the chapters.
SpliceEnds ==
    \E i \in DOMAIN clips :
       /\ clips[i].stage = "splicing"
       /\ LET c == clips[i]
              started == start_ms(c.window[1])
              long == Len(c.window) * SEG
              mark == Min({Absolute(c.trigger), started + c.pre})
              possible == /\ write_concat_list(c.window, DOMAIN disk)
                          /\ check_concat_layout([k \in DOMAIN c.window |-> disk[c.window[k]]])
          IN \/ /\ possible
                /\ \E ok \in BOOLEAN :
                      /\ IF ok THEN UNCHANGED harm ELSE FilesFault
                      /\ clips' = Spliced(i, "cut", add_chapters(clip_chapters({}, {mark}, started, long), long, ok))
             \/ FilesFault /\ clips' = Spliced(i, "failed", <<>>)
             \/ ~ possible /\ clips' = Spliced(i, "lost", <<>>) /\ UNCHANGED harm
       /\ UNCHANGED <<disk, ledger, highest, origin, child, media, looked, session, out>>

-----------------------------------------------------------------------------
\* The end of the recording.

\* The user stops it, or the encoder dies under it: the newest segment is torn.
StopRecording ==
    /\ session = "running"
    /\ \/ ~ Waiting /\ UNCHANGED <<child, harm, clips>>
       \/ /\ FilesFault /\ child.state = "running"
          /\ child' = [child EXCEPT !.state = "dead"]
          /\ clips' = IF Waiting THEN Update("failed") ELSE clips
    /\ session' = "stopping"
    /\ looked' = TRUE
    /\ UNCHANGED <<disk, ledger, highest, origin, media, out>>

ClipsAreDone == \A i \in DOMAIN clips : clips[i].stage # "splicing"

\* The encoder is flushed: what it wrote of its last segment is closed.
FlushEncoder ==
    /\ session = "stopping" /\ ClipsAreDone
    /\ child.state = "running" /\ child.open => disk[child.seq].bytes > 0
    /\ disk' = IF child.open /\ child.state = "running" THEN [disk EXCEPT ![child.seq].whole = TRUE] ELSE disk
    /\ child' = [child EXCEPT !.state = "gone"]
    /\ session' = "flushed"
    /\ UNCHANGED <<ledger, highest, origin, media, looked, clips, out, harm>>

\* finish_session indexes everything, the newest segment too.
IndexAll ==
    /\ session = "flushed"
    /\ scan_all
    /\ session' = "indexed"
    /\ UNCHANGED <<disk, origin, child, media, looked, clips, out, harm>>

\* session::finalise: one file out of the ledger's segments, or the reason why
\* not; a copy that fails leaves no partial output, a copy that cannot be probed
\* afterwards is left where it is.
Finalise ==
    LET seqs == InOrder(DOMAIN ledger)
        files == [i \in DOMAIN seqs |-> disk[seqs[i]]]
        possible == write_concat_list(seqs, DOMAIN disk) /\ check_concat_layout(files)
        whole == [seqs |-> seqs, titles |-> ConcatTracks(files)]
    IN /\ session = "indexed"
       /\ \/ seqs = <<>> /\ session' = "empty" /\ UNCHANGED <<out, harm>>
          \/ seqs # <<>> /\ possible /\ session' = "copied" /\ out' = whole /\ UNCHANGED harm
          \/ seqs # <<>> /\ possible /\ session' = "kept" /\ out' \in {NoFile, whole} /\ FilesFault
          \/ seqs # <<>> /\ ~ possible /\ session' = "kept" /\ out' = NoFile /\ UNCHANGED harm
       /\ UNCHANGED <<disk, ledger, highest, origin, child, media, looked, clips>>

\* The row is ended; only then are the segments removed.
RemoveSegments ==
    /\ session \in {"copied", "empty"}
    /\ \/ session' = "finished" /\ disk' = <<>> /\ UNCHANGED harm
       \/ FilesFault /\ session' = "kept" /\ UNCHANGED disk
    /\ UNCHANGED <<ledger, highest, origin, child, media, looked, clips, out>>

FilesNext ==
    \/ OpenSegment \/ WriteMedia \/ EncoderHangs \/ Scan
    \/ TakeClip \/ WaitInVain \/ PostRollArrives \/ PostRollExpires \/ SpliceEnds
    \/ StopRecording \/ FlushEncoder \/ IndexAll \/ Finalise \/ RemoveSegments

-----------------------------------------------------------------------------
\* A segment of an earlier run is never written over: the numbering continues
\* past the disk's and the ledger's (next_segment_number).
NothingIsWrittenTwice ==
    [][\A s \in DOMAIN disk : disk[s].old => s \notin DOMAIN disk' \/ disk'[s] = disk[s]]_filesVars

\* The ledger of a running session holds what is finished: a segment this run
\* is still writing is not in it, and the bytes it records are the file's.
LedgerIsTrue ==
    /\ child.state = "running" => \A s \in DOMAIN ledger : disk[s].whole \/ disk[s].old
    /\ session \notin {"finished"} => \A s \in DOMAIN ledger : ledger[s] = disk[s].bytes

\* A clip covers what it was asked for: its segments follow one another, reach
\* from the pre-roll -- or the start of the footage, and then it says so -- to
\* the post-roll, are this run's when the pre-roll is, and the moment the user
\* asked at is in it when the post-roll is longer than the ledger's lag.
ClipCovers(c) ==
    LET at == origin + c.trigger
        first == start_ms(c.window[1])
        last == end_ms(Last(c.window))
    IN /\ c.stage \in {"splicing", "cut"} =>
            /\ \A i \in 1..(Len(c.window) - 1) : c.window[i + 1] = c.window[i] + 1
            /\ last >= at + c.post
            /\ first <= at - c.pre \/ (c.short /\ c.window[1] = Min(DOMAIN ledger))
            /\ c.post > SEG => origin + c.asked <= last
       /\ c.stage = "cut" /\ c.marks # <<>> =>
            /\ c.marks[1].start = 0 /\ Last(c.marks).end = last - first
            /\ \A m \in Range(c.marks) : m.start < m.end

\* No clip is given up while the encoder works, or loses its footage: the
\* budget of the wait covers the lag of the ledger, and the segments outlive
\* the splice.
ClipsComeOut ==
    \A i \in DOMAIN clips : /\ ClipCovers(clips[i])
                            /\ clips[i].stage = "expired" => child.state # "running"
                            /\ clips[i].stage = "lost" => session # "finished" /\ \E s \in Range(clips[i].window) : disk[s].old

\* The session file is the recording: every segment that holds anything, in
\* order and once, all that was encoded of this run, with a name for each audio
\* track.
SessionFileIsTheRecording ==
    /\ out # NoFile =>
          /\ out.seqs = InOrder(DOMAIN ledger)
          /\ total_bytes([s \in {s \in DOMAIN ledger : start_ms(s) >= origin} |-> ledger[s]]) = media
          /\ Len(out.titles) = child.audio \/ media = 0
    /\ session = "finished" /\ media > 0 => out # NoFile
=============================================================================
