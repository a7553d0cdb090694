---------------------------- MODULE AudioSource ----------------------------
(* One captured audio track: the packets of a device, placed on the shared  *)
(* clock by their timestamps (audio_timeline.rs), and, for the game's       *)
(* sound, the stream behind them reopened when its device goes away or      *)
(* another one is wanted (audio_recovery.rs, audio_target.rs, wasapi.rs).   *)
(* The microphone (wasapi_mic.rs) has the same timeline and no recovery: a  *)
(* device that stops delivering ends the recording.                         *)
(*                                                                          *)
(* Time is counted in frames of the track and starts at its origin. A       *)
(* sample is the frame it really played at, or Silence when it is padding.  *)
EXTENDS Integers, Sequences, SequencesExt

CONSTANTS BLOCK,                  \* frames in the blocks handed on
          LIVE_LAG,               \* how far behind now the padding stays
          MAX_FILL,               \* the most silence one gap may become
          MAX_PACKETS,            \* packets drained per poll
          RETRY_INTERVAL,         \* between two tries to reopen
          SWITCH_CHECK_INTERVAL,  \* between two looks at what is wanted
          DEVICE_STALL,           \* a microphone silent for that long is checked
          Devices,                \* default outputs there can be
          Games,                  \* processes whose sound can be taken alone
          Suspend,                \* a jump of the clock nothing can account for
          Horizon,                \* bound: the clock stops here
          Changes                 \* bound: changes of the machine's devices and games, and suspensions

ASSUME AudioSourceAssumption ==
    /\ {BLOCK, MAX_PACKETS, RETRY_INTERVAL, SWITCH_CHECK_INTERVAL, DEVICE_STALL} \subseteq Nat \ {0}
    /\ {LIVE_LAG, MAX_FILL, Suspend, Horizon, Changes} \subseteq Nat
    /\ RETRY_INTERVAL <= SWITCH_CHECK_INTERVAL
    /\ Devices \cap Games = {}

VARIABLES now, track, world, source, timeline, block, soundHealth
audioVars == <<now, track, world, source, timeline, block, soundHealth>>

Nothing == "nothing"      \* no device, no game, no stream
NoTime == -1              \* a packet without a timestamp
NoBlock == [start |-> 0, samples |-> <<>>, filler |-> FALSE]
Silence == -1
Untimed == -2             \* a sample that really played, with no usable time
Lesser(a, b) == IF a < b THEN a ELSE b
Greater(a, b) == IF a > b THEN a ELSE b

(* --- the timeline ------------------------------------------------------- *)
EmptyTimeline == [placed |-> 0, emitted |-> 0, pending |-> <<>>, fills |-> <<>>,
                  dropped |-> FALSE]

Silent(n) == [i \in 1..n |-> Silence]

Pad(t, asked) ==
    LET n == Lesser(asked, MAX_FILL)
        end == t.placed + n
        grows == t.fills # <<>> /\ Last(t.fills).to = t.placed
    IN  [t EXCEPT !.pending = @ \o Silent(n), !.placed = end,
                  !.fills = IF grows THEN ReplaceAt(@, Len(@), [Last(@) EXCEPT !.to = end])
                            ELSE Append(@, [from |-> t.placed, to |-> end])]

(* Mutant of Place: a packet that is not where the count stands is appended *)
(* all the same.                                                            *)
PlaceAppends(t, p) ==
    [t EXCEPT !.pending = @ \o p.samples, !.placed = @ + Len(p.samples)]

(* A timestamp further off than MAX_FILL is no gap of this recording: the   *)
(* packet follows the one before it.                                        *)
Place(t, p) ==
    LET n == Len(p.samples)
        tolerance == IF p.discontinuity THEN 0 ELSE BLOCK
        early == p.at # NoTime /\ p.at > t.placed + tolerance
        late == p.at # NoTime /\ p.at + tolerance < t.placed
        off == IF early THEN p.at - t.placed ELSE IF late THEN t.placed - p.at ELSE 0
        skip == IF late /\ off <= MAX_FILL THEN Lesser(off, n) ELSE 0
        at == IF early /\ off <= MAX_FILL THEN Pad(t, off) ELSE t
        samples == IF off > MAX_FILL THEN [i \in 1..n |-> Untimed] ELSE SubSeq(p.samples, skip + 1, n)
    IN  [at EXCEPT !.pending = @ \o samples, !.placed = @ + n - skip]

(* The frame index moves to the live edge, the buffered bytes stay.         *)
DropStretch(t, at) == [t EXCEPT !.fills = <<>>, !.placed = at, !.emitted = at, !.dropped = TRUE]

FillTo(t, time) ==
    LET at == Greater(time - LIVE_LAG, 0)
    IN  IF at <= t.placed THEN t
        ELSE IF at - t.placed <= MAX_FILL THEN Pad(t, at - t.placed) ELSE DropStretch(t, at)

(* Whether the drain met the end of the queue: only then may it be padded.  *)
RanDry(queue) == Len(queue) < MAX_PACKETS
Pulled(t, queue, n) == FoldLeft(Place, t, SubSeq(queue, 1, n))
Unpulled(queue, n) == SubSeq(queue, n + 1, Len(queue))
Drain(t, queue) == Pulled(t, queue, Lesser(MAX_PACKETS, Len(queue)))
Undrained(queue) == Unpulled(queue, MAX_PACKETS)

(* A drain may end at a call that fails: the packets before it are placed.  *)
BeforeAFault(queue) == 0..Lesser(MAX_PACKETS - 1, Len(queue))

IsFiller(t, from, to) == \E i \in DOMAIN t.fills : t.fills[i].from <= from /\ to <= t.fills[i].to

NextBlock(t) ==
    IF Len(t.pending) < BLOCK THEN NoBlock
    ELSE [start |-> t.emitted, samples |-> SubSeq(t.pending, 1, BLOCK),
          filler |-> IsFiller(t, t.emitted, t.emitted + BLOCK)]

BlockTaken(t) ==
    IF Len(t.pending) < BLOCK THEN t
    ELSE LET end == t.emitted + BLOCK
             left == {k \in DOMAIN t.fills : t.fills[k].to > end}
         IN  [t EXCEPT !.pending = SubSeq(@, BLOCK + 1, Len(@)), !.emitted = end,
                       !.fills = IF left = {} THEN <<>> ELSE SubSeq(@, Min(left), Len(@))]

(* --- which source, and reopening it ------------------------------------- *)
(* A process whose activation was refused is not asked for again.           *)
Target(s) == IF world.game = s.refused THEN Nothing ELSE world.game
Wanted(s) == IF Target(s) # Nothing THEN Target(s) ELSE world.device

Opened(s, key) == [s EXCEPT !.stream = key, !.queue = <<>>, !.lost = FALSE, !.heard = now,
                            !.retryAt = 0, !.nextCheck = now + SWITCH_CHECK_INTERVAL]

(* The wanted source: the game's process if it can be activated, else the   *)
(* whole output, which there must be one of.                                *)
Open(s, activates, opens) ==
    LET refused == [s EXCEPT !.refused = IF Target(s) # Nothing THEN Target(s) ELSE @]
    IN  IF Target(s) # Nothing /\ activates THEN Opened(s, Target(s))
        ELSE IF world.device # Nothing /\ opens THEN Opened(refused, world.device)
        ELSE [refused EXCEPT !.retryAt = now + RETRY_INTERVAL]

(* Whether a try to open the wanted source would succeed now.               *)
CanOpen(s, activates, opens) ==
    (Target(s) # Nothing /\ activates) \/ (world.device # Nothing /\ opens)

(* Neither timer means anything while the other one runs.                   *)
Closed(s) == [s EXCEPT !.stream = Nothing, !.queue = <<>>, !.lost = FALSE, !.nextCheck = 0]

(* Not knowing what is wanted is no reason to close a stream that works.    *)
Switched(s, known) ==
    IF s.stream = Nothing \/ now < s.nextCheck THEN s
    ELSE LET looked == [s EXCEPT !.nextCheck = now + SWITCH_CHECK_INTERVAL]
         IN  IF known /\ Wanted(s) # Nothing /\ Wanted(s) # s.stream THEN Closed(looked) ELSE looked

(* Mutant of Reopened: a try that failed is not made again.                 *)
ReopenedOnce(s, activates, opens) ==
    IF s.stream = Nothing /\ source.stream # Nothing THEN Open(s, activates, opens) ELSE s

Reopened(s, activates, opens) ==
    IF s.stream = Nothing /\ now >= s.retryAt THEN Open(s, activates, opens) ELSE s

(* --- the two backends --------------------------------------------------- *)
AudioInit ==
    /\ now = 0 /\ track \in {"game", "mic"} /\ soundHealth = "starting"
    /\ world \in [device : Devices \cup {Nothing}, game : Games \cup {Nothing}, settled : {0}, mic : {TRUE}, changes : {0}]
    /\ track = "mic" => world.device = Nothing /\ world.game = Nothing
    /\ source = [stream |-> Nothing, queue |-> <<>>, lost |-> FALSE, refused |-> Nothing, heard |-> 0,
                 retryAt |-> 0, nextCheck |-> 0, packetAt |-> 0, checkedAt |-> 0]
    /\ timeline = EmptyTimeline /\ block = NoBlock

(* The first stream must open: a recording that never had sound says so.    *)
StartsGameAudio(activates, opens) ==
    LET s == Open(source, activates, opens)
    IN  /\ track = "game" /\ soundHealth = "starting"
        /\ source' = s /\ soundHealth' = IF s.stream = Nothing THEN "refused" ELSE "running"
        /\ UNCHANGED <<now, track, world, timeline, block>>

StartsMicrophone(opens) ==
    /\ track = "mic" /\ soundHealth = "starting"
    /\ source' = IF opens THEN [source EXCEPT !.stream = "microphone", !.packetAt = now, !.checkedAt = now] ELSE source
    /\ soundHealth' = IF opens THEN "running" ELSE "refused"
    /\ UNCHANGED <<now, track, world, timeline, block>>

(* next_buffer with nothing to wait for: poll, then a block if one is whole. *)
(* A source that went away is noticed at the call that says so, after the   *)
(* packets before it, or not yet when those are all a poll may take.        *)
(* world.settled is the last time there was something else to want, or no   *)
(* way to tell or to open it, whether or not this read has tried.           *)
ReadsGameAudio(known, activates, opens) ==
    /\ track = "game" /\ soundHealth = "running"
    /\ \E gone \in {source.lost, source.lost /\ RanDry(source.queue)}, n \in BeforeAFault(source.queue) :
        LET drained == IF gone THEN Pulled(timeline, source.queue, n) ELSE Drain(timeline, source.queue)
            polled == IF ~gone /\ source.stream # Nothing /\ RanDry(source.queue)
                      THEN FillTo(drained, now) ELSE drained
            kept == IF gone THEN [Closed(source) EXCEPT !.retryAt = now]
                    ELSE [source EXCEPT !.queue = Undrained(@)]
            s == Switched(kept, known)
            filled == IF s.stream = Nothing THEN FillTo(polled, now) ELSE polled
        IN  /\ source' = Reopened(s, activates, opens)
            /\ block' = NextBlock(filled) /\ timeline' = BlockTaken(filled)
    /\ world' = [world EXCEPT !.settled = IF CanOpen(source, activates, opens) /\ (known \/ source.stream = Nothing)
                                         THEN @ ELSE now]
    /\ UNCHANGED <<now, track, soundHealth>>

(* A live microphone delivers a packet every period even when nobody talks: *)
(* one that has been quiet for DEVICE_STALL is asked for its state.         *)
StallNoticed(s) == now - s.packetAt >= DEVICE_STALL /\ now - s.checkedAt >= DEVICE_STALL

ReadsMicrophone ==
    LET drained == Drain(timeline, source.queue)
        filled == IF RanDry(source.queue) THEN FillTo(drained, now) ELSE drained
        heard == [source EXCEPT !.queue = Undrained(@),
                                !.packetAt = IF source.queue = <<>> THEN @ ELSE now]
        asks == NextBlock(filled) = NoBlock /\ StallNoticed(heard)
    IN  /\ track = "mic" /\ soundHealth = "running" /\ ~source.lost
        /\ block' = NextBlock(filled) /\ timeline' = BlockTaken(filled)
        /\ source' = IF asks THEN [heard EXCEPT !.checkedAt = now] ELSE heard
        /\ soundHealth' = IF asks /\ ~world.mic THEN "failed" ELSE soundHealth
        /\ UNCHANGED <<now, track, world>>

(* A call that fails for another reason than a lost output ends the read,   *)
(* and with it the track; for the microphone a lost endpoint is such a      *)
(* reason.                                                                  *)
ReadFails ==
    /\ soundHealth = "running" /\ source.stream # Nothing
    /\ \E n \in BeforeAFault(source.queue) :
        /\ timeline' = Pulled(timeline, source.queue, n)
        /\ source' = [source EXCEPT !.queue = Unpulled(@, n)]
    /\ soundHealth' = "failed" /\ UNCHANGED <<now, track, world, block>>

(* --- the machine around them -------------------------------------------- *)
(* The clock: a frame at a time, or a jump (the machine was suspended).     *)
ClockMoves(by) ==
    /\ now + by <= Horizon /\ soundHealth = "running" /\ now' = now + by /\ block' = NoBlock
    /\ by = Suspend => world.changes < Changes
    /\ world' = IF by = Suspend THEN [world EXCEPT !.changes = @ + 1] ELSE world
    /\ UNCHANGED <<track, source, timeline, soundHealth>>

(* The engine delivers the n frames that have just played: with their time, *)
(* without one, or with a reading of another clock.                         *)
Delivers(n, stamp, discontinuity) ==
    LET first == now - n
        samples == [i \in 1..n |-> IF stamp = "good" THEN first + i - 1 ELSE Untimed]
        at == CASE stamp = "good" -> first [] stamp = "none" -> NoTime
                [] stamp = "foreign" -> now + MAX_FILL + Horizon
    IN  /\ soundHealth = "running" /\ source.stream # Nothing /\ ~source.lost
        /\ track = "mic" => world.mic
        /\ first >= source.heard /\ Len(source.queue) <= MAX_PACKETS
        /\ source' = [source EXCEPT !.heard = now,
                                    !.queue = Append(@, [at |-> at, samples |-> samples,
                                                         discontinuity |-> discontinuity])]
        /\ block' = NoBlock /\ UNCHANGED <<now, track, world, timeline, soundHealth>>

DeviceChanges(d) ==
    /\ soundHealth = "running" /\ track = "game" /\ d # world.device /\ world.changes < Changes
    /\ world' = [world EXCEPT !.device = d, !.settled = now, !.changes = @ + 1]
    /\ \E lost \in {FALSE, source.stream = world.device /\ source.stream # Nothing} :
          source' = [source EXCEPT !.lost = @ \/ lost]
    /\ block' = NoBlock /\ UNCHANGED <<now, track, timeline, soundHealth>>

GameChanges(g) ==
    /\ soundHealth = "running" /\ track = "game" /\ g # world.game /\ world.changes < Changes
    /\ world' = [world EXCEPT !.game = g, !.settled = now, !.changes = @ + 1] /\ block' = NoBlock
    /\ UNCHANGED <<now, track, source, timeline, soundHealth>>

(* Unplugged: the next call says so, or the device merely goes quiet.       *)
MicrophoneGoes ==
    /\ soundHealth = "running" /\ track = "mic" /\ world.mic
    /\ world' = [world EXCEPT !.mic = FALSE, !.settled = now, !.changes = @ + 1]
    /\ \E tells \in BOOLEAN : source' = [source EXCEPT !.lost = tells]
    /\ block' = NoBlock /\ UNCHANGED <<now, track, timeline, soundHealth>>

AudioNext ==
    \/ \E a, o \in BOOLEAN : StartsGameAudio(a, o)
    \/ \E o \in BOOLEAN : StartsMicrophone(o)
    \/ \E k, a, o \in BOOLEAN : ReadsGameAudio(k, a, o)
    \/ ReadsMicrophone
    \/ ReadFails
    \/ \E by \in {1, Suspend} : ClockMoves(by)
    \/ \E n \in 1..BLOCK : \E s \in {"good", "none", "foreign"} : \E d \in {FALSE, s = "good"} : Delivers(n, s, d)
    \/ \E d \in Devices \cup {Nothing} : DeviceChanges(d)
    \/ \E g \in Games \cup {Nothing} : GameChanges(g)
    \/ MicrophoneGoes

AudioSourceSpec == AudioInit /\ [][AudioNext]_audioVars

(* --- properties --------------------------------------------------------- *)
(* A sample that came with a time the track can obey is handed on within a  *)
(* block of it, through jitter, gaps, late packets, readings of other       *)
(* clocks and every reopening, and a block says it is padding exactly when  *)
(* the device delivered nothing of it (audio_timeline.rs: place, fill_to,   *)
(* next_block).                                                             *)
(* A stretch dropped by fill_to breaks both: the bytes stay, the index goes.*)
SoundSitsOnTheClock ==
    block # NoBlock /\ ~timeline.dropped =>
        /\ \A i \in 1..BLOCK :
              block.samples[i] >= 0 => block.start + i - 1 - block.samples[i] \in -BLOCK..BLOCK
        /\ block.filler <=> \A i \in 1..BLOCK : block.samples[i] = Silence

(* When the wanted source has been the same for a while and an open of it   *)
(* would have succeeded all along, a read leaves it open: a closed source   *)
(* is open again within the retry interval, and a stream that is no longer  *)
(* wanted is left for the wanted one within the check interval.  Neither    *)
(* timer, nor a failed try, nor a refused process keeps the game's sound    *)
(* away for longer (audio_recovery.rs: poll, check_switch, reopen).         *)
Patience == IF source.stream = Nothing THEN RETRY_INTERVAL ELSE SWITCH_CHECK_INTERVAL
TheWantedSourceIsOpen ==
    [][(\E k, a, o \in BOOLEAN : ReadsGameAudio(k, a, o)) /\ now - world'.settled >= Patience
          => source'.stream = Wanted(source')]_audioVars

(* A microphone that was taken away is noticed by the first read that finds *)
(* nothing a stall after it went and after the last packet it had left was  *)
(* read, although padding goes on making blocks in the meantime             *)
(* (wasapi_mic.rs: next_buffer).                                            *)
AGoneMicrophoneIsNoticed ==
    [][ReadsMicrophone /\ ~world.mic /\ block' = NoBlock /\ now - Greater(world.settled, source'.packetAt) >= DEVICE_STALL
          => soundHealth' = "failed"]_audioVars

(* A device or a game that comes or goes is followed, in time and not later. *)
ChangesAreNoticed == TheWantedSourceIsOpen /\ AGoneMicrophoneIsNoticed
=============================================================================
