# A verification of replayed, in TLA+

`replayed` keeps the last seconds of a game in memory and makes a clip of them
when a key is pressed or a game reports something worth keeping; it can also
record whole sessions. This directory models the parts of it that are hard to
test: the threads that share a ring, a command queue, a store, a device or a
file, and what becomes of footage, of rows and of settings when one of them
fails, is stopped, is cut short or dies.

Paths below are relative to the repository's root. `tlc -config X.cfg M` checks
a run, `tlapm M.tla` the proofs of the modules
named `...Proofs`. `PROJECT.json` lists the runs,
the lines of the code behind every definition, a mutant for every property of a
passing run, the hazards and the findings.

1. The system
2. The modules
3. The runs: questions, bounds, fairness
4. What disagrees with the code's own words
5. What is proved
6. Plan
7. Bounds, and what is not modelled

## 1. The system

One process (the desktop application or the command line) holds a `Recorder`.

| part | state it keeps | operations | talks to |
|---|---|---|---|
| Memory ring (`crates/replay/src/ram_buffer.rs`, `crates/recorder/src/memory_ring.rs`) | fragments oldest first, a byte count, a sequence number, a reason its reader stopped | push (admit, evict), window, clip_source | fed by a reader thread on the encoder's pipe; cut by the engine; one mutex |
| Session ring (`crates/replay/src`, `crates/recorder/src/session.rs`) | a directory of segments, a ledger of the complete ones | scan, cut a window, close | ffmpeg writes the directory; splice threads read it |
| Recording engine (`crates/recorder/src/lib.rs`, `pump.rs`) | the loop's position, pending clips, media position, status | start, receive a command, pump, wait for a post-roll, splice, finish, shut down | callers over a channel, a splice thread per clip, the ring, the index |
| Games mode (`lib.rs` supervisor, `crates/events/src/process.rs`) | what is believed of each game, a queue of changes, the recording held, the one `Store` | poll, debounce, begin, end, stop | watcher thread, supervisor thread, engine thread |
| Sessions (`crates/recorder/src/session.rs`) | a directory of segments, an output file, a row of the index | begin, finish, recover at start | the store, ffmpeg, the disk |
| Store (`crates/store/src`) | SQLite: sessions, clips, events, tags; a schema version; retention policies | insert, end, delete, favourite, plan and execute, upgrade | every part, and the user's library |
| Game events (`crates/events/src/{lol,gsi}`, `crates/recorder/src/event_driver.rs`) | a tracker per game, a bounded queue of connections, a burst being gathered; a token, a port and the `.cfg` that names both | poll or accept, derive, coalesce, clip or mark; install | the games' local APIs, the engine's callers |
| Encoder (`crates/encoder/src`) | a child process, bounded frame and audio queues, owed silence; or a Media Foundation transform on a thread of its own | probe, choose, measure, open, enqueue, drop, finish within a budget | the engine, writer threads, the ring's reader |
| Capture (`crates/capture/src`) | a pool of frames, a clock, an audio timeline, a source that may go away, a COM apartment | next frame, stamp, place a packet, pad, reopen, stop | the engine, an audio worker thread per track, Windows |
| Desktop shell (`apps/desktop/src-tauri/src`) | one recorder slot, window, tray, hotkeys, `config.toml`, a log, a Run key | launch, start, stop, clip, list, delete, write settings | the recorder, the store, other launches of itself |
| Tools (`xtask/src`) | pins of the binaries that are shipped; the report of an acceptance run | record, fetch, verify | the network, the CLI as a child |

What is hard in each, and what makes it correct:

* **Ring.** Two caps (bytes, and the window plus one segment) evict while a clip
  waits for its post-roll. Right means: never empty once fed, the newest
  fragments in order, within both caps, and a clip that is one whole run, reaches
  its post-roll and keeps its pre-roll.
* **Session ring and session file.** Segments are seen while they are written; a
  directory may hold an earlier run's; the second writer must never hold up the
  pipe. Right means: what the ledger lists is on the disk and complete, a clip is
  what its window says, and what is saved is a prefix that says why it ended.
* **Engine.** Callers time out while their clip is still being made; the loop can
  fail, be stopped, panic or lose its last sender with clips half done; stops
  race; a start takes the only connection to the index and may fail at a dozen
  steps. Right means: nobody waits for ever, nobody is handed a clip that is not
  written, a stop that returns has stopped something, and a failed start gives
  back what it took.
* **Games mode.** Changes queue for seconds behind a recording being closed; a
  single `Store` is moved into each recording and must come back from every
  ending. Right means: a recording belongs to its game for as long as it lasts,
  the store is lost to a panic only, and a stop leaves nothing behind.
* **Sessions and clips.** A crash can fall between the copy, the row and the
  removal of the footage; recovery, retention and the user act on the same rows.
  Right means: footage is never removed while it is the only copy a row names,
  what the library offers is there, every session is closed some day, and what
  the policy deletes is what its rule names.
* **Schema.** An upgrade is five steps of several statements and a version stamped
  last; any of them may fail, it is cut short anywhere, and two processes run it at
  once. Right means: the version never claims a table that is not there, and no
  upgrade dies on a column that another one added.
* **Game events.** A document is a whole log or a scoreboard, not an event: it is
  served again, missed, refused, read late, and may be of another game or player
  than the last. Right means: what is reported happened, is reported once, and is
  still in the ring when the clip it joins is cut; the driver, its sources and
  their readers end although each waits for another; and a game is told the
  port that somebody listens on.
* **Encoder.** Frames and sound are matched by order alone, through full queues;
  closing waits for threads that wait for a child. Right means: every frame
  carries its own capture time, every track stays on the timeline, a finish that
  says Ok is complete, and closing returns whatever the child does.
* **Capture.** Timestamps in foreign units, devices that go and come, calls into
  Windows that never return. Right means: a sample that is given a time played
  then, a change is noticed in time, and every device and apartment is given
  back.
* **Desktop shell.** Two threads start and stop one recording, two panels and an
  editor write one file, two launches share one log and one Run key. Right means:
  one recording at a time, no edit lost without a word, one shell.
* **Tools.** Commands that are killed between two files. Right means: what is
  called pinned was hashed, and a verdict covers every check.

`PROJECT.json` "components" lists every part of the repository, with what is left
out of it and why.

## 2. The modules

A module models one component. Components that talk to one another are composed
by EXTENDS and a next-state relation over all their variables (`GameEvents` out
of `EventSink`, `LolPoller`, `GsiListener` and `EventDriver`; `EncoderChild` over
`HardwareEncoder`; `RecorderStart` over `EncoderChoice`). Components that do not
are checked by one MC module as *parts*: a variable says which part a behaviour is
about, and the others keep their initial state. A run of several parts is as large
as their sum, not their product.

### The ring, the engine, games mode

**MemoryRing.** `segments`, `bytes`, `evicted` and `next_seq` are the fields of
`MemoryRingBuffer`; `batch`, `header` and `encoded` stand for the splitter and
the encoder's stream; `reader` is where the reader thread is, and the mutex is
held exactly from `ReadChunk` to `PushReturns`. A clip request (`clip`) takes a
trigger (`TakeTrigger`), waits until the span covers the post-roll, and is cut
(`CutClip`, one critical section) or refused. Eviction is one fragment per step,
as in the loop of `enforce_caps`. Bytes are a size, a fragment its start and
length. Kept: a fragment whose sample table cannot be read has no end until the
next one arrives; the conversion from ticks floors, so a length can be `Rounding`
short; a chunk the splitter rejects drops what it had completed; a panic inside
`push` poisons the lock. `at` in a segment and `byteEvicted` are history: the
first states what `bytes` sums without a recursive sum, the second tells an
eviction for bytes from one for time.

**RecorderEngine.** One recording. `caller` follows each call of
`clip_now_in`/`note_event` from its stamp (`Ask`) to its answer, a timeout or a
refusal; `commands` is the channel; `engine` is the loop: receive, wait for a
post-roll, advance finished clips, pump, and on the way out join the clips
(`FinishPendingClips`) and shut down. A splice thread ends at any time, with a
file or without (`SpliceEnds`). `stop` is split where it takes the supervisor,
takes the thread lock, joins and clears; `supervisor` and `handle` say who owns
the recording. The ring is reduced to its span, a shutdown to whether it failed.

**ClipService** is the abstract specification of what a recording promises those
who ask it for a clip: an answer to each request it took, a clip only when its
file exists, nobody left without an answer when it is over. `RecorderEngine`
implements it (`IsAClipService`, with `request`, `answer`, `files`, `hungUp` and
`over` mapped to the engine's state).

**RecorderStart, EncoderChoice.** `start_inner` and `begin_recording`
step by step; each step may fail, and the error paths are part of the step. A
games-mode recorder repeats it with what its own start resolved. `EncoderChoice`
is `select_usable` over what ffmpeg advertises and what a smoke test says, with
the cache of its results; its second part is the measurement of a rate: the feeding thread, the
child that may stall, the deadline, the join.

**GameSupervisor.** The watcher's poll folds what each game's detector answers
through `PresenceTracker::observe` (`Streak`, `Believes`, `Reports`) and appends
the changes to an unbounded queue. The supervisor receives one change at a time;
the steps between which another thread can act are kept apart (taking the store,
publishing `status.game`, spawning, publishing the commands; clearing, dropping
the commands, joining). The recording's thread runs, fails, hangs up, returns or
panics. `store` is who has the one `Store`. `NameOf` is what the watch list calls a
game: two executables may have one name, and the supervisor goes by names.

### Sessions, clips and the index

**SessionLifecycle.** `rows` is the sessions table by id, `dir` and `file` are
the disk, and both survive `Crash`. A recorder starts (storage policy, then
recovery of every row it read), begins (claim the directory, open the row, start
the sources, spawn), films, and finishes (layout check, copy, end the row, remove
the footage), each a step of its own because a crash can fall between any two.
The policy and the user hold `plan`, deletions decided on the table as it was; a
delete is the row, then the file, then the directory. `seen` is the table as a
recovery read it, and `slot` the recorder the desktop holds: it starts another as
soon as that one is not recording, and the one that is replaced goes on until the
new one has started. `mistaken` is history: a recovery has listed the table while
another recorder had a row open. `NextId` is SQLite's rule for a key without AUTOINCREMENT.
Sessions are numbered by their start. Which rows the policy picks is abstracted
to an oldest-first prefix of what it may delete.

**SessionFiles.** The segments ffmpeg writes, the ledger that learns
of them from the directory, clips cut while the session runs, and the end, where
the segments become one file. Its first part is the copy itself:
`check_concat_layout`, the temporary file, the rename, the remains of a failure, and
a whole copy that cannot be probed, which stays. A segment is as long as the ledger
takes it to be: the ledger's timeline is made of nominal lengths
(`session.rs:126`), and how far a file's own length is from that is ffmpeg's.

**SessionSink.** A replay buffer that also saves its session: a bounded queue
from the ring's reader to a writer that may fall behind, fail or be cut off.

**ClipLibrary.** The tables `clips`, `clip_tags` and `events`, the files, and the
policy: `plan_cleanup` as an operator over rows and total, its execution row by
row. The recorder's thread and the commands of the desktop act on one library;
the process may die between any two steps. A file is worth a number of its own,
so that a name or an id used again is told from the first.

**LibrarySchema.** The upgrade by two processes, statement by statement: a backup,
the tables of v1 each on their own, four steps that look at a table's columns and add
those that are missing, and a stamp. SQLite's locks are modelled as the code meets
them (no write-ahead log): a step is a deferred transaction, which reads from its
first look on and is refused at once when it then wants the write lock another one
has; a commit waits for readers. Any call may fail, and either process may die.

**MatchSplit.** `split_matches` over every short timeline.

### Game events

Three threads (and the readers of one of them) around a channel. `EventSink` is
what they share: the channel, which is unbounded as in the code; the order in
which the driver's sources are dropped (`closing`); the media time; and how much
the world still does (`turns`, `faults`). `GameEvents` composes the three and
lets either source be switched off, as the configuration can.

* **LolPoller**: `client` is what the Live Client serves, a log and a clock;
  `tracker` is `Tracker`, and a poll is one of its outcomes (`Attaches`,
  `Derives`, `EndsInTheLog`, `GoesQuiet`, `CannotRead`). A line of the log is its
  place in it, which is what `EventID` counts; of the kinds of line, those a clip
  is made of are one. The clock runs in units longer than the five seconds a
  restart has to go back.
* **GsiListener**: the accept loop numbers connections and queues them; the
  readers are anonymous (`reading` is the connections they have, `returned` how
  many have ended), since they share everything but the job. The fold, the sending
  and the lock are one step. The rate limiter is a choice to turn a connection
  away, the gates before the fold are one refusal, and the kernel's backlog is
  merged with the accept. A scoreboard is one number per player; the bomb is down
  or not.
* **EventDriver**: receive, gather a burst, ask for a clip, wait for its answer,
  note the rest, and leave. A burst is over when it has been quiet, when it has lasted,
  or when no source is left to add to it. The engine is what the driver sees of it. Time passes
  only while the driver gathers or waits, and an event is received in the unit of
  time in which it can be: the properties about time are about the waits the code
  makes, not about a scheduler that holds a thread up.
* **RecorderHost**, its first half: the token file, the port that is bound, the
  `.cfg` in the game's directory and what the shell remembers of it.

What a game does while nobody polls or listens is not followed: no step of the
program depends on it.

### Encoder

**HardwareEncoder** is the thread that owns a Media Foundation transform: a queue
of textures in front of it, the pairing of finished frames with capture times, the
video queue behind it, into which the header goes as the frames do: queued, dropped,
or the end of the thread when nobody reads. **EncoderChild** adds the ffmpeg child, the frame and audio
queues, owed silence, the writers and the two ways to close. **TransformSetup** is
how a transform is opened, call by call, by three kinds of caller on threads of
their own, against drivers that refuse at every step.

### Capture

**CapturePump**: the compositor's pool, the handler that reports arrivals, the
wait on it, the pacer and the queue of textures. Its second part is the clock: a
frame's place on the timeline from two clocks. **AudioSource**: packets placed by
their timestamps, padding, dropping, and the source reopened when its device goes or
another is wanted. `world.settled` is history: the last time the machine wanted
something else, or the wanted source could not have been opened or told, whether or
not anybody tried. **AudioWorker**: the threads that own the backends, with a
budget for every question. **AudioDevice**: what a backend takes from Windows
and gives back.

### Desktop and tools

**RecorderHost**: the recorder slot, its lock, the event driver beside it, and
the threads that start and stop. **DesktopShell**: chords, the threads a press
goes through, and the tray that several threads redraw. **DesktopLaunch**: two
launches, the log and its rotation, the single-instance check, the Run key, the
window's close and Quit. **Settings**: `config.toml` under two commands, a hand
edit and an end between any two steps; its readers differ in what they accept.
The second part of **LibrarySchema** is the adoption of the data directory of the
old name. **Xtask**: `cargo xtask sidecars` and, behind it, `cargo xtask verify`.

## 3. The runs

| run | question | bounds, and why they are enough | states |
|---|---|---|---|
| `ring` | Does the ring keep what clips need, under eviction, failing readers and waiting clips? | cap of 4 bytes with fragments of 1 and 5 (one is over the cap alone), window 1+2 with segments of 1-2 (so the duration cap is 5), chunks of up to 2 fragments, 7 units of footage: enough to evict by either cap while a clip waits | 1.50 M |
| `engine` | Is every request answered rightly and every stop returned, whoever ends the recording and how; and does the engine implement `ClipService`? | one clip and one stop, and beside them a second clip (one waits behind, or is spliced beside, the other), a note, or a second stop; window 1+1 | 238 k |
| `sessions` | Is footage safe and every session closed, across crashes, and with a second recorder started while the first is armed? | 1 recorder with 2 sessions of any kind and 2 faults: a crash during the recovery from a crash; or 2 recorders with a session of any kind and a fault, or with a session each: a row read by one while the other opens or ends it, and two sessions in hand at once | 528 k |
| `supervisor` | Does a recording follow its game, and come to an end with it? | 2 games, one found by process and one by its local API, 2 confirmations as in the code, 3 launches or quits, 2 faults | 232 k |
| `events` | Is what the sources report real, reported once, and in its clip? | League alone with 3 turns, GSI alone with 5 (five is what a kill reported twice takes), both with 3; 1 fault; 2 games on each side, 2 players, 2 readers and a queue of 1 (so that documents overtake each other, and are turned away); bursts of up to 4 units with a pre-roll of 6 = 4 + post-roll + splice on one side and of 3, shorter than a burst, on the other | 3.75 M |
| `events_live` | Are POSTs answered, and does dropping the driver return? | the same with 2, 3 and 2 turns | 95 k |
| `encoder` | Does a start deliver what it claims or leave nothing; does the child get one timeline and always close; are chords and tray as shown; are transforms opened as asked? | parts `start` (6 configurations, 2 handshakes, 1 failing step, a child that stalls), `child` (3 frames, 3 blocks per track, queues of 2, textures or pixels, 1 misbehaviour of the transform), `shell` (2 chords, 2 presses, 2 changes, 2 refreshers), `transform` (2 threads, 6 machines, 1 failing call) | 768 k |
| `pipeline` | Is the pump never starved, the clock's rate kept, and footage accounted for? | parts `pump` (4 frames, a pool of 2, a ring of 3, a queue of 2, as in the code), `clock` (steps of 0, 1, 2 and 5 on either clock), `segments` (6 ticks in segments of 2, 2 clips, 1 fault, a fresh directory or one with segments), `part` (6 chunks, a queue of 2, 2 faults) | 2.71 M |
| `audio` | Is sound where it played, are changes noticed, and is everything opened given back? | parts `source` (game sound or microphone, 4 units of clock with timers of 1 and 2, drains of 2 packets, 2 changes, a jump among them), `worker` (both tracks, any call taking any time), `device` (2 threads, 3 device periods, 1 failing call, 2 starts, 1 stray call) | 664 k |
| `desktop` | What does the program keep from run to run, and what do its commands and tools say of it? | parts `clips` (1 save, 3 files, cap of 2, 1 fault), `schema` (2 processes, 5 steps of up to 2 pieces, any call failing, 2 deaths), `matches` (4 markers), `settings` (13 files, 2 commands in flight, 3 sent, 2 hand edits), `legacy` (3 entries, 3 starts), `launch` (2 launches, 2 mishaps), `host` (2 threads, 4 presses, 3 recordings, 2 faults), `pins` (2 commands, 5 archives, 2 failures), `acceptance` (7 command lines, 3 probes, 1 odd measurement) | 2.33 M |

Two further runs, `engine_doc_concurrent_stop` and
`desktop_dead_recording_keeps_its_driver`, each check one sentence of the
repository that the code does not keep; the next section lists them. Every
property of a passing run has a mutant of the code's definitions that breaks it.

Deadlock is checked in `ring` and `sessions`. The other modules stop when the
recording, the supervisor, the driver, the close, the launches or the bounded
inputs are over. In a run of several parts a bound ends one part only.

### The properties worth a word

* `ClipIsAsAsked` holds what the duration cap is for: it is the window *plus a
  segment* (`recorder/src/lib.rs:1419`); with the window alone, the fragment that
  completes the post-roll evicts the one that holds the pre-roll. It needs the
  reader to be less than a fragment past the post-roll, and it excepts the byte
  cap, which the code lets win.
* `IsAClipService` is a refinement: every step of the engine is a step of
  `ClipService` or a stutter. It is what forbids a second answer, a clip without
  its file, and a request that outlives the recording.
* `NobodyIsForgotten` holds `DroppedForAReason`: a game that ends drops no
  request, because a receiver that finds its senders gone still drains what is
  queued.
* `RowsTellTheTruth` holds `LiveSessionIsOpen`: what keeps recovery, retention
  and the user off a recording's footage is one row in one state. It holds for
  any number of recorders until a recovery lists the table while another recorder
  has a row open, and not after (`RecoversAPreviousRun`, section 4). That the recorders
  of one process are otherwise kept apart is the work of the slot and its lock.
* `FootageOutlivesItsRow` is an action property over every step of a finish, a
  recovery, an eviction and a crash.
* `RecordingIsItsGames` ties the two ends of the change queue: the supervisor
  never holds the recording of a game whose end is neither believed nor on its way.
* `ReportsAreTrue` holds `KillsAreReal`, which is what `last_seq` is for: with
  documents folded in the order they are read, a late one moves the baseline back
  and the next reports its kills again; and `NothingSlips`, which excepts what
  arrives in the document that ends the game: those highlights are left behind
  with it (`lol/derive.rs:105`).
* `WithinCaps` says of the byte cap that it holds of the bytes the ring really has:
  the count is kept by addition and subtraction, and a count that drifted would
  pass the cap's own check for ever.
* `MomentIsInItsClip` adds up the waits: an event may be sent while the driver waits
  for a clip, which takes a post-roll and a splice at most, and is gathered for
  `MaxBurst` after that; so it is in the clip's pre-roll whenever that reaches back
  for the sum (`Reach`). Nothing sizes a game's own pre-roll by its bursts: a
  `pre_seconds` of `[events.lol]` or `[events.gsi]` shorter than a burst leaves
  events out of their clip (`TheClipCoversItsBurst`, section 4).
* `NothingEndsByMistake` is about the name a recording was begun for: it is ended
  by the stop of a game so called and by nothing else. Of two games of one name
  either ends it (`AnotherGameEndsNothing`, section 4).
* `ChangesAreNoticed` is about three timers. Counted from the last time the wanted
  source changed, or could not have been opened, or could not be told, a read
  leaves it open after a retry interval when no stream was open and after a check
  interval when another was: a try that failed is made again, and a stream that
  works is left for the one that is wanted. A microphone that went without a word
  is asked for its state a stall later.
* `AFailedStartLeavesNothing` says exactly what a failed start does leave: the
  row of a recording whose thread could not be spawned, and a directory when it
  failed before the row.
* `MediaIsOnItsTimeline` compares each frame's time with the capture it really
  was, and each track's length with what was submitted, silence included. It
  excepts what follows a finished sample lost behind the transform, where the
  pairing shifts (section 4).
* `FinishTellsTheTruth` is about the answer Ok: all was written, and every writer
  and the child said so.
* `SoundSitsOnTheClock` gives every sample the time it played and compares it with
  the place it got, through jitter, foreign clocks, gaps and reopenings; it
  excepts what follows a stretch `fill_to` dropped.
* `BackendsAreKept` has three hazards in it: a late answer taken for the next
  question's, an apartment ended twice or on the wrong thread, and a watch that
  suspects a stream that did play.
* `TimelineKeepsItsRate` is over a whole stretch of frames, not over an interval:
  an error the code accepts in each interval must not add up.
* `FootageIsAccountedFor` joins ledger, disk, clips and the session's file:
  a clip covers its window unless something failed, was not there yet, or the
  code says it was short.
* `LibraryIsTrue` holds `PlanIsTheRule`: what the policy removes is what the
  two rules and the floor of favourites name together, by a definition that does
  not walk the rows as the code does.
* `PanelsKeepTheFile` and `PanelsTellTheTruth` are about a file with three
  writers: a write changes the keys it was sent and nothing else (except for a save
  by hand between its read and its rename, which is lost); what a panel stored
  stays; and a file the recorder starts with is one the panels can show.
* `LaunchesAreAsTold` holds `VersionTellsTheTruth`: whichever statement of an upgrade
  fails, beside another opener or not, the version claims only what is there, and
  nobody dies on a column that is there already, which is what one transaction around
  the look and the `ALTER` is for. It holds `LaunchesAreOne`: one shell stays, and one process
  writes the log. It excepts a log that was full when it was opened, or is being
  rotated, for which TLC finds two writers.
* `ToolsTellTheTruth`: a binary in place is one whose archive had the pinned hash,
  and an acceptance verdict of "pass" has judged every check of its platform.

### Fairness

Only what the scheduler owes: threads keep running (`EngineRuns`, the two `Poll`s,
`SupervisorStep`, `LoopStep`, `DriverThread`, each reader with its connection, the
encoder's feed and writers, the recorder and the audio workers, each thread that
redraws the tray), time passes while somebody waits for it (`Tick`), an ffmpeg
child that splices ends because it has a deadline (`SplicesEnd`), a call or a stop
that was made goes on. The child of the encoder is owed nothing: it may never dial,
read or exit, and `ClosingReturns` holds all the same because its wait has a
budget. `EveryDeviceIsGivenBack` assumes that a call into the platform's audio
service returns some day; the code bounds the wait for it, not the call. No key
press, stop, game or fault is ever owed. Where a step can fail or succeed (a clip
that is taken or refused) fairness is on the whole, and no fault action is under a
fairness condition that could force it. In `SessionLifecycle` the application is
quit and started again for ever: recovery happens at a start, so without another
start no session would be owed its end; `MCSessionLifecycle` states the same fairness of the
recorders a behaviour has and within its bounds. In a run of several parts fairness
is that of the part a behaviour is about.

## 4. What disagrees with the code's own words

| run | what the run shows |
|---|---|
| `engine_doc_concurrent_stop` | in games mode a second concurrent `stop` returns while the first is still closing the recording; the doc of `stop` says it waits (`recorder/src/lib.rs:1091`) |
| `desktop_dead_recording_keeps_its_driver` | a recording that ends by itself leaves its event driver listening; the next recording's own listener cannot bind the port; the field's comment says the driver lives "for exactly as long as the recording" (`commands/recorder.rs:140`) |

Both are quoted with their lines under "findings".

More properties stand in the modules outside the runs. Each says what a doc or a
comment says, and each is broken by the code; a cfg that names it shows how.

| property | module | what the code does |
|---|---|---|
| `ToldStoppedWhenStopped` | `RecorderEngine` | a clip that failed is reported to its caller as a recorder that stopped, although the reason was in the reply (`lib.rs:1004`) |
| `ErrorIsWrittenOnce` | `RecorderEngine` | a shutdown that fails too replaces the reason the loop stopped (`lib.rs:3442`) |
| `MarkerIsInsideItsClip` | `RecorderEngine` | a clip handled late starts after the moment it was asked for (needs `MaxSpan = 3`: more footage than the runs film; `lib.rs:2929`) |
| `WatchedGameIsRecorded` | `GameSupervisor` | a watched game launched while another's recording is held is never recorded, however long it goes on (`lib.rs:1735`) |
| `RecoversAPreviousRun` | `SessionLifecycle` | a recorder started beside an armed one (`commands/recorder.rs:401`) takes the row that one opens meanwhile for a crash's, and closes or finishes it, although the recovery is of "what a previous run left behind" (`session.rs:538`) |
| `AnotherGameEndsNothing` | `GameSupervisor` | two executables of a watch list may have one name (`events/src/process.rs:364`), and the stop of one ends the recording of the other, which goes on and is not recorded again; with `NameOf <- MCOneName` (`recorder/src/lib.rs:1777`) |
| `TheClipCoversItsBurst` | `GameEvents` | a burst is sized by the buffer's pre-roll and its clip by the game's own `pre_seconds`, so with a shorter one the clip begins after events of its burst, which it is said to cover; with `LolPre = 3` (`event_driver.rs:644`, docs at 632 and 719) |
| `ShortPreRollIsReported` | `MemoryRing` | a pre-roll longer than the recording so far is not reported as truncated (`memory_ring.rs:348`) |
| `AGameEndsOnce` | `GameEvents` | a League game whose log ends with `GameEnd` while the endpoint still serves it is started again and reported as over twice (`lol/derive.rs:102`) |
| `ADocumentEndsItsOwnGame` | `GameEvents` | a menu document of one game ends the other one (`gsi/derive.rs:156`) |
| `MarkersStayInTheirRecording` | `GameEvents` | what is left of a burst is noted in the recording that began meanwhile, at times of the one before (`event_driver.rs:718`) |
| `HandoverIsNotOverwritten` | `CapturePump` | the ring of textures has as many slots as the queue and the one being read take; the next frame is drawn over one of them (`mft.rs:1617`) |
| `OnlyASilentEncoderIsGivenUp` | `EncoderChild` | a request for input that arrives while the thread has nothing to give is lost, and the encoder is given up as one that never asked (`mft.rs:1131`, doc at 1106) |
| `RowShowsTheFile` | `SessionSink` | the size in the row is of the ledger in memory, not of the file beside it |

Ids are given again (`store/src/lib.rs:43`), so a
delete by an id still on screen can take a later session; and a session made a
favourite after the policy planned is evicted all the same (`retention.rs:447`).

What follows was met while the code was translated. It is in the models as the
code has it, or outside them as said, and no run is about it; each line is a
question for a reviewer of the code.

**Recording.** An early failure of a start leaves an empty session directory. A
thread that cannot be spawned leaves the row open. `status.encoder` is set after
a failed start. A transient failure of the smoke test is cached for the process.
`run_with_timeout` does not drain pipes (`media/src/binaries.rs:226`). The time
a caller waits ignores the clip in front of it. A clip whose window reaches a
torn segment of an adopted directory cannot be spliced. Two recorders that begin
in the same second share one session file (`session.rs:347`; not modelled).
Stopping an audio worker is bounded by a budget and the join after it is not
(`lib.rs:2138`).

**Encoder.** `dropped_frames()` forgets the transform's count (`ffmpeg.rs:1213`).
With textures a dead child is not noticed until the next write of the feed
(`mft.rs:1683`). The pairing shifts by one when a finished sample is lost
(`mft.rs:1131`, `timeline.rs:127`). In opening: a synchronous first candidate
fails the whole open; `open_started` that fails after configuring leaves the device
manager attached; `Drop` ends Media Foundation before its objects are released;
where BGRA was refused the encoder opens for another format while the recording
pushes BGRA; the measured rate counts intervals by one too few; and the bail for
"finished no frames" is unreachable.

**Capture.** A stamp that disagrees by less than a factor of two is trusted, so
small disagreements of one sign add up; a frame without a stamp may be placed
before an earlier one. `drop_stretch` keeps the bytes and loses the index
(`audio_timeline.rs:222`), and a block's filler flag after it. `release_com` of the
screen capture has no owner check (`wgc.rs:328`): the apartment is taken on the
caller's thread, and the engine's thread gives it back. In the WASAPI backends
`S_FALSE` counts as "not ours" (one count is kept per start); a stop from a
foreign thread releases objects there; a timed-out activation drops what the call
still uses; the one warning per session is per stream.

**Index and clips.** A clip deleted between `index_clip` and `index_event` makes
the event's insert fail on its foreign key. A second try after a crash in the
middle of an upgrade replaces the copy of the original. Of two processes that
upgrade at once one may be refused (`SQLITE_BUSY`), and its start with it: a deferred
transaction that has looked at a table cannot wait for the write lock
(`store/src/lib.rs:505`). The copy made before an upgrade may be of a database
another process is in the middle of upgrading. An unlink that fails is
not counted as an orphan. A thumbnail may be written for a clip that is gone
(`clips.rs:365`).

**Desktop: recordings and events.** A start with a bad `mute_clips` word answers
InvalidInput while its recording runs. A stop that races the end of a start leaves
a driver with no recording. What was told to a game is remembered in memory only,
although "the port can change between runs" (`health.rs`). A torn token file
refuses GSI until it is deleted by hand. If `wire_background` fails, the chords
stay "installed" with nobody to take a press, and closing the window ends the
program without stopping the recording. A tray icon that could not be drawn is
remembered as drawn. Quit stops and then exits: a start in between is killed.

**Desktop: launches.** A log opened full is rotated before the lock is noted as
held, so the new file is written without one; a launch that was refused the lock
rotates the shared files all the same; each second launch leaves a
`replayed-<pid>.log`. Warnings of the migration from the old name are given before
anything receives them. Opening the application state fails for any reason as "the
clips directory". A second launch opens and upgrades the index before it learns
that it is the second. A foreign Run entry written between the query and the
forced write is overwritten.

**Desktop: settings.** `read_encoder_settings` skips the schema check. An inline
`watch = [...]` is taken by the engine and refused by the panel. The panel may
write an output size while `zero_copy` is on, which the next start refuses. In
the move from the old name the index and configuration go first; if another entry
then fails it is never tried again. The shell's clips directory and the file's can
differ (`commit_clips_dir` after the lock). A save by hand between a panel's read
and its rename is lost.

**Tools.** A failing build gives two "build" rows, `--no-build` none. A status line
or a clip that is missing leaves its checks out, although nothing is "silently
omitted" (`verify.rs:33`). The probe passes on a machine with HEVC only. The loop
that drains the child reaches neither its end nor its budget while the child logs
faster than every 20 ms. `--clean-work` removes a report inside the work
directory. `record` writes back a manifest it read before the downloads. A fetch
that is killed leaves a mix of old and new binaries.

## 5. What is proved

Eight modules hold proofs, each beside the modules it is about. TLC checked each
inductive invariant below that it can evaluate on the run of its module before it
was proved (`KillsAreAccounted` asks for a function that exists, `CountInv` and the
lemmas under it are about every library, and `MatchInv` about every list of markers:
these are proved only).

| module | theorem | property | holds for every |
|---|---|---|---|
| `EncoderProofs` (the ring) | `RingTypes` | types; the byte count is never negative | cap, window, segment length, fragment and stream |
| | `RingHoldsTheNewest` | `HoldsTheNewest`: eviction never empties the ring and leaves no gap | |
| | `RingBytesAreExact` | the byte count is the bytes held | |
| | `RingWithinCaps` | `WithinCaps`: outside a push both caps hold, or one fragment is left, measured by a byte count that is exact | |
| | `ClipsAreWhole`, `ClipsReachPostRoll`, `PreRollIsKept` | the three parts of `ClipIsAsAsked` | |
| | `ClipsAreAsAsked` | `ClipIsAsAsked` | |
| `RecorderEngineProofs` | `EngineTypeOK` | `TypeOK` | number of clips, notes, stops and faults, and window |
| | `NoCallerIsForgotten` | `NobodyIsForgotten` | |
| | `AStopStops` | `StopMeansStopped` | |
| | `EngineIsAClipService` | `IsAClipService`: the refinement | |
| `GameSupervisorProofs` | `ARecordingIsItsGames` | `RecordingIsItsGames` | watch list, number of confirmations, launches and faults |
| | `NothingIsEndedByMistake` | `NothingEndsByMistake`, an action property | the same, games of one name included |
| `SessionLifecycleProofs` | `TheIndexTellsTheTruth` | `RowsTellTheTruth` | number of recorders, sessions and faults, and kind of session |
| | `FootageIsNeverLost` | `FootageOutlivesItsRow`, an action property | the same |
| `DesktopProofs` | `TheHostCapturesOne` | `OneRecordingAtATime` | threads, recordings, presses and faults |
| | `TheGameFindsTheListener` | `GameIsToldTheListener` | |
| | `TheLibraryIsTrue` | `LibraryIsTrue` | number of clips, trims, deletions and faults, cap and age |
| | `TheMatchesTileTheSession` | `MatchesTileTheSession` | number of markers and their times |
| | `ALaunchIsAsTold` | `LaunchesAreAsTold` | schema version, pieces of a step, openers, calls that fail, entries, launches and mishaps |
| | `ThePanelsAreTrue` | `PanelsTellTheTruth` | commands, edits, keys, values and saves by hand |
| | `ThePanelsKeepTheFile` | `PanelsKeepTheFile`, an action property | the same |
| | `TheToolsTellTheTruth` | `ToolsTellTheTruth` | targets, versions, binaries, releases, failures and oddities |
| `GameEventsProofs` | `TheReportsAreTrue` | `ReportsAreTrue` | number of games, players, readers, turns and faults, queue and clock |
| | `ALineIsReportedOnce` | `LinesAreReportedOnce`, an action property | the same |
| | `TheMomentIsInItsClip` | `MomentIsInItsClip` | quiet time, burst, post-roll, splice and pre-rolls |
| `PipelineProofs` | `TheCaptureKeepsTime` | `CaptureKeepsTime` | rate, pool, and delay on either clock |
| | `NoSegmentIsWrittenTwice` | `NothingIsWrittenTwice`, an action property | directory found, number of scans and faults |
| | `TheLedgerIsTrue` | `LedgerIsTrue`, a part of `FootageIsAccountedFor` | |
| | `TheSavedSessionIsAPrefix` | `SavedSessionIsAPrefix`, a part of `FootageIsAccountedFor` | queue, stream and number of faults |
| | `FootageIsAlwaysAccountedFor` | `FootageIsAccountedFor` | segment length, number of clips, windows and faults, and directory whose segments follow one another |
| `EncoderProofs` | `FailedStartsLeaveNothing` | `AFailedStartLeavesNothing` | configuration, set of encoders, number of starts and faults |
| | `StartsKeepTheirPromise` | `RecordingsStartAsPromised` | the same, and machine of drivers, threads and calls |
| | `MediaStaysOnItsTimeline` | `MediaIsOnItsTimeline` | queue, transform, number of frames, blocks and faults |
| | `FinishIsToldTruly` | `FinishTellsTheTruth` | the same |
| | `ChordsAreAsTold` | `HotkeysAreAsTold` | number of chords, presses and changes |
| `AudioProofs` | `BackendsAreKeptAlways` | `BackendsAreKept` | list of tracks, threads, periods, threshold, number of failures, starts and strays |
| | `ChangesAreFollowed` | `ChangesAreNoticed`, an action property | interval and stall, packet, number of changes, devices and games that share no name |
| | `SoundAlwaysSitsOnTheClock` | `SoundSitsOnTheClock` | block, lag, padding, poll, packets (timed, untimed or of another clock) and changes |

Two modules prove about more than one specification. In `DesktopProofs` the first
two theorems are about the slot's own (`HostSpec`), whose actions the run `desktop`
checks beside the other parts; the rest is about that run's own `MCSpec`, in which a
step is a step of one part and leaves the others. `EncoderProofs` holds the ring's
theorems too: `Spec` is the ring's there and `MCSpec` the encoder's.

### From which assumptions

Each module names what it assumes of its constants (`RingAssumption`,
`EngineAssumption`, `CaptureAssumption`, ...): counts are naturals, a segment and
a slot take time, the names that stand for nobody are nobody's, a recording's tracks
are two different ones at most (it has one microphone and one game). TLC evaluates
them on every run. `SetupAssumption` is about Media Foundation: a machine is a list of
drivers and each of them answers every call (`DriverAnswers`); nothing is assumed of
what it answers. `StartAssumption` says of what type the options are, and
`SettingsAssumption` the same of a panel's edits; `SidecarAssumption` that there is a
binary to fetch (`sidecars.rs:647` refuses an empty list) and that no version is one
of the words that stand for none; `GsiAssumption` that no player and no game is
called "none", the model's word for an absent one; `DriverAssumption` that one
recording may begin, because a driver may be found at work, and that a burst lasts as
long as its quiet and both take time (`Coalesce::for_pre_roll` gives them a second or
more, `event_driver.rs:641`); `SchemaAssumption` that each step of the schema adds
something. One theorem assumes more: `FootageIsAlwaysAccountedFor` assumes
`EarlierFollows`, that the segments an earlier run left in the directory have no number
missing between them. The muxer numbers them one after the other and a run starts one
past the largest it finds (`scanner.rs`, `next_segment_number`); with a file removed by
hand a window may name two segments with a hole between them. `TheLedgerIsTrue` and
`NoSegmentIsWrittenTwice` do not assume it.

### Along which argument

No property above is inductive as it stands; each module's invariant adds what
the argument needs, as a conjunction of named parts.

* **Ring.** `BatchFollows` and `Chained` say that the fragments of the stream, in
  the ring and still in the reader's hands, follow one another without gap or
  overlap, each at most a segment long; this is what makes "the span covers the
  post-roll" imply "the selected fragments reach it". `NewestFollows` bounds the
  rounding of the newest end. `FrontBound` carries the pre-roll through evictions:
  while nothing was evicted for bytes, the oldest fragment starts at zero, or so
  early that the duration cap is spent. `ReaderShape` says what the reader's
  position means for the lock and the chunk, so that a ring left in the middle of
  a push is poisoned. `ClipProps`: what was true of a clip when it was cut stays true.
* **Engine.** A request that was heard and is not answered is in exactly one
  place: in the channel once, in the wait for its post-roll, or among the clips
  being spliced (`QueuedWait`, `TakenWaits`, `PendingWait`, `NothingIsMislaid`).
  Uniqueness is what the refinement needs (no second answer) and existence what
  `NobodyIsForgotten` needs. `ReasonToFinish` follows why the loop is on its way
  out (it failed, a stop took its handle, or nobody can reach it and the channel
  holds no request), which is what makes a dropped request a stopped one.
  `StopsTakeTurns` and `TakenIsJoined` say that the thread handle is taken only by
  the holder of the lock, who keeps it until the thread has ended.
* **Refinement.** The engine's caller, reply, splice and end are mapped to the
  service's request, answer, files and over. There is a lemma for each abstract
  action (`ServiceAnswers`, `ServiceWrites`, ...), and each concrete action is shown
  to be one of them or a stutter.
* **Games mode.** `NewsIsTrue` is the invariant of the change queue: a game
  announced as started is still believed running, or its end is queued behind
  that. The lemma under it is about a poll: the changes it appends are each game's
  own, in the order of the watch list (`ChangesAreReports`, by counting the
  reporting games up to each). `StreaksEnd` is what the debouncing leaves between
  polls. `Hand`, `Thread`, `StoreIsSomewhere`, `StatusFollows` and `WatcherIsTold` tie
  the supervisor's position to the recording, the thread, the store and the status.
* **Sessions.** A crash may fall between any two steps, so the invariant is about
  the disk first: every row is one session's and every begun session has at most
  one row (`RowsAreSessions`), what a committed delete still removes is named by no
  row (`DeletedIsUnnamed`), and an id given again is above every row's. Then about
  work in hand: a recorder's row is running until its file is whole
  (`WorkHasItsRow`), footage is removed only beside a whole file
  (`WorkHasItsFootage`). `SeenIsStillSo`: the table a recovery read is still true of
  the rows it has not reached, because nobody else ends or films them. With several
  recorders that rests on what the desktop's lock gives: one at a time starts and
  recovers (`OneRecovers`), and what two of them have in hand are two sessions
  (`HandsApart`). What the lock does not give, that no recorder has a row open when a
  recovery lists the table, is what `mistaken` records, and all of this is claimed as
  long as it has not happened. The policy and the user act between any two steps, and
  the proof covers them.
* **Host.** Whatever runs is in the slot or with the thread that stops it, which
  holds the lock (`LockIsHeld`, `WhatRunsIsHeld`, `SlotIsFree`). For the listener:
  starts past the lock serve different recordings (`StartsAreApart`), and unless an
  install overlapped a driver's start, what the shell remembers, is installing, or
  is about to refresh is what the held driver serves (`FileIsRemembered`,
  `InstallIsOfTheHeld`, `RefreshIsOfTheHeld`, `RecordIsOfTheHeld`).
* **Capture.** A frame beside a pump about to wait has a report, seen or to come
  (`ReportIsToCome`); a frame is looked for only when its slot is due (`SlotIsDue`);
  and `AheadOfTheSlot` measures how far commits ran ahead from the slot that is
  next, by less than three slots, which one commit turns into less than four.
  `PaceIsKept` alone does not carry: it forgets how much of the two slots of catching
  up is spent. The clock needs that the last frame's times are the clocks' own.
* **Files.** The encoder writes past every segment on the disk and in the ledger
  (`WritesPastTheRest`), because the numbering starts one past the largest number
  found: that a finite set of numbers has a largest is proved by counting
  (`LargestIsThere`). What the ledger lists is on the disk (`LedgerIsOnDisk`).
* **Clips and the session file.** A second invariant, `FollowInv`, stands on the first.
  From the oldest segment to the one being written there is no gap, and what was
  recorded reaches to the end of what that one holds (`SegmentsLie`); all but the newest
  are full (`SegmentsHold`); the ledger is the disk up to the newest it knows
  (`LedgerFollows`), so the span it tells is behind the recording by a segment at most
  (`LagIsShort`). That lag is what ties the two ends of a clip: its trigger was read off
  the span, its wait off the recording, and the budget of the wait outlasts the lag, so
  a clip expires only behind an encoder that died or hangs (`ClipWaits`,
  `ClipIsGivenUp`). The window then covers what was asked (`Covers`) and keeps covering
  it, because its segments are closed and stay (`ClipIsFramed`, `Moves`); one whose
  files do not agree holds an earlier run's, and the same disagreement keeps the whole
  directory from being saved in one file (`ClipIsLost`). After the last scan the run's
  segments sum to what was recorded (`Saving`, by counting full segments:
  `FullSegmentsAdd`). A window is a set of numbers in order: that it rises by one at each
  step is shown by counting ranks (`RanksAreTaken`, `WithoutAGap`).
* **Start.** What a handshake holds follows from where it is: the connection
  (`StoreIsSomewhere`), the directory and the row (`HandshakesAreKnown`), the
  devices and the encoder (`DevicesAsAsked`, `EncoderAsAsked`), so each way out gives
  back what it holds. `ProbeInv` follows a measurement through its child and its
  feeder, up to what the rate may be read from.
* **Transforms.** A thread's transform has been through the calls its position
  says (`RightAsker`), against the driver whose turn it is, so that one handed out is
  the first of the machine's that can be configured (`Configurable`, `FirstOnes`: what
  was passed over cannot). The platform's count is the number of threads inside
  (`UsesPlatform`), by adding and removing one.
* **Child.** The video is counted: a texture is in the queue, in hand or inside the
  transform, which asked for as often as a request is queued (`FramesAreCounted`, over
  the set of queued requests). Until a finished sample is lost the capture times
  that wait are those of the frames inside, in order (`TimesArePaired`). `RightTrack`
  is the audio's ledger: written, queued and owed add up to what was submitted, and
  each block lies where its number says in what was written and what waits. The
  length of a track is the cardinality of its units, so that appending a piece and
  cutting a queue short are lemmas about finite sets, not about a sum. A finish
  adds up because a writer that ended had an empty queue (`PixelsAreCounted`,
  `OwnerHasWaited`).
* **Sound.** Of the worker: nobody is asked twice while the recorder reads, and what a
  stop has yet to end is in its list, once (`Asking`, `Ending`), so that an answer is
  never another request's. Of the device: what is held follows from how far the
  opening came (`HeldBefore`), and the count of an apartment is what others and the
  backend entered (`ApartmentInv`); `Suspects` says what the watch's counter means for
  what was heard. Of the source (`SourceInv`): a stream that is not the wanted one has
  its next check within an interval of the last change; a closed one is tried again
  within a retry interval of the last time an open would have failed, because only such
  a try puts the next one off; a microphone was asked for its state for the last time
  before it went.
* **Samples.** What waits begins where the last block ended, each sample of it lies
  within a block of its own time and is padding exactly where a filled stretch says so
  (`OnTheClock`); filled stretches do not touch, because one that goes on is made
  longer (`FillsApart`), so a block that is all padding lies in one of them and not in
  two (`TheBlockLies`); and a sample in the queue has its packet's time or none
  (`TimedPackets`). Both are claimed only while nothing was dropped (`TimelineInv`). A
  packet is then put where it played whether it comes early, late, twice or with the
  time of another clock (`PlaceKeeps`), and the drain by induction over the queue.
* **Chords.** While it registers, the thread holds the chords before the next one
  and no others (`ShellInv`).
* **Saved session.** The file and the queue behind it are, one after the other, the
  beginning of what was read (`SinkTyped`); as long as nobody has given a reason
  they are all of it (`WhatIsMissingIsSaid`), and the queue is empty by the time the
  writer has ended (`EndsInOrder`).
* **Library.** A command that is about to index a file, or to unlink one, holds a
  file that is on the disk and that no row names, and the engine and the desktop
  never hold the same one (`LibraryHeld`); no two rows name one file (`RowsApart`).
  Names are never given twice because the counter of saves is above all of them.
* **Plan.** Ages order the rows strictly, so there is one list of them, the oldest
  first (`TheyCanBeOrdered`, `ByAgeIsOrdered`). `SoFar` is the invariant of the size
  rule's walk along it: what is marked is what the age rule took and a beginning of
  the rest without the favourites, and each of these was taken while the library was
  above the cap. That bytes may be added up in any order, and that more clips have
  more bytes, is shown of the sum over a set (`AnyMayBeLeftOut`, `MoreClipsMoreBytes`).
* **Matches.** The fold over the markers is taken one marker at a time
  (`FoldOfOneMore`). What it has made so far tiles the session up to the last marker
  (`Tiles`), and its matches, with the open one, account for the starts and ends met
  (`Accounts`).
* **Schema and the old name.** Whoever upgrades read a version that the file has or
  has passed, and every piece up to the one it is at is there or among those its
  transaction adds (`OnItsWay`); what is there stays. One at a time writes
  (`OneWrites`), and nothing is committed past somebody who reads, so a column found
  missing is still missing when it is added, and a failure anywhere leaves what was
  committed, without the stamp. What a start has still to move is in the old
  directory, and a directory that had been used is left alone (`LegacyInv`).
* **Launches.** A process past the check is the one that stays, and no other has
  anything to show (`ScreenInv`); unless the log slipped, who writes the shared file
  has locked it, or rotated it and locks it next (`LogInv`); until it acts, a sync
  has said nothing and the Run entry is what it read (`SyncInv`).
* **Settings.** Who reads, writes or reads back holds the lock (`LockIsTheWriters`),
  so the document about to be written is the file with the call's own edits, but for
  what the user saved meanwhile (`DocumentIsEdited`); a directory a panel names was
  made before (`DirectoryIsMade`), and what was stored is in the file
  (`StoredIsInTheFile`).
* **Tools.** A fetch that extracts has the archive the manifest pins, and the
  binaries before the one it is at are in place (`FetchOf`); a record has the archive
  of every hash it is about to write (`RecordOf`). Of an acceptance run: unless a row
  failed there is exactly one row for each check of the steps behind it (`Complete`),
  counted by the step each check is judged at.
* **League.** What was there at the attach and what was reported is in the tracker's
  set (`SeenIsKept`), and what is in the set was reported or was there
  (`SeenIsReported`); the first keeps a line from being reported twice, the second
  from being passed over.
* **GSI.** Documents may be read in another order than they were accepted in. The
  invariant is an account (`Account`): for each accepted document the kills its
  player had made by then, never less for a later document. Two documents of one
  match differ by no more kills than their accounts do (`DocumentsAgree`), and so do
  the baseline and each document after it (`BaselineAgrees`); what was reported is at
  most the account of the last document folded, which is why a document older than
  `last_seq` must be passed over.
* **Moments.** An event waits for the driver at most a post-roll and a splice
  (`WaitIsShort`); in a burst time passes only while the channel is empty, so its
  events were sent after it began or within that wait (`BurstIsShort`); and a clip is
  asked for at most a burst later (`ClipIsSoon`).

A fold of the community modules is a recursive function: the proofs that need one
(`ThereIsAFold`, `TheWalkIsThere`, `ThereIsAWalk`, `ThereIsAPlacing`) first show that
a function with its equations exists, and that it is the only one. Induction over
numbers is a lemma, from the least number for which a claim fails
(`NumbersByInduction`), and induction over a list or a set goes by its length.

Each module has a lemma per action or per part of its invariant, the theorem follows
from `Init => IInv`, `IInv /\ [Next]_vars => IInv'` and `IInv => Property`. The modules
with proofs use no RECURSIVE operator.

### Only model-checked

* Liveness (`NobodyWaitsForEver`, `NothingIsHeldForEver`, `EverySessionIsClosed`,
  `PostsAreAnswered`, `DropReturns`, `ClosingReturns`, `TrayCatchesUp`,
  `EveryDeviceIsGivenBack`): fairness and ENABLED are out of
  this prover's reach.
* The documented claims the code does not keep (section 4) are refuted by
  their runs, and no theorem is about them.
* Nothing of how far the ledger's nominal timeline is from the length of the files:
  that a clip expires only behind a dead or hanging encoder is proved for every
  segment length and post-roll, on that timeline. In the run `pipeline` no clip
  expires behind a running child, because the budget is right; with a budget of the
  post-roll alone one does, and TLC finds it.

## 6. Plan

Done: the ring and its proofs; the engine and its refinement of `ClipService`; the
start; games mode; sessions, segments and the session file; the clip library, the
schema and the matches; game events and their installation; the encoder, its
choice, opening and child; the capture's pump, clock, audio source, worker and
device; the desktop's slot, shell, launches and settings; the two tools.

Proved: every safety property of a run that expects none violated: the ring, the
engine and its refinement, games mode, sessions, the library's rows
and its plans, the matches, the schema, the launches, the settings and the two tools,
the host's slot and listener, the game events of both sources and their driver, the
capture's pump, clock, segments, clips and session file, of the encoder the start, the
transforms, the child and the chords, and of the sound its threads, its devices, its
sources and where its samples lie.

Left, all of it models:

* documents whose events carry no id;
* an abstract feed (a game's highlights, each delivered at most once) that the poller
  implements, and an abstract library that `SessionLifecycle` implements;
* the periodic tick of the loop with its bail on memory (`lib.rs:2786`);
* restarting a capture after a stop.

## 7. Bounds, and what is not modelled

Every counter that the code leaves unbounded is bounded in the guard of the action
that moves it, by a constant its module names as a bound (`MaxMs`, `MaxSpan`,
`MaxSessions`, `MaxTurns`, `MaxGames`, `MaxClock`, `MaxRecordings`, `MaxSaves`,
`MaxWrites`, `MaxNow`, `MaxMedia`, `MaxClips`, `MaxChunks`, `Frames`, `EndTime`,
`ClockEnd`, `Horizon`, `Blocks`, `MaxPresses`, `MaxNews`, `MaxCalls`,
`MaxMeasured`, `MaxFed`, `MaxStarts`, `MaxApplies`, `MaxHand`, `MaxEdits`,
`MaxLaunches`, `MaxInstalls`, `MaxCommands`, `MaxReleases`, `MaxMarkers`,
`MaxOdd`), and every kind of misfortune has a bound of its own (`MaxFaults`,
`TransformFaults`, `SetupFaults`, `SinkFaults`, `FilesFaults`, `MaxFileFaults`,
`MaxFailures`, `MaxStrays`, `MaxMishaps`, `MaxDeaths`, `Changes`, `Suspend`).
They end the footage, the sessions, the launches, the games, the recordings and
the faults; nothing else is capped, and the channels that are unbounded in the
code are unbounded here.

Where two modules follow one thing, each has the half its properties tell apart:
the span the engine waits for is `MemoryRing`'s, the clip's answer the driver
waits for is `RecorderEngine`'s, the row a finish writes is `SessionLifecycle`'s
and the file `SessionFiles`'. They are not composed: each takes the other's answer
as a choice, which is more than the other would give.

Not modelled:

* wall-clock time, except where a property is about it (a deadline is otherwise a
  choice to time out), and the contents of media;
* the HTTP framing of the two loopback integrations: a byte parser with no state
  between requests and exhaustive tests of its own;
* Windows, Media Foundation, WASAPI, SQLite, ffmpeg and the web view, which are
  external and modelled as what may come back from them;
* diagnostics, DTOs, log wording and the read-only queries of the store;
* the frontend's views, the command line and the build helpers: drivers over
  commands that are modelled, with no state the recorder depends on;
* the search for executables and for a game's directory, the text of command
  lines, concat lists and file names, and the ranges of single configuration keys;
* statistics (`RateMeter`, the loop's tick) and restarting a capture after a stop.
