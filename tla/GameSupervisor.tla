--------------------------- MODULE GameSupervisor ---------------------------
(***************************************************************************)
(* Automatic recording: the watcher polls for the watched games and sends  *)
(* what changed over an unbounded channel; the supervisor begins and ends  *)
(* one recording per game session; the recording runs on a thread of its   *)
(* own; anybody reads the shared status.  The one Store of the recorder is *)
(* moved into each recording and has to come back from it.                 *)
(*                                                                         *)
(* What the engine does while it runs is RecorderEngine's; here it runs,   *)
(* fails, or ends because the last sender of its commands is gone.         *)
(***************************************************************************)
EXTENDS Integers, SequencesExt

CONSTANTS
    WatchList,     \* the watched games, in the order of [games] watch
    LiveGames,     \* those a local API speaks for: no answer reads as "not running"
    NameOf(_),     \* the name the configuration gives a game
    NoGame,        \* no game, and no name
    Confirmations, \* polls a change must be seen by before it is believed
    MaxTurns,      \* bound: how many times a game is started or quit
    MaxFaults      \* bound: how many times a step fails or a poll misreads

Games == ToSet(WatchList)

ASSUME SupervisorAssumption ==
    /\ WatchList \in Seq(Games)
    /\ IsInjective(WatchList)       \* validate_watch_list: an exe is watched once
    /\ LiveGames \subseteq Games
    /\ NoGame \notin Games
    /\ \A g \in Games : NameOf(g) # NoGame
    /\ Confirmations \in Nat \ {0}  \* with_confirmations reads 0 as 1
    /\ MaxTurns \in Nat
    /\ MaxFaults \in Nat

VARIABLES
    alive,      \* whether each game is running
    believed,   \* what the tracker believes of each
    candidate,  \* the state a change of belief is heading for
    runs,       \* how many polls in a row have shown it
    queue,      \* the changes sent and not received
    watcher,    \* the watcher's thread
    sup,        \* where the supervisor's thread is
    subject,    \* the game of the change it is acting on
    recording,  \* its `running`: the game whose recording it holds
    store,      \* who has the Store
    engine,     \* the recording's thread
    commands,   \* whether the recording's command channel is published
    running,    \* status.running
    game,       \* status.game
    error,      \* whether status.error is set
    stopping,   \* the stop flag of Supervisor::shutdown
    turns,      \* how many times a game was started or quit
    faults      \* how many faults there were

trackerVars == <<believed, candidate, runs>>
worldVars == <<alive, turns>>
watchVars == <<trackerVars, watcher>>
supVars == <<sup, subject, recording, commands, game>>
engineVars == <<store, engine, running, error>>
vars == <<worldVars, watchVars, queue, supVars, engineVars, stopping, faults>>

Running == "running"
Stopped == "stopped"
Unknown == "unknown"
Changes == [change : {Running, Stopped}, game : Games]

TypeOK ==
    /\ alive \in [Games -> BOOLEAN]
    /\ believed \in [Games -> {Running, Stopped, Unknown}]
    /\ candidate \in [Games -> {Running, Stopped}]
    /\ runs \in [Games -> 0..Confirmations]
    /\ queue \in Seq(Changes)
    /\ watcher \in {"polling", "told", "down"}
    /\ sup \in {"waiting", "beginning", "spawning", "publishing", "clearing",
                "joining", "leaving", "joining last", "dropping", "gone"}
    /\ subject \in Games \cup {NoGame}
    /\ recording \in Games \cup {NoGame}
    /\ store \in {"prepared", "beginning", "engine", "handle", "lost"}
    /\ engine \in {"none", "running", "closing", "ended"}
    /\ commands \in BOOLEAN /\ running \in BOOLEAN
    /\ game \in {NameOf(g) : g \in Games} \cup {NoGame}
    /\ error \in BOOLEAN /\ stopping \in BOOLEAN
    /\ turns \in 0..MaxTurns
    /\ faults \in 0..MaxFaults

Init ==
    /\ alive \in [Games -> BOOLEAN]
    /\ believed = [g \in Games |-> Unknown]
    /\ candidate = [g \in Games |-> Stopped]
    /\ runs = [g \in Games |-> 0]
    /\ queue = <<>>
    /\ watcher = "polling"
    /\ sup = "waiting" /\ subject = NoGame /\ recording = NoGame
    /\ store = "prepared" /\ engine = "none"
    /\ commands = FALSE /\ running = FALSE /\ game = NoGame
    /\ error = FALSE /\ stopping = FALSE
    /\ turns = 0 /\ faults = 0

Fault == faults < MaxFaults /\ faults' = faults + 1

-----------------------------------------------------------------------------
(* The games.                                                              *)

\* A game is launched, or quits or crashes.
Toggle(g) ==
    /\ turns < MaxTurns
    /\ turns' = turns + 1
    /\ alive' = [alive EXCEPT ![g] = ~@]
    /\ UNCHANGED <<watchVars, queue, supVars, engineVars, stopping, faults>>

-----------------------------------------------------------------------------
(* The watcher: one poll, folded through the tracker.                      *)

\* What the detector answers of each game when the games `silent` do not
\* answer their local API: a refused or late answer is "no game".
Reading(silent) ==
    [g \in Games |-> IF alive[g] /\ g \notin silent THEN Running ELSE Stopped]

\* PresenceTracker::observe on one game, in the three cases of its match.
Streak(g, reading) ==
    CASE believed[g] = Unknown -> 1
      [] believed[g] = reading -> 0
      [] OTHER -> IF candidate[g] = reading THEN runs[g] + 1 ELSE 1

\* Whether the reading becomes the belief: the first one does, a later one
\* when enough polls in a row agree on it.
Believes(g, reading) ==
    \/ believed[g] = Unknown
    \/ believed[g] # reading /\ Streak(g, reading) >= Confirmations

\* What is worth a message: a game first found stopped is not.
Reports(g, reading) ==
    Believes(g, reading) /\ (believed[g] # Unknown \/ reading = Running)

\* The member of a set of positions that has `k` of them up to it.
AtRank(positions, k) ==
    CHOOSE i \in positions : Cardinality({j \in positions : j <= i}) = k

\* What a poll sends, in the order of the watch list.
ChangesOf(reading) ==
    LET told == {i \in DOMAIN WatchList : Reports(WatchList[i], reading[WatchList[i]])}
    IN  [k \in 1..Cardinality(told) |->
            LET g == WatchList[AtRank(told, k)] IN [change |-> reading[g], game |-> g]]

Observe(reading) ==
    /\ believed' = [g \in Games |-> IF Believes(g, reading[g]) THEN reading[g] ELSE believed[g]]
    /\ candidate' = reading
    /\ runs' = [g \in Games |-> Streak(g, reading[g])]
    /\ queue' = queue \o ChangesOf(reading)

\* GameWatcher::poll_once and the sends that follow it.
Poll ==
    /\ watcher = "polling"
    /\ Observe(Reading({}))
    /\ UNCHANGED <<worldVars, watcher, supVars, engineVars, stopping, faults>>

\* The same for a poll to which a running game's API does not answer.
PollMisreads ==
    /\ watcher = "polling"
    /\ Fault
    /\ \E silent \in SUBSET {g \in LiveGames : alive[g]} :
          silent # {} /\ Observe(Reading(silent))
    /\ UNCHANGED <<worldVars, watcher, supVars, engineVars, stopping>>

\* Mutant of PollFails: a poll that could not look is a snapshot of nothing.
PollFindsNothing ==
    /\ watcher = "polling"
    /\ Fault
    /\ believed' = [g \in Games |-> Stopped]
    /\ UNCHANGED <<worldVars, candidate, runs, watcher, queue, supVars, engineVars, stopping>>

\* A poll that could not look is no observation: not even a streak ends.
PollFails ==
    /\ watcher = "polling"
    /\ Fault
    /\ UNCHANGED <<worldVars, watchVars, queue, supVars, engineVars, stopping>>

\* The thread dies, and the channel's sender with it.
WatcherDies ==
    /\ watcher = "polling"
    /\ Fault
    /\ watcher' = "down"
    /\ UNCHANGED <<worldVars, trackerVars, queue, supVars, engineVars, stopping>>

\* The loop's next look at the flag its handle sets when it is dropped.
WatcherEnds ==
    /\ watcher = "told"
    /\ watcher' = "down"
    /\ UNCHANGED <<worldVars, trackerVars, queue, supVars, engineVars, stopping, faults>>

-----------------------------------------------------------------------------
(* The supervisor.  It looks at its flag before each change it receives.   *)

Receives(change) ==
    /\ sup = "waiting" /\ ~stopping
    /\ queue # <<>> /\ Head(queue).change = change
    /\ queue' = Tail(queue)

\* A game started while another's recording is held is forgotten.  A recorder
\* whose store is gone cannot begin.
ReceiveStarted ==
    /\ Receives(Running)
    /\ \/ /\ recording # NoGame
          /\ UNCHANGED <<supVars, engineVars>>
       \/ /\ recording = NoGame /\ store # "prepared"
          /\ error' = TRUE
          /\ UNCHANGED <<supVars, store, engine, running>>
       \/ /\ recording = NoGame /\ store = "prepared"
          /\ sup' = "beginning" /\ subject' = Head(queue).game
          /\ store' = "beginning"
          /\ UNCHANGED <<recording, commands, game, engine, running, error>>
    /\ UNCHANGED <<worldVars, watchVars, stopping, faults>>

\* Prepared::begin fails before the recording took the store: its guard hands
\* the store back.
BeginFails ==
    /\ sup = "beginning"
    /\ Fault
    /\ sup' = "waiting" /\ subject' = NoGame
    /\ store' = "prepared" /\ error' = TRUE
    /\ UNCHANGED <<worldVars, watchVars, queue, recording, commands, game, engine, running, stopping>>

\* Everything of the new recording exists but its thread. Its failure state is
\* its own: the last recording's error is cleared.
PublishRecording ==
    /\ sup = "beginning"
    /\ sup' = "spawning"
    /\ game' = NameOf(subject) /\ error' = FALSE
    /\ UNCHANGED <<worldVars, watchVars, queue, subject, recording, commands>>
    /\ UNCHANGED <<store, engine, running, stopping, faults>>

Spawn ==
    /\ sup = "spawning"
    /\ sup' = "publishing"
    /\ running' = TRUE /\ engine' = "running" /\ store' = "engine"
    /\ UNCHANGED <<worldVars, watchVars, queue, subject, recording, commands, game, error, stopping, faults>>

\* The thread could not be made: the engine is still in its slot, and the
\* store in the engine.
SpawnFails ==
    /\ sup = "spawning"
    /\ Fault
    /\ sup' = "waiting" /\ subject' = NoGame
    /\ store' = "prepared" /\ running' = FALSE /\ error' = TRUE
    /\ UNCHANGED <<worldVars, watchVars, queue, recording, commands, game, engine, stopping>>

PublishCommands ==
    /\ sup = "publishing"
    /\ sup' = "waiting" /\ subject' = NoGame
    /\ commands' = TRUE /\ recording' = subject
    /\ UNCHANGED <<worldVars, watchVars, queue, game, engineVars, stopping, faults>>

\* Mutant of EndsTheRecording: any watched game that stops ends the recording.
AnyGameEndsTheRecording(g) == recording # NoGame

\* The supervisor compares names.
EndsTheRecording(g) == recording # NoGame /\ NameOf(recording) = NameOf(g)

ReceiveStopped ==
    /\ Receives(Stopped)
    /\ \/ /\ ~EndsTheRecording(Head(queue).game)
          /\ UNCHANGED supVars
       \/ /\ EndsTheRecording(Head(queue).game)
          /\ sup' = "clearing" /\ subject' = recording /\ recording' = NoGame
          /\ game' = NoGame
          /\ UNCHANGED commands
    /\ UNCHANGED <<worldVars, watchVars, engineVars, stopping, faults>>

\* Mutant of DropCommands: the recording is joined with its channel still open.
KeepCommands ==
    /\ sup = "clearing"
    /\ sup' = "joining"
    /\ UNCHANGED <<worldVars, watchVars, queue, subject, recording, commands, game, engineVars, stopping, faults>>

DropCommands ==
    /\ sup = "clearing"
    /\ sup' = "joining"
    /\ commands' = FALSE
    /\ UNCHANGED <<worldVars, watchVars, queue, subject, recording, game, engineVars, stopping, faults>>

\* The store comes back with a thread that returned, not with one that panicked.
StoreOfJoined == IF store = "handle" THEN "prepared" ELSE "lost"

\* The join, and the retention pass over the session that just ended.
Join ==
    /\ sup = "joining" /\ engine = "ended"
    /\ sup' = "waiting" /\ subject' = NoGame
    /\ engine' = "none" /\ store' = StoreOfJoined
    /\ UNCHANGED <<worldVars, watchVars, queue, recording, commands, game, running, error, stopping, faults>>

\* The loop ends: it was told to stop, or nothing is watching any more.
Leave ==
    /\ sup = "waiting"
    /\ stopping \/ (queue = <<>> /\ watcher = "down")
    /\ sup' = "leaving"
    /\ UNCHANGED <<worldVars, watchVars, queue, subject, recording, commands, game, engineVars, stopping, faults>>

\* A recording still running is stopped on the way out.
CloseLast ==
    /\ sup = "leaving"
    /\ sup' = "joining last" /\ recording' = NoGame
    /\ commands' = (commands /\ recording = NoGame)
    /\ UNCHANGED <<worldVars, watchVars, queue, subject, game, engineVars, stopping, faults>>

JoinLast ==
    /\ sup = "joining last" /\ engine \in {"none", "ended"}
    /\ sup' = "dropping"
    /\ engine' = "none"
    /\ store' = IF engine = "ended" THEN StoreOfJoined ELSE store
    /\ game' = NoGame /\ running' = FALSE
    /\ watcher' = IF watcher = "polling" THEN "told" ELSE watcher
    /\ UNCHANGED <<worldVars, trackerVars, queue, subject, recording, commands, error, stopping, faults>>

\* The watch handle is dropped with the closure, and joins the watcher.
Gone ==
    /\ sup = "dropping" /\ watcher = "down"
    /\ sup' = "gone"
    /\ UNCHANGED <<worldVars, watchVars, queue, subject, recording, commands, game, engineVars, stopping, faults>>

\* Supervisor::shutdown.
Stop ==
    /\ ~stopping
    /\ stopping' = TRUE
    /\ UNCHANGED <<worldVars, watchVars, queue, supVars, engineVars, faults>>

-----------------------------------------------------------------------------
(* The recording's thread.                                                 *)

\* A pump or a tick fails: the loop ends by itself.
EngineFails ==
    /\ engine = "running"
    /\ Fault
    /\ engine' = "closing" /\ error' = TRUE
    /\ UNCHANGED <<worldVars, watchVars, queue, supVars, store, running, stopping>>

\* Its last sender is gone: the published one, and the one in the
\* supervisor's hand while it begins.
EngineHangsUp ==
    /\ engine = "running"
    /\ ~commands /\ sup # "publishing"
    /\ engine' = "closing"
    /\ UNCHANGED <<worldVars, watchVars, queue, supVars, store, running, error, stopping, faults>>

\* The clips and the encoder are finished; the guard clears status.running.
EngineReturns ==
    /\ engine = "closing"
    /\ engine' = "ended" /\ store' = "handle" /\ running' = FALSE
    /\ UNCHANGED <<worldVars, watchVars, queue, supVars, error, stopping, faults>>

\* A panic takes the store with it; the guard still clears status.running.
EnginePanics ==
    /\ engine \in {"running", "closing"}
    /\ Fault
    /\ engine' = "ended" /\ store' = "lost" /\ running' = FALSE
    /\ UNCHANGED <<worldVars, watchVars, queue, supVars, error, stopping>>

-----------------------------------------------------------------------------
WatcherNext == Poll \/ PollMisreads \/ PollFails \/ WatcherDies \/ WatcherEnds
SupervisorStep ==
    \/ ReceiveStarted \/ PublishRecording \/ Spawn \/ PublishCommands
    \/ ReceiveStopped \/ DropCommands \/ Join
    \/ Leave \/ CloseLast \/ JoinLast \/ Gone
SupervisorNext == SupervisorStep \/ BeginFails \/ SpawnFails
EngineNext == EngineFails \/ EngineHangsUp \/ EngineReturns \/ EnginePanics

Next ==
    \/ \E g \in Games : Toggle(g)
    \/ Stop
    \/ WatcherNext
    \/ SupervisorNext
    \/ EngineNext

Spec == Init /\ [][Next]_vars

\* Every thread keeps being scheduled: the watcher's loop polls again, the
\* supervisor's loop and its straight-line code go on, a recording that has
\* hung up finishes. No fault, no player and no stop is ever owed.
Fairness ==
    /\ WF_vars(Poll) /\ WF_vars(WatcherEnds)
    /\ WF_vars(SupervisorStep)
    /\ WF_vars(EngineHangsUp \/ EngineReturns)
LiveSpec == Spec /\ Fairness

-----------------------------------------------------------------------------
(* Properties.                                                             *)

Held(g) == recording = g \/ subject = g
Closing == sup \in {"clearing", "joining"}

StopIsQueued(g) == \E i \in DOMAIN queue : queue[i] = [change |-> Stopped, game |-> g]

\* A recording is never left behind by its game: while the supervisor holds
\* one, the tracker believes its game is running or the news that it stopped
\* is still on its way (the two sides of the channel never disagree for good).
RecordingHasItsGame ==
    \A g \in Games : Held(g) /\ ~Closing => believed[g] = Running \/ StopIsQueued(g)

\* The store comes back: a supervisor that holds no recording and waits for a
\* change can begin one, unless a recording's thread panicked (StoreGuard, the
\* engine's slot, the join).
StoreComesBack ==
    sup = "waiting" /\ recording = NoGame => store \in {"prepared", "lost"}

\* The store is lost only to a panic of the thread that had it.
LostOnlyToAPanic ==
    [][store # "lost" /\ store' = "lost" => EnginePanics]_vars

\* While a recording runs, status.game is its game's name, or is cleared
\* because its game's end is closing it; and commands are published only for
\* a recording the supervisor holds.
StatusNamesTheRecording ==
    /\ running /\ game # NoGame /\ sup # "joining last" => \E g \in Games : Held(g) /\ game = NameOf(g)
    /\ commands => recording # NoGame \/ sup = "clearing"
    /\ running => engine \in {"running", "closing"}

\* A stop that returned left nothing: no recording, no watcher, no status.
GoneMeansGone ==
    sup = "gone" =>
        /\ watcher = "down" /\ engine = "none" /\ store \in {"prepared", "lost"}
        /\ ~commands /\ ~running /\ game = NoGame

\* The supervisor, its watcher and the recording agree: a recording has its game,
\* its status names it, the store is where the next one finds it, and a stop that
\* returned left nothing.
RecordingIsItsGames ==
    TypeOK /\ RecordingHasItsGame /\ StoreComesBack /\ StatusNamesTheRecording /\ GoneMeansGone

\* A recording is ended by the supervisor only when a watched game of its own
\* name stopped: of the watched games only the executables are kept apart
\* (validate_watch_list), and the supervisor compares names. A game whose name
\* nobody shares is therefore ended by its own end alone.
OnlyItsGameEndsIt ==
    [][\A g \in Games : recording = g /\ recording' = NoGame /\ sup' = "clearing"
            => \E h \in Games : /\ Head(queue) = [change |-> Stopped, game |-> h]
                               /\ NameOf(h) = NameOf(g)]_vars

\* "A game other than the recorded one stopped; keep recording"
\* (crates/recorder/src/lib.rs): what ends a recording is the end of the very
\* game it is of.
AnotherGameEndsNothing ==
    [][\A g \in Games : recording = g /\ recording' = NoGame /\ sup' = "clearing"
            => Head(queue) = [change |-> Stopped, game |-> g]]_vars

\* Neither a recording nor the store is lost by mistake: not to the end of a
\* game of another name, and not to a thread that merely failed.
NothingEndsByMistake == OnlyItsGameEndsIt /\ LostOnlyToAPanic

\* A recording ends with its game: once a watched game stays stopped, it is
\* eventually not being recorded.
RecordingEndsWithItsGame ==
    \A g \in Games : <>[](~alive[g]) => <>[](~Held(g))

\* Supervisor::shutdown returns, whatever the recording is doing.
StopReturns == stopping ~> sup = "gone"

\* Nothing is held for ever: no recording after its game, no caller of a stop.
NothingIsHeldForEver == RecordingEndsWithItsGame /\ StopReturns

\* "replayed starts a recording when a watched game starts" (USER-GUIDE): a
\* game that keeps running is eventually recorded, or something is, unless
\* recording failed or was stopped.
WatchedGameIsRecorded ==
    \A g \in Games :
        <>[](alive[g]) => []<>(recording # NoGame \/ error \/ sup = "gone")

=============================================================================
