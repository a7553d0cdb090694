---------------------------- MODULE RecorderHost ---------------------------
(***************************************************************************)
(* The desktop shell's one recording (src-tauri's commands/recorder.rs):   *)
(* the slot that holds its engine, the event driver that serves it, and    *)
(* the threads that start and stop it: the window's commands, the tray's   *)
(* menu and the hotkeys' press loop (background.rs, dispatch).             *)
(* Recording n is the n-th that was started, and driver n serves it.       *)
(*                                                                         *)
(* And what makes a game post to this program: its token, kept in a file   *)
(* from run to run, the port its listener bound, and the .cfg in the       *)
(* game's own directory that names both (crates/recorder's                 *)
(* event_driver.rs, crates/events' gsi/integration.rs, src-tauri's         *)
(* health.rs).  One game is modelled.                                      *)
(***************************************************************************)
EXTENDS Integers, FiniteSets

CONSTANTS
    Drivers,       \* the recordings' event drivers
    MaxFileFaults, \* bound: files removed, torn or refused
    MaxInstalls    \* bound: uses of the install button

ASSUME GsiInstallAssumption == Drivers \subseteq Nat \ {0} /\ {MaxFileFaults, MaxInstalls} \subseteq Nat

VARIABLES
    ephemeral,  \* [events] gsi_ephemeral_port
    token,      \* the token file: Absent, Torn, or which token it holds
    tokens,     \* tokens that have been made
    listening,  \* the driver that holds the configured port, or NoDriver
    binding,    \* what each driver's listener serves, or NotServed
    cfg,        \* the file the game reads, or NotServed
    record,     \* the binding the shell remembers writing it from, or NotServed
    install,    \* the install command in flight
    raced,      \* an install overlapped a driver's start, or a refresh its end (history)
    fileFaults, installs

gsiVars == <<ephemeral, token, tokens, listening, binding, cfg, record, install, raced,
             fileFaults, installs>>

NoDriver == 0
Absent == 0
Torn == -1
NotServed == [port |-> 0, token |-> 0]
ConfiguredPort == 1

GsiInstallInit ==
    /\ ephemeral \in BOOLEAN
    /\ token = Absent /\ tokens = 0
    /\ listening = NoDriver /\ binding = [d \in Drivers |-> NotServed]
    /\ cfg = NotServed /\ record = NotServed
    /\ install = [at |-> "idle", binding |-> NotServed] /\ raced = FALSE
    /\ fileFaults = 0 /\ installs = 0

----------------------------------------------------------------------------
(* A driver's start and end.                                                *)

\* load_or_create_token: an existing file that holds no token is an error, never
\* replaced.
load_or_create_token == IF token = Absent THEN tokens + 1 ELSE token

\* An ephemeral port is the driver's own; the configured one has one holder.
CanBind == ephemeral \/ listening = NoDriver
PortOf(d) == IF ephemeral THEN ConfiguredPort + d ELSE ConfiguredPort

\* start_gsi: the token, then the bind, and only then what names the port.  A
\* listener that cannot start is a warning.
start_gsi(d) ==
    /\ token' = load_or_create_token
    /\ tokens' = IF token = Absent THEN tokens + 1 ELSE tokens
    /\ IF token' # Torn /\ CanBind
       THEN /\ binding' = [binding EXCEPT ![d] = [port |-> PortOf(d), token |-> token']]
            /\ listening' = IF ephemeral THEN listening ELSE d
       ELSE UNCHANGED <<binding, listening>>
    /\ raced' = (raced \/ install.at # "idle")
    /\ UNCHANGED <<ephemeral, cfg, record, install, fileFaults, installs>>

\* Dropping a set of drivers joins their listeners and frees what they held.
drop_drivers(ds) ==
    /\ binding' = [d \in Drivers |-> IF d \in ds THEN NotServed ELSE binding[d]]
    /\ listening' = IF listening \in ds THEN NoDriver ELSE listening

\* Mutant of Moved: only the port is compared.
MovedPort(b) == record.port # b.port

Moved(b) == record # b

\* refresh_installed_gsi, with the bindings taken when the driver was spawned: an
\* installation that names something else is rewritten; one that cannot be
\* rewritten is forgotten.
refresh_installed_gsi(b) ==
    \/ /\ (record = NotServed \/ b = NotServed \/ ~Moved(b))
       /\ UNCHANGED <<cfg, record, fileFaults>>
    \/ /\ record # NotServed /\ b # NotServed /\ Moved(b)
       /\ cfg' = b /\ record' = b /\ UNCHANGED fileFaults
    \/ /\ record # NotServed /\ b # NotServed /\ Moved(b)
       /\ fileFaults < MaxFileFaults /\ fileFaults' = fileFaults + 1
       /\ record' = NotServed /\ UNCHANGED cfg

----------------------------------------------------------------------------
(* The install button.                                                      *)

\* The command reads the live binding; with no listener up there is nothing to
\* install.
ReadsBinding(b) ==
    /\ install.at = "idle" /\ installs < MaxInstalls /\ b # NotServed
    /\ installs' = installs + 1
    /\ install' = [at |-> "write", binding |-> b]
    /\ UNCHANGED <<ephemeral, token, tokens, listening, binding, cfg, record, raced, fileFaults>>

\* write_cfg_atomically: the old file or the new one.
write_cfg ==
    /\ install.at = "write"
    /\ \/ /\ cfg' = install.binding /\ install' = [install EXCEPT !.at = "remember"]
          /\ UNCHANGED fileFaults
       \/ /\ fileFaults < MaxFileFaults /\ fileFaults' = fileFaults + 1
          /\ install' = [at |-> "idle", binding |-> NotServed] /\ UNCHANGED cfg
    /\ UNCHANGED <<ephemeral, token, tokens, listening, binding, record, raced, installs>>

remember_install ==
    /\ install.at = "remember"
    /\ record' = install.binding
    /\ install' = [at |-> "idle", binding |-> NotServed]
    /\ UNCHANGED <<ephemeral, token, tokens, listening, binding, cfg, raced, fileFaults, installs>>

\* The user deletes the token file, or the write of a new one was cut short.
TokenFileChanges ==
    /\ token # Absent /\ fileFaults < MaxFileFaults
    /\ fileFaults' = fileFaults + 1
    /\ token' \in {Absent, Torn} \ {token}
    /\ UNCHANGED <<ephemeral, tokens, listening, binding, cfg, record, install, raced, installs>>

----------------------------------------------------------------------------
\* The recordings and their threads.

CONSTANTS
    Threads,      \* who presses a button
    MaxTurns      \* bound: buttons pressed

Nobody == "nobody"

ASSUME HostAssumption == Nobody \notin Threads /\ MaxTurns \in Nat

VARIABLES
    recordings, \* each recording: "none", "running", or "over"
    slot,       \* the recording in the slot, or NoRecording
    lock,       \* the thread that holds the slot's lock, or Nobody
    events,     \* the driver `events` holds, or NoDriver
    drivers,    \* drivers that have been spawned and not dropped
    badPolicy,  \* [events] mute_clips names no kind of event
    thread,     \* what each thread is doing
    turns

hostVars == <<gsiVars, recordings, slot, lock, events, drivers, badPolicy, thread, turns>>

NoRecording == 0

IdleThread == [at |-> "idle", id |-> NoRecording, bindings |-> NotServed]
Goes(t, at) == thread' = [thread EXCEPT ![t].at = at]
Ends(t) == thread' = [thread EXCEPT ![t] = IdleThread]

HostInit ==
    /\ GsiInstallInit
    /\ recordings = [d \in Drivers |-> "none"] /\ slot = NoRecording /\ lock = Nobody
    /\ events = NoDriver /\ drivers = {} /\ badPolicy \in BOOLEAN
    /\ thread = [t \in Threads |-> IdleThread] /\ turns = 0

started == {d \in Drivers : recordings[d] # "none"}
running == {d \in Drivers : recordings[d] = "running"}
status_running == slot # NoRecording /\ recordings[slot] = "running"

----------------------------------------------------------------------------
(* Buttons.                                                                 *)

\* The window's Start and Stop.
Press(t, at) ==
    /\ thread[t] = IdleThread /\ turns < MaxTurns
    /\ turns' = turns + 1
    /\ Goes(t, at)
    /\ UNCHANGED <<gsiVars, recordings, slot, lock, events, drivers, badPolicy>>

\* dispatch, ToggleRecording: the status is read, and then acted on.
ToggleRecording(t) == Press(t, IF status_running THEN "stop" ELSE "start")

----------------------------------------------------------------------------
(* RecorderHost::start_with.                                                *)

StartLocks(t) ==
    /\ thread[t].at = "start" /\ lock = Nobody
    /\ IF status_running
       THEN Ends(t) /\ UNCHANGED lock
       ELSE Goes(t, "starting") /\ lock' = t
    /\ UNCHANGED <<gsiVars, recordings, slot, events, drivers, badPolicy, turns>>

\* Everything the engine decides happens under the lock; a start that fails
\* leaves the slot as it was.
Started(t) ==
    /\ thread[t].at = "starting"
    /\ \E d \in Drivers \ started :
          /\ \A e \in Drivers \ started : d <= e
          /\ recordings' = [recordings EXCEPT ![d] = "running"]
          /\ slot' = d
          /\ thread' = [thread EXCEPT ![t].at = "spawn", ![t].id = d]
    /\ lock' = Nobody
    /\ UNCHANGED <<gsiVars, events, drivers, badPolicy, turns>>

StartFails(t) ==
    /\ thread[t].at = "starting"
    /\ Ends(t) /\ lock' = Nobody
    /\ UNCHANGED <<gsiVars, recordings, slot, events, drivers, badPolicy, turns>>

\* The clip policy is made from the configuration when the recording runs; one
\* it cannot be made from is the start's error, and the recording runs on.
PolicyRefused(t) ==
    /\ thread[t].at = "spawn" /\ badPolicy
    /\ Ends(t)
    /\ UNCHANGED <<gsiVars, recordings, slot, lock, events, drivers, badPolicy, turns>>

\* EventDriver::spawn, with the slot's lock given up.
SpawnsDriver(t) ==
    /\ thread[t].at = "spawn" /\ ~badPolicy
    /\ start_gsi(thread[t].id)
    /\ drivers' = drivers \cup {thread[t].id}
    /\ Goes(t, "hold")
    /\ UNCHANGED <<recordings, slot, lock, events, badPolicy, turns>>

DriverCannotStart(t) ==
    /\ thread[t].at = "spawn" /\ ~badPolicy
    /\ Ends(t)
    /\ UNCHANGED <<gsiVars, recordings, slot, lock, events, drivers, badPolicy, turns>>

\* Its bindings are noted, and the driver replaces the one that was held, which
\* is dropped.
HoldsDriver(t) ==
    /\ thread[t].at = "hold"
    /\ events' = thread[t].id
    /\ drivers' = drivers \ {events}
    /\ drop_drivers({events})
    /\ raced' = (raced \/ install.at # "idle")
    /\ thread' = [thread EXCEPT ![t].at = "refresh", ![t].bindings = binding[thread[t].id]]
    /\ UNCHANGED <<ephemeral, token, tokens, cfg, record, install, fileFaults, installs,
                   recordings, slot, lock, badPolicy, turns>>

\* The bindings are the noted ones, whether or not that driver still runs.
RefreshesInstalled(t) ==
    /\ thread[t].at = "refresh"
    /\ refresh_installed_gsi(thread[t].bindings)
    /\ Ends(t)
    /\ raced' = (raced \/ install.at # "idle" \/ events # thread[t].id)
    /\ UNCHANGED <<ephemeral, token, tokens, listening, binding, install, installs,
                   recordings, slot, lock, events, drivers, badPolicy, turns>>

----------------------------------------------------------------------------
(* RecorderHost::stop.                                                      *)

\* The sources go first.
StopDropsDriver(t) ==
    /\ thread[t].at = "stop"
    /\ events' = NoDriver /\ drivers' = drivers \ {events}
    /\ drop_drivers({events})
    /\ Goes(t, "stop lock")
    /\ UNCHANGED <<ephemeral, token, tokens, cfg, record, install, raced, fileFaults, installs,
                   recordings, slot, lock, badPolicy, turns>>

\* Mutant of StopLocks: the guard is let go with the recorder taken.
StopLocksAndLetsGo(t) ==
    /\ thread[t].at = "stop lock" /\ lock = Nobody
    /\ slot' = NoRecording
    /\ IF slot = NoRecording
       THEN Ends(t)
       ELSE thread' = [thread EXCEPT ![t].at = "stopping", ![t].id = slot]
    /\ UNCHANGED <<gsiVars, recordings, lock, events, drivers, badPolicy, turns>>

\* The recorder is taken, and the lock held until it is over.
StopLocks(t) ==
    /\ thread[t].at = "stop lock" /\ lock = Nobody
    /\ slot' = NoRecording
    /\ IF slot = NoRecording
       THEN Ends(t) /\ UNCHANGED lock
       ELSE /\ thread' = [thread EXCEPT ![t].at = "stopping", ![t].id = slot]
            /\ lock' = t
    /\ UNCHANGED <<gsiVars, recordings, events, drivers, badPolicy, turns>>

Stopped(t) ==
    /\ thread[t].at = "stopping"
    /\ recordings' = [recordings EXCEPT ![thread[t].id] = "over"]
    /\ lock' = IF lock = t THEN Nobody ELSE lock
    /\ Ends(t)
    /\ UNCHANGED <<gsiVars, slot, events, drivers, badPolicy, turns>>

\* A recording ends by itself: its encoder died, the disk is full.
RecordingDies ==
    /\ \E d \in running : recordings' = [recordings EXCEPT ![d] = "over"]
    /\ UNCHANGED <<gsiVars, slot, lock, events, drivers, badPolicy, thread, turns>>

----------------------------------------------------------------------------
Installs ==
    /\ \/ (events # NoDriver /\ ReadsBinding(binding[events]))
       \/ write_cfg \/ remember_install \/ TokenFileChanges
    /\ UNCHANGED <<recordings, slot, lock, events, drivers, badPolicy, thread, turns>>

HostNext ==
    \/ RecordingDies \/ Installs
    \/ \E t \in Threads :
          \/ Press(t, "start") \/ Press(t, "stop") \/ ToggleRecording(t)
          \/ StartLocks(t) \/ Started(t) \/ StartFails(t) \/ PolicyRefused(t)
          \/ SpawnsDriver(t) \/ DriverCannotStart(t) \/ HoldsDriver(t) \/ RefreshesInstalled(t)
          \/ StopDropsDriver(t) \/ StopLocks(t) \/ Stopped(t)

HostSpec == HostInit /\ [][HostNext]_hostVars

----------------------------------------------------------------------------
(* Properties.                                                              *)

Quiet == \A t \in Threads : thread[t] = IdleThread

\* However starts and stops of the three threads overlap, one recording is
\* captured at a time: a start that arrives while one is stopping waits for it
\* (RecorderHost::start_with, stop).
OneRecordingAtATime == Cardinality(running) <= 1

\* The file a game reads names the port and the token of the listener that is
\* up, across new ports and new tokens, once the shell has installed it and as
\* long as no install overlapped a driver's start, and no start's refresh came
\* after its driver was gone (refresh_installed_gsi).
GameIsToldTheListener ==
    Quiet /\ install.at = "idle" /\ ~raced /\ record # NotServed /\ events # NoDriver =>
        binding[events] = NotServed \/ cfg = binding[events]

\* A recording that runs is served by sources of its own: those of an earlier one
\* are gone before it listens (RecorderHost, the field `events`).
RecordingHasItsListener ==
    Quiet /\ status_running /\ slot \in drivers /\ fileFaults = 0 => binding[slot] # NotServed
=============================================================================
