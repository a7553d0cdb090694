--------------------------- MODULE DesktopLaunch ---------------------------
(***************************************************************************)
(* A launch of the desktop shell, to its window and to its end             *)
(* (src-tauri's lib.rs, run, init_tracing and wire_background;             *)
(* log_file.rs; background.rs): several processes may be launched, one     *)
(* stays.  On the way it takes the shared log, the clip hotkey and the Run *)
(* key's entry, and puts up a window and a tray.                           *)
(*                                                                         *)
(* What a launch makes of config.toml is Settings', of the index and of    *)
(* the directory of the old name LibrarySchema's; how the chords are       *)
(* registered is DesktopShell's.  The window system and the                *)
(* single-instance plugin are external.                                    *)
(***************************************************************************)
EXTENDS Integers, FiniteSets

CONSTANTS
    Launches,     \* the processes
    MaxMishaps,   \* bound: steps that fail, processes that die, a log that fills up
    MaxEdits      \* bound: changes of the Run key by others

ASSUME LaunchAssumption == {MaxMishaps, MaxEdits} \subseteq Nat /\ {"nobody", "free", "other"} \cap Launches = {}

VARIABLES
    launch,     \* each process: where it is, its log, what it could read and said
    sharedLog,  \* replayed.log: which file it is now, who locks that one, whether it is full
    slipped,    \* replayed.log was opened full, or while it was rotated (history)
    instance,   \* the process that stays
    chord,      \* who holds the clip hotkey: a process, "free" or "other"
    window,     \* each process's window: "none", "shown", "hidden"
    tray,       \* the processes with a tray icon
    entry,      \* the Run key's value: "none", "wanted", "moved" (ours, elsewhere), "foreign"
    enabled,    \* [app] start_with_system
    sync,       \* the last sync of the two: where it is, what it read, what it said
    mishaps, edits

logVars == <<sharedLog, slipped>>
screenVars == <<instance, chord, window, tray>>
autostartVars == <<entry, enabled, sync>>
launchVars == <<launch, logVars, screenVars, autostartVars, mishaps, edits>>

NoProcess == "nobody"
NotLaunched == [at |-> "off", log |-> "none", handle |-> 0, locked |-> FALSE,
                config |-> TRUE, hotkey |-> "pending", hides |-> FALSE]
NotSynced == [at |-> "query", read |-> "none", said |-> "nothing"]

LaunchInit ==
    /\ launch = [p \in Launches |-> NotLaunched]
    /\ sharedLog \in [file : {1}, lock : {NoProcess}, full : BOOLEAN] /\ slipped = FALSE
    /\ instance = NoProcess /\ chord \in {"free", "other"}
    /\ window = [p \in Launches |-> "none"] /\ tray = {}
    /\ entry \in {"none", "wanted", "moved", "foreign"} /\ enabled \in BOOLEAN
    /\ sync = NotSynced
    /\ mishaps = 0 /\ edits = 0

Mishap == mishaps < MaxMishaps /\ mishaps' = mishaps + 1
AllWell == UNCHANGED mishaps
GoesTo(p, where) == launch' = [launch EXCEPT ![p].at = where]

\* The end of a process, however it comes: what it held is free.
ProcessEnds(p) ==
    /\ launch' = [launch EXCEPT ![p] = [NotLaunched EXCEPT !.at = "gone"]]
    /\ sharedLog' = IF sharedLog.lock = p THEN [sharedLog EXCEPT !.lock = NoProcess] ELSE sharedLog
    /\ instance' = IF instance = p THEN NoProcess ELSE instance
    /\ chord' = IF chord = p THEN "free" ELSE chord
    /\ window' = [window EXCEPT ![p] = "none"] /\ tray' = tray \ {p}
    /\ UNCHANGED <<slipped, autostartVars, edits>>

Launched(p) ==
    /\ launch[p].at = "off" /\ GoesTo(p, "log") /\ AllWell
    /\ UNCHANGED <<logVars, screenVars, autostartVars, edits>>

----------------------------------------------------------------------------
(* The log.                                                                 *)

Relocking(p) == launch[p].at = "relock"
NextFile == [file |-> sharedLog.file + 1, lock |-> NoProcess, full |-> FALSE]

\* The winner of the lock writes the shared file; the loser one of its own, if
\* that can be opened.
LogOf(wins) == IF wins THEN {"shared"} ELSE {"own", "none"}

\* open_locked tries the lock, then rotates a full file, whoever has the lock;
\* the winner does not take it again on the new one.
OpensLog(p) ==
    /\ launch[p].at = "log"
    /\ LET wins == sharedLog.lock = NoProcess
       IN  /\ sharedLog' = IF sharedLog.full THEN NextFile
                           ELSE IF wins THEN [sharedLog EXCEPT !.lock = p] ELSE sharedLog
           /\ \E log \in LogOf(wins) :
                launch' = [launch EXCEPT ![p].at = "state", ![p].log = log,
                                         ![p].handle = sharedLog'.file, ![p].locked = wins]
           /\ slipped' = (slipped \/ sharedLog.full \/ \E q \in Launches : Relocking(q))
    /\ AllWell /\ UNCHANGED <<screenVars, autostartVars, edits>>

\* No log at all: the launch goes on.
CannotOpenLog(p) ==
    /\ launch[p].at = "log" /\ GoesTo(p, "state") /\ Mishap
    /\ UNCHANGED <<logVars, screenVars, autostartVars, edits>>

\* A shell that runs fills its log up, and its next line rotates it: the new file
\* is opened first, and locked then if the old one was.
RotatesLog(p) ==
    /\ launch[p].at = "shell" /\ launch[p].log = "shared" /\ launch[p].handle = sharedLog.file
    /\ Mishap
    /\ sharedLog' = NextFile
    /\ launch' = [launch EXCEPT ![p].at = "relock", ![p].handle = sharedLog.file + 1]
    /\ UNCHANGED <<slipped, screenVars, autostartVars, edits>>

RelocksLog(p) ==
    /\ Relocking(p) /\ AllWell
    /\ LET gets == launch[p].locked /\ sharedLog.lock = NoProcess
       IN  /\ sharedLog' = IF gets THEN [sharedLog EXCEPT !.lock = p] ELSE sharedLog
           /\ launch' = [launch EXCEPT ![p].at = "shell", ![p].locked = gets]
    /\ UNCHANGED <<slipped, screenVars, autostartVars, edits>>

----------------------------------------------------------------------------
(* From the state to the window.                                            *)

\* The state is opened with what could be read, or with the example's settings;
\* an index that opens with neither ends the process.
OpensState(p) ==
    /\ launch[p].at = "state"
    /\ \/ GoesTo(p, "check") /\ AllWell
       \/ launch' = [launch EXCEPT ![p].at = "check", ![p].config = FALSE] /\ Mishap
    /\ UNCHANGED <<logVars, screenVars, autostartVars, edits>>

CannotOpenState(p) == launch[p].at = "state" /\ Mishap /\ ProcessEnds(p)

\* The plugin's check, then the window; enabled is read from the file as the
\* user left it.
Stays(p) ==
    /\ launch[p].at = "check" /\ instance = NoProcess
    /\ instance' = p /\ window' = [window EXCEPT ![p] = "shown"]
    /\ enabled' \in BOOLEAN /\ sync' = NotSynced
    /\ GoesTo(p, "hotkey") /\ AllWell
    /\ UNCHANGED <<logVars, chord, tray, entry, edits>>

\* A second launch has the running instance show its window, and ends.
HandsOver(p) ==
    /\ launch[p].at = "check" /\ instance \in Launches
    /\ launch' = [launch EXCEPT ![p] = [NotLaunched EXCEPT !.at = "gone"]]
    /\ sharedLog' = IF sharedLog.lock = p THEN [sharedLog EXCEPT !.lock = NoProcess] ELSE sharedLog
    /\ window' = [window EXCEPT ![instance] = "shown"]
    /\ AllWell /\ UNCHANGED <<slipped, instance, chord, tray, autostartVars, edits>>

Told(p, where, what) == launch' = [launch EXCEPT ![p].at = where, ![p].hotkey = what]

\* After the check, so that a launch that hands over never holds the chord.  One
\* that is answered late may be held all the same (DesktopShell).
InstallsHotkey(p) ==
    /\ launch[p].at = "hotkey"
    /\ \/ ~launch[p].config /\ Told(p, "autostart", "refused") /\ UNCHANGED chord /\ AllWell
       \/ /\ launch[p].config /\ chord = "free"
          /\ Told(p, "autostart", "installed") /\ chord' = p /\ AllWell
       \/ /\ launch[p].config /\ chord # "free"
          /\ Told(p, "autostart", "refused") /\ UNCHANGED chord /\ AllWell
       \/ /\ launch[p].config /\ chord = "free" /\ Told(p, "autostart", "refused")
          /\ chord' \in {p, "free"} /\ Mishap
    /\ UNCHANGED <<logVars, instance, window, tray, autostartVars, edits>>

----------------------------------------------------------------------------
(* The Run key.                                                             *)

\* The query's answer, or none: then a wanted entry is an error, and an unwanted
\* one is removed unseen.
Queries(p) ==
    /\ launch[p].at = "autostart" /\ launch[p].config /\ sync.at = "query"
    /\ \/ sync' = [sync EXCEPT !.at = "act", !.read = entry] /\ AllWell
       \/ enabled /\ sync' = [sync EXCEPT !.at = "done", !.said = "error"] /\ Mishap
       \/ ~enabled /\ sync' = [sync EXCEPT !.at = "act", !.read = "unread"] /\ Mishap
    /\ UNCHANGED <<launch, logVars, screenVars, entry, enabled, edits>>

\* By the binary's name: an entry that points elsewhere is somebody else's.
is_our_entry(data) == data \in {"wanted", "moved"}

Says(what) == sync' = [sync EXCEPT !.at = "done", !.said = what]

write_entry == \/ entry' = "wanted" /\ Says("enabled") /\ AllWell
               \/ UNCHANGED entry /\ Says("error") /\ Mishap

\* Deleting what is not there is no failure; it says so when nothing was read.
remove_entry ==
    \/ /\ entry' = "none" /\ AllWell
       /\ Says(IF sync.read = "unread" /\ entry = "none" THEN "unchanged" ELSE "removed")
    \/ UNCHANGED entry /\ Says("error") /\ Mishap

LeavesEntry(what) == Says(what) /\ UNCHANGED entry /\ AllWell

sync_autostart(p) ==
    /\ launch[p].at = "autostart" /\ sync.at = "act"
    /\ \/ enabled /\ sync.read = "wanted" /\ LeavesEntry("unchanged")
       \/ /\ enabled /\ sync.read # "wanted"
          /\ (sync.read = "none" \/ is_our_entry(sync.read)) /\ write_entry
       \/ ~enabled /\ sync.read = "none" /\ LeavesEntry("unchanged")
       \/ ~enabled /\ (sync.read = "unread" \/ is_our_entry(sync.read)) /\ remove_entry
       \/ /\ sync.read \notin {"none", "unread"} /\ ~is_our_entry(sync.read)
          /\ LeavesEntry("error")
    /\ UNCHANGED <<launch, logVars, screenVars, enabled, edits>>

\* Done, or not applied because the configuration could not be read.
AutostartIsOver(p) ==
    /\ launch[p].at = "autostart" /\ (sync.at = "done" \/ ~launch[p].config)
    /\ GoesTo(p, "tray") /\ AllWell
    /\ UNCHANGED <<logVars, screenVars, autostartVars, edits>>

\* Between two syncs the user may remove the entry, and another program may take
\* its name.
OthersEdit ==
    /\ sync.at # "act" /\ edits < MaxEdits /\ edits' = edits + 1
    /\ entry' \in {"none", "foreign"} \ {entry}
    /\ sync' = [sync EXCEPT !.said = "nothing"]
    /\ AllWell /\ UNCHANGED <<launch, logVars, screenVars, enabled>>

----------------------------------------------------------------------------
(* The shell.                                                               *)

InstallsTray(p) ==
    /\ launch[p].at = "tray" /\ GoesTo(p, "threads") /\ tray' = tray \cup {p}
    /\ AllWell
    /\ UNCHANGED <<logVars, instance, chord, window, autostartVars, edits>>

\* The tray, or one of the threads behind it, cannot be made: the rest is not
\* wired, the handler of the window's close among it.
WiresNoFurther(p) ==
    /\ launch[p].at \in {"tray", "threads"} /\ GoesTo(p, "shell") /\ Mishap
    /\ UNCHANGED <<logVars, screenVars, autostartVars, edits>>

HidesOnClose(p) ==
    /\ launch[p].at = "threads"
    /\ launch' = [launch EXCEPT ![p].at = "shell", ![p].hides = TRUE]
    /\ AllWell /\ UNCHANGED <<logVars, screenVars, autostartVars, edits>>

\* Closing the window hides it; without the handler it is destroyed, and the
\* program ends with its last window.
ClosesWindow(p) ==
    /\ launch[p].at = "shell" /\ window[p] = "shown" /\ AllWell
    /\ IF launch[p].hides
       THEN /\ window' = [window EXCEPT ![p] = "hidden"]
            /\ UNCHANGED <<launch, logVars, instance, chord, tray, autostartVars, edits>>
       ELSE ProcessEnds(p)

\* The tray's first item.
ShowHideWindow(p) ==
    /\ launch[p].at = "shell" /\ p \in tray /\ AllWell
    /\ window' = [window EXCEPT ![p] = IF window[p] = "shown" THEN "hidden" ELSE "shown"]
    /\ UNCHANGED <<launch, logVars, instance, chord, tray, autostartVars, edits>>

\* Its last item stops the recording and ends the process (RecorderHost).
Quit(p) == launch[p].at = "shell" /\ p \in tray /\ AllWell /\ ProcessEnds(p)

ProcessDies(p) == launch[p].at \notin {"off", "gone"} /\ Mishap /\ ProcessEnds(p)

----------------------------------------------------------------------------
LaunchNext ==
    \/ OthersEdit
    \/ \E p \in Launches :
         \/ Launched(p) \/ OpensLog(p) \/ CannotOpenLog(p) \/ RotatesLog(p) \/ RelocksLog(p)
         \/ OpensState(p) \/ CannotOpenState(p) \/ Stays(p) \/ HandsOver(p)
         \/ InstallsHotkey(p) \/ Queries(p) \/ sync_autostart(p) \/ AutostartIsOver(p)
         \/ InstallsTray(p) \/ WiresNoFurther(p) \/ HidesOnClose(p)
         \/ ClosesWindow(p) \/ ShowHideWindow(p) \/ Quit(p) \/ ProcessDies(p)

----------------------------------------------------------------------------
(* Properties.                                                              *)

\* Whatever is launched beside whatever else, dies or gives way, only the process
\* that stays holds the hotkey, a window or a tray; it holds the hotkey if it says
\* so; and a hidden window can be shown from the tray (run, wire_background).
ShellIsOne ==
    /\ \A p \in Launches :
         /\ chord = p \/ window[p] # "none" \/ p \in tray => instance = p
         /\ launch[p].hotkey = "installed" => chord = p
         /\ window[p] = "hidden" => p \in tray
    /\ instance = NoProcess \/ window[instance] # "none"

\* What a launch says about starting with the system is what the entry is, and
\* an entry of another program that could be read is still there, whatever
\* failed at this launch and whatever earlier ones left (sync_autostart).
AutostartIsAsTold ==
    /\ sync.said = "enabled" => entry = "wanted"
    /\ sync.said = "removed" => entry = "none"
    /\ sync.said = "unchanged" => entry = IF enabled THEN "wanted" ELSE "none"
    /\ sync.said = "error" /\ sync.read = "foreign" => entry = "foreign"

Writers == {p \in Launches : launch[p].log = "shared" /\ launch[p].handle = sharedLog.file}

\* One process writes replayed.log ("the lock keeps a second launch out of it",
\* init_tracing), unless it was opened full or while it was being rotated: in
\* these two the lock is on the file of before.
LogHasOneWriter == slipped \/ Cardinality(Writers) <= 1

LaunchesAreOne == ShellIsOne /\ AutostartIsAsTold /\ LogHasOneWriter
=============================================================================
