-------------------------- MODULE SessionLifecycle --------------------------
(***************************************************************************)
(* What becomes of a recording's footage: the row of the index that names  *)
(* it, the directory its segments (or its one fragmented file) are written *)
(* to, and the session file they are made into.  The actors are the        *)
(* recorders of the desktop process (begin, finish, recovery at start, the *)
(* storage policy) and its user (favourite, delete), over one index and    *)
(* one disk that survive a crash of the process.                           *)
(*                                                                         *)
(* A session is numbered by its start, which orders the rows; the paths of *)
(* its directory and of its file are its number.  Which rows the policy    *)
(* evicts is abstracted to what plan_sessions guarantees: an oldest-first  *)
(* prefix of those it may evict.                                           *)
(***************************************************************************)
EXTENDS Integers, FiniteSets, FiniteSetsExt

CONSTANTS
    Recorders,   \* the values of Recorder the process may make
    User,        \* the desktop's library commands
    NoOne,       \* no recorder
    Kinds,       \* what the recordings keep: segments, part, ram
    MaxSessions, \* bound: how many recordings are begun
    MaxFaults    \* bound: how many times a step fails or the process dies

ASSUME LifecycleAssumption ==
    /\ User \notin Recorders
    /\ NoOne \notin Recorders
    /\ Kinds \subseteq {"segments", "part", "ram"}
    /\ MaxSessions \in Nat
    /\ MaxFaults \in Nat

Sessions == 1..MaxSessions
Ids == 1..MaxSessions
Executors == Recorders \cup {User}

VARIABLES
    rows,    \* the sessions table: what each id names
    kind,    \* what each session keeps
    dir,     \* what is in each session's directory
    file,    \* what is at each session's file path
    begun,   \* how many sessions were begun
    mistaken, \* whether a recovery read a row another recorder had open (history)
    slot,    \* the recorder the host holds
    at,      \* where each recorder is
    job,     \* whether it finishes a recording or recovers one
    row,     \* the id of the row it works on
    session, \* the session it works on
    todo,    \* the rows its recovery has still to look at
    seen,    \* the table as its recovery read it
    plan,    \* the deletions an executor has still to make: the id of a row, and
             \* the session it named when the executor read the table
    paths,   \* the paths a committed delete handed it
    faults   \* how many faults there were

diskVars == <<dir, file>>
recorderVars == <<at, job, row, session, todo, seen>>
evictVars == <<plan, paths>>
vars == <<rows, kind, begun, mistaken, slot, diskVars, recorderVars, evictVars, faults>>

NoRow == [session |-> 0, state |-> "none", file |-> FALSE, favourite |-> FALSE]
NoPaths == [session |-> 0, step |-> "none"]
NoRows == [i \in Ids |-> NoRow]

Row == [session : 0..MaxSessions, state : {"none", "running", "ended"},
        file : BOOLEAN, favourite : BOOLEAN]

Phases == {"down", "starting", "recovering", "idle", "claimed", "opening",
           "recording", "closing", "writing", "written", "closed"}

Init ==
    /\ rows = NoRows
    /\ kind = [s \in Sessions |-> "ram"]
    /\ dir = [s \in Sessions |-> "none"]
    /\ file = [s \in Sessions |-> "none"]
    /\ begun = 0 /\ mistaken = FALSE
    /\ slot = NoOne
    /\ at = [r \in Recorders |-> "down"]
    /\ job = [r \in Recorders |-> "none"]
    /\ row = [r \in Recorders |-> 0]
    /\ session = [r \in Recorders |-> 0]
    /\ todo = [r \in Recorders |-> {}]
    /\ seen = [r \in Recorders |-> NoRows]
    /\ plan = [x \in Executors |-> {}]
    /\ paths = [x \in Executors |-> NoPaths]
    /\ faults = 0

----------------------------------------------------------------------------
\* Whether segments_on_disk, or the part, holds anything.
HasFootage(s) == dir[s] \in {"footage", "torn"}

\* A fault costs one of the faults there may be.
Fault == faults < MaxFaults /\ faults' = faults + 1
NoFault == UNCHANGED faults

\* SharedStatus::running, which the host asks before it starts a recorder.
IsRunning(r) == job[r] = "recording" /\ at[r] \in {"recording", "closing", "writing", "written", "closed"}

\* A recorder evicting rows does nothing else: it is the same thread.
Evicting(x) == plan[x] # {} \/ paths[x] # NoPaths

\* Store::end_session changes a row only while it is running.
IsOpen(i) == rows[i].state = "running"
End(i, named) == rows' = [rows EXCEPT ![i].state = "ended", ![i].file = named]

\* fs::remove_dir_all, which may fail and leave what is there.
RemoveDir(s) ==
    \/ NoFault /\ dir' = [dir EXCEPT ![s] = "none"]
    \/ Fault /\ dir' = dir

\* retention::exempt, and what a plan over the rest may select.
Exempt(i) == rows[i].favourite \/ rows[i].state # "ended"
Plans ==
    LET evictable == {i \in Ids : ~ Exempt(i)}
    IN {{<<rows[i].session, i>> : i \in {j \in evictable : rows[j].session <= s}} :
            s \in 0..MaxSessions}

----------------------------------------------------------------------------
(* Mutant of Start: the slot is looked at and let go of before the start. *)
StartUnlocked(r) ==
    /\ at[r] = "down"
    /\ slot # NoOne => ~ IsRunning(slot)
    /\ slot' = r
    /\ at' = [at EXCEPT ![r] = "starting"]
    /\ \E p \in Plans : plan' = [plan EXCEPT ![r] = p]
    /\ UNCHANGED <<rows, kind, begun, mistaken, diskVars, job, row, session, todo, seen, paths, faults>>

\* Recorder::start opens the index and runs the storage policy.  The host
\* starts one only when the one it holds is not running, and holds its slot's
\* lock until the start has recovered what a previous run left.
Start(r) ==
    /\ at[r] = "down"
    /\ \A q \in Recorders : at[q] # "starting" /\ job[q] # "recovery"
    /\ slot # NoOne => ~ IsRunning(slot)
    /\ slot' = r
    /\ at' = [at EXCEPT ![r] = "starting"]
    /\ \E p \in Plans : plan' = [plan EXCEPT ![r] = p]
    /\ UNCHANGED <<rows, kind, begun, mistaken, diskVars, job, row, session, todo, seen, paths, faults>>

\* A recording has a row, which runs until its file is whole.
HasItsRowOpen(q) == at[q] \in {"opening", "recording", "closing", "writing", "written"}

\* recover_sessions reads the whole table once.  It takes every running row for
\* one a crash left, that of a recorder armed beside it included.
ListRows(r) ==
    /\ at[r] = "starting"
    /\ ~ Evicting(r)
    /\ at' = [at EXCEPT ![r] = "recovering"]
    /\ job' = [job EXCEPT ![r] = "recovery"]
    /\ seen' = [seen EXCEPT ![r] = rows]
    /\ todo' = [todo EXCEPT ![r] = {i \in Ids : rows[i] # NoRow}]
    /\ mistaken' = (mistaken \/ \E q \in Recorders \ {r} : HasItsRowOpen(q))
    /\ UNCHANGED <<rows, kind, begun, slot, diskVars, row, session, evictVars, faults>>

\* The row a recovery looks at next: the latest started it has not looked at.
IsNext(r, i) ==
    /\ i \in todo[r]
    /\ \A j \in todo[r] : seen[r][j].session <= seen[r][i].session

\* Whether there is something to finish: a row that ended without a file is
\* finished again when there are segments for it, one that ended with a file
\* is left to the storage policy, and a part is only looked for while the row
\* runs.
Unfinished(r, i) ==
    LET was == seen[r][i]
    IN \/ was.state = "running"
       \/ ~ was.file /\ kind[was.session] = "segments" /\ HasFootage(was.session)

Recover(r) ==
    /\ at[r] = "recovering"
    /\ \E i \in Ids :
        /\ IsNext(r, i)
        /\ todo' = [todo EXCEPT ![r] = @ \ {i}]
        /\ IF Unfinished(r, i)
           THEN /\ at' = [at EXCEPT ![r] = "closing"]
                /\ row' = [row EXCEPT ![r] = i]
                /\ session' = [session EXCEPT ![r] = seen[r][i].session]
           ELSE UNCHANGED <<at, row, session>>
    /\ UNCHANGED <<rows, kind, begun, mistaken, slot, diskVars, job, seen, evictVars, faults>>

Recovered(r) ==
    /\ at[r] = "recovering"
    /\ todo[r] = {}
    /\ at' = [at EXCEPT ![r] = "idle"]
    /\ job' = [job EXCEPT ![r] = "none"]
    /\ seen' = [seen EXCEPT ![r] = NoRows]
    /\ UNCHANGED <<rows, kind, begun, mistaken, slot, diskVars, row, session, todo, evictVars, faults>>

----------------------------------------------------------------------------
\* begin_recording claims the session's directory: a full session's, or that
\* of a buffer that saves its session.
Claim(r) ==
    /\ at[r] = "idle"
    /\ ~ Evicting(r)
    /\ begun < MaxSessions
    /\ LET s == begun + 1
       IN /\ begun' = s
          /\ session' = [session EXCEPT ![r] = s]
          /\ \E k \in Kinds :
                /\ kind' = [kind EXCEPT ![s] = k]
                /\ dir' = [dir EXCEPT ![s] = IF k = "ram" THEN "none" ELSE "empty"]
    /\ at' = [at EXCEPT ![r] = "claimed"]
    /\ UNCHANGED <<rows, mistaken, slot, file, job, row, todo, seen, evictVars, faults>>

\* The microphone, the capture or the encoder cannot be made: the start fails
\* and its directory stays.
OpenFails(r) ==
    /\ at[r] = "claimed"
    /\ at' = [at EXCEPT ![r] = "idle"]
    /\ session' = [session EXCEPT ![r] = 0]
    /\ UNCHANGED <<rows, kind, begun, mistaken, slot, diskVars, job, row, todo, seen, evictVars, faults>>

\* INSERT INTO sessions: an INTEGER PRIMARY KEY that is not AUTOINCREMENT takes
\* the number after the largest one in the table.
NextId == 1 + Max({0} \cup {i \in Ids : rows[i] # NoRow})

OpenRow(r) ==
    /\ at[r] = "claimed"
    /\ NextId \in Ids
    /\ \/ /\ NoFault
          /\ rows' = [rows EXCEPT ![NextId] =
                [session |-> session[r], state |-> "running", file |-> FALSE, favourite |-> FALSE]]
          /\ row' = [row EXCEPT ![r] = NextId]
          /\ at' = [at EXCEPT ![r] = "opening"]
          /\ UNCHANGED <<dir, session>>
       \/ /\ Fault
          /\ at' = [at EXCEPT ![r] = "idle"]
          /\ dir' = [dir EXCEPT ![session[r]] = "none"]
          /\ session' = [session EXCEPT ![r] = 0]
          /\ UNCHANGED <<rows, row>>
    /\ UNCHANGED <<kind, begun, mistaken, slot, file, job, todo, seen, evictVars>>

\* A source does not start: the row is ended and the directory removed, each
\* ignoring whether it worked.
SourcesFail(r) ==
    /\ at[r] = "opening"
    /\ at' = [at EXCEPT ![r] = "idle"]
    /\ row' = [row EXCEPT ![r] = 0]
    /\ session' = [session EXCEPT ![r] = 0]
    /\ \/ NoFault /\ IF IsOpen(row[r]) THEN End(row[r], FALSE) ELSE UNCHANGED rows
       \/ Fault /\ UNCHANGED rows
    /\ \E left \in {"none", dir[session[r]]} : dir' = [dir EXCEPT ![session[r]] = left]
    /\ UNCHANGED <<kind, begun, mistaken, slot, file, job, todo, seen, evictVars>>

\* The engine's thread starts, or cannot be spawned, which leaves the row open.
StartEngine(r) ==
    /\ at[r] = "opening"
    /\ \/ /\ at' = [at EXCEPT ![r] = "recording"]
          /\ job' = [job EXCEPT ![r] = "recording"]
          /\ NoFault
          /\ UNCHANGED <<row, session>>
       \/ /\ at' = [at EXCEPT ![r] = "idle"]
          /\ row' = [row EXCEPT ![r] = 0]
          /\ session' = [session EXCEPT ![r] = 0]
          /\ Fault
          /\ UNCHANGED job
    /\ UNCHANGED <<rows, kind, begun, mistaken, slot, diskVars, todo, seen, evictVars>>

\* The encoder writes the first of the session's footage.
Film(r) ==
    /\ at[r] = "recording"
    /\ dir[session[r]] = "empty"
    /\ dir' = [dir EXCEPT ![session[r]] = "footage"]
    /\ UNCHANGED <<rows, kind, begun, mistaken, slot, file, recorderVars, evictVars, faults>>

\* The storage policy on the engine's tick.
Sweep(r) ==
    /\ at[r] = "recording"
    /\ ~ Evicting(r)
    /\ \E p \in Plans \ {{}} : plan' = [plan EXCEPT ![r] = p]
    /\ UNCHANGED <<rows, kind, begun, mistaken, slot, diskVars, recorderVars, paths, faults>>

\* The loop ends: stopped, disconnected, failed, or the game is over.
StopRecording(r) ==
    /\ at[r] = "recording"
    /\ ~ Evicting(r)
    /\ at' = [at EXCEPT ![r] = "closing"]
    /\ UNCHANGED <<rows, kind, begun, mistaken, slot, diskVars, job, row, session, todo, seen, evictVars, faults>>

----------------------------------------------------------------------------
\* The row and its session are let go of: recovery goes on to the next row, a
\* game supervisor waits for the next game after a pass of the storage policy,
\* and a recorder without one ends.
LetGo(r) ==
    /\ row' = [row EXCEPT ![r] = 0]
    /\ session' = [session EXCEPT ![r] = 0]
    /\ \/ /\ job[r] = "recovery"
          /\ at' = [at EXCEPT ![r] = "recovering"]
          /\ UNCHANGED <<slot, job, plan>>
       \/ /\ job[r] = "recording"
          /\ job' = [job EXCEPT ![r] = "none"]
          /\ \/ /\ at' = [at EXCEPT ![r] = "idle"]
                /\ \E p \in Plans : plan' = [plan EXCEPT ![r] = p]
                /\ UNCHANGED slot
             \/ /\ at' = [at EXCEPT ![r] = "down"]
                /\ slot' = IF slot = r THEN NoOne ELSE slot
                /\ UNCHANGED plan

\* Nothing was recorded: the row is ended with no file and the directory
\* removed.  Recovery may remove it even when the row could not be ended.
CloseEmpty(r) ==
    LET s == session[r]
    IN /\ at[r] = "closing"
       /\ ~ HasFootage(s)
       /\ \/ IsOpen(row[r]) /\ End(row[r], FALSE) /\ RemoveDir(s)
          \/ /\ IF IsOpen(row[r]) THEN Fault ELSE NoFault
             /\ rows' = rows
             /\ \E left \in {dir[s]} \cup {d \in {"none"} : job[r] = "recovery"} :
                    dir' = [dir EXCEPT ![s] = left]
       /\ LetGo(r)
       /\ UNCHANGED <<kind, begun, mistaken, file, todo, seen, paths>>

\* check_concat_layout, which reads every segment before anything is written
\* and fails on one that was cut short.  A part is remuxed without it.
Layout(s) == kind[s] = "segments" => dir[s] = "footage"

(* Mutant of StartWriting: ffmpeg without -y, which refuses a file that is there. *)
StartWritingKeepsFile(r) ==
    LET s == session[r]
    IN /\ at[r] = "closing"
       /\ HasFootage(s)
       /\ Layout(s)
       /\ file[s] = "none"
       /\ at' = [at EXCEPT ![r] = "writing"]
       /\ file' = [file EXCEPT ![s] = "partial"]
       /\ UNCHANGED <<rows, kind, begun, mistaken, slot, dir, job, row, session, todo, seen, evictVars, faults>>

\* ffmpeg -y starts on the session's file, whatever is there.
StartWriting(r) ==
    LET s == session[r]
    IN /\ at[r] = "closing"
       /\ HasFootage(s)
       /\ Layout(s)
       /\ at' = [at EXCEPT ![r] = "writing"]
       /\ file' = [file EXCEPT ![s] = "partial"]
       /\ UNCHANGED <<rows, kind, begun, mistaken, slot, dir, job, row, session, todo, seen, evictVars, faults>>

LayoutRefused(r) ==
    /\ at[r] = "closing"
    /\ HasFootage(session[r])
    /\ ~ Layout(session[r])
    /\ LetGo(r)
    /\ UNCHANGED <<rows, kind, begun, mistaken, diskVars, todo, seen, paths, faults>>

(* Mutant of FinishWriting: a failed copy is only logged. *)
FinishWritingGoesOn(r) ==
    LET s == session[r]
    IN /\ at[r] = "writing"
       /\ \/ NoFault /\ at' = [at EXCEPT ![r] = "written"] /\ file' = [file EXCEPT ![s] = "whole"]
          \/ Fault /\ at' = [at EXCEPT ![r] = "closed"] /\ file' = [file EXCEPT ![s] = "none"]
       /\ UNCHANGED <<rows, kind, begun, mistaken, slot, dir, job, row, session, todo, seen, evictVars>>

\* The copy is whole; or it fails, and what it wrote is removed; or it is whole
\* and cannot be probed, which is a failure too.  A failure leaves the row and
\* the footage for the next start.
FinishWriting(r) ==
    LET s == session[r]
    IN /\ at[r] = "writing"
       /\ \/ /\ NoFault
             /\ at' = [at EXCEPT ![r] = "written"]
             /\ file' = [file EXCEPT ![s] = "whole"]
             /\ UNCHANGED <<slot, job, row, session, plan>>
          \/ /\ Fault
             /\ \E left \in {"none", "whole"} : file' = [file EXCEPT ![s] = left]
             /\ LetGo(r)
       /\ UNCHANGED <<rows, kind, begun, mistaken, dir, todo, seen, paths>>

\* The row is ended with its file.  One that is not running any more is
\* refused, and the footage stays where it is.
CloseRow(r) ==
    /\ at[r] = "written"
    /\ \/ /\ IsOpen(row[r])
          /\ NoFault
          /\ End(row[r], TRUE)
          /\ at' = [at EXCEPT ![r] = "closed"]
          /\ UNCHANGED <<slot, job, row, session, plan>>
       \/ /\ IF IsOpen(row[r]) THEN Fault ELSE NoFault
          /\ LetGo(r)
          /\ UNCHANGED rows
    /\ UNCHANGED <<kind, begun, mistaken, diskVars, todo, seen, paths>>

\* Only then is the footage removed.
RemoveFootage(r) ==
    /\ at[r] = "closed"
    /\ RemoveDir(session[r])
    /\ LetGo(r)
    /\ UNCHANGED <<rows, kind, begun, mistaken, file, todo, seen, paths>>

----------------------------------------------------------------------------
\* execute_retention, and the user's delete_session: the row is deleted, unless
\* it is gone or still recording, and the delete hands back the paths.
DeleteRow(x) ==
    /\ paths[x] = NoPaths
    /\ \E e \in plan[x] :
        /\ \A other \in plan[x] : e[1] <= other[1]
        /\ plan' = [plan EXCEPT ![x] = @ \ {e}]
        /\ LET i == e[2]
           IN IF rows[i].state # "ended"
              THEN UNCHANGED <<rows, paths>>
              ELSE /\ rows' = [rows EXCEPT ![i] = NoRow]
                   /\ paths' = [paths EXCEPT ![x] =
                        [session |-> rows[i].session,
                         step |-> IF rows[i].file THEN "file" ELSE "tree"]]
    /\ UNCHANGED <<kind, begun, mistaken, slot, diskVars, recorderVars, faults>>

\* The session's file first, then its directory.  What cannot be removed is
\* reported and left.
Unlink(x) ==
    /\ paths[x].step = "file"
    /\ paths' = [paths EXCEPT ![x].step = "tree"]
    /\ \/ NoFault /\ file' = [file EXCEPT ![paths[x].session] = "none"]
       \/ Fault /\ UNCHANGED file
    /\ UNCHANGED <<rows, kind, begun, mistaken, slot, dir, recorderVars, plan>>

RemoveTree(x) ==
    /\ paths[x].step = "tree"
    /\ paths' = [paths EXCEPT ![x] = NoPaths]
    /\ RemoveDir(paths[x].session)
    /\ UNCHANGED <<rows, kind, begun, mistaken, slot, file, recorderVars, plan>>

\* The user has a row in front of them, which they may delete later: the
\* library's list is read once, and a delete names the id.
Look ==
    /\ ~ Evicting(User)
    /\ \E i \in Ids :
        /\ rows[i].state = "ended"
        /\ plan' = [plan EXCEPT ![User] = {<<rows[i].session, i>>}]
    /\ UNCHANGED <<rows, kind, begun, mistaken, slot, diskVars, recorderVars, paths, faults>>

\* set_session_favourite.
Favour(i) ==
    /\ rows[i] # NoRow
    /\ rows' = [rows EXCEPT ![i].favourite = ~ @]
    /\ UNCHANGED <<kind, begun, mistaken, slot, diskVars, recorderVars, evictVars, faults>>

\* A recorder that records nothing is stopped, or dropped for another.
Quit(r) ==
    /\ at[r] = "idle"
    /\ ~ Evicting(r)
    /\ at' = [at EXCEPT ![r] = "down"]
    /\ slot' = IF slot = r THEN NoOne ELSE slot
    /\ UNCHANGED <<rows, kind, begun, mistaken, diskVars, job, row, session, todo, seen, evictVars, faults>>

\* The process dies, and with it every recorder and every library command.  A
\* segment ffmpeg had not closed may be cut short: an ordinary MP4 without its
\* index, where a part is readable up to its last fragment.
Crash ==
    /\ \E r \in Recorders : at[r] # "down"
    /\ Fault
    /\ \E torn \in SUBSET {s \in Sessions : /\ kind[s] = "segments"
                                            /\ dir[s] = "footage"
                                            /\ \E r \in Recorders : at[r] = "recording" /\ session[r] = s} :
            dir' = [s \in Sessions |-> IF s \in torn THEN "torn" ELSE dir[s]]
    /\ slot' = NoOne
    /\ at' = [r \in Recorders |-> "down"]
    /\ job' = [r \in Recorders |-> "none"]
    /\ row' = [r \in Recorders |-> 0]
    /\ session' = [r \in Recorders |-> 0]
    /\ todo' = [r \in Recorders |-> {}]
    /\ seen' = [r \in Recorders |-> NoRows]
    /\ plan' = [x \in Executors |-> {}]
    /\ paths' = [x \in Executors |-> NoPaths]
    /\ UNCHANGED <<rows, kind, begun, mistaken, file>>

----------------------------------------------------------------------------
Recovery(r) == Start(r) \/ ListRows(r) \/ Recover(r) \/ Recovered(r)

Begin(r) == Claim(r) \/ OpenFails(r) \/ OpenRow(r) \/ SourcesFail(r) \/ StartEngine(r)

Finish(r) ==
    \/ StopRecording(r) \/ CloseEmpty(r) \/ StartWriting(r) \/ LayoutRefused(r)
    \/ FinishWriting(r) \/ CloseRow(r) \/ RemoveFootage(r)

Evict(x) == DeleteRow(x) \/ Unlink(x) \/ RemoveTree(x)

Next ==
    \/ \E r \in Recorders : Recovery(r) \/ Begin(r) \/ Film(r) \/ Sweep(r) \/ Finish(r) \/ Quit(r)
    \/ \E x \in Executors : Evict(x)
    \/ Look
    \/ \E i \in Ids : Favour(i)
    \/ Crash

Spec == Init /\ [][Next]_vars

\* Threads are scheduled, recordings are stopped, and the application is quit
\* and started again for ever.
Fairness ==
    /\ \A r \in Recorders :
        /\ WF_vars(Recovery(r))
        /\ WF_vars(OpenFails(r) \/ OpenRow(r) \/ SourcesFail(r) \/ StartEngine(r))
        /\ WF_vars(Finish(r))
        /\ WF_vars(Evict(r))
        /\ WF_vars(Quit(r))

LiveSpec == Spec /\ Fairness

----------------------------------------------------------------------------
TypeOK ==
    /\ rows \in [Ids -> Row]
    /\ kind \in [Sessions -> {"segments", "part", "ram"}]
    /\ dir \in [Sessions -> {"none", "empty", "footage", "torn"}]
    /\ file \in [Sessions -> {"none", "partial", "whole"}]
    /\ begun \in 0..MaxSessions /\ mistaken \in BOOLEAN
    /\ slot \in Recorders \cup {NoOne}
    /\ at \in [Recorders -> Phases]
    /\ job \in [Recorders -> {"none", "recording", "recovery"}]
    /\ row \in [Recorders -> 0..MaxSessions]
    /\ session \in [Recorders -> 0..MaxSessions]
    /\ todo \in [Recorders -> SUBSET Ids]
    /\ seen \in [Recorders -> [Ids -> Row]]
    /\ plan \in [Executors -> SUBSET (Sessions \X Ids)]
    /\ paths \in [Executors -> [session : 0..MaxSessions, step : {"none", "file", "tree"}]]
    /\ faults \in 0..MaxFaults

Names(i, s) == rows[i] # NoRow /\ rows[i].session = s
IsNamed(s) == \E i \in Ids : Names(i, s)
Exists(s) == HasFootage(s) \/ file[s] = "whole"

\* Footage is never lost while a row names it: whatever a finish, a recovery or
\* a failure of either removes, the footage is still in the directory or whole
\* in the session's file.  It is so until a recovery takes the row of a recorder
\* at work beside it for a crash's.
FootageOutlivesItsRow ==
    [][~ mistaken' => \A s \in Sessions : Exists(s) /\ IsNamed(s)' => Exists(s)']_vars

\* A session the library offers can be played: a row that ended with a file
\* names a whole one.
LibraryRowHasItsFile ==
    \A i \in Ids : rows[i].state = "ended" /\ rows[i].file => file[rows[i].session] = "whole"

\* A row that ended with no file has no footage left to show: a row that ended
\* cannot be ended again, so footage under it would never be in the library.
EndedEmptyMeansEmpty ==
    \A i \in Ids :
        rows[i].state = "ended" /\ ~ rows[i].file => ~ HasFootage(rows[i].session)

\* A recording that is being made has a running row of its own, whatever
\* recovery, the storage policy and the user do meanwhile: a running row is
\* what keeps all three off its footage.
LiveSessionIsOpen ==
    \A r \in Recorders :
        at[r] = "opening" \/ (IsRunning(r) /\ at[r] # "closed") =>
            Names(row[r], session[r]) /\ IsOpen(row[r])

\* Every session's row is ended some day, by the recording's own end or by the
\* recovery of a later start, unless a segment of it was cut short.
EverySessionIsClosed ==
    \A i \in Ids, s \in Sessions :
        Names(i, s) /\ IsOpen(i) ~> ~ (Names(i, s) /\ IsOpen(i)) \/ dir[s] = "torn"

\* What the index says of a session is so: a row that ended with a file has it, a
\* row that ended without one has nothing left, and the session that is being
\* recorded has a row of its own that nobody took for a crash's.  It is so until
\* a recovery takes the row of a recorder at work beside it for a crash's.
RowsTellTheTruth ==
    ~ mistaken => TypeOK /\ LibraryRowHasItsFile /\ EndedEmptyMeansEmpty /\ LiveSessionIsOpen

\* recover_sessions says that it finds what a previous run left behind, before
\* this run creates anything: no recorder has in hand a row that it recovers.
RecoversAPreviousRun ==
    \A r \in Recorders : \A q \in Recorders \ {r} :
        job[r] = "recovery" /\ row[r] # 0 => row[q] # row[r]
=============================================================================
