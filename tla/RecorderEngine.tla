--------------------------- MODULE RecorderEngine ---------------------------
(***************************************************************************)
(* One recording and the threads that talk to it                           *)
(* (crates/recorder/src/lib.rs): callers asking for a clip or noting an    *)
(* event over the command channel, the engine thread that pumps and serves *)
(* one command per turn of its loop, the threads that splice the clips,    *)
(* and the callers that stop the recorder.                                 *)
(*                                                                         *)
(* A request is one call of clip_now_in or note_event_at.  The ring is     *)
(* abstracted to its span (MemoryRing has the rest), the splice to when it *)
(* ends and whether it wrote a file, the shutdown to whether it failed     *)
(* (SessionLifecycle has the rest).  Media time is counted in fragments.   *)
(***************************************************************************)
EXTENDS Integers, Sequences, FiniteSets

CONSTANTS
    Clips,      \* the requests that ask for a clip
    Notes,      \* the requests that note an event
    Stoppers,   \* the calls of Recorder::stop
    NoOne,      \* no request, no stopper
    StopCommand,\* Command::Stop
    Pre, Post,  \* the window a clip asks for
    MaxSpan     \* bound: how much footage the encoder produces

Requests == Clips \cup Notes

ASSUME EngineAssumption ==
    /\ Clips \cap Notes = {}
    /\ NoOne \notin Requests \cup Stoppers
    /\ StopCommand \notin Requests
    /\ Pre \in Nat
    /\ Post \in Nat
    /\ MaxSpan \in Nat

VARIABLES
    caller,     \* where each request's caller is, and what it was told
    event_at,   \* the media time the caller stamped the request with
    reply,      \* each request's reply channel
    commands,   \* the command channel's queue
    published,  \* whether Recorder::commands holds a sender
    engine,     \* where the engine's loop is
    taking,     \* the clip request whose post-roll is awaited
    trigger,    \* its trigger, in media time
    pending,    \* Engine::pending_clips
    splice,     \* each clip's splice thread
    started_at, \* the clip's first frame, in media time
    marker,     \* the media time its event is recorded at
    span,       \* the ring's span
    fed,        \* whether a frame was pumped since the last fragment
    media,      \* SharedStatus::media_ms
    error,      \* SharedStatus::error
    supervisor, \* the game supervisor's thread
    shutting,   \* whether Recorder::supervisor was taken
    handle,     \* the engine's handle in Recorder::thread: held, taken, or never
                \* there because a game supervisor owns the recording
    threadLock, \* who holds Recorder::thread
    stopper     \* where each call of stop is

callerVars == <<caller, event_at>>
clipVars == <<pending, splice, started_at, marker>>
mediaVars == <<span, fed, media>>
stopVars == <<supervisor, shutting, handle, threadLock, stopper>>
vars == <<callerVars, reply, commands, published, engine, taking, trigger,
          clipVars, mediaVars, error, stopVars>>

Callers == {"idle", "asked", "sent", "refused", "ok", "failed", "dropped", "timed out"}
Replies == {"none", "ok", "failed", "dropped"}
Phases == {"recv", "waiting", "advance", "pump", "finishing", "shutdown", "ended", "panicked"}

Ended == engine \in {"ended", "panicked"}

Init ==
    /\ caller = [r \in Requests |-> "idle"]
    /\ event_at = [r \in Requests |-> 0]
    /\ reply = [r \in Requests |-> "none"]
    /\ commands = <<>>
    /\ published = TRUE
    /\ engine = "recv"
    /\ taking = NoOne
    /\ trigger = 0
    /\ pending = {}
    /\ splice = [r \in Clips |-> "none"]
    /\ started_at = [r \in Clips |-> 0]
    /\ marker = [r \in Clips |-> 0]
    /\ span = 0
    /\ fed = FALSE
    /\ media = 0
    /\ error = "none"
    /\ supervisor \in {"recording", "ended"}
    /\ shutting = (supervisor = "ended")
    /\ handle = IF shutting THEN "held" ELSE "never"
    /\ threadLock = NoOne
    /\ stopper = [s \in Stoppers |-> "idle"]

-----------------------------------------------------------------------------
(* The caller's side. *)

(* The request is stamped with the published media position, and then the  *)
(* sender is cloned out of the lock, or there is none.                     *)
Ask(r) ==
    /\ caller[r] = "idle"
    /\ event_at' = [event_at EXCEPT ![r] = media]
    /\ caller' = [caller EXCEPT ![r] = IF published THEN "asked" ELSE "refused"]
    /\ UNCHANGED <<reply, commands, published, engine, taking, trigger, clipVars,
                   mediaVars, error, stopVars>>

(* A send fails once the engine has dropped its receiver. *)
Send(r) ==
    /\ caller[r] = "asked"
    /\ IF Ended
       THEN caller' = [caller EXCEPT ![r] = "refused"] /\ UNCHANGED commands
       ELSE caller' = [caller EXCEPT ![r] = "sent"] /\ commands' = Append(commands, r)
    /\ UNCHANGED <<event_at, reply, published, engine, taking, trigger, clipVars,
                   mediaVars, error, stopVars>>

Hear(r) ==
    /\ caller[r] = "sent"
    /\ reply[r] # "none"
    /\ caller' = [caller EXCEPT ![r] = reply[r]]
    /\ UNCHANGED <<event_at, reply, commands, published, engine, taking, trigger,
                   clipVars, mediaVars, error, stopVars>>

(* clip_budget runs out; the request itself is not withdrawn. *)
TimeOut(r) ==
    /\ caller[r] = "sent"
    /\ reply[r] = "none"
    /\ caller' = [caller EXCEPT ![r] = "timed out"]
    /\ UNCHANGED <<event_at, reply, commands, published, engine, taking, trigger,
                   clipVars, mediaVars, error, stopVars>>

-----------------------------------------------------------------------------
(* The footage: a fragment completes only while frames are pumped. *)
FragmentArrives ==
    /\ ~Ended
    /\ fed
    /\ span < MaxSpan
    /\ span' = span + 1
    /\ fed' = FALSE
    /\ UNCHANGED <<callerVars, reply, commands, published, engine, taking, trigger,
                   clipVars, media, error, stopVars>>

(* A splice thread ends; nobody waits for it. *)
SpliceEnds(r) ==
    /\ splice[r] = "running"
    /\ \E outcome \in {"written", "failed"} : splice' = [splice EXCEPT ![r] = outcome]
    /\ UNCHANGED <<callerVars, reply, commands, published, engine, taking, trigger,
                   pending, started_at, marker, mediaVars, error, stopVars>>

-----------------------------------------------------------------------------
(* The engine's loop. *)
HeadIs(c) == engine = "recv" /\ commands # <<>> /\ Head(commands) = c

RecvNothing ==
    /\ engine = "recv"
    /\ commands = <<>>
    /\ published \/ \E r \in Requests : caller[r] = "asked"
    /\ engine' = "advance"
    /\ UNCHANGED <<callerVars, reply, commands, published, taking, trigger, clipVars,
                   mediaVars, error, stopVars>>

(* Mutant of RecvDisconnected: what is queued is left in the channel. *)
RecvDisconnectedAtOnce ==
    /\ engine = "recv"
    /\ ~published
    /\ \A r \in Requests : caller[r] # "asked"
    /\ engine' = "finishing"
    /\ UNCHANGED <<callerVars, reply, commands, published, taking, trigger, clipVars,
                   mediaVars, error, stopVars>>

(* Every sender is gone and the queue is drained. *)
RecvDisconnected ==
    /\ engine = "recv"
    /\ commands = <<>>
    /\ ~published
    /\ \A r \in Requests : caller[r] # "asked"
    /\ engine' = "finishing"
    /\ UNCHANGED <<callerVars, reply, commands, published, taking, trigger, clipVars,
                   mediaVars, error, stopVars>>

RecvStop ==
    /\ HeadIs(StopCommand)
    /\ commands' = Tail(commands)
    /\ engine' = "finishing"
    /\ UNCHANGED <<callerVars, reply, published, taking, trigger, clipVars, mediaVars,
                   error, stopVars>>

(* The event's row is written and the caller answered in the same turn. *)
RecvNote(r) ==
    /\ HeadIs(r)
    /\ commands' = Tail(commands)
    /\ \E outcome \in {"ok", "failed"} : reply' = [reply EXCEPT ![r] = outcome]
    /\ engine' = "advance"
    /\ UNCHANGED <<callerVars, published, taking, trigger, clipVars, mediaVars,
                   error, stopVars>>

(* take_clip reads the trigger and starts to wait for the post-roll. *)
RecvClip(r) ==
    /\ HeadIs(r)
    /\ commands' = Tail(commands)
    /\ taking' = r
    /\ trigger' = span
    /\ engine' = "waiting"
    /\ UNCHANGED <<callerVars, reply, published, clipVars, mediaVars, error, stopVars>>

(* The wait pumps frames and nothing else: no command is read, no finished *)
(* clip is answered and the media position is not published.               *)
WaitPumps ==
    /\ engine = "waiting"
    /\ fed' = TRUE
    /\ UNCHANGED <<callerVars, reply, commands, published, engine, taking, trigger,
                   clipVars, span, media, error, stopVars>>

WindowStart == IF trigger < Pre THEN 0 ELSE trigger - Pre

(* The event's moment, held to the clip's pre-roll. *)
MarkerOf(at, start) == IF at < start + Pre THEN at ELSE start + Pre

(* The post-roll is on the timeline: the window is cut, the splice spawned, *)
(* and the media position published by the wait's account.                  *)
SpawnSplice ==
    /\ engine = "waiting"
    /\ span >= trigger + Post
    /\ media' = span
    /\ started_at' = [started_at EXCEPT ![taking] = WindowStart]
    /\ marker' = [marker EXCEPT ![taking] = MarkerOf(event_at[taking], WindowStart)]
    /\ splice' = [splice EXCEPT ![taking] = "running"]
    /\ pending' = pending \cup {taking}
    /\ taking' = NoOne
    /\ engine' = "advance"
    /\ UNCHANGED <<callerVars, reply, commands, published, trigger, span, fed, error, stopVars>>

(* The deadline passes, a pump in the wait fails, the window cannot be cut *)
(* or the thread cannot be spawned.  The media position is published only  *)
(* when the wait itself succeeded.                                         *)
TakeClipFails ==
    /\ engine = "waiting"
    /\ reply' = [reply EXCEPT ![taking] = "failed"]
    /\ \/ media' = media
       \/ span >= trigger + Post /\ media' = span
    /\ taking' = NoOne
    /\ engine' = "advance"
    /\ UNCHANGED <<callerVars, commands, published, trigger, clipVars, span, fed,
                   error, stopVars>>

(* finish_clip: the splice thread is joined, and its outcome is the answer  *)
(* (the index writes are best effort and do not change it).                *)
Outcome(r) == IF splice[r] = "written" THEN "ok" ELSE "failed"
Spliced(r) == splice[r] \in {"written", "failed"}

FinishClip(r) ==
    /\ reply' = [reply EXCEPT ![r] = Outcome(r)]
    /\ pending' = pending \ {r}
    /\ UNCHANGED <<splice, started_at, marker>>

(* Mutant of AdvanceClips: a clip is answered without its splice. *)
AdvanceClipsAnswersEarly ==
    /\ engine = "advance"
    /\ \/ pending = {} /\ UNCHANGED <<reply, clipVars>>
       \/ \E r \in pending :
             /\ reply' = [reply EXCEPT ![r] = "ok"]
             /\ pending' = pending \ {r}
             /\ UNCHANGED <<splice, started_at, marker>>
    /\ engine' = "pump"
    /\ UNCHANGED <<callerVars, commands, published, taking, trigger, mediaVars, error, stopVars>>

(* At most one finished clip is answered per turn of the loop. *)
AdvanceClips ==
    /\ engine = "advance"
    /\ \/ /\ \A r \in pending : ~Spliced(r)
          /\ UNCHANGED <<reply, clipVars>>
       \/ \E r \in pending : Spliced(r) /\ FinishClip(r)
    /\ engine' = "pump"
    /\ UNCHANGED <<callerVars, commands, published, taking, trigger, mediaVars, error, stopVars>>

(* The pump and, when it is due, the tick. *)
Pump ==
    /\ engine = "pump"
    /\ fed' = TRUE
    /\ media' = span
    /\ engine' = "recv"
    /\ UNCHANGED <<callerVars, reply, commands, published, taking, trigger, clipVars,
                   span, error, stopVars>>

LoopFails ==
    /\ engine = "pump"
    /\ error' = "loop"
    /\ engine' = "finishing"
    /\ UNCHANGED <<callerVars, reply, commands, published, taking, trigger, clipVars,
                   mediaVars, stopVars>>

(* The clips still being spliced are joined, in any order, and answered. *)
FinishPendingClips ==
    /\ engine = "finishing"
    /\ \/ \E r \in pending : Spliced(r) /\ FinishClip(r) /\ UNCHANGED engine
       \/ /\ pending = {}
          /\ engine' = "shutdown"
          /\ UNCHANGED <<reply, clipVars>>
    /\ UNCHANGED <<callerVars, commands, published, taking, trigger, mediaVars, error, stopVars>>

(* The requests whose reply sender is dropped with the receiver. *)
Queued(r) == \E i \in DOMAIN commands : commands[i] = r

DropReplies(lost) ==
    reply' = [r \in Requests |-> IF reply[r] = "none" /\ r \in lost
                                 THEN "dropped" ELSE reply[r]]

(* shutdown ran every step; run returns, and its receiver is dropped. *)
Shutdown ==
    /\ engine = "shutdown"
    /\ \/ UNCHANGED error
       \/ error' = "shutdown"
    /\ engine' = "ended"
    /\ commands' = <<>>
    /\ DropReplies({r \in Requests : Queued(r)})
    /\ UNCHANGED <<callerVars, published, taking, trigger, clipVars, mediaVars, stopVars>>

(* A panic in the loop drops the engine: the queue, the request it was     *)
(* serving and the splices' handles with it (the splices run on).          *)
EnginePanics ==
    /\ engine \in {"recv", "waiting", "advance", "pump"}
    /\ engine' = "panicked"
    /\ commands' = <<>>
    /\ pending' = {}
    /\ taking' = NoOne
    /\ DropReplies({r \in Requests : Queued(r) \/ r \in pending \/ r = taking})
    /\ UNCHANGED <<callerVars, published, trigger, splice, started_at, marker, mediaVars,
                   error, stopVars>>

-----------------------------------------------------------------------------
(* Stopping. *)

(* Mutant of SupervisorHangsUp: another clone of the sender is kept. *)
SupervisorHangsUpKeepsSender ==
    /\ supervisor = "recording"
    /\ supervisor' = "joining"
    /\ UNCHANGED <<callerVars, reply, commands, published, engine, taking, trigger, clipVars,
                   mediaVars, error, shutting, handle, threadLock, stopper>>

(* The supervisor drops the last kept sender and joins the engine: when the *)
(* recorded game stops, or when it is shut down.                           *)
SupervisorHangsUp ==
    /\ supervisor = "recording"
    /\ supervisor' = "joining"
    /\ published' = FALSE
    /\ UNCHANGED <<callerVars, reply, commands, engine, taking, trigger, clipVars,
                   mediaVars, error, shutting, handle, threadLock, stopper>>

SupervisorJoins ==
    /\ supervisor = "joining"
    /\ Ended
    /\ supervisor' = "ended"
    /\ UNCHANGED <<callerVars, reply, commands, published, engine, taking, trigger,
                   clipVars, mediaVars, error, shutting, handle, threadLock, stopper>>

(* stop takes the supervisor out of its lock: the first call waits for it,  *)
(* a call that finds it gone goes on.                                      *)
StopSupervisor(s) ==
    /\ stopper[s] = "idle"
    /\ shutting' = TRUE
    /\ stopper' = [stopper EXCEPT ![s] = IF shutting THEN "locking" ELSE "shutting"]
    /\ UNCHANGED <<callerVars, reply, commands, published, engine, taking, trigger,
                   clipVars, mediaVars, error, supervisor, handle, threadLock>>

SupervisorStopped(s) ==
    /\ stopper[s] = "shutting"
    /\ supervisor = "ended"
    /\ stopper' = [stopper EXCEPT ![s] = "locking"]
    /\ UNCHANGED <<callerVars, reply, commands, published, engine, taking, trigger,
                   clipVars, mediaVars, error, supervisor, shutting, handle, threadLock>>

(* Mutant of StopThread: the lock is released before the join. *)
StopThreadUnlocked(s) ==
    /\ stopper[s] = "locking"
    /\ threadLock = NoOne
    /\ handle' = IF handle = "held" THEN "taken" ELSE handle
    /\ stopper' = [stopper EXCEPT ![s] = IF handle = "held" THEN "joining" ELSE "clearing"]
    /\ IF handle = "held" /\ published /\ ~Ended
       THEN commands' = Append(commands, StopCommand)
       ELSE UNCHANGED commands
    /\ UNCHANGED <<callerVars, reply, published, engine, taking, trigger, clipVars,
                   mediaVars, error, supervisor, shutting, threadLock>>

(* The lock on Recorder::thread is held from here to the end of the call. *)
StopThread(s) ==
    /\ stopper[s] = "locking"
    /\ threadLock = NoOne
    /\ threadLock' = s
    /\ handle' = IF handle = "held" THEN "taken" ELSE handle
    /\ stopper' = [stopper EXCEPT ![s] = IF handle = "held" THEN "joining" ELSE "clearing"]
    /\ IF handle = "held" /\ published /\ ~Ended
       THEN commands' = Append(commands, StopCommand)
       ELSE UNCHANGED commands
    /\ UNCHANGED <<callerVars, reply, published, engine, taking, trigger, clipVars,
                   mediaVars, error, supervisor, shutting>>

Release(s) == threadLock' = IF threadLock = s THEN NoOne ELSE threadLock

(* A thread that panicked returns early: the sender stays published. *)
StopJoins(s) ==
    /\ stopper[s] = "joining"
    /\ Ended
    /\ IF engine = "panicked"
       THEN stopper' = [stopper EXCEPT ![s] = "returned"] /\ Release(s)
       ELSE stopper' = [stopper EXCEPT ![s] = "clearing"] /\ UNCHANGED threadLock
    /\ UNCHANGED <<callerVars, reply, commands, published, engine, taking, trigger,
                   clipVars, mediaVars, error, supervisor, shutting, handle>>

StopReturns(s) ==
    /\ stopper[s] = "clearing"
    /\ published' = FALSE
    /\ stopper' = [stopper EXCEPT ![s] = "returned"]
    /\ Release(s)
    /\ UNCHANGED <<callerVars, reply, commands, engine, taking, trigger, clipVars,
                   mediaVars, error, supervisor, shutting, handle>>

-----------------------------------------------------------------------------
Receive == RecvNothing \/ RecvDisconnected \/ RecvStop
           \/ (\E r \in Notes : RecvNote(r)) \/ (\E r \in Clips : RecvClip(r))
ServeClip == WaitPumps \/ SpawnSplice \/ TakeClipFails
Close == FinishPendingClips \/ Shutdown
Engine == Receive \/ ServeClip \/ AdvanceClips \/ Pump \/ LoopFails \/ Close

Call(r) == Ask(r) \/ Send(r) \/ Hear(r) \/ TimeOut(r)
Supervisor == SupervisorHangsUp \/ SupervisorJoins
Stop(s) == StopSupervisor(s) \/ SupervisorStopped(s) \/ StopThread(s)
           \/ StopJoins(s) \/ StopReturns(s)

Next ==
    \/ \E r \in Requests : Call(r)
    \/ FragmentArrives
    \/ \E r \in Clips : SpliceEnds(r)
    \/ Engine
    \/ EnginePanics
    \/ Supervisor
    \/ \E s \in Stoppers : Stop(s)

(* The operating system runs the engine's thread: every step of the loop   *)
(* that is enabled is taken, and the wait for a post-roll has a deadline.   *)
EngineRuns == WF_vars(Engine)

(* A splice is an ffmpeg child with a deadline of its own. *)
SplicesEnd == \A r \in Clips : WF_vars(SpliceEnds(r))

(* A caller that called goes on, and so does a stop and the supervisor once *)
(* it was told to shut down; nobody has to call.                           *)
CallsGoOn == \A r \in Requests : WF_vars(Send(r) \/ Hear(r))
StopsGoOn ==
    /\ \A s \in Stoppers : WF_vars(SupervisorStopped(s) \/ StopThread(s) \/ StopJoins(s) \/ StopReturns(s))
    /\ WF_vars(SupervisorJoins)
    /\ WF_vars(shutting /\ SupervisorHangsUp)

Fairness == EngineRuns /\ SplicesEnd /\ CallsGoOn /\ StopsGoOn

Spec == Init /\ [][Next]_vars /\ Fairness

-----------------------------------------------------------------------------
TypeOK ==
    /\ caller \in [Requests -> Callers]
    /\ event_at \in [Requests -> Nat]
    /\ reply \in [Requests -> Replies]
    /\ commands \in Seq(Requests \cup {StopCommand})
    /\ published \in BOOLEAN
    /\ engine \in Phases
    /\ taking \in Clips \cup {NoOne}
    /\ engine = "waiting" <=> taking # NoOne
    /\ trigger \in Nat
    /\ pending \subseteq Clips
    /\ splice \in [Clips -> {"none", "running", "written", "failed"}]
    /\ started_at \in [Clips -> Nat]
    /\ marker \in [Clips -> Nat]
    /\ span \in Nat
    /\ fed \in BOOLEAN
    /\ media \in Nat
    /\ error \in {"none", "loop", "shutdown"}
    /\ supervisor \in {"recording", "joining", "ended"}
    /\ shutting \in BOOLEAN
    /\ handle \in {"held", "taken", "never"}
    /\ threadLock \in Stoppers \cup {NoOne}
    /\ stopper \in [Stoppers -> {"idle", "shutting", "locking", "joining", "clearing", "returned"}]

(* Nobody waits for a recorder that is gone: however the engine ended (a    *)
(* stop, a failure, a panic), every request it was sent has an answer, or  *)
(* its reply channel was dropped, even when the splice was still running   *)
(* and the command was still queued.                                       *)
NobodyWaitsOnADeadEngine ==
    Ended => \A r \in Requests : caller[r] = "sent" => reply[r] # "none"

(* A recording the Recorder started itself is over when any of its stops   *)
(* returns: the loser of the race for the handle waits for the winner's    *)
(* join, because the winner keeps the lock.                                *)
StopMeansStopped ==
    handle # "never" /\ (\E s \in Stoppers : stopper[s] = "returned") => Ended

(* What stop says of itself in every mode: "a concurrent stop waits for the *)
(* shutdown rather than returning early".                                  *)
ConcurrentStopWaits == (\E s \in Stoppers : stopper[s] = "returned") => Ended

(* A game that ends drops no request: hanging up serves what is queued, and *)
(* only a stop, a failure or a panic leaves a request unserved.            *)
DroppedForAReason ==
    (\E r \in Requests : reply[r] = "dropped") =>
        \/ error # "none"
        \/ engine = "panicked"
        \/ handle = "taken"

(* However a recording ends, none of its callers is forgotten, and none is  *)
(* dropped by a game that merely ended.                                    *)
NobodyIsForgotten == TypeOK /\ NobodyWaitsOnADeadEngine /\ DroppedForAReason

(* The engine is a ClipService: one answer to each request, "the answer     *)
(* comes when the file exists", whichever of the callers, the loop, the    *)
(* splice threads and the stops moves first, through failures and panics.  *)
(* A caller that holds a sender and has not sent is still idle to it.      *)
Service == INSTANCE ClipService WITH
    request <- [r \in Requests |-> CASE caller[r] = "asked" -> "idle"
                                     [] caller[r] = "sent" -> "waiting"
                                     [] OTHER -> caller[r]],
    answer <- reply,
    files <- {r \in Clips : splice[r] = "written"},
    hungUp <- ~published,
    over <- Ended

IsAClipService == Service!ServiceSpec

(* A request that reached the engine is answered without anybody stopping  *)
(* the recorder and without counting on the caller's deadline.             *)
EveryRequestIsAnswered ==
    \A r \in Requests : caller[r] = "sent" ~> caller[r] # "sent"

(* Every stop returns: behind any queue, with the lock held by another stop *)
(* across its join, with splices running and with an engine that failed.   *)
StopsReturn == \A s \in Stoppers : stopper[s] # "idle" ~> stopper[s] = "returned"

(* Neither a caller nor a stop waits for ever.                             *)
NobodyWaitsForEver == EveryRequestIsAnswered /\ StopsReturn

(* What SharedStatus::error says of itself. *)
ErrorIsWrittenOnce == [][error # "none" => error' = error]_error

(* What the module's invariants say of a marker: it is inside the pre-roll  *)
(* of the clip it caused.                                                  *)
MarkerIsInsideItsClip ==
    \A r \in Clips : splice[r] # "none" => started_at[r] <= marker[r]

(* What Command::Clip says of the reply: the clip, or why there is none.  A *)
(* caller is told that the recorder stopped for every failed request.      *)
ToldStoppedWhenStopped ==
    [][\A r \in Requests :
          caller[r] = "sent" /\ caller'[r] = "failed" => Ended \/ engine \in {"finishing", "shutdown"}]_vars
=============================================================================
