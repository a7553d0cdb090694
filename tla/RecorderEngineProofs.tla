------------------------ MODULE RecorderEngineProofs ------------------------
(* What RecorderEngine promises, proved for every number of requests and of *)
(* stops and every window: no caller is forgotten, a stop means stopped,    *)
(* and every step of the engine is a step of a ClipService.                 *)
EXTENDS RecorderEngine, TLAPS

(* The type invariant in two parts: the provers treat a Boolean variable    *)
(* apart from the other ones.                                              *)
Flags == published \in BOOLEAN /\ fed \in BOOLEAN /\ shutting \in BOOLEAN
Typed ==
    /\ caller \in [Requests -> Callers]
    /\ event_at \in [Requests -> Nat]
    /\ reply \in [Requests -> Replies]
    /\ commands \in Seq(Requests \cup {StopCommand})
    /\ engine \in Phases
    /\ taking \in Clips \cup {NoOne}
    /\ engine = "waiting" <=> taking # NoOne
    /\ trigger \in Nat
    /\ pending \subseteq Clips
    /\ splice \in [Clips -> {"none", "running", "written", "failed"}]
    /\ started_at \in [Clips -> Nat]
    /\ marker \in [Clips -> Nat]
    /\ span \in Nat
    /\ media \in Nat
    /\ error \in {"none", "loop", "shutdown"}
    /\ supervisor \in {"recording", "joining", "ended"}
    /\ handle \in {"held", "taken", "never"}
    /\ threadLock \in Stoppers \cup {NoOne}
    /\ stopper \in [Stoppers -> {"idle", "shutting", "locking", "joining", "clearing", "returned"}]

(* The engine has heard of the request, or its channel has. *)
Heard(r) == caller[r] \notin {"idle", "asked", "refused"}

(* Unanswered, and its clip not begun. *)
Waits(r) == Heard(r) /\ reply[r] = "none" /\ (r \in Clips => splice[r] = "none")

(* A request is in one place at a time until it is answered: the channel,  *)
(* the wait for the post-roll, the clips being spliced.                    *)
QueuedWait ==
    \A i \in DOMAIN commands :
        commands[i] \in Requests =>
            /\ Waits(commands[i])
            /\ commands[i] # taking
            /\ commands[i] \notin pending
            /\ \A j \in DOMAIN commands : commands[j] = commands[i] => j = i
TakenWaits == taking # NoOne => Waits(taking) /\ taking \notin pending
PendingWait == \A r \in pending : Heard(r) /\ reply[r] = "none" /\ splice[r] # "none"
UnheardIsUntouched ==
    \A r \in Requests : ~Heard(r) => reply[r] = "none" /\ (r \in Clips => splice[r] = "none")
SplicedWereHeard ==
    \A r \in Clips : splice[r] = "running" =>
        Heard(r) /\ (r \in pending \/ reply[r] = "dropped")

(* The converse: what is heard and unanswered is in one of the places.      *)
NothingIsMislaid ==
    \A r \in Requests :
        Heard(r) /\ reply[r] = "none" => ~Ended /\ (Queued(r) \/ r = taking \/ r \in pending)
EndedIsEmpty ==
    /\ engine = "shutdown" => pending = {}
    /\ Ended => commands = <<>> /\ pending = {}

(* The engine is on its way out because it failed, because it was stopped,  *)
(* or because nobody can reach it and nothing is queued.                    *)
Unreachable ==
    /\ ~published
    /\ \A r \in Requests : caller[r] # "asked"
    /\ \A i \in DOMAIN commands : commands[i] \notin Requests
ReasonToFinish ==
    /\ engine \in {"finishing", "shutdown"} => error # "none" \/ handle = "taken" \/ Unreachable
    /\ (\E i \in DOMAIN commands : commands[i] = StopCommand) => handle = "taken"

(* Who holds the lock joins, and who is past the join saw the engine end.   *)
StopsTakeTurns ==
    \A s \in Stoppers :
        /\ stopper[s] \in {"joining", "clearing"} => threadLock = s
        /\ handle = "held" => stopper[s] \notin {"joining", "clearing", "returned"}
        /\ handle # "never" /\ stopper[s] \in {"clearing", "returned"} => Ended
TakenIsJoined ==
    handle = "taken" /\ ~Ended => threadLock \in Stoppers /\ stopper[threadLock] = "joining"

RequestsAreSomewhere ==
    /\ QueuedWait /\ TakenWaits /\ PendingWait
    /\ UnheardIsUntouched /\ SplicedWereHeard /\ NothingIsMislaid
    /\ EndedIsEmpty
Reasons == ReasonToFinish /\ DroppedForAReason
StopsWait == StopsTakeTurns /\ TakenIsJoined

IInv == Typed /\ RequestsAreSomewhere /\ Reasons /\ StopsWait

-----------------------------------------------------------------------------
(* What the channel's two ends do to its queue. *)
LEMMA TailOfQueue ==
    ASSUME NEW S, NEW s \in Seq(S), s # <<>>
    PROVE  /\ Tail(s) \in Seq(S)
           /\ Head(s) = s[1]
           /\ Head(s) \in S
           /\ 1 \in DOMAIN s
           /\ \A i \in DOMAIN Tail(s) : i + 1 \in DOMAIN s /\ Tail(s)[i] = s[i + 1] /\ i + 1 # 1
           /\ \A i \in DOMAIN s : i # 1 => i - 1 \in DOMAIN Tail(s) /\ Tail(s)[i - 1] = s[i]
           /\ \A i, j \in DOMAIN Tail(s) : i + 1 = j + 1 => i = j
OBVIOUS

LEMMA AppendTyped ==
    ASSUME commands \in Seq(Requests \cup {StopCommand}), NEW e \in Requests \cup {StopCommand}
    PROVE  Append(commands, e) \in Seq(Requests \cup {StopCommand})
OBVIOUS

LEMMA AppendToQueue ==
    ASSUME NEW S, NEW s \in Seq(S), NEW e \in S
    PROVE  /\ Append(s, e) \in Seq(S)
           /\ DOMAIN Append(s, e) = DOMAIN s \cup {Len(s) + 1}
           /\ Len(s) + 1 \notin DOMAIN s
           /\ Append(s, e)[Len(s) + 1] = e
           /\ \A i \in DOMAIN s : Append(s, e)[i] = s[i]
OBVIOUS

(* Steps that move no request. *)
LEMMA RequestsStay ==
    ASSUME RequestsAreSomewhere, UNCHANGED <<caller, reply, commands, taking, pending, splice>>,
           Ended' = Ended, engine' = "shutdown" => pending = {}
    PROVE  RequestsAreSomewhere'
<1>1. (QueuedWait /\ TakenWaits /\ PendingWait)'
  BY DEF RequestsAreSomewhere, QueuedWait, TakenWaits, PendingWait, Waits, Heard
<1>2. (UnheardIsUntouched /\ SplicedWereHeard /\ NothingIsMislaid)'
  BY DEF RequestsAreSomewhere, UnheardIsUntouched, SplicedWereHeard, NothingIsMislaid,
         Heard, Queued
<1>3. EndedIsEmpty'
  BY DEF RequestsAreSomewhere, EndedIsEmpty
<1>4. QED
  BY <1>1, <1>2, <1>3 DEF RequestsAreSomewhere

(* Steps that touch none of what a stop goes through. *)
LEMMA StopsStay ==
    ASSUME StopsWait, UNCHANGED <<handle, threadLock, stopper>>, Ended => Ended'
    PROVE  StopsWait'
BY DEF StopsWait, StopsTakeTurns, TakenIsJoined

-----------------------------------------------------------------------------
LEMMA InitHolds == Init => Flags /\ IInv
<1> SUFFICES ASSUME Init PROVE Flags /\ IInv
  OBVIOUS
<1>0. Flags
  BY Zenon DEF Init, Flags
<1>1. Typed
  <2>1. handle \in {"held", "never"}
    BY DEF Init
  <2>2. QED
    BY <2>1, EngineAssumption DEF Init, Typed, Callers, Replies, Phases
<1>2. RequestsAreSomewhere
  BY DEF Init, RequestsAreSomewhere, QueuedWait, TakenWaits, PendingWait, UnheardIsUntouched,
         SplicedWereHeard, NothingIsMislaid, EndedIsEmpty, Waits, Heard, Ended
<1>3. Reasons
  BY DEF Init, Reasons, ReasonToFinish, DroppedForAReason
<1>4. StopsWait
  BY DEF Init, StopsWait, StopsTakeTurns, TakenIsJoined
<1>5. QED
  BY <1>0, <1>1, <1>2, <1>3, <1>4 DEF IInv

-----------------------------------------------------------------------------
LEMMA TypeParts == TypeOK <=> Flags /\ Typed
BY Zenon DEF TypeOK, Flags, Typed

LEMMA FlagsHold == Flags /\ [Next]_vars => Flags'
<1> USE DEF callerVars, clipVars, mediaVars, stopVars
<1>1. ASSUME NEW r \in Requests, Call(r) PROVE UNCHANGED <<published, fed, shutting>>
  BY Zenon, <1>1 DEF Call, Ask, Send, Hear, TimeOut
<1>2. ASSUME NEW r \in Clips, SpliceEnds(r) PROVE UNCHANGED <<published, fed, shutting>>
  BY Zenon, <1>2 DEF SpliceEnds
<1>3. ASSUME Receive PROVE UNCHANGED <<published, fed, shutting>>
  BY Zenon, <1>3 DEF Receive, RecvNothing, RecvDisconnected, RecvStop, RecvNote, RecvClip
<1>4. ASSUME AdvanceClips \/ LoopFails \/ Close \/ EnginePanics
      PROVE  UNCHANGED <<published, fed, shutting>>
  BY Zenon, <1>4 DEF AdvanceClips, LoopFails, Close, FinishPendingClips, Shutdown, EnginePanics
<1>5. ASSUME Flags, FragmentArrives \/ ServeClip \/ Pump PROVE Flags'
  BY Zenon, <1>5 DEF Flags, FragmentArrives, ServeClip, WaitPumps, SpawnSplice, TakeClipFails, Pump
<1>6. ASSUME Flags, Supervisor PROVE Flags'
  BY Zenon, <1>6 DEF Flags, Supervisor, SupervisorHangsUp, SupervisorJoins
<1>7. ASSUME Flags, NEW s \in Stoppers, Stop(s) PROVE Flags'
  BY Zenon, <1>7 DEF Flags, Stop, StopSupervisor, SupervisorStopped, StopThread, StopJoins, StopReturns
<1>8. ASSUME Flags, UNCHANGED <<published, fed, shutting>> PROVE Flags'
  BY Zenon, <1>8 DEF Flags
<1>9. QED
  BY Zenon, <1>1, <1>2, <1>3, <1>4, <1>5, <1>6, <1>7, <1>8 DEF Next, Engine, vars

LEMMA TypesHold == Typed /\ [Next]_vars => Typed'
<1> USE DEF callerVars, clipVars, mediaVars, stopVars
<1>1. ASSUME Typed, NEW r \in Requests, Call(r) PROVE Typed'
  <2>1. CASE Ask(r)
    BY <1>1, <2>1 DEF Ask, Typed, Callers
  <2>2. CASE Send(r)
    <3>1. commands' = commands \/ commands' = Append(commands, r)
      BY <2>2 DEF Send
    <3>2. commands' \in Seq(Requests \cup {StopCommand})
      BY <1>1, <3>1, AppendTyped DEF Typed
    <3>3. QED
      BY <1>1, <2>2, <3>2 DEF Send, Typed, Callers
  <2>3. CASE Hear(r)
    BY <1>1, <2>3 DEF Hear, Typed, Callers, Replies
  <2>4. CASE TimeOut(r)
    BY <1>1, <2>4 DEF TimeOut, Typed, Callers
  <2>5. QED
    BY <1>1, <2>1, <2>2, <2>3, <2>4 DEF Call
<1>2. ASSUME Typed, FragmentArrives PROVE Typed'
  BY <1>2 DEF FragmentArrives, Typed
<1>3. ASSUME Typed, NEW r \in Clips, SpliceEnds(r) PROVE Typed'
  BY <1>3 DEF SpliceEnds, Typed
<1>4. ASSUME Typed, Receive PROVE Typed'
  <2>0. ASSUME commands # <<>> PROVE Tail(commands) \in Seq(Requests \cup {StopCommand})
    BY <1>4, <2>0, TailOfQueue DEF Typed
  <2>1. CASE RecvNothing
    BY <1>4, <2>1 DEF RecvNothing, Typed, Phases
  <2>2. CASE RecvDisconnected
    BY <1>4, <2>2 DEF RecvDisconnected, Typed, Phases
  <2>3. CASE RecvStop
    BY <1>4, <2>0, <2>3 DEF RecvStop, HeadIs, Typed, Phases
  <2>4. ASSUME NEW r \in Notes, RecvNote(r) PROVE Typed'
    <3>1. reply' \in [Requests -> Replies]
      BY <1>4, <2>4 DEF RecvNote, Typed, Replies, Requests
    <3>2. QED
      BY <1>4, <2>0, <2>4, <3>1 DEF RecvNote, HeadIs, Typed, Phases
  <2>5. ASSUME NEW r \in Clips, RecvClip(r) PROVE Typed'
    <3>1. r # NoOne
      BY EngineAssumption DEF Requests
    <3>2. QED
      BY <1>4, <2>0, <2>5, <3>1 DEF RecvClip, HeadIs, Typed, Phases
  <2>6. QED
    BY <1>4, <2>1, <2>2, <2>3, <2>4, <2>5 DEF Receive
<1>5. ASSUME Typed, ServeClip PROVE Typed'
  <2>1. CASE WaitPumps
    BY <1>5, <2>1 DEF WaitPumps, Typed
  <2>2. CASE SpawnSplice
    <3>1. taking \in Clips /\ event_at[taking] \in Nat /\ trigger \in Nat
      BY <1>5, <2>2 DEF SpawnSplice, Requests, Typed
    <3>2. WindowStart \in Nat
      BY <3>1, EngineAssumption DEF WindowStart
    <3>3. MarkerOf(event_at[taking], WindowStart) \in Nat
      BY <3>1, <3>2, EngineAssumption DEF MarkerOf
    <3>4. QED
      BY <1>5, <2>2, <3>1, <3>2, <3>3 DEF SpawnSplice, Typed, Phases
  <2>3. CASE TakeClipFails
    BY <1>5, <2>3 DEF TakeClipFails, Requests, Typed, Phases, Replies
  <2>4. QED
    BY <1>5, <2>1, <2>2, <2>3 DEF ServeClip
<1>6. ASSUME Typed, AdvanceClips PROVE Typed'
  <2>1. reply' \in [Requests -> Replies]
    BY <1>6 DEF AdvanceClips, FinishClip, Outcome, Requests, Typed, Replies
  <2>2. QED
    BY <1>6, <2>1 DEF AdvanceClips, FinishClip, Typed, Phases
<1>7. ASSUME Typed, Pump PROVE Typed'
  BY <1>7 DEF Pump, Typed, Phases
<1>8. ASSUME Typed, LoopFails PROVE Typed'
  BY <1>8 DEF LoopFails, Typed, Phases
<1>9. ASSUME Typed, FinishPendingClips PROVE Typed'
  <2>1. reply' \in [Requests -> Replies]
    BY <1>9 DEF FinishPendingClips, FinishClip, Outcome, Requests, Typed, Replies
  <2>2. QED
    BY <1>9, <2>1 DEF FinishPendingClips, FinishClip, Typed, Phases
<1>10. ASSUME Typed, Shutdown PROVE Typed'
  <2>1. reply' \in [Requests -> Replies]
    BY <1>10 DEF Shutdown, DropReplies, Typed, Replies
  <2>2. commands' \in Seq(Requests \cup {StopCommand})
    BY <1>10 DEF Shutdown
  <2>3. QED
    BY <1>10, <2>1, <2>2 DEF Shutdown, Typed, Phases
<1>11. ASSUME Typed, EnginePanics PROVE Typed'
  <2>1. reply' \in [Requests -> Replies]
    BY <1>11 DEF EnginePanics, DropReplies, Typed, Replies
  <2>2. commands' \in Seq(Requests \cup {StopCommand})
    BY <1>11 DEF EnginePanics
  <2>3. QED
    BY <1>11, <2>1, <2>2 DEF EnginePanics, Typed, Phases
<1>12. ASSUME Typed, Supervisor PROVE Typed'
  BY <1>12 DEF Supervisor, SupervisorHangsUp, SupervisorJoins, Typed
<1>13. ASSUME Typed, NEW s \in Stoppers, Stop(s) PROVE Typed'
  <2>1. CASE StopSupervisor(s)
    BY <1>13, <2>1 DEF StopSupervisor, Typed
  <2>2. CASE SupervisorStopped(s)
    BY <1>13, <2>2 DEF SupervisorStopped, Typed
  <2>3. CASE StopThread(s)
    <3>1. commands' \in Seq(Requests \cup {StopCommand})
      BY <1>13, <2>3, AppendTyped DEF StopThread, Typed
    <3>2. QED
      BY <1>13, <2>3, <3>1 DEF StopThread, Typed
  <2>4. CASE StopJoins(s)
    BY <1>13, <2>4 DEF StopJoins, Release, Typed
  <2>5. CASE StopReturns(s)
    BY <1>13, <2>5 DEF StopReturns, Release, Typed
  <2>6. QED
    BY <1>13, <2>1, <2>2, <2>3, <2>4, <2>5 DEF Stop
<1>14. ASSUME Typed, UNCHANGED vars PROVE Typed'
  BY <1>14 DEF vars, Typed
<1>15. QED
  BY <1>1, <1>2, <1>3, <1>4, <1>5, <1>6, <1>7, <1>8, <1>9, <1>10, <1>11, <1>12, <1>13, <1>14
  DEF Next, Engine, Close

-----------------------------------------------------------------------------
(* The requests, action by action. *)
LEMMA AskKeeps ==
    ASSUME Typed, RequestsAreSomewhere, NEW r \in Requests, Ask(r)
    PROVE  RequestsAreSomewhere'
<1>1. /\ UNCHANGED <<reply, commands, taking, pending, splice, engine>>
      /\ caller' \in [Requests -> Callers]
      /\ \A q \in Requests : Heard(q)' = Heard(q)
  BY DEF Typed, Ask, clipVars, Heard, Callers
<1>2. \A q \in Requests : Waits(q)' = Waits(q)
  BY <1>1 DEF Waits
<1>3. (QueuedWait /\ TakenWaits /\ PendingWait)'
  BY <1>1, <1>2 DEF RequestsAreSomewhere, QueuedWait, TakenWaits, PendingWait, Typed, Requests
<1>4. (UnheardIsUntouched /\ SplicedWereHeard /\ NothingIsMislaid)'
  BY <1>1 DEF RequestsAreSomewhere, UnheardIsUntouched, SplicedWereHeard, NothingIsMislaid,
              Queued, Ended, Requests
<1>5. QED
  BY <1>1, <1>3, <1>4 DEF RequestsAreSomewhere, EndedIsEmpty, Ended

(* An answer heard, or a patience that ended, leaves the request where it is. *)
LEMMA HearKeeps ==
    ASSUME Typed, RequestsAreSomewhere, NEW r \in Requests, Hear(r) \/ TimeOut(r)
    PROVE  RequestsAreSomewhere'
<1>1. /\ UNCHANGED <<reply, commands, taking, pending, splice, engine>>
      /\ \A q \in Requests : Heard(q)' = Heard(q)
  BY DEF Typed, Hear, TimeOut, clipVars, Heard, Callers, Replies
<1>2. \A q \in Requests : Waits(q)' = Waits(q)
  BY <1>1 DEF Waits
<1>3. (QueuedWait /\ TakenWaits /\ PendingWait)'
  BY <1>1, <1>2 DEF RequestsAreSomewhere, QueuedWait, TakenWaits, PendingWait, Typed, Requests
<1>4. (UnheardIsUntouched /\ SplicedWereHeard /\ NothingIsMislaid)'
  BY <1>1 DEF RequestsAreSomewhere, UnheardIsUntouched, SplicedWereHeard, NothingIsMislaid,
              Queued, Ended, Requests
<1>5. QED
  BY <1>1, <1>3, <1>4 DEF RequestsAreSomewhere, EndedIsEmpty, Ended

LEMMA SendKeeps ==
    ASSUME Typed, RequestsAreSomewhere, NEW r \in Requests, Send(r)
    PROVE  RequestsAreSomewhere'
<1>1. /\ UNCHANGED <<reply, taking, pending, splice, engine>>
      /\ caller[r] = "asked"
      /\ ~Heard(r)
      /\ \A q \in Requests : q # r => Heard(q)' = Heard(q)
  BY DEF Typed, Send, clipVars, Heard
<1>2. CASE Ended
  <2>1. commands' = commands /\ ~Heard(r)'
    BY <1>2 DEF Send, Typed, Heard
  <2>2. \A q \in Requests : Heard(q)' = Heard(q)
    BY <1>1, <2>1 DEF Heard
  <2>3. \A q \in Requests : Waits(q)' = Waits(q)
    BY <1>1, <2>2 DEF Waits
  <2>4. (QueuedWait /\ TakenWaits /\ PendingWait)'
    BY <1>1, <2>1, <2>2, <2>3 DEF RequestsAreSomewhere, QueuedWait, TakenWaits, PendingWait, Typed, Requests
  <2>5. (UnheardIsUntouched /\ SplicedWereHeard /\ NothingIsMislaid)'
    BY <1>1, <2>1, <2>2 DEF RequestsAreSomewhere, UnheardIsUntouched, SplicedWereHeard, NothingIsMislaid,
                Queued, Ended, Requests
  <2>6. QED
    BY <1>1, <2>1, <2>4, <2>5 DEF RequestsAreSomewhere, EndedIsEmpty, Ended
<1>3. CASE ~Ended
  <2> DEFINE n == Len(commands) + 1
  <2>1. /\ Heard(r)'
        /\ reply[r] = "none" /\ (r \in Clips => splice[r] = "none")
        /\ r \notin pending /\ r # taking
    BY <1>1, <1>3, EngineAssumption DEF Send, Typed, Heard, RequestsAreSomewhere, UnheardIsUntouched, PendingWait,
       TakenWaits, Waits, Requests
  <2>2. /\ DOMAIN commands' = DOMAIN commands \cup {n}
        /\ n \notin DOMAIN commands
        /\ commands'[n] = r
        /\ \A i \in DOMAIN commands : commands'[i] = commands[i] /\ commands[i] # r
    <3>1. commands' = Append(commands, r)
      BY <1>3 DEF Send
    <3>2. \A i \in DOMAIN commands : commands[i] # r
      BY <1>1 DEF RequestsAreSomewhere, QueuedWait, Waits
    <3>3. r \in Requests \cup {StopCommand} /\ commands \in Seq(Requests \cup {StopCommand})
      BY DEF Typed
    <3>4. QED
      BY <3>1, <3>2, <3>3, AppendToQueue
  <2> HIDE DEF n
  <2>3. Waits(r)' /\ \A q \in Requests : q # r => Waits(q)' = Waits(q)
    BY <1>1, <2>1 DEF Waits
  <2>4. QueuedWait'
    BY <1>1, <2>1, <2>2, <2>3 DEF RequestsAreSomewhere, QueuedWait
  <2>5. (TakenWaits /\ PendingWait)'
    BY <1>1, <2>1, <2>3 DEF RequestsAreSomewhere, TakenWaits, PendingWait, Typed, Requests
  <2>6. (UnheardIsUntouched /\ SplicedWereHeard)'
    BY <1>1, <2>1 DEF RequestsAreSomewhere, UnheardIsUntouched, SplicedWereHeard, Requests
  <2>7. NothingIsMislaid'
    BY <1>1, <1>3, <2>1, <2>2 DEF RequestsAreSomewhere, NothingIsMislaid, Queued, Ended
  <2>8. QED
    BY <1>1, <1>3, <2>4, <2>5, <2>6, <2>7 DEF RequestsAreSomewhere, EndedIsEmpty, Ended
<1>4. QED
  BY <1>2, <1>3

(* The queue's head is taken out of it: it waits, and the rest move up. *)
LEMMA PopHead ==
    ASSUME Typed, RequestsAreSomewhere, commands # <<>>, commands' = Tail(commands)
    PROVE  /\ \A i \in DOMAIN commands' : i + 1 \in DOMAIN commands /\ commands'[i] = commands[i + 1]
           /\ \A i, j \in DOMAIN commands' : i + 1 = j + 1 => i = j
           /\ \A q \in Requests : Queued(q) => q = Head(commands) \/ Queued(q)'
           /\ Head(commands) \in Requests =>
                 /\ Waits(Head(commands)) /\ Head(commands) # taking /\ Head(commands) \notin pending
                 /\ \A i \in DOMAIN commands' : commands'[i] # Head(commands)
<1>1. /\ Head(commands) = commands[1]
      /\ 1 \in DOMAIN commands
      /\ \A i \in DOMAIN commands' : i + 1 \in DOMAIN commands /\ commands'[i] = commands[i + 1] /\ i + 1 # 1
      /\ \A i \in DOMAIN commands : i # 1 => i - 1 \in DOMAIN commands' /\ commands'[i - 1] = commands[i]
      /\ \A i, j \in DOMAIN commands' : i + 1 = j + 1 => i = j
  BY TailOfQueue DEF Typed
<1>2. \A q \in Requests : Queued(q) => q = Head(commands) \/ Queued(q)'
  BY <1>1 DEF Queued
<1>3. Head(commands) \in Requests =>
         /\ Waits(Head(commands)) /\ Head(commands) # taking /\ Head(commands) \notin pending
         /\ \A i \in DOMAIN commands' : commands'[i] # Head(commands)
  BY <1>1 DEF RequestsAreSomewhere, QueuedWait
<1>4. QED
  BY <1>1, <1>2, <1>3

LEMMA RecvStopKeeps ==
    ASSUME Typed, RequestsAreSomewhere, RecvStop
    PROVE  RequestsAreSomewhere'
<1>1. /\ UNCHANGED <<caller, reply, taking, pending, splice>>
      /\ engine = "recv" /\ engine' = "finishing"
      /\ commands # <<>> /\ commands' = Tail(commands) /\ Head(commands) = StopCommand
  BY DEF RecvStop, HeadIs, callerVars, clipVars
<1>2. QueuedWait'
  BY <1>1, PopHead DEF RequestsAreSomewhere, QueuedWait, Waits, Heard
<1>3. (TakenWaits /\ PendingWait /\ UnheardIsUntouched /\ SplicedWereHeard)'
  BY <1>1 DEF RequestsAreSomewhere, TakenWaits, PendingWait, Waits, Heard, UnheardIsUntouched,
       SplicedWereHeard
<1>4. \A q \in Requests : Queued(q) => Queued(q)'
  BY <1>1, PopHead, EngineAssumption
<1>5. NothingIsMislaid'
  BY <1>1, <1>4 DEF RequestsAreSomewhere, NothingIsMislaid, Heard, Ended
<1>6. QED
  BY <1>1, <1>2, <1>3, <1>5 DEF RequestsAreSomewhere, EndedIsEmpty, Ended

LEMMA RecvNoteKeeps ==
    ASSUME Typed, RequestsAreSomewhere, NEW r \in Notes, RecvNote(r)
    PROVE  RequestsAreSomewhere'
<1>1. /\ UNCHANGED <<caller, taking, pending, splice>>
      /\ engine = "recv" /\ engine' = "advance"
      /\ commands # <<>> /\ commands' = Tail(commands) /\ Head(commands) = r
      /\ r \in Requests /\ r \notin Clips /\ r # NoOne
  BY EngineAssumption DEF RecvNote, HeadIs, callerVars, clipVars, Requests
<1>2. /\ reply'[r] # "none"
      /\ \A q \in Requests : q # r => reply'[q] = reply[q]
  BY <1>1 DEF RecvNote, Typed
<1>3. /\ \A q \in Requests : Heard(q)' = Heard(q)
      /\ \A q \in Requests : q # r => Waits(q)' = Waits(q)
      /\ Waits(r) /\ \A i \in DOMAIN commands' : commands'[i] # r
  BY <1>1, <1>2, PopHead DEF Heard, Waits
<1>4. QueuedWait'
  BY <1>1, <1>3, PopHead DEF RequestsAreSomewhere, QueuedWait
<1>5. (TakenWaits /\ PendingWait)'
  BY <1>1, <1>2, <1>3 DEF RequestsAreSomewhere, TakenWaits, PendingWait, Typed, Requests
<1>6. (UnheardIsUntouched /\ SplicedWereHeard)'
  BY <1>1, <1>2, <1>3 DEF RequestsAreSomewhere, UnheardIsUntouched, SplicedWereHeard, Waits, Requests
<1>7. NothingIsMislaid'
  BY <1>1, <1>2, <1>3, PopHead DEF RequestsAreSomewhere, NothingIsMislaid, Ended
<1>8. QED
  BY <1>1, <1>4, <1>5, <1>6, <1>7 DEF RequestsAreSomewhere, EndedIsEmpty, Ended

LEMMA RecvClipKeeps ==
    ASSUME Typed, RequestsAreSomewhere, NEW r \in Clips, RecvClip(r)
    PROVE  RequestsAreSomewhere'
<1>1. /\ UNCHANGED <<caller, reply, pending, splice>>
      /\ engine = "recv" /\ engine' = "waiting" /\ taking = NoOne /\ taking' = r
      /\ commands # <<>> /\ commands' = Tail(commands) /\ Head(commands) = r
      /\ r \in Requests /\ r # NoOne
  BY EngineAssumption DEF RecvClip, HeadIs, callerVars, clipVars, Requests, Typed
<1>2. /\ \A q \in Requests : Heard(q)' = Heard(q) /\ Waits(q)' = Waits(q)
      /\ Waits(r) /\ r \notin pending /\ \A i \in DOMAIN commands' : commands'[i] # r
  BY <1>1, PopHead DEF Heard, Waits
<1>3. QueuedWait'
  BY <1>1, <1>2, PopHead DEF RequestsAreSomewhere, QueuedWait
<1>4. (TakenWaits /\ PendingWait /\ UnheardIsUntouched /\ SplicedWereHeard)'
  BY <1>1, <1>2 DEF RequestsAreSomewhere, TakenWaits, PendingWait, Heard, UnheardIsUntouched,
       SplicedWereHeard
<1>5. NothingIsMislaid'
  BY <1>1, <1>2, PopHead, EngineAssumption DEF RequestsAreSomewhere, NothingIsMislaid, Ended
<1>6. QED
  BY <1>1, <1>3, <1>4, <1>5 DEF RequestsAreSomewhere, EndedIsEmpty, Ended

LEMMA SpawnKeeps ==
    ASSUME Typed, RequestsAreSomewhere, SpawnSplice
    PROVE  RequestsAreSomewhere'
<1>1. /\ UNCHANGED <<caller, reply, commands>>
      /\ engine = "waiting" /\ engine' = "advance"
      /\ taking \in Clips /\ taking \in Requests /\ taking # NoOne /\ taking' = NoOne
      /\ pending' = pending \cup {taking}
      /\ splice'[taking] = "running"
      /\ \A q \in Clips : q # taking => splice'[q] = splice[q]
  BY DEF SpawnSplice, callerVars, Requests, Typed
<1>2. Waits(taking) /\ taking \notin pending
  BY <1>1 DEF RequestsAreSomewhere, TakenWaits
<1>3. \A q \in Requests : (Heard(q)' = Heard(q)) /\ (q # taking => Waits(q)' = Waits(q))
  BY <1>1 DEF Heard, Waits
<1>4. QueuedWait'
  BY <1>1, <1>3, EngineAssumption DEF RequestsAreSomewhere, QueuedWait
<1>5. (TakenWaits /\ PendingWait)'
  BY <1>1, <1>2, <1>3 DEF RequestsAreSomewhere, TakenWaits, PendingWait, Waits, Requests, Typed
<1>6. (UnheardIsUntouched /\ SplicedWereHeard)'
  BY <1>1, <1>2, <1>3 DEF RequestsAreSomewhere, UnheardIsUntouched, SplicedWereHeard, Waits, Requests
<1>7. NothingIsMislaid'
  BY <1>1, <1>3 DEF RequestsAreSomewhere, NothingIsMislaid, Ended, Queued
<1>8. QED
  BY <1>1, <1>4, <1>5, <1>6, <1>7 DEF RequestsAreSomewhere, EndedIsEmpty, Ended

LEMMA TakeClipFailsKeeps ==
    ASSUME Typed, RequestsAreSomewhere, TakeClipFails
    PROVE  RequestsAreSomewhere'
<1>1. /\ UNCHANGED <<caller, commands, pending, splice>>
      /\ engine = "waiting" /\ engine' = "advance"
      /\ taking \in Clips /\ taking \in Requests /\ taking # NoOne /\ taking' = NoOne
      /\ reply'[taking] = "failed"
      /\ \A q \in Requests : q # taking => reply'[q] = reply[q]
  BY DEF TakeClipFails, callerVars, clipVars, Requests, Typed
<1>2. Waits(taking) /\ taking \notin pending
  BY <1>1 DEF RequestsAreSomewhere, TakenWaits
<1>3. \A q \in Requests : (Heard(q)' = Heard(q)) /\ (q # taking => Waits(q)' = Waits(q))
  BY <1>1 DEF Heard, Waits
<1>4. QueuedWait'
  BY <1>1, <1>3, EngineAssumption DEF RequestsAreSomewhere, QueuedWait
<1>5. (TakenWaits /\ PendingWait)'
  BY <1>1, <1>2, <1>3 DEF RequestsAreSomewhere, TakenWaits, PendingWait, Requests, Typed
<1>6. (UnheardIsUntouched /\ SplicedWereHeard)'
  BY <1>1, <1>2, <1>3 DEF RequestsAreSomewhere, UnheardIsUntouched, SplicedWereHeard, Waits, Requests
<1>7. NothingIsMislaid'
  BY <1>1, <1>3 DEF RequestsAreSomewhere, NothingIsMislaid, Ended, Queued
<1>8. QED
  BY <1>1, <1>4, <1>5, <1>6, <1>7 DEF RequestsAreSomewhere, EndedIsEmpty, Ended

(* A clip is finished in the loop and again on the engine's way out.        *)
LEMMA FinishClipKeeps ==
    ASSUME Typed, RequestsAreSomewhere, NEW r \in pending, Spliced(r), FinishClip(r),
           UNCHANGED <<caller, commands, taking>>, ~Ended, ~Ended', engine' # "shutdown"
    PROVE  RequestsAreSomewhere'
<1>1. /\ r \in Clips /\ r \in Requests
      /\ UNCHANGED splice /\ splice[r] # "running"
      /\ pending' = pending \ {r}
      /\ reply'[r] # "none"
      /\ \A q \in Requests : q # r => reply'[q] = reply[q]
  BY DEF FinishClip, Outcome, Spliced, Typed, Requests
<1>2. /\ Heard(r) /\ ~Waits(r) /\ r # taking
      /\ \A i \in DOMAIN commands : commands[i] # r
  BY <1>1, EngineAssumption DEF RequestsAreSomewhere, PendingWait, TakenWaits, QueuedWait, Waits
<1>3. \A q \in Requests : (Heard(q)' = Heard(q)) /\ (q # r => Waits(q)' = Waits(q))
  BY <1>1 DEF Heard, Waits
<1>4. QueuedWait'
  BY <1>1, <1>2, <1>3 DEF RequestsAreSomewhere, QueuedWait
<1>5. (TakenWaits /\ PendingWait)'
  BY <1>1, <1>2, <1>3 DEF RequestsAreSomewhere, TakenWaits, PendingWait, Requests, Typed
<1>6. (UnheardIsUntouched /\ SplicedWereHeard)'
  BY <1>1, <1>2, <1>3 DEF RequestsAreSomewhere, UnheardIsUntouched, SplicedWereHeard, Requests
<1>7. NothingIsMislaid'
  BY <1>1, <1>3 DEF RequestsAreSomewhere, NothingIsMislaid, Queued
<1>8. QED
  BY <1>1, <1>4, <1>5, <1>6, <1>7 DEF RequestsAreSomewhere, EndedIsEmpty

LEMMA SpliceEndsKeeps ==
    ASSUME Typed, RequestsAreSomewhere, NEW r \in Clips, SpliceEnds(r)
    PROVE  RequestsAreSomewhere'
<1>1. /\ UNCHANGED <<caller, reply, commands, taking, pending, engine>>
      /\ splice[r] = "running" /\ r \in Requests
      /\ splice'[r] \in {"written", "failed"}
      /\ \A q \in Clips : q # r => splice'[q] = splice[q]
  BY DEF SpliceEnds, callerVars, Typed, Requests
<1>2. /\ Heard(r) /\ ~Waits(r)
  BY <1>1 DEF RequestsAreSomewhere, SplicedWereHeard, Waits
<1>3. \A q \in Requests : (Heard(q)' = Heard(q)) /\ (q # r => Waits(q)' = Waits(q))
  BY <1>1 DEF Heard, Waits
<1>4. (QueuedWait /\ TakenWaits)'
  BY <1>1, <1>2, <1>3 DEF RequestsAreSomewhere, QueuedWait, TakenWaits, Requests, Typed
<1>5. PendingWait'
  BY <1>1, <1>3 DEF RequestsAreSomewhere, PendingWait, Requests, Typed
<1>6. (UnheardIsUntouched /\ SplicedWereHeard)'
  BY <1>1, <1>2, <1>3 DEF RequestsAreSomewhere, UnheardIsUntouched, SplicedWereHeard, Requests
<1>7. NothingIsMislaid'
  BY <1>1, <1>3 DEF RequestsAreSomewhere, NothingIsMislaid, Queued, Ended
<1>8. QED
  BY <1>1, <1>4, <1>5, <1>6, <1>7 DEF RequestsAreSomewhere, EndedIsEmpty, Ended

(* The engine ends, of itself or in a panic: nothing is held any more, and  *)
(* what was held has its answer dropped.                                   *)
LEMMA EndKeeps ==
    ASSUME Typed, RequestsAreSomewhere, ~Ended, Ended',
           commands' = <<>>, pending' = {}, taking' = NoOne, UNCHANGED <<caller, splice>>,
           DropReplies({r \in Requests : Queued(r) \/ r \in pending \/ r = taking})
    PROVE  RequestsAreSomewhere'
<1>1. \A q \in Requests :
         reply'[q] = IF reply[q] = "none" /\ (Queued(q) \/ q \in pending \/ q = taking)
                     THEN "dropped" ELSE reply[q]
  BY DEF DropReplies
<1>2. \A q \in Requests : Heard(q)' = Heard(q)
  BY DEF Heard
<1>3. \A q \in Requests : Queued(q) \/ q \in pending \/ q = taking => Heard(q)
  BY EngineAssumption DEF RequestsAreSomewhere, QueuedWait, PendingWait, TakenWaits, Waits, Queued
<1>4. (QueuedWait /\ TakenWaits /\ PendingWait)'
  BY DEF QueuedWait, TakenWaits, PendingWait
<1>5. (UnheardIsUntouched /\ SplicedWereHeard)'
  BY <1>1, <1>2, <1>3 DEF RequestsAreSomewhere, UnheardIsUntouched, SplicedWereHeard, PendingWait, Requests
<1>6. NothingIsMislaid'
  BY <1>1, <1>2 DEF RequestsAreSomewhere, NothingIsMislaid
<1>7. QED
  BY <1>4, <1>5, <1>6 DEF RequestsAreSomewhere, EndedIsEmpty, Ended

LEMMA StopThreadKeeps ==
    ASSUME Typed, RequestsAreSomewhere, NEW s \in Stoppers, StopThread(s)
    PROVE  RequestsAreSomewhere'
<1>1. /\ UNCHANGED <<caller, reply, taking, pending, splice, engine>>
      /\ commands' = commands \/ (commands' = Append(commands, StopCommand) /\ ~Ended)
  BY DEF StopThread, callerVars, clipVars
<1>2. CASE commands' = commands
  BY <1>1, <1>2, RequestsStay DEF RequestsAreSomewhere, EndedIsEmpty, Ended
<1>3. CASE commands' = Append(commands, StopCommand) /\ ~Ended
  <2> DEFINE n == Len(commands) + 1
  <2>1. /\ DOMAIN commands' = DOMAIN commands \cup {n}
        /\ commands'[n] = StopCommand
        /\ \A i \in DOMAIN commands : commands'[i] = commands[i]
    BY <1>3, AppendToQueue DEF Typed
  <2> HIDE DEF n
  <2>2. \A q \in Requests : (Heard(q)' = Heard(q)) /\ (Waits(q)' = Waits(q))
    BY <1>1 DEF Heard, Waits
  <2>3. QueuedWait'
    BY <1>1, <2>1, <2>2, EngineAssumption DEF RequestsAreSomewhere, QueuedWait
  <2>4. (TakenWaits /\ PendingWait /\ UnheardIsUntouched /\ SplicedWereHeard)'
    BY <1>1 DEF RequestsAreSomewhere, TakenWaits, PendingWait, Waits, Heard, UnheardIsUntouched,
                SplicedWereHeard
  <2>5. NothingIsMislaid'
    BY <1>1, <1>3, <2>1, <2>2 DEF RequestsAreSomewhere, NothingIsMislaid, Queued, Ended
  <2>6. QED
    BY <1>1, <1>3, <2>3, <2>4, <2>5 DEF RequestsAreSomewhere, EndedIsEmpty, Ended
<1>4. QED
  BY <1>1, <1>2, <1>3

LEMMA RequestsHold == Typed /\ RequestsAreSomewhere /\ [Next]_vars => RequestsAreSomewhere'
<1> SUFFICES ASSUME Typed, RequestsAreSomewhere PROVE [Next]_vars => RequestsAreSomewhere'
  OBVIOUS
<1>1. ASSUME NEW r \in Requests, Call(r) PROVE RequestsAreSomewhere'
  BY <1>1, AskKeeps, SendKeeps, HearKeeps DEF Call
<1>2. ASSUME FragmentArrives PROVE RequestsAreSomewhere'
  BY <1>2, RequestsStay DEF FragmentArrives, callerVars, clipVars, Ended, RequestsAreSomewhere, EndedIsEmpty
<1>3. ASSUME NEW r \in Clips, SpliceEnds(r) PROVE RequestsAreSomewhere'
  BY <1>3, SpliceEndsKeeps
<1>4. ASSUME Receive PROVE RequestsAreSomewhere'
  <2>1. ASSUME RecvNothing \/ RecvDisconnected PROVE RequestsAreSomewhere'
    BY <2>1, RequestsStay DEF RecvNothing, RecvDisconnected, callerVars, clipVars, Ended
  <2>2. QED
    BY <1>4, <2>1, RecvStopKeeps, RecvNoteKeeps, RecvClipKeeps DEF Receive
<1>5. ASSUME ServeClip PROVE RequestsAreSomewhere'
  <2>1. ASSUME WaitPumps PROVE RequestsAreSomewhere'
    BY <2>1, RequestsStay DEF WaitPumps, callerVars, clipVars, Ended
  <2>2. QED
    BY <1>5, <2>1, SpawnKeeps, TakeClipFailsKeeps DEF ServeClip
<1>6. ASSUME AdvanceClips PROVE RequestsAreSomewhere'
  <2>1. /\ UNCHANGED <<caller, commands, taking>>
        /\ engine' = "pump" /\ ~Ended /\ ~Ended'
    BY <1>6 DEF AdvanceClips, callerVars, Ended
  <2>2. ASSUME NEW r \in pending, Spliced(r), FinishClip(r) PROVE RequestsAreSomewhere'
    BY <2>1, <2>2, FinishClipKeeps
  <2>3. ASSUME UNCHANGED <<reply, clipVars>> PROVE RequestsAreSomewhere'
    BY <2>1, <2>3, RequestsStay DEF clipVars, Ended
  <2>4. QED
    BY <1>6, <2>2, <2>3 DEF AdvanceClips
<1>7. ASSUME Pump \/ LoopFails PROVE RequestsAreSomewhere'
  BY <1>7, RequestsStay DEF Pump, LoopFails, callerVars, clipVars, Ended
<1>8. ASSUME FinishPendingClips PROVE RequestsAreSomewhere'
  <2>1. UNCHANGED <<caller, commands, taking>> /\ engine = "finishing"
    BY <1>8 DEF FinishPendingClips, callerVars
  <2>2. ASSUME NEW r \in pending, Spliced(r), FinishClip(r), UNCHANGED engine
        PROVE  RequestsAreSomewhere'
    BY <2>1, <2>2, FinishClipKeeps DEF Ended
  <2>3. ASSUME pending = {}, engine' = "shutdown", UNCHANGED <<reply, clipVars>>
        PROVE  RequestsAreSomewhere'
    BY <2>1, <2>3, RequestsStay DEF clipVars, Ended
  <2>4. QED
    BY <1>8, <2>2, <2>3 DEF FinishPendingClips
<1>9. ASSUME Shutdown PROVE RequestsAreSomewhere'
  <2>1. /\ engine = "shutdown" /\ pending = {} /\ taking = NoOne
        /\ ~Ended /\ Ended' /\ commands' = <<>> /\ pending' = {} /\ taking' = NoOne
        /\ UNCHANGED <<caller, splice>>
    BY <1>9 DEF Shutdown, callerVars, clipVars, Ended, Typed, RequestsAreSomewhere, EndedIsEmpty
  <2>2. {r \in Requests : Queued(r)} = {r \in Requests : Queued(r) \/ r \in pending \/ r = taking}
    BY <2>1, EngineAssumption
  <2>3. DropReplies({r \in Requests : Queued(r) \/ r \in pending \/ r = taking})
    BY <1>9, <2>2 DEF Shutdown
  <2>4. QED
    BY <2>1, <2>3, EndKeeps
<1>10. ASSUME EnginePanics PROVE RequestsAreSomewhere'
  BY <1>10, EndKeeps DEF EnginePanics, callerVars, Ended
<1>11. ASSUME Supervisor PROVE RequestsAreSomewhere'
  BY <1>11, RequestsStay DEF Supervisor, SupervisorHangsUp, SupervisorJoins, callerVars, clipVars, Ended,
                             RequestsAreSomewhere, EndedIsEmpty
<1>12. ASSUME NEW s \in Stoppers, Stop(s) PROVE RequestsAreSomewhere'
  <2>1. ASSUME StopSupervisor(s) \/ SupervisorStopped(s) \/ StopJoins(s) \/ StopReturns(s)
        PROVE  RequestsAreSomewhere'
    BY <2>1, RequestsStay DEF StopSupervisor, SupervisorStopped, StopJoins, StopReturns, callerVars,
                              clipVars, Ended, RequestsAreSomewhere, EndedIsEmpty
  <2>2. QED
    BY <1>12, <2>1, StopThreadKeeps DEF Stop
<1>13. ASSUME UNCHANGED vars PROVE RequestsAreSomewhere'
  BY <1>13, RequestsStay DEF vars, callerVars, clipVars, Ended, RequestsAreSomewhere, EndedIsEmpty
<1>14. QED
  BY <1>1, <1>2, <1>3, <1>4, <1>5, <1>6, <1>7, <1>8, <1>9, <1>10, <1>11, <1>12, <1>13
  DEF Next, Engine, Close

-----------------------------------------------------------------------------
(* Why the engine leaves, and whose answers are dropped. *)

(* Steps that send nothing, take nothing and leave nothing.                 *)
LEMMA ReasonsStay ==
    ASSUME Reasons, UNCHANGED <<reply, commands, engine>>,
           error # "none" => error' = error, handle = "taken" => handle' = "taken",
           Unreachable => Unreachable'
    PROVE  Reasons'
BY DEF Reasons, ReasonToFinish, DroppedForAReason

LEMMA ReasonsHold == IInv /\ [Next]_vars => Reasons'
<1> SUFFICES ASSUME IInv PROVE [Next]_vars => Reasons'
  OBVIOUS
<1>0. Typed /\ RequestsAreSomewhere /\ Reasons /\ StopsWait
  BY DEF IInv
<1>1. ASSUME NEW r \in Requests, Call(r) PROVE Reasons'
  <2>1. ASSUME Ask(r) \/ Hear(r) \/ TimeOut(r) PROVE Reasons'
    <3>1. Unreachable => Unreachable'
      BY <1>0, <2>1 DEF Ask, Hear, TimeOut, Unreachable, Typed, Replies
    <3>2. QED
      BY <1>0, <2>1, <3>1, ReasonsStay DEF Ask, Hear, TimeOut, stopVars
  <2>2. ASSUME Send(r) PROVE Reasons'
    <3>1. ~Unreachable /\ UNCHANGED <<reply, engine, error, handle>>
      BY <2>2 DEF Send, Unreachable, stopVars
    <3>2. (\E i \in DOMAIN commands' : commands'[i] = StopCommand)
             => \E i \in DOMAIN commands : commands[i] = StopCommand
      <4>1. commands' = commands \/ commands' = Append(commands, r)
        BY <2>2 DEF Send
      <4>2. r # StopCommand /\ r \in Requests \cup {StopCommand}
        BY EngineAssumption
      <4>3. commands' = Append(commands, r) =>
               \A i \in DOMAIN commands' :
                   commands'[i] = r \/ (i \in DOMAIN commands /\ commands'[i] = commands[i])
        BY <1>0, <4>2, AppendToQueue DEF Typed
      <4>4. QED
        BY <4>1, <4>2, <4>3
    <3>3. QED
      BY <1>0, <3>1, <3>2 DEF Reasons, ReasonToFinish, DroppedForAReason
  <2>3. QED
    BY <1>1, <2>1, <2>2 DEF Call
<1>2. ASSUME FragmentArrives PROVE Reasons'
  BY <1>0, <1>2, ReasonsStay DEF FragmentArrives, callerVars, stopVars, Unreachable
<1>3. ASSUME NEW r \in Clips, SpliceEnds(r) PROVE Reasons'
  BY <1>0, <1>3, ReasonsStay DEF SpliceEnds, callerVars, stopVars, Unreachable
<1>4. ASSUME Receive PROVE Reasons'
  <2>0. UNCHANGED <<caller, published, error, handle>> /\ engine = "recv"
    BY <1>4 DEF Receive, RecvNothing, RecvDisconnected, RecvStop, RecvNote, RecvClip, HeadIs,
                callerVars, stopVars
  <2>1. CASE RecvNothing
    BY <1>0, <2>0, <2>1 DEF RecvNothing, Reasons, ReasonToFinish, DroppedForAReason
  <2>2. CASE RecvDisconnected
    <3>1. Unreachable' /\ UNCHANGED <<reply, commands>>
      BY <2>0, <2>2 DEF RecvDisconnected, Unreachable
    <3>2. QED
      BY <1>0, <2>0, <2>2, <3>1 DEF RecvDisconnected, Reasons, ReasonToFinish, DroppedForAReason
  <2>3. ASSUME RecvStop \/ (\E r \in Notes : RecvNote(r)) \/ (\E r \in Clips : RecvClip(r))
        PROVE  Reasons'
    <3>1. commands # <<>> /\ commands' = Tail(commands)
      BY <2>3 DEF RecvStop, RecvNote, RecvClip, HeadIs
    <3>2. (\E i \in DOMAIN commands' : commands'[i] = StopCommand) => handle = "taken"
      BY <1>0, <3>1, PopHead DEF Reasons, ReasonToFinish
    <3>3. RecvStop => handle = "taken"
      <4>1. Head(commands) = commands[1] /\ 1 \in DOMAIN commands
        BY <1>0, <3>1, TailOfQueue DEF Typed
      <4>2. QED
        BY <1>0, <4>1 DEF RecvStop, HeadIs, Reasons, ReasonToFinish
    <3>4. engine' \in {"advance", "waiting"} \/ (engine' = "finishing" /\ handle = "taken")
      BY <2>3, <3>3 DEF RecvStop, RecvNote, RecvClip
    <3>5. \A q \in Requests : reply'[q] = "dropped" => reply[q] = "dropped"
      BY <1>0, <2>3 DEF RecvStop, RecvNote, RecvClip, Typed
    <3>6. DroppedForAReason'
      BY <1>0, <2>0, <3>5 DEF Reasons, DroppedForAReason
    <3>7. QED
      BY <2>0, <3>2, <3>4, <3>6 DEF Reasons, ReasonToFinish
  <2>4. QED
    BY <1>4, <2>1, <2>2, <2>3 DEF Receive
<1>5. ASSUME ServeClip \/ AdvanceClips \/ Pump PROVE Reasons'
  <2>1. /\ UNCHANGED <<commands, error, handle>>
        /\ engine' \in {"waiting", "advance", "pump", "recv"} /\ engine # "panicked"
    BY <1>5 DEF ServeClip, WaitPumps, SpawnSplice, TakeClipFails, AdvanceClips, Pump, stopVars
  <2>2. \A q \in Requests : reply'[q] = "dropped" => reply[q] = "dropped"
    BY <1>0, <1>5 DEF ServeClip, WaitPumps, SpawnSplice, TakeClipFails, AdvanceClips, Pump, FinishClip,
                      Outcome, Typed
  <2>3. QED
    BY <1>0, <2>1, <2>2 DEF Reasons, ReasonToFinish, DroppedForAReason
<1>6. ASSUME LoopFails PROVE Reasons'
  BY <1>0, <1>6 DEF LoopFails, Reasons, ReasonToFinish, DroppedForAReason, stopVars
<1>7. ASSUME FinishPendingClips PROVE Reasons'
  <2>1. /\ UNCHANGED <<caller, published, commands, error, handle>>
        /\ engine = "finishing" /\ engine' \in {"finishing", "shutdown"}
    BY <1>7 DEF FinishPendingClips, callerVars, stopVars
  <2>2. \A q \in Requests : reply'[q] = "dropped" => reply[q] = "dropped"
    BY <1>0, <1>7 DEF FinishPendingClips, FinishClip, Outcome, Typed
  <2>3. QED
    BY <1>0, <2>1, <2>2 DEF Reasons, ReasonToFinish, DroppedForAReason, Unreachable
<1>8. ASSUME Shutdown PROVE Reasons'
  <2>1. /\ engine = "shutdown" /\ engine' = "ended" /\ commands' = <<>> /\ UNCHANGED handle
        /\ error # "none" => error' # "none"
    BY <1>8 DEF Shutdown, stopVars
  <2>2. \A q \in Requests : reply'[q] = "dropped" => reply[q] = "dropped" \/ Queued(q)
    BY <1>8 DEF Shutdown, DropReplies
  <2>3. ~Unreachable => error # "none" \/ handle = "taken"
    BY <1>0, <2>1 DEF Reasons, ReasonToFinish
  <2>4. (\E q \in Requests : Queued(q)) => ~Unreachable
    BY DEF Queued, Unreachable
  <2>5. QED
    BY <1>0, <2>1, <2>2, <2>3, <2>4 DEF Reasons, ReasonToFinish, DroppedForAReason
<1>9. ASSUME EnginePanics PROVE Reasons'
  BY <1>9 DEF EnginePanics, Reasons, ReasonToFinish, DroppedForAReason
<1>10. ASSUME Supervisor PROVE Reasons'
  BY <1>0, <1>10, ReasonsStay DEF Supervisor, SupervisorHangsUp, SupervisorJoins, callerVars, Unreachable
<1>11. ASSUME NEW s \in Stoppers, Stop(s) PROVE Reasons'
  <2>1. ASSUME StopSupervisor(s) \/ SupervisorStopped(s) \/ StopJoins(s) \/ StopReturns(s)
        PROVE  Reasons'
    BY <1>0, <2>1, ReasonsStay DEF StopSupervisor, SupervisorStopped, StopJoins, StopReturns, callerVars,
                              Unreachable
  <2>2. ASSUME StopThread(s) PROVE Reasons'
    <3>1. /\ UNCHANGED <<caller, reply, published, engine, error>>
          /\ handle = "taken" => handle' = "taken"
      BY <2>2 DEF StopThread, callerVars
    <3>2. CASE UNCHANGED commands
      BY <1>0, <3>1, <3>2, ReasonsStay DEF Unreachable
    <3>3. CASE handle = "held" /\ published
      BY <1>0, <2>2, <3>1, <3>3 DEF StopThread, Reasons, ReasonToFinish, DroppedForAReason, Unreachable
    <3>4. QED
      BY <2>2, <3>2, <3>3 DEF StopThread
  <2>3. QED
    BY <1>11, <2>1, <2>2 DEF Stop
<1>12. ASSUME UNCHANGED vars PROVE Reasons'
  BY <1>0, <1>12, ReasonsStay DEF vars, callerVars, stopVars, Unreachable
<1>13. QED
  BY <1>1, <1>2, <1>3, <1>4, <1>5, <1>6, <1>7, <1>8, <1>9, <1>10, <1>11, <1>12
  DEF Next, Engine, Close

-----------------------------------------------------------------------------
(* The stops. *)
LEMMA StopsHold == IInv /\ [Next]_vars => StopsWait'
<1> SUFFICES ASSUME IInv PROVE [Next]_vars => StopsWait'
  OBVIOUS
<1>0. Typed /\ StopsWait
  BY DEF IInv
<1>1. ASSUME NEW r \in Requests, Call(r) PROVE StopsWait'
  BY <1>0, <1>1, StopsStay DEF Call, Ask, Send, Hear, TimeOut, stopVars, Ended
<1>2. ASSUME FragmentArrives PROVE StopsWait'
  BY <1>0, <1>2, StopsStay DEF FragmentArrives, stopVars, Ended
<1>3. ASSUME NEW r \in Clips, SpliceEnds(r) PROVE StopsWait'
  BY <1>0, <1>3, StopsStay DEF SpliceEnds, stopVars, Ended
<1>4. ASSUME Receive PROVE StopsWait'
  BY <1>0, <1>4, StopsStay DEF Receive, RecvNothing, RecvDisconnected, RecvStop, RecvNote, RecvClip,
                               HeadIs, stopVars, Ended
<1>5. ASSUME ServeClip \/ AdvanceClips \/ Pump \/ LoopFails PROVE StopsWait'
  BY <1>0, <1>5, StopsStay DEF ServeClip, WaitPumps, SpawnSplice, TakeClipFails, AdvanceClips, Pump,
                               LoopFails, stopVars, Ended
<1>6. ASSUME Close \/ EnginePanics PROVE StopsWait'
  BY <1>0, <1>6, StopsStay DEF Close, FinishPendingClips, Shutdown, EnginePanics, stopVars, Ended
<1>7. ASSUME Supervisor PROVE StopsWait'
  BY <1>0, <1>7, StopsStay DEF Supervisor, SupervisorHangsUp, SupervisorJoins, Ended
<1>8. ASSUME NEW s \in Stoppers, Stop(s) PROVE StopsWait'
  <2>1. ASSUME NEW q \in Stoppers, q # s PROVE stopper'[q] = stopper[q]
    BY <1>0, <1>8, <2>1 DEF Stop, StopSupervisor, SupervisorStopped, StopThread, StopJoins, StopReturns, Typed
  <2>2. NoOne \notin Stoppers /\ Ended' = Ended
    BY <1>8, EngineAssumption DEF Stop, StopSupervisor, SupervisorStopped, StopThread, StopJoins, StopReturns, Ended
  <2>3. ASSUME StopSupervisor(s) \/ SupervisorStopped(s) PROVE StopsWait'
    <3>1. /\ UNCHANGED <<handle, threadLock>>
          /\ stopper[s] \in {"idle", "shutting"} /\ stopper'[s] \in {"shutting", "locking"}
      BY <1>0, <2>3 DEF StopSupervisor, SupervisorStopped, Typed
    <3>2. QED
      BY <1>0, <2>1, <2>2, <3>1 DEF StopsWait, StopsTakeTurns, TakenIsJoined
  <2>4. ASSUME StopThread(s) PROVE StopsWait'
    <3>1. /\ threadLock = NoOne /\ threadLock' = s /\ handle' # "held"
          /\ (handle = "never") <=> (handle' = "never")
          /\ stopper'[s] = IF handle = "held" THEN "joining" ELSE "clearing"
      BY <1>0, <2>4 DEF StopThread, Typed
    <3>2. \A q \in Stoppers : stopper[q] \notin {"joining", "clearing"}
      BY <1>0, <2>2, <3>1 DEF StopsWait, StopsTakeTurns
    <3>3. handle = "taken" => Ended
      BY <1>0, <2>2, <3>1 DEF StopsWait, TakenIsJoined
    <3>4. TakenIsJoined'
      BY <1>0, <2>2, <3>1, <3>3 DEF TakenIsJoined, Typed
    <3>5. StopsTakeTurns'
      BY <1>0, <2>1, <2>2, <3>1, <3>2, <3>3 DEF StopsWait, StopsTakeTurns, Typed
    <3>6. QED
      BY <3>4, <3>5 DEF StopsWait
  <2>5. ASSUME StopJoins(s) PROVE StopsWait'
    <3>1. /\ stopper[s] = "joining" /\ Ended /\ UNCHANGED handle
          /\ stopper'[s] \in {"clearing", "returned"}
          /\ stopper'[s] = "clearing" => threadLock' = threadLock
      BY <1>0, <2>5 DEF StopJoins, Typed
    <3>2. threadLock = s /\ handle # "held"
      BY <1>0, <3>1 DEF StopsWait, StopsTakeTurns
    <3>3. \A q \in Stoppers : q # s => stopper[q] \notin {"joining", "clearing"}
      BY <1>0, <3>2 DEF StopsWait, StopsTakeTurns
    <3>4. QED
      BY <1>0, <2>1, <2>2, <3>1, <3>2, <3>3 DEF StopsWait, StopsTakeTurns, TakenIsJoined
  <2>6. ASSUME StopReturns(s) PROVE StopsWait'
    <3>1. stopper[s] = "clearing" /\ UNCHANGED handle /\ stopper'[s] = "returned"
      BY <1>0, <2>6 DEF StopReturns, Typed
    <3>2. threadLock = s /\ handle # "held" /\ (handle # "never" => Ended)
      BY <1>0, <3>1 DEF StopsWait, StopsTakeTurns
    <3>3. \A q \in Stoppers : q # s => stopper[q] \notin {"joining", "clearing"}
      BY <1>0, <3>2 DEF StopsWait, StopsTakeTurns
    <3>4. QED
      BY <1>0, <2>1, <2>2, <3>1, <3>2, <3>3 DEF StopsWait, StopsTakeTurns, TakenIsJoined, Typed
  <2>7. QED
    BY <1>8, <2>3, <2>4, <2>5, <2>6 DEF Stop
<1>9. ASSUME UNCHANGED vars PROVE StopsWait'
  BY <1>0, <1>9, StopsStay DEF vars, stopVars, Ended
<1>10. QED
  BY <1>1, <1>2, <1>3, <1>4, <1>5, <1>6, <1>7, <1>8, <1>9 DEF Next, Engine, Close

-----------------------------------------------------------------------------
LEMMA InvHolds == Spec => [](Flags /\ IInv)
<1>1. Flags /\ IInv /\ [Next]_vars => (Flags /\ IInv)'
  BY FlagsHold, TypesHold, RequestsHold, ReasonsHold, StopsHold DEF IInv
<1>2. QED
  BY InitHolds, <1>1, PTL DEF Spec

(* Every variable of the engine, its callers and its stops keeps its type,  *)
(* and the engine waits for a post-roll exactly while it serves a clip.    *)
THEOREM EngineTypeOK == Spec => []TypeOK
<1>1. Flags /\ IInv => TypeOK
  BY Zenon, TypeParts DEF IInv
<1>2. QED
  BY <1>1, InvHolds, PTL

(* However the recording ends, every request it was sent has its answer or  *)
(* a dropped channel by then, and a game that merely ended drops none.      *)
THEOREM NoCallerIsForgotten == Spec => []NobodyIsForgotten
<1>1. IInv => NobodyWaitsOnADeadEngine
  BY DEF IInv, RequestsAreSomewhere, NothingIsMislaid, NobodyWaitsOnADeadEngine, Heard
<1>2. Flags /\ IInv => TypeOK
  BY Zenon, TypeParts DEF IInv
<1>3. IInv => DroppedForAReason
  BY DEF IInv, Reasons
<1>4. Flags /\ IInv => NobodyIsForgotten
  BY <1>1, <1>2, <1>3 DEF NobodyIsForgotten
<1>5. QED
  BY <1>4, InvHolds, PTL

(* A recording the Recorder started itself is over when any of its stops    *)
(* returns, whatever number of them race for its handle.                   *)
THEOREM AStopStops == Spec => []StopMeansStopped
<1>1. IInv => StopMeansStopped
  BY DEF IInv, StopsWait, StopsTakeTurns, StopMeansStopped
<1>2. QED
  BY <1>1, InvHolds, PTL

-----------------------------------------------------------------------------
(* The refinement.  What a ClipService sees of the callers and of the disk: *)
Seen == [r \in Requests |-> CASE caller[r] = "asked" -> "idle"
                              [] caller[r] = "sent" -> "waiting"
                              [] OTHER -> caller[r]]
Made == {r \in Clips : splice[r] = "written"}

LEMMA SeenIs ==
    ASSUME NEW r \in Requests
    PROVE  /\ caller[r] = "asked" => Seen[r] = "idle"
           /\ caller[r] = "sent" => Seen[r] = "waiting"
           /\ caller[r] \notin {"asked", "sent"} => Seen[r] = caller[r]
           /\ Heard(r) <=> Seen[r] \notin {"idle", "refused"}
BY DEF Seen, Heard

LEMMA SeenNext ==
    ASSUME NEW r \in Requests, NEW e, \A q \in Requests : q # r => caller'[q] = caller[q],
           caller'[r] = "asked" => e = "idle",
           caller'[r] = "sent" => e = "waiting",
           caller'[r] \notin {"asked", "sent"} => e = caller'[r]
    PROVE  Seen' = [Seen EXCEPT ![r] = e]
BY DEF Seen

(* The service's steps, read in the engine's variables. *)
LEMMA Stutters ==
    ASSUME UNCHANGED <<Seen, reply, Made, published>>, Ended' = Ended
    PROVE  UNCHANGED Service!serviceVars
BY DEF Service!serviceVars, Seen, Made

LEMMA ServiceAsks ==
    ASSUME NEW r \in Requests, Seen[r] = "idle", ~Ended, Seen' = [Seen EXCEPT ![r] = "waiting"],
           UNCHANGED <<reply, Made, published>>, Ended' = Ended
    PROVE  Service!ServiceNext
<1>1. Service!Asks(r)
  BY DEF Service!Asks, Seen, Made
<1>2. QED
  BY <1>1 DEF Service!ServiceNext, Service!Requests, Requests

LEMMA ServiceRefuses ==
    ASSUME NEW r \in Requests, Seen[r] = "idle", ~published \/ Ended,
           Seen' = [Seen EXCEPT ![r] = "refused"],
           UNCHANGED <<reply, Made, published>>, Ended' = Ended
    PROVE  Service!ServiceNext
<1>1. Service!IsRefused(r)
  BY DEF Service!IsRefused, Seen, Made
<1>2. QED
  BY <1>1 DEF Service!ServiceNext, Service!Requests, Requests

LEMMA ServiceHears ==
    ASSUME NEW r \in Requests, Seen[r] = "waiting",
           Seen' = [Seen EXCEPT ![r] = IF reply[r] = "none" THEN "timed out" ELSE reply[r]],
           UNCHANGED <<reply, Made, published>>, Ended' = Ended
    PROVE  Service!ServiceNext
<1>1. Service!Hears(r)
  BY DEF Service!Hears, Seen, Made
<1>2. QED
  BY <1>1 DEF Service!ServiceNext, Service!Requests, Requests

LEMMA ServiceWrites ==
    ASSUME NEW r \in Clips, Heard(r), r \notin Made, reply[r] \in {"none", "dropped"},
           Made' = Made \cup {r}, UNCHANGED <<caller, reply, published>>, Ended' = Ended
    PROVE  Service!ServiceNext
<1>1. Seen[r] \notin {"idle", "refused"} /\ Seen' = Seen
  BY SeenIs DEF Seen, Requests
<1>2. Service!Writes(r)
  BY <1>1 DEF Service!Writes, Service!Taken, Seen, Made
<1>3. QED
  BY <1>2 DEF Service!ServiceNext

LEMMA ServiceAnswers ==
    ASSUME NEW r \in Requests, Heard(r), reply[r] = "none", ~Ended,
           \/ (r \in Made \/ r \in Notes) /\ reply' = [reply EXCEPT ![r] = "ok"]
           \/ r \notin Made /\ reply' = [reply EXCEPT ![r] = "failed"],
           UNCHANGED <<caller, Made, published>>, Ended' = Ended
    PROVE  Service!ServiceNext
<1>1. Seen[r] \notin {"idle", "refused"} /\ Seen' = Seen
  BY SeenIs DEF Seen
<1>2. r \in Service!Unanswered
  BY <1>1 DEF Service!Unanswered, Service!Taken, Service!Requests, Seen, Requests
<1>3. Service!Answers(r)
  BY <1>1, <1>2 DEF Service!Answers, Seen, Made
<1>4. QED
  BY <1>3 DEF Service!ServiceNext, Service!Requests, Requests

LEMMA ServiceHangsUp ==
    ASSUME published, published' = FALSE, UNCHANGED <<caller, reply, splice>>, Ended' = Ended
    PROVE  Service!ServiceNext
<1>1. Service!HangsUp
  BY DEF Service!HangsUp
<1>2. QED
  BY <1>1 DEF Service!ServiceNext

LEMMA ServiceCloses ==
    ASSUME ~Ended, Ended', UNCHANGED <<caller, splice, published>>,
           reply' = [r \in Requests |-> IF Heard(r) /\ reply[r] = "none" THEN "dropped" ELSE reply[r]]
    PROVE  Service!ServiceNext
<1>1. \A r \in Requests : r \in Service!Unanswered <=> Heard(r) /\ reply[r] = "none"
  BY SeenIs DEF Service!Unanswered, Service!Taken, Service!Requests, Seen, Requests
<1>2. reply' = [r \in Service!Requests |-> IF r \in Service!Unanswered THEN "dropped" ELSE reply[r]]
  BY <1>1 DEF Service!Requests, Requests
<1>3. Service!Closes
  BY <1>2 DEF Service!Closes
<1>4. QED
  BY <1>3 DEF Service!ServiceNext

LEMMA StartsAsAService == Init => Service!ServiceInit
<1> SUFFICES ASSUME Init PROVE Service!ServiceInit
  OBVIOUS
<1>1. Seen = [r \in Requests |-> "idle"]
  BY DEF Init, Seen
<1>2. Made = {}
  BY DEF Init, Made
<1>3. published = TRUE /\ ~Ended
  BY DEF Init, Ended
<1>4. QED
  BY <1>1, <1>2, <1>3 DEF Init, Service!ServiceInit, Service!Requests, Requests, Seen, Made

(* Steps of the engine that its service does not see.                       *)
LEMMA Unseen ==
    ASSUME UNCHANGED <<caller, reply, splice, published>>, Ended' = Ended
    PROVE  UNCHANGED Service!serviceVars
BY Stutters DEF Seen, Made

LEMMA CallsAsAService ==
    ASSUME IInv, NEW r \in Requests, Call(r)
    PROVE  Service!ServiceNext \/ UNCHANGED Service!serviceVars
<1>0. Typed
  BY DEF IInv
<1>1. /\ UNCHANGED <<reply, splice, published, engine>>
      /\ \A q \in Requests : q # r => caller'[q] = caller[q]
  BY <1>0 DEF Call, Ask, Send, Hear, TimeOut, clipVars, Typed
<1>2. UNCHANGED Made /\ Ended' = Ended
  BY <1>1 DEF Made, Ended
<1>3. CASE Ask(r)
  <2>1. Seen[r] = "idle"
    BY <1>3, SeenIs DEF Ask
  <2>2. CASE published
    <3>1. caller'[r] = "asked"
      BY <1>0, <1>3, <2>2 DEF Ask, Typed
    <3>2. Seen' = [Seen EXCEPT ![r] = "idle"]
      BY <1>1, <3>1, SeenNext
    <3>3. Seen' = Seen
      BY <2>1, <3>2 DEF Seen
    <3>4. QED
      BY <1>1, <1>2, <3>3, Stutters
  <2>3. CASE ~published
    <3>1. caller'[r] = "refused"
      BY <1>0, <1>3, <2>3 DEF Ask, Typed
    <3>2. Seen' = [Seen EXCEPT ![r] = "refused"]
      BY <1>1, <3>1, SeenNext
    <3>3. QED
      BY <1>1, <1>2, <2>1, <2>3, <3>2, ServiceRefuses
  <2>4. QED
    BY <2>2, <2>3
<1>4. CASE Send(r)
  <2>1. Seen[r] = "idle"
    BY <1>4, SeenIs DEF Send
  <2>2. CASE Ended
    <3>1. caller'[r] = "refused"
      BY <1>0, <1>4, <2>2 DEF Send, Typed
    <3>2. Seen' = [Seen EXCEPT ![r] = "refused"]
      BY <1>1, <3>1, SeenNext
    <3>3. QED
      BY <1>1, <1>2, <2>1, <2>2, <3>2, ServiceRefuses
  <2>3. CASE ~Ended
    <3>1. caller'[r] = "sent"
      BY <1>0, <1>4, <2>3 DEF Send, Typed
    <3>2. Seen' = [Seen EXCEPT ![r] = "waiting"]
      BY <1>1, <3>1, SeenNext
    <3>3. QED
      BY <1>1, <1>2, <2>1, <2>3, <3>2, ServiceAsks
  <2>4. QED
    BY <2>2, <2>3
<1>5. CASE Hear(r)
  <2>1. Seen[r] = "waiting" /\ reply[r] # "none"
    BY <1>5, SeenIs DEF Hear
  <2>2. caller'[r] = reply[r] /\ reply[r] \notin {"asked", "sent"}
    BY <1>0, <1>5 DEF Hear, Typed, Replies
  <2>3. Seen' = [Seen EXCEPT ![r] = reply[r]]
    BY <1>1, <2>2, SeenNext
  <2>4. QED
    BY <1>1, <1>2, <2>1, <2>3, ServiceHears
<1>6. CASE TimeOut(r)
  <2>1. Seen[r] = "waiting" /\ reply[r] = "none"
    BY <1>6, SeenIs DEF TimeOut
  <2>2. caller'[r] = "timed out"
    BY <1>0, <1>6 DEF TimeOut, Typed
  <2>3. Seen' = [Seen EXCEPT ![r] = "timed out"]
    BY <1>1, <2>2, SeenNext
  <2>4. QED
    BY <1>1, <1>2, <2>1, <2>3, ServiceHears
<1>7. QED
  BY <1>3, <1>4, <1>5, <1>6 DEF Call

LEMMA SplicesAsAService ==
    ASSUME IInv, NEW r \in Clips, SpliceEnds(r)
    PROVE  Service!ServiceNext \/ UNCHANGED Service!serviceVars
<1>1. /\ UNCHANGED <<caller, reply, published, engine>> /\ Ended' = Ended
      /\ splice[r] = "running"
      /\ splice' \in {[splice EXCEPT ![r] = "written"], [splice EXCEPT ![r] = "failed"]}
  BY DEF SpliceEnds, callerVars, Ended
<1>2. /\ r \in Requests /\ Heard(r) /\ r \notin Made
      /\ reply[r] \in {"none", "dropped"}
  BY <1>1 DEF IInv, Typed, RequestsAreSomewhere, SplicedWereHeard, PendingWait, Made, Requests
<1>3. CASE splice' = [splice EXCEPT ![r] = "written"]
  <2>1. Made' = Made \cup {r}
    BY <1>3 DEF Made, IInv, Typed
  <2>2. QED
    BY <1>1, <1>2, <2>1, ServiceWrites
<1>4. CASE splice' = [splice EXCEPT ![r] = "failed"]
  <2>1. Made' = Made /\ Seen' = Seen
    BY <1>1, <1>4 DEF Made, Seen, IInv, Typed
  <2>2. QED
    BY <1>1, <2>1, Stutters
<1>5. QED
  BY <1>1, <1>3, <1>4

LEMMA FinishesAsAService ==
    ASSUME IInv, NEW r \in pending, Spliced(r), FinishClip(r), ~Ended,
           UNCHANGED <<caller, published>>, Ended' = Ended
    PROVE  Service!ServiceNext
<1>1. /\ r \in Clips /\ r \in Requests /\ Heard(r) /\ reply[r] = "none"
      /\ UNCHANGED splice /\ UNCHANGED Made
  BY DEF IInv, Typed, RequestsAreSomewhere, PendingWait, FinishClip, Made, Requests
<1>2. \/ r \in Made /\ reply' = [reply EXCEPT ![r] = "ok"]
      \/ r \notin Made /\ reply' = [reply EXCEPT ![r] = "failed"]
  BY <1>1 DEF FinishClip, Outcome, Made
<1>3. QED
  BY <1>1, <1>2, ServiceAnswers

LEMMA EndsAsAService ==
    ASSUME IInv, ~Ended, Ended', UNCHANGED <<caller, splice, published>>,
           DropReplies({r \in Requests : Queued(r) \/ r \in pending \/ r = taking})
    PROVE  Service!ServiceNext
<1>1. \A r \in Requests :
         reply[r] = "none" => (Heard(r) <=> Queued(r) \/ r \in pending \/ r = taking)
  BY EngineAssumption DEF IInv, RequestsAreSomewhere, NothingIsMislaid, QueuedWait, PendingWait,
     TakenWaits, Waits, Queued
<1>2. reply' = [r \in Requests |-> IF Heard(r) /\ reply[r] = "none" THEN "dropped" ELSE reply[r]]
  BY <1>1 DEF DropReplies
<1>3. QED
  BY <1>2, ServiceCloses

LEMMA LoopsAsAService ==
    ASSUME IInv, Engine \/ EnginePanics
    PROVE  Service!ServiceNext \/ UNCHANGED Service!serviceVars
<1>0. Typed /\ RequestsAreSomewhere
  BY DEF IInv
<1>1. ASSUME RecvNothing \/ RecvDisconnected \/ RecvStop \/ (\E r \in Clips : RecvClip(r))
      PROVE  UNCHANGED Service!serviceVars
  BY <1>1, Unseen DEF RecvNothing, RecvDisconnected, RecvStop, RecvClip, HeadIs, callerVars, clipVars, Ended
<1>2. ASSUME NEW r \in Notes, RecvNote(r) PROVE Service!ServiceNext
  <2>1. /\ UNCHANGED <<caller, published, splice>> /\ ~Ended /\ Ended' = Ended
        /\ commands # <<>> /\ Head(commands) = r /\ commands' = Tail(commands)
        /\ r \in Requests /\ r \notin Clips
    BY <1>2, EngineAssumption DEF RecvNote, HeadIs, callerVars, clipVars, Ended, Requests
  <2>2. Heard(r) /\ reply[r] = "none"
    BY <1>0, <2>1, PopHead DEF Waits
  <2>3. r \notin Made /\ UNCHANGED Made
    BY <2>1 DEF Made
  <2>4. \/ reply' = [reply EXCEPT ![r] = "ok"]
        \/ reply' = [reply EXCEPT ![r] = "failed"]
    BY <1>2 DEF RecvNote
  <2>5. QED
    BY <2>1, <2>2, <2>3, <2>4, ServiceAnswers
<1>3. ASSUME WaitPumps \/ Pump \/ LoopFails PROVE UNCHANGED Service!serviceVars
  BY <1>3, Unseen DEF WaitPumps, Pump, LoopFails, callerVars, clipVars, Ended
<1>4. ASSUME SpawnSplice PROVE UNCHANGED Service!serviceVars
  <2>1. taking \in Clips /\ splice[taking] = "none" /\ UNCHANGED <<caller, reply, published>> /\ Ended' = Ended
    BY <1>0, <1>4 DEF SpawnSplice, callerVars, Typed, RequestsAreSomewhere, TakenWaits, Waits, Ended
  <2>2. Made' = Made /\ Seen' = Seen
    BY <1>0, <1>4, <2>1 DEF SpawnSplice, Made, Seen, Typed
  <2>3. QED
    BY <2>1, <2>2, Stutters
<1>5. ASSUME TakeClipFails PROVE Service!ServiceNext
  <2>1. /\ UNCHANGED <<caller, published, splice>> /\ ~Ended /\ Ended' = Ended
        /\ taking \in Clips /\ taking \in Requests
        /\ reply' = [reply EXCEPT ![taking] = "failed"]
    BY <1>0, <1>5 DEF TakeClipFails, callerVars, clipVars, Ended, Typed, Requests
  <2>2. /\ Heard(taking) /\ reply[taking] = "none" /\ taking \notin Made /\ UNCHANGED Made
    BY <1>0, <2>1, EngineAssumption DEF RequestsAreSomewhere, TakenWaits, Waits, Made, Requests
  <2>3. QED
    BY <2>1, <2>2, ServiceAnswers
<1>6. ASSUME AdvanceClips PROVE Service!ServiceNext \/ UNCHANGED Service!serviceVars
  <2>1. UNCHANGED <<caller, published>> /\ ~Ended /\ Ended' = Ended
    BY <1>6 DEF AdvanceClips, callerVars, Ended
  <2>2. CASE UNCHANGED <<reply, clipVars>>
    BY <2>1, <2>2, Unseen DEF clipVars
  <2>3. ASSUME NEW r \in pending, Spliced(r), FinishClip(r) PROVE Service!ServiceNext
    BY <2>1, <2>3, FinishesAsAService
  <2>4. QED
    BY <1>6, <2>2, <2>3 DEF AdvanceClips
<1>7. ASSUME FinishPendingClips PROVE Service!ServiceNext \/ UNCHANGED Service!serviceVars
  <2>1. UNCHANGED <<caller, published>> /\ ~Ended /\ Ended' = Ended
    BY <1>7 DEF FinishPendingClips, callerVars, Ended
  <2>2. CASE UNCHANGED <<reply, clipVars>>
    BY <2>1, <2>2, Unseen DEF clipVars
  <2>3. ASSUME NEW r \in pending, Spliced(r), FinishClip(r) PROVE Service!ServiceNext
    BY <2>1, <2>3, FinishesAsAService
  <2>4. QED
    BY <1>7, <2>2, <2>3 DEF FinishPendingClips
<1>8. ASSUME Shutdown PROVE Service!ServiceNext
  <2>1. /\ pending = {} /\ taking = NoOne /\ ~Ended /\ Ended'
        /\ UNCHANGED <<caller, splice, published>>
    BY <1>0, <1>8 DEF Shutdown, callerVars, clipVars, Ended, Typed, RequestsAreSomewhere, EndedIsEmpty
  <2>2. {r \in Requests : Queued(r)} = {r \in Requests : Queued(r) \/ r \in pending \/ r = taking}
    BY <2>1, EngineAssumption
  <2>3. DropReplies({r \in Requests : Queued(r) \/ r \in pending \/ r = taking})
    BY <1>8, <2>2 DEF Shutdown
  <2>4. QED
    BY <2>1, <2>3, EndsAsAService
<1>9. ASSUME EnginePanics PROVE Service!ServiceNext
  BY <1>9, EndsAsAService DEF EnginePanics, callerVars, Ended
<1>10. QED
  BY <1>1, <1>2, <1>3, <1>4, <1>5, <1>6, <1>7, <1>8, <1>9 DEF Engine, Receive, ServeClip, Close

LEMMA StepsAsAService ==
    Flags /\ IInv /\ [Next]_vars => [Service!ServiceNext]_(Service!serviceVars)
<1> SUFFICES ASSUME Flags, IInv PROVE [Next]_vars => Service!ServiceNext \/ UNCHANGED Service!serviceVars
  OBVIOUS
<1>1. ASSUME FragmentArrives \/ SupervisorJoins PROVE UNCHANGED Service!serviceVars
  BY <1>1, Unseen DEF FragmentArrives, SupervisorJoins, callerVars, clipVars, Ended
<1>2. ASSUME NEW s \in Stoppers,
             StopSupervisor(s) \/ SupervisorStopped(s) \/ StopThread(s) \/ StopJoins(s)
      PROVE  UNCHANGED Service!serviceVars
  BY <1>2, Unseen DEF StopSupervisor, SupervisorStopped, StopThread, StopJoins, callerVars, clipVars, Ended
<1>3. ASSUME SupervisorHangsUp \/ (\E s \in Stoppers : StopReturns(s))
      PROVE  Service!ServiceNext \/ UNCHANGED Service!serviceVars
  <2>1. published' = FALSE /\ UNCHANGED <<caller, reply, splice>> /\ Ended' = Ended
    BY <1>3 DEF SupervisorHangsUp, StopReturns, callerVars, clipVars, Ended
  <2>2. CASE published
    BY <2>1, <2>2, ServiceHangsUp
  <2>3. CASE ~published
    <3>1. published' = published
      BY Zenon, <2>1, <2>3 DEF Flags
    <3>2. QED
      BY <2>1, <3>1, Unseen
  <2>4. QED
    BY <2>2, <2>3
<1>4. ASSUME UNCHANGED vars PROVE UNCHANGED Service!serviceVars
  BY <1>4, Unseen DEF vars, callerVars, clipVars, Ended
<1>5. QED
  BY <1>1, <1>2, <1>3, <1>4, CallsAsAService, SplicesAsAService, LoopsAsAService
  DEF Next, Supervisor, Stop

(* The engine keeps what a ClipService promises: one answer to each request, *)
(* the clip only when its file exists, a failure only when there is none.  *)
THEOREM EngineIsAClipService == Spec => IsAClipService
<1>1. QED
  BY StartsAsAService, StepsAsAService, InvHolds, PTL DEF Spec, IsAClipService, Service!ServiceSpec
=============================================================================
