---------------------------- MODULE GsiListener ----------------------------
(***************************************************************************)
(* The Game State Integration listener (crates/events/src/gsi.rs, gsi/):   *)
(* games POST their state, the accept loop hands each connection to a      *)
(* reader through a bounded queue, and the readers fold the documents, in  *)
(* the order they were accepted, into one tracker.                         *)
(*                                                                         *)
(* A scoreboard is one number (kills stand for deaths and assists), the    *)
(* bomb is down or not, a round is live or over.  `made` and `reported`    *)
(* are history.                                                            *)
(***************************************************************************)
EXTENDS EventSink, FiniteSets, SequencesExt

CONSTANTS
    Games,        \* the games served, each on its own path
    Players,      \* whose scoreboard a document can show
    Workers,      \* WORKERS
    MaxQueued     \* MAX_QUEUED

ASSUME GsiAssumption ==
    /\ Workers \in Nat \ {0}
    /\ MaxQueued \in Nat
    /\ "none" \notin Players \cup Games

VARIABLES
    match,        \* per game, what it would POST now
    waiting,      \* per game, the request it waits for (0: none)
    seq,          \* how many were accepted
    queue,        \* accepted, in front of the readers
    reading,      \* the connections the readers have
    returned,     \* how many readers have returned
    last_seq,     \* the last one folded
    baseline,     \* the tracker, and what it compares with
    serving,      \* the accept loop runs
    gsiStop,      \* the stop flag
    made,         \* per game and player, the kills since the listener is up
    reported      \* per game and player, the kills reported

worldVars == <<match, made>>
listenVars == <<waiting, seq, queue, reading, returned, last_seq, baseline,
                serving, gsiStop, reported>>
gsiVars == <<worldVars, listenVars>>

Nobody == "none"
Documents ==
    [game : Games, playing : BOOLEAN, player : Players \cup {Nobody},
     kills : Nat, round : Nat, over : BOOLEAN, planted : BOOLEAN]
Jobs == [seq : 1..MaxTurns, doc : Documents]
Baselines ==
    [in_game : BOOLEAN, game : Games \cup {Nobody}, player : Players \cup {Nobody},
     kills : Nat, round : Nat, over : BOOLEAN, planted : BOOLEAN]

NoMatch == [playing |-> FALSE, view |-> Nobody, kills |-> [p \in Players |-> 0],
            round |-> 0, over |-> FALSE, planted |-> FALSE]
Match(p) == [NoMatch EXCEPT !.playing = TRUE, !.view = p, !.round = 1]
UnderWay(p) == [Match(p) EXCEPT !.kills = [q \in Players |-> IF q = p THEN 0 ELSE 1]]
NoBaseline == [in_game |-> FALSE, game |-> Nobody, player |-> Nobody,
               kills |-> 0, round |-> 0, over |-> FALSE, planted |-> FALSE]

GsiTypes ==
    /\ waiting \in [Games -> 0..MaxTurns]
    /\ seq \in 0..MaxTurns
    /\ queue \in Seq(Jobs) /\ Len(queue) <= MaxQueued
    /\ reading \subseteq Jobs /\ returned \in 0..Workers
    /\ Cardinality(reading) + returned <= Workers
    /\ last_seq \in 0..seq
    /\ baseline \in Baselines
    /\ serving \in BOOLEAN /\ gsiStop \in BOOLEAN
    /\ made \in [Games -> [Players -> Nat]]
    /\ reported \in [Games -> [Players -> Nat]]

GsiInit(enabled) ==
    /\ match \in [Games -> {NoMatch} \cup UNION {{Match(p), UnderWay(p)} : p \in Players}]
    /\ waiting = [g \in Games |-> 0]
    /\ seq = 0
    /\ queue = <<>>
    /\ reading = {}
    /\ returned = IF enabled THEN 0 ELSE Workers
    /\ last_seq = 0
    /\ baseline = NoBaseline
    /\ serving = enabled
    /\ gsiStop = FALSE
    /\ made = [g \in Games |-> [p \in Players |-> 0]]
    /\ reported = [g \in Games |-> [p \in Players |-> 0]]

----------------------------------------------------------------------------
(* The games.  They are outside the repository: gsi/payload.rs reads what  *)
(* they send.                                                               *)

\* What a game does when nobody listens is not followed.
Plays(g, next) ==
    /\ serving
    /\ match' = [match EXCEPT ![g] = next]
    /\ TakesATurn
    /\ UNCHANGED <<listenVars, channel, closing, now>>

MatchStarts(g) ==
    /\ ~match[g].playing
    /\ \E p \in Players : Plays(g, Match(p))
    /\ UNCHANGED made

Kill(g, p) ==
    /\ match[g].playing
    /\ Plays(g, [match[g] EXCEPT !.kills[p] = @ + 1])
    /\ made' = [made EXCEPT ![g][p] = @ + 1]

\* The bomb goes down, a round ends, the next one begins, the view changes
\* to another player, or the match ends.
MatchMoves(g) ==
    /\ match[g].playing
    /\ \/ ~match[g].planted /\ Plays(g, [match[g] EXCEPT !.planted = TRUE])
       \/ ~match[g].over /\ Plays(g, [match[g] EXCEPT !.over = TRUE])
       \/ match[g].over /\ Plays(g, [match[g] EXCEPT !.over = FALSE, !.planted = FALSE,
                                                     !.round = @ + 1])
       \/ \E p \in (Players \cup {Nobody}) \ {match[g].view} :
              Plays(g, [match[g] EXCEPT !.view = p])
       \/ Plays(g, [match[g] EXCEPT !.playing = FALSE])
    /\ UNCHANGED made

Document(g) ==
    [game |-> g, playing |-> match[g].playing, player |-> match[g].view,
     kills |-> IF match[g].view = Nobody THEN 0 ELSE match[g].kills[match[g].view],
     round |-> match[g].round, over |-> match[g].over, planted |-> match[g].planted]

\* It stops waiting: the next POST can be made while this one is served.
GivesUp(g) ==
    /\ waiting[g] # 0
    /\ waiting' = [waiting EXCEPT ![g] = 0]
    /\ GoesWrong
    /\ UNCHANGED <<worldVars, seq, queue, reading, returned, last_seq,
                   baseline, serving, gsiStop, reported, channel, closing, now>>

\* The connections of these jobs are answered, or closed without an answer.
Closed(jobs) ==
    waiting' = [g \in Games |-> IF waiting[g] \in {j.seq : j \in jobs} THEN 0 ELSE waiting[g]]

----------------------------------------------------------------------------
(* The accept loop.  A change, or a heartbeat: a game POSTs its document    *)
(* and waits for the answer; connections are accepted in that order.        *)

Posts(g) == serving /\ waiting[g] = 0

\* The limiter's window is full: 429, unread, and without a number.
TurnsAway(g) ==
    /\ Posts(g)
    /\ TakesATurn
    /\ UNCHANGED <<gsiVars, channel, closing, now>>

HasRoom == Len(queue) < MaxQueued

\* A connection gets its number whether there is room for it or not.
Accepts(g) ==
    /\ Posts(g)
    /\ seq' = seq + 1
    /\ \/ /\ HasRoom
          /\ queue' = Append(queue, [seq |-> seq', doc |-> Document(g)])
          /\ waiting' = [waiting EXCEPT ![g] = seq']
       \/ /\ ~HasRoom
          /\ UNCHANGED <<queue, waiting>>
    /\ TakesATurn
    /\ UNCHANGED <<worldVars, reading, returned, last_seq, baseline, serving, gsiStop,
                   reported, channel, closing, now>>

\* The handle is dropped: the flag first, then the join.
ListenerToldToStop ==
    /\ closing = "gsi"
    /\ ~gsiStop
    /\ gsiStop' = TRUE
    /\ NoTurn
    /\ UNCHANGED <<worldVars, waiting, seq, queue, reading, returned, last_seq,
                   baseline, serving, reported, channel, closing, now>>

\* The loop ends: the socket is closed and the queue has no sender.
LoopEnds ==
    /\ serving /\ gsiStop
    /\ serving' = FALSE
    /\ NoTurn
    /\ UNCHANGED <<worldVars, waiting, seq, queue, reading, returned, last_seq, baseline, gsiStop,
                   reported, channel, closing, now>>

----------------------------------------------------------------------------
(* The readers.                                                             *)

HasIdleReader == Cardinality(reading) + returned < Workers
ReadersLeft   == returned = Workers

\* Mutant of SenderDropped: every reader keeps a sender to its own queue.
SenderDroppedByReaders == ~serving /\ ReadersLeft

\* The accept loop had the only sender.
SenderDropped == ~serving

\* The queue is empty, and nothing can be put into it.
ReaderLeaves ==
    /\ HasIdleReader
    /\ queue = <<>> /\ SenderDropped
    /\ returned' = returned + 1
    /\ NoTurn
    /\ UNCHANGED <<worldVars, waiting, seq, queue, reading, last_seq, baseline,
                   serving, gsiStop, reported, channel, closing, now>>

\* A connection is taken; one taken after the flag is closed unserved.
Takes ==
    /\ HasIdleReader
    /\ queue # <<>>
    /\ queue' = Tail(queue)
    /\ IF gsiStop
       THEN returned' = returned + 1 /\ Closed({Head(queue)}) /\ UNCHANGED reading
       ELSE reading' = reading \cup {Head(queue)} /\ UNCHANGED <<returned, waiting>>
    /\ NoTurn
    /\ UNCHANGED <<worldVars, seq, last_seq, baseline,
                   serving, gsiStop, reported, channel, closing, now>>

\* The queue is dropped after the readers, with what they left in it.
QueueDropped ==
    /\ ~serving /\ ReadersLeft
    /\ queue # <<>>
    /\ queue' = <<>>
    /\ Closed(ToSet(queue))
    /\ NoTurn
    /\ UNCHANGED <<worldVars, seq, reading, returned, last_seq, baseline,
                   serving, gsiStop, reported, channel, closing, now>>

\* A reader is done with this connection.
Ends(job) == reading' = reading \ {job} /\ Closed({job}) /\ UNCHANGED returned

\* The request did not arrive in time, or is not one: 400, 403 or 404.
Refuses(job) ==
    /\ Ends(job)
    /\ GoesWrong
    /\ UNCHANGED <<worldVars, seq, queue, last_seq, baseline,
                   serving, gsiStop, reported, channel, closing, now>>

\* Mutant of IsLate: documents are folded in the order they are read.
IsNeverLate(job) == FALSE

\* The tracker was given a later one: the connection is closed unanswered.
IsLate(job) == job.seq <= last_seq

DropsLate(job) ==
    /\ IsLate(job)
    /\ Ends(job)
    /\ NoTurn
    /\ UNCHANGED <<worldVars, seq, queue, last_seq, baseline,
                   serving, gsiStop, reported, channel, closing, now>>

----------------------------------------------------------------------------
(* The tracker.                                                             *)

Moment(kind, size) == Event("gsi", kind, <<0, size>>)
OneIf(condition, event) == IF condition THEN <<event>> ELSE <<>>

\* A scoreboard is compared with the same player's.
SamePlayer(doc) == doc.player # Nobody /\ doc.player = baseline.player

Jump(doc) == IF SamePlayer(doc) /\ doc.kills > baseline.kills
             THEN doc.kills - baseline.kills ELSE 0

\* Transitions, not values: a document that repeats the state says nothing.
Deltas(doc) ==
       OneIf(Jump(doc) > 0, Moment("Highlight", Jump(doc)))
    \o OneIf(doc.game = "cs2" /\ doc.round > baseline.round, Moment("Marker", 0))
    \o OneIf(doc.game = "cs2" /\ doc.over /\ ~baseline.over, Moment("Marker", 0))
    \o OneIf(doc.game = "cs2" /\ doc.planted /\ ~baseline.planted, Moment("Highlight", 0))

Baseline(doc) ==
    [in_game |-> TRUE, game |-> doc.game, player |-> doc.player, kills |-> doc.kills,
     round |-> doc.round, over |-> doc.over, planted |-> doc.planted]

\* What one document says: a game left, a game entered, or what changed.
Observed(doc) ==
    IF ~doc.playing THEN OneIf(baseline.in_game, Moment("GameEnd", 0))
    ELSE IF ~baseline.in_game \/ baseline.game # doc.game THEN <<Moment("GameStart", 0)>>
    ELSE Deltas(doc)

Counted(doc) ==
    IF doc.playing /\ baseline.in_game /\ baseline.game = doc.game THEN Jump(doc) ELSE 0

\* The fold, the sending and the lock are one; the answer comes after it.  A
\* receiver that is gone stops the listener, and this peer gets no answer.
Folds(job) ==
    LET doc == job.doc
    IN  /\ ~IsLate(job)
        /\ last_seq' = job.seq
        /\ baseline' = IF doc.playing THEN Baseline(doc)
                       ELSE IF baseline.in_game THEN NoBaseline ELSE baseline
        /\ reported' = IF Counted(doc) = 0 THEN reported
                       ELSE [reported EXCEPT ![doc.game][doc.player] = @ + Counted(doc)]
        /\ Send(Observed(doc))
        /\ gsiStop' = (gsiStop \/ SendFails(Observed(doc)))
        /\ Ends(job)
        /\ NoTurn
        /\ UNCHANGED <<worldVars, seq, queue, serving, closing, now>>

GamesMove ==
    \E g \in Games :
        \/ MatchStarts(g) \/ MatchMoves(g) \/ TurnsAway(g) \/ Accepts(g) \/ GivesUp(g)
        \/ \E p \in Players : Kill(g, p)

\* Mutant of Answers: a late document leaves its connection open.
AnswersInOrderOnly(job) == Folds(job)

Answers(job) == DropsLate(job) \/ Folds(job)

LoopStep     == ListenerToldToStop \/ LoopEnds \/ ReaderLeaves \/ Takes \/ QueueDropped
ListenerStep == LoopStep \/ \E job \in reading : Answers(job) \/ Refuses(job)
=============================================================================
