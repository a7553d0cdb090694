-------------------------- MODULE GameEventsProofs --------------------------
(* What the game events of a recorder promise, proved for any number of      *)
(* games, players and readers, any queue and any length of a burst: a line   *)
(* of League's log is reported once and only if the tracker watched it       *)
(* come, no scoreboard's kill is made up or counted twice, and the moment a  *)
(* burst is about is never further back than a burst may reach.              *)
EXTENDS GameEvents, SequenceTheorems, FiniteSetTheorems, TLAPS

-----------------------------------------------------------------------------
(* League's log.                                                             *)

\* The client serves the last game it opened, or none; what was reported of
\* that game is in its log.
LogIsOfTheGame ==
    /\ client.game \in {0, played} /\ attached.game <= played
    /\ \A e \in delivered : e[1] <= played /\ (e[1] = client.game => e[2] \in DOMAIN client.log)

\* The tracker has seen what was there when it attached, and what it reported.
SeenIsKept ==
    tracker.in_game =>
        /\ attached.game # 0 /\ attached.lines \subseteq tracker.seen
        /\ \A e \in delivered : e[1] = client.game => e[2] \in tracker.seen

\* While the game it attached to is on, what it has seen of the log it has
\* reported, or it was there before.
SeenIsReported ==
    tracker.in_game /\ client.game = attached.game =>
        /\ tracker.seen \subseteq DOMAIN client.log
        /\ \A k \in Highlights(client.log) :
               k \in tracker.seen => <<client.game, k>> \in delivered \/ k \in attached.lines

LolInv == LolTypes /\ LogIsOfTheGame /\ SeenIsKept /\ SeenIsReported /\ NothingSlips

LEMMA LolStarts == ASSUME NEW on, LolInit(on) PROVE LolInv
<1>1. /\ tracker = [in_game |-> FALSE, seen |-> {}, last_game_time |-> 0]
      /\ attached = [game |-> 0, lines |-> {}] /\ delivered = {} /\ shown = {} /\ ended = {}
      /\ polled = FALSE /\ poller \in {"running", "stopped"} /\ played = client.game
  BY DEF LolInit
<1>2. client \in [game : 0..MaxGames, log : Seq(Lines), clock : 0..MaxClock]
  <2>1. CASE client = NoGame
    <3>1. <<>> \in Seq(Lines) /\ 0 \in 0..MaxGames /\ 0 \in 0..MaxClock
      BY LolAssumption
    <3> QED
      BY <2>1, <3>1 DEF NoGame
  <2>2. CASE client = [game |-> 1, log |-> <<"GameStart">>, clock |-> 1]
    <3>1. "GameStart" \in Lines /\ 1 \in 0..MaxGames /\ 1 \in 0..MaxClock
      BY LolAssumption DEF Lines
    <3>2. <<"GameStart">> \in Seq(Lines)
      BY <3>1
    <3> QED
      BY <2>2, <3>1, <3>2
  <2> QED
    BY <2>1, <2>2 DEF LolInit
<1>3. client.game \in 0..MaxGames /\ 0 \in 0..MaxGames /\ 0 \in 0..MaxClock
  BY <1>2, LolAssumption
<1>4. LolTypes
  BY <1>1, <1>2, <1>3 DEF LolTypes
<1>5. LogIsOfTheGame /\ SeenIsKept /\ SeenIsReported /\ NothingSlips
  BY <1>1, <1>3 DEF LogIsOfTheGame, SeenIsKept, SeenIsReported, NothingSlips
<1> QED
  BY <1>4, <1>5 DEF LolInv

\* The log of a document, one line longer.
LEMMA ALineIsAppended ==
    ASSUME NEW log \in Seq(Lines), NEW line \in Lines
    PROVE  /\ Append(log, line) \in Seq(Lines)
           /\ DOMAIN log \subseteq DOMAIN Append(log, line)
           /\ \A k \in DOMAIN log : k \in Nat /\ (k \in Highlights(Append(log, line)) => k \in Highlights(log))
           /\ DOMAIN Append(log, line) \subseteq DOMAIN log \cup {Len(log) + 1}
           /\ Len(log) + 1 \notin DOMAIN log
  BY DEF Highlights

LEMMA ClientKeepsLol == LolInv /\ ClientMoves => LolInv'
<1> SUFFICES ASSUME LolInv, ClientMoves PROVE LolInv'
  OBVIOUS
<1>1. LolTypes /\ LogIsOfTheGame /\ SeenIsKept /\ SeenIsReported /\ NothingSlips
  BY DEF LolInv
<1>2. UNCHANGED <<poller, tracker, attached, delivered, shown, ended>>
  BY DEF ClientMoves, GameOpens, LogGrows, ClockRuns, GameCloses, pollerVars
<1>3. NothingSlips'
  BY <1>1, <1>2 DEF NothingSlips
<1>4. /\ client \in [game : 0..MaxGames, log : Seq(Lines), clock : 0..MaxClock]
      /\ played \in 0..MaxGames /\ polled \in BOOLEAN
      /\ MaxGames \in Nat /\ MaxClock \in Nat /\ 0 \in 0..MaxGames /\ 0 \in 0..MaxClock
      /\ attached.game \in 0..MaxGames /\ delivered \subseteq (1..MaxGames) \X Nat
      /\ client.game \in 0..MaxGames /\ client.log \in Seq(Lines) /\ client.clock \in 0..MaxClock
  BY <1>1, LolAssumption DEF LolTypes
<1>5. \A e \in delivered : e[1] # 0 /\ e[1] \in Nat
  BY <1>4
<1>6. CASE GameOpens
  <2>1. client.game = 0 /\ played < MaxGames /\ played' = played + 1 /\ polled' = polled
    BY <1>6 DEF GameOpens
  <2>2. PICK log \in {<<>>, <<"GameStart">>} : client' = [game |-> played', log |-> log, clock |-> 0]
    BY <1>6 DEF GameOpens
  <2>3. log \in Seq(Lines)
    <3>1. "GameStart" \in Lines
      BY DEF Lines
    <3>2. <<>> \in Seq(Lines) /\ <<"GameStart">> \in Seq(Lines)
      BY <3>1
    <3> QED
      BY <2>2, <3>2
  <2>4. played' \in 0..MaxGames /\ played' > played
    BY <1>4, <2>1
  <2>5. LolTypes'
    BY <1>1, <1>2, <1>4, <2>1, <2>2, <2>3, <2>4 DEF LolTypes
  <2>6. client'.game = played'
    BY <2>2
  <2>7. \A e \in delivered : e[1] <= played' /\ e[1] # client'.game
    BY <1>1, <1>4, <1>5, <2>4, <2>6 DEF LogIsOfTheGame
  <2>8. attached.game <= played' /\ attached.game # client'.game
    BY <1>1, <1>4, <2>4, <2>6 DEF LogIsOfTheGame
  <2>9. LogIsOfTheGame'
    BY <1>2, <2>6, <2>7, <2>8 DEF LogIsOfTheGame
  <2>10. SeenIsKept' /\ SeenIsReported'
    BY <1>1, <1>2, <2>7, <2>8 DEF SeenIsKept, SeenIsReported
  <2> QED
    BY <1>3, <2>5, <2>9, <2>10 DEF LolInv
<1>7. ASSUME NEW line \in Lines, LogGrows(line) PROVE LolInv'
  <2>1. client' = [client EXCEPT !.log = Append(client.log, line)] /\ played' = played /\ polled' = polled
    BY <1>7 DEF LogGrows
  <2>2. client' = [game |-> client.game, log |-> Append(client.log, line), clock |-> client.clock]
    BY <1>4, <2>1
  <2>3. /\ Append(client.log, line) \in Seq(Lines)
        /\ DOMAIN client.log \subseteq DOMAIN Append(client.log, line)
        /\ \A k \in DOMAIN client.log : k \in Highlights(Append(client.log, line)) => k \in Highlights(client.log)
    BY <1>4, ALineIsAppended
  <2>4. client'.game = client.game /\ client'.log = Append(client.log, line)
    BY <2>2
  <2>5. LolTypes'
    BY <1>1, <1>2, <1>4, <2>1, <2>2, <2>3 DEF LolTypes
  <2>6. LogIsOfTheGame' /\ SeenIsKept'
    BY <1>1, <1>2, <2>1, <2>3, <2>4 DEF LogIsOfTheGame, SeenIsKept
  <2>7. SeenIsReported'
    <3>1. SUFFICES ASSUME tracker.in_game, client.game = attached.game
                   PROVE  /\ tracker.seen \subseteq DOMAIN client'.log
                          /\ \A k \in Highlights(client'.log) :
                                k \in tracker.seen => <<client.game, k>> \in delivered \/ k \in attached.lines
      BY <1>2, <2>4 DEF SeenIsReported
    <3>2. tracker.seen \subseteq DOMAIN client.log
      BY <1>1, <3>1 DEF SeenIsReported
    <3>3. \A k \in Highlights(client'.log) : k \in tracker.seen => k \in Highlights(client.log)
      BY <2>3, <2>4, <3>2
    <3> QED
      BY <1>1, <2>3, <2>4, <3>1, <3>2, <3>3 DEF SeenIsReported
  <2> QED
    BY <1>3, <2>5, <2>6, <2>7 DEF LolInv
<1>8. CASE ClockRuns
  <2>1. client' = [client EXCEPT !.clock = client.clock + 1] /\ played' = played /\ polled' = FALSE /\ client.clock < MaxClock
    BY <1>8 DEF ClockRuns
  <2>2. client' = [game |-> client.game, log |-> client.log, clock |-> client.clock + 1]
    BY <1>4, <2>1
  <2>3. client.clock + 1 \in 0..MaxClock
    BY <1>4, <2>1
  <2>4. client'.game = client.game /\ client'.log = client.log
    BY <2>2
  <2>5. LolTypes'
    BY <1>1, <1>2, <1>4, <2>1, <2>2, <2>3 DEF LolTypes
  <2>6. LogIsOfTheGame' /\ SeenIsKept' /\ SeenIsReported'
    BY <1>1, <1>2, <2>1, <2>4 DEF LogIsOfTheGame, SeenIsKept, SeenIsReported
  <2> QED
    BY <1>3, <2>5, <2>6 DEF LolInv
<1>9. CASE GameCloses
  <2>1. client' = [game |-> 0, log |-> <<>>, clock |-> 0] /\ played' = played /\ polled' = polled
    BY <1>9 DEF GameCloses, NoGame
  <2>2. LolTypes'
    <3>1. <<>> \in Seq(Lines)
      OBVIOUS
    <3> QED
      BY <1>1, <1>2, <1>4, <2>1, <3>1 DEF LolTypes
  <2>3. client'.game = 0
    BY <2>1
  <2>4. LogIsOfTheGame' /\ SeenIsKept' /\ SeenIsReported'
    BY <1>1, <1>2, <1>5, <2>1, <2>3 DEF LogIsOfTheGame, SeenIsKept, SeenIsReported
  <2> QED
    BY <1>3, <2>2, <2>4 DEF LolInv
<1> QED
  BY <1>6, <1>7, <1>8, <1>9 DEF ClientMoves

\* What a poll does beside sending: the client stays, the thread may end.
LEMMA PollsLeaveTheClient ==
    ASSUME LolTypes, NEW evs, Reports(evs)
    PROVE  /\ UNCHANGED <<client, played>> /\ polled' \in BOOLEAN
           /\ poller' \in {"running", "stopped"}
  BY DEF LolTypes, Reports

LEMMA AttachingKeepsLol == LolInv /\ Attaches => LolInv'
<1> SUFFICES ASSUME LolInv, Attaches PROVE LolInv'
  OBVIOUS
<1>1. LolTypes /\ LogIsOfTheGame
  BY DEF LolInv
<1>2. /\ client.game \in 1..MaxGames /\ client.log \in Seq(Lines) /\ client.clock \in 0..MaxClock
      /\ DOMAIN client.log \subseteq Nat /\ Highlights(client.log) \subseteq DOMAIN client.log
  BY <1>1, LolAssumption DEF LolTypes, Attaches, Serves, Highlights
<1>3. /\ tracker' = [in_game |-> TRUE, seen |-> DOMAIN client.log, last_game_time |-> client.clock]
      /\ attached' = [game |-> client.game, lines |-> DOMAIN client.log]
      /\ shown' = {<<client.game, k>> : k \in Highlights(client.log)}
      /\ delivered' = delivered /\ ended' = ended
  BY DEF Attaches, Adopts, Entry
<1>4. UNCHANGED <<client, played>> /\ polled' \in BOOLEAN /\ poller' \in {"running", "stopped"}
  BY <1>1, PollsLeaveTheClient DEF Attaches
<1>5. /\ tracker'.in_game /\ tracker'.seen = DOMAIN client.log
      /\ attached'.game = client.game /\ attached'.lines = DOMAIN client.log
  BY <1>3
<1>6. shown' \subseteq (1..MaxGames) \X Nat
  BY <1>2, <1>3
<1>7. LolTypes'
  <2>1. tracker' \in [in_game : BOOLEAN, seen : SUBSET Nat, last_game_time : 0..MaxClock]
    BY <1>2, <1>3
  <2>2. attached' \in [game : 0..MaxGames, lines : SUBSET Nat]
    BY <1>2, <1>3
  <2> QED
    BY <1>1, <1>3, <1>4, <1>6, <2>1, <2>2 DEF LolTypes
<1>8. LogIsOfTheGame'
  BY <1>1, <1>2, <1>3, <1>4, <1>5 DEF LogIsOfTheGame, LolTypes
<1>9. SeenIsKept'
  BY <1>1, <1>2, <1>3, <1>4, <1>5 DEF SeenIsKept, LogIsOfTheGame
<1>10. SeenIsReported'
  BY <1>2, <1>4, <1>5 DEF SeenIsReported
<1>11. NothingSlips'
  BY <1>2, <1>3, <1>5 DEF NothingSlips
<1> QED
  BY <1>7, <1>8, <1>9, <1>10, <1>11 DEF LolInv

\* The highlights of a document that are new.
New == {k \in Unseen : k \in Highlights(client.log)}

LEMMA DerivingKeepsLol == LolInv /\ Derives => LolInv'
<1> SUFFICES ASSUME LolInv, Derives PROVE LolInv'
  OBVIOUS
<1>1. LolTypes /\ LogIsOfTheGame /\ SeenIsKept /\ SeenIsReported /\ tracker.in_game
  BY DEF LolInv, Derives
<1>2. /\ client.game \in 1..MaxGames /\ client.log \in Seq(Lines) /\ client.clock \in 0..MaxClock
      /\ DOMAIN client.log \subseteq Nat /\ Highlights(client.log) \subseteq DOMAIN client.log
      /\ tracker \in [in_game : BOOLEAN, seen : SUBSET Nat, last_game_time : 0..MaxClock]
  BY <1>1, LolAssumption DEF LolTypes, Derives, Serves, Highlights
<1>3. New \subseteq DOMAIN client.log /\ \A k \in Highlights(client.log) : k \in tracker.seen \/ k \in New
  BY <1>2 DEF New, Unseen
<1>4. /\ tracker' = [tracker EXCEPT !.seen = SeenAfter, !.last_game_time = client.clock]
      /\ delivered' = delivered \cup {<<client.game, k>> : k \in New}
      /\ shown' = {<<client.game, k>> : k \in Highlights(client.log)}
      /\ attached' = attached /\ ended' = ended
  BY DEF Derives, New, Entry
<1>5. UNCHANGED <<client, played>> /\ polled' \in BOOLEAN /\ poller' \in {"running", "stopped"}
  <2>1. \E evs : Reports(evs)
    BY DEF Derives
  <2> QED
    BY <1>1, <2>1, PollsLeaveTheClient
<1>6. tracker' = [in_game |-> TRUE, seen |-> tracker.seen \cup DOMAIN client.log, last_game_time |-> client.clock]
  BY <1>1, <1>2, <1>4 DEF SeenAfter
<1>7. tracker'.in_game /\ tracker'.seen = tracker.seen \cup DOMAIN client.log
  BY <1>6
<1>8. \A e \in delivered' : e \in delivered \/ (e[1] = client.game /\ e[2] \in DOMAIN client.log)
  BY <1>3, <1>4
<1>9. delivered' \subseteq (1..MaxGames) \X Nat /\ shown' \subseteq (1..MaxGames) \X Nat
  BY <1>1, <1>2, <1>3, <1>4 DEF LolTypes
<1>10. LolTypes'
  <2>1. tracker' \in [in_game : BOOLEAN, seen : SUBSET Nat, last_game_time : 0..MaxClock]
    BY <1>2, <1>6
  <2> QED
    BY <1>1, <1>4, <1>5, <1>9, <2>1 DEF LolTypes
<1>11. LogIsOfTheGame'
  BY <1>1, <1>2, <1>4, <1>5, <1>8 DEF LogIsOfTheGame, LolTypes
<1>12. SeenIsKept'
  BY <1>1, <1>4, <1>5, <1>7, <1>8 DEF SeenIsKept
<1>13. ASSUME client.game = attached.game, NEW k \in Highlights(client.log)
       PROVE  <<client.game, k>> \in delivered' \/ k \in attached.lines
  BY <1>1, <1>3, <1>4, <1>13 DEF SeenIsReported
<1>14. SeenIsReported'
  BY <1>1, <1>4, <1>5, <1>7, <1>13 DEF SeenIsReported
<1>15. NothingSlips'
  <2> SUFFICES ASSUME NEW e \in shown', e[1] = attached.game
               PROVE  e \in delivered' \/ e[2] \in attached.lines
    BY <1>4 DEF NothingSlips
  <2>1. PICK k \in Highlights(client.log) : e = <<client.game, k>>
    BY <1>4
  <2> QED
    BY <1>13, <2>1
<1> QED
  BY <1>10, <1>11, <1>12, <1>14, <1>15 DEF LolInv

\* The end of a game, in the log or by silence, and what changes nothing.
LEMMA TheRestKeepsLol ==
    LolInv /\ (EndsInTheLog \/ GoesQuiet \/ CannotRead \/ PollerStops \/ UNCHANGED lolVars) => LolInv'
<1> SUFFICES ASSUME LolInv, EndsInTheLog \/ GoesQuiet \/ CannotRead \/ PollerStops \/ UNCHANGED lolVars
             PROVE  LolInv'
  OBVIOUS
<1>1. LolTypes /\ LogIsOfTheGame /\ SeenIsKept /\ SeenIsReported /\ NothingSlips
  BY DEF LolInv
<1>2. UNCHANGED <<client, played, attached, delivered>> /\ polled' \in BOOLEAN
      /\ poller' \in {"running", "stopped"}
  <2>1. CASE EndsInTheLog \/ GoesQuiet
    <3>1. \E evs : Reports(evs)
      BY <2>1 DEF EndsInTheLog, GoesQuiet
    <3>2. UNCHANGED <<attached, delivered>>
      BY <2>1 DEF EndsInTheLog, GoesQuiet
    <3> QED
      BY <1>1, <3>1, <3>2, PollsLeaveTheClient
  <2>2. CASE CannotRead \/ PollerStops \/ UNCHANGED lolVars
    BY <1>1, <2>2 DEF CannotRead, PollerStops, lolVars, clientVars, pollerVars, LolTypes
  <2> QED
    BY <2>1, <2>2
<1>3. LogIsOfTheGame'
  BY <1>1, <1>2 DEF LogIsOfTheGame
<1>4. CASE UNCHANGED <<tracker, shown, ended>>
  <2>1. LolTypes'
    BY <1>1, <1>2, <1>4 DEF LolTypes
  <2>2. SeenIsKept' /\ SeenIsReported' /\ NothingSlips'
    BY <1>1, <1>2, <1>4 DEF SeenIsKept, SeenIsReported, NothingSlips
  <2> QED
    BY <1>3, <2>1, <2>2 DEF LolInv
<1>5. CASE /\ shown' = {} /\ ended' \in {ended, ended \cup {attached.game}}
           /\ ended' = ended \/ tracker.in_game
           /\ \E t \in 0..MaxClock : tracker' = [in_game |-> FALSE, seen |-> {}, last_game_time |-> t]
  <2>1. ended' \subseteq 1..MaxGames
    BY <1>1, <1>5 DEF LolTypes, SeenIsKept
  <2>2. tracker' \in [in_game : BOOLEAN, seen : SUBSET Nat, last_game_time : 0..MaxClock] /\ ~tracker'.in_game
    BY <1>5
  <2>3. LolTypes'
    BY <1>1, <1>2, <1>5, <2>1, <2>2 DEF LolTypes
  <2>4. SeenIsKept' /\ SeenIsReported' /\ NothingSlips'
    BY <2>2 DEF SeenIsKept, SeenIsReported, NothingSlips
  <2> QED
    BY <1>3, <2>3, <2>4 DEF LolInv
<1>6. CASE shown' = {} /\ UNCHANGED <<tracker, ended>>
  <2>1. LolTypes'
    BY <1>1, <1>2, <1>6 DEF LolTypes
  <2>2. SeenIsKept' /\ SeenIsReported' /\ NothingSlips'
    BY <1>1, <1>2, <1>6 DEF SeenIsKept, SeenIsReported, NothingSlips
  <2> QED
    BY <1>3, <2>1, <2>2 DEF LolInv
<1>7. /\ tracker \in [in_game : BOOLEAN, seen : SUBSET Nat, last_game_time : 0..MaxClock]
      /\ 0 \in 0..MaxClock
  BY <1>1, LolAssumption DEF LolTypes
<1>8. CASE EndsInTheLog
  <2>1. /\ tracker' = [tracker EXCEPT !.in_game = FALSE, !.seen = {}] /\ tracker.in_game
        /\ shown' = {} /\ ended' = ended \cup {attached.game}
    BY <1>8 DEF EndsInTheLog
  <2>2. tracker' = [in_game |-> FALSE, seen |-> {}, last_game_time |-> tracker.last_game_time]
        /\ tracker.last_game_time \in 0..MaxClock
    BY <1>7, <2>1
  <2> QED
    BY <1>5, <2>1, <2>2
<1>9. CASE GoesQuiet
  <2>1. CASE tracker.in_game
    <3>1. /\ tracker' = [in_game |-> FALSE, seen |-> {}, last_game_time |-> 0]
          /\ shown' = {} /\ ended' = ended \cup {attached.game}
      BY <1>9, <2>1 DEF GoesQuiet
    <3> QED
      BY <1>5, <1>7, <2>1, <3>1
  <2>2. CASE ~tracker.in_game
    BY <1>6, <1>9, <2>2 DEF GoesQuiet
  <2> QED
    BY <2>1, <2>2
<1>10. CASE CannotRead \/ PollerStops \/ UNCHANGED lolVars
  BY <1>4, <1>10 DEF CannotRead, PollerStops, lolVars, pollerVars
<1> QED
  BY <1>8, <1>9, <1>10

LEMMA LolStays == LolInv /\ (League \/ UNCHANGED lolVars) => LolInv'
  BY ClientKeepsLol, AttachingKeepsLol, DerivingKeepsLol, TheRestKeepsLol DEF League, PollerStep, Poll

-----------------------------------------------------------------------------
(* The channel.                                                              *)

\* What a source may put into the channel: events of its own, sent now.
SentNow(evs, source) ==
    /\ evs \in Seq(Events)
    /\ \A k \in DOMAIN evs : evs[k].sent = now /\ evs[k].source = source

LEMMA AnEvent ==
    ASSUME SinkTypes, NEW source \in {"lol", "gsi"}, NEW kind \in Kinds, NEW of \in Nat \X Nat
    PROVE  LET e == Event(source, kind, of)
           IN  e \in Events /\ e.sent = now /\ e.source = source /\ e.kind = kind /\ e.of = of
  BY DEF SinkTypes, Event, Events

LEMMA OneEvent ==
    ASSUME NEW e \in Events, e.sent = now, NEW source, e.source = source
    PROVE  SentNow(<<e>>, source) /\ Len(<<e>>) = 1 /\ <<e>>[1] = e
<1>1. <<e>> \in Seq(Events) /\ Len(<<e>>) = 1 /\ <<e>>[1] = e /\ DOMAIN <<e>> = {1}
  OBVIOUS
<1> QED
  BY <1>1 DEF SentNow

LEMMA NoEvents == ASSUME NEW source PROVE SentNow(<<>>, source)
  BY DEF SentNow

LEMMA SendingGrowsTheChannel ==
    ASSUME SinkTypes, NEW source, NEW evs, SentNow(evs, source), Send(evs)
    PROVE  \E more : /\ SentNow(more, source) /\ channel' = channel \o more
                     /\ more \in {evs, <<>>}
<1>1. CASE ReceiverGone
  <2>1. channel' = channel \o <<>>
    BY <1>1 DEF Send, SinkTypes
  <2> QED
    BY <2>1, NoEvents
<1>2. CASE ~ReceiverGone
  BY <1>2 DEF Send
<1> QED
  BY <1>1, <1>2

LEMMA WhatWasSent ==
    ASSUME SinkTypes, NEW more \in Seq(Events), channel' = channel \o more
    PROVE  /\ channel' \in Seq(Events)
           /\ \A e \in Sent : \E k \in DOMAIN more : e = more[k]
           /\ \A k \in DOMAIN channel' :
                 \/ k \in DOMAIN channel /\ channel'[k] = channel[k]
                 \/ \E i \in DOMAIN more : channel'[k] = more[i]
<1>1. channel \in Seq(Events)
  BY DEF SinkTypes
<1>2. /\ channel' \in Seq(Events) /\ Len(channel') = Len(channel) + Len(more)
      /\ \A k \in 1..(Len(channel) + Len(more)) :
            channel'[k] = IF k <= Len(channel) THEN channel[k] ELSE more[k - Len(channel)]
  BY <1>1
<1>3. Len(channel) \in Nat /\ Len(more) \in Nat /\ DOMAIN channel = 1..Len(channel)
      /\ DOMAIN more = 1..Len(more) /\ DOMAIN channel' = 1..(Len(channel) + Len(more))
  BY <1>1, <1>2
<1>4. ASSUME NEW k \in DOMAIN channel', ~(k <= Len(channel))
      PROVE  k - Len(channel) \in DOMAIN more /\ channel'[k] = more[k - Len(channel)]
  BY <1>2, <1>3, <1>4
<1>5. ASSUME NEW e \in Sent PROVE \E k \in DOMAIN more : e = more[k]
  <2>1. PICK k \in (Len(channel) + 1)..Len(channel') : e = channel'[k]
    BY DEF Sent
  <2>2. k \in DOMAIN channel' /\ ~(k <= Len(channel))
    BY <1>2, <1>3, <2>1
  <2> QED
    BY <1>4, <2>1, <2>2
<1>6. ASSUME NEW k \in DOMAIN channel', k <= Len(channel)
      PROVE  k \in DOMAIN channel /\ channel'[k] = channel[k]
  BY <1>2, <1>3, <1>6
<1> QED
  BY <1>2, <1>4, <1>5, <1>6

-----------------------------------------------------------------------------
(* What the poller sends.                                                    *)

\* A highlight that was not reported, of a line the tracker saw come.
IsNews(e) ==
    e.kind = "Highlight" =>
        e.of \notin delivered /\ ~(e.of[1] = attached.game /\ e.of[2] \in attached.lines)

\* The bounds of the world, which every step keeps.
BoundsHold == turns' \in 0..MaxTurns /\ faults' \in 0..MaxFaults

LEMMA TurnsStayInBounds ==
    ASSUME SinkTypes, TakesATurn \/ GoesWrong \/ NoTurn
    PROVE  BoundsHold /\ turns' <= turns
  BY SinkAssumption DEF SinkTypes, TakesATurn, GoesWrong, NoTurn, BoundsHold

LEMMA DerivedAreNews ==
    ASSUME LolInv, SinkTypes, tracker.in_game, Serves, NEW n \in Nat, NEW order \in [1..n -> New]
    PROVE  LET evs == [i \in DOMAIN order |-> Event("lol", "Highlight", Entry(order[i]))]
           IN  SentNow(evs, "lol") /\ \A k \in DOMAIN evs : IsNews(evs[k])
<1>1. LolTypes /\ SeenIsKept
  BY DEF LolInv
<1>2. client.game \in Nat /\ DOMAIN client.log \subseteq Nat
  BY <1>1 DEF LolTypes
<1>3. \A k \in New : k \in Nat /\ k \notin tracker.seen
  BY <1>2 DEF New, Unseen
<1>4. ASSUME NEW i \in 1..n
      PROVE  LET e == Event("lol", "Highlight", Entry(order[i]))
             IN  e \in Events /\ e.sent = now /\ e.source = "lol" /\ IsNews(e)
  <2> DEFINE e == Event("lol", "Highlight", Entry(order[i]))
  <2>1. order[i] \in New
    OBVIOUS
  <2>2. Entry(order[i]) = <<client.game, order[i]>> /\ Entry(order[i]) \in Nat \X Nat
    BY <1>2, <1>3, <2>1 DEF Entry
  <2>3. "Highlight" \in Kinds
    BY DEF Kinds
  <2>4. e \in Events /\ e.sent = now /\ e.source = "lol" /\ e.of = <<client.game, order[i]>>
    BY <2>2, <2>3, AnEvent
  <2> HIDE DEF e
  <2>5. order[i] \notin tracker.seen
    BY <1>3, <2>1
  <2>6. <<client.game, order[i]>> \notin delivered
    BY <1>1, <2>5 DEF SeenIsKept
  <2>7. order[i] \notin attached.lines
    BY <1>1, <2>5 DEF SeenIsKept
  <2>8. IsNews(e)
    BY <2>4, <2>6, <2>7 DEF IsNews
  <2> QED
    BY <2>4, <2>8 DEF e
<1> DEFINE evs == [i \in DOMAIN order |-> Event("lol", "Highlight", Entry(order[i]))]
<1>5. DOMAIN order = 1..n /\ DOMAIN evs = 1..n
  OBVIOUS
<1>6. \A i \in 1..n : evs[i] = Event("lol", "Highlight", Entry(order[i]))
  BY <1>5
<1> HIDE DEF evs
<1>7. \A i \in 1..n : evs[i] \in Events /\ evs[i].sent = now /\ evs[i].source = "lol" /\ IsNews(evs[i])
  BY <1>4, <1>6
<1>8. evs = [i \in 1..n |-> evs[i]]
  BY <1>5 DEF evs
<1>9. evs \in Seq(Events)
  BY <1>7, <1>8
<1>10. SentNow(evs, "lol") /\ \A k \in DOMAIN evs : IsNews(evs[k])
  BY <1>5, <1>7, <1>9 DEF SentNow
<1> QED
  BY <1>10 DEF evs

\* A poll sends nothing but news.
LEMMA LeagueSends ==
    ASSUME LolInv, SinkTypes, League
    PROVE  /\ \E evs : /\ SentNow(evs, "lol") /\ channel' = channel \o evs
                       /\ \A k \in DOMAIN evs : IsNews(evs[k])
           /\ UNCHANGED <<closing, now>> /\ BoundsHold /\ turns' <= turns
<1>1. LolTypes /\ SeenIsKept
  BY DEF LolInv
<1>2. ASSUME NEW evs, SentNow(evs, "lol"), \A k \in DOMAIN evs : IsNews(evs[k]), Reports(evs)
      PROVE  /\ \E more : /\ SentNow(more, "lol") /\ channel' = channel \o more
                          /\ \A k \in DOMAIN more : IsNews(more[k])
             /\ UNCHANGED <<closing, now>> /\ BoundsHold /\ turns' <= turns
  <2>1. Send(evs) /\ NoTurn /\ UNCHANGED <<closing, now>>
    BY <1>2 DEF Reports
  <2>2. PICK more : SentNow(more, "lol") /\ channel' = channel \o more /\ more \in {evs, <<>>}
    BY <1>2, <2>1, SendingGrowsTheChannel
  <2>3. \A k \in DOMAIN more : IsNews(more[k])
    BY <1>2, <2>2
  <2> QED
    BY <2>1, <2>2, <2>3, TurnsStayInBounds
<1>3. ASSUME NEW kind \in {"GameStart", "GameEnd"}, NEW g \in Nat, Reports(<<Event("lol", kind, <<g, 0>>)>>)
      PROVE  /\ \E more : /\ SentNow(more, "lol") /\ channel' = channel \o more
                          /\ \A k \in DOMAIN more : IsNews(more[k])
             /\ UNCHANGED <<closing, now>> /\ BoundsHold /\ turns' <= turns
  <2> DEFINE e == Event("lol", kind, <<g, 0>>)
  <2>1. kind \in Kinds /\ <<g, 0>> \in Nat \X Nat
    BY DEF Kinds
  <2>2. e \in Events /\ e.sent = now /\ e.source = "lol" /\ e.kind = kind
    BY <2>1, AnEvent
  <2>3. Reports(<<e>>)
    BY <1>3
  <2> HIDE DEF e
  <2>4. SentNow(<<e>>, "lol") /\ DOMAIN <<e>> = {1} /\ <<e>>[1] = e
    BY <2>2, OneEvent
  <2>5. IsNews(e)
    BY <2>2 DEF IsNews
  <2>6. \A k \in DOMAIN <<e>> : IsNews(<<e>>[k])
    BY <2>4, <2>5
  <2> QED
    BY <1>2, <2>3, <2>4, <2>6
<1>4. CASE Attaches
  <2>1. Reports(<<Event("lol", "GameStart", <<client.game, 0>>)>>) /\ client.game \in Nat
    BY <1>1, <1>4 DEF Attaches, LolTypes
  <2> QED
    BY <1>3, <2>1
<1>5. CASE Derives
  <2>1. PICK order \in [1..Cardinality(New) -> New] :
            Reports([i \in DOMAIN order |-> Event("lol", "Highlight", Entry(order[i]))])
    BY <1>5 DEF Derives, New
  <2>2. IsFiniteSet(New)
    <3>1. New \subseteq 1..Len(client.log) /\ Len(client.log) \in Nat
      BY <1>1 DEF New, Unseen, LolTypes
    <3>2. IsFiniteSet(1..Len(client.log))
      BY <3>1, FS_Interval
    <3> QED
      BY <3>1, <3>2, FS_Subset
  <2>3. Cardinality(New) \in Nat
    BY <2>2, FS_CardinalityType
  <2>4. tracker.in_game /\ Serves
    BY <1>5 DEF Derives
  <2> DEFINE n == Cardinality(New)
             evs == [i \in DOMAIN order |-> Event("lol", "Highlight", Entry(order[i]))]
  <2>5. SentNow(evs, "lol") /\ \A k \in DOMAIN evs : IsNews(evs[k])
    BY <2>1, <2>3, <2>4, DerivedAreNews
  <2>6. Reports(evs)
    BY <2>1
  <2> QED
    BY <1>2, <2>5, <2>6
<1>6. CASE EndsInTheLog \/ GoesQuiet
  <2>1. CASE Reports(TheEnd)
    <3>1. attached.game \in Nat
      BY <1>1 DEF LolTypes
    <3> QED
      BY <1>3, <2>1, <3>1 DEF TheEnd
  <2>2. CASE Reports(<<>>)
    BY <1>2, <2>2, NoEvents
  <2> QED
    BY <1>6, <2>1, <2>2 DEF EndsInTheLog, GoesQuiet
<1>7. CASE CannotRead \/ PollerStops \/ ClientMoves
  <2>1. UNCHANGED <<channel, closing, now>> /\ (TakesATurn \/ GoesWrong \/ NoTurn)
    BY <1>7 DEF CannotRead, PollerStops, ClientMoves, GameOpens, LogGrows, ClockRuns, GameCloses, Moves
  <2>2. channel' = channel \o <<>>
    BY <2>1 DEF SinkTypes
  <2>3. BoundsHold /\ turns' <= turns
    BY <2>1, TurnsStayInBounds
  <2>4. \A k \in DOMAIN <<>> : IsNews(<<>>[k])
    OBVIOUS
  <2> QED
    BY <2>1, <2>2, <2>3, <2>4, NoEvents
<1> QED
  BY <1>4, <1>5, <1>6, <1>7 DEF League, PollerStep, Poll

-----------------------------------------------------------------------------
(* The scoreboards.                                                          *)

Matches ==
    [playing : BOOLEAN, view : Players \cup {Nobody}, kills : [Players -> Nat],
     round : Nat, over : BOOLEAN, planted : BOOLEAN]

\* Every connection has a number of its own turn.
NumbersAreTurns ==
    /\ seq + turns <= MaxTurns
    /\ IsFiniteSet(reading)
    /\ match \in [Games -> Matches]
    /\ \A j \in reading : j.seq <= seq
    /\ \A k \in DOMAIN queue : queue[k].seq <= seq

Pending(jobs, line) == jobs \cup {line[k] : k \in DOMAIN line}
OfPlayer(doc, g, p) == doc.game = g /\ doc.player = p

\* How many kills g's player p had made when the connection s was accepted,
\* before[s][g][p], explains what is pending: a later document shows no more
\* kills than an earlier one and those made between the two.
DocumentsAgree(before, jobs, kills, total, g, p) ==
    \A a \in jobs : OfPlayer(a.doc, g, p) =>
        /\ kills + before[a.seq][g][p] <= a.doc.kills + total
        /\ \A b \in jobs : OfPlayer(b.doc, g, p) /\ a.seq < b.seq =>
               b.doc.kills + before[a.seq][g][p] <= a.doc.kills + before[b.seq][g][p]

\* The same of the document the tracker compares with.
BaselineAgrees(before, jobs, base, done, kills, total, g, p) ==
    base.in_game /\ OfPlayer(base, g, p) =>
        /\ kills + before[done][g][p] <= base.kills + total
        /\ \A a \in jobs : OfPlayer(a.doc, g, p) /\ a.seq > done =>
               a.doc.kills + before[done][g][p] <= base.kills + before[a.seq][g][p]

Account(before) ==
    /\ before \in [0..seq -> [Games -> [Players -> Nat]]]
    /\ \A g \in Games, p \in Players :
          /\ \A s \in 0..seq : before[s][g][p] <= made[g][p]
          /\ \A s, t \in 0..seq : s <= t => before[s][g][p] <= before[t][g][p]
          /\ DocumentsAgree(before, Pending(reading, queue), match[g].kills[p], made[g][p], g, p)
          /\ BaselineAgrees(before, Pending(reading, queue), baseline, last_seq,
                            match[g].kills[p], made[g][p], g, p)
          /\ reported[g][p] <= before[last_seq][g][p]

KillsAreAccounted == \E before : Account(before)

GsiInv == GsiTypes /\ NumbersAreTurns /\ KillsAreAccounted

LEMMA GsiStarts == ASSUME NEW on \in BOOLEAN, GsiInit(on), SinkInit PROVE GsiInv
<1>1. /\ match \in [Games -> {NoMatch} \cup UNION {{Match(p), UnderWay(p)} : p \in Players}]
      /\ waiting = [g \in Games |-> 0] /\ seq = 0 /\ queue = <<>> /\ reading = {} /\ last_seq = 0
      /\ returned = IF on THEN 0 ELSE Workers
      /\ baseline = NoBaseline /\ serving = on /\ gsiStop = FALSE
      /\ made = [g \in Games |-> [p \in Players |-> 0]]
      /\ reported = [g \in Games |-> [p \in Players |-> 0]]
      /\ turns \in 0..MaxTurns
  BY DEF GsiInit, SinkInit
<1>2. MaxTurns \in Nat /\ Workers \in Nat /\ MaxQueued \in Nat /\ 0 \in 0..MaxTurns
  BY SinkAssumption, GsiAssumption
<1>3. Cardinality({}) = 0 /\ IsFiniteSet({})
  BY FS_EmptySet
<1>4. NoBaseline \in Baselines /\ ~NoBaseline.in_game
  BY DEF NoBaseline, Baselines
<1>5. \A k \in {NoMatch} \cup UNION {{Match(p), UnderWay(p)} : p \in Players} : k \in Matches
  <2>1. NoMatch \in Matches
    BY DEF NoMatch, Matches
  <2>2. ASSUME NEW p \in Players PROVE Match(p) \in Matches
    BY <2>1 DEF Match, Matches
  <2>3. ASSUME NEW p \in Players PROVE UnderWay(p) \in Matches
    <3> DEFINE kills == [q \in Players |-> IF q = p THEN 0 ELSE 1]
    <3>1. kills \in [Players -> Nat]
      OBVIOUS
    <3>2. UnderWay(p) = [Match(p) EXCEPT !.kills = kills]
      BY DEF UnderWay
    <3> HIDE DEF kills
    <3> QED
      BY <2>2, <3>1, <3>2 DEF Matches
  <2> QED
    BY <2>1, <2>2, <2>3
<1>6. GsiTypes
  <2>1. queue \in Seq(Jobs) /\ Len(queue) = 0 /\ Len(queue) <= MaxQueued
    BY <1>1, <1>2
  <2>2. returned \in 0..Workers /\ Cardinality(reading) + returned <= Workers
    BY <1>1, <1>2, <1>3
  <2>3. waiting \in [Games -> 0..MaxTurns]
    BY <1>1, <1>2
  <2>4. made \in [Games -> [Players -> Nat]] /\ reported \in [Games -> [Players -> Nat]]
    BY <1>1
  <2>5. seq \in 0..MaxTurns /\ last_seq \in 0..seq /\ reading \subseteq Jobs
    BY <1>1, <1>2
  <2>6. serving \in BOOLEAN /\ gsiStop \in BOOLEAN
    BY <1>1
  <2> QED
    BY <1>1, <1>4, <2>1, <2>2, <2>3, <2>4, <2>5, <2>6 DEF GsiTypes
<1>7. NumbersAreTurns
  BY <1>1, <1>2, <1>3, <1>5 DEF NumbersAreTurns
<1>8. KillsAreAccounted
  <2> DEFINE before == [s \in 0..seq |-> [g \in Games |-> [p \in Players |-> 0]]]
  <2>1. before \in [0..seq -> [Games -> [Players -> Nat]]] /\ 0 \in 0..seq
    BY <1>1
  <2>2. \A s \in 0..seq, g \in Games, p \in Players : before[s][g][p] = 0
    OBVIOUS
  <2> HIDE DEF before
  <2>3. Pending(reading, queue) = {}
    BY <1>1 DEF Pending
  <2>4. Account(before)
    BY <1>1, <1>4, <2>1, <2>2, <2>3 DEF Account, DocumentsAgree, BaselineAgrees
  <2> QED
    BY <2>4 DEF KillsAreAccounted
<1> QED
  BY <1>6, <1>7, <1>8 DEF GsiInv

LEMMA ClosingKeepsWaiting ==
    ASSUME waiting \in [Games -> 0..MaxTurns], NEW jobs, Closed(jobs)
    PROVE  waiting' \in [Games -> 0..MaxTurns]
  BY SinkAssumption DEF Closed

LEMMA PendingIsTyped ==
    ASSUME GsiInv
    PROVE  \A a \in Pending(reading, queue) :
              a \in Jobs /\ a.seq \in 0..seq /\ a.doc \in Documents /\ a.doc.kills \in Nat
<1>1. /\ reading \subseteq Jobs /\ queue \in Seq(Jobs) /\ seq \in Nat
      /\ \A j \in reading : j.seq <= seq
      /\ \A k \in DOMAIN queue : queue[k].seq <= seq
  BY SinkAssumption DEF GsiInv, GsiTypes, NumbersAreTurns
<1>2. ASSUME NEW a \in Pending(reading, queue) PROVE a \in Jobs /\ a.seq <= seq
  <2>1. CASE a \in reading
    BY <1>1, <2>1
  <2>2. ASSUME NEW k \in DOMAIN queue, a = queue[k] PROVE a \in Jobs /\ a.seq <= seq
    BY <1>1, <2>2
  <2> QED
    BY <1>2, <2>1, <2>2 DEF Pending
<1>3. \A a \in Jobs : a.seq \in Nat /\ a.doc \in Documents
  BY SinkAssumption DEF Jobs
<1>4. \A d \in Documents : d.kills \in Nat
  BY DEF Documents
<1> QED
  BY <1>1, <1>2, <1>3, <1>4

\* What neither accepts, folds nor plays leaves the account as it is, with
\* what it drops from it.
LEMMA DroppingKeepsTheAccount ==
    ASSUME KillsAreAccounted, UNCHANGED <<match, made, seq, last_seq, baseline, reported>>,
           Pending(reading', queue') \subseteq Pending(reading, queue)
    PROVE  KillsAreAccounted'
<1>1. PICK before : Account(before)
  BY DEF KillsAreAccounted
<1>2. ASSUME NEW g \in Games, NEW p \in Players
      PROVE  /\ DocumentsAgree(before, Pending(reading', queue'), match[g].kills[p], made[g][p], g, p)
             /\ BaselineAgrees(before, Pending(reading', queue'), baseline, last_seq,
                               match[g].kills[p], made[g][p], g, p)
  <2>1. /\ DocumentsAgree(before, Pending(reading, queue), match[g].kills[p], made[g][p], g, p)
        /\ BaselineAgrees(before, Pending(reading, queue), baseline, last_seq,
                          match[g].kills[p], made[g][p], g, p)
    BY <1>1 DEF Account
  <2> QED
    BY <2>1 DEF DocumentsAgree, BaselineAgrees
<1>3. Account(before)'
  BY <1>1, <1>2 DEF Account
<1> QED
  BY <1>3 DEF KillsAreAccounted

\* The games: a kill is one more for the match and for what was made; a new
\* match begins without any.
LEMMA PlayingKeepsTheAccount ==
    ASSUME GsiInv, UNCHANGED listenVars, match' \in [Games -> Matches], made' \in [Games -> [Players -> Nat]],
           \A g \in Games, p \in Players :
              /\ match'[g].kills[p] + made[g][p] <= match[g].kills[p] + made'[g][p]
              /\ made[g][p] <= made'[g][p]
    PROVE  KillsAreAccounted'
<1>1. PICK before : Account(before)
  BY DEF GsiInv, KillsAreAccounted
<1>2. UNCHANGED <<seq, queue, reading, last_seq, baseline, reported>>
  BY DEF listenVars
<1>3. /\ match \in [Games -> Matches] /\ made \in [Games -> [Players -> Nat]]
      /\ reading \subseteq Jobs /\ queue \in Seq(Jobs) /\ seq \in Nat /\ last_seq \in 0..seq
      /\ baseline \in Baselines
      /\ \A j \in reading : j.seq <= seq
      /\ \A k \in DOMAIN queue : queue[k].seq <= seq
  BY SinkAssumption DEF GsiInv, GsiTypes, NumbersAreTurns
<1>4. \A a \in Pending(reading, queue) : a.seq \in 0..seq /\ a.doc.kills \in Nat
  BY PendingIsTyped
<1>5. ASSUME NEW g \in Games, NEW p \in Players
      PROVE  /\ \A s \in 0..seq : before[s][g][p] <= made'[g][p]
             /\ DocumentsAgree(before, Pending(reading, queue), match'[g].kills[p], made'[g][p], g, p)
             /\ BaselineAgrees(before, Pending(reading, queue), baseline, last_seq,
                               match'[g].kills[p], made'[g][p], g, p)
  <2>1. /\ \A s \in 0..seq : before[s][g][p] <= made[g][p] /\ before[s][g][p] \in Nat
        /\ DocumentsAgree(before, Pending(reading, queue), match[g].kills[p], made[g][p], g, p)
        /\ BaselineAgrees(before, Pending(reading, queue), baseline, last_seq,
                          match[g].kills[p], made[g][p], g, p)
    BY <1>1 DEF Account
  <2>2. /\ match[g].kills[p] \in Nat /\ match'[g].kills[p] \in Nat
        /\ made[g][p] \in Nat /\ made'[g][p] \in Nat
    BY <1>3 DEF Matches
  <2> DEFINE k == match[g].kills[p]
             l == match'[g].kills[p]
             m == made[g][p]
             n == made'[g][p]
  <2>3. k \in Nat /\ l \in Nat /\ m \in Nat /\ n \in Nat /\ l + m <= k + n /\ m <= n
    BY <2>2
  <2> HIDE DEF k, l, m, n
  <2>4. ASSUME NEW x \in Nat, NEW y \in Nat, k + x <= y + m PROVE l + x <= y + n
    BY <2>3, <2>4
  <2>5. \A s \in 0..seq : before[s][g][p] <= n
    BY <2>1, <2>3 DEF m
  <2>6. DocumentsAgree(before, Pending(reading, queue), l, n, g, p)
    <3>1. DocumentsAgree(before, Pending(reading, queue), k, m, g, p)
      BY <2>1 DEF k, m
    <3>2. \A a \in Pending(reading, queue) : before[a.seq][g][p] \in Nat /\ a.doc.kills \in Nat
      BY <1>4, <2>1
    <3> QED
      BY <2>4, <3>1, <3>2 DEF DocumentsAgree
  <2>7. BaselineAgrees(before, Pending(reading, queue), baseline, last_seq, l, n, g, p)
    <3>1. BaselineAgrees(before, Pending(reading, queue), baseline, last_seq, k, m, g, p)
      BY <2>1 DEF k, m
    <3>2. before[last_seq][g][p] \in Nat /\ baseline.kills \in Nat
      BY <1>3, <2>1 DEF Baselines
    <3> QED
      BY <2>4, <3>1, <3>2 DEF BaselineAgrees
  <2> QED
    BY <2>5, <2>6, <2>7 DEF l, n
<1>6. Account(before)'
  BY <1>1, <1>2, <1>5 DEF Account
<1> QED
  BY <1>6 DEF KillsAreAccounted

LEMMA FewerTurns ==
    ASSUME NEW a \in Nat, NEW b \in Nat, NEW c \in Nat, NEW d \in Nat, a + b <= d, c <= b
    PROVE  a + c <= d
  OBVIOUS

\* A step that drops or moves connections, and changes no match and no account.
LEMMA DroppingKeepsGsi ==
    ASSUME GsiInv, UNCHANGED <<match, made, seq, last_seq, baseline, reported>>,
           turns' \in Nat, turns \in Nat, turns' <= turns,
           queue' \in Seq(Jobs), Len(queue') <= MaxQueued,
           reading' \subseteq Jobs, IsFiniteSet(reading'),
           returned' \in 0..Workers, Cardinality(reading') + returned' <= Workers,
           waiting' \in [Games -> 0..MaxTurns], serving' \in BOOLEAN, gsiStop' \in BOOLEAN,
           Pending(reading', queue') \subseteq Pending(reading, queue)
    PROVE  GsiInv'
<1>1. GsiTypes /\ NumbersAreTurns /\ KillsAreAccounted
  BY DEF GsiInv
<1>2. GsiTypes'
  BY <1>1 DEF GsiTypes
<1>3. \A a \in Pending(reading', queue') : a.seq <= seq
  BY PendingIsTyped, <1>1, SinkAssumption DEF GsiTypes
<1>4. (\A j \in reading' : j.seq <= seq) /\ \A k \in DOMAIN queue' : queue'[k].seq <= seq
  BY <1>3 DEF Pending
<1>5. seq + turns' <= MaxTurns
  <2>1. seq + turns <= MaxTurns
    BY <1>1 DEF NumbersAreTurns
  <2>2. seq \in 0..MaxTurns /\ MaxTurns \in Nat
    BY <1>1, SinkAssumption DEF GsiTypes
  <2>3. turns' \in Nat /\ turns \in Nat /\ turns' <= turns
    OBVIOUS
  <2>4. seq \in Nat
    BY <2>2
  <2> QED
    BY <2>1, <2>2, <2>3, <2>4, FewerTurns
<1>6. NumbersAreTurns'
  BY <1>1, <1>4, <1>5 DEF NumbersAreTurns
<1>7. KillsAreAccounted'
  BY <1>1, DroppingKeepsTheAccount
<1> QED
  BY <1>2, <1>6, <1>7 DEF GsiInv

\* What the account leaves alone is of its type.
LEMMA GsiIsTyped ==
    ASSUME GsiInv, SinkTypes
    PROVE  /\ queue \in Seq(Jobs) /\ Len(queue) <= MaxQueued /\ Len(queue) \in Nat
           /\ reading \subseteq Jobs /\ IsFiniteSet(reading) /\ Cardinality(reading) \in Nat
           /\ returned \in 0..Workers /\ Cardinality(reading) + returned <= Workers
           /\ waiting \in [Games -> 0..MaxTurns] /\ serving \in BOOLEAN /\ gsiStop \in BOOLEAN
           /\ turns \in Nat /\ turns <= MaxTurns /\ MaxTurns \in Nat /\ Workers \in Nat /\ MaxQueued \in Nat
           /\ seq \in Nat /\ last_seq \in 0..seq /\ seq + turns <= MaxTurns
<1>1. IsFiniteSet(reading)
  BY DEF GsiInv, NumbersAreTurns
<1>2. Cardinality(reading) \in Nat
  BY <1>1, FS_CardinalityType
<1>3. /\ queue \in Seq(Jobs) /\ Len(queue) <= MaxQueued
      /\ reading \subseteq Jobs /\ returned \in 0..Workers /\ Cardinality(reading) + returned <= Workers
      /\ waiting \in [Games -> 0..MaxTurns] /\ serving \in BOOLEAN /\ gsiStop \in BOOLEAN
      /\ seq \in 0..MaxTurns /\ last_seq \in 0..seq /\ seq + turns <= MaxTurns
  BY DEF GsiInv, GsiTypes, NumbersAreTurns
<1>4. turns \in Nat /\ turns <= MaxTurns /\ MaxTurns \in Nat /\ Workers \in Nat /\ MaxQueued \in Nat
  BY SinkAssumption, GsiAssumption DEF SinkTypes
<1>5. Len(queue) \in Nat
  BY <1>3
<1> QED
  BY <1>1, <1>2, <1>3, <1>4, <1>5

\* A connection fewer with the readers.
LEMMA AReaderIsDone ==
    ASSUME GsiInv, SinkTypes, NEW job \in reading, Ends(job)
    PROVE  /\ reading' \subseteq Jobs /\ IsFiniteSet(reading') /\ returned' \in 0..Workers
           /\ Cardinality(reading') + returned' <= Workers /\ waiting' \in [Games -> 0..MaxTurns]
           /\ reading' \subseteq reading
<1>1. reading' = reading \ {job} /\ returned' = returned /\ Closed({job})
  BY DEF Ends
<1>2. IsFiniteSet(reading') /\ Cardinality(reading') <= Cardinality(reading)
  BY <1>1, GsiIsTyped, FS_Subset
<1>3. Cardinality(reading') \in Nat
  BY <1>2, FS_CardinalityType
<1>4. waiting' \in [Games -> 0..MaxTurns]
  BY <1>1, GsiIsTyped, ClosingKeepsWaiting
<1> QED
  BY <1>1, <1>2, <1>3, <1>4, GsiIsTyped

LEMMA LoopKeepsGsi ==
    GsiInv /\ SinkTypes
    /\ (LoopStep \/ (\E g \in Games : TurnsAway(g) \/ GivesUp(g))
        \/ (\E job \in reading : DropsLate(job) \/ Refuses(job)))
    => GsiInv'
<1> SUFFICES ASSUME GsiInv, SinkTypes,
                    \/ LoopStep \/ \E g \in Games : TurnsAway(g) \/ GivesUp(g)
                    \/ \E job \in reading : DropsLate(job) \/ Refuses(job)
             PROVE  GsiInv'
  OBVIOUS
<1>1. UNCHANGED <<match, made, seq, last_seq, baseline, reported>>
  BY DEF LoopStep, ListenerToldToStop, LoopEnds, ReaderLeaves, Takes, QueueDropped, TurnsAway, GivesUp,
         DropsLate, Refuses, worldVars, gsiVars, listenVars
<1>2. TakesATurn \/ GoesWrong \/ NoTurn
  BY DEF LoopStep, ListenerToldToStop, LoopEnds, ReaderLeaves, Takes, QueueDropped, TurnsAway, GivesUp,
         DropsLate, Refuses
<1>3. turns' \in Nat /\ turns' <= turns
  BY <1>2, TurnsStayInBounds, SinkAssumption DEF BoundsHold
<1>4. /\ queue \in Seq(Jobs) /\ Len(queue) <= MaxQueued /\ Len(queue) \in Nat
      /\ reading \subseteq Jobs /\ IsFiniteSet(reading) /\ Cardinality(reading) \in Nat
      /\ returned \in 0..Workers /\ Cardinality(reading) + returned <= Workers
      /\ waiting \in [Games -> 0..MaxTurns] /\ serving \in BOOLEAN /\ gsiStop \in BOOLEAN
      /\ turns \in Nat /\ Workers \in Nat /\ MaxQueued \in Nat /\ MaxTurns \in Nat
  BY GsiIsTyped
<1>5. CASE UNCHANGED <<queue, reading, returned>> /\ waiting' \in [Games -> 0..MaxTurns]
           /\ serving' \in BOOLEAN /\ gsiStop' \in BOOLEAN
  BY <1>1, <1>3, <1>4, <1>5, DroppingKeepsGsi
<1>6. CASE ListenerToldToStop \/ LoopEnds \/ \E g \in Games : TurnsAway(g) \/ GivesUp(g)
  <2>1. waiting' \in [Games -> 0..MaxTurns]
    BY <1>4, <1>6 DEF ListenerToldToStop, LoopEnds, TurnsAway, GivesUp, gsiVars, listenVars
  <2> QED
    BY <1>4, <1>5, <1>6, <2>1 DEF ListenerToldToStop, LoopEnds, TurnsAway, GivesUp, gsiVars, listenVars
<1>7. CASE ReaderLeaves
  <2>1. UNCHANGED <<queue, reading, waiting, serving, gsiStop>> /\ returned' = returned + 1
        /\ Cardinality(reading) + returned < Workers
    BY <1>7 DEF ReaderLeaves, HasIdleReader
  <2>2. returned' \in 0..Workers /\ Cardinality(reading') + returned' <= Workers
    BY <1>4, <2>1
  <2> QED
    BY <1>1, <1>3, <1>4, <2>1, <2>2, DroppingKeepsGsi
<1>8. CASE Takes
  <2>1. /\ queue # <<>> /\ queue' = Tail(queue) /\ UNCHANGED <<serving, gsiStop>>
        /\ Cardinality(reading) + returned < Workers
    BY <1>8 DEF Takes, HasIdleReader
  <2>2. /\ queue' \in Seq(Jobs) /\ Len(queue') <= MaxQueued /\ Head(queue) \in Jobs
        /\ \A k \in DOMAIN queue' : k + 1 \in DOMAIN queue /\ queue'[k] = queue[k + 1]
        /\ 1 \in DOMAIN queue /\ Head(queue) = queue[1]
    BY <1>4, <2>1
  <2>3. Pending(reading \cup {Head(queue)}, queue') \subseteq Pending(reading, queue)
    BY <2>2 DEF Pending
  <2>4. CASE gsiStop
    <3>1. returned' = returned + 1 /\ Closed({Head(queue)}) /\ reading' = reading
      BY <1>8, <2>4 DEF Takes
    <3>2. waiting' \in [Games -> 0..MaxTurns]
      BY <1>4, <3>1, ClosingKeepsWaiting
    <3>3. returned' \in 0..Workers /\ Cardinality(reading') + returned' <= Workers
      BY <1>4, <2>1, <3>1
    <3>4. Pending(reading', queue') \subseteq Pending(reading, queue)
      BY <2>3, <3>1 DEF Pending
    <3> QED
      BY <1>1, <1>3, <1>4, <2>1, <2>2, <3>1, <3>2, <3>3, <3>4, DroppingKeepsGsi
  <2>5. CASE ~gsiStop
    <3>1. reading' = reading \cup {Head(queue)} /\ returned' = returned /\ waiting' = waiting
      BY <1>8, <2>5 DEF Takes
    <3>2. IsFiniteSet(reading') /\ Cardinality(reading') <= Cardinality(reading) + 1
          /\ Cardinality(reading') \in Nat
      <4>1. /\ IsFiniteSet(reading')
            /\ \/ Cardinality(reading') = Cardinality(reading)
               \/ Cardinality(reading') = Cardinality(reading) + 1
        BY <1>4, <3>1, FS_AddElement
      <4> QED
        BY <1>4, <4>1
    <3>3. Cardinality(reading') + returned' <= Workers
      BY <1>4, <2>1, <3>1, <3>2
    <3>4. reading' \subseteq Jobs
      BY <1>4, <2>2, <3>1
    <3>5. Pending(reading', queue') \subseteq Pending(reading, queue)
      BY <2>3, <3>1
    <3> QED
      BY <1>1, <1>3, <1>4, <2>1, <2>2, <3>1, <3>2, <3>3, <3>4, <3>5, DroppingKeepsGsi
  <2> QED
    BY <2>4, <2>5
<1>9. CASE QueueDropped
  <2>1. queue' = <<>> /\ UNCHANGED <<reading, returned, serving, gsiStop>> /\ Closed(ToSet(queue))
    BY <1>9 DEF QueueDropped
  <2>2. waiting' \in [Games -> 0..MaxTurns]
    BY <1>4, <2>1, ClosingKeepsWaiting
  <2>3. queue' \in Seq(Jobs) /\ Len(queue') <= MaxQueued /\ DOMAIN queue' = {}
    BY <1>4, <2>1
  <2>4. Pending(reading', queue') \subseteq Pending(reading, queue)
    BY <2>1, <2>3 DEF Pending
  <2> QED
    BY <1>1, <1>3, <1>4, <2>1, <2>2, <2>3, <2>4, DroppingKeepsGsi
<1>10. ASSUME NEW job \in reading, DropsLate(job) \/ Refuses(job) PROVE GsiInv'
  <2>1. Ends(job) /\ UNCHANGED <<queue, serving, gsiStop>>
    BY <1>10 DEF DropsLate, Refuses
  <2>2. /\ reading' \subseteq Jobs /\ IsFiniteSet(reading') /\ returned' \in 0..Workers
        /\ Cardinality(reading') + returned' <= Workers /\ waiting' \in [Games -> 0..MaxTurns]
        /\ reading' \subseteq reading
    BY <2>1, AReaderIsDone
  <2>3. Pending(reading', queue') \subseteq Pending(reading, queue)
    BY <2>1, <2>2 DEF Pending
  <2> QED
    BY <1>1, <1>3, <1>4, <2>1, <2>2, <2>3, DroppingKeepsGsi
<1> QED
  BY <1>6, <1>7, <1>8, <1>9, <1>10 DEF LoopStep

\* A match that starts, moves or counts a kill is a match.
LEMMA PlaysAreMatches ==
    ASSUME match \in [Games -> Matches], NEW g \in Games, NEW next \in Matches, Plays(g, next)
    PROVE  /\ match' \in [Games -> Matches]
           /\ match'[g] = next /\ \A h \in Games : h # g => match'[h] = match[h]
           /\ UNCHANGED listenVars /\ TakesATurn
  BY DEF Plays

\* A match as its parts, which may all move.
IsMatch(m, playing, view, kills, round, over, planted) ==
    m = [playing |-> playing, view |-> view, kills |-> kills, round |-> round, over |-> over, planted |-> planted]

MatchParts(playing, view, kills, round, over, planted) ==
    /\ playing \in BOOLEAN /\ view \in Players \cup {Nobody} /\ kills \in [Players -> Nat]
    /\ round \in Nat /\ over \in BOOLEAN /\ planted \in BOOLEAN

LEMMA AMatchOfItsParts ==
    ASSUME NEW playing, NEW view, NEW kills, NEW round, NEW over, NEW planted, NEW m,
           IsMatch(m, playing, view, kills, round, over, planted),
           MatchParts(playing, view, kills, round, over, planted)
    PROVE  m \in Matches
  BY DEF IsMatch, Matches, MatchParts

LEMMA KillsOfItsParts ==
    ASSUME NEW playing, NEW view, NEW kills, NEW round, NEW over, NEW planted, NEW m,
           IsMatch(m, playing, view, kills, round, over, planted)
    PROVE  m.kills = kills
  BY DEF IsMatch

LEMMA MatchesAreTyped ==
    ASSUME NEW m \in Matches
    PROVE  /\ m.kills \in [Players -> Nat]
           /\ m.playing \in BOOLEAN /\ m.view \in Players \cup {Nobody}
           /\ m.round \in Nat /\ m.over \in BOOLEAN /\ m.planted \in BOOLEAN
           /\ IsMatch(m, m.playing, m.view, m.kills, m.round, m.over, m.planted)
  BY DEF Matches, IsMatch

LEMMA MatchesMove ==
    ASSUME NEW playing, NEW view, NEW kills, NEW round, NEW over, NEW planted, NEW m,
           IsMatch(m, playing, view, kills, round, over, planted)
    PROVE  /\ IsMatch([m EXCEPT !.planted = TRUE], playing, view, kills, round, over, TRUE)
           /\ IsMatch([m EXCEPT !.over = TRUE], playing, view, kills, round, TRUE, planted)
           /\ IsMatch([m EXCEPT !.over = FALSE, !.planted = FALSE, !.round = @ + 1],
                      playing, view, kills, round + 1, FALSE, FALSE)
           /\ \A p : IsMatch([m EXCEPT !.view = p], playing, p, kills, round, over, planted)
           /\ IsMatch([m EXCEPT !.playing = FALSE], FALSE, view, kills, round, over, planted)
           /\ \A p : IsMatch([m EXCEPT !.kills[p] = @ + 1], playing, view, [kills EXCEPT ![p] = @ + 1],
                             round, over, planted)
           /\ \A q, r : IsMatch([m EXCEPT !.playing = TRUE, !.view = q, !.round = r],
                                TRUE, q, kills, r, over, planted)
<1>1. ASSUME NEW p PROVE IsMatch([m EXCEPT !.planted = p], playing, view, kills, round, over, p)
  BY DEF IsMatch
<1>2. ASSUME NEW p PROVE IsMatch([m EXCEPT !.over = p], playing, view, kills, round, p, planted)
  BY DEF IsMatch
<1>3. ASSUME NEW p, NEW q
      PROVE  IsMatch([m EXCEPT !.over = p, !.planted = q, !.round = @ + 1],
                     playing, view, kills, round + 1, p, q)
  <2> DEFINE a == [m EXCEPT !.over = p]
             b == [a EXCEPT !.planted = q]
             c == [b EXCEPT !.round = m.round + 1]
  <2>1. [m EXCEPT !.over = p, !.planted = q, !.round = @ + 1] = c
    BY Zenon
  <2>2. IsMatch(a, playing, view, kills, round, p, planted) /\ m.round = round
    BY DEF IsMatch
  <2> HIDE DEF a
  <2>3. IsMatch(b, playing, view, kills, round, p, q)
    BY <2>2 DEF IsMatch
  <2> HIDE DEF b
  <2>4. IsMatch(c, playing, view, kills, round + 1, p, q)
    BY <2>2, <2>3 DEF IsMatch
  <2> HIDE DEF c
  <2> QED
    BY <2>1, <2>4, Zenon
<1>4. ASSUME NEW p PROVE IsMatch([m EXCEPT !.view = p], playing, p, kills, round, over, planted)
  BY DEF IsMatch
<1>5. ASSUME NEW p PROVE IsMatch([m EXCEPT !.playing = p], p, view, kills, round, over, planted)
  BY DEF IsMatch
<1>6. ASSUME NEW p
      PROVE  IsMatch([m EXCEPT !.kills[p] = @ + 1], playing, view, [kills EXCEPT ![p] = @ + 1],
                     round, over, planted)
  BY DEF IsMatch
<1>7. ASSUME NEW p, NEW q, NEW r
      PROVE  IsMatch([m EXCEPT !.playing = p, !.view = q, !.round = r], p, q, kills, r, over, planted)
  <2> DEFINE a == [m EXCEPT !.playing = p]
             b == [a EXCEPT !.view = q]
             c == [b EXCEPT !.round = r]
  <2>1. [m EXCEPT !.playing = p, !.view = q, !.round = r] = c
    BY Zenon
  <2>2. IsMatch(a, p, view, kills, round, over, planted)
    BY DEF IsMatch
  <2> HIDE DEF a
  <2>3. IsMatch(b, p, q, kills, round, over, planted)
    BY <2>2 DEF IsMatch
  <2> HIDE DEF b
  <2>4. IsMatch(c, p, q, kills, r, over, planted)
    BY <2>3 DEF IsMatch
  <2> HIDE DEF c
  <2> QED
    BY <2>1, <2>4, Zenon
<1> QED
  BY <1>1, <1>2, <1>3, <1>4, <1>5, <1>6, <1>7, Zenon

LEMMA ANewMatch ==
    ASSUME NEW p \in Players
    PROVE  Match(p) \in Matches /\ \A q \in Players : Match(p).kills[q] = 0
<1> DEFINE zeros == [q \in Players |-> 0]
<1>a. IsMatch(NoMatch, FALSE, Nobody, zeros, 0, FALSE, FALSE)
  BY DEF IsMatch, NoMatch
<1>b. Match(p) = [NoMatch EXCEPT !.playing = TRUE, !.view = p, !.round = 1]
  BY DEF Match
<1> HIDE DEF zeros
<1>2. zeros \in [Players -> Nat] /\ 1 \in Nat /\ p \in Players \cup {Nobody}
  BY DEF zeros
<1>3. IsMatch(Match(p), TRUE, p, zeros, 1, FALSE, FALSE)
  <2>1. IsMatch([NoMatch EXCEPT !.playing = TRUE, !.view = p, !.round = 1], TRUE, p, zeros, 1, FALSE, FALSE)
    BY <1>a, MatchesMove, Zenon
  <2> QED
    BY <1>b, <2>1, Zenon
<1>4. MatchParts(TRUE, p, zeros, 1, FALSE, FALSE)
  BY <1>2 DEF MatchParts
<1>5. Match(p) \in Matches
  BY <1>3, <1>4, AMatchOfItsParts, Zenon
<1>6. Match(p).kills = zeros
  BY <1>3, KillsOfItsParts, Zenon
<1> QED
  BY <1>5, <1>6 DEF zeros

LEMMA PlayingKeepsGsi ==
    ASSUME GsiInv, SinkTypes, NEW g \in Games, NEW next \in Matches, Plays(g, next),
           made' \in [Games -> [Players -> Nat]],
           \A h \in Games, p \in Players : h # g => made'[h][p] = made[h][p],
           \A p \in Players : /\ next.kills[p] + made[g][p] <= match[g].kills[p] + made'[g][p]
                              /\ made[g][p] <= made'[g][p]
    PROVE  GsiInv'
<1>1. GsiTypes /\ NumbersAreTurns /\ match \in [Games -> Matches] /\ made \in [Games -> [Players -> Nat]]
  BY DEF GsiInv, NumbersAreTurns, GsiTypes
<1>2. /\ match' \in [Games -> Matches] /\ UNCHANGED listenVars /\ TakesATurn
      /\ match'[g] = next /\ \A h \in Games : h # g => match'[h] = match[h]
  BY <1>1, PlaysAreMatches
<1>3. \A h \in Games, p \in Players :
          /\ match'[h].kills[p] + made[h][p] <= match[h].kills[p] + made'[h][p]
          /\ made[h][p] <= made'[h][p]
  <2>1. ASSUME NEW h \in Games, NEW p \in Players, h # g
        PROVE  /\ match'[h].kills[p] + made[h][p] <= match[h].kills[p] + made'[h][p]
               /\ made[h][p] <= made'[h][p]
    <3>1. match[h].kills[p] \in Nat /\ made[h][p] \in Nat
      BY <1>1 DEF Matches
    <3>2. match'[h].kills[p] = match[h].kills[p] /\ made'[h][p] = made[h][p]
      BY <1>2, <2>1
    <3> QED
      BY <3>1, <3>2
  <2> QED
    BY <1>2, <2>1
<1>4. KillsAreAccounted'
  BY <1>2, <1>3, PlayingKeepsTheAccount
<1>5. GsiTypes'
  BY <1>1, <1>2 DEF GsiTypes, listenVars
<1>6. turns' \in Nat /\ turns' <= turns
  BY <1>2, TurnsStayInBounds, SinkAssumption DEF BoundsHold
<1>7. seq + turns' <= MaxTurns
  <2>1. seq + turns <= MaxTurns /\ seq \in Nat /\ turns \in Nat /\ MaxTurns \in Nat
    BY GsiIsTyped
  <2> QED
    BY <1>6, <2>1, FewerTurns
<1>8. NumbersAreTurns'
  BY <1>1, <1>2, <1>7 DEF NumbersAreTurns, listenVars
<1> QED
  BY <1>4, <1>5, <1>8 DEF GsiInv

LEMMA GamesKeepGsi ==
    ASSUME GsiInv, SinkTypes, NEW g \in Games,
           MatchStarts(g) \/ MatchMoves(g) \/ \E p \in Players : Kill(g, p)
    PROVE  GsiInv'
<1>1. match \in [Games -> Matches] /\ made \in [Games -> [Players -> Nat]] /\ match[g] \in Matches
  BY DEF GsiInv, NumbersAreTurns, GsiTypes
<1>2. \A p \in Players : match[g].kills[p] \in Nat /\ made[g][p] \in Nat
  BY <1>1 DEF Matches
<1>3. ASSUME NEW next \in Matches, Plays(g, next), UNCHANGED made,
             \A p \in Players : next.kills[p] = 0 \/ next.kills[p] = match[g].kills[p]
      PROVE  GsiInv'
  <2>1. \A p \in Players : /\ next.kills[p] + made[g][p] <= match[g].kills[p] + made'[g][p]
                           /\ made[g][p] <= made'[g][p]
    BY <1>2, <1>3
  <2> QED
    BY <1>1, <1>3, <2>1, PlayingKeepsGsi
<1>4. CASE MatchStarts(g)
  <2>1. PICK p \in Players : Plays(g, Match(p)) /\ UNCHANGED made
    BY <1>4 DEF MatchStarts
  <2> QED
    BY <1>3, <2>1, ANewMatch
<1>5. CASE MatchMoves(g)
  <2> DEFINE m == match[g]
  <2>a. /\ m.kills \in [Players -> Nat] /\ m.playing \in BOOLEAN /\ m.view \in Players \cup {Nobody}
        /\ m.round \in Nat /\ m.round + 1 \in Nat /\ m.over \in BOOLEAN /\ m.planted \in BOOLEAN
    BY <1>1, MatchesAreTyped
  <2>1. PICK next \in Matches : Plays(g, next) /\ next.kills = match[g].kills
    <3>1. \/ Plays(g, [m EXCEPT !.planted = TRUE]) \/ Plays(g, [m EXCEPT !.over = TRUE])
          \/ Plays(g, [m EXCEPT !.over = FALSE, !.planted = FALSE, !.round = @ + 1])
          \/ \E p \in Players \cup {Nobody} : Plays(g, [m EXCEPT !.view = p])
          \/ Plays(g, [m EXCEPT !.playing = FALSE])
      BY <1>5 DEF MatchMoves
    <3>2. m \in Matches
      BY <1>1
    <3> HIDE DEF m
    <3> DEFINE Keeps(r) == r \in Matches /\ r.kills = m.kills
    <3>a. ASSUME NEW r, NEW playing, NEW view, NEW round, NEW over, NEW planted,
                 IsMatch(r, playing, view, m.kills, round, over, planted),
                 MatchParts(playing, view, m.kills, round, over, planted)
          PROVE  Keeps(r)
      <4>1. r \in Matches
        BY <3>a, AMatchOfItsParts, Zenon
      <4>2. r.kills = m.kills
        BY <3>a, KillsOfItsParts, Zenon
      <4> QED
        BY <4>1, <4>2
    <3>b. IsMatch(m, m.playing, m.view, m.kills, m.round, m.over, m.planted)
      BY <3>2, MatchesAreTyped
    <3> HIDE DEF Keeps
    <3>3. Keeps([m EXCEPT !.planted = TRUE])
      <4>1. IsMatch([m EXCEPT !.planted = TRUE], m.playing, m.view, m.kills, m.round, m.over, TRUE)
        BY <3>b, MatchesMove, Zenon
      <4>2. MatchParts(m.playing, m.view, m.kills, m.round, m.over, TRUE)
        BY <2>a DEF MatchParts
      <4> QED
        BY <3>a, <4>1, <4>2, Zenon
    <3>4. Keeps([m EXCEPT !.over = TRUE])
      <4>1. IsMatch([m EXCEPT !.over = TRUE], m.playing, m.view, m.kills, m.round, TRUE, m.planted)
        BY <3>b, MatchesMove, Zenon
      <4>2. MatchParts(m.playing, m.view, m.kills, m.round, TRUE, m.planted)
        BY <2>a DEF MatchParts
      <4> QED
        BY <3>a, <4>1, <4>2, Zenon
    <3>5. Keeps([m EXCEPT !.over = FALSE, !.planted = FALSE, !.round = @ + 1])
      <4>1. IsMatch([m EXCEPT !.over = FALSE, !.planted = FALSE, !.round = @ + 1], m.playing, m.view, m.kills, m.round + 1, FALSE, FALSE)
        BY <3>b, MatchesMove, Zenon
      <4>2. MatchParts(m.playing, m.view, m.kills, m.round + 1, FALSE, FALSE)
        BY <2>a DEF MatchParts
      <4> QED
        BY <3>a, <4>1, <4>2, Zenon
    <3>7. Keeps([m EXCEPT !.playing = FALSE])
      <4>1. IsMatch([m EXCEPT !.playing = FALSE], FALSE, m.view, m.kills, m.round, m.over, m.planted)
        BY <3>b, MatchesMove, Zenon
      <4>2. MatchParts(FALSE, m.view, m.kills, m.round, m.over, m.planted)
        BY <2>a DEF MatchParts
      <4> QED
        BY <3>a, <4>1, <4>2, Zenon
    <3>8. ASSUME NEW p \in Players \cup {Nobody} PROVE Keeps([m EXCEPT !.view = p])
      <4>1. IsMatch([m EXCEPT !.view = p], m.playing, p, m.kills, m.round, m.over, m.planted)
        BY <3>b, MatchesMove, Zenon
      <4>2. MatchParts(m.playing, p, m.kills, m.round, m.over, m.planted)
        BY <2>a DEF MatchParts
      <4> QED
        BY <3>a, <4>1, <4>2, Zenon
    <3>6. \E next \in Matches : Plays(g, next) /\ next.kills = m.kills
      BY <3>1, <3>3, <3>4, <3>5, <3>7, <3>8 DEF Keeps
    <3> QED
      BY <3>6 DEF m
  <2>2. UNCHANGED made
    BY <1>5 DEF MatchMoves
  <2> QED
    BY <1>3, <2>1, <2>2
<1>6. ASSUME NEW p \in Players, Kill(g, p) PROVE GsiInv'
  <2> DEFINE next == [match[g] EXCEPT !.kills[p] = @ + 1]
  <2>1. Plays(g, next) /\ made' = [made EXCEPT ![g][p] = @ + 1]
    BY <1>6 DEF Kill
  <2>2. next \in Matches /\ next.kills = [match[g].kills EXCEPT ![p] = @ + 1]
    <3> DEFINE m == match[g]
    <3>1. /\ m.kills \in [Players -> Nat] /\ m.playing \in BOOLEAN /\ m.view \in Players \cup {Nobody}
          /\ m.round \in Nat /\ m.over \in BOOLEAN /\ m.planted \in BOOLEAN
      BY <1>1, MatchesAreTyped
    <3>2. [m.kills EXCEPT ![p] = @ + 1] \in [Players -> Nat]
      BY <3>1
    <3>3. IsMatch(m, m.playing, m.view, m.kills, m.round, m.over, m.planted)
      BY <1>1, MatchesAreTyped
    <3>4. next = [m EXCEPT !.kills[p] = @ + 1]
      OBVIOUS
    <3> HIDE DEF next, m
    <3>5. IsMatch(next, m.playing, m.view, [m.kills EXCEPT ![p] = @ + 1], m.round, m.over, m.planted)
      BY <3>3, <3>4, MatchesMove, Zenon
    <3>a. MatchParts(m.playing, m.view, [m.kills EXCEPT ![p] = @ + 1], m.round, m.over, m.planted)
      BY <3>1, <3>2 DEF MatchParts
    <3>6. next \in Matches
      BY <3>5, <3>a, AMatchOfItsParts, Zenon
    <3>7. next.kills = [m.kills EXCEPT ![p] = @ + 1]
      BY <3>5 DEF IsMatch
    <3> QED
      BY <3>6, <3>7 DEF m
  <2> HIDE DEF next
  <2>3. /\ made' \in [Games -> [Players -> Nat]]
        /\ \A h \in Games, q \in Players : h # g => made'[h][q] = made[h][q]
        /\ \A q \in Players : made'[g][q] = IF q = p THEN made[g][q] + 1 ELSE made[g][q]
    BY <1>1, <2>1
  <2>4. match[g].kills \in [Players -> Nat]
    BY <1>1 DEF Matches
  <2>5. \A q \in Players : next.kills[q] = IF q = p THEN match[g].kills[q] + 1 ELSE match[g].kills[q]
    BY <2>2, <2>4
  <2>6. ASSUME NEW q \in Players
        PROVE  /\ next.kills[q] + made[g][q] <= match[g].kills[q] + made'[g][q]
               /\ made[g][q] <= made'[g][q]
    <3>1. match[g].kills[q] \in Nat /\ made[g][q] \in Nat
      BY <1>2
    <3>2. CASE q = p
      <4>1. next.kills[q] = match[g].kills[q] + 1 /\ made'[g][q] = made[g][q] + 1
        BY <2>3, <2>5, <3>2
      <4> QED
        BY <3>1, <4>1
    <3>3. CASE q # p
      <4>1. next.kills[q] = match[g].kills[q] /\ made'[g][q] = made[g][q]
        BY <2>3, <2>5, <3>3
      <4> QED
        BY <3>1, <4>1
    <3> QED
      BY <3>2, <3>3
  <2> QED
    BY <2>1, <2>2, <2>3, <2>6, PlayingKeepsGsi
<1> QED
  BY <1>4, <1>5, <1>6

LEMMA ADocument ==
    ASSUME match \in [Games -> Matches], NEW g \in Games
    PROVE  /\ Document(g) \in Documents /\ Document(g).game = g
           /\ \A p \in Players : Document(g).player = p => Document(g).kills = match[g].kills[p]
<1> DEFINE m == match[g]
           kills == IF m.view = Nobody THEN 0 ELSE m.kills[m.view]
<1>1. m \in Matches
  OBVIOUS
<1>2. Document(g) = [game |-> g, playing |-> m.playing, player |-> m.view, kills |-> kills,
                     round |-> m.round, over |-> m.over, planted |-> m.planted]
  BY DEF Document
<1> HIDE DEF m
<1>3. m.kills \in [Players -> Nat] /\ m.view \in Players \cup {Nobody} /\ m.round \in Nat
  BY <1>1, MatchesAreTyped
<1>4. m.playing \in BOOLEAN /\ m.over \in BOOLEAN /\ m.planted \in BOOLEAN
  BY <1>1, MatchesAreTyped
<1>5. kills \in Nat
  BY <1>3
<1>6. \A p \in Players : m.view = p => kills = m.kills[p]
  BY GsiAssumption DEF Nobody
<1> HIDE DEF kills
<1>7. Document(g) \in Documents
  BY <1>2, <1>3, <1>4, <1>5 DEF Documents
<1>8. Document(g).game = g /\ Document(g).player = m.view /\ Document(g).kills = kills
  BY <1>2
<1> QED
  BY <1>6, <1>7, <1>8 DEF m

\* A connection gets the next number: until then the account is as it was, and
\* what was made by then is what is made now.
LEMMA AcceptingKeepsTheAccount ==
    ASSUME GsiInv, NEW g \in Games, seq' = seq + 1, reading' = reading,
           UNCHANGED <<match, made, last_seq, baseline, reported>>,
           Pending(reading, queue') \subseteq
               Pending(reading, queue) \cup {[seq |-> seq + 1, doc |-> Document(g)]}
    PROVE  KillsAreAccounted'
<1>1. PICK before : Account(before)
  BY DEF GsiInv, KillsAreAccounted
<1>2. /\ match \in [Games -> Matches] /\ made \in [Games -> [Players -> Nat]] /\ seq \in Nat
      /\ last_seq \in 0..seq /\ baseline \in Baselines
  BY SinkAssumption DEF GsiInv, GsiTypes, NumbersAreTurns
<1> DEFINE job == [seq |-> seq + 1, doc |-> Document(g)]
           jobs == Pending(reading, queue)
<1>3. before \in [0..seq -> [Games -> [Players -> Nat]]]
  BY <1>1 DEF Account
<1>4. PICK after : /\ after \in [0..(seq + 1) -> [Games -> [Players -> Nat]]]
                   /\ \A s \in 0..seq : after[s] = before[s]
                   /\ after[seq + 1] = made
  <2> DEFINE next == [s \in 0..(seq + 1) |-> IF s = seq + 1 THEN made ELSE before[s]]
  <2>1. /\ next \in [0..(seq + 1) -> [Games -> [Players -> Nat]]]
        /\ \A s \in 0..seq : next[s] = before[s]
        /\ next[seq + 1] = made
    BY <1>2, <1>3
  <2> HIDE DEF next
  <2> QED
    BY <2>1
<1>5. \A a \in jobs : a.seq \in 0..seq /\ a.doc.kills \in Nat
  BY PendingIsTyped
<1>6. job.seq = seq + 1 /\ job.doc = Document(g)
  OBVIOUS
<1> HIDE DEF job, jobs
<1>7. /\ Document(g).game = g
      /\ \A p \in Players : Document(g).player = p => Document(g).kills = match[g].kills[p]
  BY <1>2, ADocument
<1>8. ASSUME NEW h \in Games, NEW p \in Players
      PROVE  /\ \A s \in 0..(seq + 1) : after[s][h][p] <= made[h][p]
             /\ \A s, t \in 0..(seq + 1) : s <= t => after[s][h][p] <= after[t][h][p]
             /\ DocumentsAgree(after, jobs \cup {job}, match[h].kills[p], made[h][p], h, p)
             /\ BaselineAgrees(after, jobs \cup {job}, baseline, last_seq, match[h].kills[p], made[h][p], h, p)
             /\ reported[h][p] <= after[last_seq][h][p]
  <2>1. /\ \A s \in 0..seq : before[s][h][p] <= made[h][p]
        /\ \A s, t \in 0..seq : s <= t => before[s][h][p] <= before[t][h][p]
        /\ DocumentsAgree(before, jobs, match[h].kills[p], made[h][p], h, p)
        /\ BaselineAgrees(before, jobs, baseline, last_seq, match[h].kills[p], made[h][p], h, p)
        /\ reported[h][p] <= before[last_seq][h][p]
    BY <1>1 DEF Account, jobs
  <2> DEFINE B(s) == before[s][h][p]
             A(s) == after[s][h][p]
             k == match[h].kills[p]
             m == made[h][p]
  <2>2. k \in Nat /\ m \in Nat /\ \A s \in 0..seq : B(s) \in Nat
    BY <1>2, <1>3 DEF Matches
  <2>3. (\A s \in 0..seq : A(s) = B(s)) /\ A(seq + 1) = m
    BY <1>4
  <2>4. \A s \in 0..(seq + 1) : s \in 0..seq \/ s = seq + 1
    BY <1>2
  <2>5. \A s \in 0..seq : B(s) <= m
    BY <2>1
  <2>6. \A s, t \in 0..seq : s <= t => B(s) <= B(t)
    BY <2>1
  <2>7. \A a \in jobs : OfPlayer(a.doc, h, p) =>
            /\ k + B(a.seq) <= a.doc.kills + m
            /\ \A b \in jobs : OfPlayer(b.doc, h, p) /\ a.seq < b.seq =>
                   b.doc.kills + B(a.seq) <= a.doc.kills + B(b.seq)
    BY <2>1 DEF DocumentsAgree
  <2>8. baseline.in_game /\ OfPlayer(baseline, h, p) =>
            /\ k + B(last_seq) <= baseline.kills + m
            /\ \A a \in jobs : OfPlayer(a.doc, h, p) /\ a.seq > last_seq =>
                   a.doc.kills + B(last_seq) <= baseline.kills + B(a.seq)
    BY <2>1 DEF BaselineAgrees
  <2>9. OfPlayer(job.doc, h, p) => job.doc.kills = k
    BY <1>6, <1>7 DEF OfPlayer
  <2>10. DocumentsAgree(after, jobs \cup {job}, match[h].kills[p], made[h][p], h, p)
    <3> SUFFICES \A a \in jobs \cup {job} : OfPlayer(a.doc, h, p) =>
            /\ k + A(a.seq) <= a.doc.kills + m
            /\ \A b \in jobs \cup {job} : OfPlayer(b.doc, h, p) /\ a.seq < b.seq =>
                   b.doc.kills + A(a.seq) <= a.doc.kills + A(b.seq)
      BY DEF DocumentsAgree
    <3> HIDE DEF A, B, k, m
    <3>1. ASSUME NEW a \in jobs, OfPlayer(a.doc, h, p), NEW b \in jobs, OfPlayer(b.doc, h, p), a.seq < b.seq
          PROVE  b.doc.kills + A(a.seq) <= a.doc.kills + A(b.seq)
      BY <1>5, <2>3, <2>7, <3>1
    <3>2. ASSUME NEW a \in jobs, OfPlayer(a.doc, h, p), OfPlayer(job.doc, h, p)
          PROVE  job.doc.kills + A(a.seq) <= a.doc.kills + A(job.seq)
      BY <1>5, <1>6, <2>3, <2>7, <2>9, <3>2
    <3>3. ASSUME NEW a \in jobs, OfPlayer(a.doc, h, p) PROVE k + A(a.seq) <= a.doc.kills + m
      BY <1>5, <2>3, <2>7, <3>3
    <3>4. ASSUME OfPlayer(job.doc, h, p) PROVE k + A(job.seq) <= job.doc.kills + m
      BY <1>6, <2>2, <2>3, <2>9, <3>4
    <3>5. \A b \in jobs \cup {job} : ~(job.seq < b.seq)
      BY <1>2, <1>5, <1>6
    <3> QED
      BY <3>1, <3>2, <3>3, <3>4, <3>5
  <2>11. BaselineAgrees(after, jobs \cup {job}, baseline, last_seq, match[h].kills[p], made[h][p], h, p)
    <3> SUFFICES ASSUME baseline.in_game, OfPlayer(baseline, h, p)
                 PROVE  /\ k + A(last_seq) <= baseline.kills + m
                        /\ \A a \in jobs \cup {job} : OfPlayer(a.doc, h, p) /\ a.seq > last_seq =>
                               a.doc.kills + A(last_seq) <= baseline.kills + A(a.seq)
      BY DEF BaselineAgrees
    <3> HIDE DEF A, B, k, m
    <3>1. k + A(last_seq) <= baseline.kills + m
      BY <1>2, <2>3, <2>8
    <3>2. ASSUME NEW a \in jobs, OfPlayer(a.doc, h, p), a.seq > last_seq
          PROVE  a.doc.kills + A(last_seq) <= baseline.kills + A(a.seq)
      BY <1>2, <1>5, <2>3, <2>8, <3>2
    <3>3. OfPlayer(job.doc, h, p) => job.doc.kills + A(last_seq) <= baseline.kills + A(job.seq)
      BY <1>6, <2>3, <2>9, <3>1
    <3> QED
      BY <3>1, <3>2, <3>3
  <2> HIDE DEF B, k, m
  <2>12. \A s \in 0..(seq + 1) : A(s) <= m
    BY <2>2, <2>3, <2>4, <2>5
  <2>13. ASSUME NEW s \in 0..(seq + 1), NEW t \in 0..(seq + 1), s <= t PROVE A(s) <= A(t)
    <3>1. CASE t = seq + 1
      BY <2>3, <2>12, <3>1
    <3>2. CASE t \in 0..seq
      <4>1. s \in 0..seq
        BY <1>2, <2>13, <3>2
      <4> QED
        BY <2>3, <2>6, <2>13, <3>2, <4>1
    <3> QED
      BY <2>4, <3>1, <3>2
  <2>14. reported[h][p] <= A(last_seq)
    BY <1>2, <1>4, <2>1
  <2> QED
    BY <2>10, <2>11, <2>12, <2>13, <2>14 DEF m
<1>9. Account(after)'
  <2> DEFINE left == Pending(reading, queue')
  <2>1. left \subseteq jobs \cup {job}
    BY DEF jobs, job
  <2>2. ASSUME NEW h \in Games, NEW p \in Players
        PROVE  /\ DocumentsAgree(after, left, match[h].kills[p], made[h][p], h, p)
               /\ BaselineAgrees(after, left, baseline, last_seq, match[h].kills[p], made[h][p], h, p)
    BY <1>8, <2>1 DEF DocumentsAgree, BaselineAgrees
  <2> QED
    BY <1>4, <1>8, <2>2 DEF Account
<1> QED
  BY <1>9 DEF KillsAreAccounted

LEMMA AcceptingKeepsGsi ==
    ASSUME GsiInv, SinkTypes, NEW g \in Games, Accepts(g)
    PROVE  GsiInv'
<1>1. GsiTypes /\ NumbersAreTurns
  BY DEF GsiInv
<1>2. /\ queue \in Seq(Jobs) /\ Len(queue) <= MaxQueued /\ Len(queue) \in Nat /\ waiting \in [Games -> 0..MaxTurns]
      /\ turns \in Nat /\ seq \in Nat /\ seq + turns <= MaxTurns /\ MaxTurns \in Nat /\ MaxQueued \in Nat
      /\ last_seq \in 0..seq
  BY GsiIsTyped
<1>3. /\ seq' = seq + 1 /\ turns > 0 /\ turns' = turns - 1
      /\ UNCHANGED <<worldVars, reading, returned, last_seq, baseline, serving, gsiStop, reported>>
  BY DEF Accepts, TakesATurn
<1>4. /\ seq' \in 0..MaxTurns /\ seq' \in 1..MaxTurns /\ seq' + turns' <= MaxTurns /\ last_seq' \in 0..seq'
      /\ seq <= seq' /\ seq' \in Nat
  BY <1>2, <1>3
<1> DEFINE job == [seq |-> seq + 1, doc |-> Document(g)]
<1>5. Document(g) \in Documents
  BY <1>1, ADocument DEF NumbersAreTurns
<1>6. job \in Jobs /\ job.seq = seq'
  BY <1>3, <1>4, <1>5 DEF Jobs
<1>7. \/ queue' = Append(queue, job) /\ Len(queue) < MaxQueued /\ waiting' = [waiting EXCEPT ![g] = seq']
      \/ queue' = queue /\ waiting' = waiting
  BY <1>3 DEF Accepts, HasRoom
<1> HIDE DEF job
<1>8. waiting' \in [Games -> 0..MaxTurns]
  BY <1>2, <1>4, <1>7
<1>9. queue' \in Seq(Jobs) /\ Len(queue') <= MaxQueued
      /\ \A k \in DOMAIN queue' : (k \in DOMAIN queue /\ queue'[k] = queue[k]) \/ queue'[k] = job
  <2>1. CASE queue' = queue
    BY <1>2, <2>1
  <2>2. CASE queue' = Append(queue, job) /\ Len(queue) < MaxQueued
    BY <1>2, <1>6, <2>2
  <2> QED
    BY <1>7, <2>1, <2>2
<1>10. Pending(reading, queue') \subseteq Pending(reading, queue) \cup {job}
  BY <1>9 DEF Pending
<1>11. KillsAreAccounted'
  BY <1>3, <1>10, AcceptingKeepsTheAccount DEF job, worldVars
<1>12. GsiTypes'
  BY <1>1, <1>3, <1>4, <1>8, <1>9 DEF GsiTypes, worldVars
<1>13. (\A j \in reading : j.seq <= seq') /\ \A k \in DOMAIN queue' : queue'[k].seq <= seq'
  <2>1. \A a \in Pending(reading, queue) : a.seq \in Nat /\ a.seq <= seq
    BY <1>2, PendingIsTyped
  <2>2. \A a \in Pending(reading, queue) \cup {job} : a.seq <= seq'
    BY <1>2, <1>4, <1>6, <2>1
  <2> QED
    BY <1>10, <2>2 DEF Pending
<1>14. NumbersAreTurns'
  BY <1>1, <1>3, <1>4, <1>13 DEF NumbersAreTurns, worldVars
<1> QED
  BY <1>11, <1>12, <1>14 DEF GsiInv

\* A document is folded: it becomes the one the next is compared with, and
\* what it shows more than the last is reported.
LEMMA FoldingKeepsTheAccount ==
    ASSUME GsiInv, NEW job \in reading, ~IsLate(job), last_seq' = job.seq,
           UNCHANGED <<match, made, seq>>, Pending(reading', queue') \subseteq Pending(reading, queue),
           reported \in [Games -> [Players -> Nat]],
           \/ baseline'.in_game = FALSE
           \/ /\ baseline'.game = job.doc.game /\ baseline'.player = job.doc.player
              /\ baseline'.kills = job.doc.kills,
           reported' = IF Counted(job.doc) = 0 THEN reported
                       ELSE [reported EXCEPT ![job.doc.game][job.doc.player] = @ + Counted(job.doc)]
    PROVE  KillsAreAccounted'
<1>1. PICK before : Account(before)
  BY DEF GsiInv, KillsAreAccounted
<1>2. /\ match \in [Games -> Matches] /\ made \in [Games -> [Players -> Nat]] /\ seq \in Nat
      /\ last_seq \in 0..seq /\ baseline \in Baselines
  BY SinkAssumption DEF GsiInv, GsiTypes, NumbersAreTurns
<1>3. before \in [0..seq -> [Games -> [Players -> Nat]]]
  BY <1>1 DEF Account
<1> DEFINE jobs == Pending(reading, queue)
           doc == job.doc
<1>4. \A a \in jobs : a.seq \in 0..seq /\ a.doc.kills \in Nat
  BY PendingIsTyped
<1>5. job \in jobs
  BY DEF Pending
<1>6. job.seq \in 0..seq /\ job.seq > last_seq
  BY <1>2, <1>4, <1>5 DEF IsLate
<1>7. baseline.kills \in Nat /\ doc.kills \in Nat
  BY <1>2, <1>4, <1>5 DEF Baselines
<1> HIDE DEF jobs
<1>8. ASSUME NEW g \in Games, NEW p \in Players
      PROVE  /\ DocumentsAgree(before, jobs, match[g].kills[p], made[g][p], g, p)
             /\ BaselineAgrees(before, jobs, baseline', job.seq, match[g].kills[p], made[g][p], g, p)
             /\ reported'[g][p] <= before[job.seq][g][p]
  <2>1. /\ \A s, t \in 0..seq : s <= t => before[s][g][p] <= before[t][g][p]
        /\ DocumentsAgree(before, jobs, match[g].kills[p], made[g][p], g, p)
        /\ BaselineAgrees(before, jobs, baseline, last_seq, match[g].kills[p], made[g][p], g, p)
        /\ reported[g][p] <= before[last_seq][g][p]
    BY <1>1 DEF Account, jobs
  <2>2. BaselineAgrees(before, jobs, baseline', job.seq, match[g].kills[p], made[g][p], g, p)
    <3>1. CASE baseline'.in_game = FALSE
      BY <3>1 DEF BaselineAgrees
    <3>2. CASE /\ baseline'.game = doc.game /\ baseline'.player = doc.player
               /\ baseline'.kills = doc.kills
      <4>1. OfPlayer(baseline', g, p) => OfPlayer(doc, g, p)
        BY <3>2 DEF OfPlayer
      <4>2. OfPlayer(doc, g, p) =>
              /\ match[g].kills[p] + before[job.seq][g][p] <= doc.kills + made[g][p]
              /\ \A b \in jobs : OfPlayer(b.doc, g, p) /\ job.seq < b.seq =>
                     b.doc.kills + before[job.seq][g][p] <= doc.kills + before[b.seq][g][p]
        BY <1>5, <2>1 DEF DocumentsAgree
      <4>3. \A b \in jobs : b.seq > job.seq => job.seq < b.seq
        BY <1>4, <1>6
      <4> QED
        BY <3>2, <4>1, <4>2, <4>3 DEF BaselineAgrees
    <3> QED
      BY <3>1, <3>2
  <2>3. reported'[g][p] <= before[job.seq][g][p]
    <3> DEFINE b == before[last_seq][g][p]
               c == before[job.seq][g][p]
               r == reported[g][p]
    <3>1. b \in Nat /\ c \in Nat /\ r \in Nat
      <4>1. before[last_seq] \in [Games -> [Players -> Nat]] /\ before[job.seq] \in [Games -> [Players -> Nat]]
        BY <1>2, <1>3, <1>6
      <4> QED
        BY <4>1
    <3>2. b <= c
      BY <1>2, <1>6, <2>1
    <3>3. r <= b
      BY <2>1
    <3>4. CASE reported'[g][p] = r
      BY <3>1, <3>2, <3>3, <3>4
    <3>5. CASE OfPlayer(doc, g, p) /\ Counted(doc) # 0 /\ reported'[g][p] = r + Counted(doc)
      <4>1. doc.playing /\ baseline.in_game /\ baseline.game = doc.game /\ Jump(doc) # 0 /\ Counted(doc) = Jump(doc)
        BY <3>5 DEF Counted
      <4>2. doc.player = baseline.player /\ Jump(doc) = doc.kills - baseline.kills
        BY <4>1 DEF Jump, SamePlayer
      <4>3. OfPlayer(baseline, g, p)
        BY <3>5, <4>1, <4>2 DEF OfPlayer
      <4>4. doc.kills + b <= baseline.kills + c
        BY <1>5, <1>6, <2>1, <3>5, <4>1, <4>3 DEF BaselineAgrees
      <4>5. reported'[g][p] = r + (doc.kills - baseline.kills)
        BY <3>5, <4>1, <4>2
      <4> HIDE DEF b, c, r
      <4> QED
        BY <1>7, <3>1, <3>3, <4>4, <4>5 DEF c
    <3>6. \/ reported'[g][p] = r
          \/ OfPlayer(doc, g, p) /\ Counted(doc) # 0 /\ reported'[g][p] = r + Counted(doc)
      <4>1. CASE Counted(doc) = 0
        BY <4>1
      <4>2. CASE Counted(doc) # 0
        <5>1. reported' = [reported EXCEPT ![doc.game][doc.player] = @ + Counted(doc)]
          BY <4>2
        <5>2. CASE OfPlayer(doc, g, p)
          BY <4>2, <5>1, <5>2 DEF OfPlayer
        <5>3. CASE ~OfPlayer(doc, g, p)
          BY <5>1, <5>3 DEF OfPlayer
        <5> QED
          BY <5>2, <5>3
      <4> QED
        BY <4>1, <4>2
    <3> QED
      BY <3>4, <3>5, <3>6
  <2> QED
    BY <2>1, <2>2, <2>3
<1>9. Account(before)'
  <2> DEFINE left == Pending(reading', queue')
  <2>1. left \subseteq jobs
    BY DEF jobs
  <2>2. ASSUME NEW g \in Games, NEW p \in Players
        PROVE  /\ DocumentsAgree(before, left, match[g].kills[p], made[g][p], g, p)
               /\ BaselineAgrees(before, left, baseline', job.seq, match[g].kills[p], made[g][p], g, p)
    BY <1>8, <2>1 DEF DocumentsAgree, BaselineAgrees
  <2> QED
    BY <1>1, <1>8, <2>2 DEF Account
<1> QED
  BY <1>9 DEF KillsAreAccounted

LEMMA DocumentsAreTyped ==
    ASSUME NEW doc \in Documents
    PROVE  /\ doc.game \in Games /\ doc.player \in Players \cup {Nobody}
           /\ doc.kills \in Nat /\ doc.round \in Nat
           /\ doc.playing \in BOOLEAN /\ doc.over \in BOOLEAN /\ doc.planted \in BOOLEAN
  BY DEF Documents

LEMMA CountsAreTyped ==
    ASSUME NEW doc \in Documents, baseline \in Baselines, Counted(doc) # 0
    PROVE  Counted(doc) \in Nat /\ doc.game \in Games /\ doc.player \in Players
<1>1. doc.kills \in Nat /\ baseline.kills \in Nat
  BY DocumentsAreTyped DEF Baselines
<1>2. Counted(doc) = Jump(doc)
  BY DEF Counted
<1>3. SamePlayer(doc) /\ doc.kills > baseline.kills /\ Jump(doc) = doc.kills - baseline.kills
  BY <1>2 DEF Jump
<1>4. doc.kills - baseline.kills \in Nat
  BY <1>1, <1>3
<1>5. doc.player # Nobody
  BY <1>3 DEF SamePlayer
<1> QED
  BY <1>2, <1>3, <1>4, <1>5, DocumentsAreTyped

LEMMA ABaseline ==
    ASSUME NEW doc \in Documents
    PROVE  /\ Baseline(doc) \in Baselines
           /\ Baseline(doc).game = doc.game /\ Baseline(doc).player = doc.player
           /\ Baseline(doc).kills = doc.kills
<1>1. Baseline(doc) \in Baselines
  BY DocumentsAreTyped DEF Baseline, Baselines
<1> QED
  BY <1>1 DEF Baseline

LEMMA NoBaselineIsOne == NoBaseline \in Baselines /\ NoBaseline.in_game = FALSE
  BY DEF NoBaseline, Baselines

LEMMA FoldingKeepsGsi ==
    ASSUME GsiInv, SinkTypes, NEW job \in reading, Folds(job)
    PROVE  GsiInv'
<1>1. GsiTypes /\ NumbersAreTurns
  BY DEF GsiInv
<1> DEFINE doc == job.doc
<1>2. job \in Jobs /\ job.seq \in 0..seq /\ doc \in Documents
  BY PendingIsTyped DEF Pending
<1>3. baseline \in Baselines /\ reported \in [Games -> [Players -> Nat]] /\ seq \in Nat
      /\ last_seq \in 0..seq /\ gsiStop \in BOOLEAN
  BY <1>1, SinkAssumption DEF GsiTypes
<1>4. /\ ~IsLate(job) /\ last_seq' = job.seq /\ Ends(job) /\ NoTurn
      /\ baseline' = IF doc.playing THEN Baseline(doc) ELSE IF baseline.in_game THEN NoBaseline ELSE baseline
      /\ reported' = IF Counted(doc) = 0 THEN reported
                     ELSE [reported EXCEPT ![doc.game][doc.player] = @ + Counted(doc)]
      /\ gsiStop' = (gsiStop \/ SendFails(Observed(doc)))
      /\ UNCHANGED <<match, made, seq, queue, serving>>
  BY DEF Folds, worldVars
<1>5. /\ reading' \subseteq Jobs /\ IsFiniteSet(reading') /\ returned' \in 0..Workers
      /\ Cardinality(reading') + returned' <= Workers /\ waiting' \in [Games -> 0..MaxTurns]
      /\ reading' \subseteq reading
  BY <1>4, AReaderIsDone
<1>6. /\ baseline' \in Baselines
      /\ \/ baseline'.in_game = FALSE
         \/ baseline'.game = doc.game /\ baseline'.player = doc.player /\ baseline'.kills = doc.kills
  <2>1. CASE doc.playing
    BY <1>2, <1>4, <2>1, ABaseline
  <2>2. CASE ~doc.playing /\ baseline.in_game
    BY <1>4, <2>2, NoBaselineIsOne
  <2>3. CASE ~doc.playing /\ ~baseline.in_game
    <3>1. baseline' = baseline
      BY <1>4, <2>3
    <3>2. baseline.in_game \in BOOLEAN
      BY <1>3 DEF Baselines
    <3> QED
      BY <1>3, <2>3, <3>1, <3>2
  <2> QED
    BY <2>1, <2>2, <2>3
<1>7. Pending(reading', queue') \subseteq Pending(reading, queue)
  BY <1>4, <1>5 DEF Pending
<1>8. KillsAreAccounted'
  BY <1>3, <1>4, <1>6, <1>7, FoldingKeepsTheAccount
<1>9. reported' \in [Games -> [Players -> Nat]]
  <2>1. CASE Counted(doc) = 0
    BY <1>3, <1>4, <2>1
  <2>2. CASE Counted(doc) # 0
    <3>1. reported' = [reported EXCEPT ![doc.game][doc.player] = @ + Counted(doc)]
      BY <1>4, <2>2
    <3>2. Counted(doc) \in Nat /\ doc.game \in Games /\ doc.player \in Players
      BY <1>2, <1>3, <2>2, CountsAreTyped
    <3> QED
      BY <1>3, <3>1, <3>2
  <2> QED
    BY <2>1, <2>2
<1>10. gsiStop' \in BOOLEAN
  BY <1>4 DEF SendFails, ReceiverGone
<1>11. last_seq' \in 0..seq
  BY <1>2, <1>4
<1>12. GsiTypes'
  BY <1>1, <1>4, <1>5, <1>6, <1>9, <1>10, <1>11 DEF GsiTypes
<1>13. NumbersAreTurns'
  <2>1. \A j \in reading' : j.seq <= seq
    BY <1>1, <1>5 DEF NumbersAreTurns
  <2> QED
    BY <1>1, <1>4, <1>5, <2>1 DEF NumbersAreTurns, NoTurn
<1> QED
  BY <1>8, <1>12, <1>13 DEF GsiInv

\* Whatever else happens takes turns at most.
LEMMA OthersKeepGsi ==
    ASSUME GsiInv, SinkTypes, UNCHANGED gsiVars, turns' \in Nat, turns' <= turns
    PROVE  GsiInv'
  BY GsiIsTyped, DroppingKeepsGsi DEF gsiVars, worldVars, listenVars, GsiInv, NumbersAreTurns, GsiTypes

LEMMA GsiStays ==
    ASSUME GsiInv, SinkTypes, Gsi
    PROVE  GsiInv'
<1>1. CASE GamesMove
  BY <1>1, GamesKeepGsi, AcceptingKeepsGsi, LoopKeepsGsi DEF GamesMove
<1>2. CASE ListenerStep
  BY <1>2, LoopKeepsGsi, FoldingKeepsGsi DEF ListenerStep, Answers
<1> QED
  BY <1>1, <1>2 DEF Gsi

LEMMA KillsAreRealThen == GsiInv => KillsAreReal
<1> SUFFICES ASSUME GsiInv, NEW g \in Games, NEW p \in Players
             PROVE  reported[g][p] <= made[g][p]
  BY DEF KillsAreReal
<1>1. PICK before : Account(before)
  BY DEF GsiInv, KillsAreAccounted
<1>2. /\ seq \in Nat /\ last_seq \in 0..seq
      /\ made \in [Games -> [Players -> Nat]] /\ reported \in [Games -> [Players -> Nat]]
  BY SinkAssumption DEF GsiInv, GsiTypes
<1>3. /\ before[last_seq][g][p] <= made[g][p] /\ reported[g][p] <= before[last_seq][g][p]
      /\ before[last_seq][g][p] \in Nat
  BY <1>1, <1>2 DEF Account
<1> QED
  BY <1>2, <1>3

-----------------------------------------------------------------------------
(* What the listener sends.                                                  *)

LEMMA AMoment ==
    ASSUME SinkTypes, NEW kind \in Kinds, NEW size \in Nat, NEW condition
    PROVE  SentNow(OneIf(condition, Moment(kind, size)), "gsi")
<1> DEFINE e == Event("gsi", kind, <<0, size>>)
<1>1. <<0, size>> \in Nat \X Nat
  OBVIOUS
<1>2. e \in Events /\ e.sent = now /\ e.source = "gsi"
  BY <1>1, AnEvent
<1> HIDE DEF e
<1>3. SentNow(<<e>>, "gsi") /\ SentNow(<<>>, "gsi")
  BY <1>2, OneEvent, NoEvents
<1>4. Moment(kind, size) = e
  BY DEF Moment, e
<1> QED
  BY <1>3, <1>4 DEF OneIf

LEMMA SentTogether ==
    ASSUME NEW source, NEW a, NEW b, SentNow(a, source), SentNow(b, source)
    PROVE  SentNow(a \o b, source)
<1>1. a \in Seq(Events) /\ b \in Seq(Events)
  BY DEF SentNow
<1>2. /\ a \o b \in Seq(Events)
      /\ \A k \in DOMAIN (a \o b) :
            \/ k \in DOMAIN a /\ (a \o b)[k] = a[k]
            \/ k - Len(a) \in DOMAIN b /\ (a \o b)[k] = b[k - Len(a)]
  BY <1>1
<1> QED
  BY <1>2 DEF SentNow

LEMMA GsiSends ==
    ASSUME GsiInv, SinkTypes, Gsi
    PROVE  /\ \E evs : SentNow(evs, "gsi") /\ channel' = channel \o evs
           /\ UNCHANGED <<closing, now>> /\ BoundsHold /\ turns' <= turns
<1>1. CASE UNCHANGED <<channel, closing, now>> /\ (TakesATurn \/ GoesWrong \/ NoTurn)
  <2>1. channel' = channel \o <<>>
    BY <1>1 DEF SinkTypes
  <2> QED
    BY <1>1, <2>1, NoEvents, TurnsStayInBounds
<1>2. ASSUME NEW job \in reading, Folds(job)
      PROVE  /\ \E evs : SentNow(evs, "gsi") /\ channel' = channel \o evs
             /\ UNCHANGED <<closing, now>> /\ BoundsHold /\ turns' <= turns
  <2> DEFINE doc == job.doc
  <2>1. Send(Observed(doc)) /\ NoTurn /\ UNCHANGED <<closing, now>>
    BY <1>2 DEF Folds
  <2>2. doc \in Documents /\ baseline \in Baselines
    BY PendingIsTyped DEF Pending, GsiInv, GsiTypes
  <2> HIDE DEF doc
  <2>3. Jump(doc) \in Nat
    <3>1. doc.kills \in Nat /\ baseline.kills \in Nat
      BY <2>2, DocumentsAreTyped DEF Baselines
    <3> QED
      BY <3>1 DEF Jump
  <2>4. {"Highlight", "Marker", "GameEnd", "GameStart"} \subseteq Kinds
    BY DEF Kinds
  <2>5. SentNow(Deltas(doc), "gsi")
    <3> DEFINE a == OneIf(Jump(doc) > 0, Moment("Highlight", Jump(doc)))
               b == OneIf(doc.game = "cs2" /\ doc.round > baseline.round, Moment("Marker", 0))
               c == OneIf(doc.game = "cs2" /\ doc.over /\ ~baseline.over, Moment("Marker", 0))
               d == OneIf(doc.game = "cs2" /\ doc.planted /\ ~baseline.planted, Moment("Highlight", 0))
    <3>1. SentNow(a, "gsi") /\ SentNow(b, "gsi") /\ SentNow(c, "gsi") /\ SentNow(d, "gsi")
      BY <2>3, <2>4, AMoment
    <3>2. Deltas(doc) = ((a \o b) \o c) \o d
      BY DEF Deltas
    <3> HIDE DEF a, b, c, d
    <3>3. SentNow(a \o b, "gsi")
      BY <3>1, SentTogether
    <3>4. SentNow((a \o b) \o c, "gsi")
      BY <3>1, <3>3, SentTogether
    <3>5. SentNow(((a \o b) \o c) \o d, "gsi")
      BY <3>1, <3>4, SentTogether
    <3> QED
      BY <3>2, <3>5
  <2>6. SentNow(OneIf(baseline.in_game, Moment("GameEnd", 0)), "gsi")
    BY <2>4, AMoment
  <2>7. SentNow(<<Moment("GameStart", 0)>>, "gsi")
    <3>1. SentNow(OneIf(TRUE, Moment("GameStart", 0)), "gsi")
      BY <2>4, AMoment
    <3> QED
      BY <3>1 DEF OneIf
  <2>8. SentNow(Observed(doc), "gsi")
    BY <2>5, <2>6, <2>7 DEF Observed
  <2>9. PICK evs : SentNow(evs, "gsi") /\ channel' = channel \o evs
    BY <2>1, <2>8, SendingGrowsTheChannel DEF doc
  <2> QED
    BY <2>1, <2>9, TurnsStayInBounds
<1>3. CASE GamesMove
  BY <1>1, <1>3 DEF GamesMove, MatchStarts, MatchMoves, TurnsAway, Accepts, GivesUp, Kill, Plays
<1>4. CASE LoopStep \/ \E job \in reading : DropsLate(job) \/ Refuses(job)
  BY <1>1, <1>4 DEF LoopStep, ListenerToldToStop, LoopEnds, ReaderLeaves, Takes, QueueDropped, DropsLate, Refuses
<1> QED
  BY <1>2, <1>3, <1>4 DEF Gsi, ListenerStep, Answers

-----------------------------------------------------------------------------
(* The driver.                                                               *)

\* A burst has an event in hand as long as its clip is not taken.
HandIsFull == driver \in {"gathering", "clipping"} => burst # <<>>

DriverHolds == SinkTypes /\ DriverTypes /\ HandIsFull

LEMMA DriverStarts == ASSUME SinkInit, DriverInit PROVE DriverHolds
<1>1. <<>> \in Seq(Events) /\ <<>> \in Seq(Timed)
  OBVIOUS
<1>2. SinkTypes
  BY <1>1 DEF SinkInit, SinkTypes
<1>3. recording \in [count : 0..MaxRecordings, on : BOOLEAN]
  <2>1. 0 \in 0..MaxRecordings /\ 1 \in 0..MaxRecordings
    BY DriverAssumption
  <2>2. CASE recording = [count |-> 0, on |-> FALSE]
    BY <2>1, <2>2
  <2>3. CASE recording = [count |-> 1, on |-> TRUE]
    BY <2>1, <2>3
  <2> QED
    BY <2>2, <2>3 DEF DriverInit
<1>4. DriverTypes
  BY <1>1, <1>3 DEF DriverInit, DriverTypes
<1> QED
  BY <1>2, <1>4 DEF DriverHolds, HandIsFull, DriverInit

\* What the driver does to the channel: it takes from it.
LEMMA ReceivingKeepsTheChannel ==
    ASSUME SinkTypes, channel # <<>>, channel' = Tail(channel)
    PROVE  /\ channel' \in Seq(Events) /\ Head(channel) \in Events /\ Len(channel') <= Len(channel)
           /\ 1 \in DOMAIN channel /\ Head(channel) = channel[1]
           /\ \A k \in DOMAIN channel' : k + 1 \in DOMAIN channel /\ channel'[k] = channel[k + 1]
  BY DEF SinkTypes

LEMMA AStamp ==
    ASSUME SinkTypes, DriverTypes, NEW e \in Events
    PROVE  Stamped(e) \in Timed /\ Stamped(e).event = e /\ Stamped(e).at_ms = now
<1>1. now \in Nat /\ recording.count \in Nat
  BY DriverAssumption DEF SinkTypes, DriverTypes
<1> QED
  BY <1>1 DEF Stamped, Timed

LEMMA ABurstIsNoted ==
    ASSUME DriverTypes, burst # <<>>
    PROVE  Tail(burst) \in Seq(Timed)
  BY DEF DriverTypes

\* What the driver takes from the channel, and what it leaves of it.
LEMMA DriverTakes ==
    ASSUME DriverHolds, Driver
    PROVE  /\ channel' \in Seq(Events) /\ Len(channel') <= Len(channel) /\ Sent = {}
           /\ closing' \in {"no", "lol", "gsi", "done"} /\ now' \in Nat
           /\ BoundsHold /\ turns' <= turns
<1>1. SinkTypes /\ channel \in Seq(Events) /\ closing \in {"no", "lol", "gsi", "done"} /\ now \in Nat
  BY DEF DriverHolds, SinkTypes
<1>2. \/ channel' = channel \/ channel' = <<>>
      \/ channel # <<>> /\ channel' = Tail(channel)
  BY DEF Driver, DriverThread, DriverStep, RecorderMoves, SourcesDropped, ReceivesMarker, ReceivesHighlight,
         Gathers, AsksForClip, ClipAnswered, NotesNext, Leaves, DropsNextSource, Tick, RecordingEnds,
         RecordingBegins, DriverDropped
<1>3. channel' \in Seq(Events) /\ Len(channel') <= Len(channel)
  <2>1. CASE channel' = channel
    BY <1>1, <2>1
  <2>2. CASE channel' = <<>>
    BY <1>1, <2>2
  <2>3. CASE channel # <<>> /\ channel' = Tail(channel)
    BY <1>1, <2>3, ReceivingKeepsTheChannel
  <2> QED
    BY <1>2, <2>1, <2>2, <2>3
<1>4. Sent = {}
  <2>1. Len(channel) \in Nat /\ Len(channel') \in Nat
    BY <1>1, <1>3
  <2>2. \A k \in (Len(channel) + 1)..Len(channel') : FALSE
    BY <1>3, <2>1
  <2> QED
    BY <2>2 DEF Sent
<1>5. TakesATurn \/ GoesWrong \/ NoTurn
  BY DEF Driver, DriverThread, DriverStep, RecorderMoves, SourcesDropped, ReceivesMarker, ReceivesHighlight,
         Gathers, AsksForClip, ClipAnswered, NotesNext, Leaves, DropsNextSource, Tick, RecordingEnds,
         RecordingBegins, DriverDropped
<1>6. closing' \in {"no", "lol", "gsi", "done"}
  BY <1>1 DEF Driver, DriverThread, DriverStep, RecorderMoves, SourcesDropped, ReceivesMarker, ReceivesHighlight,
         Gathers, AsksForClip, ClipAnswered, NotesNext, Leaves, DropsNextSource, Tick, RecordingEnds,
         RecordingBegins, DriverDropped
<1>7. now' \in Nat
  <2>1. now' = now \/ now' = now + 1
    BY DEF Driver, DriverThread, DriverStep, RecorderMoves, SourcesDropped, ReceivesMarker, ReceivesHighlight,
           Gathers, AsksForClip, ClipAnswered, NotesNext, Leaves, DropsNextSource, Tick, RecordingEnds,
           RecordingBegins, DriverDropped
  <2> QED
    BY <1>1, <2>1
<1> QED
  BY <1>1, <1>3, <1>4, <1>5, <1>6, <1>7, TurnsStayInBounds

LEMMA DriverStays ==
    ASSUME DriverHolds, Driver
    PROVE  DriverHolds'
<1>1. SinkTypes /\ DriverTypes /\ HandIsFull
  BY DEF DriverHolds
<1>2. SinkTypes'
  BY DriverTakes DEF SinkTypes, BoundsHold
<1>3. /\ driver \in {"receiving", "gathering", "clipping", "noting", "left"}
      /\ burst \in Seq(Timed) /\ now \in Nat
      /\ started \in Nat /\ last \in Nat /\ trigger \in Nat /\ stop \in BOOLEAN
      /\ recording \in [count : 0..MaxRecordings, on : BOOLEAN]
  BY <1>1 DEF DriverTypes, SinkTypes
<1>4. SUFFICES DriverTypes' /\ HandIsFull'
  BY <1>2 DEF DriverHolds
<1>5. CASE UNCHANGED <<driver, burst, started, last, trigger, stop>>
           /\ recording' \in [count : 0..MaxRecordings, on : BOOLEAN]
  BY <1>1, <1>5 DEF DriverTypes, HandIsFull
<1>6. CASE RecorderMoves
  <2>1. CASE RecordingEnds
    <3>1. recording' = [recording EXCEPT !.on = FALSE]
      BY <2>1 DEF RecordingEnds
    <3>2. recording' \in [count : 0..MaxRecordings, on : BOOLEAN]
      BY <1>3, <3>1
    <3> QED
      BY <1>5, <2>1, <3>2 DEF RecordingEnds
  <2>2. CASE RecordingBegins
    <3>1. recording' = [count |-> recording.count + 1, on |-> TRUE] /\ recording.count < MaxRecordings
      BY <2>2 DEF RecordingBegins
    <3>2. recording.count + 1 \in 0..MaxRecordings /\ TRUE \in BOOLEAN
      BY <1>3, <3>1, DriverAssumption
    <3>3. recording' \in [count : 0..MaxRecordings, on : BOOLEAN]
      BY <3>1, <3>2
    <3> QED
      BY <1>5, <2>2, <3>3 DEF RecordingBegins
  <2>3. CASE DriverDropped
    BY <1>1, <2>3 DEF DriverDropped, DriverTypes, HandIsFull
  <2> QED
    BY <1>6, <2>1, <2>2, <2>3 DEF RecorderMoves
<1>7. CASE ReceivesMarker \/ Tick(NoSource) \/ SourcesDropped
  BY <1>3, <1>5, <1>7 DEF ReceivesMarker, Tick, SourcesDropped, DropsNextSource, driverVars
<1>8. CASE ReceivesHighlight
  <2>1. /\ channel # <<>> /\ channel' = Tail(channel) /\ burst' = <<Stamped(Head(channel))>>
        /\ started' = now /\ last' = now /\ driver' = "gathering" /\ UNCHANGED <<trigger, stop, recording>>
    BY <1>8 DEF ReceivesHighlight
  <2>2. Stamped(Head(channel)) \in Timed
    BY <1>1, <2>1, ReceivingKeepsTheChannel, AStamp
  <2>3. burst' \in Seq(Timed) /\ burst' # <<>>
    BY <2>1, <2>2
  <2> QED
    BY <1>3, <2>1, <2>3 DEF DriverTypes, HandIsFull
<1>9. CASE Gathers
  <2>1. /\ channel # <<>> /\ channel' = Tail(channel) /\ burst' = Append(burst, Stamped(Head(channel)))
        /\ last' \in {now, last} /\ UNCHANGED <<driver, started, trigger, stop, recording>>
    BY <1>9 DEF Gathers
  <2>2. Stamped(Head(channel)) \in Timed
    BY <1>1, <2>1, ReceivingKeepsTheChannel, AStamp
  <2>3. burst' \in Seq(Timed) /\ Len(burst') = Len(burst) + 1 /\ Len(burst) \in Nat
    BY <1>3, <2>1, <2>2
  <2>4. burst' # <<>>
    BY <2>3
  <2> QED
    BY <1>3, <2>1, <2>3, <2>4 DEF DriverTypes, HandIsFull
<1>10. CASE AsksForClip(NoSource)
  <2>1. burst # <<>> /\ Tail(burst) \in Seq(Timed)
    BY <1>1, <1>10, ABurstIsNoted DEF AsksForClip, HandIsFull
  <2> QED
    BY <1>3, <1>10, <2>1 DEF AsksForClip, DriverTypes, HandIsFull
<1>11. CASE ClipAnswered
  <2>1. Tail(burst) \in Seq(Timed)
    BY <1>1, <1>11, ABurstIsNoted DEF ClipAnswered, HandIsFull
  <2> QED
    BY <1>3, <1>11, <2>1 DEF ClipAnswered, DriverTypes, HandIsFull
<1>12. CASE NotesNext
  <2>1. UNCHANGED <<stop, recording>>
    BY <1>12 DEF NotesNext
  <2>2. CASE Len(burst) > 1
    <3>1. burst # <<>>
      BY <2>2
    <3>2. Tail(burst) \in Seq(Timed)
      BY <1>1, <3>1, ABurstIsNoted
    <3> QED
      BY <1>3, <1>12, <2>1, <2>2, <3>2 DEF NotesNext, DriverTypes, HandIsFull
  <2>3. CASE ~(Len(burst) > 1)
    <3>1. burst' = <<>> /\ started' = 0 /\ last' = 0 /\ trigger' = 0 /\ driver' = "receiving"
      BY <1>12, <2>3 DEF NotesNext, NoBurst
    <3> QED
      BY <1>3, <2>1, <3>1 DEF DriverTypes, HandIsFull
  <2> QED
    BY <2>2, <2>3
<1>13. CASE Leaves(NoSource)
  BY <1>3, <1>13 DEF Leaves, DriverTypes, HandIsFull
<1> QED
  BY <1>6, <1>7, <1>8, <1>9, <1>10, <1>11, <1>12, <1>13 DEF Driver, DriverThread, DriverStep

\* A source's step, which appends to the channel.
LEMMA SourcesKeepTheDriver ==
    ASSUME DriverHolds, UNCHANGED driverVars, UNCHANGED <<closing, now>>, BoundsHold,
           NEW source, NEW evs, SentNow(evs, source), channel' = channel \o evs
    PROVE  DriverHolds'
<1>1. SinkTypes /\ DriverTypes /\ HandIsFull
  BY DEF DriverHolds
<1>2. channel' \in Seq(Events)
  BY <1>1, WhatWasSent DEF SentNow
<1>3. SinkTypes'
  BY <1>1, <1>2 DEF SinkTypes, BoundsHold
<1>4. DriverTypes' /\ HandIsFull'
  BY <1>1 DEF DriverTypes, HandIsFull, driverVars
<1> QED
  BY <1>3, <1>4 DEF DriverHolds

-----------------------------------------------------------------------------
(* Everything together.                                                      *)

GInv == LolInv /\ GsiInv /\ DriverHolds

LEMMA EventsStart == Init => GInv
<1> SUFFICES ASSUME Init PROVE GInv
  OBVIOUS
<1>1. PICK enabled \in SUBSET {"lol", "gsi"} : LolInit("lol" \in enabled) /\ GsiInit("gsi" \in enabled)
  BY DEF Init
<1>2. ("gsi" \in enabled) \in BOOLEAN
  OBVIOUS
<1>3. SinkInit /\ DriverInit
  BY DEF Init
<1> QED
  BY <1>1, <1>2, <1>3, LolStarts, GsiStarts, DriverStarts DEF GInv

LEMMA EventsStay == GInv /\ [Next]_vars => GInv'
<1> SUFFICES ASSUME GInv, [Next]_vars PROVE GInv'
  OBVIOUS
<1>1. LolInv /\ GsiInv /\ DriverHolds /\ SinkTypes
  BY DEF GInv, DriverHolds
<1>2. CASE League /\ UNCHANGED <<gsiVars, driverVars>>
  <2>1. PICK evs : SentNow(evs, "lol") /\ channel' = channel \o evs
    BY <1>1, <1>2, LeagueSends
  <2>2. UNCHANGED <<closing, now>> /\ BoundsHold /\ turns' <= turns
    BY <1>1, <1>2, LeagueSends
  <2>3. DriverHolds'
    BY <1>1, <1>2, <2>1, <2>2, SourcesKeepTheDriver
  <2>4. GsiInv'
    BY <1>1, <1>2, <2>2, OthersKeepGsi, SinkAssumption DEF BoundsHold
  <2> QED
    BY <1>1, <1>2, <2>3, <2>4, LolStays DEF GInv
<1>3. CASE Gsi /\ UNCHANGED <<lolVars, driverVars>>
  <2>1. PICK evs : SentNow(evs, "gsi") /\ channel' = channel \o evs
    BY <1>1, <1>3, GsiSends
  <2>2. UNCHANGED <<closing, now>> /\ BoundsHold
    BY <1>1, <1>3, GsiSends
  <2>3. DriverHolds'
    BY <1>1, <1>3, <2>1, <2>2, SourcesKeepTheDriver
  <2> QED
    BY <1>1, <1>3, <2>3, LolStays, GsiStays DEF GInv
<1>4. CASE Driver /\ UNCHANGED <<lolVars, gsiVars>>
  <2>1. turns' \in Nat /\ turns' <= turns
    BY <1>1, <1>4, DriverTakes, SinkAssumption DEF BoundsHold
  <2>2. GsiInv'
    BY <1>1, <1>4, <2>1, OthersKeepGsi
  <2> QED
    BY <1>1, <1>4, <2>2, LolStays, DriverStays DEF GInv
<1>5. CASE UNCHANGED vars
  <2>1. UNCHANGED sinkVars /\ UNCHANGED lolVars /\ UNCHANGED gsiVars /\ UNCHANGED driverVars
    BY <1>5 DEF vars
  <2>2. turns' \in Nat /\ turns' <= turns
    BY <1>1, <2>1, SinkAssumption DEF SinkTypes, sinkVars
  <2>3. GsiInv'
    BY <1>1, <2>1, <2>2, OthersKeepGsi
  <2>4. DriverHolds'
    BY <1>1, <2>1 DEF DriverHolds, SinkTypes, DriverTypes, HandIsFull, sinkVars, driverVars
  <2> QED
    BY <1>1, <2>1, <2>3, <2>4, LolStays DEF GInv
<1> QED
  BY <1>2, <1>3, <1>4, <1>5 DEF Next

LEMMA EventsHold == Spec => []GInv
  BY EventsStart, EventsStay, PTL DEF Spec

\* Whatever documents are lost, refused, read late or shown of another player,
\* what the two trackers report is what happened: every highlight of a League
\* document folded in was reported or was there at the attach, and no more
\* kills are reported of a player than he made (lol/derive.rs:85,
\* gsi/derive.rs:20, gsi.rs:730).
THEOREM TheReportsAreTrue == Spec => []ReportsAreTrue
<1>1. GInv => ReportsAreTrue
  BY KillsAreRealThen DEF GInv, LolInv, GsiInv, DriverHolds, ReportsAreTrue, TypeOK
<1> QED
  BY <1>1, EventsHold, PTL

\* A line of League's log is reported as a highlight at most once, and never if
\* it was written before the tracker attached, however often its document is
\* served and whatever restarts in between (lol/derive.rs:10, lol/derive.rs:91).
THEOREM ALineIsReportedOnce == Spec => LinesAreReportedOnce
<1>1. ASSUME GInv, [Next]_vars, NEW e \in Sent, e.source = "lol", e.kind = "Highlight"
      PROVE  e.of \notin delivered /\ ~(e.of[1] = attached.game /\ e.of[2] \in attached.lines)
  <2>1. LolInv /\ GsiInv /\ DriverHolds /\ SinkTypes
    BY <1>1 DEF GInv, DriverHolds
  <2>2. CASE League
    <3>1. PICK evs : /\ SentNow(evs, "lol") /\ channel' = channel \o evs
                     /\ \A k \in DOMAIN evs : IsNews(evs[k])
      BY <2>1, <2>2, LeagueSends
    <3>2. evs \in Seq(Events)
      BY <3>1 DEF SentNow
    <3>3. PICK k \in DOMAIN evs : e = evs[k]
      BY <1>1, <2>1, <3>1, <3>2, WhatWasSent
    <3> QED
      BY <1>1, <3>1, <3>3 DEF IsNews
  <2>3. CASE Gsi
    <3>1. PICK evs : SentNow(evs, "gsi") /\ channel' = channel \o evs
      BY <2>1, <2>3, GsiSends
    <3>2. evs \in Seq(Events)
      BY <3>1 DEF SentNow
    <3>3. PICK k \in DOMAIN evs : e = evs[k]
      BY <1>1, <2>1, <3>1, <3>2, WhatWasSent
    <3>4. e.source = "gsi"
      BY <3>1, <3>3 DEF SentNow
    <3> QED
      BY <1>1, <3>4
  <2>4. CASE Driver
    BY <1>1, <2>1, <2>4, DriverTakes
  <2>5. CASE UNCHANGED vars
    <3>1. channel' = channel /\ Len(channel) \in Nat
      BY <2>1, <2>5 DEF vars, sinkVars, SinkTypes
    <3>2. \A k \in (Len(channel) + 1)..Len(channel') : FALSE
      BY <3>1
    <3> QED
      BY <1>1, <3>2 DEF Sent
  <2> QED
    BY <1>1, <2>2, <2>3, <2>4, <2>5 DEF Next
<1>2. GInv /\ [Next]_vars =>
        /\ [\A e \in Sent : e.source = "lol" /\ e.kind = "Highlight" => e.of \notin delivered]_vars
        /\ [\A e \in Sent : e.source = "lol" /\ e.kind = "Highlight" =>
               ~(e.of[1] = attached.game /\ e.of[2] \in attached.lines)]_vars
  BY <1>1
<1> QED
  BY <1>2, EventsHold, PTL DEF Spec, LinesAreReportedOnce, NoLineTwice, NoHistoryIsClipped

-----------------------------------------------------------------------------
(* The moment and its clip.                                                  *)

\* The longest a clip is waited for.
Wait == PostRoll + Splice

SentBefore(time, wait) == \A k \in DOMAIN channel : time <= channel[k].sent + wait

\* What waits in the channel was sent while the last clip was taken, or since.
WaitIsShort ==
    /\ driver \in {"receiving", "gathering", "noting"} => SentBefore(now, Wait)
    /\ driver = "clipping" => SentBefore(trigger, 0)

\* Time passes in a burst only when the channel is empty.
BurstIsShort ==
    driver = "gathering" =>
        /\ started <= last /\ last <= now /\ now <= started + MaxBurst
        /\ started < now => SentBefore(now, 0)
        /\ \A k \in DOMAIN burst : started <= burst[k].at_ms /\ burst[k].at_ms <= burst[k].event.sent + Wait

ClipIsSoon ==
    driver = "clipping" =>
        /\ trigger <= now /\ now <= trigger + Wait
        /\ \A k \in DOMAIN burst :
               trigger <= burst[k].at_ms + MaxBurst /\ burst[k].at_ms <= burst[k].event.sent + Wait

WaitInv == WaitIsShort /\ BurstIsShort /\ ClipIsSoon

LEMMA TimesAreTyped ==
    ASSUME DriverHolds
    PROVE  /\ now \in Nat /\ started \in Nat /\ last \in Nat /\ trigger \in Nat
           /\ Wait \in Nat /\ MaxBurst \in Nat /\ Quiet \in Nat
           /\ channel \in Seq(Events) /\ burst \in Seq(Timed)
           /\ \A k \in DOMAIN channel : channel[k] \in Events /\ channel[k].sent \in Nat
           /\ \A k \in DOMAIN burst : burst[k].event.sent \in Nat /\ burst[k].at_ms \in Nat
<1>1. /\ now \in Nat /\ started \in Nat /\ last \in Nat /\ trigger \in Nat
      /\ channel \in Seq(Events) /\ burst \in Seq(Timed)
  BY DEF DriverHolds, SinkTypes, DriverTypes
<1>2. Wait \in Nat /\ MaxBurst \in Nat /\ Quiet \in Nat
  BY DriverAssumption DEF Wait
<1>3. (\A e \in Events : e.sent \in Nat) /\ (\A t \in Timed : t.event \in Events /\ t.at_ms \in Nat)
  BY DEF Events, Timed
<1> QED
  BY <1>1, <1>2, <1>3

\* Events are sent now, after whatever the driver waits for began.
LEMMA SendingKeepsTheWait ==
    ASSUME DriverHolds, WaitInv, UNCHANGED driverVars, UNCHANGED <<closing, now>>,
           NEW source, NEW evs, SentNow(evs, source), channel' = channel \o evs
    PROVE  WaitInv'
<1>1. evs \in Seq(Events) /\ \A k \in DOMAIN evs : evs[k].sent = now
  BY DEF SentNow
<1>2. \A k \in DOMAIN channel' :
         \/ k \in DOMAIN channel /\ channel'[k] = channel[k]
         \/ channel'[k].sent = now
  BY <1>1, WhatWasSent DEF DriverHolds
<1>3. now \in Nat /\ trigger \in Nat /\ Wait \in Nat
  BY TimesAreTyped
<1>4. ASSUME NEW time \in Nat, time <= now, NEW wait \in Nat, SentBefore(time, wait)
      PROVE  SentBefore(time, wait)'
  BY <1>2, <1>3, <1>4 DEF SentBefore
<1>5. UNCHANGED <<driver, burst, started, last, trigger>>
  BY DEF driverVars
<1>6. WaitIsShort'
  <2>1. driver = "clipping" => trigger <= now
    BY DEF WaitInv, ClipIsSoon
  <2>2. driver \in {"receiving", "gathering", "noting"} => SentBefore(now, Wait)
    BY DEF WaitInv, WaitIsShort
  <2>3. driver = "clipping" => SentBefore(trigger, 0)
    BY DEF WaitInv, WaitIsShort
  <2>4. driver' \in {"receiving", "gathering", "noting"} => SentBefore(now, Wait)'
    BY <1>3, <1>4, <1>5, <2>2
  <2>5. driver' = "clipping" => SentBefore(trigger, 0)'
    BY <1>3, <1>4, <1>5, <2>1, <2>3
  <2> QED
    BY <1>5, <2>4, <2>5 DEF WaitIsShort, SentBefore
<1>7. BurstIsShort'
  <2>1. SentBefore(now, 0) => SentBefore(now, 0)'
    BY <1>3, <1>4
  <2> QED
    BY <1>5, <2>1 DEF WaitInv, BurstIsShort, SentBefore
<1>8. ClipIsSoon'
  BY <1>5 DEF WaitInv, ClipIsSoon
<1> QED
  BY <1>6, <1>7, <1>8 DEF WaitInv

LEMMA TakingKeepsSentBefore ==
    ASSUME SinkTypes, NEW time, NEW wait, SentBefore(time, wait), channel # <<>>, channel' = Tail(channel)
    PROVE  /\ \A k \in DOMAIN channel' : time <= channel'[k].sent + wait
           /\ time <= Head(channel).sent + wait
  BY ReceivingKeepsTheChannel DEF SentBefore

LEMMA DriverKeepsTheWait ==
    ASSUME DriverHolds, WaitInv, Driver
    PROVE  WaitInv'
<1>1. WaitIsShort /\ BurstIsShort /\ ClipIsSoon /\ SinkTypes /\ HandIsFull /\ DriverTypes
  BY DEF WaitInv, DriverHolds
<1>2. /\ now \in Nat /\ started \in Nat /\ last \in Nat /\ trigger \in Nat
      /\ Wait \in Nat /\ MaxBurst \in Nat /\ Quiet \in Nat
      /\ channel \in Seq(Events) /\ burst \in Seq(Timed)
      /\ \A k \in DOMAIN channel : channel[k] \in Events /\ channel[k].sent \in Nat
      /\ \A k \in DOMAIN burst : burst[k].event.sent \in Nat /\ burst[k].at_ms \in Nat
  BY TimesAreTyped
<1>3. ASSUME driver' \notin {"gathering", "clipping"}, now' = now,
             driver' \in {"receiving", "noting"} => \A k \in DOMAIN channel' : now <= channel'[k].sent + Wait
      PROVE  WaitInv'
  BY <1>3 DEF WaitInv, WaitIsShort, BurstIsShort, ClipIsSoon, SentBefore
<1>4. CASE ReceivesMarker \/ NotesNext
  <2>1. driver \in {"receiving", "noting"} /\ driver' \in {"receiving", "noting"} /\ now' = now
    BY <1>4 DEF ReceivesMarker, NotesNext, driverVars
  <2>2. SentBefore(now, Wait)
    BY <1>1, <2>1 DEF WaitIsShort
  <2>3. channel' = channel \/ (channel # <<>> /\ channel' = Tail(channel))
    BY <1>4 DEF ReceivesMarker, NotesNext
  <2>4. \A k \in DOMAIN channel' : now <= channel'[k].sent + Wait
    BY <1>1, <2>2, <2>3, TakingKeepsSentBefore DEF SentBefore
  <2> QED
    BY <1>3, <2>1, <2>4
<1>5. CASE ReceivesHighlight
  <2>1. /\ driver = "receiving" /\ channel # <<>> /\ channel' = Tail(channel) /\ now' = now
        /\ burst' = <<Stamped(Head(channel))>> /\ started' = now /\ last' = now /\ driver' = "gathering"
    BY <1>5 DEF ReceivesHighlight
  <2>2. SentBefore(now, Wait)
    BY <1>1, <2>1 DEF WaitIsShort
  <2>3. /\ \A k \in DOMAIN channel' : now <= channel'[k].sent + Wait
        /\ now <= Head(channel).sent + Wait
    BY <1>1, <2>1, <2>2, TakingKeepsSentBefore
  <2>4. Stamped(Head(channel)).event = Head(channel) /\ Stamped(Head(channel)).at_ms = now
    BY <1>1, <2>1, ReceivingKeepsTheChannel, AStamp
  <2>5. \A k \in DOMAIN burst' : burst'[k] = Stamped(Head(channel))
    BY <2>1
  <2>6. WaitIsShort'
    BY <2>1, <2>3 DEF WaitIsShort, SentBefore
  <2>7. BurstIsShort'
    <3>1. started' <= last' /\ last' <= now' /\ now' <= started' + MaxBurst /\ ~(started' < now')
      BY <1>2, <2>1
    <3>2. \A k \in DOMAIN burst' : started' <= burst'[k].at_ms /\ burst'[k].at_ms <= burst'[k].event.sent + Wait
      BY <1>2, <2>1, <2>3, <2>4, <2>5
    <3> QED
      BY <3>1, <3>2 DEF BurstIsShort
  <2> QED
    BY <2>1, <2>6, <2>7 DEF WaitInv, ClipIsSoon
<1>6. CASE Gathers
  <2>1. /\ driver = "gathering" /\ ~Settled /\ channel # <<>> /\ channel' = Tail(channel) /\ now' = now
        /\ burst' = Append(burst, Stamped(Head(channel))) /\ last' \in {now, last}
        /\ UNCHANGED <<driver, started>>
    BY <1>6 DEF Gathers
  <2>2. /\ started <= last /\ last <= now /\ now <= started + MaxBurst
        /\ started < now => SentBefore(now, 0)
        /\ \A k \in DOMAIN burst : started <= burst[k].at_ms /\ burst[k].at_ms <= burst[k].event.sent + Wait
        /\ SentBefore(now, Wait)
    BY <1>1, <2>1 DEF BurstIsShort, WaitIsShort
  <2>3. /\ \A k \in DOMAIN channel' : now <= channel'[k].sent + Wait
        /\ now <= Head(channel).sent + Wait
    BY <1>1, <2>1, <2>2, TakingKeepsSentBefore
  <2>4. Stamped(Head(channel)).event = Head(channel) /\ Stamped(Head(channel)).at_ms = now
    BY <1>1, <2>1, ReceivingKeepsTheChannel, AStamp
  <2>5. \A k \in DOMAIN burst' : (k \in DOMAIN burst /\ burst'[k] = burst[k]) \/ burst'[k] = Stamped(Head(channel))
    BY <1>2, <2>1
  <2>6. started <= now
    BY <1>2, <2>2
  <2>7. \A k \in DOMAIN burst' : started <= burst'[k].at_ms /\ burst'[k].at_ms <= burst'[k].event.sent + Wait
    BY <2>2, <2>3, <2>4, <2>5, <2>6
  <2>8. started < now => \A k \in DOMAIN channel' : now <= channel'[k].sent + 0
    BY <1>1, <2>1, <2>2, TakingKeepsSentBefore
  <2>9. started' <= last' /\ last' <= now' /\ now' <= started' + MaxBurst
    BY <1>2, <2>1, <2>2
  <2>10. WaitIsShort'
    BY <2>1, <2>3 DEF WaitIsShort, SentBefore
  <2>11. BurstIsShort'
    BY <2>1, <2>7, <2>8, <2>9 DEF BurstIsShort, SentBefore
  <2> QED
    BY <2>1, <2>10, <2>11 DEF WaitInv, ClipIsSoon
<1>7. CASE AsksForClip(NoSource)
  <2>1. driver = "gathering" /\ BurstIsOver(NoSource) /\ channel' = channel /\ now' = now
    BY <1>7 DEF AsksForClip
  <2>2. /\ started <= last /\ last <= now /\ now <= started + MaxBurst
        /\ started < now => SentBefore(now, 0)
        /\ \A k \in DOMAIN burst : started <= burst[k].at_ms /\ burst[k].at_ms <= burst[k].event.sent + Wait
        /\ SentBefore(now, Wait)
    BY <1>1, <2>1 DEF BurstIsShort, WaitIsShort
  <2>3. CASE recording.on
    <3>1. driver' = "clipping" /\ trigger' = now /\ burst' = burst
      BY <1>7, <2>3 DEF AsksForClip
    <3>2. SentBefore(now, 0)
      <4>1. CASE Settled
        <5>1. started < now
          BY <1>2, <2>2, <4>1, DriverAssumption DEF Settled
        <5> QED
          BY <2>2, <5>1
      <4>2. CASE channel = <<>>
        BY <4>2 DEF SentBefore
      <4> QED
        BY <2>1, <4>1, <4>2 DEF BurstIsOver
    <3>3. \A k \in DOMAIN burst : now <= burst[k].at_ms + MaxBurst /\ burst[k].at_ms <= burst[k].event.sent + Wait
      BY <1>2, <2>2
    <3>4. now <= now + Wait /\ now <= now
      BY <1>2
    <3>5. WaitIsShort'
      BY <2>1, <2>2, <3>1, <3>2 DEF WaitIsShort, SentBefore
    <3>6. ClipIsSoon'
      BY <2>1, <3>1, <3>3, <3>4 DEF ClipIsSoon
    <3> QED
      BY <3>1, <3>5, <3>6 DEF WaitInv, BurstIsShort
  <2>4. CASE ~recording.on
    <3>1. driver' = "noting"
      BY <1>7, <2>4 DEF AsksForClip
    <3> QED
      BY <1>3, <2>1, <2>2, <3>1 DEF SentBefore
  <2> QED
    BY <2>3, <2>4
<1>8. CASE ClipAnswered
  <2>1. driver = "clipping" /\ driver' = "noting" /\ channel' = channel /\ now' = now
    BY <1>8 DEF ClipAnswered
  <2>2. now <= trigger + Wait /\ SentBefore(trigger, 0)
    BY <1>1, <2>1 DEF ClipIsSoon, WaitIsShort
  <2>3. \A k \in DOMAIN channel : now <= channel[k].sent + Wait
    BY <1>2, <2>2 DEF SentBefore
  <2> QED
    BY <1>3, <2>1, <2>3
<1>9. CASE Leaves(NoSource)
  BY <1>3, <1>9 DEF Leaves
<1>10. CASE SourcesDropped \/ RecorderMoves
  <2>1. UNCHANGED <<driver, burst, started, last, trigger, channel, now>>
    BY <1>10 DEF SourcesDropped, DropsNextSource, RecorderMoves, RecordingEnds, RecordingBegins, DriverDropped,
                 driverVars
  <2> QED
    BY <1>1, <2>1 DEF WaitInv, WaitIsShort, BurstIsShort, ClipIsSoon, SentBefore
<1>11. CASE Tick(NoSource)
  <2>1. UNCHANGED <<driver, burst, started, last, trigger, channel>> /\ now' = now + 1
    BY <1>11 DEF Tick, driverVars
  <2>2. CASE driver = "gathering" /\ ~BurstIsOver(NoSource) /\ channel = <<>>
    <3>1. now < started + MaxBurst /\ started <= last /\ last <= now
          /\ \A k \in DOMAIN burst : started <= burst[k].at_ms /\ burst[k].at_ms <= burst[k].event.sent + Wait
      BY <1>1, <1>2, <2>2 DEF BurstIsOver, Settled, BurstIsShort
    <3>2. started <= last /\ last <= now' /\ now' <= started + MaxBurst
      BY <1>2, <2>1, <3>1
    <3>3. DOMAIN channel' = {}
      BY <2>1, <2>2
    <3>4. WaitIsShort'
      BY <3>3 DEF WaitIsShort, SentBefore
    <3>5. BurstIsShort'
      BY <2>1, <3>1, <3>2, <3>3 DEF BurstIsShort, SentBefore
    <3> QED
      BY <2>1, <2>2, <3>4, <3>5 DEF WaitInv, ClipIsSoon
  <2>3. CASE driver = "clipping" /\ now < trigger + PostRoll + Splice
    <3>1. /\ trigger <= now /\ SentBefore(trigger, 0)
          /\ \A k \in DOMAIN burst :
                 trigger <= burst[k].at_ms + MaxBurst /\ burst[k].at_ms <= burst[k].event.sent + Wait
      BY <1>1, <2>3 DEF ClipIsSoon, WaitIsShort
    <3>2. PostRoll \in Nat /\ Splice \in Nat
      BY DriverAssumption
    <3>3. trigger <= now' /\ now' <= trigger + Wait
      BY <1>2, <2>1, <2>3, <3>1, <3>2 DEF Wait
    <3>4. WaitIsShort'
      BY <2>1, <2>3, <3>1 DEF WaitIsShort, SentBefore
    <3>5. ClipIsSoon'
      BY <2>1, <3>1, <3>3 DEF ClipIsSoon
    <3> QED
      BY <2>1, <2>3, <3>4, <3>5 DEF WaitInv, BurstIsShort
  <2> QED
    BY <1>11, <2>2, <2>3 DEF Tick
<1> QED
  BY <1>4, <1>5, <1>6, <1>7, <1>8, <1>9, <1>10, <1>11 DEF Driver, DriverThread, DriverStep

LEMMA WaitStarts == Init => WaitInv
<1>1. Init => driver = "receiving" /\ channel = <<>>
  BY DEF Init, SinkInit, DriverInit
<1> QED
  BY <1>1 DEF WaitInv, WaitIsShort, BurstIsShort, ClipIsSoon, SentBefore

LEMMA WaitStays == GInv /\ WaitInv /\ [Next]_vars => WaitInv'
<1> SUFFICES ASSUME GInv, WaitInv, [Next]_vars PROVE WaitInv'
  OBVIOUS
<1>1. LolInv /\ GsiInv /\ DriverHolds /\ SinkTypes
  BY DEF GInv, DriverHolds
<1>2. CASE League /\ UNCHANGED <<gsiVars, driverVars>>
  <2>1. PICK evs : SentNow(evs, "lol") /\ channel' = channel \o evs
    BY <1>1, <1>2, LeagueSends
  <2>2. UNCHANGED <<closing, now>>
    BY <1>1, <1>2, LeagueSends
  <2> QED
    BY <1>1, <1>2, <2>1, <2>2, SendingKeepsTheWait
<1>3. CASE Gsi /\ UNCHANGED <<lolVars, driverVars>>
  <2>1. PICK evs : SentNow(evs, "gsi") /\ channel' = channel \o evs
    BY <1>1, <1>3, GsiSends
  <2>2. UNCHANGED <<closing, now>>
    BY <1>1, <1>3, GsiSends
  <2> QED
    BY <1>1, <1>3, <2>1, <2>2, SendingKeepsTheWait
<1>4. CASE Driver
  BY <1>1, <1>4, DriverKeepsTheWait
<1>5. CASE UNCHANGED vars
  BY <1>5 DEF vars, sinkVars, driverVars, WaitInv, WaitIsShort, BurstIsShort, ClipIsSoon, SentBefore
<1> QED
  BY <1>2, <1>3, <1>4, <1>5 DEF Next

\* For every burst, post-roll, splice and pre-roll the configuration may give: an
\* event waits for one clip at most before it is received, and for MaxBurst after
\* that; so it is in the pre-roll of its clip whenever that is as long as both.
\* The 60% of the buffer's pre-roll that Coalesce::for_pre_roll gives a burst leave
\* 12 of the 30 s configured first, for a post-roll of 5 s and a splice; a game's own
\* pre_seconds may be shorter than that (event_driver.rs:59, 644).
THEOREM TheMomentIsInItsClip == Spec => []MomentIsInItsClip
<1>1. DriverHolds /\ WaitInv => MomentIsInItsClip
  <2> SUFFICES ASSUME DriverHolds, WaitInv, driver = "clipping", NEW k \in DOMAIN burst
               PROVE  LET sent == burst[k].event.sent
                          pre  == PreOf(burst[1].event.source)
                      IN  /\ burst[k].at_ms <= sent + PostRoll + Splice
                          /\ trigger <= burst[k].at_ms + MaxBurst
                          /\ Reach <= pre => trigger <= sent + pre
    BY DEF MomentIsInItsClip
  <2>1. trigger <= burst[k].at_ms + MaxBurst /\ burst[k].at_ms <= burst[k].event.sent + Wait
    BY DEF WaitInv, ClipIsSoon
  <2>2. trigger \in Nat /\ burst[k].event.sent \in Nat /\ burst[k].at_ms \in Nat
    BY TimesAreTyped
  <2>3. {MaxBurst, PostRoll, Splice, LolPre, GsiPre} \subseteq Nat
    BY DriverAssumption
  <2>4. PreOf(burst[1].event.source) \in Nat
    BY <2>3 DEF PreOf
  <2> QED
    BY <2>1, <2>2, <2>3, <2>4 DEF Wait, Reach
<1>2. GInv /\ WaitInv => MomentIsInItsClip
  BY <1>1 DEF GInv
<1>3. Init => WaitInv
  BY WaitStarts
<1>4. GInv /\ WaitInv /\ [Next]_vars => WaitInv'
  BY WaitStays
<1> QED
  BY <1>2, <1>3, <1>4, EventsHold, PTL DEF Spec
=============================================================================
