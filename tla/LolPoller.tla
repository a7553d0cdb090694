----------------------------- MODULE LolPoller -----------------------------
(***************************************************************************)
(* The League poller (crates/events/src/lol): the Live Client serves one   *)
(* document, the whole log of the game so far and the game's clock; the    *)
(* poller reads it about once a second, and its tracker turns what is new  *)
(* in it into events.                                                      *)
(*                                                                         *)
(* A line of the log is its place in it, which is what `EventID` counts.   *)
(* The clock runs in units longer than the five seconds a restart has to   *)
(* go back; 0 is a document that carries no clock, as in the loading       *)
(* screen.  `attached`, `delivered`, `shown` and `ended` are history.      *)
(***************************************************************************)
EXTENDS EventSink, FiniteSets, SequencesExt

CONSTANTS
    MaxGames,     \* how many games the client plays
    MaxClock      \* how far the clock of one of them runs

ASSUME LolAssumption == MaxGames \in Nat \ {0} /\ MaxClock \in Nat \ {0}

VARIABLES
    client,       \* what the Live Client serves; game 0 is no game
    played,       \* how many games it has opened
    polled,       \* whether it was asked since the clock last moved
    poller,       \* the thread: "running", "stopped"
    tracker,      \* Tracker: in_game, seen, last_game_time
    attached,     \* the game of the last attach, and the lines it had
    delivered,    \* the lines an event was derived from
    shown,        \* the highlights in the last document folded in
    ended         \* the games whose end was reported

clientVars == <<client, played, polled>>
pollerVars == <<poller, tracker, attached, delivered, shown, ended>>
lolVars == <<clientVars, pollerVars>>

Lines == {"GameStart", "Highlight", "Pacing", "GameEnd"}
NoGame == [game |-> 0, log |-> <<>>, clock |-> 0]

LolTypes ==
    /\ client \in [game : 0..MaxGames, log : Seq(Lines), clock : 0..MaxClock]
    /\ played \in 0..MaxGames
    /\ polled \in BOOLEAN
    /\ poller \in {"running", "stopped"}
    /\ tracker \in [in_game : BOOLEAN, seen : SUBSET Nat, last_game_time : 0..MaxClock]
    /\ attached \in [game : 0..MaxGames, lines : SUBSET Nat]
    /\ delivered \subseteq (1..MaxGames) \X Nat
    /\ shown \subseteq (1..MaxGames) \X Nat
    /\ ended \subseteq 1..MaxGames

LolInit(enabled) ==
    /\ client \in {NoGame, [game |-> 1, log |-> <<"GameStart">>, clock |-> 1]}
    /\ played = client.game
    /\ polled = FALSE
    /\ poller = IF enabled THEN "running" ELSE "stopped"
    /\ tracker = [in_game |-> FALSE, seen |-> {}, last_game_time |-> 0]
    /\ attached = [game |-> 0, lines |-> {}]
    /\ delivered = {}
    /\ shown = {}
    /\ ended = {}

----------------------------------------------------------------------------
(* The client.  It is outside the repository: lol/payload.rs reads it.      *)
(* What it does when nobody polls it is not followed.                       *)

Moves == poller = "running" /\ TakesATurn

\* A game opens, in the loading screen: with its first line, or none yet.
GameOpens ==
    /\ client.game = 0
    /\ played < MaxGames
    /\ played' = played + 1
    /\ \E log \in {<<>>, <<"GameStart">>} :
           client' = [game |-> played', log |-> log, clock |-> 0]
    /\ Moves
    /\ UNCHANGED <<polled, pollerVars, channel, closing, now>>

\* The log grows by a line; nothing follows the end of the game in it.
LogGrows(line) ==
    /\ client.game # 0
    /\ "GameEnd" \notin ToSet(client.log)
    /\ line = "GameStart" <=> client.log = <<>>
    /\ client' = [client EXCEPT !.log = Append(@, line)]
    /\ Moves
    /\ UNCHANGED <<played, polled, pollerVars, channel, closing, now>>

\* The clock is asked for about once a second and moves by more than five.
ClockRuns ==
    /\ client.game # 0
    /\ client.clock < MaxClock
    /\ polled
    /\ client' = [client EXCEPT !.clock = @ + 1]
    /\ polled' = FALSE
    /\ NoTurn
    /\ UNCHANGED <<played, pollerVars, channel, closing, now>>

\* The game is left: at its end, or before.
GameCloses ==
    /\ client.game # 0
    /\ client' = NoGame
    /\ Moves
    /\ UNCHANGED <<played, polled, pollerVars, channel, closing, now>>

----------------------------------------------------------------------------
(* The tracker.                                                             *)

Entry(k) == <<client.game, k>>
Highlights(log) == {k \in DOMAIN log : log[k] = "Highlight"}

\* The lines of the document no event was derived from yet.
Unseen == {k \in DOMAIN client.log : k \notin tracker.seen}

\* The clock went back: a game that began without the endpoint going quiet.
StartedAgain ==
    /\ client.clock # 0
    /\ tracker.last_game_time # 0
    /\ client.clock < tracker.last_game_time

Serves == client.game # 0

TheEnd == <<Event("lol", "GameEnd", <<attached.game, 0>>)>>

\* Mutant of Adopts: the history of the game is left unseen.
AdoptsNothing == {}

\* The keys `adopt` leaves behind.
Adopts == DOMAIN client.log

\* What the thread does with what a poll returned.
Reports(events) ==
    /\ Send(events)
    /\ poller' = IF SendFails(events) THEN "stopped" ELSE poller
    /\ polled' = TRUE
    /\ NoTurn
    /\ UNCHANGED <<client, played, closing, now>>

Polls == poller = "running" /\ closing # "lol"

\* start_game: one event, and the whole log is taken as seen.
Attaches ==
    /\ Polls
    /\ Serves
    /\ ~tracker.in_game \/ StartedAgain
    /\ tracker' = [in_game |-> TRUE, seen |-> Adopts, last_game_time |-> client.clock]
    /\ attached' = [game |-> client.game, lines |-> DOMAIN client.log]
    /\ shown' = {Entry(k) : k \in Highlights(client.log)}
    /\ UNCHANGED <<delivered, ended>>
    /\ Reports(<<Event("lol", "GameStart", <<client.game, 0>>)>>)

\* The ids that are accounted for after a document was gone through.
SeenAfter == tracker.seen \cup DOMAIN client.log

\* The steady state: every line not seen yet, in the order of the log.
Derives ==
    LET new == {k \in Unseen : k \in Highlights(client.log)}
    IN  /\ Polls
        /\ Serves /\ tracker.in_game /\ ~StartedAgain
        /\ \A k \in Unseen : client.log[k] # "GameEnd"
        /\ tracker' = [tracker EXCEPT !.seen = SeenAfter, !.last_game_time = client.clock]
        /\ delivered' = delivered \cup {Entry(k) : k \in new}
        /\ shown' = {Entry(k) : k \in Highlights(client.log)}
        /\ UNCHANGED <<attached, ended>>
        /\ \E order \in [1..Cardinality(new) -> new] :
              /\ \A i, j \in DOMAIN order : i < j => order[i] < order[j]
              /\ Reports([i \in DOMAIN order |-> Event("lol", "Highlight", Entry(order[i]))])

\* The end of the game is a line of the log: what the same document brought
\* with it is left behind.
EndsInTheLog ==
    /\ Polls
    /\ Serves /\ tracker.in_game /\ ~StartedAgain
    /\ \E k \in Unseen : client.log[k] = "GameEnd"
    /\ tracker' = [tracker EXCEPT !.in_game = FALSE, !.seen = {}]
    /\ shown' = {}
    /\ ended' = ended \cup {attached.game}
    /\ UNCHANGED <<attached, delivered>>
    /\ Reports(TheEnd)

\* end_game: the endpoint went quiet, or answers without a game.
GoesQuiet ==
    /\ Polls
    /\ ~Serves
    /\ tracker' = IF tracker.in_game
                  THEN [in_game |-> FALSE, seen |-> {}, last_game_time |-> 0]
                  ELSE tracker
    /\ shown' = {}
    /\ ended' = IF tracker.in_game THEN ended \cup {attached.game} ELSE ended
    /\ UNCHANGED <<attached, delivered>>
    /\ Reports(IF tracker.in_game THEN TheEnd ELSE <<>>)

\* A body that cannot be read, or a request that fails, leaves what is known.
CannotRead ==
    /\ Polls
    /\ GoesWrong
    /\ polled' = TRUE
    /\ UNCHANGED <<client, played, pollerVars, channel, closing, now>>

Poll == Attaches \/ Derives \/ EndsInTheLog \/ GoesQuiet

\* The handle is dropped: the thread sees its flag between two polls.
PollerStops ==
    /\ closing = "lol"
    /\ poller = "running"
    /\ poller' = "stopped"
    /\ NoTurn
    /\ UNCHANGED <<clientVars, tracker, attached, delivered, shown, ended, channel, closing, now>>

ClientMoves ==
    \/ GameOpens
    \/ \E line \in Lines : LogGrows(line)
    \/ ClockRuns
    \/ GameCloses

PollerStep == Poll \/ CannotRead \/ PollerStops
=============================================================================
