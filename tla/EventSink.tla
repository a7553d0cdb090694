----------------------------- MODULE EventSink -----------------------------
(***************************************************************************)
(* The channel on which the game-event sources report to the driver, and   *)
(* what the three of them share: the order in which the sources are        *)
(* dropped, the media time, and how much the world still does.             *)
(*                                                                         *)
(* An event's `of` says what it is about (for League the game and the line *)
(* of its log, for a scoreboard 0 and the size of the jump) and `sent`     *)
(* when it was sent.  Both are history: the code's events carry neither.   *)
(***************************************************************************)
EXTENDS Naturals, Sequences

CONSTANTS
    MaxTurns,     \* how often a game, a POST or a recording moves
    MaxFaults     \* how often a request, a reading or a poll goes wrong

ASSUME SinkAssumption == MaxTurns \in Nat /\ MaxFaults \in Nat

VARIABLES
    channel,      \* the events sent and not received
    closing,      \* which source is being dropped: "no", "lol", "gsi", "done"
    now,          \* the media time of the recording
    turns, faults \* what is left of the two bounds

sinkVars == <<channel, closing, now, turns, faults>>

Kinds == {"GameStart", "GameEnd", "Highlight", "Marker"}
IsHighlight(kind) == kind \in {"GameEnd", "Highlight"}

Events == [source : {"lol", "gsi"}, kind : Kinds, of : Nat \X Nat, sent : Nat]
Event(source, kind, of) == [source |-> source, kind |-> kind, of |-> of, sent |-> now]

SinkTypes ==
    /\ channel \in Seq(Events)
    /\ closing \in {"no", "lol", "gsi", "done"}
    /\ now \in Nat /\ turns \in 0..MaxTurns /\ faults \in 0..MaxFaults

SinkInit ==
    /\ channel = <<>>
    /\ closing = "no"
    /\ now = 0
    /\ turns \in 0..MaxTurns
    /\ faults \in 0..MaxFaults

\* The receiver is the first field of the sources to be dropped.
ReceiverGone == closing # "no"

\* Sending to a receiver that is gone fails, and the sender gives up.
Send(events) == channel' = IF ReceiverGone THEN channel ELSE channel \o events
SendFails(events) == ReceiverGone /\ events # <<>>

\* The world moves, or something goes wrong, while the bounds last.
TakesATurn == turns > 0 /\ turns' = turns - 1 /\ UNCHANGED faults
GoesWrong  == faults > 0 /\ faults' = faults - 1 /\ UNCHANGED turns
NoTurn     == UNCHANGED <<turns, faults>>
=============================================================================
