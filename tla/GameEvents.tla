---------------------------- MODULE GameEvents -----------------------------
(***************************************************************************)
(* The game events of a recorder, end to end: the League poller and the    *)
(* GSI listener on their threads, the channel, and the driver that takes   *)
(* clips and dies with its sources.  Either source may be switched off.    *)
(***************************************************************************)
EXTENDS LolPoller, GsiListener, EventDriver

vars == <<sinkVars, lolVars, gsiVars, driverVars>>

Init ==
    /\ SinkInit
    /\ DriverInit
    /\ \E enabled \in SUBSET {"lol", "gsi"} :
           LolInit("lol" \in enabled) /\ GsiInit("gsi" \in enabled)

ListenerGone == ~serving /\ ReadersLeft /\ queue = <<>>

\* No thread is left that could send.
NoSource == poller = "stopped" /\ ListenerGone

SourcesDropped ==
    \/ poller = "stopped" /\ DropsNextSource("lol", "gsi")
    \/ ListenerGone /\ DropsNextSource("gsi", "done")

DriverThread == DriverStep(NoSource) \/ Leaves(NoSource) \/ SourcesDropped

League == ClientMoves \/ PollerStep
Gsi    == GamesMove \/ ListenerStep
Driver == DriverThread \/ RecorderMoves \/ Tick(NoSource)

Next ==
    \/ League /\ UNCHANGED <<gsiVars, driverVars>>
    \/ Gsi    /\ UNCHANGED <<lolVars, driverVars>>
    \/ Driver /\ UNCHANGED <<lolVars, gsiVars>>

Fairness ==
    /\ WF_vars((Poll \/ PollerStops) /\ UNCHANGED <<gsiVars, driverVars>>)
    /\ WF_vars(LoopStep /\ UNCHANGED <<lolVars, driverVars>>)
    /\ \A n \in 1..MaxTurns :
           WF_vars(\E job \in reading :
                       job.seq = n /\ Answers(job) /\ UNCHANGED <<lolVars, driverVars>>)
    /\ WF_vars(DriverThread /\ UNCHANGED <<lolVars, gsiVars>>)
    /\ WF_vars(Tick(NoSource) /\ UNCHANGED <<lolVars, gsiVars>>)

Spec == Init /\ [][Next]_vars /\ Fairness

TypeOK == SinkTypes /\ LolTypes /\ GsiTypes /\ DriverTypes

----------------------------------------------------------------------------
(* What was sent in a step.                                                 *)

Sent == {channel'[k] : k \in (Len(channel) + 1)..Len(channel')}

\* No line of a League game's log is made an event twice, however often the
\* document that holds it is served, and whatever restarts in between: the
\* ids the tracker keeps (lol/derive.rs:91).
NoLineTwice ==
    [][\A e \in Sent : e.source = "lol" /\ e.kind = "Highlight" => e.of \notin delivered]_vars

\* What had happened before the tracker attached to a game is never clipped
\* (lol/derive.rs:10, the attach policy).
NoHistoryIsClipped ==
    [][\A e \in Sent : e.source = "lol" /\ e.kind = "Highlight" =>
           ~(e.of[1] = attached.game /\ e.of[2] \in attached.lines)]_vars

\* A highlight of the game the tracker is attached to, in a document it has
\* folded in, was reported or was there at the attach (lol/derive.rs:85-117).
NothingSlips ==
    tracker.in_game =>
        \A entry \in shown : entry[1] = attached.game =>
            entry \in delivered \/ entry[2] \in attached.lines

\* Every kill a scoreboard reports was made, and none is reported twice:
\* documents lost, refused, read in another order, of another player or of
\* another game notwithstanding (gsi/derive.rs:20, gsi.rs:730).
KillsAreReal ==
    \A g \in Games, p \in Players : reported[g][p] <= made[g][p]

\* What the two trackers report is what happened: nothing a document showed is
\* left out, and no scoreboard's kill is made up or counted twice.
ReportsAreTrue == TypeOK /\ NothingSlips /\ KillsAreReal

\* A line of the log is a highlight at most once, and only if it was written
\* while the tracker watched.
LinesAreReportedOnce == NoLineTwice /\ NoHistoryIsClipped

\* How far back a burst may reach: for as long as it was gathered, and as its
\* first event waited behind the clip before it.
Reach == MaxBurst + PostRoll + Splice

\* However bursts and clips follow each other, an event waits for no more than
\* one clip before it is received, and its clip is asked for within MaxBurst
\* of that.  So whatever is clipped with a burst was sent within the pre-roll
\* of its clip, whenever that pre-roll is as long as a burst may reach
\* (event_driver.rs:629, 673); a shorter one is the player's to choose.
MomentIsInItsClip ==
    driver = "clipping" =>
        \A k \in DOMAIN burst : Clips(burst[k].event) =>
            LET sent == burst[k].event.sent
                pre  == PreOf(burst[1].event.source)
            IN  /\ burst[k].at_ms <= sent + PostRoll + Splice
                /\ trigger <= burst[k].at_ms + MaxBurst
                /\ Reach <= pre => trigger <= sent + pre

\* A game that POSTs gets an answer, or its connection closed: when the queue
\* is full, the document late, the listener stopping (gsi.rs:524, gsi.rs:590).
PostsAreAnswered == \A g \in Games : waiting[g] # 0 ~> waiting[g] = 0

\* Dropping the driver returns: its thread and the threads of its sources end,
\* though they send to it and it waits for them (event_driver.rs:781).
DropReturns == stop ~> closing = "done"

----------------------------------------------------------------------------
(* What the code's words say and the code does not keep.                    *)

\* "`max` stays inside the pre-roll so the first event is still buffered"
\* (event_driver.rs:632), and of the others "the clip above already covers these
\* moments" (event_driver.rs:719): what was received in a burst is in the
\* pre-roll of its clip.
TheClipCoversItsBurst ==
    driver = "clipping" =>
        \A k \in DOMAIN burst : trigger <= burst[k].at_ms + PreOf(burst[1].event.source)

\* "Treat it as the end so the 404 that follows does not report it again"
\* (lol/derive.rs:103): a game is reported as over once.
AGameEndsOnce ==
    [][\A e \in Sent : e.source = "lol" /\ e.kind = "GameEnd" => e.of[1] \notin ended]_vars

\* "a game was in progress, now there is not" (gsi/derive.rs:13): a game is
\* ended by its own document, not by the menu of the other one.
ADocumentEndsItsOwnGame ==
    [][\A job \in reading : Folds(job) /\ Sent # {} /\ ~job.doc.playing
           => job.doc.game = baseline.game]_vars

\* A marker belongs to the recording it was stamped on (event_driver.rs:580).
MarkersStayInTheirRecording ==
    driver = "noting" /\ recording.on => \A k \in DOMAIN burst : burst[k].of = recording.count
=============================================================================
