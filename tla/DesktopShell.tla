---------------------------- MODULE DesktopShell ---------------------------
(***************************************************************************)
(* The half of the desktop shell that is no window: the global chords and  *)
(* the threads a press goes through (crates/events/src/hotkey.rs,          *)
(* src-tauri's background.rs), and the tray that several threads redraw    *)
(* (lib.rs, TrayWiring).                                                   *)
(***************************************************************************)
EXTENDS Integers, Sequences

CONSTANTS
    Chords,        \* the chords of [hotkeys], in the order they are registered
    Refreshers,    \* threads that redraw the tray: the poll, the menu, and
    PressLoop,     \* the one that answers presses
    MaxPresses,    \* bound: chords pressed
    MaxNews        \* bound: changes of what the tray shows

ASSUME ShellAssumption ==
    Chords \in Seq(STRING) /\ PressLoop \in Refreshers /\ {MaxPresses, MaxNews} \subseteq Nat

VARIABLES
    chord,      \* who holds each chord: "free", "us", or "other"
    listener,   \* the thread that registers them and gets their messages
    next,       \* the chord it registers next
    told,       \* what install_hotkey answered, or "unanswered"
    pressed,    \* presses on their way to the press loop
    receivers,  \* the stages of that way that are up: "forwarder", "loop"
    presses,
    now,        \* what there is to show: the recorder's state and the last press's answer
    shown,      \* what the operating system shows
    rendering,  \* what TrayWiring remembers having asked for
    drawing,    \* its lock: the thread that holds it
    refresh,    \* each refresher, and the view it has read
    news

keyVars == <<chord, listener, next, told, pressed, receivers, presses>>
trayVars == <<now, shown, rendering, drawing, refresh, news>>
shellVars == <<keyVars, trayVars>>

Numbers == 1..Len(Chords)
NoOneDraws == "no one"
\* A rendering, by the two parts that are drawn one after the other.
Views == [recorder : {"idle", "recording", "failed"}, press : 0..MaxPresses]
Stopped == [recorder |-> "idle", press |-> 0]

ShellInit ==
    /\ chord \in [Numbers -> {"free", "other"}]
    /\ listener = "registering" /\ next = 1 /\ told = "unanswered"
    /\ pressed = <<>> /\ receivers = {"forwarder", "loop"} /\ presses = 0
    /\ now = Stopped /\ shown = Stopped /\ rendering = Stopped /\ drawing = NoOneDraws
    /\ refresh = [r \in Refreshers |-> [at |-> "idle", view |-> Stopped]] /\ news = 0

----------------------------------------------------------------------------
(* Chords.                                                                  *)

Released == [n \in Numbers |-> IF chord[n] = "us" THEN "free" ELSE chord[n]]

Registers ==
    /\ listener = "registering" /\ next \in Numbers /\ chord[next] # "other"
    /\ chord' = [chord EXCEPT ![next] = "us"]
    /\ next' = next + 1
    /\ UNCHANGED <<listener, told, pressed, receivers, presses>>

\* Mutant of RegisterFails: the chords already held stay held.
RegisterFailsHolding ==
    /\ listener = "registering" /\ next \in Numbers /\ chord[next] = "other"
    /\ listener' = "refused" /\ UNCHANGED chord
    /\ UNCHANGED <<next, told, pressed, receivers, presses>>

\* All or nothing: a chord another program holds gives up the others.
RegisterFails ==
    /\ listener = "registering" /\ next \in Numbers /\ chord[next] = "other"
    /\ listener' = "refused" /\ chord' = Released
    /\ UNCHANGED <<next, told, pressed, receivers, presses>>

AllRegistered ==
    /\ listener = "registering" /\ next \notin Numbers
    /\ listener' = "listening"
    /\ UNCHANGED <<chord, next, told, pressed, receivers, presses>>

\* The registration is reported, or not within its bound: then the channel of
\* presses is dropped, and the thread goes on.
InstallAnswered ==
    /\ told = "unanswered"
    /\ \/ /\ listener = "listening" /\ told' = "installed" /\ UNCHANGED receivers
       \/ /\ listener = "refused" /\ told' = "refused" /\ receivers' = {}
       \/ /\ told' = "late" /\ receivers' = {}
    /\ UNCHANGED <<chord, listener, next, pressed, presses>>

\* The tray cannot be made: the press loop is never started, and the status
\* stays what it was (wire_background).
WiringFails ==
    /\ told = "installed" /\ presses = 0 /\ "loop" \in receivers
    /\ receivers' = receivers \ {"loop"}
    /\ UNCHANGED <<chord, listener, next, told, pressed, presses>>

\* A message for a chord.  A send that nobody receives ends the stage before it,
\* and the listener's end releases its chords.
PressChord ==
    /\ presses < MaxPresses /\ listener = "listening" /\ told # "unanswered"
    /\ presses' = presses + 1
    /\ IF "forwarder" \notin receivers
       THEN listener' = "refused" /\ chord' = Released /\ UNCHANGED <<pressed, receivers>>
       ELSE IF "loop" \notin receivers
            THEN receivers' = receivers \ {"forwarder"} /\ UNCHANGED <<pressed, chord, listener>>
            ELSE pressed' = Append(pressed, presses') /\ UNCHANGED <<receivers, chord, listener>>
    /\ UNCHANGED <<next, told>>

\* Another program takes a free chord, or gives one up.
OthersTakeOrLeave ==
    /\ listener = "registering" /\ told = "unanswered"
    /\ \E n \in Numbers :
          \/ chord[n] = "free" /\ chord' = [chord EXCEPT ![n] = "other"]
          \/ chord[n] = "other" /\ chord' = [chord EXCEPT ![n] = "free"]
    /\ UNCHANGED <<listener, next, told, pressed, receivers, presses>>

----------------------------------------------------------------------------
(* The tray.                                                                *)

\* The recorder starts, stops, or stops for a failure.
RecorderChanges ==
    /\ news < MaxNews
    /\ news' = news + 1
    /\ \E s \in {"idle", "recording", "failed"} \ {now.recorder} :
          now' = [now EXCEPT !.recorder = s]
    /\ UNCHANGED <<shown, rendering, drawing, refresh>>

\* The press loop answers a press, and redraws.
AnswersPress ==
    /\ pressed # <<>> /\ refresh[PressLoop].at = "idle"
    /\ pressed' = Tail(pressed)
    /\ now' = [now EXCEPT !.press = Head(pressed)]
    /\ refresh' = [refresh EXCEPT ![PressLoop].at = "read"]
    /\ UNCHANGED <<chord, listener, next, told, receivers, presses,
                   shown, rendering, drawing, news>>

\* Mutant of Redraws: the icon is looked at, and the rest with it.
RedrawsIconOnly(r) == refresh[r].view.recorder # rendering.recorder

Redraws(r) == refresh[r].view # rendering

Wakes(r) ==
    /\ r # PressLoop /\ refresh[r].at = "idle"
    /\ refresh' = [refresh EXCEPT ![r].at = "read"]
    /\ UNCHANGED <<now, shown, rendering, drawing, news>>

\* The view is made before the lock is taken: another's may be drawn between.
ReadsView(r) ==
    /\ refresh[r].at = "read"
    /\ refresh' = [refresh EXCEPT ![r] = [at |-> "lock", view |-> now]]
    /\ UNCHANGED <<now, shown, rendering, drawing, news>>

TakesLock(r) ==
    /\ refresh[r].at = "lock" /\ drawing = NoOneDraws
    /\ IF Redraws(r)
       THEN refresh' = [refresh EXCEPT ![r].at = "icon"] /\ drawing' = r
       ELSE refresh' = [refresh EXCEPT ![r].at = "idle"] /\ UNCHANGED drawing
    /\ UNCHANGED <<now, shown, rendering, news>>

DrawsIcon(r) ==
    /\ refresh[r].at = "icon"
    /\ shown' = [shown EXCEPT !.recorder = refresh[r].view.recorder]
    /\ refresh' = [refresh EXCEPT ![r].at = "text"]
    /\ UNCHANGED <<now, rendering, drawing, news>>

\* Tooltip and labels; then the whole rendering is remembered.
DrawsText(r) ==
    /\ refresh[r].at = "text"
    /\ shown' = [shown EXCEPT !.press = refresh[r].view.press]
    /\ rendering' = refresh[r].view
    /\ drawing' = NoOneDraws
    /\ refresh' = [refresh EXCEPT ![r].at = "idle"]
    /\ UNCHANGED <<now, news>>

----------------------------------------------------------------------------
Keys ==
    \/ Registers \/ RegisterFails \/ AllRegistered \/ InstallAnswered \/ WiringFails
    \/ PressChord \/ OthersTakeOrLeave

Draws(r) == ReadsView(r) \/ TakesLock(r) \/ DrawsIcon(r) \/ DrawsText(r)

Tray == RecorderChanges \/ \E r \in Refreshers : Wakes(r) \/ Draws(r)

ShellNext ==
    \/ Keys /\ UNCHANGED trayVars
    \/ Tray /\ UNCHANGED keyVars
    \/ AnswersPress

\* Every refresher goes on, and the poll's never ends: weak fairness of this.
Refreshing(r) == (Wakes(r) \/ Draws(r)) /\ UNCHANGED keyVars

----------------------------------------------------------------------------
(* Properties.                                                              *)

\* What the window says of the hotkeys is so: with "installed" every chord is
\* held until a press finds nobody to take it, and after a refusal none is, in
\* whichever order other programs took and left the chords (listen_all).
HotkeysAreAsTold ==
    /\ told = "installed" /\ "forwarder" \in receivers => \A n \in Numbers : chord[n] = "us"
    /\ told = "refused" => \A n \in Numbers : chord[n] # "us"

\* Once the recorder and the presses leave it alone, the tray comes to show them
\* and goes on showing them, whichever thread drew an older view last: the poll
\* looks again (wire_background, the tray's thread).
TrayCatchesUp == <>[](shown = now)
=============================================================================
