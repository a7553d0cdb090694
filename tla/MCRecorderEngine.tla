-------------------------- MODULE MCRecorderEngine --------------------------
(***************************************************************************)
(* RecorderEngine for TLC: a clip and a stop, and beside them a second     *)
(* clip, a note, or a second stop.                                         *)
(***************************************************************************)
EXTENDS RecorderEngine

CONSTANTS SecondClip, SecondStop
VARIABLE beside

TakesPart ==
    /\ beside = "clip" \/ caller'[SecondClip] = "idle"
    /\ beside = "note" \/ \A r \in Notes : caller'[r] = "idle"
    /\ beside = "stop" \/ stopper'[SecondStop] = "idle"

MCInit == Init /\ beside \in {"clip", "note", "stop"}
MCNext == Next /\ TakesPart /\ UNCHANGED beside
MCSpec == MCInit /\ [][MCNext]_<<vars, beside>> /\ Fairness
=============================================================================
