--------------------------- MODULE MCGameEvents ----------------------------
(***************************************************************************)
(* GameEvents for TLC: how much each source, or both of them, may do.      *)
(***************************************************************************)
EXTENDS GameEvents

CONSTANTS LolTurns, GsiTurns, BothTurns

On == {s \in {"lol", "gsi"} : (s = "lol" /\ poller = "running") \/ (s = "gsi" /\ serving)}

\* The recorder starts before a game or in the middle of one.  It is armed
\* when only the listener runs, and recording otherwise.
MCInit ==
    /\ Init
    /\ On # {"lol"} => client = NoGame
    /\ match["dota2"] = NoMatch
    /\ match["cs2"] \in {NoMatch} \cup IF On = {"gsi"} THEN {UnderWay("me")} ELSE {}
    /\ recording.on = ("lol" \in On)
    /\ faults = MaxFaults
    /\ turns = IF On = {"lol"} THEN LolTurns ELSE IF On = {"gsi"} THEN GsiTurns ELSE BothTurns

MCSpec == MCInit /\ [][Next]_vars /\ Fairness
=============================================================================
