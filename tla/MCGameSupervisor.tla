-------------------------- MODULE MCGameSupervisor --------------------------
(* GameSupervisor with one game found by its process and one by its API;   *)
(* each has a name of its own, or both have the same.                      *)
EXTENDS GameSupervisor

CONSTANTS cs, lol

MCWatchList == <<cs, lol>>
MCLiveGames == {lol}
MCNameOf(g) == g
MCOneName(g) == cs

=============================================================================
