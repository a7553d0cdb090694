----------------------------- MODULE MatchSplit -----------------------------
(* The matches of a session (store/src/matches.rs): its markers, in the     *)
(* order of the timeline, paired into matches when a reader asks.           *)
EXTENDS Integers, Sequences, SequencesExt

CONSTANTS MaxMarkers, MaxOffset
ASSUME MatchAssumption == MaxMarkers \in Nat /\ MaxOffset \in Nat

VARIABLES timeline, length
matchVars == <<timeline, length>>

Marker == [kind : {"game_start", "game_end", "other"}, at : 0..MaxOffset]
MatchInit == timeline = <<>> /\ length = 0

(* The next marker of the session: rows are read in timeline order.         *)
MarkerComes(m) ==
    /\ Len(timeline) < MaxMarkers /\ (timeline # <<>> => Last(timeline).at <= m.at)
    /\ timeline' = Append(timeline, m) /\ UNCHANGED length

(* The session ends: its media length is known, and may be shorter than the *)
(* last marker's moment (the tail was never written).                       *)
SessionEnds(l) == length = 0 /\ l > 0 /\ length' = l /\ UNCHANGED timeline
MatchNext == (\E m \in Marker : MarkerComes(m)) \/ \E l \in 1..MaxOffset : SessionEnds(l)

(* --- split_matches ------------------------------------------------------ *)
Later(a, b) == IF a > b THEN a ELSE b
NotOpen == [start |-> -1, inferred |-> FALSE]
Close(acc, open, end, complete) ==
    [acc EXCEPT !.open = NotOpen, !.prev = Later(end, open.start),
                !.out = Append(@, [start |-> open.start, end |-> Later(end, open.start), complete |-> complete,
                                   inferred |-> open.inferred])]

(* Mutant of OnEnd: an end nobody started begins at the start of footage.   *)
OnEndFromZero(acc, at) ==
    Close(acc, IF acc.open = NotOpen THEN [start |-> 0, inferred |-> TRUE] ELSE acc.open, at, TRUE)

OnEnd(acc, at) ==
    Close(acc, IF acc.open = NotOpen THEN [start |-> acc.prev, inferred |-> TRUE] ELSE acc.open, at, TRUE)

OnStart(acc, at) ==
    [(IF acc.open = NotOpen THEN acc ELSE Close(acc, acc.open, at, FALSE)) EXCEPT !.open = [start |-> at, inferred |-> FALSE]]

OnMarker(acc, m) ==
    CASE m.kind = "game_start" -> OnStart(acc, m.at) [] m.kind = "game_end" -> OnEnd(acc, m.at) [] OTHER -> acc

SplitMatches(markers, media) ==
    LET acc == FoldLeft(OnMarker, [out |-> <<>>, open |-> NotOpen, prev |-> 0], markers)
    IN IF acc.open = NotOpen THEN acc.out
       ELSE Close(acc, acc.open, IF media > acc.open.start THEN media ELSE Last(markers).at, FALSE).out

EventsOf(match, markers) == {i \in DOMAIN markers : markers[i].at \in match.start..match.end}
OfKind(kind, markers) == {i \in DOMAIN markers : markers[i].kind = kind}

(* Matches follow each other and do not overlap; every game that started or *)
(* ended is one of them, exactly the ended ones are complete, a start is    *)
(* inferred only of a game that was seen to end, and a complete match shows *)
(* a marker of its span (matches.rs: split_matches).                        *)
MatchesTileTheSession ==
    LET s == SplitMatches(timeline, length)
    IN /\ \A i \in DOMAIN s : s[i].start <= s[i].end
       /\ \A i \in DOMAIN s : i > 1 => s[i - 1].end <= s[i].start
       /\ Cardinality({i \in DOMAIN s : s[i].complete}) = Cardinality(OfKind("game_end", timeline))
       /\ Cardinality({i \in DOMAIN s : ~s[i].inferred}) = Cardinality(OfKind("game_start", timeline))
       /\ \A i \in DOMAIN s : s[i].inferred => s[i].complete
       /\ \A i \in DOMAIN s : s[i].complete => EventsOf(s[i], timeline) # {}
=============================================================================
