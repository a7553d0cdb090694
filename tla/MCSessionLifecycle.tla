------------------------- MODULE MCSessionLifecycle -------------------------
(***************************************************************************)
(* Small instances of SessionLifecycle: one recorder, which is started and *)
(* quit for ever, or two, one of which is started beside the other.        *)
(***************************************************************************)
EXTENDS SessionLifecycle

AllKinds == {"segments", "part", "ram"}

VARIABLE company     \* the recorders this behaviour is about
mcVars == <<vars, company>>

\* Bounds of two: one session of any kind and a fault, or one each that
\* leaves no footage, and no fault.
Within ==
    Cardinality(company) > 1 =>
        /\ begun' + faults' <= 2
        /\ begun' = 2 => \A s \in Sessions : kind'[s] = "ram"

Bounded(A) == A /\ Within /\ UNCHANGED company

MCInit == Init /\ company \in {Recorders, {CHOOSE r \in Recorders : TRUE}}

MCNext == Bounded(Next) /\ \A r \in Recorders \ company : at'[r] = "down"

\* The fairness of SessionLifecycle, of the recorders there are.
Opens(r) == OpenFails(r) \/ OpenRow(r) \/ SourcesFail(r) \/ StartEngine(r)
Of(r, A) == r \in company /\ Bounded(A)

MCFairness ==
    \A r \in Recorders :
        /\ WF_mcVars(Of(r, Recovery(r)))
        /\ WF_mcVars(Of(r, Opens(r)))
        /\ WF_mcVars(Of(r, Finish(r)))
        /\ WF_mcVars(Of(r, Evict(r)))
        /\ WF_mcVars(Of(r, Quit(r)))

MCSpec == MCInit /\ [][MCNext]_mcVars /\ MCFairness
=============================================================================
