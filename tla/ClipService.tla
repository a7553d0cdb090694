---------------------------- MODULE ClipService ----------------------------
(***************************************************************************)
(* What a recording promises whoever asks it for a clip or has it note an  *)
(* event (crates/recorder/src/lib.rs, clip_now_in and note_event_at): one  *)
(* answer to each request it took, the clip only when its file exists, a   *)
(* failure only when there will be none, and nobody left without an answer *)
(* when it is over.  RecorderEngine shows that the engine keeps it.        *)
(***************************************************************************)
CONSTANTS Clips, Notes

VARIABLES
    request,   \* what each caller knows of its request
    answer,    \* the answer each request was given
    files,     \* the clips whose file exists
    hungUp,    \* nobody new can reach the recording
    over       \* the recording is over

serviceVars == <<request, answer, files, hungUp, over>>

Requests == Clips \cup Notes

ServiceInit ==
    /\ request = [r \in Requests |-> "idle"]
    /\ answer = [r \in Requests |-> "none"]
    /\ files = {} /\ hungUp = FALSE /\ over = FALSE

Taken(r) == request[r] \notin {"idle", "refused"}
Unanswered == {r \in Requests : Taken(r) /\ answer[r] = "none"}

\* A recording that is not over takes a request; one that cannot be reached
\* refuses it.
Asks(r) ==
    /\ request[r] = "idle" /\ ~over
    /\ request' = [request EXCEPT ![r] = "waiting"]
    /\ UNCHANGED <<answer, files, hungUp, over>>

IsRefused(r) ==
    /\ request[r] = "idle" /\ (hungUp \/ over)
    /\ request' = [request EXCEPT ![r] = "refused"]
    /\ UNCHANGED <<answer, files, hungUp, over>>

\* The caller hears the answer, or its patience ends before there is one.
Hears(r) ==
    /\ request[r] = "waiting"
    /\ request' = [request EXCEPT ![r] = IF answer[r] = "none" THEN "timed out" ELSE answer[r]]
    /\ UNCHANGED <<answer, files, hungUp, over>>

\* A clip's file comes to exist before its request is answered; or after nobody
\* is left to answer it.
Writes(r) ==
    /\ Taken(r) /\ r \notin files /\ answer[r] \in {"none", "dropped"}
    /\ files' = files \cup {r}
    /\ UNCHANGED <<request, answer, hungUp, over>>

Answers(r) ==
    /\ r \in Unanswered /\ ~over
    /\ \/ (r \in files \/ r \in Notes) /\ answer' = [answer EXCEPT ![r] = "ok"]
       \/ r \notin files /\ answer' = [answer EXCEPT ![r] = "failed"]
    /\ UNCHANGED <<request, files, hungUp, over>>

HangsUp ==
    /\ ~hungUp /\ hungUp' = TRUE
    /\ UNCHANGED <<request, answer, files, over>>

\* What was not answered until then is dropped, and its caller told so.
Closes ==
    /\ ~over /\ over' = TRUE
    /\ answer' = [r \in Requests |-> IF r \in Unanswered THEN "dropped" ELSE answer[r]]
    /\ UNCHANGED <<request, files, hungUp>>

ServiceNext ==
    \/ \E r \in Requests : Asks(r) \/ IsRefused(r) \/ Hears(r) \/ Answers(r)
    \/ \E r \in Clips : Writes(r)
    \/ HangsUp \/ Closes

ServiceSpec == ServiceInit /\ [][ServiceNext]_serviceVars
=============================================================================
