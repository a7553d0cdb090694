---------------------------- MODULE AudioProofs ----------------------------
(* What a recording's sound rests on, proved for any tracks, any threads,    *)
(* every threshold and every timing: the backends are opened, read and given *)
(* back in order, what is taken from Windows is given back, a device or a    *)
(* game that comes or goes is followed, and a sample lies where it played.   *)
EXTENDS MCAudio, TLAPS, WellFoundedInduction

-----------------------------------------------------------------------------
(* The threads that own the backends. *)

RecorderStates == [at : {"opening", "first", "recording", "reading", "releasing", "stopping", "joining",
                         "refused", "stopped"},
                   track : DOMAIN Tracks, release : Seq(Names), ends : {"refused", "stopped"}]
WorkerStates == [at : {"none", "opening", "closing", "serving", "read", "stop", "ended"},
                 device : {"closed", "open", "released"}, opened : {"nothing", "open", "failed"},
                 heard : BOOLEAN, requests : Seq({"read", "stop"}), handle : BOOLEAN,
                 answer : {"nothing", "block", "none", "error", "stopped"}, awaited : BOOLEAN]

(* An answer is to the last request, a block has been heard, and a thread   *)
(* that ended has let go of its device.                                     *)
IsSound(w) ==
    /\ w.answer # "nothing" => Len(w.requests) = 0
    /\ w.answer = "block" => w.heard
    /\ w.at = "ended" => w.device # "open"
    /\ Len(w.requests) <= 2

WorkersAreSound ==
    /\ recorder \in RecorderStates /\ worker \in [Names -> WorkerStates]
    /\ \A t \in Names : IsSound(worker[t])

(* One request at a time while the recorder reads, a stop behind it at most *)
(* when it lets go; every track passed was heard; and what a stop has yet   *)
(* to end is in its list, once.                                             *)
Asking ==
    recorder.at \in {"opening", "first", "recording", "reading"} =>
        \A t \in Names :
           \/ Len(worker[t].requests) = 0
           \/ recorder.at \in {"first", "reading"} /\ t = Opening /\ Len(worker[t].requests) <= 1
Hearing ==
    /\ recorder.at \in {"opening", "first"} => \A i \in DOMAIN Tracks : i < recorder.track => worker[Tracks[i]].heard
    /\ recorder.at \in {"recording", "reading"} => \A t \in Names : worker[t].heard
Ending ==
    /\ \A i, j \in 1..Len(recorder.release) : recorder.release[i] = recorder.release[j] => i = j
    /\ recorder.at = "releasing" => \A i \in 1..Len(recorder.release) : Len(worker[recorder.release[i]].requests) <= 1
    /\ recorder.at \in {"stopping", "joining"} =>
          /\ recorder.release # <<>>
          /\ \A i \in 2..Len(recorder.release) : Len(worker[recorder.release[i]].requests) <= 1
    /\ recorder.at \in {"releasing", "stopping", "joining"} /\ recorder.ends = "stopped" =>
          \A t \in Names : worker[t].at = "ended" \/ \E i \in 1..Len(recorder.release) : recorder.release[i] = t
    /\ recorder.at = "stopped" => \A t \in Names : worker[t].at = "ended"
WorkerInv == WorkersAreSound /\ Asking /\ Hearing /\ Ending

LEMMA TracksAreNamed ==
    /\ Len(Tracks) \in Nat /\ Len(Tracks) >= 1 /\ DOMAIN Tracks = 1..Len(Tracks)
    /\ \A i \in DOMAIN Tracks : Tracks[i] \in Names
    /\ \A t \in Names : \E i \in DOMAIN Tracks : Tracks[i] = t
    /\ Tracks \in Seq(Names)
<1>1. Tracks \in Seq({"microphone", "game"}) /\ Tracks # <<>>
  BY AudioWorkerAssumption
<1>2. Names = {Tracks[i] : i \in DOMAIN Tracks}
  BY DEF Names, ToSet
<1>3. Len(Tracks) \in Nat /\ DOMAIN Tracks = 1..Len(Tracks) /\ Len(Tracks) >= 1
  BY <1>1
<1>4. \A i \in 1..Len(Tracks) : Tracks[i] \in Names
  BY <1>2, <1>3
<1>5. Tracks \in Seq(Names)
  BY <1>1, <1>3, <1>4
<1> QED
  BY <1>2, <1>3, <1>4, <1>5

LEMMA WorkersStart == WorkerInit => WorkerInv
<1> SUFFICES ASSUME WorkerInit PROVE WorkerInv
  OBVIOUS
<1>1. recorder \in RecorderStates
  BY TracksAreNamed DEF WorkerInit, RecorderStates
<1>2. worker \in [Names -> WorkerStates]
  BY DEF WorkerInit, WorkerStates
<1>3. \A t \in Names : IsSound(worker[t]) /\ Len(worker[t].requests) = 0
  BY DEF WorkerInit, IsSound
<1>4. Hearing /\ Ending
  BY TracksAreNamed DEF WorkerInit, Hearing, Ending
<1> QED
  BY <1>1, <1>2, <1>3, <1>4 DEF WorkerInv, WorkersAreSound, Asking

(* One thread moves and asks for nothing more than it did.                  *)
LEMMA OneThreadMoves ==
    ASSUME WorkerInv, NEW t \in Names, NEW w \in WorkerStates,
           recorder' = recorder, worker' = [worker EXCEPT ![t] = w],
           Len(w.requests) <= Len(worker[t].requests), worker[t].heard => w.heard,
           worker[t].at = "ended" => w.at = "ended", IsSound(w)
    PROVE  WorkerInv'
<1>1. recorder \in RecorderStates /\ worker \in [Names -> WorkerStates] /\ \A u \in Names : IsSound(worker[u])
  BY DEF WorkerInv, WorkersAreSound
<1>2. worker' \in [Names -> WorkerStates] /\ \A u \in Names : worker'[u] = IF u = t THEN w ELSE worker[u]
  BY <1>1
<1>3. WorkersAreSound'
  BY <1>1, <1>2 DEF WorkersAreSound
<1>4. \A u \in Names : Len(worker[u].requests) \in Nat /\ Len(worker'[u].requests) \in Nat
  BY <1>1, <1>2 DEF WorkerStates
<1>5. \A u \in Names : /\ Len(worker'[u].requests) <= Len(worker[u].requests)
                       /\ worker[u].heard => worker'[u].heard
                       /\ worker[u].at = "ended" => worker'[u].at = "ended"
  BY <1>2, <1>4
<1>6. Asking'
  BY <1>4, <1>5 DEF WorkerInv, Asking, Opening
<1>7. Hearing'
  BY <1>5, TracksAreNamed DEF WorkerInv, Hearing
<1>8. recorder.release \in Seq(Names)
  BY <1>1 DEF RecorderStates
<1>9. \A i \in 1..Len(recorder.release) : recorder.release[i] \in Names
  BY <1>8
<1>10. Ending'
  BY <1>4, <1>5, <1>8, <1>9 DEF WorkerInv, Ending
<1> QED
  BY <1>3, <1>6, <1>7, <1>10 DEF WorkerInv

LEMMA ThreadsStep == ASSUME WorkerInv, NEW t \in Names, WorkerStep(t) \/ Panics(t) PROVE WorkerInv'
<1>1. worker \in [Names -> WorkerStates] /\ worker[t] \in WorkerStates /\ IsSound(worker[t])
  BY DEF WorkerInv, WorkersAreSound
<1>2. ASSUME NEW ok \in BOOLEAN, OpensDevice(t, ok) PROVE WorkerInv'
  <2> DEFINE w == [worker[t] EXCEPT !.device = IF ok THEN "open" ELSE @,
                                    !.opened = IF worker[t].awaited THEN IF ok THEN "open" ELSE "failed" ELSE @,
                                    !.at = IF ok /\ worker[t].awaited THEN "serving" ELSE "closing"]
  <2>1. worker' = [worker EXCEPT ![t] = w] /\ recorder' = recorder /\ worker[t].at = "opening"
    BY <1>1, <1>2 DEF OpensDevice
  <2>2. w \in WorkerStates
    BY <1>1 DEF WorkerStates
  <2>3. w.requests = worker[t].requests /\ w.heard = worker[t].heard /\ w.answer = worker[t].answer /\ w.at # "ended"
    BY <1>1 DEF WorkerStates
  <2>4. IsSound(w)
    BY <1>1, <2>3 DEF IsSound
  <2>5. Len(w.requests) <= Len(worker[t].requests)
    BY <1>1, <2>3 DEF WorkerStates
  <2> HIDE DEF w
  <2> QED
    BY <2>1, <2>2, <2>3, <2>4, <2>5, OneThreadMoves
<1>3. ASSUME ClosesDevice(t) \/ LeftAlone(t) \/ Panics(t) PROVE WorkerInv'
  <2> DEFINE w == [worker[t] EXCEPT !.device = "released", !.at = "ended"]
  <2>1. worker' = [worker EXCEPT ![t] = w] /\ recorder' = recorder
    BY <1>1, <1>3 DEF ClosesDevice, LeftAlone, Panics
  <2>2. w \in WorkerStates
    BY <1>1 DEF WorkerStates
  <2>3. w.requests = worker[t].requests /\ w.heard = worker[t].heard /\ w.answer = worker[t].answer
        /\ w.at = "ended" /\ w.device = "released"
    BY <1>1 DEF WorkerStates
  <2>4. IsSound(w)
    BY <1>1, <2>3 DEF IsSound
  <2>5. Len(w.requests) <= Len(worker[t].requests)
    BY <1>1, <2>3 DEF WorkerStates
  <2> HIDE DEF w
  <2> QED
    BY <2>1, <2>2, <2>3, <2>4, <2>5, OneThreadMoves
<1>4. ASSUME TakesRequest(t) PROVE WorkerInv'
  <2> DEFINE w == [worker[t] EXCEPT !.at = Head(worker[t].requests), !.requests = Tail(@)]
  <2>1. worker' = [worker EXCEPT ![t] = w] /\ recorder' = recorder /\ worker[t].requests # <<>> /\ worker[t].at = "serving"
    BY <1>1, <1>4 DEF TakesRequest
  <2>2. worker[t].requests \in Seq({"read", "stop"})
    BY <1>1 DEF WorkerStates
  <2>3. /\ Head(worker[t].requests) \in {"read", "stop"} /\ Tail(worker[t].requests) \in Seq({"read", "stop"})
        /\ Len(Tail(worker[t].requests)) = Len(worker[t].requests) - 1 /\ Len(worker[t].requests) \in Nat
        /\ Len(worker[t].requests) # 0
    BY <2>1, <2>2
  <2>4. w \in WorkerStates
    BY <1>1, <2>3 DEF WorkerStates
  <2>5. /\ w.requests = Tail(worker[t].requests) /\ w.heard = worker[t].heard /\ w.answer = worker[t].answer
        /\ w.at = Head(worker[t].requests)
    BY <1>1 DEF WorkerStates
  <2>6. w.at # "ended" /\ w.answer = "nothing" /\ Len(w.requests) <= 2 /\ Len(w.requests) <= Len(worker[t].requests)
    BY <1>1, <2>3, <2>5 DEF IsSound
  <2>7. IsSound(w)
    BY <2>6 DEF IsSound
  <2> HIDE DEF w
  <2> QED
    BY <2>1, <2>4, <2>5, <2>6, <2>7, OneThreadMoves
<1>5. ASSUME NEW what \in {"block", "none", "error"}, DeliversBlock(t, what) PROVE WorkerInv'
  <2> DEFINE a == Answered(worker[t], what)
             w == [a EXCEPT !.at = "serving", !.heard = @ \/ what = "block"]
  <2>1. worker' = [worker EXCEPT ![t] = w] /\ recorder' = recorder /\ worker[t].at = "read"
    BY <1>1, <1>5 DEF DeliversBlock
  <2>2. a \in WorkerStates /\ a.requests = worker[t].requests /\ a.heard = worker[t].heard
        /\ a.answer = IF worker[t].awaited /\ worker[t].requests = <<>> THEN what ELSE worker[t].answer
    BY <1>1 DEF WorkerStates, Answered
  <2> HIDE DEF a
  <2>3. w.requests = a.requests /\ w.heard = (a.heard \/ what = "block") /\ w.answer = a.answer /\ w.at = "serving"
    BY <2>2 DEF WorkerStates
  <2>4. w \in WorkerStates
    BY <2>2 DEF WorkerStates
  <2> HIDE DEF w
  <2>5. IsSound(w)
    <3>1. worker[t].requests = <<>> => Len(worker[t].requests) = 0
      OBVIOUS
    <3> QED
      BY <1>1, <2>2, <2>3, <3>1 DEF IsSound
  <2>6. Len(w.requests) <= Len(worker[t].requests)
    BY <1>1, <2>2, <2>3 DEF WorkerStates
  <2>7. worker[t].heard => w.heard
    BY <2>2, <2>3
  <2> QED
    BY <2>1, <2>4, <2>5, <2>6, <2>7, OneThreadMoves
<1>6. ASSUME StopsDevice(t) PROVE WorkerInv'
  <2> DEFINE a == Answered(worker[t], "stopped")
             w == [a EXCEPT !.at = "ended", !.device = "released"]
  <2>1. worker' = [worker EXCEPT ![t] = w] /\ recorder' = recorder
    BY <1>1, <1>6 DEF StopsDevice
  <2>2. a \in WorkerStates /\ a.requests = worker[t].requests /\ a.heard = worker[t].heard
        /\ a.answer = IF worker[t].awaited /\ worker[t].requests = <<>> THEN "stopped" ELSE worker[t].answer
    BY <1>1 DEF WorkerStates, Answered
  <2> HIDE DEF a
  <2>3. w.requests = a.requests /\ w.heard = a.heard /\ w.answer = a.answer /\ w.at = "ended" /\ w.device = "released"
    BY <2>2 DEF WorkerStates
  <2>4. w \in WorkerStates
    BY <2>2 DEF WorkerStates
  <2> HIDE DEF w
  <2>5. IsSound(w)
    <3>1. worker[t].requests = <<>> => Len(worker[t].requests) = 0
      OBVIOUS
    <3> QED
      BY <1>1, <2>2, <2>3, <3>1 DEF IsSound
  <2>6. Len(w.requests) <= Len(worker[t].requests)
    BY <1>1, <2>2, <2>3 DEF WorkerStates
  <2> QED
    BY <2>1, <2>2, <2>3, <2>4, <2>5, <2>6, OneThreadMoves
<1> QED
  BY <1>2, <1>3, <1>4, <1>5, <1>6 DEF WorkerStep

(* The recorder's own hand on a thread: it asks, or waits no longer.        *)
LEMMA AskIsOneMore ==
    ASSUME WorkersAreSound, NEW t \in Names, NEW what \in {"read", "stop"}, Len(worker[t].requests) <= 1,
           worker' = Ask(t, what)
    PROVE  /\ worker' \in [Names -> WorkerStates] /\ \A u \in Names : IsSound(worker'[u])
           /\ \A u \in Names : /\ worker'[u].at = worker[u].at /\ worker'[u].heard = worker[u].heard
                               /\ (u # t => Len(worker'[u].requests) = Len(worker[u].requests))
           /\ Len(worker'[t].requests) = Len(worker[t].requests) + 1
<1> DEFINE w == [worker[t] EXCEPT !.requests = Append(@, what), !.answer = "nothing", !.awaited = TRUE]
<1>1. worker \in [Names -> WorkerStates] /\ \A u \in Names : IsSound(worker[u])
  BY DEF WorkersAreSound
<1>2. worker' = [worker EXCEPT ![t] = w]
  BY <1>1 DEF Ask
<1>3. worker[t].requests \in Seq({"read", "stop"})
  BY <1>1 DEF WorkerStates
<1>4. Append(worker[t].requests, what) \in Seq({"read", "stop"})
      /\ Len(Append(worker[t].requests, what)) = Len(worker[t].requests) + 1
  BY <1>3
<1>5. w \in WorkerStates
  <2> DEFINE q == Append(worker[t].requests, what)
  <2>1. worker[t] \in WorkerStates /\ q \in Seq({"read", "stop"}) /\ TRUE \in BOOLEAN
    BY <1>1, <1>4
  <2>2. w = [worker[t] EXCEPT !.requests = q, !.answer = "nothing", !.awaited = TRUE]
    OBVIOUS
  <2> HIDE DEF w, q
  <2> QED
    BY ONLY <2>1, <2>2 DEF WorkerStates
<1>6. /\ w.at = worker[t].at /\ w.heard = worker[t].heard /\ w.device = worker[t].device /\ w.answer = "nothing"
      /\ w.requests = Append(worker[t].requests, what)
  BY <1>1 DEF WorkerStates
<1> HIDE DEF w
<1>7. \A u \in Names : worker'[u] = IF u = t THEN w ELSE worker[u]
  BY <1>1, <1>2
<1>8. \A u \in Names : Len(worker[u].requests) \in Nat
  BY <1>1 DEF WorkerStates
<1>9. Len(w.requests) = Len(worker[t].requests) + 1
  BY <1>4, <1>6
<1>10. IsSound(w)
  BY <1>1, <1>6, <1>8, <1>9 DEF IsSound
<1>11. worker' \in [Names -> WorkerStates]
  BY <1>1, <1>2, <1>5
<1>12. \A u \in Names : IsSound(worker'[u])
  BY <1>1, <1>7, <1>10
<1>13. \A u \in Names : worker'[u].at = worker[u].at /\ worker'[u].heard = worker[u].heard
  BY <1>6, <1>7
<1>14. /\ Len(worker'[t].requests) = Len(worker[t].requests) + 1
       /\ \A u \in Names : u # t => Len(worker'[u].requests) = Len(worker[u].requests)
  BY <1>7, <1>9
<1> QED
  BY <1>11, <1>12, <1>13, <1>14

LEMMA WaitingIsAll ==
    ASSUME WorkersAreSound, NEW t \in Names, NEW w \in WorkerStates, worker' = [worker EXCEPT ![t] = w],
           w.at = worker[t].at \/ w.at = "opening", w.device = worker[t].device,
           w.heard = worker[t].heard, w.requests = worker[t].requests,
           w.answer \in {"nothing", worker[t].answer}, worker[t].at = "ended" => w.at = "ended"
    PROVE  /\ worker' \in [Names -> WorkerStates] /\ \A u \in Names : IsSound(worker'[u])
           /\ \A u \in Names : /\ worker[u].at = "ended" => worker'[u].at = "ended"
                               /\ worker'[u].heard = worker[u].heard
                               /\ Len(worker'[u].requests) = Len(worker[u].requests)
<1>1. worker \in [Names -> WorkerStates] /\ \A u \in Names : IsSound(worker[u])
  BY DEF WorkersAreSound
<1>2. worker' \in [Names -> WorkerStates] /\ \A u \in Names : worker'[u] = IF u = t THEN w ELSE worker[u]
  BY <1>1
<1>3. IsSound(w)
  BY <1>1 DEF IsSound
<1> QED
  BY <1>1, <1>2, <1>3

LEMMA NotAwaited ==
    ASSUME WorkersAreSound, NEW t \in Names,
           \/ worker' = [worker EXCEPT ![t].awaited = FALSE]
           \/ worker' = [worker EXCEPT ![t].awaited = FALSE, ![t].answer = "nothing"]
           \/ worker' = LetGo(worker, t)
    PROVE  /\ worker' \in [Names -> WorkerStates] /\ \A u \in Names : IsSound(worker'[u])
           /\ \A u \in Names : /\ worker[u].at = "ended" => worker'[u].at = "ended"
                               /\ worker'[u].heard = worker[u].heard
                               /\ Len(worker'[u].requests) = Len(worker[u].requests)
<1>1. worker \in [Names -> WorkerStates]
  BY DEF WorkersAreSound
<1>2. PICK a \in {"nothing", worker[t].answer}, h \in BOOLEAN :
         worker' = [worker EXCEPT ![t] = [worker[t] EXCEPT !.awaited = FALSE, !.answer = a, !.handle = h]]
  <2> DEFINE with(a, h) == [worker[t] EXCEPT !.awaited = FALSE, !.answer = a, !.handle = h]
  <2>0. worker[t] \in WorkerStates /\ worker[t].handle \in BOOLEAN
    BY <1>1 DEF WorkerStates
  <2>1. CASE worker' = [worker EXCEPT ![t].awaited = FALSE]
    <3>1. [worker[t] EXCEPT !.awaited = FALSE] = with(worker[t].answer, worker[t].handle)
      BY <2>0 DEF WorkerStates
    <3>2. worker' = [worker EXCEPT ![t] = with(worker[t].answer, worker[t].handle)]
      BY <2>1, <3>1, <1>1
    <3> QED
      BY <2>0, <3>2
  <2>2. CASE worker' = [worker EXCEPT ![t].awaited = FALSE, ![t].answer = "nothing"]
    <3>1. [worker[t] EXCEPT !.awaited = FALSE, !.answer = "nothing"] = with("nothing", worker[t].handle)
      BY <2>0 DEF WorkerStates
    <3>2. worker' = [worker EXCEPT ![t] = [worker[t] EXCEPT !.awaited = FALSE, !.answer = "nothing"]]
      BY <2>2, <1>1
    <3> QED
      BY <2>0, <3>1, <3>2
  <2>3. CASE worker' = LetGo(worker, t)
    <3>1. [worker[t] EXCEPT !.handle = FALSE, !.awaited = FALSE, !.answer = "nothing"] = with("nothing", FALSE)
      BY <2>0 DEF WorkerStates
    <3>2. worker' = [worker EXCEPT ![t] = [worker[t] EXCEPT !.handle = FALSE, !.awaited = FALSE, !.answer = "nothing"]]
      BY <2>3, <1>1 DEF LetGo
    <3> QED
      BY <3>1, <3>2
  <2> QED
    BY <2>1, <2>2, <2>3
<1> DEFINE w == [worker[t] EXCEPT !.awaited = FALSE, !.answer = a, !.handle = h]
<1>3. worker[t] \in WorkerStates /\ worker[t].answer \in {"nothing", "block", "none", "error", "stopped"}
  BY <1>1 DEF WorkerStates
<1>4. w \in WorkerStates
  BY <1>3, a \in {"nothing", "block", "none", "error", "stopped"} DEF WorkerStates
<1>5. w.at = worker[t].at /\ w.device = worker[t].device /\ w.heard = worker[t].heard
      /\ w.requests = worker[t].requests /\ w.answer = a
  BY <1>3 DEF WorkerStates
<1>6. worker' = [worker EXCEPT ![t] = w]
  BY <1>2
<1> HIDE DEF w
<1> QED
  BY <1>4, <1>5, <1>6, WaitingIsAll

(* Tracks opened before this one, and all of them backwards.                *)
LEMMA EarlierTracks ==
    ASSUME NEW k \in DOMAIN Tracks
    PROVE  LET s == SubSeq(Tracks, 1, k - 1)
           IN  /\ s \in Seq(Names) /\ Len(s) = k - 1 /\ \A i \in 1..Len(s) : s[i] = Tracks[i] /\ i \in DOMAIN Tracks
<1>1. k - 1 \in Int /\ k - 1 <= Len(Tracks) /\ k - 1 >= 0
  BY TracksAreNamed
<1> QED
  BY <1>1, TracksAreNamed

LEMMA TracksBackwards ==
    LET s == Reverse(Tracks)
    IN  /\ s \in Seq(Names) /\ Len(s) = Len(Tracks)
        /\ \A i, j \in 1..Len(s) : s[i] = s[j] => i = j
        /\ \A t \in Names : \E i \in 1..Len(s) : s[i] = t
<1> DEFINE s == Reverse(Tracks)
<1>1. \A i \in 1..Len(Tracks) : (Len(Tracks) - i) + 1 \in 1..Len(Tracks)
  BY TracksAreNamed
<1>2. s = [i \in 1..Len(Tracks) |-> Tracks[(Len(Tracks) - i) + 1]]
  BY DEF Reverse
<1>3. s \in Seq(Names) /\ Len(s) = Len(Tracks)
  BY <1>1, <1>2, TracksAreNamed
<1>4. \A i \in 1..Len(Tracks) : s[i] = Tracks[(Len(Tracks) - i) + 1]
  BY <1>2
<1> HIDE DEF s
<1>5. \A i, j \in 1..Len(Tracks) : s[i] = s[j] => i = j
  <2> SUFFICES ASSUME NEW i \in 1..Len(Tracks), NEW j \in 1..Len(Tracks), s[i] = s[j] PROVE i = j
    OBVIOUS
  <2> DEFINE m == (Len(Tracks) - i) + 1
             n == (Len(Tracks) - j) + 1
  <2>1. m \in DOMAIN Tracks /\ n \in DOMAIN Tracks /\ Tracks[m] = Tracks[n]
    BY <1>1, <1>4, TracksAreNamed
  <2>2. m = n
    <3> HIDE DEF m, n
    <3> QED
      BY <2>1, AudioWorkerAssumption
  <2> QED
    BY <2>2, TracksAreNamed
<1>6. \A t \in Names : \E i \in 1..Len(Tracks) : s[i] = t
  <2> SUFFICES ASSUME NEW t \in Names PROVE \E i \in 1..Len(Tracks) : s[i] = t
    OBVIOUS
  <2>1. PICK i \in 1..Len(Tracks) : Tracks[i] = t
    BY TracksAreNamed
  <2>2. (Len(Tracks) - i) + 1 \in 1..Len(Tracks) /\ (Len(Tracks) - ((Len(Tracks) - i) + 1)) + 1 = i
    BY TracksAreNamed
  <2> QED
    BY <2>1, <2>2, <1>4
<1> QED
  BY <1>3, <1>5, <1>6 DEF s

(* Letting go starts with a list of tracks, each asked at most once so far. *)
LEMMA LettingGoStarts ==
    ASSUME WorkerInv, worker' \in [Names -> WorkerStates], \A t \in Names : IsSound(worker'[t]),
           \/ /\ recorder' = [recorder EXCEPT !.at = "releasing", !.ends = "refused",
                                              !.release = SubSeq(Tracks, 1, recorder.track - 1)]
              /\ \A i \in DOMAIN Tracks : i < recorder.track => Len(worker'[Tracks[i]].requests) <= 1
           \/ recorder' = Finishes /\ \A t \in Names : Len(worker'[t].requests) <= 1
    PROVE  WorkerInv'
<1>1. recorder \in RecorderStates /\ recorder.track \in DOMAIN Tracks
  BY DEF WorkerInv, WorkersAreSound, RecorderStates
<1>2. CASE /\ recorder' = [recorder EXCEPT !.at = "releasing", !.ends = "refused",
                                           !.release = SubSeq(Tracks, 1, recorder.track - 1)]
           /\ \A i \in DOMAIN Tracks : i < recorder.track => Len(worker'[Tracks[i]].requests) <= 1
  <2> DEFINE s == SubSeq(Tracks, 1, recorder.track - 1)
  <2>1. s \in Seq(Names) /\ Len(s) = recorder.track - 1 /\ \A i \in 1..Len(s) : s[i] = Tracks[i] /\ i \in DOMAIN Tracks
    BY <1>1, EarlierTracks
  <2>2. recorder' = [recorder EXCEPT !.at = "releasing", !.ends = "refused", !.release = s]
    BY <1>2
  <2> HIDE DEF s
  <2>3. recorder' \in RecorderStates /\ recorder'.at = "releasing" /\ recorder'.ends = "refused" /\ recorder'.release = s
    BY <1>1, <2>1, <2>2 DEF RecorderStates
  <2>4. \A i, j \in 1..Len(s) : s[i] = s[j] => i = j
    BY <2>1, AudioWorkerAssumption
  <2>5. \A i \in 1..Len(s) : Len(worker'[s[i]].requests) <= 1
    <3> SUFFICES ASSUME NEW i \in 1..Len(s) PROVE Len(worker'[s[i]].requests) <= 1
      OBVIOUS
    <3>1. s[i] = Tracks[i] /\ i \in DOMAIN Tracks /\ i < recorder.track
      BY <2>1, <1>1, TracksAreNamed
    <3> QED
      BY <3>1, <1>2
  <2>6. Ending'
    BY <2>3, <2>4, <2>5 DEF Ending
  <2> QED
    BY <2>3, <2>6 DEF WorkerInv, WorkersAreSound, Asking, Hearing
<1>3. CASE recorder' = Finishes /\ \A t \in Names : Len(worker'[t].requests) <= 1
  <2> DEFINE s == Reverse(Tracks)
  <2>1. s \in Seq(Names) /\ Len(s) = Len(Tracks) /\ (\A i, j \in 1..Len(s) : s[i] = s[j] => i = j)
        /\ \A t \in Names : \E i \in 1..Len(s) : s[i] = t
    BY TracksBackwards
  <2>2. recorder' = [recorder EXCEPT !.at = "releasing", !.ends = "stopped", !.release = s]
    BY <1>3 DEF Finishes
  <2> HIDE DEF s
  <2>3. recorder' \in RecorderStates /\ recorder'.at = "releasing" /\ recorder'.ends = "stopped" /\ recorder'.release = s
    BY <1>1, <2>1, <2>2 DEF RecorderStates
  <2>4. \A i \in 1..Len(s) : s[i] \in Names
    BY <2>1
  <2>5. Ending'
    BY <1>3, <2>1, <2>3, <2>4 DEF Ending
  <2> QED
    BY <2>3, <2>5 DEF WorkerInv, WorkersAreSound, Asking, Hearing
<1> QED
  BY <1>2, <1>3

LEMMA RecorderIsSound ==
    ASSUME WorkerInv
    PROVE  /\ WorkersAreSound /\ recorder \in RecorderStates /\ worker \in [Names -> WorkerStates]
           /\ \A t \in Names : IsSound(worker[t]) /\ Len(worker[t].requests) \in Nat /\ Len(worker[t].requests) <= 2
           /\ recorder.track \in DOMAIN Tracks /\ Opening \in Names /\ recorder.track \in Nat
           /\ recorder.release \in Seq(Names) /\ Len(recorder.release) \in Nat
           /\ \A i \in 1..Len(recorder.release) : recorder.release[i] \in Names
           /\ recorder.release # <<>> => Len(recorder.release) >= 1 /\ Releasing = recorder.release[1] /\ Releasing \in Names
<1>1. WorkersAreSound /\ recorder \in RecorderStates /\ worker \in [Names -> WorkerStates]
      /\ \A t \in Names : IsSound(worker[t])
  BY DEF WorkerInv, WorkersAreSound
<1>2. recorder.track \in DOMAIN Tracks /\ recorder.release \in Seq(Names)
  BY <1>1 DEF RecorderStates
<1>3. Opening \in Names /\ recorder.track \in Nat
  BY <1>2, TracksAreNamed DEF Opening
<1>4. Len(recorder.release) \in Nat /\ \A i \in 1..Len(recorder.release) : recorder.release[i] \in Names
  BY <1>2
<1>5. recorder.release # <<>> => Len(recorder.release) >= 1 /\ Releasing = recorder.release[1] /\ Releasing \in Names
  BY <1>2, <1>4 DEF Releasing
<1>6. \A t \in Names : Len(worker[t].requests) \in Nat /\ Len(worker[t].requests) <= 2
  BY <1>1 DEF WorkerStates, IsSound
<1> QED
  BY <1>1, <1>2, <1>3, <1>4, <1>5, <1>6

(* Opening the tracks. *)
LEMMA OpeningSteps ==
    ASSUME WorkerInv,
           Spawns \/ OpenAnswered \/ OpenRefused \/ FirstBlock \/ NoFirstBlock \/ OtherSourceFails
    PROVE  WorkerInv'
<1> USE RecorderIsSound
<1>1. CASE Spawns
  <2> DEFINE w == [worker[Opening] EXCEPT !.at = "opening", !.handle = TRUE, !.awaited = TRUE]
  <2>1. worker' = [worker EXCEPT ![Opening] = w] /\ recorder' = recorder /\ worker[Opening].at = "none"
    BY <1>1 DEF Spawns
  <2>2. worker[Opening] \in WorkerStates
    OBVIOUS
  <2>3. w \in WorkerStates
    BY <2>2 DEF WorkerStates
  <2>4. w.at = "opening" /\ w.device = worker[Opening].device /\ w.heard = worker[Opening].heard
        /\ w.requests = worker[Opening].requests /\ w.answer = worker[Opening].answer
    BY <2>2 DEF WorkerStates
  <2> HIDE DEF w
  <2>5. IsSound(w)
    BY <2>4 DEF IsSound
  <2>6. Len(w.requests) <= Len(worker[Opening].requests)
    BY <2>4
  <2>7. Opening \in Names /\ WorkerInv
    OBVIOUS
  <2> QED
    BY ONLY <2>1, <2>3, <2>4, <2>5, <2>6, <2>7, OneThreadMoves
<1>2. CASE OpenAnswered
  <2>1. /\ worker' \in [Names -> WorkerStates] /\ \A u \in Names : IsSound(worker'[u])
        /\ \A u \in Names : /\ worker'[u].at = worker[u].at /\ worker'[u].heard = worker[u].heard
                            /\ (u # Opening => Len(worker'[u].requests) = Len(worker[u].requests))
        /\ Len(worker'[Opening].requests) = Len(worker[Opening].requests) + 1
    <3>1. Len(worker[Opening].requests) <= 1 /\ worker' = Ask(Opening, "read")
      BY <1>2 DEF OpenAnswered, WorkerInv, Asking
    <3> QED
      BY <3>1, AskIsOneMore
  <2>2. recorder.at = "opening" /\ recorder' = [recorder EXCEPT !.at = "first"]
    BY <1>2 DEF OpenAnswered
  <2>3. /\ recorder' \in RecorderStates /\ recorder'.at = "first" /\ recorder'.track = recorder.track
        /\ recorder'.release = recorder.release
    BY <2>2 DEF RecorderStates
  <2>4. \A u \in Names : Len(worker[u].requests) = 0
    BY <2>2 DEF WorkerInv, Asking
  <2>5. Opening' = Opening
    BY <2>3 DEF Opening
  <2>6. \A u \in Names : Len(worker'[u].requests) = 0 \/ (u = Opening /\ Len(worker'[u].requests) <= 1)
    BY <2>1, <2>4
  <2>9. Asking'
    BY <2>3, <2>5, <2>6 DEF Asking
  <2>7. Hearing'
    BY <2>1, <2>2, <2>3, TracksAreNamed DEF Hearing, WorkerInv
  <2>8. Ending'
    BY <2>3 DEF Ending, WorkerInv
  <2> QED
    BY <2>1, <2>3, <2>7, <2>8, <2>9 DEF WorkerInv, WorkersAreSound
<1>3. CASE OpenRefused \/ NoFirstBlock
  <2>1. /\ worker' = LetGo(worker, Opening) /\ recorder.at \in {"opening", "first"}
        /\ recorder' = [recorder EXCEPT !.at = "releasing", !.ends = "refused",
                                        !.release = SubSeq(Tracks, 1, recorder.track - 1)]
    BY <1>3 DEF OpenRefused, NoFirstBlock, Refuses
  <2>2. /\ worker' \in [Names -> WorkerStates] /\ \A u \in Names : IsSound(worker'[u])
        /\ \A u \in Names : Len(worker'[u].requests) = Len(worker[u].requests)
    BY <2>1, NotAwaited
  <2>3. \A u \in Names : Len(worker[u].requests) <= 1
    BY <2>1 DEF WorkerInv, Asking
  <2>4. \A i \in DOMAIN Tracks : i < recorder.track => Len(worker'[Tracks[i]].requests) <= 1
    BY <2>2, <2>3, TracksAreNamed
  <2> QED
    BY <2>1, <2>2, <2>4, LettingGoStarts
<1>4. CASE OtherSourceFails
  <2>1. /\ worker' = worker /\ recorder.at = "opening"
        /\ recorder' = [recorder EXCEPT !.at = "releasing", !.ends = "refused",
                                        !.release = SubSeq(Tracks, 1, recorder.track - 1)]
    BY <1>4 DEF OtherSourceFails
  <2>2. \A u \in Names : Len(worker[u].requests) <= 1
    BY <2>1 DEF WorkerInv, Asking
  <2>3. \A i \in DOMAIN Tracks : i < recorder.track => Len(worker'[Tracks[i]].requests) <= 1
    BY <2>1, <2>2, TracksAreNamed
  <2>4. worker' \in [Names -> WorkerStates] /\ \A u \in Names : IsSound(worker'[u])
    BY <2>1
  <2> QED
    BY <2>1, <2>3, <2>4, LettingGoStarts
<1>5. CASE FirstBlock
  <2>1. /\ recorder.at = "first" /\ worker[Opening].answer = "block"
        /\ worker' = [worker EXCEPT ![Opening].awaited = FALSE]
    BY <1>5 DEF FirstBlock
  <2>2. /\ worker' \in [Names -> WorkerStates] /\ \A u \in Names : IsSound(worker'[u])
        /\ \A u \in Names : worker'[u].heard = worker[u].heard /\ Len(worker'[u].requests) = Len(worker[u].requests)
    BY <2>1, NotAwaited
  <2>3. worker[Opening].heard /\ Len(worker[Opening].requests) = 0
    BY <2>1 DEF IsSound
  <2>4. \A u \in Names : Len(worker'[u].requests) = 0
    BY <2>1, <2>2, <2>3 DEF WorkerInv, Asking
  <2>5. \A i \in DOMAIN Tracks : i <= recorder.track => worker'[Tracks[i]].heard
    <3> TAKE i \in DOMAIN Tracks
    <3>1. Tracks[i] \in Names /\ i \in Int
      BY TracksAreNamed
    <3>2. i < recorder.track => worker[Tracks[i]].heard
      BY <2>1 DEF WorkerInv, Hearing
    <3>3. i = recorder.track => Tracks[i] = Opening
      BY DEF Opening
    <3> QED
      BY <3>1, <3>2, <3>3, <2>2, <2>3
  <2>6. CASE recorder.track < Len(Tracks)
    <3>1. recorder' = [recorder EXCEPT !.at = "opening", !.track = recorder.track + 1]
      BY <1>5, <2>6 DEF FirstBlock
    <3>2. recorder.track + 1 \in DOMAIN Tracks
      BY <2>6, TracksAreNamed
    <3>3. recorder' \in RecorderStates /\ recorder'.at = "opening" /\ recorder'.track = recorder.track + 1
          /\ recorder'.release = recorder.release
      BY <3>1, <3>2 DEF RecorderStates
    <3>4. Hearing'
      BY <2>5, <3>3, TracksAreNamed DEF Hearing
    <3>5. Ending'
      BY <3>3 DEF Ending, WorkerInv
    <3> QED
      BY <2>2, <2>4, <3>3, <3>4, <3>5 DEF WorkerInv, WorkersAreSound, Asking
  <2>7. CASE ~(recorder.track < Len(Tracks))
    <3>1. recorder' = [recorder EXCEPT !.at = "recording"]
      BY <1>5, <2>7 DEF FirstBlock
    <3>2. recorder' \in RecorderStates /\ recorder'.at = "recording" /\ recorder'.release = recorder.release
      BY <3>1 DEF RecorderStates
    <3>3. \A t \in Names : worker'[t].heard
      BY <2>5, <2>7, TracksAreNamed
    <3>4. Ending'
      BY <3>2 DEF Ending, WorkerInv
    <3> QED
      BY <2>2, <2>4, <3>2, <3>3, <3>4 DEF WorkerInv, WorkersAreSound, Asking, Hearing
  <2> QED
    BY <2>6, <2>7
<1> QED
  BY <1>1, <1>2, <1>3, <1>4, <1>5

(* Reading them. *)
LEMMA ReadingSteps ==
    ASSUME WorkerInv,
           ReadAnswered \/ ReadFailed \/ RecordingStops \/ \E t \in Names : AsksForBlock(t)
    PROVE  WorkerInv'
<1> USE RecorderIsSound
<1>1. CASE ReadAnswered
  <2>1. /\ recorder.at = "reading" /\ worker[Opening].answer # "nothing"
        /\ worker' = [worker EXCEPT ![Opening].awaited = FALSE, ![Opening].answer = "nothing"]
        /\ recorder' = [recorder EXCEPT !.at = "recording"]
    BY <1>1 DEF ReadAnswered
  <2>2. /\ worker' \in [Names -> WorkerStates] /\ \A u \in Names : IsSound(worker'[u])
        /\ \A u \in Names : worker'[u].heard = worker[u].heard /\ Len(worker'[u].requests) = Len(worker[u].requests)
    BY <2>1, NotAwaited
  <2>3. Len(worker[Opening].requests) = 0
    BY <2>1 DEF IsSound
  <2>4. \A u \in Names : Len(worker'[u].requests) = 0
    BY <2>1, <2>2, <2>3 DEF WorkerInv, Asking
  <2>5. recorder' \in RecorderStates /\ recorder'.at = "recording" /\ recorder'.release = recorder.release
    BY <2>1 DEF RecorderStates
  <2>6. Hearing' /\ Ending'
    BY <2>1, <2>2, <2>5 DEF WorkerInv, Hearing, Ending
  <2> QED
    BY <2>2, <2>4, <2>5, <2>6 DEF WorkerInv, WorkersAreSound, Asking
<1>2. CASE ReadFailed
  <2>1. recorder.at = "reading" /\ recorder' = Finishes /\ worker' = [worker EXCEPT ![Opening].awaited = FALSE]
    BY <1>2 DEF ReadFailed
  <2>2. /\ worker' \in [Names -> WorkerStates] /\ \A u \in Names : IsSound(worker'[u])
        /\ \A u \in Names : Len(worker'[u].requests) = Len(worker[u].requests)
    BY <2>1, NotAwaited
  <2>3. \A u \in Names : Len(worker'[u].requests) <= 1
    BY <2>1, <2>2 DEF WorkerInv, Asking
  <2> QED
    BY <2>1, <2>2, <2>3, LettingGoStarts
<1>3. ASSUME recorder.at = "recording", recorder' = Finishes, worker' = worker PROVE WorkerInv'
  <2>1. \A u \in Names : Len(worker'[u].requests) <= 1
    BY <1>3 DEF WorkerInv, Asking
  <2>2. worker' \in [Names -> WorkerStates] /\ \A u \in Names : IsSound(worker'[u])
    BY <1>3
  <2> QED
    BY <1>3, <2>1, <2>2, LettingGoStarts
<1>4. ASSUME NEW t \in Names, AsksForBlock(t) PROVE WorkerInv'
  <2>1. CASE worker[t].at = "ended"
    BY <1>3, <1>4, <2>1 DEF AsksForBlock
  <2>2. CASE worker[t].at # "ended"
    <3> DEFINE k == CHOOSE k \in DOMAIN Tracks : Tracks[k] = t
    <3>1. k \in DOMAIN Tracks /\ Tracks[k] = t
      BY TracksAreNamed
    <3>2. /\ recorder.at = "recording" /\ recorder' = [recorder EXCEPT !.at = "reading", !.track = k]
          /\ worker' = Ask(t, "read")
      BY <1>4, <2>2 DEF AsksForBlock
    <3> HIDE DEF k
    <3>3. \A u \in Names : Len(worker[u].requests) = 0
      BY <3>2 DEF WorkerInv, Asking
    <3>4. /\ worker' \in [Names -> WorkerStates] /\ \A u \in Names : IsSound(worker'[u])
          /\ \A u \in Names : /\ worker'[u].at = worker[u].at /\ worker'[u].heard = worker[u].heard
                              /\ (u # t => Len(worker'[u].requests) = Len(worker[u].requests))
          /\ Len(worker'[t].requests) = Len(worker[t].requests) + 1
      <4>1. Len(worker[t].requests) <= 1
        BY <3>3
      <4> QED
        BY <3>2, <4>1, AskIsOneMore
    <3>5. recorder' \in RecorderStates /\ recorder'.at = "reading" /\ recorder'.release = recorder.release
          /\ recorder'.track = k
      BY <3>1, <3>2 DEF RecorderStates
    <3>6. Opening' = t
      BY <3>1, <3>5 DEF Opening
    <3>7. \A u \in Names : Len(worker'[u].requests) = 0 \/ (u = t /\ Len(worker'[u].requests) <= 1)
      BY <3>3, <3>4
    <3>8. Asking'
      BY <3>5, <3>6, <3>7 DEF Asking
    <3>9. Hearing'
      BY <3>2, <3>4, <3>5 DEF WorkerInv, Hearing
    <3>10. Ending'
      BY <3>5 DEF WorkerInv, Ending
    <3> QED
      BY <3>4, <3>5, <3>8, <3>9, <3>10 DEF WorkerInv, WorkersAreSound
  <2> QED
    BY <2>1, <2>2
<1> QED
  BY <1>1, <1>2, <1>3, <1>4 DEF RecordingStops

(* The head of the list has ended, and the rest of it follows.              *)
LEMMA ListGoesOn ==
    ASSUME WorkerInv, recorder.at \in {"releasing", "joining"}, recorder.release # <<>>,
           worker[Releasing].at = "ended", recorder' = Released, worker' = worker
    PROVE  WorkerInv'
<1> USE RecorderIsSound
<1> DEFINE s == recorder.release
<1>1. /\ Tail(s) \in Seq(Names) /\ Len(Tail(s)) = Len(s) - 1
      /\ \A i \in 1..Len(Tail(s)) : Tail(s)[i] = s[i + 1] /\ i + 1 \in 2..Len(s)
  OBVIOUS
<1>2. recorder' \in RecorderStates /\ recorder'.at = "releasing" /\ recorder'.release = Tail(s)
      /\ recorder'.ends = recorder.ends
  BY <1>1 DEF Released, RecorderStates
<1>3. \A i, j \in 1..Len(Tail(s)) : Tail(s)[i] = Tail(s)[j] => i = j
  <2> SUFFICES ASSUME NEW i \in 1..Len(Tail(s)), NEW j \in 1..Len(Tail(s)), Tail(s)[i] = Tail(s)[j] PROVE i = j
    OBVIOUS
  <2>1. s[i + 1] = s[j + 1] /\ i + 1 \in 1..Len(s) /\ j + 1 \in 1..Len(s)
    BY <1>1
  <2>2. i + 1 = j + 1
    BY <2>1 DEF WorkerInv, Ending
  <2> QED
    BY <2>2
<1>4. \A i \in 1..Len(Tail(s)) : Len(worker[Tail(s)[i]].requests) <= 1
  <2> TAKE i \in 1..Len(Tail(s))
  <2>1. Tail(s)[i] = s[i + 1] /\ i + 1 \in 2..Len(s) /\ i + 1 \in 1..Len(s)
    BY <1>1
  <2>2. Len(worker[s[i + 1]].requests) <= 1
    BY <2>1 DEF WorkerInv, Ending
  <2> QED
    BY <2>1, <2>2
<1>5. recorder.ends = "stopped" =>
         \A t \in Names : worker[t].at = "ended" \/ \E i \in 1..Len(Tail(s)) : Tail(s)[i] = t
  <2> SUFFICES ASSUME recorder.ends = "stopped", NEW t \in Names, worker[t].at # "ended"
               PROVE  \E i \in 1..Len(Tail(s)) : Tail(s)[i] = t
    OBVIOUS
  <2>1. PICK j \in 1..Len(s) : s[j] = t
    BY DEF WorkerInv, Ending
  <2>2. j # 1
    BY <2>1
  <2>3. j - 1 \in 1..Len(Tail(s)) /\ (j - 1) + 1 = j
    BY <2>1, <2>2, <1>1
  <2> QED
    BY <2>1, <2>3, <1>1
<1> HIDE DEF s
<1>6. Ending'
  BY <1>2, <1>3, <1>4, <1>5 DEF Ending
<1> QED
  BY <1>2, <1>6 DEF WorkerInv, WorkersAreSound, Asking, Hearing

(* Letting them go, one after the other. *)
LEMMA ReleasingSteps ==
    ASSUME WorkerInv, StopAsked \/ StopWaited \/ Joined \/ Done PROVE WorkerInv'
<1> USE RecorderIsSound
<1>1. CASE StopAsked
  <2>1. CASE worker[Releasing].at = "ended"
    BY <1>1, <2>1, ListGoesOn DEF StopAsked
  <2>2. CASE worker[Releasing].at # "ended"
    <3>1. /\ recorder.at = "releasing" /\ recorder.release # <<>> /\ recorder' = [recorder EXCEPT !.at = "stopping"]
          /\ worker' = Ask(Releasing, "stop") /\ Releasing \in Names /\ Releasing = recorder.release[1]
          /\ 1 \in 1..Len(recorder.release)
      BY <1>1, <2>2 DEF StopAsked
    <3>2. \A i \in 1..Len(recorder.release) : Len(worker[recorder.release[i]].requests) <= 1
      BY <3>1 DEF WorkerInv, Ending
    <3>3. /\ worker' \in [Names -> WorkerStates] /\ \A u \in Names : IsSound(worker'[u])
          /\ \A u \in Names : /\ worker'[u].at = worker[u].at
                              /\ (u # Releasing => Len(worker'[u].requests) = Len(worker[u].requests))
          /\ Len(worker'[Releasing].requests) = Len(worker[Releasing].requests) + 1
      <4>1. Len(worker[Releasing].requests) <= 1
        BY <3>1, <3>2
      <4> QED
        BY <3>1, <4>1, AskIsOneMore
    <3>4. recorder' \in RecorderStates /\ recorder'.at = "stopping" /\ recorder'.release = recorder.release
          /\ recorder'.ends = recorder.ends
      BY <3>1 DEF RecorderStates
    <3>5. \A i \in 2..Len(recorder.release) : Len(worker'[recorder.release[i]].requests) <= 1
      <4> TAKE i \in 2..Len(recorder.release)
      <4>1. i \in 1..Len(recorder.release) /\ i # 1
        OBVIOUS
      <4>2. recorder.release[i] # Releasing
        BY <4>1, <3>1 DEF WorkerInv, Ending
      <4>3. recorder.release[i] \in Names /\ Len(worker[recorder.release[i]].requests) <= 1
        BY <4>1, <3>2
      <4> QED
        BY <4>2, <4>3, <3>3
    <3>6. Ending'
      BY <3>1, <3>3, <3>4, <3>5 DEF WorkerInv, Ending
    <3> QED
      BY <3>3, <3>4, <3>6 DEF WorkerInv, WorkersAreSound, Asking, Hearing
  <2> QED
    BY <2>1, <2>2
<1>2. CASE StopWaited
  <2>1. /\ recorder.at = "stopping" /\ recorder' = [recorder EXCEPT !.at = "joining"]
        /\ worker' = [worker EXCEPT ![Releasing].awaited = FALSE]
    BY <1>2 DEF StopWaited
  <2>2. recorder.release # <<>> /\ Releasing \in Names
    BY <2>1 DEF WorkerInv, Ending
  <2>3. /\ worker' \in [Names -> WorkerStates] /\ \A u \in Names : IsSound(worker'[u])
        /\ \A u \in Names : /\ worker[u].at = "ended" => worker'[u].at = "ended"
                            /\ Len(worker'[u].requests) = Len(worker[u].requests)
    BY <2>1, <2>2, NotAwaited
  <2>4. recorder' \in RecorderStates /\ recorder'.at = "joining" /\ recorder'.release = recorder.release
        /\ recorder'.ends = recorder.ends
    BY <2>1 DEF RecorderStates
  <2>5. \A i \in 2..Len(recorder.release) : Len(worker'[recorder.release[i]].requests) <= 1
    <3> TAKE i \in 2..Len(recorder.release)
    <3>1. recorder.release[i] \in Names
      OBVIOUS
    <3>2. Len(worker[recorder.release[i]].requests) <= 1
      BY <2>1 DEF WorkerInv, Ending
    <3> QED
      BY <3>1, <3>2, <2>3
  <2>6. Ending'
    BY <2>1, <2>3, <2>4, <2>5 DEF WorkerInv, Ending
  <2> QED
    BY <2>3, <2>4, <2>6 DEF WorkerInv, WorkersAreSound, Asking, Hearing
<1>3. CASE Joined
  <2>1. recorder.release # <<>>
    BY <1>3 DEF Joined, WorkerInv, Ending
  <2> QED
    BY <1>3, <2>1, ListGoesOn DEF Joined
<1>4. CASE Done
  <2>1. /\ recorder.at = "releasing" /\ recorder.release = <<>> /\ worker' = worker
        /\ recorder' = [recorder EXCEPT !.at = recorder.ends]
    BY <1>4 DEF Done
  <2>2. recorder.ends \in {"refused", "stopped"}
    BY DEF RecorderStates
  <2>3. recorder' \in RecorderStates /\ recorder'.at = recorder.ends /\ recorder'.release = <<>>
    BY <2>1, <2>2 DEF RecorderStates
  <2>4. Len(recorder'.release) = 0
    BY <2>3
  <2>5. recorder.ends = "stopped" => \A t \in Names : worker[t].at = "ended"
    BY <2>1 DEF WorkerInv, Ending
  <2>6. Ending'
    BY <2>1, <2>2, <2>3, <2>4, <2>5 DEF Ending
  <2> QED
    BY <2>1, <2>2, <2>3, <2>6 DEF WorkerInv, WorkersAreSound, Asking, Hearing
<1> QED
  BY <1>1, <1>2, <1>3, <1>4

LEMMA WorkersStep == WorkerInv /\ [WorkerNext]_workerVars => WorkerInv'
<1> SUFFICES ASSUME WorkerInv, [WorkerNext]_workerVars PROVE WorkerInv'
  OBVIOUS
<1>1. CASE UNCHANGED workerVars
  BY <1>1 DEF workerVars, WorkerInv, WorkersAreSound, Asking, Hearing, Ending, Opening
<1>2. CASE RecorderStep \/ RecordingStops \/ OtherSourceFails
  BY <1>2, OpeningSteps, ReadingSteps, ReleasingSteps DEF RecorderStep
<1>3. ASSUME NEW t \in Names, WorkerStep(t) \/ Panics(t) \/ AsksForBlock(t) PROVE WorkerInv'
  BY <1>3, ThreadsStep, ReadingSteps
<1> QED
  BY <1>1, <1>2, <1>3 DEF WorkerNext

LEMMA WorkersKeepTheirWord == WorkerInv => SoundBeforeAndSilenceAfter
<1> SUFFICES ASSUME WorkerInv PROVE SoundBeforeAndSilenceAfter
  OBVIOUS
<1>1. WorkerTypes
  <2>1. recorder.at \in {"opening", "first", "recording", "reading", "releasing", "stopping", "joining",
                         "refused", "stopped"}
    BY RecorderIsSound DEF RecorderStates
  <2>2. ToSet(recorder.release) \subseteq Names
    BY RecorderIsSound DEF ToSet
  <2>3. \A t \in Names :
          /\ worker[t].at \in {"none", "opening", "closing", "serving", "read", "stop", "ended"}
          /\ worker[t].device \in {"closed", "open", "released"} /\ Len(worker[t].requests) <= 2
    BY RecorderIsSound DEF WorkerStates
  <2> QED
    BY <2>1, <2>2, <2>3, RecorderIsSound DEF WorkerTypes
<1>2. \A t \in Names : worker[t].at = "ended" => worker[t].device # "open"
  BY RecorderIsSound DEF IsSound
<1> QED
  BY <1>1, <1>2 DEF SoundBeforeAndSilenceAfter, WorkerInv, Hearing, Ending

-----------------------------------------------------------------------------
(* What a backend takes from Windows and gives back. *)

Backends == [kind : {"loopback", "microphone"}, finder : BOOLEAN, supported : BOOLEAN, started : BOOLEAN,
             game : {"none", "wanted", "refused"}, owned : BOOLEAN, apartment : Threads \cup {Nobody},
             generation : Nat, watched : Nat, gone : BOOLEAN]
Openings == [path : {"none", "factory", "process", "endpoint", "microphone"}, step : Nat,
             by : Threads \cup {Nobody}, first : BOOLEAN]
Streams == [fits : BOOLEAN, converting : BOOLEAN, heard : Seq({"sound", "silence"}), warnings : Nat]
Watches == [converting : BOOLEAN, warned : BOOLEAN, audible : BOOLEAN, run : Nat]
Apartments == [count : Nat, mode : {"multi", "single"}]
Spendings == [failures : Nat, starts : Nat, strays : Nat]

DeviceTypes ==
    /\ backend \in Backends /\ opening \in Openings /\ stream \in Streams /\ watch \in Watches
    /\ com \in [Threads -> Apartments] /\ others \in [Threads -> Nat] /\ spent \in Spendings

(* What the calls before the k-th one of a path have left open.             *)
HeldBefore(p, k) ==
    (IF p \in {"process", "endpoint"} THEN {"enumerator"} ELSE {})
    \cup ({Path(p)[i] : i \in 1..(k - 1)} \cap Taken)

IsOpening == opening.path # "none"
OpeningInv ==
    /\ ~IsOpening => opening = NotOpening
    /\ IsOpening =>
          /\ opening.step \in 1..Len(Path(opening.path))
          /\ opening.by = backend.apartment /\ backend.apartment \in Threads /\ ~backend.gone
          /\ backend.kind = "microphone" <=> opening.path = "microphone"
          /\ opening.path \in {"factory", "microphone"} => opening.first
          /\ opening.first <=> ~backend.started
          /\ held = HeldBefore(opening.path, opening.step)
    /\ ~IsOpening /\ ~backend.started => held = {} /\ ~backend.owned
    /\ backend.started => backend.apartment \in Threads /\ ~backend.gone
    /\ ~IsOpening /\ backend.started => held = Kept \/ (backend.kind = "loopback" /\ held = {"enumerator"})

Mine(t) == IF backend.owned /\ backend.apartment = t THEN 1 ELSE 0
ApartmentInv ==
    /\ \A t \in Threads : /\ com[t].count >= others[t] + Mine(t)
                          /\ spent.strays = 0 => com[t].count = others[t] + Mine(t)
                          /\ com[t].mode = "single" => others[t] >= 1
    /\ backend.started \/ IsOpening => backend.owned \/ others[backend.apartment] >= 1

AllSilent(heard) == \A i \in 1..Len(heard) : heard[i] = "silence"
Suspects(w, s) ==
    /\ w.converting = s.converting /\ Len(s.heard) <= THRESHOLD
    /\ w.warned <=> (s.converting /\ Len(s.heard) = THRESHOLD /\ AllSilent(s.heard))
    /\ s.warnings = IF w.warned THEN 1 ELSE 0
    /\ ~w.audible => w.run = Len(s.heard) /\ AllSilent(s.heard)
    /\ w.audible /\ Len(s.heard) < THRESHOLD => ~AllSilent(s.heard)
SilenceInv ==
    /\ backend.kind = "loopback" => stream.fits
    /\ backend.watched <= backend.generation
    /\ IsOpening \/ ~Streaming => stream.heard = <<>> /\ stream.warnings = 0
    /\ ~IsOpening /\ Streaming => Suspects(Watched, stream)
DeviceInv == DeviceTypes /\ OpeningInv /\ ApartmentInv /\ SilenceInv

LEMMA PathsEnd ==
    /\ Path("factory") = <<"enumerator">> /\ Len(Path("factory")) = 1
    /\ Len(Path("process")) = 8 /\ Path("process")[8] = "anchor"
    /\ Len(Path("endpoint")) = 10 /\ Path("endpoint")[10] = "anchor"
    /\ Len(Path("microphone")) = 11 /\ Path("microphone")[11] = "anchor"
<1>1. Path("factory") = <<"enumerator">>
  BY DEF Path
<1>2. Path("process") = <<"activation", "client", "event", "initialize", "bind", "service", "start", "anchor">>
  BY DEF Path
<1>3. Path("endpoint") = <<"device", "client", "format", "period", "event", "initialize", "bind",
                           "service", "start", "anchor">>
  BY DEF Path
<1>4. Path("microphone") = <<"enumerator", "device", "client", "format", "event", "period", "initialize",
                             "bind", "service", "start", "anchor">>
  BY DEF Path
<1> QED
  BY <1>1, <1>2, <1>3, <1>4

LEMMA HeldAtFirst ==
    HeldBefore("factory", 1) = {} /\ HeldBefore("microphone", 1) = {}
    /\ HeldBefore("process", 1) = {"enumerator"} /\ HeldBefore("endpoint", 1) = {"enumerator"}
BY DEF HeldBefore

LEMMA HeldAfterCall ==
    ASSUME NEW p, NEW k \in Nat, k >= 1
    PROVE  HeldBefore(p, k + 1) = HeldBefore(p, k) \cup ({Path(p)[k]} \cap Taken)
<1> DEFINE q == Path(p)
<1>1. {q[i] : i \in 1..((k + 1) - 1)} = {q[i] : i \in 1..(k - 1)} \cup {q[k]}
  <2> HIDE DEF q
  <2>1. \A i : i \in 1..((k + 1) - 1) <=> i \in 1..(k - 1) \/ i = k
    OBVIOUS
  <2> QED
    BY <2>1
<1>2. HeldBefore(p, k + 1) = (IF p \in {"process", "endpoint"} THEN {"enumerator"} ELSE {})
                             \cup ({q[i] : i \in 1..((k + 1) - 1)} \cap Taken)
  BY DEF HeldBefore
<1>3. HeldBefore(p, k) = (IF p \in {"process", "endpoint"} THEN {"enumerator"} ELSE {})
                         \cup ({q[i] : i \in 1..(k - 1)} \cap Taken)
  BY DEF HeldBefore
<1> HIDE DEF q
<1>4. HeldBefore(p, k + 1) = HeldBefore(p, k) \cup ({q[k]} \cap Taken)
  BY <1>1, <1>2, <1>3
<1> QED
  BY <1>4 DEF q

(* Everything that is kept has been opened by the last call of a path.      *)
LEMMA HeldInTheEnd ==
    /\ {"enumerator", "client", "event", "service", "start"} \subseteq HeldBefore("process", 8)
    /\ {"enumerator", "client", "event", "service", "start"} \subseteq HeldBefore("endpoint", 10)
    /\ {"device", "client", "event", "service", "start"} \subseteq HeldBefore("microphone", 11)
<1>1. {"client", "event", "service", "start"} \subseteq {Path("process")[i] : i \in 1..(8 - 1)}
  <2>1. Path("process") = <<"activation", "client", "event", "initialize", "bind", "service", "start", "anchor">>
    BY DEF Path
  <2>2. Path("process")[2] = "client" /\ Path("process")[3] = "event" /\ Path("process")[6] = "service"
        /\ Path("process")[7] = "start"
    BY <2>1
  <2> QED
    BY <2>2
<1>2. {"client", "event", "service", "start"} \subseteq {Path("endpoint")[i] : i \in 1..(10 - 1)}
  <2>1. Path("endpoint") = <<"device", "client", "format", "period", "event", "initialize", "bind",
                             "service", "start", "anchor">>
    BY DEF Path
  <2>2. Path("endpoint")[2] = "client" /\ Path("endpoint")[5] = "event" /\ Path("endpoint")[8] = "service"
        /\ Path("endpoint")[9] = "start"
    BY <2>1
  <2> QED
    BY <2>2
<1>3. {"device", "client", "event", "service", "start"} \subseteq {Path("microphone")[i] : i \in 1..(11 - 1)}
  <2>1. Path("microphone") = <<"enumerator", "device", "client", "format", "event", "period", "initialize",
                               "bind", "service", "start", "anchor">>
    BY DEF Path
  <2>2. Path("microphone")[2] = "device" /\ Path("microphone")[3] = "client" /\ Path("microphone")[5] = "event"
        /\ Path("microphone")[9] = "service" /\ Path("microphone")[10] = "start"
    BY <2>1
  <2> QED
    BY <2>2
<1>4. /\ HeldBefore("process", 8) = {"enumerator"} \cup ({Path("process")[i] : i \in 1..(8 - 1)} \cap Taken)
      /\ HeldBefore("endpoint", 10) = {"enumerator"} \cup ({Path("endpoint")[i] : i \in 1..(10 - 1)} \cap Taken)
      /\ HeldBefore("microphone", 11) = {Path("microphone")[i] : i \in 1..(11 - 1)} \cap Taken
  BY DEF HeldBefore
<1>5. {"device", "client", "event", "service", "start"} \subseteq Taken
  BY DEF Taken
<1> HIDE DEF Path
<1> QED
  BY <1>1, <1>2, <1>3, <1>4, <1>5

LEMMA DeviceStarts == DeviceInit => DeviceInv
<1> SUFFICES ASSUME DeviceInit PROVE DeviceInv
  OBVIOUS
<1>1. /\ backend.kind \in {"loopback", "microphone"} /\ ~backend.started /\ ~backend.owned /\ ~backend.gone
      /\ backend.watched = 0 /\ backend.generation = 0 /\ backend \in Backends
  BY DEF DeviceInit, Backends
<1>2. opening.path = "none" /\ opening \in Openings /\ opening = NotOpening
  BY DEF DeviceInit, NotOpening, Openings
<1>3. stream \in Streams /\ stream.fits /\ stream.heard = <<>> /\ stream.warnings = 0 /\ watch \in Watches
  BY DEF DeviceInit, NoStream, NoWatch, Streams, Watches
<1>4. com \in [Threads -> Apartments] /\ \A t \in Threads : com[t].mode = "single" => com[t].count = 1
  BY DEF DeviceInit, Apartments
<1>5. \A t \in Threads : com[t].count \in Nat
  BY <1>4 DEF Apartments
<1>6. others \in [Threads -> Nat] /\ \A t \in Threads : others[t] = com[t].count
  BY <1>5 DEF DeviceInit
<1>7. spent \in Spendings /\ held = {}
  BY DEF DeviceInit, Spendings
<1>8. DeviceTypes
  BY <1>1, <1>2, <1>3, <1>4, <1>6, <1>7 DEF DeviceTypes
<1>9. OpeningInv
  BY <1>1, <1>2, <1>7 DEF OpeningInv, IsOpening
<1>10. ApartmentInv
  BY <1>1, <1>2, <1>4, <1>5, <1>6 DEF ApartmentInv, IsOpening, Mine
<1>11. SilenceInv
  BY <1>1, <1>2, <1>3, <1>7 DEF SilenceInv, IsOpening, Streaming
<1> QED
  BY <1>8, <1>9, <1>10, <1>11 DEF DeviceInv

LEMMA DeviceFacts ==
    ASSUME DeviceInv
    PROVE  /\ backend \in Backends /\ opening \in Openings /\ stream \in Streams /\ watch \in Watches
           /\ com \in [Threads -> Apartments] /\ others \in [Threads -> Nat] /\ spent \in Spendings
           /\ backend.kind \in {"loopback", "microphone"} /\ backend.generation \in Nat /\ backend.watched \in Nat
           /\ \A t \in Threads : com[t].count \in Nat /\ others[t] \in Nat /\ Mine(t) \in {0, 1}
           /\ opening.step \in Nat /\ (IsOpening <=> opening # NotOpening) /\ spent.strays \in Nat
           /\ stream.heard \in Seq({"sound", "silence"}) /\ Len(stream.heard) \in Nat
           /\ Nobody \notin Threads
<1>1. DeviceTypes
  BY DEF DeviceInv
<1>2. IsOpening <=> opening # NotOpening
  BY DEF DeviceInv, OpeningInv, IsOpening, NotOpening
<1>3. \A t \in Threads : com[t].count \in Nat /\ others[t] \in Nat /\ Mine(t) \in {0, 1}
  BY <1>1 DEF DeviceTypes, Apartments, Mine
<1>4. backend.kind \in {"loopback", "microphone"} /\ backend.generation \in Nat /\ backend.watched \in Nat
  BY <1>1 DEF DeviceTypes, Backends
<1>5. opening.step \in Nat /\ spent.strays \in Nat
  BY <1>1 DEF DeviceTypes, Openings, Spendings
<1>6. stream.heard \in Seq({"sound", "silence"}) /\ Len(stream.heard) \in Nat
  BY <1>1 DEF DeviceTypes, Streams
<1>7. Nobody \notin Threads
  BY AudioDeviceAssumption DEF Nobody
<1> QED
  BY <1>1, <1>2, <1>3, <1>4, <1>5, <1>6, <1>7 DEF DeviceTypes

(* The apartment is left by whoever is on its thread, and by nobody else.   *)
LEMMA ApartmentIsLeft ==
    ASSUME DeviceInv, NEW b \in Backends, b.owned = backend.owned, b.apartment = backend.apartment, NEW t \in Threads,
           LeavesApartment(b, t), others' = others, spent' \in Spendings,
           spent'.strays = spent.strays \/ spent'.strays > 0,
           backend.apartment # t => spent'.strays > 0 \/ ~backend.owned,
           ~IsOpening', ~b.started, backend.started \/ IsOpening \/ ~backend.owned
    PROVE  /\ ApartmentInv' /\ com' \in [Threads -> Apartments]
           /\ backend' = [b EXCEPT !.owned = FALSE]
<1> USE DeviceFacts
<1>1. backend' = [b EXCEPT !.owned = FALSE] /\ ~backend'.owned /\ backend'.started = b.started
  BY DEF LeavesApartment, Backends
<1>2. backend.owned => backend.apartment \in Threads
  BY DEF DeviceInv, OpeningInv
<1>3. CASE backend.owned /\ backend.apartment = t
  <2> DEFINE a == [com[t] EXCEPT !.count = @ - 1]
  <2>1. com' = [com EXCEPT ![t] = a]
    BY <1>3 DEF LeavesApartment, IsHere
  <2>2. com[t].count >= others[t] + 1 /\ (spent.strays = 0 => com[t].count = others[t] + 1)
    BY <1>3 DEF DeviceInv, ApartmentInv, Mine
  <2>3. com[t] \in Apartments
    OBVIOUS
  <2>4. a \in Apartments /\ a.count = com[t].count - 1 /\ a.mode = com[t].mode
    BY <2>2, <2>3 DEF Apartments
  <2> HIDE DEF a
  <2>5. com' \in [Threads -> Apartments] /\ \A u \in Threads : com'[u] = IF u = t THEN a ELSE com[u]
    BY <2>1, <2>4
  <2>6. \A u \in Threads : u # t => Mine(u) = 0
    BY <1>3 DEF Mine
  <2>7. \A u \in Threads : Mine(u)' = 0
    BY <1>1 DEF Mine
  <2>8. spent'.strays \in Nat /\ (spent'.strays = 0 => spent.strays = 0)
    BY DEF Spendings
  <2>9. a.count >= others[t] /\ (spent.strays = 0 => a.count = others[t])
    <3>1. com[t].count \in Nat /\ others[t] \in Nat
      OBVIOUS
    <3> QED
      BY ONLY <2>2, <2>4, <3>1
  <2>10. \A u \in Threads : u # t => /\ com[u].count >= others[u] /\ (spent.strays = 0 => com[u].count = others[u])
                                     /\ com[u].mode = "single" => others[u] >= 1
    BY <2>6 DEF DeviceInv, ApartmentInv
  <2>11. a.mode = "single" => others[t] >= 1
    BY <2>4 DEF DeviceInv, ApartmentInv
  <2>12. ApartmentInv'
    BY <1>1, <2>5, <2>7, <2>8, <2>9, <2>10, <2>11 DEF ApartmentInv
  <2> QED
    BY <1>1, <2>5, <2>12
<1>4. CASE ~(backend.owned /\ backend.apartment = t)
  <2>1. com' = com
    BY <1>2, <1>4 DEF LeavesApartment, IsHere
  <2>2. \A u \in Threads : Mine(u)' = 0
    BY <1>1 DEF Mine
  <2>3. spent'.strays \in Nat /\ (spent'.strays = 0 => spent.strays = 0)
    BY DEF Spendings
  <2>4. spent'.strays = 0 => ~backend.owned
    BY <1>4, <2>3
  <2>5. \A u \in Threads : /\ com[u].count >= others[u]
                           /\ spent'.strays = 0 => com[u].count = others[u]
                           /\ com[u].mode = "single" => others[u] >= 1
    <3> TAKE u \in Threads
    <3>1. com[u].count >= others[u] + Mine(u) /\ (spent.strays = 0 => com[u].count = others[u] + Mine(u))
          /\ (com[u].mode = "single" => others[u] >= 1)
      BY DEF DeviceInv, ApartmentInv
    <3>2. spent'.strays = 0 => Mine(u) = 0
      BY <2>4 DEF Mine
    <3> HIDE DEF Mine
    <3> QED
      BY <2>3, <3>1, <3>2
  <2>6. ApartmentInv'
    BY <1>1, <2>1, <2>2, <2>5 DEF ApartmentInv
  <2> QED
    BY <1>1, <2>1, <2>6
<1> QED
  BY <1>3, <1>4

(* An open that fails leaves nothing behind but what the next try needs.    *)
LEMMA FailedOpens ==
    ASSUME DeviceInv, OpenFails, others' = others, watch' = watch, spent' \in Spendings, spent'.strays = spent.strays
    PROVE  DeviceInv'
<1> USE DeviceFacts
<1>1. IsOpening /\ stream' = NoStream /\ stream' \in Streams /\ stream'.fits /\ stream'.heard = <<>> /\ stream'.warnings = 0
  BY DEF OpenFails, NoStream, Streams
<1>2. CASE opening.path = "process"
  <2>1. /\ opening' = [opening EXCEPT !.path = "endpoint", !.step = 1] /\ held' = held \cap {"enumerator"}
        /\ backend' = [backend EXCEPT !.game = "refused"] /\ com' = com
    BY <1>2 DEF OpenFails
  <2>2. /\ opening' \in Openings /\ opening'.path = "endpoint" /\ opening'.step = 1 /\ opening'.by = opening.by
        /\ opening'.first = opening.first
    BY <2>1 DEF Openings
  <2>9. 1 \in 1..Len(Path("endpoint"))
    BY ONLY PathsEnd
  <2>3. /\ backend' \in Backends /\ backend'.kind = backend.kind /\ backend'.started = backend.started
        /\ backend'.owned = backend.owned /\ backend'.apartment = backend.apartment /\ backend'.gone = backend.gone
        /\ backend'.generation = backend.generation /\ backend'.watched = backend.watched
    BY <2>1 DEF Backends
  <2>4. held' = HeldBefore("endpoint", 1)
    BY <1>1, <1>2, <2>1, HeldAtFirst DEF DeviceInv, OpeningInv, HeldBefore
  <2>5. OpeningInv'
    BY <1>1, <1>2, <2>2, <2>3, <2>4, <2>9 DEF DeviceInv, OpeningInv, IsOpening
  <2>6. \A t \in Threads : Mine(t)' = Mine(t)
    BY <2>3 DEF Mine
  <2>7. ApartmentInv'
    BY <1>1, <2>1, <2>3, <2>6 DEF DeviceInv, ApartmentInv
  <2>8. SilenceInv'
    BY <1>1, <2>2, <2>3 DEF DeviceInv, SilenceInv, IsOpening
  <2> QED
    BY <1>1, <2>1, <2>2, <2>3, <2>5, <2>7, <2>8 DEF DeviceInv, DeviceTypes
<1>3. CASE opening.path # "process"
  <2>1. opening' = NotOpening /\ held' = (IF opening.first THEN {} ELSE held \cap {"enumerator"})
    BY <1>3 DEF OpenFails
  <2>2. opening'.path = "none" /\ opening' \in Openings /\ ~IsOpening'
    BY <2>1 DEF NotOpening, Openings, IsOpening
  <2>3. /\ opening.by \in Threads /\ opening.by = backend.apartment /\ ~backend.gone
        /\ (opening.first <=> ~backend.started)
    BY <1>1 DEF DeviceInv, OpeningInv
  <2>4. CASE opening.first
    <3>1. LeavesApartment(backend, opening.by)
      BY <1>3, <2>4 DEF OpenFails
    <3>2. /\ ApartmentInv' /\ com' \in [Threads -> Apartments] /\ backend' = [backend EXCEPT !.owned = FALSE]
      <4>1. ~backend.started /\ spent'.strays = spent.strays /\ ~IsOpening' /\ IsOpening
        BY <1>1, <2>2, <2>3, <2>4
      <4> HIDE DEF IsOpening
      <4> QED
        BY <2>3, <3>1, <4>1, ApartmentIsLeft
    <3>3. /\ backend' \in Backends /\ ~backend'.started /\ ~backend'.owned /\ backend'.kind = backend.kind
          /\ backend'.generation = backend.generation /\ backend'.watched = backend.watched
      BY <2>3, <2>4, <3>2 DEF Backends
    <3>4. held' = {}
      BY <2>1, <2>4
    <3>5. OpeningInv'
      BY <2>1, <2>2, <3>3, <3>4 DEF OpeningInv
    <3>6. SilenceInv'
      BY <1>1, <2>2, <3>3, <3>4 DEF DeviceInv, SilenceInv, Streaming
    <3> QED
      BY <1>1, <2>2, <3>2, <3>3, <3>5, <3>6 DEF DeviceInv, DeviceTypes
  <2>5. CASE ~opening.first
    <3>1. backend' = backend /\ com' = com
      BY <1>3, <2>5 DEF OpenFails
    <3>2. opening.path = "endpoint" /\ backend.kind = "loopback"
      BY <1>1, <1>3, <2>5 DEF DeviceInv, OpeningInv, IsOpening, Openings
    <3>3. held' = {"enumerator"}
      BY <1>1, <2>1, <2>5, <3>2 DEF DeviceInv, OpeningInv, HeldBefore
    <3>4. OpeningInv'
      BY <2>1, <2>2, <2>3, <2>5, <3>1, <3>2, <3>3 DEF DeviceInv, OpeningInv
    <3>5. \A t \in Threads : Mine(t)' = Mine(t)
      BY <3>1 DEF Mine
    <3>6. ApartmentInv'
      BY <1>1, <2>2, <3>1, <3>5 DEF DeviceInv, ApartmentInv
    <3>7. SilenceInv'
      BY <1>1, <2>2, <3>1, <3>3 DEF DeviceInv, SilenceInv, Streaming
    <3> QED
      BY <1>1, <2>2, <3>1, <3>4, <3>6, <3>7 DEF DeviceInv, DeviceTypes
  <2> QED
    BY <2>4, <2>5
<1> QED
  BY <1>2, <1>3

(* The open goes on with its next call.                                     *)
LEMMA OpenGoesOn ==
    ASSUME DeviceInv, IsOpening, opening.step # Len(Path(opening.path)),
           opening' = [opening EXCEPT !.step = @ + 1], held' = held \cup ({Step} \cap Taken),
           backend' = backend, com' = com, others' = others, watch' = watch, spent' = spent,
           stream' \in Streams, backend.kind = "loopback" => stream'.fits,
           stream'.heard = stream.heard, stream'.warnings = stream.warnings
    PROVE  DeviceInv'
<1> USE DeviceFacts
<1>1. opening' \in Openings /\ opening'.path = opening.path /\ opening'.step = opening.step + 1
      /\ opening'.by = opening.by /\ opening'.first = opening.first
  <2>1. opening \in Openings /\ opening.step \in Nat
    OBVIOUS
  <2>2. opening' = [opening EXCEPT !.step = opening.step + 1]
    OBVIOUS
  <2> QED
    BY ONLY <2>1, <2>2 DEF Openings
<1>2. opening.step \in 1..Len(Path(opening.path)) /\ held = HeldBefore(opening.path, opening.step)
  BY DEF DeviceInv, OpeningInv
<1>3. Len(Path(opening.path)) \in Nat
  BY PathsEnd DEF DeviceInv, OpeningInv, IsOpening, Openings
<1>4. opening'.step \in 1..Len(Path(opening'.path))
  BY <1>1, <1>2, <1>3
<1>5. held' = HeldBefore(opening'.path, opening'.step)
  BY <1>1, <1>2, HeldAfterCall DEF Step
<1>6. OpeningInv'
  BY <1>1, <1>4, <1>5 DEF DeviceInv, OpeningInv, IsOpening
<1>7. IsOpening'
  BY <1>1 DEF IsOpening
<1>8. \A t \in Threads : Mine(t)' = Mine(t)
  BY DEF Mine
<1>9. ApartmentInv'
  BY <1>8 DEF DeviceInv, ApartmentInv
<1>10. SilenceInv'
  BY <1>7 DEF DeviceInv, SilenceInv
<1> QED
  BY <1>1, <1>6, <1>9, <1>10 DEF DeviceInv, DeviceTypes

LEMMA LastIsTheAnchor ==
    ASSUME DeviceInv, IsOpening
    PROVE  /\ Step # "anchor" /\ opening.path # "factory" => opening.step # Len(Path(opening.path))
           /\ opening.path = "factory" => Step = "enumerator" /\ opening.step = 1
           /\ opening.path # "factory" /\ opening.step = Len(Path(opening.path)) => Step = "anchor"
<1> USE DeviceFacts
<1>1. opening.path \in {"factory", "process", "endpoint", "microphone"} /\ opening.step \in 1..Len(Path(opening.path))
  BY DEF DeviceInv, OpeningInv, IsOpening, Openings
<1>2. CASE opening.path = "factory"
  <2>1. opening.step = 1
    <3>1. Len(Path("factory")) = 1
      BY ONLY PathsEnd
    <3>2. opening.step \in 1..1
      BY ONLY <1>1, <1>2, <3>1
    <3> QED
      BY ONLY <3>2
  <2>2. Step = <<"enumerator">>[1]
    BY <1>2, <2>1, PathsEnd DEF Step
  <2> QED
    BY <1>2, <2>1, <2>2
<1>3. CASE opening.path # "factory"
  BY <1>1, <1>3, PathsEnd DEF Step
<1> QED
  BY <1>2, <1>3

(* The last call is made: what is kept is kept, and the watch starts anew.  *)
LEMMA OpenIsDone ==
    ASSUME DeviceInv, IsOpening, opening.path # "factory", opening.step = Len(Path(opening.path)),
           StreamOpened((held \cup ({Step} \cap Taken)) \cap Kept), others' = others, spent' = spent
    PROVE  DeviceInv'
<1> USE DeviceFacts
<1>1. /\ opening' = NotOpening /\ com' = com /\ stream' = stream
      /\ held' = (held \cup ({Step} \cap Taken)) \cap Kept
      /\ backend' = [backend EXCEPT !.started = TRUE, !.generation = IF opening.first THEN 1 ELSE backend.generation + 1,
                                    !.watched = IF opening.first THEN 0 ELSE backend.watched]
      /\ watch' = IF backend.kind = "loopback" THEN watch ELSE [NoWatch EXCEPT !.converting = stream.converting]
  BY DEF StreamOpened
<1>2. opening'.path = "none" /\ opening' \in Openings /\ ~IsOpening'
  BY <1>1 DEF NotOpening, Openings, IsOpening
<1>3. /\ backend' \in Backends /\ backend'.started /\ backend'.kind = backend.kind /\ backend'.owned = backend.owned
      /\ backend'.apartment = backend.apartment /\ backend'.gone = backend.gone
      /\ backend'.generation = (IF opening.first THEN 1 ELSE backend.generation + 1)
      /\ backend'.watched = (IF opening.first THEN 0 ELSE backend.watched)
  <2> DEFINE g == IF opening.first THEN 1 ELSE backend.generation + 1
             w == IF opening.first THEN 0 ELSE backend.watched
  <2>1. backend \in Backends /\ g \in Nat /\ w \in Nat
    OBVIOUS
  <2>2. backend' = [backend EXCEPT !.started = TRUE, !.generation = g, !.watched = w]
    BY <1>1
  <2> HIDE DEF g, w
  <2>3. backend' \in Backends
    BY ONLY <2>1, <2>2 DEF Backends
  <2>4. /\ backend'.started /\ backend'.kind = backend.kind /\ backend'.owned = backend.owned
        /\ backend'.apartment = backend.apartment /\ backend'.gone = backend.gone
        /\ backend'.generation = g /\ backend'.watched = w
    BY ONLY <2>1, <2>2 DEF Backends
  <2> QED
    BY <2>3, <2>4 DEF g, w
<1>4. Kept \subseteq HeldBefore(opening.path, opening.step)
  <2>1. opening.path \in {"process", "endpoint", "microphone"}
        /\ (backend.kind = "microphone" <=> opening.path = "microphone")
    BY DEF DeviceInv, OpeningInv, IsOpening, Openings
  <2>2. Kept = IF backend.kind = "loopback" THEN {"enumerator", "client", "event", "service", "start"}
               ELSE {"device", "client", "event", "service", "start"}
    BY DEF Kept
  <2> QED
    BY <2>1, <2>2, PathsEnd, HeldInTheEnd
<1>5. held' = Kept
  BY <1>1, <1>4 DEF DeviceInv, OpeningInv
<1>6. Kept' = Kept
  BY <1>3 DEF Kept
<1>7. OpeningInv'
  BY <1>1, <1>2, <1>3, <1>5, <1>6 DEF DeviceInv, OpeningInv
<1>8. \A t \in Threads : Mine(t)' = Mine(t)
  BY <1>3 DEF Mine
<1>9. ApartmentInv'
  BY <1>1, <1>2, <1>3, <1>8 DEF DeviceInv, ApartmentInv
<1>10. backend'.watched <= backend'.generation /\ (backend.kind = "loopback" => backend'.generation # backend'.watched)
  BY <1>3 DEF DeviceInv, SilenceInv
<1>11. stream.heard = <<>> /\ stream.warnings = 0 /\ (backend.kind = "loopback" => stream.fits)
       /\ stream.converting \in BOOLEAN
  BY DEF DeviceInv, SilenceInv, Streams
<1>12. Streaming'
  BY <1>5 DEF Streaming, Kept
<1>13. Watched' = [NoWatch EXCEPT !.converting = stream.converting]
  <2>1. CASE backend.kind = "loopback"
    BY <2>1, <1>1, <1>3, <1>10, <1>12 DEF Watched
  <2>2. CASE backend.kind # "loopback"
    BY <2>2, <1>1, <1>3 DEF Watched
  <2> QED
    BY <2>1, <2>2
<1>14. /\ Watched'.converting = stream.converting /\ Watched'.warned = FALSE /\ Watched'.audible = FALSE
       /\ Watched'.run = 0
  BY <1>13 DEF NoWatch
<1>15. watch' \in Watches
  <2>1. [NoWatch EXCEPT !.converting = stream.converting] \in Watches
    BY <1>11 DEF NoWatch, Watches
  <2> QED
    BY <1>1, <2>1
<1>16. Suspects(Watched', stream)
  <2>1. THRESHOLD \in Nat /\ THRESHOLD > 0
    BY AudioDeviceAssumption
  <2>2. Len(stream.heard) = 0 /\ AllSilent(stream.heard)
    BY <1>11 DEF AllSilent
  <2> HIDE DEF AllSilent
  <2> QED
    BY <1>11, <1>14, <2>1, <2>2 DEF Suspects
<1>17. SilenceInv'
  BY <1>1, <1>2, <1>3, <1>10, <1>11, <1>12, <1>16 DEF SilenceInv
<1> QED
  BY <1>1, <1>2, <1>3, <1>7, <1>9, <1>15, <1>17 DEF DeviceInv, DeviceTypes

LEMMA BufferFits ==
    ASSUME NEW default \in Nat, NEW minimum \in Nat, minimum <= MAX_BUFFER
    PROVE  minimum <= BufferFor(default, minimum) /\ BufferFor(default, minimum) <= MAX_BUFFER
<1>1. MAX_BUFFER \in Nat /\ ORDINARY \in Nat /\ ORDINARY <= MAX_BUFFER
  BY AudioDeviceAssumption
<1> QED
  BY <1>1 DEF BufferFor

(* The calls of an open that return. *)
LEMMA CallsReturn ==
    ASSUME DeviceInv,
           \/ CallReturns \/ ActivationCompletes
           \/ \E converting \in BOOLEAN : FormatRead(converting)
           \/ \E default, minimum \in Periods : PeriodRead(default, minimum)
    PROVE  DeviceInv'
<1> USE DeviceFacts
<1>0. IsOpening
  BY DEF CallReturns, ActivationCompletes, FormatRead, PeriodRead
<1>1. ASSUME NEW converting \in BOOLEAN, FormatRead(converting) PROVE DeviceInv'
  <2>1. /\ Step = "format" /\ held' = held \cup {"format"} /\ stream' = [stream EXCEPT !.converting = converting]
        /\ opening' = [opening EXCEPT !.step = @ + 1]
        /\ backend' = backend /\ com' = com /\ others' = others /\ watch' = watch /\ spent' = spent
    BY <1>1 DEF FormatRead
  <2>2. held' = held \cup ({Step} \cap Taken)
    BY <2>1 DEF Taken
  <2>3. stream' \in Streams /\ stream'.fits = stream.fits /\ stream'.heard = stream.heard
        /\ stream'.warnings = stream.warnings
    BY <2>1 DEF Streams
  <2>4. opening.step # Len(Path(opening.path))
    BY <1>0, <2>1, LastIsTheAnchor
  <2>5. backend.kind = "loopback" => stream'.fits
    BY <2>3 DEF DeviceInv, SilenceInv
  <2> HIDE DEF IsOpening
  <2> QED
    BY <1>0, <2>1, <2>2, <2>3, <2>4, <2>5, OpenGoesOn
<1>2. ASSUME NEW default \in Periods, NEW minimum \in Periods, PeriodRead(default, minimum) PROVE DeviceInv'
  <2> DEFINE asked == IF backend.kind = "loopback" THEN BufferFor(default, minimum)
                      ELSE IF default > 0 THEN default ELSE ORDINARY
  <2>1. /\ Step = "period" /\ stream' = [stream EXCEPT !.fits = minimum <= asked /\ asked <= MAX_BUFFER]
        /\ opening' = [opening EXCEPT !.step = @ + 1] /\ (backend.kind = "loopback" => minimum <= MAX_BUFFER)
        /\ held' = held /\ backend' = backend /\ com' = com /\ others' = others /\ watch' = watch /\ spent' = spent
    BY <1>2 DEF PeriodRead
  <2>2. held' = held \cup ({Step} \cap Taken)
    BY <2>1 DEF Taken
  <2>3. default \in Nat /\ minimum \in Nat
    BY AudioDeviceAssumption
  <2>4. backend.kind = "loopback" => minimum <= asked /\ asked <= MAX_BUFFER
    BY <2>1, <2>3, BufferFits
  <2> HIDE DEF asked
  <2>5. stream' \in Streams /\ stream'.heard = stream.heard /\ stream'.warnings = stream.warnings
        /\ stream'.fits = (minimum <= asked /\ asked <= MAX_BUFFER)
    BY <2>1 DEF Streams
  <2>6. opening.step # Len(Path(opening.path))
    BY <1>0, <2>1, LastIsTheAnchor
  <2>7. backend.kind = "loopback" => stream'.fits
    BY <2>4, <2>5
  <2> HIDE DEF IsOpening
  <2> QED
    BY <1>0, <2>1, <2>2, <2>5, <2>6, <2>7, OpenGoesOn
<1>3. CASE ActivationCompletes
  <2>1. /\ Step = "activation" /\ opening' = [opening EXCEPT !.step = @ + 1] /\ stream' = stream
        /\ held' = held /\ backend' = backend /\ com' = com /\ others' = others /\ watch' = watch /\ spent' = spent
    BY <1>3 DEF ActivationCompletes
  <2>2. held' = held \cup ({Step} \cap Taken)
    BY <2>1 DEF Taken
  <2>3. opening.step # Len(Path(opening.path))
    BY <1>0, <2>1, LastIsTheAnchor
  <2>4. stream' \in Streams /\ (backend.kind = "loopback" => stream'.fits)
    BY <2>1 DEF DeviceInv, SilenceInv
  <2> HIDE DEF IsOpening
  <2> QED
    BY <1>0, <2>1, <2>2, <2>3, <2>4, OpenGoesOn
<1>4. CASE CallReturns /\ opening.path = "factory"
  <2>1. PICK running \in BOOLEAN : opening' = Looks(running)
    BY <1>4 DEF CallReturns
  <2>2. /\ held' = held \cup ({Step} \cap Taken) /\ backend' = backend /\ com' = com /\ watch' = watch
        /\ stream' = stream /\ others' = others /\ spent' = spent
    BY <1>4 DEF CallReturns
  <2>3. Step = "enumerator" /\ opening.step = 1
    BY <1>0, <1>4, LastIsTheAnchor
  <2>4. held' = {"enumerator"}
    BY <1>0, <1>4, <2>2, <2>3, HeldAtFirst DEF DeviceInv, OpeningInv, Taken
  <2>5. /\ opening' \in Openings /\ opening'.path \in {"process", "endpoint"} /\ opening'.step = 1
        /\ opening'.by = opening.by /\ opening'.first = opening.first
    BY <2>1 DEF Looks, Openings
  <2>6. 1 \in 1..Len(Path(opening'.path))
    BY <2>5, PathsEnd
  <2>7. held' = HeldBefore(opening'.path, opening'.step)
    BY <2>4, <2>5, HeldAtFirst
  <2>8. OpeningInv'
    BY <1>0, <1>4, <2>2, <2>5, <2>6, <2>7 DEF DeviceInv, OpeningInv, IsOpening
  <2>9. IsOpening'
    BY <2>5 DEF IsOpening
  <2>10. \A t \in Threads : Mine(t)' = Mine(t)
    BY <2>2 DEF Mine
  <2>11. ApartmentInv'
    BY <1>0, <2>2, <2>10 DEF DeviceInv, ApartmentInv
  <2>12. SilenceInv'
    BY <1>0, <2>2, <2>9 DEF DeviceInv, SilenceInv
  <2> QED
    BY <2>2, <2>5, <2>8, <2>11, <2>12 DEF DeviceInv, DeviceTypes
<1>5. CASE CallReturns /\ opening.path # "factory" /\ opening.step = Len(Path(opening.path))
  <2>1. StreamOpened((held \cup ({Step} \cap Taken)) \cap Kept) /\ others' = others /\ spent' = spent
    BY <1>5 DEF CallReturns
  <2> HIDE DEF IsOpening
  <2> QED
    BY <1>0, <1>5, <2>1, OpenIsDone
<1>6. CASE CallReturns /\ opening.path # "factory" /\ opening.step # Len(Path(opening.path))
  <2>1. /\ opening' = [opening EXCEPT !.step = @ + 1] /\ held' = held \cup ({Step} \cap Taken) /\ stream' = stream
        /\ backend' = backend /\ com' = com /\ others' = others /\ watch' = watch /\ spent' = spent
    BY <1>6 DEF CallReturns
  <2>2. stream' \in Streams /\ (backend.kind = "loopback" => stream'.fits)
    BY <2>1 DEF DeviceInv, SilenceInv
  <2> HIDE DEF IsOpening
  <2> QED
    BY <1>0, <1>6, <2>1, <2>2, OpenGoesOn
<1> QED
  BY <1>1, <1>2, <1>3, <1>4, <1>5, <1>6

LEMMA StartTakesTheApartment == ASSUME DeviceInv, NEW t \in Threads, Starts(t) PROVE DeviceInv'
<1> USE DeviceFacts
<1>1. /\ ~IsOpening /\ ~backend.started /\ ~backend.gone /\ ~backend.owned /\ held = {}
      /\ stream.heard = <<>> /\ stream.warnings = 0
  BY DEF Starts, Idle, DeviceInv, OpeningInv, SilenceInv, Streaming
<1>2. held' = held /\ stream' = stream /\ watch' = watch
  BY DEF Starts
<1>3. spent' \in Spendings /\ spent'.strays = spent.strays
  <2>1. spent' = [spent EXCEPT !.starts = @ + 1]
    BY DEF Starts
  <2>2. spent \in Spendings
    OBVIOUS
  <2> QED
    BY ONLY <2>1, <2>2 DEF Spendings
<1>4. /\ opening' \in Openings /\ opening'.path = (IF backend.kind = "loopback" THEN "factory" ELSE "microphone")
      /\ opening'.step = 1 /\ opening'.by = t /\ opening'.first = TRUE
  BY DEF Starts, Openings
<1>5. /\ backend' \in Backends /\ backend'.kind = backend.kind /\ ~backend'.started /\ ~backend'.gone
      /\ backend'.owned = (ApartmentOf(t) = "ok") /\ backend'.apartment = t
      /\ backend'.generation = backend.generation /\ backend'.watched = backend.watched
  <2> DEFINE o == ApartmentOf(t) = "ok"
             g == IF backend.finder /\ backend.supported THEN "wanted" ELSE "none"
  <2>1. backend' = [backend EXCEPT !.owned = o, !.apartment = t, !.finder = FALSE, !.game = g]
    BY DEF Starts
  <2>2. o \in BOOLEAN /\ g \in {"none", "wanted", "refused"} /\ backend \in Backends
    OBVIOUS
  <2> HIDE DEF o, g
  <2>3. backend' \in Backends
    BY <2>1, <2>2 DEF Backends
  <2>4. /\ backend'.kind = backend.kind /\ backend'.started = backend.started /\ backend'.gone = backend.gone
        /\ backend'.owned = o /\ backend'.apartment = t
        /\ backend'.generation = backend.generation /\ backend'.watched = backend.watched
    BY <2>1, <2>2 DEF Backends
  <2> QED
    BY <1>1, <2>3, <2>4 DEF o
<1>6. opening'.step \in 1..Len(Path(opening'.path)) /\ held' = HeldBefore(opening'.path, opening'.step)
  <2>1. Len(Path("factory")) = 1 /\ Len(Path("microphone")) = 11
    BY ONLY PathsEnd
  <2> QED
    <3>0. Len(Path(opening'.path)) \in {1, 11} /\ opening'.step = 1
      BY ONLY <1>4, <2>1
    <3>1. opening'.step \in 1..Len(Path(opening'.path))
      BY ONLY <3>0
    <3>2. held' = HeldBefore(opening'.path, opening'.step)
      BY ONLY <1>1, <1>2, <1>4, HeldAtFirst
    <3> QED
      BY <3>1, <3>2
<1>7. OpeningInv'
  BY <1>1, <1>4, <1>5, <1>6 DEF OpeningInv, IsOpening
<1>8. IsOpening'
  BY <1>4 DEF IsOpening
<1>9. SilenceInv'
  BY <1>1, <1>2, <1>5, <1>8 DEF DeviceInv, SilenceInv
<1>10. \A u \in Threads : Mine(u) = 0
  BY <1>1 DEF Mine
<1>11. \A u \in Threads : /\ com[u].count >= others[u] /\ (spent.strays = 0 => com[u].count = others[u])
                          /\ com[u].mode = "single" => others[u] >= 1
  BY <1>10 DEF DeviceInv, ApartmentInv
<1>12. com' = Entered(t) /\ others' = [others EXCEPT ![t] = @ + IF ApartmentOf(t) = "already" THEN 1 ELSE 0]
  BY DEF Starts
<1>13. \A u \in Threads : Mine(u)' = IF u = t /\ ApartmentOf(t) = "ok" THEN 1 ELSE 0
  BY <1>5 DEF Mine
<1>14. com[t] \in Apartments
  OBVIOUS
<1>15. CASE com[t].mode = "single"
  <2>1. ApartmentOf(t) = "changed"
    BY <1>15 DEF ApartmentOf
  <2>2. com' = com /\ others' = others
    BY <1>12, <2>1 DEF Entered
  <2>3. \A u \in Threads : Mine(u)' = 0
    BY <1>13, <2>1
  <2>4. ApartmentInv'
    BY <1>3, <1>5, <1>11, <1>15, <2>2, <2>3 DEF ApartmentInv
  <2> QED
    BY <1>2, <1>3, <1>4, <1>5, <1>7, <1>9, <2>2, <2>4 DEF DeviceInv, DeviceTypes
<1>16. CASE com[t].mode # "single"
  <2> DEFINE a == [com[t] EXCEPT !.count = @ + 1]
  <2>1. ApartmentOf(t) = IF com[t].count = 0 THEN "ok" ELSE "already"
    BY <1>16 DEF ApartmentOf
  <2>2. com' = [com EXCEPT ![t] = a]
    BY <1>12, <2>1 DEF Entered
  <2>3. a \in Apartments /\ a.count = com[t].count + 1 /\ a.mode = com[t].mode
    BY ONLY <1>14 DEF Apartments
  <2> HIDE DEF a
  <2>4. com' \in [Threads -> Apartments] /\ \A u \in Threads : com'[u] = IF u = t THEN a ELSE com[u]
    BY <2>2, <2>3
  <2>5. CASE com[t].count = 0
    <3>1. others' = others /\ others[t] = 0
      BY <1>11, <1>12, <2>1, <2>5
    <3>2. \A u \in Threads : Mine(u)' = IF u = t THEN 1 ELSE 0
      BY <1>13, <2>1, <2>5
    <3>3. backend'.owned
      BY <1>5, <2>1, <2>5
    <3>4. a.count = 1
      BY ONLY <2>3, <2>5
    <3>5. \A u \in Threads : /\ com'[u].count >= others[u] + Mine(u)'
                             /\ spent.strays = 0 => com'[u].count = others[u] + Mine(u)'
                             /\ com'[u].mode = "single" => others[u] >= 1
      <4> TAKE u \in Threads
      <4>1. CASE u = t
        BY <1>16, <2>3, <2>4, <3>1, <3>2, <3>4, <4>1
      <4>2. CASE u # t
        BY <1>11, <2>4, <3>2, <4>2
      <4> QED
        BY <4>1, <4>2
    <3>6. ApartmentInv'
      BY <1>3, <3>1, <3>3, <3>5 DEF ApartmentInv
    <3> QED
      BY <1>2, <1>3, <1>4, <1>5, <1>7, <1>9, <2>4, <3>1, <3>6 DEF DeviceInv, DeviceTypes
  <2>6. CASE com[t].count # 0
    <3>1. others' = [others EXCEPT ![t] = @ + 1]
      BY <1>12, <2>1, <2>6
    <3>2. others' \in [Threads -> Nat] /\ \A u \in Threads : others'[u] = IF u = t THEN others[t] + 1 ELSE others[u]
      BY <3>1
    <3>3. \A u \in Threads : Mine(u)' = 0
      BY <1>13, <2>1, <2>6
    <3>5. \A u \in Threads : /\ com'[u].count >= others'[u] + Mine(u)'
                             /\ spent.strays = 0 => com'[u].count = others'[u] + Mine(u)'
                             /\ com'[u].mode = "single" => others'[u] >= 1
      <4> TAKE u \in Threads
      <4>1. CASE u = t
        BY <1>11, <1>16, <2>3, <2>4, <3>2, <3>3, <4>1
      <4>2. CASE u # t
        BY <1>11, <2>4, <3>2, <3>3, <4>2
      <4> QED
        BY <4>1, <4>2
    <3>6. others'[t] >= 1
      BY <3>2
    <3>4. ApartmentInv'
      BY <1>3, <1>5, <3>5, <3>6 DEF ApartmentInv
    <3> QED
      BY <1>2, <1>3, <1>4, <1>5, <1>7, <1>9, <2>4, <3>2, <3>4 DEF DeviceInv, DeviceTypes
  <2> QED
    BY <2>5, <2>6
<1> QED
  BY <1>15, <1>16

(* Nothing of what the invariant speaks of but the count of what was spent. *)
LEMMA OnlySpends ==
    ASSUME DeviceInv, backend' = backend, com' = com, others' = others, held' = held, opening' = opening,
           stream' = stream, watch' = watch, spent' \in Spendings, spent'.strays = spent.strays
    PROVE  DeviceInv'
<1>1. OpeningInv'
  BY DEF DeviceInv, OpeningInv, IsOpening, Kept
<1>2. ApartmentInv'
  BY DEF DeviceInv, ApartmentInv, IsOpening, Mine
<1>3. SilenceInv'
  BY DEF DeviceInv, SilenceInv, IsOpening, Streaming, Watched
<1> QED
  BY <1>1, <1>2, <1>3 DEF DeviceInv, DeviceTypes

LEMMA FailureIsSpent ==
    ASSUME DeviceInv, Fails PROVE spent' \in Spendings /\ spent'.strays = spent.strays
<1>1. spent \in Spendings /\ (spent' = spent \/ spent' = [spent EXCEPT !.failures = @ + 1])
  BY DeviceFacts DEF Fails
<1> QED
  BY ONLY <1>1 DEF Spendings

(* The device is lost or another one is wanted, and a new open begins.      *)
LEMMA LostAndReopened ==
    ASSUME DeviceInv, NEW t \in Threads, Loses(t) \/ Reopens(t) PROVE DeviceInv'
<1> USE DeviceFacts
<1>1. /\ ~IsOpening /\ backend.started /\ backend.kind = "loopback" /\ backend' = backend /\ com' = com
      /\ others' = others /\ watch' = watch
  BY DEF Loses, Reopens, Idle
<1>2. \A u \in Threads : Mine(u)' = Mine(u)
  BY <1>1 DEF Mine
<1>3. CASE Loses(t)
  <2>1. held' = {"enumerator"} /\ stream' = NoStream /\ opening' = opening /\ Fails
    BY <1>3 DEF Loses
  <2>2. spent' \in Spendings /\ spent'.strays = spent.strays
    BY <2>1, FailureIsSpent
  <2>3. stream' \in Streams /\ stream'.fits /\ stream'.heard = <<>> /\ stream'.warnings = 0
    BY <2>1 DEF NoStream, Streams
  <2>4. OpeningInv'
    BY <1>1, <2>1 DEF DeviceInv, OpeningInv, IsOpening
  <2>5. ApartmentInv'
    BY <1>1, <1>2, <2>1, <2>2 DEF DeviceInv, ApartmentInv, IsOpening
  <2>6. SilenceInv'
    BY <1>1, <2>1, <2>3 DEF DeviceInv, SilenceInv, IsOpening, Streaming
  <2> QED
    BY <1>1, <2>1, <2>2, <2>3, <2>4, <2>5, <2>6 DEF DeviceInv, DeviceTypes
<1>4. CASE Reopens(t)
  <2>1. PICK running \in BOOLEAN : opening' = [Looks(running) EXCEPT !.by = t]
    BY <1>4 DEF Reopens
  <2>2. held' = held /\ stream' = stream /\ spent' = spent /\ ~Streaming /\ backend.apartment \in {t, Nobody}
    BY <1>4 DEF Reopens, IsHere
  <2>3. backend.apartment = t /\ ~backend.gone
    BY <1>1, <2>2 DEF DeviceInv, OpeningInv
  <2>4. opening = NotOpening
    BY <1>1
  <2>5. /\ opening' \in Openings /\ opening'.path \in {"process", "endpoint"} /\ opening'.step = 1
        /\ opening'.by = t /\ opening'.first = FALSE
    BY <2>1, <2>4 DEF Looks, Openings, NotOpening
  <2>6. held = {"enumerator"}
    BY <1>1, <2>2 DEF DeviceInv, OpeningInv, Streaming, Kept
  <2>7. 1 \in 1..Len(Path(opening'.path)) /\ held' = HeldBefore(opening'.path, opening'.step)
    BY <2>2, <2>5, <2>6, PathsEnd, HeldAtFirst
  <2>8. OpeningInv'
    BY <1>1, <2>2, <2>3, <2>5, <2>7 DEF DeviceInv, OpeningInv, IsOpening
  <2>9. ApartmentInv'
    BY <1>1, <1>2, <2>2, <2>5 DEF DeviceInv, ApartmentInv, IsOpening
  <2>10. IsOpening'
    BY <2>5 DEF IsOpening
  <2>11. SilenceInv'
    BY <1>1, <2>2, <2>10 DEF DeviceInv, SilenceInv
  <2> QED
    BY <1>1, <2>2, <2>5, <2>8, <2>9, <2>11 DEF DeviceInv, DeviceTypes
<1> QED
  BY <1>3, <1>4

LEMMA LettingGo == ASSUME DeviceInv, NEW t \in Threads, Stops(t) \/ Drops(t) PROVE DeviceInv'
<1> USE DeviceFacts
<1>1. PICK dropped \in BOOLEAN : LetsGo(t, dropped)
  BY DEF Stops, Drops
<1>2. ~IsOpening /\ opening' = opening /\ opening = NotOpening /\ held' = {} /\ stream' = NoStream
      /\ others' = others /\ watch' = watch /\ Strays(t)
  BY <1>1 DEF LetsGo, Idle
<1> DEFINE b == [backend EXCEPT !.started = FALSE, !.gone = dropped]
<1>3. LeavesApartment(b, t)
  BY <1>1 DEF LetsGo
<1>4. /\ b \in Backends /\ b.owned = backend.owned /\ b.apartment = backend.apartment /\ ~b.started
      /\ b.kind = backend.kind /\ b.generation = backend.generation /\ b.watched = backend.watched
  <2>1. backend \in Backends /\ dropped \in BOOLEAN
    OBVIOUS
  <2> QED
    BY ONLY <2>1 DEF Backends
<1> HIDE DEF b
<1>5. /\ spent' \in Spendings /\ (spent'.strays = spent.strays \/ spent'.strays > 0)
      /\ (~IsHere(t) => spent'.strays > 0)
  <2>1. spent \in Spendings /\ ((spent' = spent /\ IsHere(t)) \/ spent' = [spent EXCEPT !.strays = @ + 1])
    BY <1>2 DEF Strays
  <2> QED
    BY ONLY <2>1 DEF Spendings
<1>6. backend.owned => backend.started /\ backend.apartment \in Threads
  BY <1>2 DEF DeviceInv, OpeningInv
<1>7. backend.apartment # t => spent'.strays > 0 \/ ~backend.owned
  BY <1>5, <1>6 DEF IsHere
<1>8. ~IsOpening'
  BY <1>2 DEF IsOpening
<1>9. backend.started \/ IsOpening \/ ~backend.owned
  BY <1>6
<1>10. ApartmentInv' /\ com' \in [Threads -> Apartments] /\ backend' = [b EXCEPT !.owned = FALSE]
  <2> HIDE DEF IsOpening
  <2> QED
    BY <1>2, <1>3, <1>4, <1>5, <1>7, <1>8, <1>9, ApartmentIsLeft
<1>11. /\ backend' \in Backends /\ ~backend'.started /\ ~backend'.owned /\ backend'.kind = backend.kind
       /\ backend'.generation = backend.generation /\ backend'.watched = backend.watched
  BY ONLY <1>4, <1>10 DEF Backends
<1>12. OpeningInv'
  BY <1>2, <1>8, <1>11 DEF OpeningInv
<1>13. stream' \in Streams /\ stream'.fits /\ stream'.heard = <<>> /\ stream'.warnings = 0
  BY <1>2 DEF NoStream, Streams
<1>14. SilenceInv'
  BY <1>2, <1>8, <1>11, <1>13 DEF DeviceInv, SilenceInv, Streaming
<1> QED
  BY <1>2, <1>5, <1>10, <1>11, <1>12, <1>13, <1>14 DEF DeviceInv, DeviceTypes

(* One more block is one more piece of evidence, until there is enough.     *)
LEMMA EvidenceGrows ==
    ASSUME NEW w \in Watches, NEW s \in Streams, Suspects(w, s), NEW what \in {"sound", "silence"},
           NEW r \in Streams, r.converting = s.converting,
           r.heard = (IF Len(s.heard) = THRESHOLD THEN s.heard ELSE Append(s.heard, what)),
           r.warnings = s.warnings + (IF Observed(w, what = "silence").warned /\ ~w.warned THEN 1 ELSE 0)
    PROVE  Observed(w, what = "silence") \in Watches /\ Suspects(Observed(w, what = "silence"), r)
<1> DEFINE silent == what = "silence"
           run == IF ~silent THEN 0 ELSE IF w.run < THRESHOLD THEN w.run + 1 ELSE w.run
           warns == silent /\ w.converting /\ ~w.audible /\ ~w.warned /\ run >= THRESHOLD
           seen == Observed(w, silent)
<1>1. THRESHOLD \in Nat /\ THRESHOLD > 0
  BY AudioDeviceAssumption
<1>2. w.run \in Nat /\ w.converting \in BOOLEAN /\ w.audible \in BOOLEAN /\ w.warned \in BOOLEAN
  BY DEF Watches
<1>3. run \in Nat /\ silent \in BOOLEAN /\ warns \in BOOLEAN
  BY <1>1, <1>2
<1>4. seen = [w EXCEPT !.audible = w.audible \/ ~silent, !.run = run, !.warned = w.warned \/ warns]
  BY DEF Observed
<1>5. s.heard \in Seq({"sound", "silence"}) /\ Len(s.heard) \in Nat
  BY DEF Streams
<1> DEFINE b == w.audible \/ ~silent
           d == w.warned \/ warns
<1>6. b \in BOOLEAN /\ d \in BOOLEAN
  OBVIOUS
<1>7. seen \in Watches /\ seen.converting = w.converting /\ seen.audible = b /\ seen.run = run /\ seen.warned = d
  <2> HIDE DEF seen, run, b, d
  <2>1. w \in Watches /\ seen = [w EXCEPT !.audible = b, !.run = run, !.warned = d] /\ run \in Nat
    BY <1>3, <1>4 DEF b, d
  <2> QED
    BY ONLY <2>1, <1>6 DEF Watches
<1>8. r.warnings = IF d THEN 1 ELSE 0
  <2>1. r.warnings = s.warnings + (IF seen.warned /\ ~w.warned THEN 1 ELSE 0) /\ s.warnings = IF w.warned THEN 1 ELSE 0
    BY DEF Suspects
  <2>2. seen.warned = d
    BY <1>7
  <2>3. w.warned => d
    OBVIOUS
  <2> HIDE DEF seen, d, warns
  <2>4. CASE w.warned
    BY ONLY <2>1, <2>2, <2>3, <2>4
  <2>5. CASE ~w.warned /\ d
    BY ONLY <2>1, <2>2, <2>5
  <2>6. CASE ~w.warned /\ ~d
    BY ONLY <2>1, <2>2, <2>6
  <2> QED
    BY <2>4, <2>5, <2>6
<1> HIDE DEF seen
<1>9. /\ Len(s.heard) <= THRESHOLD /\ w.converting = s.converting
      /\ w.warned <=> (s.converting /\ Len(s.heard) = THRESHOLD /\ AllSilent(s.heard))
      /\ ~w.audible => w.run = Len(s.heard) /\ AllSilent(s.heard)
      /\ w.audible /\ Len(s.heard) < THRESHOLD => ~AllSilent(s.heard)
  BY DEF Suspects
<1>10. CASE Len(s.heard) = THRESHOLD
  <2>1. r.heard = s.heard
    BY <1>10
  <2>2. ~warns
    <3>1. w.converting /\ ~w.audible => w.warned
      BY <1>9, <1>10
    <3> QED
      BY <3>1
  <2>3. ~w.audible /\ silent => run = THRESHOLD
    BY <1>9, <1>10, <1>1
  <2> HIDE DEF warns, run, silent, AllSilent
  <2>4. d = w.warned
    BY <1>2, <2>2
  <2>5. Suspects(seen, r)
    <3>1. r.warnings = IF seen.warned THEN 1 ELSE 0
      BY <1>7, <1>8
    <3>2. seen.warned <=> (r.converting /\ Len(r.heard) = THRESHOLD /\ AllSilent(r.heard))
      BY <1>7, <1>9, <2>1, <2>4
    <3>3. ~seen.audible => seen.run = Len(r.heard) /\ AllSilent(r.heard)
      BY <1>7, <1>9, <1>10, <2>1, <2>3
    <3>4. seen.converting = r.converting /\ Len(r.heard) <= THRESHOLD /\ ~(Len(r.heard) < THRESHOLD)
      BY <1>1, <1>7, <1>9, <1>10, <2>1
    <3> QED
      BY <3>1, <3>2, <3>3, <3>4 DEF Suspects
  <2> QED
    BY <1>7, <2>5 DEF seen, silent
<1>11. CASE Len(s.heard) # THRESHOLD
  <2>1. r.heard = Append(s.heard, what) /\ Len(s.heard) < THRESHOLD
    BY <1>1, <1>5, <1>9, <1>11
  <2>2. Len(r.heard) = Len(s.heard) + 1 /\ r.heard[Len(s.heard) + 1] = what
        /\ \A i \in 1..Len(s.heard) : r.heard[i] = s.heard[i]
    BY <1>5, <2>1
  <2>3. AllSilent(r.heard) <=> AllSilent(s.heard) /\ silent
    <3>1. \A i \in 1..Len(r.heard) : i \in 1..Len(s.heard) \/ i = Len(s.heard) + 1
      BY <1>5, <2>2
    <3>2. Len(s.heard) + 1 \in 1..Len(r.heard) /\ \A i \in 1..Len(s.heard) : i \in 1..Len(r.heard)
      BY <1>5, <2>2
    <3> QED
      BY <2>2, <3>1, <3>2 DEF AllSilent
  <2>4. ~w.warned
    BY <1>9, <1>11
  <2>5. ~w.audible /\ silent => run = Len(s.heard) + 1
    BY <1>1, <1>9, <2>1
  <2>6. w.audible => ~AllSilent(s.heard)
    BY <1>9, <2>1
  <2>7. warns <=> (s.converting /\ Len(r.heard) = THRESHOLD /\ AllSilent(r.heard))
    <3> HIDE DEF run, silent, AllSilent
    <3>1. warns <=> silent /\ w.converting /\ ~w.audible /\ run >= THRESHOLD
      BY <2>4
    <3>2. CASE silent /\ ~w.audible
      <4>1. AllSilent(r.heard) /\ run = Len(r.heard)
        BY <1>9, <2>2, <2>3, <2>5, <3>2
      <4>2. run >= THRESHOLD <=> Len(r.heard) = THRESHOLD
        BY <1>1, <1>5, <2>1, <2>2, <4>1
      <4> HIDE DEF warns
      <4> QED
        BY <1>9, <3>1, <3>2, <4>1, <4>2
    <3>3. CASE ~(silent /\ ~w.audible)
      <4>1. ~AllSilent(r.heard)
        BY <2>3, <2>6, <3>3
      <4> HIDE DEF warns
      <4> QED
        BY <3>1, <3>3, <4>1
    <3> QED
      BY <3>2, <3>3
  <2> HIDE DEF warns, run, silent, AllSilent
  <2>8. Suspects(seen, r)
    <3>1. r.warnings = IF seen.warned THEN 1 ELSE 0
      BY <1>7, <1>8
    <3>2. seen.warned <=> (r.converting /\ Len(r.heard) = THRESHOLD /\ AllSilent(r.heard))
      BY <1>7, <2>4, <2>7
    <3>3. ~seen.audible => seen.run = Len(r.heard) /\ AllSilent(r.heard)
      BY <1>7, <1>9, <2>2, <2>3, <2>5
    <3>4. seen.audible /\ Len(r.heard) < THRESHOLD => ~AllSilent(r.heard)
      BY <1>7, <2>3, <2>6
    <3>5. seen.converting = r.converting /\ Len(r.heard) <= THRESHOLD
      BY <1>1, <1>5, <1>7, <1>9, <2>1, <2>2
    <3> QED
      BY <3>1, <3>2, <3>3, <3>4, <3>5 DEF Suspects
  <2> QED
    BY <1>7, <2>8 DEF seen, silent
<1> QED
  BY <1>10, <1>11

LEMMA BlocksAreHandedOn ==
    ASSUME DeviceInv, NEW t \in Threads, NEW what \in {"sound", "silence", "padding"}, HandsOn(t, what)
    PROVE  DeviceInv'
<1> USE DeviceFacts
<1> DEFINE w == Watched
           seen == IF what = "padding" THEN w ELSE Observed(w, what = "silence")
           h == IF what = "padding" \/ Len(stream.heard) = THRESHOLD \/ ~Streaming THEN stream.heard
                ELSE Append(stream.heard, what)
           n == stream.warnings + IF Streaming /\ seen.warned /\ ~w.warned THEN 1 ELSE 0
           g == IF backend.kind = "loopback" /\ Streaming THEN backend.generation ELSE backend.watched
<1>1. /\ ~IsOpening /\ backend.started /\ watch' = seen /\ stream' = [stream EXCEPT !.warnings = n, !.heard = h]
      /\ backend' = [backend EXCEPT !.watched = g]
      /\ com' = com /\ others' = others /\ held' = held /\ opening' = opening /\ spent' = spent
  BY DEF HandsOn, Idle
<1>2. stream.warnings \in Nat /\ stream.converting \in BOOLEAN
  BY DEF Streams
<1>3. h \in Seq({"sound", "silence"}) /\ n \in Nat /\ g \in Nat /\ g <= backend.generation
  <2>1. h \in Seq({"sound", "silence"})
    OBVIOUS
  <2>2. g \in Nat /\ g <= backend.generation
    BY DEF DeviceInv, SilenceInv
  <2>3. n \in Nat
    BY <1>2
  <2> QED
    BY <2>1, <2>2, <2>3
<1>4. w \in Watches
  <2>1. [NoWatch EXCEPT !.converting = stream.converting] \in Watches
    BY <1>2 DEF NoWatch, Watches
  <2> QED
    BY <2>1 DEF Watched
<1> HIDE DEF w, seen, h, n, g
<1>5. /\ stream' \in Streams /\ stream'.fits = stream.fits /\ stream'.converting = stream.converting
      /\ stream'.heard = h /\ stream'.warnings = n
  <2>1. stream \in Streams
    OBVIOUS
  <2> QED
    BY ONLY <1>1, <1>3, <2>1 DEF Streams
<1>6. /\ backend' \in Backends /\ backend'.kind = backend.kind /\ backend'.started = backend.started
      /\ backend'.owned = backend.owned /\ backend'.apartment = backend.apartment /\ backend'.gone = backend.gone
      /\ backend'.generation = backend.generation /\ backend'.watched = g
  <2>1. backend \in Backends
    OBVIOUS
  <2> QED
    BY ONLY <1>1, <1>3, <2>1 DEF Backends
<1>7. seen \in Watches
  <2>1. w.run \in Nat /\ w.converting \in BOOLEAN /\ w.audible \in BOOLEAN /\ w.warned \in BOOLEAN /\ THRESHOLD \in Nat
    BY <1>4, AudioDeviceAssumption DEF Watches
  <2>2. ASSUME NEW silent \in BOOLEAN PROVE Observed(w, silent) \in Watches
    <3> DEFINE run == IF ~silent THEN 0 ELSE IF w.run < THRESHOLD THEN w.run + 1 ELSE w.run
               b == w.audible \/ ~silent
               d == w.warned \/ (silent /\ w.converting /\ ~w.audible /\ ~w.warned /\ run >= THRESHOLD)
    <3>1. run \in Nat /\ b \in BOOLEAN /\ d \in BOOLEAN
      BY <2>1
    <3>2. Observed(w, silent) = [w EXCEPT !.audible = b, !.run = run, !.warned = d]
      BY DEF Observed
    <3> HIDE DEF run, b, d
    <3> QED
      BY ONLY <1>4, <3>1, <3>2 DEF Watches
  <2> QED
    BY <1>4, <2>2 DEF seen
<1>8. OpeningInv'
  BY <1>1, <1>6 DEF DeviceInv, OpeningInv, IsOpening, Kept
<1>9. \A u \in Threads : Mine(u)' = Mine(u)
  BY <1>6 DEF Mine
<1>10. ApartmentInv'
  BY <1>1, <1>6, <1>9 DEF DeviceInv, ApartmentInv, IsOpening
<1>11. ~IsOpening' /\ (Streaming' <=> Streaming)
  BY <1>1 DEF IsOpening, Streaming
<1>12. CASE ~Streaming
  <2>1. h = stream.heard /\ n = stream.warnings
    BY <1>2, <1>12 DEF h, n
  <2>2. SilenceInv'
    BY <1>3, <1>5, <1>6, <1>11, <1>12, <2>1 DEF DeviceInv, SilenceInv
  <2> QED
    BY <1>1, <1>5, <1>6, <1>7, <1>8, <1>10, <2>2 DEF DeviceInv, DeviceTypes
<1>13. CASE Streaming
  <2>1. Suspects(w, stream)
    BY <1>1, <1>13 DEF DeviceInv, SilenceInv, w
  <2>2. Watched' = seen
    <3>1. backend.kind = "loopback" => g = backend.generation
      BY <1>13 DEF g
    <3> QED
      BY <1>1, <1>6, <3>1 DEF Watched
  <2>3. Suspects(seen, stream')
    <3>1. CASE what = "padding"
      <4>1. seen = w /\ h = stream.heard
        BY <3>1 DEF seen, h
      <4>2. n = stream.warnings
        BY <1>2, <4>1 DEF n
      <4> QED
        BY <1>5, <2>1, <4>1, <4>2 DEF Suspects
    <3>2. CASE what # "padding"
      <4>1. what \in {"sound", "silence"} /\ seen = Observed(w, what = "silence")
        BY <3>2 DEF seen
      <4>2. stream'.heard = IF Len(stream.heard) = THRESHOLD THEN stream.heard ELSE Append(stream.heard, what)
        BY <1>5, <1>13, <3>2 DEF h
      <4>3. stream'.warnings = stream.warnings + (IF Observed(w, what = "silence").warned /\ ~w.warned THEN 1 ELSE 0)
        BY <1>5, <1>13, <4>1 DEF n
      <4>4. stream \in Streams /\ stream' \in Streams /\ stream'.converting = stream.converting
        BY <1>5
      <4> QED
        BY ONLY <1>4, <2>1, <4>1, <4>2, <4>3, <4>4, EvidenceGrows
    <3> QED
      BY <3>1, <3>2
  <2>4. backend.kind = "loopback" => stream.fits
    BY DEF DeviceInv, SilenceInv
  <2>5. SilenceInv'
    BY <1>3, <1>5, <1>6, <1>11, <1>13, <2>2, <2>3, <2>4 DEF SilenceInv
  <2> QED
    BY <1>1, <1>5, <1>6, <1>7, <1>8, <1>10, <2>5 DEF DeviceInv, DeviceTypes
<1> QED
  BY <1>12, <1>13

LEMMA DeviceStep == DeviceInv /\ [DeviceNext]_deviceVars => DeviceInv'
<1> SUFFICES ASSUME DeviceInv, [DeviceNext]_deviceVars PROVE DeviceInv'
  OBVIOUS
<1>1. spent \in Spendings
  BY DeviceFacts
<1>2. CASE UNCHANGED deviceVars \/ ActivationCompletesLate
  BY <1>1, <1>2, OnlySpends DEF deviceVars, ActivationCompletesLate
<1>3. CASE StartRefused
  <2>1. spent' = [spent EXCEPT !.starts = @ + 1, !.failures = @ + 1]
    BY <1>3 DEF StartRefused
  <2>2. spent.starts + 1 \in Nat /\ spent.failures + 1 \in Nat
    BY ONLY <1>1 DEF Spendings
  <2>3. spent'.strays = spent.strays
    BY ONLY <1>1, <2>1 DEF Spendings
  <2>4. spent' \in Spendings
    <3> DEFINE a == spent.starts + 1
               f == spent.failures + 1
    <3>1. spent' = [spent EXCEPT !.starts = a, !.failures = f] /\ a \in Nat /\ f \in Nat
      BY <2>1, <2>2
    <3> HIDE DEF a, f
    <3> QED
      BY ONLY <1>1, <3>1 DEF Spendings
  <2> QED
    BY <1>3, <2>3, <2>4, OnlySpends DEF StartRefused
<1>4. CASE CallFails \/ ActivationTimesOut \/ \E minimum \in Periods : PeriodRefused(minimum)
  <2>1. OpenFails /\ Fails /\ others' = others /\ watch' = watch
    BY <1>4 DEF CallFails, ActivationTimesOut, PeriodRefused
  <2> QED
    BY <2>1, FailureIsSpent, FailedOpens
<1>5. CASE \/ CallReturns \/ ActivationCompletes
           \/ \E converting \in BOOLEAN : FormatRead(converting)
           \/ \E default, minimum \in Periods : PeriodRead(default, minimum)
  BY <1>5, CallsReturn
<1>6. ASSUME NEW t \in Threads,
             \/ Starts(t) \/ Loses(t) \/ Reopens(t) \/ Stops(t) \/ Drops(t)
             \/ \E what \in {"sound", "silence", "padding"} : HandsOn(t, what)
      PROVE  DeviceInv'
  BY <1>6, StartTakesTheApartment, LostAndReopened, LettingGo, BlocksAreHandedOn
<1> QED
  BY <1>2, <1>3, <1>4, <1>5, <1>6 DEF DeviceNext

LEMMA DevicesAreGivenBack == DeviceInv => ApartmentIsGivenBack /\ SuspicionIsEarned
<1> SUFFICES ASSUME DeviceInv PROVE ApartmentIsGivenBack /\ SuspicionIsEarned
  OBVIOUS
<1> USE DeviceFacts
<1>1. ASSUME held # {} PROVE com[backend.apartment].count > 0 /\ (backend.started \/ opening # NotOpening)
  <2>1. (backend.started \/ IsOpening) /\ backend.apartment \in Threads
    BY <1>1 DEF DeviceInv, OpeningInv
  <2>2. Mine(backend.apartment) = IF backend.owned THEN 1 ELSE 0
    BY DEF Mine
  <2>3. com[backend.apartment].count >= others[backend.apartment] + Mine(backend.apartment)
        /\ (backend.owned \/ others[backend.apartment] >= 1)
    BY <2>1 DEF DeviceInv, ApartmentInv
  <2>4. com[backend.apartment].count \in Nat /\ others[backend.apartment] \in Nat
    BY <2>1
  <2>5. com[backend.apartment].count > 0
    BY ONLY <2>2, <2>3, <2>4
  <2> QED
    BY <2>1, <2>5
<1>2. Idle /\ Streaming => held = Kept
  BY DEF DeviceInv, OpeningInv, Idle, Streaming
<1>3. ApartmentIsGivenBack
  BY <1>1, <1>2 DEF ApartmentIsGivenBack, DeviceInv, ApartmentInv, Mine
<1>4. ASSUME Idle, Streaming
      PROVE  stream.warnings = IF stream.converting /\ Len(stream.heard) = THRESHOLD
                                  /\ \A i \in 1..THRESHOLD : stream.heard[i] = "silence" THEN 1 ELSE 0
  <2>1. Suspects(Watched, stream)
    BY <1>4 DEF DeviceInv, SilenceInv, Idle
  <2>2. Len(stream.heard) = THRESHOLD => (AllSilent(stream.heard) <=> \A i \in 1..THRESHOLD : stream.heard[i] = "silence")
    BY DEF AllSilent
  <2> QED
    BY <2>1, <2>2 DEF Suspects
<1> QED
  BY <1>3, <1>4 DEF SuspicionIsEarned, DeviceInv, SilenceInv

-----------------------------------------------------------------------------
(* The source that is wanted, and the one that is open. *)

Worlds == [device : Devices \cup {Nothing}, game : Games \cup {Nothing}, settled : Nat, mic : BOOLEAN, changes : Nat]
Packets == [at : Int, samples : Seq(Int), discontinuity : BOOLEAN]
Sources == [stream : Devices \cup Games \cup {Nothing, "microphone"}, queue : Seq(Packets), lost : BOOLEAN,
            refused : Games \cup {Nothing}, heard : Int, retryAt : Int, nextCheck : Int,
            packetAt : Int, checkedAt : Int]

(* A stream that is not the wanted one is looked at a check interval after  *)
(* the last change, a closed source is tried again a retry interval after   *)
(* the last time it could not be opened, and a microphone was last asked    *)
(* before it went.                                                          *)
SourceInv ==
    /\ now \in Nat /\ track \in {"game", "mic"} /\ world \in Worlds /\ source \in Sources
    /\ world.settled <= now /\ source.checkedAt <= now /\ source.nextCheck <= now + SWITCH_CHECK_INTERVAL
    /\ track = "game" /\ source.stream # Nothing =>
          /\ source.stream = Wanted(source) \/ source.nextCheck <= world.settled + SWITCH_CHECK_INTERVAL
          /\ source.retryAt = 0
    /\ track = "game" /\ soundHealth = "running" /\ source.stream = Nothing =>
          source.retryAt <= world.settled + RETRY_INTERVAL
    /\ track = "mic" /\ soundHealth = "running" /\ ~world.mic => source.checkedAt <= world.settled
    /\ soundHealth = "starting" => world.mic /\ source.stream = Nothing

LEMMA SourceFacts ==
    ASSUME SourceInv
    PROVE  /\ now \in Nat /\ world \in Worlds /\ source \in Sources
           /\ world.settled \in Nat /\ world.mic \in BOOLEAN /\ source.queue \in Seq(Packets)
           /\ world.device \in Devices \cup {Nothing} /\ world.game \in Games \cup {Nothing}
           /\ source.nextCheck \in Int /\ source.checkedAt \in Int /\ source.packetAt \in Int /\ source.retryAt \in Int
           /\ SWITCH_CHECK_INTERVAL \in Nat /\ SWITCH_CHECK_INTERVAL > 0
           /\ RETRY_INTERVAL \in Nat /\ RETRY_INTERVAL > 0 /\ DEVICE_STALL \in Nat /\ DEVICE_STALL > 0
           /\ MAX_PACKETS \in Nat /\ MAX_FILL \in Nat /\ Suspend \in Nat /\ Horizon \in Nat
<1>1. now \in Nat /\ world \in Worlds /\ source \in Sources
  BY DEF SourceInv
<1>2. /\ world.settled \in Nat /\ world.mic \in BOOLEAN
      /\ world.device \in Devices \cup {Nothing} /\ world.game \in Games \cup {Nothing}
  BY <1>1 DEF Worlds
<1>3. /\ source.queue \in Seq(Packets) /\ source.nextCheck \in Int /\ source.checkedAt \in Int
      /\ source.packetAt \in Int /\ source.retryAt \in Int
  BY <1>1 DEF Sources
<1>4. /\ SWITCH_CHECK_INTERVAL \in Nat /\ SWITCH_CHECK_INTERVAL > 0
      /\ RETRY_INTERVAL \in Nat /\ RETRY_INTERVAL > 0 /\ DEVICE_STALL \in Nat /\ DEVICE_STALL > 0
      /\ MAX_PACKETS \in Nat /\ MAX_FILL \in Nat /\ Suspend \in Nat /\ Horizon \in Nat
  BY AudioSourceAssumption
<1> QED
  BY <1>1, <1>2, <1>3, <1>4

LEMMA SourceStarts == AudioInit => SourceInv
<1> SUFFICES ASSUME AudioInit PROVE SourceInv
  OBVIOUS
<1>1. now = 0 /\ track \in {"game", "mic"} /\ soundHealth = "starting"
  BY DEF AudioInit
<1>2. world \in Worlds /\ world.settled = 0 /\ world.mic
  <2>1. world \in [device : Devices \cup {Nothing}, game : Games \cup {Nothing}, settled : {0}, mic : {TRUE}, changes : {0}]
    BY DEF AudioInit
  <2>2. world.settled = 0 /\ world.mic
    <3>1. world.mic \in {TRUE} /\ world.settled \in {0}
      BY ONLY <2>1
    <3> QED
      BY ONLY <3>1, Zenon
  <2>3. world \in Worlds
    <3>1. {0} \subseteq Nat /\ {TRUE} \subseteq BOOLEAN
      OBVIOUS
    <3> QED
      BY ONLY <2>1, <3>1, Zenon DEF Worlds
  <2> QED
    BY <2>2, <2>3
<1>3. source \in Sources /\ source.stream = Nothing /\ source.checkedAt = 0 /\ source.nextCheck = 0
  BY DEF AudioInit, Sources
<1>4. SWITCH_CHECK_INTERVAL \in Nat
  BY AudioSourceAssumption
<1> QED
  BY <1>1, <1>2, <1>3, <1>4 DEF SourceInv

(* What an open leaves open is what is wanted from then on; it leaves       *)
(* nothing open only when the wanted source could not be.                   *)
LEMMA OpensTheWanted ==
    ASSUME SourceInv, NEW s \in Sources, s.stream = Nothing, NEW a \in BOOLEAN, NEW o \in BOOLEAN
    PROVE  /\ Open(s, a, o) \in Sources /\ Open(s, a, o).checkedAt = s.checkedAt
           /\ Open(s, a, o).stream # Nothing =>
                 /\ Open(s, a, o).stream = Wanted(Open(s, a, o)) /\ Open(s, a, o).retryAt = 0
                 /\ Open(s, a, o).nextCheck = now + SWITCH_CHECK_INTERVAL
           /\ Open(s, a, o).stream = Nothing =>
                 /\ Open(s, a, o).nextCheck = s.nextCheck /\ Open(s, a, o).retryAt = now + RETRY_INTERVAL
                 /\ ~CanOpen(s, a, o)
<1> USE SourceFacts
<1> DEFINE f == IF Target(s) # Nothing THEN Target(s) ELSE s.refused
           r == [s EXCEPT !.refused = f]
           opened(x, key) == [x EXCEPT !.stream = key, !.queue = <<>>, !.lost = FALSE, !.heard = now,
                                       !.retryAt = 0, !.nextCheck = now + SWITCH_CHECK_INTERVAL]
<1>1. Target(s) \in Games \cup {Nothing} /\ (Target(s) # Nothing => Target(s) = world.game)
  BY DEF Target
<1>2. f \in Games \cup {Nothing}
  BY <1>1 DEF Sources
<1>3. /\ r \in Sources /\ r.refused = f /\ r.stream = Nothing /\ r.checkedAt = s.checkedAt /\ r.nextCheck = s.nextCheck
  <2> HIDE DEF f
  <2> QED
    BY <1>2 DEF Sources
<1>4. ASSUME NEW x \in Sources, NEW key \in Devices \cup Games
      PROVE  /\ opened(x, key) \in Sources /\ opened(x, key).stream = key /\ opened(x, key).checkedAt = x.checkedAt
             /\ opened(x, key).refused = x.refused /\ opened(x, key).nextCheck = now + SWITCH_CHECK_INTERVAL
             /\ opened(x, key).retryAt = 0
  <2> DEFINE c == now + SWITCH_CHECK_INTERVAL
  <2>1. c \in Int /\ now \in Int /\ <<>> \in Seq(Packets)
    OBVIOUS
  <2>2. opened(x, key) = [x EXCEPT !.stream = key, !.queue = <<>>, !.lost = FALSE, !.heard = now,
                                   !.retryAt = 0, !.nextCheck = c]
    OBVIOUS
  <2> HIDE DEF c, opened
  <2>3. opened(x, key) \in Sources
    <3>1. key \in Devices \cup Games \cup {Nothing, "microphone"} /\ FALSE \in BOOLEAN /\ 0 \in Int
      OBVIOUS
    <3> DEFINE y == [x EXCEPT !.stream = key, !.queue = <<>>, !.lost = FALSE]
    <3>2. y \in Sources
      BY ONLY <2>1, <3>1, x \in Sources DEF Sources
    <3>3. opened(x, key) = [y EXCEPT !.heard = now, !.retryAt = 0, !.nextCheck = c]
      BY ONLY <2>2
    <3> HIDE DEF y
    <3> QED
      BY ONLY <2>1, <3>1, <3>2, <3>3 DEF Sources
  <2>4. /\ opened(x, key).stream = key /\ opened(x, key).checkedAt = x.checkedAt
        /\ opened(x, key).refused = x.refused /\ opened(x, key).nextCheck = c /\ opened(x, key).retryAt = 0
    BY ONLY <2>1, <2>2, <1>4 DEF Sources
  <2> QED
    BY <2>3, <2>4 DEF c
<1>5. CASE Target(s) # Nothing /\ a
  <2>1. Open(s, a, o) = opened(s, Target(s)) /\ Target(s) \in Games
    BY <1>1, <1>5 DEF Open, Opened
  <2> HIDE DEF opened
  <2>2. /\ Open(s, a, o) \in Sources /\ Open(s, a, o).stream = Target(s) /\ Open(s, a, o).checkedAt = s.checkedAt
        /\ Open(s, a, o).refused = s.refused /\ Open(s, a, o).nextCheck = now + SWITCH_CHECK_INTERVAL
        /\ Open(s, a, o).retryAt = 0
    <3>1. Target(s) \in Devices \cup Games
      BY <2>1
    <3>2. /\ opened(s, Target(s)) \in Sources /\ opened(s, Target(s)).stream = Target(s)
          /\ opened(s, Target(s)).checkedAt = s.checkedAt /\ opened(s, Target(s)).refused = s.refused
          /\ opened(s, Target(s)).nextCheck = now + SWITCH_CHECK_INTERVAL /\ opened(s, Target(s)).retryAt = 0
      BY <1>4, <3>1
    <3> QED
      BY ONLY <2>1, <3>2
  <2>3. Target(Open(s, a, o)) = Target(s)
    BY <2>2 DEF Target
  <2>4. Wanted(Open(s, a, o)) = Target(s)
    BY <1>5, <2>3 DEF Wanted
  <2> QED
    BY <1>5, <2>2, <2>4
<1>6. CASE ~(Target(s) # Nothing /\ a) /\ world.device # Nothing /\ o
  <2>1. Open(s, a, o) = opened(r, world.device) /\ world.device \in Devices
    BY <1>6 DEF Open, Opened
  <2> HIDE DEF opened, r
  <2>2. /\ Open(s, a, o) \in Sources /\ Open(s, a, o).stream = world.device /\ Open(s, a, o).checkedAt = s.checkedAt
        /\ Open(s, a, o).refused = f /\ Open(s, a, o).nextCheck = now + SWITCH_CHECK_INTERVAL
        /\ Open(s, a, o).retryAt = 0
    BY <1>3, <1>4, <2>1
  <2>3. Target(Open(s, a, o)) = Nothing
    <3>1. CASE Target(s) # Nothing
      BY <1>1, <2>2, <3>1 DEF Target
    <3>2. CASE Target(s) = Nothing
      BY <2>2, <3>2 DEF Target
    <3> QED
      BY <3>1, <3>2
  <2>4. Wanted(Open(s, a, o)) = world.device
    BY <2>3 DEF Wanted
  <2> QED
    BY ONLY <1>6, <2>2, <2>4
<1>7. CASE ~(Target(s) # Nothing /\ a) /\ ~(world.device # Nothing /\ o)
  <2>1. Open(s, a, o) = [r EXCEPT !.retryAt = now + RETRY_INTERVAL]
    BY <1>7 DEF Open
  <2>2. now + RETRY_INTERVAL \in Int
    OBVIOUS
  <2> HIDE DEF r
  <2>3. /\ Open(s, a, o) \in Sources /\ Open(s, a, o).stream = Nothing /\ Open(s, a, o).checkedAt = s.checkedAt
        /\ Open(s, a, o).nextCheck = s.nextCheck /\ Open(s, a, o).retryAt = now + RETRY_INTERVAL
    BY ONLY <1>3, <2>1, <2>2 DEF Sources
  <2>4. ~CanOpen(s, a, o)
    BY ONLY <1>7 DEF CanOpen
  <2> QED
    BY ONLY <2>3, <2>4
<1> QED
  BY <1>5, <1>6, <1>7

LEMMA UndrainedIsLeft ==
    ASSUME NEW q \in Seq(Packets), NEW n \in Nat, SourceInv
    PROVE  Undrained(q) \in Seq(Packets) /\ Unpulled(q, n) \in Seq(Packets)
<1>1. ASSUME NEW k \in Nat PROVE Unpulled(q, k) \in Seq(Packets)
  <2>1. k + 1 >= 1 /\ k + 1 \in Int /\ Len(q) \in Nat
    OBVIOUS
  <2> QED
    BY <2>1 DEF Unpulled
<1>2. MAX_PACKETS \in Nat
  BY SourceFacts
<1> QED
  BY <1>1, <1>2 DEF Undrained

LEMMA BeforeAFaultIsLess ==
    ASSUME SourceInv, NEW n \in BeforeAFault(source.queue) PROVE n \in Nat /\ n <= Len(source.queue)
<1>1. MAX_PACKETS \in Nat /\ Len(source.queue) \in Nat
  BY SourceFacts
<1> QED
  BY <1>1 DEF BeforeAFault, Lesser

LEMMA ClosedIsClosed ==
    ASSUME NEW s \in Sources
    PROVE  /\ Closed(s) \in Sources /\ Closed(s).stream = Nothing /\ Closed(s).nextCheck = 0
           /\ Closed(s).checkedAt = s.checkedAt /\ Closed(s).refused = s.refused /\ Closed(s).retryAt = s.retryAt
<1> DEFINE y == [s EXCEPT !.stream = Nothing, !.queue = <<>>]
<1>1. <<>> \in Seq(Packets) /\ FALSE \in BOOLEAN /\ 0 \in Int
  OBVIOUS
<1>2. y \in Sources /\ y.stream = Nothing /\ y.checkedAt = s.checkedAt /\ y.refused = s.refused /\ y.retryAt = s.retryAt
  BY <1>1 DEF Sources
<1>3. Closed(s) = [y EXCEPT !.lost = FALSE, !.nextCheck = 0]
  BY DEF Closed
<1> HIDE DEF y
<1>4. Closed(s) \in Sources
  BY ONLY <1>1, <1>2, <1>3 DEF Sources
<1>5. /\ Closed(s).stream = Nothing /\ Closed(s).nextCheck = 0
      /\ Closed(s).checkedAt = s.checkedAt /\ Closed(s).refused = s.refused /\ Closed(s).retryAt = s.retryAt
  BY ONLY <1>2, <1>3 DEF Sources
<1> QED
  BY <1>4, <1>5

(* A read leaves what was wanted open, or has looked, or could open nothing. *)
LEMMA ReadFollows ==
    ASSUME SourceInv, NEW known \in BOOLEAN, NEW a \in BOOLEAN, NEW o \in BOOLEAN, ReadsGameAudio(known, a, o)
    PROVE  /\ SourceInv'
           /\ now - world'.settled >= Patience => source'.stream = Wanted(source')
<1> USE SourceFacts
<1>0. PICK gone \in BOOLEAN :
         source' = Reopened(Switched(IF gone THEN [Closed(source) EXCEPT !.retryAt = now]
                                     ELSE [source EXCEPT !.queue = Undrained(@)], known), a, o)
  <2>1. source.lost \in BOOLEAN /\ (source.lost /\ RanDry(source.queue)) \in BOOLEAN
    BY DEF Sources
  <2> QED
    BY <2>1 DEF ReadsGameAudio
<1> DEFINE kept == IF gone THEN [Closed(source) EXCEPT !.retryAt = now] ELSE [source EXCEPT !.queue = Undrained(@)]
           s == Switched(kept, known)
           settled == CanOpen(source, a, o) /\ (known \/ source.stream = Nothing)
<1>1. /\ track = "game" /\ soundHealth = "running" /\ source' = Reopened(s, a, o) /\ now' = now /\ track' = track
      /\ soundHealth' = soundHealth /\ world' = [world EXCEPT !.settled = IF settled THEN @ ELSE now]
  BY <1>0 DEF ReadsGameAudio
<1>2. /\ world' \in Worlds /\ world'.settled = (IF settled THEN world.settled ELSE now)
      /\ world'.game = world.game /\ world'.device = world.device /\ world'.mic = world.mic
  <2> HIDE DEF settled
  <2> QED
    BY <1>1 DEF Worlds
<1>3. /\ kept \in Sources /\ kept.checkedAt = source.checkedAt /\ kept.refused = source.refused
      /\ gone => kept.stream = Nothing /\ kept.nextCheck = 0 /\ kept.retryAt = now
      /\ ~gone => kept.stream = source.stream /\ kept.nextCheck = source.nextCheck /\ kept.retryAt = source.retryAt
  <2>1. CASE ~gone
    <3>1. kept = [source EXCEPT !.queue = Undrained(source.queue)] /\ Undrained(source.queue) \in Seq(Packets)
      BY <2>1, UndrainedIsLeft
    <3> HIDE DEF kept
    <3> QED
      BY <2>1, <3>1 DEF Sources
  <2>2. CASE gone
    <3>1. kept = [Closed(source) EXCEPT !.retryAt = now] /\ now \in Int
      BY <2>2
    <3> HIDE DEF kept
    <3> QED
      BY <2>2, <3>1, ClosedIsClosed DEF Sources
  <2> QED
    BY <2>1, <2>2
<1> HIDE DEF kept
<1>4. kept.nextCheck \in Int /\ kept.nextCheck <= now + SWITCH_CHECK_INTERVAL /\ kept.retryAt \in Int
  <2>1. /\ source.nextCheck \in Int /\ source.nextCheck <= now + SWITCH_CHECK_INTERVAL
        /\ now \in Nat /\ SWITCH_CHECK_INTERVAL \in Nat /\ source.retryAt \in Int
    BY DEF SourceInv
  <2> QED
    BY ONLY <1>3, <2>1
<1>5. /\ world'.settled \in Nat /\ world.settled \in Nat /\ world.settled <= world'.settled /\ world'.settled <= now
      /\ Wanted(source)' = Wanted(source')
  BY <1>2 DEF SourceInv, Wanted, Target
<1>6. ASSUME NEW x \in Sources, x.refused = source.refused
      PROVE  /\ CanOpen(x, a, o) = CanOpen(source, a, o) /\ Wanted(x) = Wanted(source)
             /\ CanOpen(source, a, o) => Wanted(x) # Nothing
  BY <1>6 DEF CanOpen, Wanted, Target
<1>7. ASSUME now - world'.settled >= Patience
      PROVE  settled /\ world'.settled = world.settled
  <2>1. Patience \in Nat /\ Patience > 0
    BY DEF Patience
  <2> HIDE DEF settled
  <2> QED
    BY <1>2, <1>5, <1>7, <2>1
(* With nothing open, the try is due a retry interval after the last that   *)
(* had to fail.                                                             *)
<1>8. CASE s \in Sources /\ s.stream = Nothing /\ s.checkedAt = source.checkedAt /\ s.refused = source.refused
           /\ s.nextCheck <= now + SWITCH_CHECK_INTERVAL /\ s.retryAt \in Int
           /\ (s.retryAt <= now \/ (source.stream = Nothing /\ s.retryAt = source.retryAt))
  <2> HIDE DEF s
  <2>1. CASE now >= s.retryAt
    <3>1. source' = Open(s, a, o)
      BY <1>1, <1>8, <2>1 DEF Reopened
    <3>2. /\ source' \in Sources /\ source'.checkedAt = source.checkedAt
          /\ source'.stream # Nothing =>
                /\ source'.stream = Wanted(source') /\ source'.retryAt = 0
                /\ source'.nextCheck = now + SWITCH_CHECK_INTERVAL
          /\ source'.stream = Nothing =>
                source'.nextCheck = s.nextCheck /\ source'.retryAt = now + RETRY_INTERVAL /\ ~CanOpen(s, a, o)
      BY <1>8, <3>1, OpensTheWanted
    <3>3. source'.stream = Nothing => world'.settled = now /\ ~settled
      BY <1>2, <1>6, <1>8, <3>2
    <3>4. source'.nextCheck <= now + SWITCH_CHECK_INTERVAL
      BY <1>8, <3>2
    <3>5. SourceInv'
      BY <1>1, <1>2, <1>5, <3>2, <3>3, <3>4 DEF SourceInv
    <3>6. now - world'.settled >= Patience => source'.stream # Nothing
      BY <1>7, <3>3
    <3> QED
      BY <3>2, <3>5, <3>6
  <2>2. CASE ~(now >= s.retryAt)
    <3>1. source' = s
      BY <1>1, <2>2 DEF Reopened
    <3>2. source.stream = Nothing /\ s.retryAt = source.retryAt
      BY <1>8, <2>2
    <3>3. source.retryAt <= world.settled + RETRY_INTERVAL
      BY <1>1, <3>2 DEF SourceInv
    <3>4. source'.retryAt <= world'.settled + RETRY_INTERVAL
      BY <1>5, <1>8, <3>1, <3>2, <3>3
    <3>5. SourceInv'
      BY <1>1, <1>2, <1>5, <1>8, <3>1, <3>4 DEF SourceInv
    <3>6. ~(now - world'.settled >= Patience)
      <4>1. Patience = RETRY_INTERVAL
        BY <3>2 DEF Patience
      <4> QED
        BY <1>5, <1>8, <2>2, <3>1, <3>4, <4>1
    <3> QED
      BY <3>5, <3>6
  <2> QED
    BY <2>1, <2>2
<1>9. CASE kept.stream = Nothing
  <2>1. s = kept
    BY <1>9 DEF Switched
  <2>2. s.retryAt <= now \/ (source.stream = Nothing /\ s.retryAt = source.retryAt)
    BY <1>3, <1>9, <2>1
  <2> HIDE DEF s
  <2> QED
    BY <1>3, <1>4, <1>8, <1>9, <2>1, <2>2
<1>10. CASE kept.stream # Nothing /\ now < kept.nextCheck
  <2>1. s = kept /\ ~gone
    BY <1>3, <1>10 DEF Switched
  <2>2. source' = kept
    BY <1>1, <1>10, <2>1 DEF Reopened
  <2>3. /\ source'.stream = source.stream /\ source'.nextCheck = source.nextCheck /\ source.stream # Nothing
        /\ source'.refused = source.refused /\ source'.retryAt = source.retryAt
    BY <1>3, <1>10, <2>1, <2>2
  <2>4. Wanted(source') = Wanted(source)
    BY <1>3, <1>6, <2>2
  <2>5. source'.stream = Wanted(source') \/ source'.nextCheck <= world.settled + SWITCH_CHECK_INTERVAL
    BY <1>1, <2>3, <2>4 DEF SourceInv
  <2>6. source'.stream = Wanted(source') \/ source'.nextCheck <= world'.settled + SWITCH_CHECK_INTERVAL
    <3>1. source'.nextCheck \in Int /\ SWITCH_CHECK_INTERVAL \in Int
      BY <1>4, <2>2
    <3> QED
      BY ONLY <1>5, <2>5, <3>1
  <2>7. source'.retryAt = 0
    BY <1>1, <2>3 DEF SourceInv
  <2>8. SourceInv'
    BY <1>1, <1>2, <1>3, <1>4, <1>5, <2>2, <2>3, <2>6, <2>7 DEF SourceInv
  <2>9. now - world'.settled >= Patience => source'.stream = Wanted(source')
    <3>1. Patience = SWITCH_CHECK_INTERVAL
      BY <2>3 DEF Patience
    <3> QED
      BY <1>4, <1>5, <1>10, <2>2, <2>6, <3>1
  <2> QED
    BY <2>8, <2>9
<1>11. CASE kept.stream # Nothing /\ ~(now < kept.nextCheck)
  <2> DEFINE c == now + SWITCH_CHECK_INTERVAL
             looked == [kept EXCEPT !.nextCheck = c]
  <2>1. s = IF known /\ Wanted(looked) # Nothing /\ Wanted(looked) # looked.stream THEN Closed(looked) ELSE looked
    <3>1. Wanted(kept) = Wanted(looked)
      BY <1>3 DEF Wanted, Target, Sources
    <3>2. looked.stream = kept.stream
      BY <1>3 DEF Sources
    <3> QED
      BY <1>11, <3>1, <3>2 DEF Switched
  <2>2. /\ looked \in Sources /\ looked.stream = kept.stream /\ looked.nextCheck = c
        /\ looked.checkedAt = source.checkedAt /\ looked.refused = source.refused /\ looked.retryAt = kept.retryAt
    <3>1. c \in Int
      OBVIOUS
    <3> HIDE DEF c
    <3> QED
      BY <1>3, <3>1 DEF Sources
  <2>3. kept.retryAt = 0 /\ source.stream # Nothing
    BY <1>1, <1>3, <1>11 DEF SourceInv
  <2> HIDE DEF looked
  <2>4. CASE known /\ Wanted(looked) # Nothing /\ Wanted(looked) # looked.stream
    <3>1. s = Closed(looked)
      BY <2>1, <2>4
    <3> HIDE DEF s
    <3>2. /\ s \in Sources /\ s.stream = Nothing /\ s.checkedAt = source.checkedAt /\ s.refused = source.refused
          /\ s.nextCheck = 0 /\ s.retryAt = 0
      BY <2>2, <2>3, <3>1, ClosedIsClosed
    <3>3. s.nextCheck <= now + SWITCH_CHECK_INTERVAL /\ s.retryAt <= now /\ s.retryAt \in Int
      BY <3>2
    <3> QED
      BY <1>8, <3>2, <3>3
  <2>5. CASE ~(known /\ Wanted(looked) # Nothing /\ Wanted(looked) # looked.stream)
    <3>1. source' = looked
      BY <1>1, <1>11, <2>1, <2>2, <2>5 DEF Reopened
    <3>2. source'.stream = Wanted(source') \/ (world'.settled = now /\ ~settled)
      BY <1>2, <1>6, <2>2, <2>3, <2>5, <3>1
    <3>3. source'.nextCheck = now + SWITCH_CHECK_INTERVAL
      BY <2>2, <3>1
    <3>4. SourceInv'
      BY <1>1, <1>2, <1>5, <1>11, <2>2, <2>3, <3>1, <3>2, <3>3 DEF SourceInv
    <3> QED
      BY <1>7, <3>2, <3>4
  <2> QED
    BY <2>4, <2>5
<1> QED
  BY <1>9, <1>10, <1>11

(* A microphone that is gone is not asked again once it has said so.        *)
LEMMA MicrophoneIsAsked ==
    ASSUME SourceInv, ReadsMicrophone
    PROVE  /\ SourceInv'
           /\ ~world.mic /\ block' = NoBlock /\ now - Greater(world.settled, source'.packetAt) >= DEVICE_STALL
                 => soundHealth' = "failed"
<1> USE SourceFacts
<1> DEFINE drained == Drain(timeline, source.queue)
           filled == IF RanDry(source.queue) THEN FillTo(drained, now) ELSE drained
           p == IF source.queue = <<>> THEN source.packetAt ELSE now
           heard == [source EXCEPT !.queue = Undrained(@), !.packetAt = IF source.queue = <<>> THEN @ ELSE now]
           asks == NextBlock(filled) = NoBlock /\ StallNoticed(heard)
<1>1. /\ track = "mic" /\ soundHealth = "running" /\ block' = NextBlock(filled) /\ world' = world /\ now' = now
      /\ track' = track /\ source' = (IF asks THEN [heard EXCEPT !.checkedAt = now] ELSE heard)
      /\ soundHealth' = (IF asks /\ ~world.mic THEN "failed" ELSE soundHealth)
  BY DEF ReadsMicrophone
<1>2. heard = [source EXCEPT !.queue = Undrained(source.queue), !.packetAt = p]
      /\ Undrained(source.queue) \in Seq(Packets) /\ p \in Int
  BY UndrainedIsLeft
<1> HIDE DEF heard, p
<1>3. /\ heard \in Sources /\ heard.checkedAt = source.checkedAt /\ heard.packetAt = p
      /\ heard.nextCheck = source.nextCheck /\ heard.stream = source.stream
  BY ONLY <1>2, source \in Sources DEF Sources
<1> HIDE DEF asks, filled
<1>4. /\ source' \in Sources /\ source'.checkedAt = (IF asks THEN now ELSE source.checkedAt)
      /\ source'.packetAt = p /\ source'.nextCheck = source.nextCheck
  <2>1. now \in Int
    OBVIOUS
  <2> QED
    BY ONLY <1>1, <1>3, <2>1 DEF Sources
<1>5. soundHealth' = "running" /\ ~world.mic => source'.checkedAt <= world.settled
  BY <1>1, <1>4 DEF SourceInv
<1>6. source'.checkedAt <= now
  BY <1>4 DEF SourceInv
<1>7. soundHealth' \in {"failed", "running"}
  BY <1>1
<1>8. SourceInv'
  BY <1>1, <1>4, <1>5, <1>6, <1>7 DEF SourceInv
<1>9. ASSUME ~world.mic, block' = NoBlock, now - Greater(world.settled, source'.packetAt) >= DEVICE_STALL
      PROVE  soundHealth' = "failed"
  <2>1. source.checkedAt <= world.settled
    BY <1>1, <1>9 DEF SourceInv
  <2>2. now - p >= DEVICE_STALL /\ now - world.settled >= DEVICE_STALL
    <3>1. now - Greater(world.settled, p) >= DEVICE_STALL
      BY <1>4, <1>9
    <3>2. now \in Int /\ p \in Int /\ world.settled \in Int /\ DEVICE_STALL \in Int
      BY <1>2
    <3> QED
      BY ONLY <3>1, <3>2 DEF Greater
  <2>3. now - source.checkedAt >= DEVICE_STALL
    BY <2>1, <2>2
  <2>4. StallNoticed(heard)
    BY <1>3, <2>2, <2>3 DEF StallNoticed
  <2> QED
    BY <1>1, <1>9, <2>4 DEF asks
<1> QED
  BY <1>8, <1>9

LEMMA TheTrackStarts ==
    ASSUME SourceInv, NEW a \in BOOLEAN, NEW o \in BOOLEAN, StartsGameAudio(a, o) \/ StartsMicrophone(o)
    PROVE  SourceInv'
<1> USE SourceFacts
<1>1. /\ soundHealth = "starting" /\ now' = now /\ track' = track /\ world' = world
      /\ soundHealth' \in {"running", "refused"} /\ world.mic /\ source.stream = Nothing
  BY DEF StartsGameAudio, StartsMicrophone, SourceInv
<1>2. CASE StartsGameAudio(a, o)
  <2>1. source' = Open(source, a, o) /\ track = "game"
    BY <1>2 DEF StartsGameAudio
  <2>2. /\ source' \in Sources /\ source'.checkedAt = source.checkedAt
        /\ source'.stream # Nothing =>
              /\ source'.stream = Wanted(source') /\ source'.retryAt = 0
              /\ source'.nextCheck = now + SWITCH_CHECK_INTERVAL
        /\ source'.stream = Nothing => source'.nextCheck = source.nextCheck
        /\ soundHealth' = "running" => source'.stream # Nothing
    <3>1. soundHealth' = IF Open(source, a, o).stream = Nothing THEN "refused" ELSE "running"
      BY <1>2 DEF StartsGameAudio
    <3>2. soundHealth' = "running" => Open(source, a, o).stream # Nothing
      BY ONLY <3>1
    <3> QED
      BY <1>1, <2>1, <3>2, OpensTheWanted
  <2>3. Wanted(source)' = Wanted(source')
    BY <1>1 DEF Wanted, Target
  <2>4. source'.nextCheck <= now + SWITCH_CHECK_INTERVAL
    BY <2>2 DEF SourceInv
  <2> QED
    BY <1>1, <2>1, <2>2, <2>3, <2>4 DEF SourceInv
<1>3. CASE StartsMicrophone(o)
  <2>1. /\ track = "mic"
        /\ source' = source \/ source' = [source EXCEPT !.stream = "microphone", !.packetAt = now, !.checkedAt = now]
    BY <1>3 DEF StartsMicrophone
  <2>2. source' \in Sources /\ source'.checkedAt <= now /\ source'.nextCheck = source.nextCheck
    <3>1. source \in Sources /\ now \in Int /\ source.checkedAt <= now
      BY DEF SourceInv
    <3>2. CASE source' = source
      BY <3>1, <3>2
    <3>3. CASE source' = [source EXCEPT !.stream = "microphone", !.packetAt = now, !.checkedAt = now]
      <4>1. source' \in Sources
        BY ONLY <3>1, <3>3 DEF Sources
      <4>2. source'.checkedAt = now /\ source'.nextCheck = source.nextCheck
        BY ONLY <3>1, <3>3 DEF Sources
      <4> QED
        BY ONLY <3>1, <4>1, <4>2
    <3> QED
      BY <2>1, <3>2, <3>3
  <2>3. source'.nextCheck <= now + SWITCH_CHECK_INTERVAL
    BY <2>2 DEF SourceInv
  <2> QED
    BY <1>1, <2>1, <2>2, <2>3 DEF SourceInv
<1> QED
  BY <1>2, <1>3

(* What the machine does around it only puts off the next check.            *)
LEMMA TheMachineChanges ==
    ASSUME SourceInv,
           \/ \E d \in Devices \cup {Nothing} : DeviceChanges(d)
           \/ \E g \in Games \cup {Nothing} : GameChanges(g)
           \/ MicrophoneGoes
    PROVE  SourceInv'
<1> USE SourceFacts
<1>1. now' = now /\ track' = track /\ soundHealth' = soundHealth /\ soundHealth = "running"
  BY DEF DeviceChanges, GameChanges, MicrophoneGoes
<1>2. /\ world' \in Worlds /\ world'.settled = now
      /\ track = "mic" => ~world'.mic
      /\ source' \in Sources /\ source'.checkedAt = source.checkedAt /\ source'.nextCheck = source.nextCheck
      /\ source'.stream = source.stream /\ source'.retryAt = source.retryAt
  <2>0. world.changes \in Nat
    BY DEF Worlds
  <2>1. ASSUME NEW d \in Devices \cup {Nothing}, DeviceChanges(d)
        PROVE  /\ world' \in Worlds /\ world'.settled = now /\ track = "game"
               /\ source' \in Sources /\ source'.checkedAt = source.checkedAt /\ source'.nextCheck = source.nextCheck
               /\ source'.stream = source.stream /\ source'.retryAt = source.retryAt
    <3>1. world' = [world EXCEPT !.device = d, !.settled = now, !.changes = world.changes + 1] /\ track = "game"
      BY <2>1 DEF DeviceChanges
    <3>2. PICK l \in BOOLEAN : source' = [source EXCEPT !.lost = source.lost \/ l]
      BY <2>1 DEF DeviceChanges
    <3>3. (source.lost \/ l) \in BOOLEAN
      OBVIOUS
    <3>4. /\ source' \in Sources /\ source'.checkedAt = source.checkedAt /\ source'.nextCheck = source.nextCheck
          /\ source'.stream = source.stream /\ source'.retryAt = source.retryAt
      BY ONLY <3>2, <3>3, source \in Sources DEF Sources
    <3>5. world' \in Worlds /\ world'.settled = now
      <4>1. world \in Worlds /\ world.changes + 1 \in Nat /\ now \in Nat
        BY <2>0
      <4> DEFINE c == world.changes + 1
      <4>2. world' = [world EXCEPT !.device = d, !.settled = now, !.changes = c] /\ c \in Nat
        BY <3>1, <4>1
      <4> HIDE DEF c
      <4> QED
        BY ONLY <4>1, <4>2, d \in Devices \cup {Nothing} DEF Worlds
    <3> QED
      BY <3>1, <3>4, <3>5
  <2>2. ASSUME NEW g \in Games \cup {Nothing}, GameChanges(g)
        PROVE  /\ world' \in Worlds /\ world'.settled = now /\ track = "game" /\ source' = source
    <3>1. world' = [world EXCEPT !.game = g, !.settled = now, !.changes = world.changes + 1] /\ track = "game"
          /\ source' = source
      BY <2>2 DEF GameChanges
    <3>2. world' \in Worlds /\ world'.settled = now
      <4>1. world \in Worlds /\ world.changes + 1 \in Nat /\ now \in Nat
        BY <2>0
      <4> DEFINE c == world.changes + 1
      <4>2. world' = [world EXCEPT !.game = g, !.settled = now, !.changes = c] /\ c \in Nat
        BY <3>1, <4>1
      <4> HIDE DEF c
      <4> QED
        BY ONLY <4>1, <4>2, g \in Games \cup {Nothing} DEF Worlds
    <3> QED
      BY <3>1, <3>2
  <2>3. ASSUME MicrophoneGoes
        PROVE  /\ world' \in Worlds /\ world'.settled = now /\ ~world'.mic
               /\ source' \in Sources /\ source'.checkedAt = source.checkedAt /\ source'.nextCheck = source.nextCheck
               /\ source'.stream = source.stream /\ source'.retryAt = source.retryAt
    <3>1. world' = [world EXCEPT !.mic = FALSE, !.settled = now, !.changes = world.changes + 1]
      BY <2>3 DEF MicrophoneGoes
    <3>2. PICK tells \in BOOLEAN : source' = [source EXCEPT !.lost = tells]
      BY <2>3 DEF MicrophoneGoes
    <3>3. /\ source' \in Sources /\ source'.checkedAt = source.checkedAt /\ source'.nextCheck = source.nextCheck
          /\ source'.stream = source.stream /\ source'.retryAt = source.retryAt
      BY ONLY <3>2, source \in Sources DEF Sources
    <3>4. world' \in Worlds /\ world'.settled = now /\ ~world'.mic
      <4>1. world \in Worlds /\ world.changes + 1 \in Nat /\ now \in Nat
        BY <2>0
      <4> DEFINE c == world.changes + 1
      <4>2. world' = [world EXCEPT !.mic = FALSE, !.settled = now, !.changes = c] /\ c \in Nat /\ FALSE \in BOOLEAN
        BY <3>1, <4>1
      <4> HIDE DEF c
      <4> QED
        BY ONLY <4>1, <4>2 DEF Worlds
    <3> QED
      BY <3>3, <3>4
  <2> QED
    BY <2>1, <2>2, <2>3
<1>3. /\ source'.nextCheck <= world'.settled + SWITCH_CHECK_INTERVAL /\ source'.checkedAt <= world'.settled
      /\ source'.stream = Nothing /\ track = "game" => source'.retryAt <= world'.settled + RETRY_INTERVAL
      /\ source'.stream # Nothing /\ track = "game" => source'.retryAt = 0
  <2>1. world.settled <= now /\ (source.stream = Nothing /\ track = "game" => source.retryAt <= world.settled + RETRY_INTERVAL)
    BY <1>1 DEF SourceInv
  <2>2. source.stream = Nothing /\ track = "game" => source.retryAt <= now + RETRY_INTERVAL
    BY <2>1
  <2> QED
    BY <1>2, <2>2 DEF SourceInv
<1> QED
  BY <1>1, <1>2, <1>3 DEF SourceInv

LEMMA TimeGoesOn ==
    ASSUME SourceInv,
           \/ \E by \in {1, Suspend} : ClockMoves(by)
           \/ \E n \in 1..BLOCK : \E s \in {"good", "none", "foreign"} : \E d \in {FALSE, s = "good"} : Delivers(n, s, d)
           \/ ReadFails
           \/ UNCHANGED audioVars
    PROVE  SourceInv'
<1> USE SourceFacts
<1>1. ASSUME NEW by \in {1, Suspend}, ClockMoves(by) PROVE SourceInv'
  <2>1. now' = now + by /\ source' = source /\ track' = track /\ soundHealth' = soundHealth
        /\ (world' = world \/ world' = [world EXCEPT !.changes = world.changes + 1])
    BY <1>1 DEF ClockMoves
  <2>2. now' \in Nat /\ now <= now'
    BY <2>1
  <2>3. /\ world' \in Worlds /\ world'.settled = world.settled /\ world'.mic = world.mic
        /\ world'.device = world.device /\ world'.game = world.game
    <3>1. world \in Worlds /\ world.changes + 1 \in Nat
      BY DEF Worlds
    <3> DEFINE c == world.changes + 1
    <3>2. (world' = world \/ world' = [world EXCEPT !.changes = c]) /\ c \in Nat
      BY <2>1, <3>1
    <3> HIDE DEF c
    <3> QED
      BY ONLY <3>1, <3>2 DEF Worlds
  <2>4. Wanted(source)' = Wanted(source)
    BY <2>1, <2>3 DEF Wanted, Target
  <2>5. world'.settled <= now' /\ source'.checkedAt <= now' /\ source'.nextCheck <= now' + SWITCH_CHECK_INTERVAL
    <3>1. /\ world.settled <= now /\ source.checkedAt <= now /\ source.nextCheck <= now + SWITCH_CHECK_INTERVAL
          /\ world.settled \in Int /\ source.checkedAt \in Int /\ source.nextCheck \in Int /\ now \in Int
          /\ SWITCH_CHECK_INTERVAL \in Int
      BY DEF SourceInv
    <3>2. source' = source /\ world'.settled = world.settled
      BY <2>1, <2>3
    <3> QED
      BY ONLY <2>2, <3>1, <3>2
  <2> QED
    BY <2>1, <2>2, <2>3, <2>4, <2>5 DEF SourceInv
<1>2. ASSUME NEW n \in 1..BLOCK, NEW s \in {"good", "none", "foreign"}, NEW d \in BOOLEAN, Delivers(n, s, d)
      PROVE  SourceInv'
  <2> DEFINE first == now - n
             samples == [i \in 1..n |-> IF s = "good" THEN first + i - 1 ELSE Untimed]
             at == CASE s = "good" -> first [] s = "none" -> NoTime [] s = "foreign" -> now + MAX_FILL + Horizon
             p == [at |-> at, samples |-> samples, discontinuity |-> d]
  <2>1. /\ source' = [source EXCEPT !.heard = now, !.queue = Append(source.queue, p)] /\ now' = now /\ track' = track
        /\ world' = world /\ soundHealth' = soundHealth
    BY <1>2 DEF Delivers
  <2>2. n \in Nat /\ first \in Int
    BY AudioSourceAssumption
  <2>3. samples \in Seq(Int)
    <3>1. \A i \in 1..n : (IF s = "good" THEN first + i - 1 ELSE Untimed) \in Int
      BY <2>2 DEF Untimed
    <3> HIDE DEF first
    <3> QED
      BY <2>2, <3>1
  <2>4. at \in Int
    <3>1. first \in Int /\ NoTime \in Int /\ now + MAX_FILL + Horizon \in Int
      BY <2>2 DEF NoTime
    <3> HIDE DEF first
    <3> QED
      BY ONLY <3>1, s \in {"good", "none", "foreign"}
  <2>5. p \in Packets
    BY <2>3, <2>4 DEF Packets
  <2> HIDE DEF p
  <2>6. Append(source.queue, p) \in Seq(Packets) /\ now \in Int
    BY <2>5
  <2>7. /\ source' \in Sources /\ source'.checkedAt = source.checkedAt /\ source'.nextCheck = source.nextCheck
        /\ source'.stream = source.stream /\ source'.refused = source.refused /\ source'.retryAt = source.retryAt
    BY ONLY <2>1, <2>6, source \in Sources DEF Sources
  <2>8. Wanted(source)' = Wanted(source)
    BY <2>1, <2>7 DEF Wanted, Target
  <2> QED
    BY <2>1, <2>7, <2>8 DEF SourceInv
<1>3. ASSUME UNCHANGED audioVars PROVE SourceInv'
  <2>1. now' = now /\ track' = track /\ world' = world /\ source' = source /\ soundHealth' = soundHealth
    BY <1>3 DEF audioVars
  <2>2. Wanted(source)' = Wanted(source)
    BY <2>1 DEF Wanted, Target
  <2> QED
    BY <2>1, <2>2 DEF SourceInv
<1>5. ASSUME ReadFails PROVE SourceInv'
  <2>1. now' = now /\ track' = track /\ world' = world /\ soundHealth' = "failed"
    BY <1>5 DEF ReadFails
  <2>2. PICK n \in BeforeAFault(source.queue) : source' = [source EXCEPT !.queue = Unpulled(@, n)]
    BY <1>5 DEF ReadFails
  <2>3. source' = [source EXCEPT !.queue = Unpulled(source.queue, n)] /\ Unpulled(source.queue, n) \in Seq(Packets)
    BY <2>2, BeforeAFaultIsLess, UndrainedIsLeft
  <2>4. /\ source' \in Sources /\ source'.checkedAt = source.checkedAt /\ source'.nextCheck = source.nextCheck
        /\ source'.stream = source.stream /\ source'.refused = source.refused /\ source'.retryAt = source.retryAt
    BY ONLY <2>3, source \in Sources DEF Sources
  <2>5. Wanted(source)' = Wanted(source)
    BY <2>1, <2>4 DEF Wanted, Target
  <2> QED
    BY <2>1, <2>4, <2>5 DEF SourceInv
<1>4. \A s \in {"good", "none", "foreign"} : {FALSE, s = "good"} \subseteq BOOLEAN
  OBVIOUS
<1> QED
  BY <1>1, <1>2, <1>3, <1>4, <1>5

LEMMA SourceStep == SourceInv /\ [AudioNext]_audioVars => SourceInv'
<1> SUFFICES ASSUME SourceInv, [AudioNext]_audioVars PROVE SourceInv'
  OBVIOUS
<1>1. CASE \/ \E a, o \in BOOLEAN : StartsGameAudio(a, o)
           \/ \E o \in BOOLEAN : StartsMicrophone(o)
  BY <1>1, TheTrackStarts
<1>2. CASE \E k, a, o \in BOOLEAN : ReadsGameAudio(k, a, o)
  BY <1>2, ReadFollows
<1>3. CASE ReadsMicrophone
  BY <1>3, MicrophoneIsAsked
<1>4. CASE \/ \E by \in {1, Suspend} : ClockMoves(by)
           \/ \E n \in 1..BLOCK : \E s \in {"good", "none", "foreign"} : \E d \in {FALSE, s = "good"} : Delivers(n, s, d)
           \/ ReadFails
           \/ UNCHANGED audioVars
  BY <1>4, TimeGoesOn
<1>5. CASE \/ \E d \in Devices \cup {Nothing} : DeviceChanges(d)
           \/ \E g \in Games \cup {Nothing} : GameChanges(g)
           \/ MicrophoneGoes
  BY <1>5, TheMachineChanges
<1> QED
  BY <1>1, <1>2, <1>3, <1>4, <1>5 DEF AudioNext

-----------------------------------------------------------------------------
(* The sound itself: where each sample lies on the track's clock. *)

(* A stretch of padding, and the timeline that remembers them.              *)
Spans == [from : Nat, to : Nat]
Timelines == [placed : Nat, emitted : Nat, pending : Seq(Int), fills : Seq(Spans), dropped : BOOLEAN]

(* A frame a filled stretch claims, and a sample that lies within a block   *)
(* of its own time and is padding exactly where one does.                   *)
IsFilled(fills, at) == \E k \in DOMAIN fills : fills[k].from <= at /\ at < fills[k].to

LiesWhereItPlayed(sample, at, fills) ==
    /\ sample >= 0 => sample - BLOCK <= at /\ at <= sample + BLOCK
    /\ sample = Silence <=> IsFilled(fills, at)

(* What waits begins where the last block ended; each sample of it lies     *)
(* within a block of its own time, and is padding where a filled stretch    *)
(* says so.                                                                 *)
OnTheClock(t) ==
    /\ t.placed = t.emitted + Len(t.pending)
    /\ \A i \in 1..Len(t.pending) : LiesWhereItPlayed(t.pending[i], t.emitted + i - 1, t.fills)

(* Filled stretches do not touch: one that goes on is the same one.         *)
FillsApart(t) ==
    /\ \A k \in DOMAIN t.fills : t.fills[k].from < t.fills[k].to /\ t.fills[k].to <= t.placed
    /\ \A j, k \in DOMAIN t.fills : j < k => t.fills[j].to < t.fills[k].from

TimelineInv(t) == t \in Timelines /\ (~t.dropped => OnTheClock(t) /\ FillsApart(t))

(* A sample that has a time lies in a packet that has one.                  *)
TimedPackets == {p \in Packets : \A i \in DOMAIN p.samples :
                     p.samples[i] = Untimed \/ (p.at >= 0 /\ p.samples[i] = p.at + i - 1)}

(* Two runs of samples joined, and what is left of a sequence.              *)
LEMMA OneAfterTheOther ==
    ASSUME NEW q \in Seq(Int), NEW r \in Seq(Int)
    PROVE  /\ q \o r \in Seq(Int) /\ Len(q \o r) = Len(q) + Len(r) /\ Len(q) \in Nat /\ Len(r) \in Nat
           /\ \A i \in 1..(Len(q) + Len(r)) : (q \o r)[i] = IF i <= Len(q) THEN q[i] ELSE r[i - Len(q)]
OBVIOUS

LEMMA TheRestOf ==
    ASSUME NEW S, NEW q \in Seq(S), NEW m \in 1..(Len(q) + 1)
    PROVE  LET r == SubSeq(q, m, Len(q))
           IN  /\ r \in Seq(S) /\ Len(r) = Len(q) - m + 1 /\ DOMAIN r = 1..(Len(q) - m + 1)
               /\ \A i \in 1..(Len(q) - m + 1) : r[i] = q[i + m - 1]
OBVIOUS

(* Silence is as long as asked, and nothing else.                           *)
LEMMA SilentIs ==
    ASSUME NEW n \in Nat
    PROVE  Silent(n) \in Seq(Int) /\ Len(Silent(n)) = n /\ \A i \in 1..n : Silent(n)[i] = Silence
BY DEF Silent, Silence

(* What padding does to each field: the last stretch grows, or a new one    *)
(* begins.                                                                  *)
LEMMA PadFields ==
    ASSUME NEW t \in Timelines, NEW asked \in 1..MAX_FILL
    PROVE  LET p == Pad(t, asked)
               end == t.placed + asked
               grows == t.fills # <<>> /\ Last(t.fills).to = t.placed
           IN  /\ p.placed = end /\ p.emitted = t.emitted /\ p.pending = t.pending \o Silent(asked)
               /\ p.dropped = t.dropped /\ p \in Timelines
               /\ p.fills = IF grows THEN [t.fills EXCEPT ![Len(t.fills)] = [from |-> @.from, to |-> end]]
                            ELSE Append(t.fills, [from |-> t.placed, to |-> end])
<1> DEFINE p == Pad(t, asked)
           end == t.placed + asked
           grows == t.fills # <<>> /\ Last(t.fills).to = t.placed
           k == Len(t.fills)
           more == IF grows THEN ReplaceAt(t.fills, k, [Last(t.fills) EXCEPT !.to = end])
                   ELSE Append(t.fills, [from |-> t.placed, to |-> end])
<1>1. MAX_FILL \in Nat /\ Lesser(asked, MAX_FILL) = asked /\ asked \in Nat
  BY AudioSourceAssumption DEF Lesser
<1>2. p = [t EXCEPT !.pending = @ \o Silent(asked), !.placed = end, !.fills = more]
  BY <1>1 DEF Pad
<1>3. /\ t.fills \in Seq(Spans) /\ t.pending \in Seq(Int) /\ t.placed \in Nat /\ end \in Nat
      /\ k \in Nat /\ DOMAIN t.fills = 1..k
  BY <1>1 DEF Timelines
<1>4. t.pending \o Silent(asked) \in Seq(Int)
  BY <1>1, <1>3, SilentIs, OneAfterTheOther
<1>5. grows => /\ k \in 1..k /\ Last(t.fills) = t.fills[k] /\ t.fills[k] \in Spans
  BY <1>3 DEF Last
<1>6. grows => more = [t.fills EXCEPT ![k] = [from |-> t.fills[k].from, to |-> end]]
  <2> SUFFICES ASSUME grows PROVE more = [t.fills EXCEPT ![k] = [from |-> t.fills[k].from, to |-> end]]
    OBVIOUS
  <2>1. [t.fills[k] EXCEPT !.to = end] = [from |-> t.fills[k].from, to |-> end]
    BY <1>5 DEF Spans
  <2> QED
    BY <1>5, <2>1 DEF ReplaceAt
<1>7. more \in Seq(Spans)
  <2>1. CASE grows
    <3>1. [from |-> t.fills[k].from, to |-> end] \in Spans
      BY <1>3, <1>5, <2>1 DEF Spans
    <3> HIDE DEF more, grows
    <3> QED
      BY <1>3, <1>6, <2>1, <3>1
  <2>2. CASE ~grows
    <3>1. [from |-> t.placed, to |-> end] \in Spans
      BY <1>3 DEF Spans
    <3> QED
      BY <1>3, <2>2, <3>1
  <2> QED
    BY <2>1, <2>2
<1> HIDE DEF more, p, grows, end
<1>8. p \in Timelines /\ p.placed = end /\ p.emitted = t.emitted /\ p.pending = t.pending \o Silent(asked)
      /\ p.dropped = t.dropped /\ p.fills = more
  BY <1>2, <1>3, <1>4, <1>7 DEF Timelines
<1> QED
  BY <1>6, <1>8 DEF more, p, grows, end

(* Padding is silence, and the stretch it makes or makes longer says so.    *)
LEMMA PadKeeps ==
    ASSUME NEW t, TimelineInv(t), NEW asked \in 1..MAX_FILL
    PROVE  /\ TimelineInv(Pad(t, asked)) /\ Pad(t, asked).dropped = t.dropped
           /\ Pad(t, asked).placed = t.placed + asked
<1> DEFINE p == Pad(t, asked)
           end == t.placed + asked
           grows == t.fills # <<>> /\ Last(t.fills).to = t.placed
           k == Len(t.fills)
           n == Len(t.pending)
<1>1. /\ p.placed = end /\ p.emitted = t.emitted /\ p.pending = t.pending \o Silent(asked)
      /\ p.dropped = t.dropped /\ p \in Timelines
      /\ p.fills = IF grows THEN [t.fills EXCEPT ![k] = [from |-> @.from, to |-> end]]
                   ELSE Append(t.fills, [from |-> t.placed, to |-> end])
  BY PadFields DEF TimelineInv
<1>2. /\ t.fills \in Seq(Spans) /\ t.pending \in Seq(Int) /\ t.placed \in Nat /\ t.emitted \in Nat
      /\ k \in Nat /\ DOMAIN t.fills = 1..k /\ n \in Nat /\ asked \in Nat /\ asked >= 1 /\ end \in Nat
      /\ \A j \in 1..k : t.fills[j].from \in Nat /\ t.fills[j].to \in Nat
      /\ MAX_FILL \in Nat /\ BLOCK \in Nat
  <2>1. t \in Timelines
    BY DEF TimelineInv
  <2>2. t.fills \in Seq(Spans) /\ t.pending \in Seq(Int) /\ t.placed \in Nat /\ t.emitted \in Nat
    BY <2>1 DEF Timelines
  <2>3. MAX_FILL \in Nat /\ BLOCK \in Nat /\ asked \in Nat /\ asked >= 1
    BY AudioSourceAssumption
  <2>4. k \in Nat /\ DOMAIN t.fills = 1..k /\ n \in Nat /\ \A j \in 1..k : t.fills[j] \in Spans
    BY <2>2
  <2>5. \A j \in 1..k : t.fills[j].from \in Nat /\ t.fills[j].to \in Nat
    BY <2>4 DEF Spans
  <2> QED
    BY <2>2, <2>3, <2>4, <2>5
<1>3. /\ Len(p.pending) = n + asked
      /\ \A i \in 1..(n + asked) : p.pending[i] = IF i <= n THEN t.pending[i] ELSE Silence
  <2>1. Silent(asked) \in Seq(Int) /\ Len(Silent(asked)) = asked /\ \A i \in 1..asked : Silent(asked)[i] = Silence
    BY <1>2, SilentIs
  <2> DEFINE r == Silent(asked)
  <2>2. Len(t.pending \o r) = n + asked
        /\ \A i \in 1..(n + asked) : (t.pending \o r)[i] = IF i <= n THEN t.pending[i] ELSE r[i - n]
    <3>1. t.pending \in Seq(Int) /\ r \in Seq(Int) /\ Len(r) = asked
      BY <1>2, <2>1
    <3> HIDE DEF r
    <3> QED
      BY ONLY <3>1, OneAfterTheOther
  <2>3. p.pending = t.pending \o r
    BY <1>1
  <2> HIDE DEF p, r
  <2>4. \A i \in 1..(n + asked) : i <= n \/ i - n \in 1..asked
    BY <1>2
  <2>5. \A i \in 1..asked : r[i] = Silence
    BY <2>1 DEF r
  <2> QED
    BY <2>2, <2>3, <2>4, <2>5
<1> HIDE DEF p
<1>4. SUFFICES ASSUME ~t.dropped PROVE OnTheClock(p) /\ FillsApart(p)
  BY <1>1 DEF TimelineInv, p
<1>5. OnTheClock(t) /\ FillsApart(t)
  BY <1>4 DEF TimelineInv
<1>6. t.placed = t.emitted + n
  BY <1>5 DEF OnTheClock
<1>7. \A j \in 1..k : t.fills[j].from < t.fills[j].to /\ t.fills[j].to <= t.placed
  BY <1>2, <1>5 DEF FillsApart
<1>8. \A i, j \in 1..k : i < j => t.fills[i].to < t.fills[j].from
  BY <1>2, <1>5 DEF FillsApart
<1>9. ASSUME NEW m \in Nat, DOMAIN p.fills = 1..m, m \in {k, k + 1}, m > 0,
             \A j \in 1..m : j < m => p.fills[j] = t.fills[j],
             p.fills[m].to = end, p.fills[m].from \in Nat, p.fills[m].from <= t.placed,
             \A at \in Nat : at < t.placed => (IsFilled(t.fills, at) <=> IsFilled(p.fills, at)),
             \A j \in 1..m : j < m => p.fills[j].to < p.fills[m].from
      PROVE  OnTheClock(p) /\ FillsApart(p)
  <2>1. p.placed = p.emitted + Len(p.pending)
    BY <1>1, <1>2, <1>3, <1>6
  <2>2. ASSUME NEW i \in 1..(n + asked)
        PROVE  LiesWhereItPlayed(p.pending[i], p.emitted + i - 1, p.fills)
    <3> DEFINE at == t.emitted + i - 1
    <3>1. at \in Nat /\ at < end /\ p.emitted + i - 1 = at /\ (at < t.placed <=> i <= n) /\ i \in Nat
      <4>1. p.emitted = t.emitted /\ t.emitted \in Nat /\ n \in Nat /\ asked \in Nat /\ t.placed = t.emitted + n
        BY <1>1, <1>2, <1>6
      <4> HIDE DEF n
      <4> QED
        BY ONLY <4>1
    <3>2. CASE i <= n
      <4>1. LiesWhereItPlayed(t.pending[i], at, t.fills)
        <5>1. i \in 1..Len(t.pending)
          BY <1>2, <3>1, <3>2
        <5> QED
          BY <1>5, <5>1 DEF OnTheClock
      <4> HIDE DEF at
      <4>2. IsFilled(t.fills, at) <=> IsFilled(p.fills, at)
        BY <1>2, <1>9, <3>1, <3>2
      <4>3. p.pending[i] = t.pending[i] /\ p.emitted + i - 1 = at
        BY <1>3, <3>1, <3>2
      <4> QED
        BY <4>1, <4>2, <4>3 DEF LiesWhereItPlayed
    <3>3. CASE i > n
      <4>1. p.pending[i] = Silence /\ ~(Silence >= 0)
        BY <1>2, <1>3, <3>3 DEF Silence
      <4>2. at >= t.placed
        BY <1>2, <3>1, <3>3
      <4>3. m \in 1..m /\ p.fills[m].from <= at /\ at < p.fills[m].to
        BY <1>2, <1>9, <3>1, <4>2
      <4> QED
        <5>1. IsFilled(p.fills, at)
          BY <1>9, <4>3 DEF IsFilled
        <5> QED
          BY <3>1, <4>1, <5>1 DEF LiesWhereItPlayed
    <3> QED
      BY <1>2, <3>2, <3>3
  <2>3. OnTheClock(p)
    BY <1>3, <2>1, <2>2 DEF OnTheClock
  <2>4. \A j \in 1..m : p.fills[j].from < p.fills[j].to /\ p.fills[j].to <= p.placed
    <3> SUFFICES ASSUME NEW j \in 1..m PROVE p.fills[j].from < p.fills[j].to /\ p.fills[j].to <= p.placed
      OBVIOUS
    <3>1. CASE j = m
      BY <1>1, <1>2, <1>9, <3>1
    <3>2. CASE j < m
      <4>1. p.fills[j] = t.fills[j] /\ j \in 1..k
        BY <1>2, <1>9, <3>2
      <4> QED
        BY <1>1, <1>2, <1>7, <4>1
    <3> QED
      BY <1>9, <3>1, <3>2
  <2>5. \A i, j \in 1..m : i < j => p.fills[i].to < p.fills[j].from
    <3> SUFFICES ASSUME NEW i \in 1..m, NEW j \in 1..m, i < j PROVE p.fills[i].to < p.fills[j].from
      OBVIOUS
    <3>1. CASE j = m
      BY <1>9, <3>1
    <3>2. CASE j < m
      <4>1. p.fills[j] = t.fills[j] /\ j \in 1..k /\ p.fills[i] = t.fills[i] /\ i \in 1..k
        BY <1>2, <1>9, <3>2
      <4> QED
        BY <1>8, <4>1
    <3> QED
      BY <1>9, <3>1, <3>2
  <2> QED
    BY <1>9, <2>3, <2>4, <2>5 DEF FillsApart
<1>10. CASE grows
  <2>1. k > 0 /\ k \in 1..k /\ t.fills[k].to = t.placed
    BY <1>2, <1>10 DEF Last
  <2>2. p.fills = [t.fills EXCEPT ![k] = [from |-> t.fills[k].from, to |-> end]]
    BY <1>1, <1>10
  <2>3. /\ DOMAIN p.fills = 1..k /\ p.fills[k].to = end /\ p.fills[k].from = t.fills[k].from
        /\ \A j \in 1..k : j < k => p.fills[j] = t.fills[j]
    BY <1>2, <2>1, <2>2
  <2>4. \A j \in 1..k : j < k => p.fills[j].to < p.fills[k].from
    BY <1>8, <2>1, <2>3
  <2>5. t.fills[k].from \in Nat /\ t.fills[k].from <= t.placed
    BY <1>2, <1>7, <2>1
  <2>6. \A j \in 1..k : p.fills[j].from = t.fills[j].from
                        /\ p.fills[j].to = IF j = k THEN end ELSE t.fills[j].to
    <3> SUFFICES ASSUME NEW j \in 1..k
                 PROVE  p.fills[j].from = t.fills[j].from /\ p.fills[j].to = IF j = k THEN end ELSE t.fills[j].to
      OBVIOUS
    <3> HIDE DEF end, k
    <3>1. j = k \/ j < k
      BY <1>2
    <3> QED
      BY <2>3, <3>1
  <2>7. \A at \in Nat : at < t.placed =>
            (IsFilled(t.fills, at) <=> IsFilled(p.fills, at))
    <3> SUFFICES ASSUME NEW at \in Nat, at < t.placed PROVE IsFilled(t.fills, at) <=> IsFilled(p.fills, at)
      OBVIOUS
    <3>1. at < end
      BY <1>2
    <3>2. ASSUME NEW j \in 1..k
          PROVE  t.fills[j].from <= at /\ at < t.fills[j].to <=> p.fills[j].from <= at /\ at < p.fills[j].to
      BY <2>1, <2>6, <3>1
    <3> HIDE DEF end, k
    <3> QED
      BY <1>2, <2>3, <3>2 DEF IsFilled
  <2> HIDE DEF end, k
  <2> QED
    BY <1>2, <1>9, <2>1, <2>3, <2>4, <2>5, <2>7
<1>11. CASE ~grows
  <2>1. p.fills = Append(t.fills, [from |-> t.placed, to |-> end])
    BY <1>1, <1>11
  <2>2. /\ DOMAIN p.fills = 1..(k + 1) /\ p.fills[k + 1].to = end /\ p.fills[k + 1].from = t.placed
        /\ \A j \in 1..k : p.fills[j] = t.fills[j]
    BY <1>2, <2>1
  <2>3. k > 0 => k \in 1..k /\ t.fills[k].to < t.placed
    <3>1. k > 0 => t.fills # <<>> /\ Last(t.fills) = t.fills[k] /\ k \in 1..k
      BY <1>2 DEF Last
    <3> HIDE DEF k
    <3> QED
      BY <1>2, <1>7, <1>11, <3>1
  <2>4. \A j \in 1..k : t.fills[j].to < t.placed
    <3> SUFFICES ASSUME NEW j \in 1..k PROVE t.fills[j].to < t.placed
      OBVIOUS
    <3>1. CASE j = k
      BY <1>2, <2>3, <3>1
    <3>2. CASE j < k
      <4>1. k > 0 /\ k \in 1..k
        BY <1>2
      <4>2. t.fills[j].to < t.fills[k].from /\ t.fills[k].from < t.fills[k].to
        BY <1>7, <1>8, <3>2, <4>1
      <4>3. t.fills[j].to \in Nat /\ t.fills[k].from \in Nat /\ t.fills[k].to \in Nat /\ t.placed \in Nat
        BY <1>2, <4>1
      <4>4. t.fills[k].to < t.placed
        BY <2>3, <4>1
      <4> QED
        BY ONLY <4>2, <4>3, <4>4
    <3> QED
      BY <1>2, <3>1, <3>2
  <2>5. \A at \in Nat : at < t.placed =>
            (IsFilled(t.fills, at) <=> IsFilled(p.fills, at))
    <3> SUFFICES ASSUME NEW at \in Nat, at < t.placed PROVE IsFilled(t.fills, at) <=> IsFilled(p.fills, at)
      OBVIOUS
    <3>1. ~(p.fills[k + 1].from <= at)
      BY <1>2, <2>2
    <3>2. \A j \in 1..(k + 1) : j = k + 1 \/ j \in 1..k
      BY <1>2
    <3>3. \A j \in 1..k : j \in 1..(k + 1)
      BY <1>2
    <3> QED
      BY <1>2, <2>2, <3>1, <3>2, <3>3 DEF IsFilled
  <2>6. \A j \in 1..(k + 1) : j < k + 1 => j \in 1..k
    BY <1>2
  <2>7. k + 1 \in Nat /\ k + 1 > 0 /\ k + 1 \in {k, k + 1} /\ t.placed <= t.placed
    BY <1>2
  <2> HIDE DEF end, k
  <2> QED
    BY <1>2, <1>9, <2>2, <2>4, <2>5, <2>6, <2>7
<1> QED
  BY <1>10, <1>11

(* A sample has no time, or lies near it.                                   *)
LiesNear(sample, at) == sample = Untimed \/ (sample >= 0 /\ sample - BLOCK <= at /\ at <= sample + BLOCK)

(* Sound that follows lies where it played, and is no padding.              *)
LEMMA SoundFollows ==
    ASSUME NEW t, TimelineInv(t), NEW q \in Seq(Int), NEW r,
           r = [t EXCEPT !.pending = @ \o q, !.placed = @ + Len(q)],
           \A i \in 1..Len(q) : LiesNear(q[i], t.placed + i - 1)
    PROVE  TimelineInv(r) /\ r.dropped = t.dropped
<1> DEFINE n == Len(t.pending)
           m == Len(q)
<1>1. t \in Timelines
  BY DEF TimelineInv
<1>2. /\ t.fills \in Seq(Spans) /\ t.pending \in Seq(Int) /\ t.placed \in Nat /\ t.emitted \in Nat
      /\ n \in Nat /\ m \in Nat
  BY <1>1 DEF Timelines
<1>3. /\ Len(t.pending \o q) = n + m /\ t.pending \o q \in Seq(Int)
      /\ \A i \in 1..(n + m) : (t.pending \o q)[i] = IF i <= n THEN t.pending[i] ELSE q[i - n]
  BY <1>2, OneAfterTheOther
<1>4. /\ r.pending = t.pending \o q /\ r.placed = t.placed + m /\ r.emitted = t.emitted
      /\ r.fills = t.fills /\ r.dropped = t.dropped /\ r \in Timelines
  <2>1. t.placed + m \in Nat
    BY <1>2
  <2> QED
    BY <1>1, <1>3, <2>1 DEF Timelines
<1>5. SUFFICES ASSUME ~t.dropped PROVE OnTheClock(r) /\ FillsApart(r)
  BY <1>4 DEF TimelineInv
<1>6. OnTheClock(t) /\ FillsApart(t)
  BY <1>5 DEF TimelineInv
<1>7. t.placed = t.emitted + n
  BY <1>6 DEF OnTheClock
<1>8. \A k \in DOMAIN t.fills : t.fills[k].from < t.fills[k].to /\ t.fills[k].to <= t.placed
                                /\ t.fills[k].from \in Nat /\ t.fills[k].to \in Nat
  <2>1. \A k \in DOMAIN t.fills : t.fills[k] \in Spans
    BY <1>2
  <2> QED
    BY <1>6, <2>1 DEF FillsApart, Spans
<1>9. \A i \in 1..(n + m) : LiesWhereItPlayed(r.pending[i], r.emitted + i - 1, r.fills)
  <2> SUFFICES ASSUME NEW i \in 1..(n + m)
               PROVE  LiesWhereItPlayed(r.pending[i], r.emitted + i - 1, r.fills)
    OBVIOUS
  <2>1. CASE i <= n
    <3>1. i \in 1..Len(t.pending) /\ r.pending[i] = t.pending[i]
      BY <1>2, <1>3, <1>4, <2>1
    <3> QED
      BY <1>4, <1>6, <3>1 DEF OnTheClock
  <2>2. CASE i > n
    <3>1. i - n \in 1..m /\ r.pending[i] = q[i - n]
      BY <1>2, <1>3, <1>4, <2>2
    <3>2. t.emitted + i - 1 = t.placed + (i - n) - 1 /\ t.emitted + i - 1 >= t.placed /\ t.emitted + i - 1 \in Int
      BY <1>2, <1>7, <2>2
    <3>3. ~IsFilled(t.fills, t.emitted + i - 1)
      <4> DEFINE at == t.emitted + i - 1
      <4>1. \A k \in DOMAIN t.fills : ~(at < t.fills[k].to)
        <5> SUFFICES ASSUME NEW k \in DOMAIN t.fills PROVE ~(at < t.fills[k].to)
          OBVIOUS
        <5>1. t.fills[k].to \in Nat /\ t.fills[k].to <= t.placed /\ t.placed \in Nat
          BY <1>2, <1>8
        <5>2. at >= t.placed /\ at \in Int
          BY <3>2
        <5> HIDE DEF at
        <5> QED
          BY ONLY <5>1, <5>2
      <4> HIDE DEF at
      <4>2. ~IsFilled(t.fills, at)
        BY <4>1 DEF IsFilled
      <4> QED
        BY <4>2 DEF at
    <3>4. LiesNear(q[i - n], t.placed + (i - n) - 1)
      BY <3>1
    <3>5. LiesNear(r.pending[i], t.emitted + i - 1)
      BY <3>1, <3>2, <3>4
    <3> QED
      BY <1>4, <3>3, <3>5 DEF LiesWhereItPlayed, LiesNear, Untimed, Silence
  <2> QED
    BY <1>2, <2>1, <2>2
<1>10. r.placed = r.emitted + Len(r.pending)
  BY <1>2, <1>3, <1>4, <1>7
<1>11. OnTheClock(r)
  BY <1>3, <1>4, <1>9, <1>10 DEF OnTheClock
<1>12. \A k \in DOMAIN t.fills : t.fills[k].to <= r.placed
  BY <1>2, <1>4, <1>8
<1>13. FillsApart(r)
  BY <1>4, <1>6, <1>12 DEF FillsApart
<1> QED
  BY <1>11, <1>13

(* Wherever a packet lies, and whatever it says of itself, it is put where  *)
(* it played, or has no time to be held to.                                 *)
LEMMA PlaceKeeps ==
    ASSUME NEW t, TimelineInv(t), NEW p \in TimedPackets
    PROVE  TimelineInv(Place(t, p)) /\ Place(t, p).dropped = t.dropped
<1> DEFINE n == Len(p.samples)
           tolerance == IF p.discontinuity THEN 0 ELSE BLOCK
           early == p.at # NoTime /\ p.at > t.placed + tolerance
           behind == p.at # NoTime /\ p.at + tolerance < t.placed
           off == IF early THEN p.at - t.placed ELSE IF behind THEN t.placed - p.at ELSE 0
           skip == IF behind /\ off <= MAX_FILL THEN Lesser(off, n) ELSE 0
           at == IF early /\ off <= MAX_FILL THEN Pad(t, off) ELSE t
           samples == IF off > MAX_FILL THEN [i \in 1..n |-> Untimed] ELSE SubSeq(p.samples, skip + 1, n)
<1>1. Place(t, p) = [at EXCEPT !.pending = @ \o samples, !.placed = @ + n - skip]
  BY DEF Place
<1>2. /\ p.at \in Int /\ p.samples \in Seq(Int) /\ n \in Nat /\ DOMAIN p.samples = 1..n
      /\ \A i \in 1..n : p.samples[i] = Untimed \/ (p.at >= 0 /\ p.samples[i] = p.at + i - 1)
  BY DEF TimedPackets, Packets
<1>3. t.placed \in Nat /\ BLOCK \in Nat /\ MAX_FILL \in Nat /\ tolerance \in 0..BLOCK /\ off \in Nat /\ skip \in 0..n
  <2>1. t.placed \in Nat
    BY DEF TimelineInv, Timelines
  <2>2. BLOCK \in Nat /\ MAX_FILL \in Nat
    BY AudioSourceAssumption
  <2>3. tolerance \in 0..BLOCK
    BY <2>2
  <2> HIDE DEF tolerance
  <2>4. off \in Nat
    BY <1>2, <2>1, <2>3
  <2> HIDE DEF off, behind
  <2>5. skip \in 0..n
    BY <1>2, <2>4 DEF Lesser
  <2> QED
    BY <2>1, <2>2, <2>3, <2>4, <2>5
<1> HIDE DEF tolerance
<1>4. ASSUME NEW u, TimelineInv(u), u.dropped = t.dropped, NEW s \in Seq(Int), u = at, s = samples,
             Len(s) = n - skip, \A i \in 1..Len(s) : LiesNear(s[i], u.placed + i - 1)
      PROVE  TimelineInv(Place(t, p)) /\ Place(t, p).dropped = t.dropped
  <2>1. u.placed \in Nat /\ u \in Timelines
    BY <1>4 DEF TimelineInv, Timelines
  <2>2. u.placed + n - skip = u.placed + Len(s)
    BY <1>2, <1>3, <1>4, <2>1
  <2>3. Place(t, p) = [u EXCEPT !.pending = @ \o s, !.placed = @ + n - skip]
    BY <1>1, <1>4
  <2> HIDE DEF n, skip
  <2>4. Place(t, p) = [u EXCEPT !.pending = @ \o s, !.placed = @ + Len(s)]
    BY <2>1, <2>2, <2>3 DEF Timelines
  <2> QED
    <3>1. TimelineInv(u) /\ s \in Seq(Int) /\ \A i \in 1..Len(s) : LiesNear(s[i], u.placed + i - 1)
      BY <1>4
    <3>2. TimelineInv(Place(t, p)) /\ Place(t, p).dropped = u.dropped
      BY ONLY <2>4, <3>1, SoundFollows
    <3> QED
      BY <1>4, <3>2
<1>5. CASE off > MAX_FILL
  <2>1. skip = 0 /\ at = t
    BY <1>3, <1>5
  <2>2. samples = [i \in 1..n |-> Untimed]
    BY <1>5
  <2> HIDE DEF samples, at, skip
  <2>3. samples \in Seq(Int) /\ Len(samples) = n /\ \A i \in 1..n : samples[i] = Untimed
    BY <1>2, <2>2 DEF Untimed
  <2>4. \A i \in 1..n : LiesNear(samples[i], t.placed + i - 1)
    BY <2>3 DEF LiesNear
  <2> QED
    BY <1>2, <1>3, <1>4, <2>1, <2>3, <2>4
<1>6. ASSUME off <= MAX_FILL
      PROVE  /\ samples \in Seq(Int) /\ Len(samples) = n - skip
             /\ \A i \in 1..(n - skip) : samples[i] = p.samples[i + skip]
             /\ \A i \in 1..(n - skip) : samples[i] = Untimed \/ (p.at >= 0 /\ samples[i] = p.at + skip + i - 1)
  <2>1. samples = SubSeq(p.samples, skip + 1, n)
    <3>1. ~(off > MAX_FILL)
      BY <1>3, <1>6
    <3> HIDE DEF off, skip, n
    <3> QED
      BY ONLY <3>1
  <2>2. skip + 1 \in 1..(n + 1) /\ skip \in Nat
    BY <1>2, <1>3
  <2> HIDE DEF samples, skip
  <2>3. /\ samples \in Seq(Int) /\ Len(samples) = n - (skip + 1) + 1
        /\ \A i \in 1..(n - (skip + 1) + 1) : samples[i] = p.samples[i + (skip + 1) - 1]
    BY <1>2, <2>1, <2>2, TheRestOf
  <2>4. n - (skip + 1) + 1 = n - skip /\ \A i \in Int : i + (skip + 1) - 1 = i + skip
    BY <1>2, <2>2
  <2>5. \A i \in 1..(n - skip) : samples[i] = p.samples[i + skip] /\ i + skip \in 1..n
    BY <1>2, <2>2, <2>3, <2>4
  <2>6. \A i \in 1..(n - skip) : samples[i] = Untimed \/ (p.at >= 0 /\ samples[i] = p.at + skip + i - 1)
    <3> SUFFICES ASSUME NEW i \in 1..(n - skip)
                 PROVE  samples[i] = Untimed \/ (p.at >= 0 /\ samples[i] = p.at + skip + i - 1)
      OBVIOUS
    <3>1. p.samples[i + skip] = Untimed \/ (p.at >= 0 /\ p.samples[i + skip] = p.at + (i + skip) - 1)
      BY <1>2, <2>5
    <3>2. p.at + (i + skip) - 1 = p.at + skip + i - 1
      BY <1>2, <2>2
    <3> QED
      BY <2>5, <3>1, <3>2
  <2> QED
    BY <2>3, <2>4, <2>5, <2>6
<1>7. CASE off <= MAX_FILL /\ early
  <2>1. off = p.at - t.placed /\ off >= 1 /\ skip = 0 /\ at = Pad(t, off) /\ p.at >= 0
    BY <1>2, <1>3, <1>7
  <2>2. off \in 1..MAX_FILL
    BY <1>3, <1>7, <2>1
  <2> HIDE DEF samples, at, skip, off, early, behind
  <2>3. TimelineInv(at) /\ at.dropped = t.dropped /\ at.placed = t.placed + off
    BY <2>1, <2>2, PadKeeps
  <2>4. at.placed = p.at
    BY <1>2, <1>3, <2>1, <2>3
  <2>5. \A i \in 1..n : samples[i] = Untimed \/ samples[i] = p.at + i - 1
    BY <1>2, <1>6, <1>7, <2>1
  <2>6. samples \in Seq(Int) /\ Len(samples) = n
    BY <1>2, <1>6, <1>7, <2>1
  <2>7. \A i \in 1..n : LiesNear(samples[i], at.placed + i - 1)
    BY <1>2, <1>3, <2>1, <2>4, <2>5 DEF LiesNear
  <2> QED
    BY <1>2, <1>4, <2>1, <2>3, <2>6, <2>7
<1>8. CASE off <= MAX_FILL /\ ~early
  <2>1. at = t
    BY <1>8
  <2>2. \A i \in 1..(n - skip) : p.at >= 0 =>
            p.at + skip + i - 1 - BLOCK <= t.placed + i - 1 /\ t.placed + i - 1 <= p.at + skip + i - 1 + BLOCK
    <3> SUFFICES ASSUME NEW i \in 1..(n - skip), p.at >= 0
                 PROVE  p.at + skip + i - 1 - BLOCK <= t.placed + i - 1 /\ t.placed + i - 1 <= p.at + skip + i - 1 + BLOCK
      OBVIOUS
    <3>1. p.at # NoTime
      BY DEF NoTime
    <3>2. CASE behind
      <4>1. off = t.placed - p.at /\ skip = Lesser(off, n)
        BY <1>8, <3>2
      <4>2. n > 0 /\ i \in Int
        BY <1>2, <1>3
      <4>3. off >= n => n - skip = 0
        BY <1>2, <1>3, <4>1 DEF Lesser
      <4>4. skip = off
        BY <1>2, <1>3, <4>1, <4>3 DEF Lesser
      <4> HIDE DEF off, skip, n
      <4>5. p.at + skip + i - 1 = t.placed + i - 1
        BY <1>2, <1>3, <4>1, <4>2, <4>4
      <4> QED
        BY <1>2, <1>3, <4>2, <4>5
    <3>3. CASE ~behind
      <4>1. skip = 0
        BY <3>3
      <4>2. p.at <= t.placed + tolerance /\ t.placed <= p.at + tolerance
        BY <1>2, <1>3, <1>8, <3>1, <3>3
      <4>3. p.at \in Int /\ t.placed \in Int /\ BLOCK \in Nat /\ tolerance \in 0..BLOCK /\ i \in Int
        BY <1>2, <1>3
      <4> HIDE DEF skip, off, behind, early, n
      <4> QED
        BY ONLY <4>1, <4>2, <4>3
    <3> QED
      BY <3>2, <3>3
  <2> HIDE DEF samples, at, skip, off, early, behind
  <2>3. \A i \in 1..(n - skip) : samples[i] = Untimed \/ (p.at >= 0 /\ samples[i] = p.at + skip + i - 1)
    BY <1>6, <1>8
  <2>4. samples \in Seq(Int) /\ Len(samples) = n - skip
    BY <1>6, <1>8
  <2>5. \A i \in 1..(n - skip) : LiesNear(samples[i], at.placed + i - 1)
    <3> SUFFICES ASSUME NEW i \in 1..(n - skip), samples[i] # Untimed
                 PROVE  LiesNear(samples[i], at.placed + i - 1)
      BY DEF LiesNear
    <3> DEFINE s == p.at + skip + i - 1
    <3>1. p.at >= 0 /\ samples[i] = s
      BY <2>3
    <3>2. s >= 0
      BY <1>2, <1>3, <3>1
    <3>3. s - BLOCK <= t.placed + i - 1 /\ t.placed + i - 1 <= s + BLOCK
      <4>1. /\ p.at + skip + i - 1 - BLOCK <= t.placed + i - 1
            /\ t.placed + i - 1 <= p.at + skip + i - 1 + BLOCK
        BY <2>2, <3>1
      <4> QED
        BY <1>2, <1>3, <4>1
    <3> HIDE DEF s
    <3> QED
      BY <2>1, <3>1, <3>2, <3>3 DEF LiesNear
  <2> QED
    BY <1>4, <2>1, <2>4, <2>5
<1> QED
  BY <1>3, <1>5, <1>7, <1>8

(* A set of numbers has a least one, and Min finds it.                      *)
LEMMA TheLeastIsThere ==
    ASSUME NEW S \in SUBSET Nat, S # {}
    PROVE  /\ \E x \in S : \A y \in S : x <= y
           /\ Min(S) \in S /\ \A y \in S : Min(S) <= y
<1> DEFINE Less == {pair \in Nat \X Nat : pair[1] < pair[2]}
<1>1. PICK x \in S : \A y \in S : <<y, x>> \notin Less
  <2>1. IsWellFoundedOn(Less, Nat)
    BY NatLessThanWellFounded DEF OpToRel
  <2> HIDE DEF Less
  <2> QED
    BY <2>1, WFMin
<1>2. \A y \in S : x <= y
  <2> SUFFICES ASSUME NEW y \in S PROVE x <= y
    OBVIOUS
  <2>1. <<y, x>> \notin Less /\ <<y, x>> \in Nat \X Nat
    BY <1>1
  <2>2. ~(y < x)
    BY <2>1
  <2> QED
    BY <2>2
<1>3. Min(S) \in S /\ \A y \in S : Min(S) <= y
  BY <1>2 DEF Min
<1> QED
  BY <1>2, <1>3

(* Induction over the numbers for a set, from the least counterexample.     *)
LEMMA NumbersByInduction ==
    ASSUME NEW T, 0 \in T, \A n \in Nat : n \in T => n + 1 \in T
    PROVE  Nat \subseteq T
<1> DEFINE Rest == {n \in Nat : n \notin T}
<1>1. SUFFICES ASSUME Rest # {} PROVE FALSE
  OBVIOUS
<1>2. PICK x \in Rest : \A y \in Rest : x <= y
  BY <1>1, TheLeastIsThere
<1>3. x \in Nat /\ x # 0 /\ x - 1 \in Nat /\ (x - 1) + 1 = x /\ ~(x <= x - 1)
  OBVIOUS
<1> QED
  BY <1>2, <1>3

(* The largest position of a set that has the last one.                     *)
LEMMA TheLastIsLargest ==
    ASSUME NEW k \in Nat, NEW S \in SUBSET (1..(k + 1)), k + 1 \in S
    PROVE  Max(S) = k + 1
<1>1. \A x \in S : (\A y \in S : x >= y) <=> x = k + 1
  OBVIOUS
<1> QED
  BY <1>1 DEF Max

(* What FoldLeft means of a drain: a function on the sets of positions,     *)
(* each set's last packet placed after the others.                          *)
Placing(f, t, q) ==
    [S \in SUBSET DOMAIN q |-> IF S = {} THEN t ELSE Place(f[S \ {Max(S)}], q[Max(S)])]
Placed(t, q) == CHOOSE f : f = Placing(f, t, q)

(* A drain is the value of that function at all positions.                  *)
LEMMA AFoldPlaces == ASSUME NEW t, NEW q PROVE FoldLeft(Place, t, q) = Placed(t, q)[DOMAIN q]
  BY DEF FoldLeft, MapThenFoldSet, Placed, Placing

(* There is such a function, by induction over the length.                  *)
LEMMA ThereIsAPlacing ==
    ASSUME NEW t, NEW q \in Seq(Packets)
    PROVE  Placed(t, q) = Placing(Placed(t, q), t, q)
<1> DEFINE Part(k) == SUBSET (1..k)
           Made(f, k) == f = [S \in Part(k) |-> IF S = {} THEN t ELSE Place(f[S \ {Max(S)}], q[Max(S)])]
           T == {k \in Nat : \E f : Made(f, k)}
<1>1. 0 \in T
  <2> DEFINE f == [S \in Part(0) |-> t]
  <2>1. Part(0) = {{}}
    OBVIOUS
  <2>2. Made(f, 0)
    BY <2>1
  <2> QED
    BY <2>2
<1>2. ASSUME NEW k \in Nat, k \in T PROVE k + 1 \in T
  <2>1. PICK f : Made(f, k)
    BY <1>2
  <2> DEFINE g == [S \in Part(k + 1) |-> IF k + 1 \in S THEN Place(f[S \ {k + 1}], q[k + 1]) ELSE f[S]]
  <2>2. \A S \in Part(k + 1) : S \ {k + 1} \in Part(k) /\ (k + 1 \notin S => S \in Part(k))
    OBVIOUS
  <2>3. \A S \in Part(k) : S \in Part(k + 1) /\ g[S] = f[S]
    <3>1. \A S \in Part(k) : S \in Part(k + 1) /\ k + 1 \notin S
      OBVIOUS
    <3> QED
      BY <3>1
  <2>4. \A S \in Part(k + 1) : g[S] = IF S = {} THEN t ELSE Place(g[S \ {Max(S)}], q[Max(S)])
    <3> SUFFICES ASSUME NEW S \in Part(k + 1)
                 PROVE  g[S] = IF S = {} THEN t ELSE Place(g[S \ {Max(S)}], q[Max(S)])
      OBVIOUS
    <3>1. CASE k + 1 \in S
      <4>1. Max(S) = k + 1
        BY <3>1, TheLastIsLargest
      <4>2. g[S] = Place(f[S \ {k + 1}], q[k + 1])
        BY <3>1
      <4>3. g[S \ {k + 1}] = f[S \ {k + 1}]
        BY <2>2, <2>3
      <4> QED
        BY <3>1, <4>1, <4>2, <4>3
    <3>2. CASE k + 1 \notin S
      <4>1. S \in Part(k) /\ g[S] = f[S]
        BY <2>2, <2>3, <3>2
      <4>2. f[S] = IF S = {} THEN t ELSE Place(f[S \ {Max(S)}], q[Max(S)])
        BY <2>1, <4>1
      <4>3. S \ {Max(S)} \in Part(k)
        BY <4>1
      <4>4. g[S \ {Max(S)}] = f[S \ {Max(S)}]
        BY <2>3, <4>3
      <4> QED
        BY <4>1, <4>2, <4>4
    <3> QED
      BY <3>1, <3>2
  <2>5. Made(g, k + 1)
    BY <2>4
  <2>6. \E h : Made(h, k + 1)
    <3> HIDE DEF g, Made
    <3> QED
      BY <2>5
  <2> HIDE DEF Made
  <2> QED
    BY <2>6
<1>3. Len(q) \in T
  <2> HIDE DEF T
  <2>1. Nat \subseteq T
    BY <1>1, <1>2, NumbersByInduction
  <2> QED
    BY <2>1
<1>4. DOMAIN q = 1..Len(q)
  OBVIOUS
<1>5. PICK f : f = Placing(f, t, q)
  BY <1>3, <1>4 DEF Placing
<1> HIDE DEF T, Made, Part
<1> QED
  BY <1>5 DEF Placed

(* Pulling packets off the queue places each of them where it played.       *)
LEMMA PulledKeeps ==
    ASSUME NEW t, TimelineInv(t), NEW queue \in Seq(TimedPackets), NEW n \in Nat, n <= Len(queue)
    PROVE  TimelineInv(Pulled(t, queue, n)) /\ Pulled(t, queue, n).dropped = t.dropped
<1> DEFINE q == SubSeq(queue, 1, n)
           w == Placed(t, q)
           T == {k \in Nat : k <= n => TimelineInv(w[1..k]) /\ w[1..k].dropped = t.dropped}
<1>1. n \in Nat /\ n <= Len(queue)
  OBVIOUS
<1>2. q \in Seq(TimedPackets) /\ Len(q) = n /\ DOMAIN q = 1..n
  BY <1>1
<1>3. q \in Seq(Packets) /\ \A i \in 1..n : q[i] \in TimedPackets
  <2>1. TimedPackets \subseteq Packets
    BY DEF TimedPackets
  <2> HIDE DEF q
  <2> QED
    BY <1>2, <2>1
<1> HIDE DEF q
<1>4. w = Placing(w, t, q)
  BY <1>3, ThereIsAPlacing
<1> HIDE DEF w
<1>5. \A S \in SUBSET (1..n) : w[S] = IF S = {} THEN t ELSE Place(w[S \ {Max(S)}], q[Max(S)])
  BY <1>2, <1>4 DEF Placing
<1>6. 0 \in T
  <2>1. 1..0 = {} /\ {} \in SUBSET (1..n)
    OBVIOUS
  <2>2. w[1..0] = t
    BY <1>5, <2>1
  <2> QED
    BY <2>2
<1>7. ASSUME NEW k \in Nat, k \in T PROVE k + 1 \in T
  <2> SUFFICES ASSUME k + 1 <= n PROVE TimelineInv(w[1..(k + 1)]) /\ w[1..(k + 1)].dropped = t.dropped
    OBVIOUS
  <2>1. TimelineInv(w[1..k]) /\ w[1..k].dropped = t.dropped
    BY <1>1, <1>7
  <2>2. 1..(k + 1) \in SUBSET (1..n) /\ k + 1 \in 1..(k + 1) /\ 1..(k + 1) # {} /\ (1..(k + 1)) \ {k + 1} = 1..k
        /\ k + 1 \in 1..n
    BY <1>1
  <2>3. Max(1..(k + 1)) = k + 1
    BY <2>2, TheLastIsLargest
  <2>4. w[1..(k + 1)] = Place(w[1..k], q[k + 1])
    BY <1>5, <2>2, <2>3
  <2> QED
    BY <1>3, <2>1, <2>2, <2>4, PlaceKeeps
<1>8. n \in T
  <2> HIDE DEF T
  <2>1. Nat \subseteq T
    BY <1>6, <1>7, NumbersByInduction
  <2> QED
    BY <1>1, <2>1
<1>9. Pulled(t, queue, n) = w[1..n]
  BY <1>2, AFoldPlaces DEF Pulled, w, q
<1> QED
  BY <1>1, <1>8, <1>9

LEMMA DrainKeeps ==
    ASSUME NEW t, TimelineInv(t), NEW queue \in Seq(TimedPackets)
    PROVE  TimelineInv(Drain(t, queue)) /\ Drain(t, queue).dropped = t.dropped
<1>1. Lesser(MAX_PACKETS, Len(queue)) \in Nat /\ Lesser(MAX_PACKETS, Len(queue)) <= Len(queue)
  BY AudioSourceAssumption DEF Lesser
<1> QED
  BY <1>1, PulledKeeps DEF Drain

(* Filling up to the live edge pads, or drops the stretch and says so.      *)
LEMMA FillToKeeps ==
    ASSUME NEW t, TimelineInv(t), NEW time \in Nat
    PROVE  TimelineInv(FillTo(t, time))
<1> DEFINE at == Greater(time - LIVE_LAG, 0)
<1>1. at \in Nat /\ t.placed \in Nat /\ t \in Timelines /\ MAX_FILL \in Nat
  BY AudioSourceAssumption DEF Greater, TimelineInv, Timelines
<1> HIDE DEF at
<1>2. CASE at <= t.placed
  BY <1>2 DEF FillTo, at
<1>3. CASE ~(at <= t.placed) /\ at - t.placed <= MAX_FILL
  <2>1. FillTo(t, time) = Pad(t, at - t.placed) /\ at - t.placed \in 1..MAX_FILL
    BY <1>1, <1>3 DEF FillTo, at
  <2> QED
    BY <2>1, PadKeeps
<1>4. CASE ~(at <= t.placed) /\ ~(at - t.placed <= MAX_FILL)
  <2>1. FillTo(t, time) = DropStretch(t, at)
    BY <1>4 DEF FillTo, at
  <2>2. DropStretch(t, at) \in Timelines /\ DropStretch(t, at).dropped
    <3>1. <<>> \in Seq(Spans)
      OBVIOUS
    <3> QED
      BY <1>1, <3>1 DEF DropStretch, Timelines
  <2> QED
    BY <2>1, <2>2 DEF TimelineInv
<1> QED
  BY <1>2, <1>3, <1>4

(* A block says of itself what is so, because stretches that do not touch   *)
(* cannot fill it between them.                                             *)
LEMMA TheBlockLies ==
    ASSUME NEW t, TimelineInv(t), ~t.dropped, NextBlock(t) # NoBlock
    PROVE  LET b == NextBlock(t)
           IN  /\ \A i \in 1..BLOCK : b.samples[i] >= 0 => b.start + i - 1 - b.samples[i] \in -BLOCK..BLOCK
               /\ b.filler <=> \A i \in 1..BLOCK : b.samples[i] = Silence
<1> DEFINE b == NextBlock(t)
           e == t.emitted
           n == Len(t.pending)
<1>1. /\ n \in Nat /\ e \in Nat /\ BLOCK \in Nat /\ BLOCK > 0 /\ t.pending \in Seq(Int) /\ t.fills \in Seq(Spans)
      /\ OnTheClock(t) /\ FillsApart(t)
  BY AudioSourceAssumption DEF TimelineInv, Timelines
<1>2. n >= BLOCK /\ b = [start |-> e, samples |-> SubSeq(t.pending, 1, BLOCK), filler |-> IsFiller(t, e, e + BLOCK)]
  BY <1>1 DEF NextBlock
<1>3. /\ b.start = e /\ (b.filler <=> IsFiller(t, e, e + BLOCK))
      /\ \A i \in 1..BLOCK : b.samples[i] = t.pending[i] /\ t.pending[i] \in Int
  BY <1>1, <1>2
<1> HIDE DEF b
<1>4. \A i \in 1..BLOCK : LiesWhereItPlayed(b.samples[i], e + i - 1, t.fills) /\ b.samples[i] \in Int
  BY <1>1, <1>2, <1>3 DEF OnTheClock
<1>5. \A i \in 1..BLOCK : b.samples[i] >= 0 => b.start + i - 1 - b.samples[i] \in -BLOCK..BLOCK
  <2> SUFFICES ASSUME NEW i \in 1..BLOCK, b.samples[i] >= 0
               PROVE  b.start + i - 1 - b.samples[i] \in -BLOCK..BLOCK
    OBVIOUS
  <2> DEFINE s == b.samples[i]
  <2>1. s \in Int /\ s - BLOCK <= e + i - 1 /\ e + i - 1 <= s + BLOCK
    BY <1>4 DEF LiesWhereItPlayed
  <2> HIDE DEF s
  <2>2. e + i - 1 - s \in -BLOCK..BLOCK
    BY <1>1, <2>1
  <2> QED
    BY <1>3, <2>2 DEF s
<1>6. \A i \in 1..BLOCK : b.samples[i] = Silence <=> IsFilled(t.fills, e + i - 1)
  BY <1>4 DEF LiesWhereItPlayed
<1>7. \A k \in DOMAIN t.fills : t.fills[k].from \in Nat /\ t.fills[k].to \in Nat /\ k \in Nat
  <2>1. \A k \in DOMAIN t.fills : t.fills[k] \in Spans /\ k \in Nat
    BY <1>1
  <2> QED
    BY <2>1 DEF Spans
<1>8. ASSUME IsFiller(t, e, e + BLOCK), NEW i \in 1..BLOCK PROVE b.samples[i] = Silence
  <2>1. PICK k \in DOMAIN t.fills : t.fills[k].from <= e /\ e + BLOCK <= t.fills[k].to
    BY <1>8 DEF IsFiller
  <2>2. t.fills[k].from <= e + i - 1 /\ e + i - 1 < t.fills[k].to
    BY <1>1, <1>7, <2>1
  <2>3. IsFilled(t.fills, e + i - 1)
    BY <2>2 DEF IsFilled
  <2> QED
    BY <1>6, <2>3
<1>9. ASSUME \A i \in 1..BLOCK : b.samples[i] = Silence PROVE IsFiller(t, e, e + BLOCK)
  <2>1. 1 \in 1..BLOCK /\ e + 1 - 1 = e
    BY <1>1
  <2>2. IsFilled(t.fills, e)
    BY <1>6, <1>9, <2>1
  <2>3. PICK k \in DOMAIN t.fills : t.fills[k].from <= e /\ e < t.fills[k].to
    BY <2>2 DEF IsFilled
  <2>4. ASSUME t.fills[k].to < e + BLOCK PROVE FALSE
    <3> DEFINE i == t.fills[k].to - e + 1
    <3>1. i \in 1..BLOCK /\ e + i - 1 = t.fills[k].to
      BY <1>1, <1>7, <2>3, <2>4
    <3>2. IsFilled(t.fills, t.fills[k].to)
      BY <1>6, <1>9, <3>1
    <3>3. PICK j \in DOMAIN t.fills : t.fills[j].from <= t.fills[k].to /\ t.fills[k].to < t.fills[j].to
      BY <3>2 DEF IsFilled
    <3>4. j = k \/ j < k \/ k < j
      BY <1>7
    <3>5. j < k => t.fills[j].to < t.fills[k].from
      BY <1>1 DEF FillsApart
    <3>6. k < j => t.fills[k].to < t.fills[j].from
      BY <1>1 DEF FillsApart
    <3> QED
      BY <1>1, <1>7, <2>3, <3>3, <3>4, <3>5, <3>6
  <2> QED
    BY <1>1, <1>7, <2>3, <2>4 DEF IsFiller
<1> QED
  BY <1>3, <1>5, <1>8, <1>9 DEF b

(* What is left when a block is taken lies as it did.                       *)
LEMMA BlockTakenKeeps ==
    ASSUME NEW t, TimelineInv(t)
    PROVE  TimelineInv(BlockTaken(t)) /\ BlockTaken(t).dropped = t.dropped
<1> DEFINE n == Len(t.pending)
           e == t.emitted
           k == Len(t.fills)
           end == e + BLOCK
           left == {i \in DOMAIN t.fills : t.fills[i].to > end}
           fills == IF left = {} THEN <<>> ELSE SubSeq(t.fills, Min(left), k)
           rest == SubSeq(t.pending, BLOCK + 1, n)
           r == BlockTaken(t)
<1>1. /\ t \in Timelines /\ n \in Nat /\ e \in Nat /\ k \in Nat /\ BLOCK \in Nat /\ BLOCK > 0 /\ end \in Nat
      /\ t.pending \in Seq(Int) /\ t.fills \in Seq(Spans) /\ t.placed \in Nat /\ DOMAIN t.fills = 1..k
  BY AudioSourceAssumption DEF TimelineInv, Timelines
<1>2. CASE n < BLOCK
  BY <1>2 DEF BlockTaken
<1>3. CASE ~(n < BLOCK)
  <2>1. r = [t EXCEPT !.pending = rest, !.emitted = end, !.fills = fills]
    BY <1>3 DEF BlockTaken
  <2>2. /\ rest \in Seq(Int) /\ Len(rest) = n - BLOCK
        /\ \A i \in 1..(n - BLOCK) : rest[i] = t.pending[i + BLOCK]
    <3> DEFINE m == BLOCK + 1
    <3>1. m \in 1..(n + 1) /\ n - m + 1 = n - BLOCK /\ \A i \in Int : i + m - 1 = i + BLOCK
      BY <1>1, <1>3
    <3> HIDE DEF m
    <3>2. /\ SubSeq(t.pending, m, n) \in Seq(Int) /\ Len(SubSeq(t.pending, m, n)) = n - m + 1
          /\ \A i \in 1..(n - m + 1) : SubSeq(t.pending, m, n)[i] = t.pending[i + m - 1]
      BY <1>1, <3>1, TheRestOf
    <3> QED
      BY <1>1, <3>1, <3>2 DEF m
  <2> HIDE DEF rest
  <2>20. \A i \in 1..k : t.fills[i].to \in Nat
    <3>1. \A i \in 1..k : t.fills[i] \in Spans
      BY <1>1
    <3> QED
      BY <3>1 DEF Spans
  <2>3. PICK m \in 1..(k + 1) :
            /\ fills \in Seq(Spans) /\ DOMAIN fills = 1..(k - m + 1)
            /\ \A i \in 1..(k - m + 1) : fills[i] = t.fills[i + m - 1]
            /\ \A i \in 1..k : i < m => t.fills[i].to <= end
    <3>1. \A i \in 1..k : t.fills[i].to \in Nat
      BY <2>20
    <3>2. CASE left = {}
      <4>1. fills = <<>> /\ <<>> \in Seq(Spans) /\ DOMAIN <<>> = 1..0
        BY <3>2
      <4>2. \A i \in 1..k : t.fills[i].to <= end
        <5>1. \A i \in 1..k : ~(t.fills[i].to > end)
          BY <1>1, <3>2
        <5> HIDE DEF end, k
        <5> QED
          BY <1>1, <3>1, <5>1
      <4>3. k + 1 \in 1..(k + 1) /\ k - (k + 1) + 1 = 0
        BY <1>1
      <4> HIDE DEF fills, left, end
      <4>4. DOMAIN fills = 1..(k - (k + 1) + 1) /\ \A i \in 1..(k - (k + 1) + 1) : fills[i] = t.fills[i + (k + 1) - 1]
        BY <4>1, <4>3
      <4> QED
        BY <4>1, <4>2, <4>3, <4>4
    <3>3. CASE left # {}
      <4> DEFINE m == Min(left)
      <4>1. left \in SUBSET Nat /\ left \subseteq 1..k
        BY <1>1
      <4>2. m \in left /\ \A i \in left : m <= i
        BY <3>3, <4>1, TheLeastIsThere
      <4>3. fills = SubSeq(t.fills, m, k)
        BY <3>3
      <4>4. \A i \in 1..k : i \notin left => t.fills[i].to <= end
        BY <1>1, <3>1
      <4> HIDE DEF fills, left, m, end
      <4>5. m \in 1..k /\ m \in 1..(k + 1) /\ \A i \in 1..k : i < m => i \notin left
        BY <1>1, <4>1, <4>2
      <4> HIDE DEF k
      <4>6. /\ fills \in Seq(Spans) /\ DOMAIN fills = 1..(k - m + 1)
            /\ \A i \in 1..(k - m + 1) : fills[i] = t.fills[i + m - 1]
        BY <1>1, <4>3, <4>5, TheRestOf DEF k
      <4> QED
        BY <4>4, <4>5, <4>6
    <3> QED
      BY <3>2, <3>3
  <2> HIDE DEF fills, left, end
  <2>4. /\ r \in Timelines /\ r.pending = rest /\ r.emitted = end /\ r.fills = fills /\ r.placed = t.placed
        /\ r.dropped = t.dropped
    BY <1>1, <2>1, <2>2, <2>3 DEF Timelines
  <2> HIDE DEF r
  <2>5. SUFFICES ASSUME ~t.dropped PROVE OnTheClock(r) /\ FillsApart(r)
    BY <2>4 DEF TimelineInv, r
  <2>6. OnTheClock(t) /\ FillsApart(t)
    BY <2>5 DEF TimelineInv
  <2>7. r.placed = r.emitted + Len(r.pending)
    BY <1>1, <2>2, <2>4, <2>6 DEF OnTheClock, end
  <2>8. \A j \in 1..(k - m + 1) : j + m - 1 \in 1..k /\ j \in Int
    BY <1>1, <2>3
  <2>9. ASSUME NEW at \in Nat, at >= end PROVE IsFilled(t.fills, at) <=> IsFilled(fills, at)
    <3>1. ASSUME IsFilled(t.fills, at) PROVE IsFilled(fills, at)
      <4>1. PICK j \in 1..k : t.fills[j].from <= at /\ at < t.fills[j].to
        BY <1>1, <3>1 DEF IsFilled
      <4>2. t.fills[j].to \in Nat
        BY <2>20
      <4>3. ~(j < m)
        BY <1>1, <2>3, <2>9, <4>1, <4>2
      <4>4. j - m + 1 \in 1..(k - m + 1) /\ (j - m + 1) + m - 1 = j
        BY <1>1, <2>3, <4>3
      <4>5. fills[j - m + 1] = t.fills[j]
        BY <2>3, <4>4
      <4> QED
        BY <2>3, <4>1, <4>4, <4>5 DEF IsFilled
    <3>2. ASSUME IsFilled(fills, at) PROVE IsFilled(t.fills, at)
      <4>1. PICK j \in 1..(k - m + 1) : fills[j].from <= at /\ at < fills[j].to
        BY <2>3, <3>2 DEF IsFilled
      <4> QED
        BY <1>1, <2>3, <2>8, <4>1 DEF IsFilled
    <3> QED
      BY <3>1, <3>2
  <2>10. ASSUME NEW i \in 1..(n - BLOCK)
         PROVE  LiesWhereItPlayed(r.pending[i], r.emitted + i - 1, r.fills)
    <3> DEFINE at == e + (i + BLOCK) - 1
    <3>1. i + BLOCK \in 1..n /\ r.emitted + i - 1 = at /\ at \in Nat /\ at >= end
      <4>1. i + BLOCK \in 1..n /\ i \in Nat
        BY <1>1, <1>3
      <4>2. r.emitted = e + BLOCK /\ end = e + BLOCK
        BY <2>4 DEF end
      <4>3. e \in Nat /\ BLOCK \in Nat
        BY <1>1
      <4> HIDE DEF e, n, end
      <4> QED
        BY ONLY <4>1, <4>2, <4>3
    <3>2. LiesWhereItPlayed(t.pending[i + BLOCK], at, t.fills)
      BY <2>6, <3>1 DEF OnTheClock
    <3> HIDE DEF at
    <3>3. IsFilled(t.fills, at) <=> IsFilled(fills, at)
      BY <2>9, <3>1
    <3>4. r.pending[i] = t.pending[i + BLOCK]
      BY <2>2, <2>4
    <3> QED
      BY <2>4, <3>1, <3>2, <3>3, <3>4 DEF LiesWhereItPlayed
  <2>11. OnTheClock(r)
    BY <2>2, <2>4, <2>7, <2>10 DEF OnTheClock
  <2>12. FillsApart(r)
    <3>1. \A j \in 1..(k - m + 1) : fills[j].from < fills[j].to /\ fills[j].to <= t.placed
      BY <1>1, <2>3, <2>6, <2>8 DEF FillsApart
    <3>2. ASSUME NEW i \in 1..(k - m + 1), NEW j \in 1..(k - m + 1), i < j PROVE fills[i].to < fills[j].from
      <4>1. i + m - 1 < j + m - 1
        BY <2>3, <2>8, <3>2
      <4> QED
        BY <1>1, <2>3, <2>6, <2>8, <4>1 DEF FillsApart
    <3> QED
      BY <2>3, <2>4, <3>1, <3>2 DEF FillsApart
  <2> QED
    BY <2>11, <2>12
<1> QED
  BY <1>1, <1>2, <1>3

(* What a source has in hand: packets whose samples have their times, and   *)
(* the time up to which it has been heard.                                  *)
InHand(s) == s \in Sources /\ s.queue \in Seq(TimedPackets) /\ s.heard \in Nat

(* What holds of the sound between any two steps.                           *)
SoundInv == TimelineInv(timeline) /\ InHand(source) /\ SoundSitsOnTheClock

(* An empty queue has nothing without its time.                             *)
LEMMA NothingIsTimed == <<>> \in Seq(TimedPackets)
OBVIOUS

(* Closing, looking and opening leave what is in hand, or drop it.          *)
LEMMA ClosingKeepsInHand == ASSUME NEW s, InHand(s) PROVE InHand(Closed(s))
<1>1. Closed(s) \in Sources
  BY ClosedIsClosed DEF InHand
<1>2. Closed(s).queue = <<>> /\ Closed(s).heard = s.heard
  BY DEF InHand, Closed, Sources
<1> QED
  BY <1>1, <1>2, NothingIsTimed DEF InHand

(* Opening the wanted source empties the queue, or leaves it when none      *)
(* opens.                                                                   *)
LEMMA OpeningKeepsInHand ==
    ASSUME NEW s, InHand(s), s.stream = Nothing, SourceInv, NEW a \in BOOLEAN, NEW o \in BOOLEAN
    PROVE  InHand(Open(s, a, o))
<1> DEFINE refused == [s EXCEPT !.refused = IF Target(s) # Nothing THEN Target(s) ELSE @]
<1>1. Open(s, a, o) \in Sources
  BY OpensTheWanted DEF InHand
<1>2. now \in Nat
  BY DEF SourceInv
<1>3. ASSUME NEW key, NEW r \in Sources PROVE Opened(r, key).queue = <<>> /\ Opened(r, key).heard = now
  BY DEF Opened, Sources
<1>4. /\ refused.queue = s.queue /\ refused.heard = s.heard
      /\ [refused EXCEPT !.retryAt = now + RETRY_INTERVAL].queue = s.queue
      /\ [refused EXCEPT !.retryAt = now + RETRY_INTERVAL].heard = s.heard
  BY DEF InHand, Sources
<1>5. \A key : Opened(refused, key).queue = <<>> /\ Opened(refused, key).heard = now
  BY DEF Opened, InHand, Sources
<1>6. \/ Open(s, a, o).queue = <<>> /\ Open(s, a, o).heard = now
      \/ Open(s, a, o).queue = s.queue /\ Open(s, a, o).heard = s.heard
  <2> HIDE DEF refused
  <2>1. Open(s, a, o) = IF Target(s) # Nothing /\ a THEN Opened(s, Target(s))
                        ELSE IF world.device # Nothing /\ o THEN Opened(refused, world.device)
                        ELSE [refused EXCEPT !.retryAt = now + RETRY_INTERVAL]
    BY DEF Open, refused
  <2> QED
    BY <1>3, <1>4, <1>5, <2>1 DEF InHand
<1> QED
  BY <1>1, <1>2, <1>6, NothingIsTimed DEF InHand

(* A look at what is wanted leaves the source or closes it.                 *)
LEMMA LookingKeepsInHand ==
    ASSUME NEW s, InHand(s), SourceInv, NEW known \in BOOLEAN
    PROVE  InHand(Switched(s, known))
<1> DEFINE looked == [s EXCEPT !.nextCheck = now + SWITCH_CHECK_INTERVAL]
<1>1. now + SWITCH_CHECK_INTERVAL \in Int
  BY SourceFacts
<1>2. looked \in Sources /\ looked.queue = s.queue /\ looked.heard = s.heard
  BY <1>1 DEF InHand, Sources
<1>3. InHand(looked)
  BY <1>2 DEF InHand
<1>4. Switched(s, known) \in {s, looked, Closed(looked)}
  BY DEF Switched
<1> HIDE DEF looked
<1> QED
  BY <1>3, <1>4, ClosingKeepsInHand

(* What a block is after a read, and the timeline.                          *)
LEMMA AReadIsTrue ==
    ASSUME NEW t, TimelineInv(t), block' = NextBlock(t), timeline' = BlockTaken(t)
    PROVE  TimelineInv(timeline)' /\ SoundSitsOnTheClock'
<1>1. TimelineInv(timeline') /\ timeline'.dropped = t.dropped
  BY BlockTakenKeeps
<1>2. SoundSitsOnTheClock'
  <2> SUFFICES ASSUME block' # NoBlock, ~timeline'.dropped
               PROVE  /\ \A i \in 1..BLOCK : block'.samples[i] >= 0 => block'.start + i - 1 - block'.samples[i] \in -BLOCK..BLOCK
                      /\ block'.filler <=> \A i \in 1..BLOCK : block'.samples[i] = Silence
    BY DEF SoundSitsOnTheClock
  <2>1. NextBlock(t) # NoBlock /\ ~t.dropped
    BY <1>1
  <2>2. LET b == NextBlock(t)
        IN  /\ \A i \in 1..BLOCK : b.samples[i] >= 0 => b.start + i - 1 - b.samples[i] \in -BLOCK..BLOCK
            /\ b.filler <=> \A i \in 1..BLOCK : b.samples[i] = Silence
    BY <2>1, TheBlockLies
  <2> QED
    BY <2>2
<1>3. TimelineInv(timeline)'
  BY <1>1 DEF TimelineInv, OnTheClock, FillsApart, LiesWhereItPlayed, IsFilled
<1> QED
  BY <1>2, <1>3

(* What a poll leaves in the queue is timed as before.                      *)
LEMMA WhatIsLeftIsTimed ==
    ASSUME NEW q \in Seq(TimedPackets), NEW n \in Nat
    PROVE  Undrained(q) \in Seq(TimedPackets) /\ Unpulled(q, n) \in Seq(TimedPackets)
<1>1. ASSUME NEW k \in Nat PROVE Unpulled(q, k) \in Seq(TimedPackets)
  <2>1. k + 1 >= 1 /\ k + 1 \in Int /\ Len(q) \in Nat
    OBVIOUS
  <2> QED
    BY <2>1 DEF Unpulled
<1>2. MAX_PACKETS \in Nat
  BY AudioSourceAssumption
<1> QED
  BY <1>1, <1>2 DEF Undrained

(* A read of the game's sound: drained and padded while open, closed when   *)
(* lost, looked at and reopened, in that order.                             *)
LEMMA GameReadsKeepSound ==
    ASSUME SourceInv, SoundInv, NEW known \in BOOLEAN, NEW a \in BOOLEAN, NEW o \in BOOLEAN, ReadsGameAudio(known, a, o)
    PROVE  SoundInv'
<1>0. PICK gone \in {source.lost, source.lost /\ RanDry(source.queue)}, n \in BeforeAFault(source.queue) :
        LET drained == IF gone THEN Pulled(timeline, source.queue, n) ELSE Drain(timeline, source.queue)
            polled == IF ~gone /\ source.stream # Nothing /\ RanDry(source.queue)
                      THEN FillTo(drained, now) ELSE drained
            kept == IF gone THEN [Closed(source) EXCEPT !.retryAt = now]
                    ELSE [source EXCEPT !.queue = Undrained(@)]
            s == Switched(kept, known)
            filled == IF s.stream = Nothing THEN FillTo(polled, now) ELSE polled
        IN  /\ source' = Reopened(s, a, o)
            /\ block' = NextBlock(filled) /\ timeline' = BlockTaken(filled)
  BY DEF ReadsGameAudio
<1> DEFINE drained == IF gone THEN Pulled(timeline, source.queue, n) ELSE Drain(timeline, source.queue)
           polled == IF ~gone /\ source.stream # Nothing /\ RanDry(source.queue)
                     THEN FillTo(drained, now) ELSE drained
           kept == IF gone THEN [Closed(source) EXCEPT !.retryAt = now] ELSE [source EXCEPT !.queue = Undrained(@)]
           s == Switched(kept, known)
           filled == IF s.stream = Nothing THEN FillTo(polled, now) ELSE polled
<1>1. /\ source' = Reopened(s, a, o) /\ block' = NextBlock(filled) /\ timeline' = BlockTaken(filled)
  BY <1>0
<1>2. /\ TimelineInv(timeline) /\ InHand(source) /\ now \in Nat /\ source \in Sources
      /\ source.queue \in Seq(TimedPackets)
  BY DEF SoundInv, InHand, SourceInv
<1>3. TimelineInv(drained)
  <2>1. n \in Nat /\ n <= Len(source.queue)
    BY BeforeAFaultIsLess
  <2> QED
    BY <1>2, <2>1, DrainKeeps, PulledKeeps
<1> HIDE DEF drained
<1>4. TimelineInv(polled)
  BY <1>2, <1>3, FillToKeeps
<1> HIDE DEF polled
<1>5. InHand(kept)
  <2>1. CASE ~gone
    <3>1. Undrained(source.queue) \in Seq(TimedPackets) /\ Undrained(source.queue) \in Seq(Packets)
      BY <1>2, WhatIsLeftIsTimed, UndrainedIsLeft DEF Sources
    <3>2. kept = [source EXCEPT !.queue = Undrained(source.queue)]
      BY <2>1
    <3> HIDE DEF kept
    <3>3. kept \in Sources /\ kept.queue = Undrained(source.queue) /\ kept.heard = source.heard
      BY <1>2, <3>1, <3>2 DEF Sources
    <3> QED
      BY <1>2, <3>1, <3>3 DEF InHand
  <2>2. CASE gone
    <3> DEFINE c == Closed(source)
    <3>1. InHand(c)
      BY <1>2, ClosingKeepsInHand
    <3>2. kept = [c EXCEPT !.retryAt = now] /\ now \in Int
      BY <1>2, <2>2
    <3> HIDE DEF kept, c
    <3>3. kept \in Sources /\ kept.queue = c.queue /\ kept.heard = c.heard
      BY <3>1, <3>2 DEF InHand, Sources
    <3> QED
      BY <3>1, <3>3 DEF InHand
  <2> QED
    BY <2>1, <2>2
<1> HIDE DEF kept
<1>6. InHand(s)
  BY <1>5, LookingKeepsInHand
<1> HIDE DEF s
<1>7. InHand(source')
  BY <1>1, <1>6, OpeningKeepsInHand DEF Reopened
<1>8. TimelineInv(filled)
  BY <1>2, <1>4, FillToKeeps
<1> HIDE DEF filled
<1>9. TimelineInv(timeline)' /\ SoundSitsOnTheClock'
  BY <1>1, <1>8, AReadIsTrue
<1>10. InHand(source)'
  BY <1>7 DEF InHand
<1> QED
  BY <1>9, <1>10 DEF SoundInv

(* A read of the microphone: drained, and padded when the queue ran dry.    *)
LEMMA MicrophoneReadsKeepSound ==
    ASSUME SourceInv, SoundInv, ReadsMicrophone
    PROVE  SoundInv'
<1> DEFINE drained == Drain(timeline, source.queue)
           filled == IF RanDry(source.queue) THEN FillTo(drained, now) ELSE drained
           heard == [source EXCEPT !.queue = Undrained(@),
                                   !.packetAt = IF source.queue = <<>> THEN @ ELSE now]
           asks == NextBlock(filled) = NoBlock /\ StallNoticed(heard)
<1>1. /\ block' = NextBlock(filled) /\ timeline' = BlockTaken(filled)
      /\ source' = IF asks THEN [heard EXCEPT !.checkedAt = now] ELSE heard
  BY DEF ReadsMicrophone
<1>2. /\ TimelineInv(timeline) /\ InHand(source) /\ now \in Nat /\ source \in Sources
      /\ source.queue \in Seq(TimedPackets) /\ source.packetAt \in Int
  BY DEF SoundInv, InHand, SourceInv, Sources
<1>3. TimelineInv(drained)
  BY <1>2, DrainKeeps
<1> HIDE DEF drained
<1>4. TimelineInv(filled)
  BY <1>2, <1>3, FillToKeeps
<1> HIDE DEF filled, asks
<1>5. heard \in Sources /\ heard.queue = Undrained(source.queue) /\ heard.heard = source.heard
  <2> DEFINE p == IF source.queue = <<>> THEN source.packetAt ELSE now
  <2>1. /\ Undrained(source.queue) \in Seq(Packets) /\ p \in Int
        /\ heard = [source EXCEPT !.queue = Undrained(source.queue), !.packetAt = p]
    BY <1>2, UndrainedIsLeft DEF Sources
  <2> HIDE DEF heard, p
  <2> QED
    BY ONLY <1>2, <2>1 DEF Sources
<1>6. Undrained(source.queue) \in Seq(TimedPackets)
  BY <1>2, WhatIsLeftIsTimed
<1> HIDE DEF heard
<1>7. [heard EXCEPT !.checkedAt = now] \in Sources /\ [heard EXCEPT !.checkedAt = now].queue = heard.queue
      /\ [heard EXCEPT !.checkedAt = now].heard = heard.heard
  <2>1. now \in Int
    BY <1>2
  <2> QED
    BY ONLY <1>5, <2>1 DEF Sources
<1>8. InHand(source')
  BY <1>1, <1>2, <1>5, <1>6, <1>7 DEF InHand
<1>9. TimelineInv(timeline)' /\ SoundSitsOnTheClock'
  BY <1>1, <1>4, AReadIsTrue
<1>10. InHand(source)'
  BY <1>8 DEF InHand
<1> QED
  BY <1>9, <1>10 DEF SoundInv

(* A delivered packet has the times its frames played at, or none.          *)
LEMMA DeliveriesAreTimed ==
    ASSUME SourceInv, SoundInv, NEW n \in 1..BLOCK, NEW stamp \in {"good", "none", "foreign"},
           NEW d \in BOOLEAN, Delivers(n, stamp, d)
    PROVE  InHand(source')
<1> DEFINE first == now - n
           samples == [i \in 1..n |-> IF stamp = "good" THEN first + i - 1 ELSE Untimed]
           at == CASE stamp = "good" -> first [] stamp = "none" -> NoTime
                   [] stamp = "foreign" -> now + MAX_FILL + Horizon
           p == [at |-> at, samples |-> samples, discontinuity |-> d]
<1>1. source' = [source EXCEPT !.heard = now, !.queue = Append(@, p)] /\ first >= source.heard
  BY DEF Delivers
<1>2. /\ InHand(source) /\ source \in Sources /\ now \in Nat /\ n \in Nat /\ n > 0 /\ source.heard \in Nat
      /\ MAX_FILL \in Nat /\ Horizon \in Nat
  BY AudioSourceAssumption DEF SoundInv, InHand, SourceInv
<1>3. first \in Nat
  BY <1>1, <1>2
<1> HIDE DEF first
<1>4. at \in Int /\ (stamp = "good" => at = first)
  BY <1>2, <1>3 DEF NoTime
<1> HIDE DEF at
<1>5. samples \in Seq(Int) /\ DOMAIN samples = 1..n
  BY <1>2, <1>3 DEF Untimed
<1>6. \A i \in 1..n : samples[i] = Untimed \/ (at >= 0 /\ samples[i] = at + i - 1)
  <2>1. CASE stamp = "good"
    <3>1. \A i \in 1..n : samples[i] = first + i - 1
      BY <2>1
    <3> HIDE DEF samples
    <3> QED
      BY <1>3, <1>4, <2>1, <3>1
  <2>2. CASE stamp # "good"
    <3>1. \A i \in 1..n : samples[i] = Untimed
      BY <2>2
    <3> QED
      BY ONLY <3>1
  <2> QED
    BY <2>1, <2>2
<1> HIDE DEF samples
<1>7. p.at = at /\ p.samples = samples /\ p \in Packets
  BY <1>4, <1>5 DEF Packets
<1> HIDE DEF p
<1>8. p \in TimedPackets
  BY <1>5, <1>6, <1>7 DEF TimedPackets
<1>9. Append(source.queue, p) \in Seq(TimedPackets) /\ Append(source.queue, p) \in Seq(Packets)
  BY <1>2, <1>7, <1>8 DEF InHand, Sources
<1>10. source' \in Sources /\ source'.queue = Append(source.queue, p) /\ source'.heard = now
  <2> DEFINE q == Append(source.queue, p)
  <2>1. source' = [source EXCEPT !.heard = now, !.queue = q] /\ q \in Seq(Packets) /\ now \in Int
    BY <1>1, <1>2, <1>9
  <2> HIDE DEF q
  <2>2. source' \in Sources /\ source'.queue = q /\ source'.heard = now
    BY ONLY <2>1, <1>2 DEF Sources
  <2> QED
    BY <2>2 DEF q
<1> QED
  BY <1>2, <1>9, <1>10 DEF InHand

(* Every step keeps it.                                                     *)
LEMMA SoundStep ==
    ASSUME SourceInv, SoundInv, [AudioNext]_audioVars
    PROVE  SoundInv'
<1>1. TimelineInv(timeline) /\ InHand(source) /\ SoundSitsOnTheClock
  BY DEF SoundInv
<1>2. ASSUME InHand(source'), timeline' = timeline, block' \in {block, NoBlock} PROVE SoundInv'
  <2>1. InHand(source)'
    BY <1>2 DEF InHand
  <2>2. TimelineInv(timeline)'
    BY <1>1, <1>2 DEF TimelineInv, OnTheClock, FillsApart, LiesWhereItPlayed, IsFilled
  <2>3. SoundSitsOnTheClock'
    BY <1>1, <1>2 DEF SoundSitsOnTheClock
  <2> QED
    BY <2>1, <2>2, <2>3 DEF SoundInv
<1>3. ASSUME NEW x \in Sources, x.queue = source.queue, x.heard = source.heard PROVE InHand(x)
  BY <1>1, <1>3 DEF InHand
<1>4. source \in Sources /\ now \in Nat
  BY DEF SourceInv
<1>5. ASSUME NEW a \in BOOLEAN, NEW o \in BOOLEAN, StartsGameAudio(a, o) PROVE SoundInv'
  <2>1. source' = Open(source, a, o) /\ timeline' = timeline /\ block' = block /\ source.stream = Nothing
    BY <1>5 DEF StartsGameAudio, SourceInv
  <2> QED
    BY <1>1, <1>2, <2>1, OpeningKeepsInHand
<1>6. ASSUME NEW o \in BOOLEAN, StartsMicrophone(o) PROVE SoundInv'
  <2> DEFINE y == [source EXCEPT !.stream = "microphone", !.packetAt = now, !.checkedAt = now]
  <2>0. now \in Int
    BY <1>4
  <2>1. y \in Sources /\ y.queue = source.queue /\ y.heard = source.heard
    BY ONLY <1>4, <2>0 DEF Sources
  <2>2. source' \in {y, source} /\ timeline' = timeline /\ block' = block
    BY <1>6 DEF StartsMicrophone
  <2> HIDE DEF y
  <2> QED
    BY <1>1, <1>2, <1>3, <2>1, <2>2
<1>7. CASE (\E by \in {1, Suspend} : ClockMoves(by)) \/ (\E g \in Games \cup {Nothing} : GameChanges(g))
  BY <1>1, <1>2, <1>7 DEF ClockMoves, GameChanges
<1>11. CASE ReadFails
  <2>1. PICK n \in BeforeAFault(source.queue) :
           /\ timeline' = Pulled(timeline, source.queue, n)
           /\ source' = [source EXCEPT !.queue = Unpulled(@, n)]
    BY <1>11 DEF ReadFails
  <2>2. n \in Nat /\ n <= Len(source.queue) /\ source.queue \in Seq(TimedPackets)
    BY <1>1, BeforeAFaultIsLess DEF InHand
  <2>3. TimelineInv(timeline') /\ timeline'.dropped = timeline.dropped /\ block' = block
    BY <1>1, <1>11, <2>1, <2>2, PulledKeeps DEF ReadFails
  <2>4. Unpulled(source.queue, n) \in Seq(TimedPackets) /\ Unpulled(source.queue, n) \in Seq(Packets)
    BY <1>4, <2>2, WhatIsLeftIsTimed, UndrainedIsLeft DEF Sources
  <2>5. source' = [source EXCEPT !.queue = Unpulled(source.queue, n)]
    BY <2>1
  <2>6. source' \in Sources /\ source'.queue = Unpulled(source.queue, n) /\ source'.heard = source.heard
    BY ONLY <1>4, <2>4, <2>5 DEF Sources
  <2>7. InHand(source)'
    BY <1>1, <2>4, <2>6 DEF InHand
  <2>8. SoundSitsOnTheClock'
    BY <1>1, <2>3 DEF SoundSitsOnTheClock
  <2>9. TimelineInv(timeline)'
    BY <2>3 DEF TimelineInv, OnTheClock, FillsApart, LiesWhereItPlayed, IsFilled
  <2> QED
    BY <2>7, <2>8, <2>9 DEF SoundInv
<1>8. CASE MicrophoneGoes \/ \E d \in Devices \cup {Nothing} : DeviceChanges(d)
  <2>1. PICK lost \in BOOLEAN : source' = [source EXCEPT !.lost = lost]
    <3>1. CASE MicrophoneGoes
      BY <3>1 DEF MicrophoneGoes
    <3>2. CASE \E d \in Devices \cup {Nothing} : DeviceChanges(d)
      <4>1. PICK l \in {FALSE, source.stream = world.device /\ source.stream # Nothing} : source' = [source EXCEPT !.lost = @ \/ l]
        BY <3>2 DEF DeviceChanges
      <4>2. (source.lost \/ l) \in BOOLEAN
        BY <1>4 DEF Sources
      <4> QED
        BY <4>1, <4>2
    <3> QED
      BY <1>8, <3>1, <3>2
  <2>2. timeline' = timeline /\ block' = NoBlock
    BY <1>8 DEF MicrophoneGoes, DeviceChanges
  <2>3. source' \in Sources /\ source'.queue = source.queue /\ source'.heard = source.heard
    BY <1>4, <2>1 DEF Sources
  <2> QED
    BY <1>2, <1>3, <2>2, <2>3
<1>9. ASSUME NEW n \in 1..BLOCK, NEW s \in {"good", "none", "foreign"}, NEW d \in {FALSE, s = "good"}, Delivers(n, s, d)
      PROVE  SoundInv'
  <2>1. d \in BOOLEAN
    OBVIOUS
  <2>2. timeline' = timeline /\ block' = NoBlock
    BY <1>9 DEF Delivers
  <2> QED
    BY <1>2, <1>9, <2>1, <2>2, DeliveriesAreTimed
<1>10. CASE UNCHANGED audioVars
  BY <1>1, <1>2, <1>10 DEF audioVars
<1> QED
  BY <1>5, <1>6, <1>7, <1>8, <1>9, <1>10, <1>11, GameReadsKeepSound, MicrophoneReadsKeepSound DEF AudioNext

(* A track starts with nothing to be wrong about.                           *)
LEMMA SoundStarts == AudioInit => SoundInv
<1> SUFFICES ASSUME AudioInit PROVE SoundInv
  OBVIOUS
<1>1. timeline = EmptyTimeline /\ block = NoBlock /\ source.queue = <<>> /\ source.heard = 0
  BY DEF AudioInit
<1>2. source \in Sources
  BY SourceStarts DEF SourceInv
<1>3. TimelineInv(EmptyTimeline)
  <2> DEFINE t == EmptyTimeline
  <2>1. /\ t.placed = 0 /\ t.emitted = 0 /\ t.pending = <<>> /\ t.fills = <<>> /\ t.dropped = FALSE
        /\ t \in Timelines
    <3>1. <<>> \in Seq(Int) /\ <<>> \in Seq(Spans)
      OBVIOUS
    <3> QED
      BY <3>1 DEF EmptyTimeline, Timelines
  <2>2. Len(<<>>) = 0 /\ DOMAIN <<>> = {} /\ 1..0 = {}
    OBVIOUS
  <2> HIDE DEF t
  <2> QED
    BY <2>1, <2>2 DEF TimelineInv, OnTheClock, FillsApart, t
<1> QED
  BY <1>1, <1>2, <1>3, NothingIsTimed DEF SoundInv, InHand, SoundSitsOnTheClock

-----------------------------------------------------------------------------
(* All of it, whichever part moves. *)

IInv == WorkerInv /\ DeviceInv /\ SourceInv /\ SoundInv

LEMMA EverythingStarts == MCInit => IInv
BY WorkersStart, DeviceStarts, SourceStarts, SoundStarts DEF MCInit, IInv

LEMMA EverythingStays == IInv /\ [MCNext]_mcVars => IInv'
<1> SUFFICES ASSUME IInv, [MCNext]_mcVars PROVE IInv'
  OBVIOUS
<1>1. [AudioNext]_audioVars /\ [WorkerNext]_workerVars /\ [DeviceNext]_deviceVars
  BY DEF MCNext, mcVars
<1> QED
  BY <1>1, WorkersStep, DeviceStep, SourceStep, SoundStep DEF IInv

LEMMA EverythingHolds == MCSpec => []IInv
BY EverythingStarts, EverythingStays, PTL DEF MCSpec

(* A recording runs only when every track has been heard and has stopped    *)
(* only when every thread has ended and let go of its device; what a        *)
(* backend takes from Windows is given back once, on its own thread; and a  *)
(* converter is suspected when it has earned it, whatever call failed or    *)
(* never answered (open_audio_source, release_com, ConvertedSilenceWatch).  *)
THEOREM BackendsAreKeptAlways == MCSpec => []BackendsAreKept
<1>1. IInv => BackendsAreKept
  BY WorkersKeepTheirWord, DevicesAreGivenBack DEF IInv, BackendsAreKept
<1> QED
  BY <1>1, EverythingHolds, PTL

(* Once the wanted source could have been opened for a while, a read leaves *)
(* it open: a closed one after a retry interval, another one than the       *)
(* wanted after a check interval.  A microphone that is gone is reported by *)
(* the first read that finds nothing a stall later.  Both hold whatever the *)
(* clock does between two reads (audio_recovery.rs: poll, check_switch,     *)
(* reopen; wasapi_mic.rs: next_buffer).                                     *)
THEOREM ChangesAreFollowed == MCSpec => ChangesAreNoticed
<1>1. IInv /\ [MCNext]_mcVars =>
         [(\E k, a, o \in BOOLEAN : ReadsGameAudio(k, a, o)) /\ now - world'.settled >= Patience
             => source'.stream = Wanted(source')]_audioVars
  BY ReadFollows DEF IInv
<1>2. IInv /\ [MCNext]_mcVars =>
         [ReadsMicrophone /\ ~world.mic /\ block' = NoBlock
             /\ now - Greater(world.settled, source'.packetAt) >= DEVICE_STALL
             => soundHealth' = "failed"]_audioVars
  BY MicrophoneIsAsked DEF IInv
<1>3. MCSpec => TheWantedSourceIsOpen
  BY <1>1, EverythingHolds, PTL DEF MCSpec, TheWantedSourceIsOpen
<1>4. MCSpec => AGoneMicrophoneIsNoticed
  BY <1>2, EverythingHolds, PTL DEF MCSpec, AGoneMicrophoneIsNoticed
<1> QED
  BY <1>3, <1>4 DEF ChangesAreNoticed

(* A sample is handed on within a block of the time it played at, and a     *)
(* block says it is padding exactly when the device delivered nothing of    *)
(* it, for any packets, any block and tolerance, any gap, and whenever the  *)
(* stream behind them is lost, switched or reopened (audio_timeline.rs:     *)
(* place, fill_to, next_block).                                             *)
THEOREM SoundAlwaysSitsOnTheClock == MCSpec => []SoundSitsOnTheClock
<1>1. IInv => SoundSitsOnTheClock
  BY DEF IInv, SoundInv
<1> QED
  BY <1>1, EverythingHolds, PTL
=============================================================================
