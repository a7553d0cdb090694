------------------------ MODULE GameSupervisorProofs ------------------------
(* What GameSupervisor promises, proved for every watch list, number of     *)
(* confirmations, and number of games started and of faults.                *)
EXTENDS GameSupervisor, FiniteSetTheorems, TLAPS

(* The type invariant in two parts: the provers treat a Boolean variable    *)
(* apart from the other ones.                                              *)
Flags ==
    /\ alive \in [Games -> BOOLEAN]
    /\ commands \in BOOLEAN /\ running \in BOOLEAN
    /\ error \in BOOLEAN /\ stopping \in BOOLEAN
Tracked ==
    /\ believed \in [Games -> {Running, Stopped, Unknown}]
    /\ candidate \in [Games -> {Running, Stopped}]
    /\ runs \in [Games -> 0..Confirmations]
    /\ queue \in Seq(Changes)
Placed ==
    /\ watcher \in {"polling", "told", "down"}
    /\ sup \in {"waiting", "beginning", "spawning", "publishing", "clearing",
                "joining", "leaving", "joining last", "dropping", "gone"}
    /\ subject \in Games \cup {NoGame}
    /\ recording \in Games \cup {NoGame}
    /\ store \in {"prepared", "beginning", "engine", "handle", "lost"}
    /\ engine \in {"none", "running", "closing", "ended"}
    /\ game \in {NameOf(g) : g \in Games} \cup {NoGame}
Counted == turns \in 0..MaxTurns /\ faults \in 0..MaxFaults
Typed == Tracked /\ Placed /\ Counted

(* A streak that is long enough has ended in the belief it was heading for. *)
StreaksEnd ==
    \A g \in Games :
        believed[g] # Unknown /\ candidate[g] # believed[g] => runs[g] < Confirmations

(* Every started game in the channel is still believed running, or its stop *)
(* is behind it: the supervisor never begins a recording nobody will end.   *)
StopFollows(i) ==
    \E j \in DOMAIN queue : j > i /\ queue[j] = [change |-> Stopped, game |-> queue[i].game]
NewsIsTrue ==
    \A i \in DOMAIN queue :
        queue[i].change = Running => believed[queue[i].game] = Running \/ StopFollows(i)

(* The supervisor has one game in hand at most: the one it is acting on, or *)
(* the one whose recording it holds between two changes.                    *)
Hand ==
    /\ sup \in {"waiting", "leaving", "joining last", "dropping", "gone"} <=> subject = NoGame
    /\ sup \notin {"waiting", "leaving"} => recording = NoGame

(* A recording's thread is joined before the next one is made.              *)
Thread ==
    /\ sup \in {"beginning", "spawning", "dropping", "gone"} => engine = "none"
    /\ sup \in {"publishing", "clearing", "joining"} => engine # "none"
    /\ sup \in {"waiting", "leaving"} => (engine = "none" <=> recording = NoGame)

(* The store is with the thread, or with whoever will make the next one.    *)
StoreIsSomewhere ==
    /\ engine \in {"running", "closing"} => store = "engine"
    /\ engine = "ended" => store \in {"handle", "lost"}
    /\ engine = "none" =>
        IF sup \in {"beginning", "spawning"} THEN store = "beginning"
                                             ELSE store \in {"prepared", "lost"}

StatusFollows ==
    /\ running => engine \in {"running", "closing"}
    /\ commands => recording # NoGame \/ sup = "clearing"
NameFollows ==
    /\ sup \in {"spawning", "publishing"} => game = NameOf(subject)
    /\ recording # NoGame => game = NameOf(recording)
    /\ sup \in {"clearing", "joining", "dropping", "gone"} => game = NoGame
WatcherIsTold ==
    /\ sup = "dropping" => watcher # "polling"
    /\ sup = "gone" => watcher = "down"

Books == Hand /\ Thread /\ StoreIsSomewhere /\ NameFollows /\ WatcherIsTold

IInv ==
    /\ Typed /\ Flags
    /\ StreaksEnd /\ NewsIsTrue /\ RecordingHasItsGame
    /\ Books /\ StatusFollows

-----------------------------------------------------------------------------
(* The order in which a poll sends its changes.                             *)

UpTo(S, i) == {j \in S : j <= i}
Rank(S, i) == Cardinality(UpTo(S, i))

(* A set of positions is finite, and so is each of its beginnings.          *)
LEMMA PositionsAreFinite ==
    ASSUME NEW n \in Nat, NEW S \in SUBSET (1..n)
    PROVE  /\ IsFiniteSet(S) /\ Cardinality(S) \in Nat
           /\ \A i \in S : /\ IsFiniteSet(UpTo(S, i))
                           /\ Rank(S, i) \in 1..Cardinality(S)
<1>1. IsFiniteSet(1..n)
  BY FS_Interval
<1>2. IsFiniteSet(S)
  BY <1>1, FS_Subset
<1>3. Cardinality(S) \in Nat
  BY <1>2, FS_CardinalityType
<1>4. ASSUME NEW i \in S
      PROVE  IsFiniteSet(UpTo(S, i)) /\ Rank(S, i) \in 1..Cardinality(S)
  <2>1. UpTo(S, i) \in SUBSET S
    BY DEF UpTo
  <2>2. IsFiniteSet(UpTo(S, i)) /\ Rank(S, i) <= Cardinality(S)
    BY <1>2, <2>1, FS_Subset DEF Rank
  <2>3. Rank(S, i) \in Nat
    BY <2>2, FS_CardinalityType DEF Rank
  <2>4. i \in UpTo(S, i)
    BY DEF UpTo
  <2>5. Rank(S, i) # 0
    BY <2>2, <2>4, FS_EmptySet DEF Rank
  <2> QED
    BY <1>3, <2>2, <2>3, <2>5
<1> QED
  BY <1>2, <1>3, <1>4

(* No two positions have the same rank.                                     *)
LEMMA RanksDiffer ==
    ASSUME NEW n \in Nat, NEW S \in SUBSET (1..n),
           NEW i \in S, NEW j \in S, Rank(S, i) = Rank(S, j)
    PROVE  i = j
<1>1. ASSUME NEW a \in S, NEW b \in S, a < b
      PROVE  Rank(S, a) # Rank(S, b)
  <2>1. UpTo(S, a) \in SUBSET UpTo(S, b)
    <3>1. a \in Int /\ b \in Int /\ \A x \in S : x \in Int
      OBVIOUS
    <3>2. \A x \in S : x <= a => x <= b
      BY <1>1, <3>1
    <3> QED
      BY <3>2, Zenon DEF UpTo
  <2>2. b \in UpTo(S, b) /\ b \notin UpTo(S, a)
    BY <1>1 DEF UpTo
  <2>3. IsFiniteSet(UpTo(S, b))
    BY PositionsAreFinite
  <2> QED
    BY <2>1, <2>2, <2>3, FS_Subset DEF Rank
<1> QED
  BY <1>1

(* Every rank up to the size of the set is some position's: AtRank finds it.*)
LEMMA EveryRankIsTaken ==
    ASSUME NEW n \in Nat, NEW S \in SUBSET (1..n), NEW k \in 1..Cardinality(S)
    PROVE  AtRank(S, k) \in S /\ Rank(S, AtRank(S, k)) = k
<1> DEFINE T == 1..Cardinality(S)
           f == [i \in S |-> Rank(S, i)]
<1>1. IsFiniteSet(S) /\ Cardinality(S) \in Nat /\ \A i \in S : Rank(S, i) \in T
  BY PositionsAreFinite
<1>2. IsFiniteSet(T) /\ Cardinality(T) = Cardinality(S)
  BY <1>1, FS_Interval
<1>3. f \in Injection(S, T)
  BY <1>1, RanksDiffer DEF Injection, IsInjective
<1>4. f \in Surjection(S, T)
  BY <1>2, <1>3, FS_Injection
<1>5. \E i \in S : Rank(S, i) = k
  BY <1>4 DEF Surjection
<1>6. AtRank(S, k) = CHOOSE i \in S : Rank(S, i) = k
  BY DEF AtRank, Rank, UpTo
<1> QED
  BY <1>5, <1>6

(* A poll sends a change for each game that has one, and no other: each     *)
(* change is the reading of a game that reports it.                         *)
LEMMA ChangesAreReports ==
    ASSUME NEW reading \in [Games -> {Running, Stopped}]
    PROVE  /\ ChangesOf(reading) \in Seq(Changes)
           /\ \A k \in DOMAIN ChangesOf(reading) :
                 LET c == ChangesOf(reading)[k]
                 IN  c.change = reading[c.game] /\ Reports(c.game, reading[c.game])
           /\ \A g \in Games : Reports(g, reading[g]) =>
                 \E k \in DOMAIN ChangesOf(reading) :
                     ChangesOf(reading)[k] = [change |-> reading[g], game |-> g]
<1> DEFINE n == Len(WatchList)
           told == {i \in DOMAIN WatchList : Reports(WatchList[i], reading[WatchList[i]])}
           c == ChangesOf(reading)
           of(i) == [change |-> reading[WatchList[i]], game |-> WatchList[i]]
<1>1. /\ WatchList \in Seq(Games) /\ n \in Nat /\ DOMAIN WatchList = 1..n
      /\ \A i \in DOMAIN WatchList : WatchList[i] \in Games
      /\ \A g \in Games : \E i \in DOMAIN WatchList : WatchList[i] = g
  BY SupervisorAssumption DEF Games, ToSet
<1>2. told \in SUBSET (1..n)
  BY <1>1
<1>3. c = [k \in 1..Cardinality(told) |-> of(AtRank(told, k))]
  BY DEF ChangesOf
<1> HIDE DEF told, c, n
<1>4. Cardinality(told) \in Nat
  BY <1>1, <1>2, PositionsAreFinite
<1>5. \A k \in 1..Cardinality(told) : AtRank(told, k) \in told
  BY <1>1, <1>2, EveryRankIsTaken
<1>6. \A i \in told : of(i) \in Changes
  BY <1>1 DEF told, Changes
<1>7. c \in Seq(Changes) /\ DOMAIN c = 1..Cardinality(told)
  BY <1>3, <1>4, <1>5, <1>6
<1>8. ASSUME NEW k \in DOMAIN c
      PROVE  c[k].change = reading[c[k].game] /\ Reports(c[k].game, reading[c[k].game])
  BY <1>3, <1>5, <1>7 DEF told
<1>9. ASSUME NEW g \in Games, Reports(g, reading[g])
      PROVE  \E k \in DOMAIN c : c[k] = [change |-> reading[g], game |-> g]
  <2>1. PICK i \in DOMAIN WatchList : WatchList[i] = g
    BY <1>1
  <2>2. i \in told
    BY <1>9, <2>1 DEF told
  <2>3. Rank(told, i) \in 1..Cardinality(told)
    BY <1>1, <1>2, <2>2, PositionsAreFinite
  <2>4. AtRank(told, Rank(told, i)) = i
    <3> DEFINE r == Rank(told, i)
               a == AtRank(told, r)
    <3>1. a \in told /\ Rank(told, a) = r
      BY <1>1, <1>2, <2>3, EveryRankIsTaken
    <3> QED
      BY <1>1, <1>2, <2>2, <3>1, RanksDiffer
  <2>5. c[Rank(told, i)] = of(i)
    BY <1>3, <2>3, <2>4
  <2> QED
    BY <1>7, <2>1, <2>3, <2>5
<1> QED
  BY <1>7, <1>8, <1>9 DEF c

-----------------------------------------------------------------------------
(* One poll, and the queue it sends to.                                     *)

(* What the channel's two ends do to its queue. *)
LEMMA TailOfQueue ==
    ASSUME NEW S, NEW s \in Seq(S), s # <<>>
    PROVE  /\ Tail(s) \in Seq(S)
           /\ Head(s) = s[1]
           /\ Head(s) \in S
           /\ 1 \in DOMAIN s
           /\ \A i \in DOMAIN Tail(s) : i \in Nat /\ i + 1 \in DOMAIN s /\ Tail(s)[i] = s[i + 1]
           /\ \A i \in DOMAIN s : i \in Nat /\ (i # 1 => i - 1 \in DOMAIN Tail(s) /\ Tail(s)[i - 1] = s[i])
OBVIOUS

LEMMA QueueAndMore ==
    ASSUME NEW S, NEW s \in Seq(S), NEW t \in Seq(S)
    PROVE  /\ s \o t \in Seq(S)
           /\ \A i \in DOMAIN s : i \in DOMAIN (s \o t) /\ (s \o t)[i] = s[i]
           /\ \A k \in DOMAIN t : /\ Len(s) + k \in DOMAIN (s \o t)
                                  /\ (s \o t)[Len(s) + k] = t[k]
                                  /\ \A i \in DOMAIN s : i < Len(s) + k
           /\ \A i \in DOMAIN (s \o t) :
                 i \in DOMAIN s \/ \E k \in DOMAIN t : i = Len(s) + k
<1>1. /\ Len(s) \in Nat /\ DOMAIN s = 1..Len(s)
      /\ Len(t) \in Nat /\ DOMAIN t = 1..Len(t)
  OBVIOUS
<1>2. /\ s \o t \in Seq(S)
      /\ DOMAIN (s \o t) = 1..(Len(s) + Len(t))
  OBVIOUS
<1>3. \A i \in 1..(Len(s) + Len(t)) :
         (s \o t)[i] = IF i <= Len(s) THEN s[i] ELSE t[i - Len(s)]
  OBVIOUS
<1>4. \A i \in DOMAIN s : i \in DOMAIN (s \o t) /\ (s \o t)[i] = s[i]
  BY <1>1, <1>2, <1>3
<1>5. ASSUME NEW k \in DOMAIN t
      PROVE  /\ Len(s) + k \in DOMAIN (s \o t)
             /\ (s \o t)[Len(s) + k] = t[k]
             /\ \A i \in DOMAIN s : i < Len(s) + k
  <2> DEFINE l == Len(s)
             m == Len(t)
             u == s \o t
  <2>1. l \in Nat /\ m \in Nat /\ k \in 1..m /\ DOMAIN s = 1..l /\ DOMAIN u = 1..(l + m)
    BY <1>1, <1>2
  <2>2. \A i \in 1..(l + m) : u[i] = IF i <= l THEN s[i] ELSE t[i - l]
    BY <1>3
  <2> HIDE DEF l, m, u
  <2>3. l + k \in 1..(l + m) /\ ~(l + k <= l) /\ (l + k) - l = k
    BY <2>1
  <2> QED
    BY <2>1, <2>2, <2>3 DEF l, m, u
<1>6. ASSUME NEW i \in DOMAIN (s \o t), i \notin DOMAIN s
      PROVE  \E k \in DOMAIN t : i = Len(s) + k
  <2>1. i - Len(s) \in 1..Len(t) /\ i = Len(s) + (i - Len(s))
    BY <1>1, <1>2, <1>6
  <2> QED
    BY <1>1, <2>1
<1> QED
  BY <1>2, <1>4, <1>5, <1>6

LEMMA ReadingTyped ==
    ASSUME NEW silent
    PROVE  Reading(silent) \in [Games -> {Running, Stopped}]
BY DEF Reading

LEMMA StreakTyped ==
    ASSUME Tracked, StreaksEnd, NEW g \in Games, NEW reading \in {Running, Stopped}
    PROVE  /\ Streak(g, reading) \in 0..Confirmations
           /\ ~Believes(g, reading) /\ believed[g] # reading => Streak(g, reading) < Confirmations
BY SupervisorAssumption DEF Tracked, StreaksEnd, Streak, Believes, Running, Stopped, Unknown

LEMMA ObserveTracked ==
    ASSUME Tracked, StreaksEnd,
           NEW reading \in [Games -> {Running, Stopped}], Observe(reading)
    PROVE  Tracked' /\ StreaksEnd'
<1>1. ChangesOf(reading) \in Seq(Changes)
  BY ChangesAreReports
<1>2. queue' \in Seq(Changes)
  BY <1>1, QueueAndMore DEF Tracked, Observe
<1>3. /\ believed' \in [Games -> {Running, Stopped, Unknown}]
      /\ candidate' \in [Games -> {Running, Stopped}]
  BY DEF Tracked, Observe
<1>4. runs' \in [Games -> 0..Confirmations]
  BY StreakTyped DEF Observe
<1>5. StreaksEnd'
  BY StreakTyped DEF StreaksEnd, Observe
<1> QED
  BY <1>2, <1>3, <1>4, <1>5 DEF Tracked

(* A poll that takes back a belief says so: what it no longer believes to   *)
(* run has a stop behind it in the channel, and what it sends as started it *)
(* believes.                                                                *)
LEMMA ObserveIsTold ==
    ASSUME Tracked, NewsIsTrue,
           NEW reading \in [Games -> {Running, Stopped}], Observe(reading)
    PROVE  /\ NewsIsTrue'
           /\ \A g \in Games : believed[g] = Running \/ StopIsQueued(g)
                                  => believed'[g] = Running \/ StopIsQueued(g)'
<1> DEFINE c == ChangesOf(reading)
<1>1. /\ c \in Seq(Changes)
      /\ \A k \in DOMAIN c : c[k].change = reading[c[k].game] /\ Reports(c[k].game, reading[c[k].game])
      /\ \A g \in Games : Reports(g, reading[g]) =>
            \E k \in DOMAIN c : c[k] = [change |-> reading[g], game |-> g]
  BY ChangesAreReports
<1>2. /\ queue' = queue \o c
      /\ \A g \in Games : believed'[g] = IF Believes(g, reading[g]) THEN reading[g] ELSE believed[g]
  BY DEF Observe
<1> HIDE DEF c
<1>3. /\ \A i \in DOMAIN queue : i \in DOMAIN queue' /\ queue'[i] = queue[i]
      /\ \A k \in DOMAIN c : /\ Len(queue) + k \in DOMAIN queue'
                             /\ queue'[Len(queue) + k] = c[k]
                             /\ \A i \in DOMAIN queue : i < Len(queue) + k
      /\ \A i \in DOMAIN queue' :
            i \in DOMAIN queue \/ \E k \in DOMAIN c : i = Len(queue) + k
  BY <1>1, <1>2, QueueAndMore DEF Tracked
<1>4. ASSUME NEW g \in Games, believed[g] = Running, believed'[g] # Running
      PROVE  \E k \in DOMAIN c : c[k] = [change |-> Stopped, game |-> g]
  <2>1. Reports(g, reading[g]) /\ reading[g] = Stopped
    BY <1>2, <1>4 DEF Reports, Running, Stopped, Unknown
  <2> QED
    BY <1>1, <2>1
<1>5. ASSUME NEW g \in Games, believed[g] = Running \/ StopIsQueued(g)
      PROVE  believed'[g] = Running \/ StopIsQueued(g)'
  BY <1>3, <1>4, <1>5 DEF StopIsQueued
<1>6. ASSUME NEW i \in DOMAIN queue', queue'[i].change = Running
      PROVE  believed'[queue'[i].game] = Running \/ StopFollows(i)'
  <2>1. CASE i \in DOMAIN queue
    <3>1. queue'[i] = queue[i] /\ queue[i] \in Changes
      BY <1>3, <2>1 DEF Tracked
    <3>2. believed[queue[i].game] = Running \/ StopFollows(i)
      BY <1>6, <2>1, <3>1 DEF NewsIsTrue
    <3>3. CASE believed[queue[i].game] = Running
      BY <1>3, <1>4, <2>1, <3>1, <3>3 DEF StopFollows, Changes
    <3>4. CASE StopFollows(i)
      BY <1>3, <3>1, <3>4 DEF StopFollows
    <3> QED
      BY <3>2, <3>3, <3>4
  <2>2. ASSUME NEW k \in DOMAIN c, i = Len(queue) + k
        PROVE  believed'[queue'[i].game] = Running
    <3>1. queue'[i] = c[k] /\ c[k] \in Changes
      BY <1>1, <1>3, <2>2
    <3>2. reading[c[k].game] = Running /\ Believes(c[k].game, reading[c[k].game])
      BY <1>1, <1>6, <3>1 DEF Reports
    <3> QED
      BY <1>2, <3>1, <3>2 DEF Changes
  <2> QED
    BY <1>3, <2>1, <2>2
<1> QED
  BY <1>5, <1>6 DEF NewsIsTrue

(* What the receiver takes: the rest of the queue still tells the truth, a  *)
(* stop is taken only where it was the head, and the stop of a game taken   *)
(* as started is still to come if its belief was taken back.                *)
LEMMA ReceiveIsTold ==
    ASSUME Tracked, NewsIsTrue, queue # <<>>, queue' = Tail(queue), believed' = believed
    PROVE  /\ NewsIsTrue'
           /\ Head(queue) \in Changes
           /\ \A g \in Games : /\ believed[g] = Running \/ StopIsQueued(g)
                               /\ Head(queue) # [change |-> Stopped, game |-> g]
                               => believed'[g] = Running \/ StopIsQueued(g)'
           /\ \A g \in Games : Head(queue) = [change |-> Running, game |-> g]
                               => believed'[g] = Running \/ StopIsQueued(g)'
<1>1. /\ queue' \in Seq(Changes) /\ Head(queue) = queue[1] /\ Head(queue) \in Changes
      /\ 1 \in DOMAIN queue
      /\ \A i \in DOMAIN queue' : i \in Nat /\ i + 1 \in DOMAIN queue /\ queue'[i] = queue[i + 1]
      /\ \A i \in DOMAIN queue :
            i \in Nat /\ (i # 1 => i - 1 \in DOMAIN queue' /\ queue'[i - 1] = queue[i])
  BY TailOfQueue DEF Tracked
<1>2. ASSUME NEW i \in DOMAIN queue, StopFollows(i)
      PROVE  \E k \in DOMAIN queue' : k > i - 1 /\ queue'[k] = [change |-> Stopped, game |-> queue[i].game]
  <2>1. PICK j \in DOMAIN queue : j > i /\ queue[j] = [change |-> Stopped, game |-> queue[i].game]
    BY <1>2 DEF StopFollows
  <2>2. j \in Nat /\ i \in Nat /\ j # 1
    <3>1. \A a \in DOMAIN queue : a \in Nat /\ a >= 1
      BY DEF Tracked
    <3> QED
      BY <2>1, <3>1
  <2>3. j - 1 > i - 1
    BY <2>1, <2>2
  <2>4. j - 1 \in DOMAIN queue' /\ queue'[j - 1] = queue[j]
    BY <1>1, <2>2
  <2> QED
    BY <2>1, <2>3, <2>4
<1>3. NewsIsTrue'
  <2> SUFFICES ASSUME NEW i \in DOMAIN queue', queue'[i].change = Running
               PROVE  believed'[queue'[i].game] = Running \/ StopFollows(i)'
    BY DEF NewsIsTrue
  <2>1. i \in Nat /\ i + 1 \in DOMAIN queue /\ queue'[i] = queue[i + 1] /\ (i + 1) - 1 = i
    BY <1>1
  <2>2. believed[queue[i + 1].game] = Running \/ StopFollows(i + 1)
    BY <2>1 DEF NewsIsTrue
  <2>3. StopFollows(i + 1) => StopFollows(i)'
    BY <1>2, <2>1 DEF StopFollows
  <2> QED
    BY <2>1, <2>2, <2>3
<1>4. ASSUME NEW g \in Games, StopIsQueued(g), Head(queue) # [change |-> Stopped, game |-> g]
      PROVE  StopIsQueued(g)'
  <2>1. PICK i \in DOMAIN queue : queue[i] = [change |-> Stopped, game |-> g]
    BY <1>4 DEF StopIsQueued
  <2>2. i - 1 \in DOMAIN queue' /\ queue'[i - 1] = [change |-> Stopped, game |-> g]
    BY <1>1, <1>4, <2>1
  <2> QED
    BY <2>2 DEF StopIsQueued
<1>5. ASSUME NEW g \in Games, Head(queue) = [change |-> Running, game |-> g]
      PROVE  believed[g] = Running \/ StopIsQueued(g)'
  <2>1. queue[1].change = Running /\ queue[1].game = g
    BY <1>1, <1>5
  <2>2. believed[g] = Running \/ StopFollows(1)
    BY <1>1, <2>1 DEF NewsIsTrue
  <2>3. StopFollows(1) => \E k \in DOMAIN queue' : queue'[k] = [change |-> Stopped, game |-> g]
    BY <1>1, <1>2, <2>1
  <2> QED
    BY <2>2, <2>3 DEF StopIsQueued
<1> QED
  BY <1>1, <1>3, <1>4, <1>5

-----------------------------------------------------------------------------
(* The invariant is kept, one group of its conjuncts at a time.             *)

LEMMA NewsStep ==
    ASSUME Tracked, Placed, Hand, NewsIsTrue, RecordingHasItsGame, Next
    PROVE  NewsIsTrue' /\ RecordingHasItsGame'
<1>1. ASSUME NEW silent, Observe(Reading(silent)), UNCHANGED <<recording, subject, sup>>
      PROVE  NewsIsTrue' /\ RecordingHasItsGame'
  BY <1>1, ReadingTyped, ObserveIsTold DEF RecordingHasItsGame, Held, Closing
<1>2. ASSUME Poll \/ PollMisreads
      PROVE  NewsIsTrue' /\ RecordingHasItsGame'
  BY <1>1, <1>2 DEF Poll, PollMisreads, supVars
<1>3. ASSUME ReceiveStarted
      PROVE  NewsIsTrue' /\ RecordingHasItsGame'
  <2>1. /\ queue # <<>> /\ queue' = Tail(queue) /\ believed' = believed
        /\ Head(queue).change = Running /\ recording' = recording
        /\ subject' = subject \/ (subject' = Head(queue).game /\ sup' = "beginning")
        /\ sup = "waiting"
    BY <1>3 DEF ReceiveStarted, Receives, watchVars, trackerVars, supVars
  <2>2. \A g \in Games : Head(queue) # [change |-> Stopped, game |-> g]
    BY <2>1 DEF Running, Stopped
  <2>3. Head(queue) \in Changes
    BY <2>1, TailOfQueue DEF Tracked
  <2>4. \A g \in Games : Held(g)' => Held(g) \/ Head(queue) = [change |-> Running, game |-> g]
    BY <2>1, <2>3 DEF Held, Changes
  <2>5. ~Closing
    BY <2>1 DEF Closing
  <2> QED
    BY <2>1, <2>2, <2>4, <2>5, ReceiveIsTold DEF RecordingHasItsGame
<1>4. ASSUME ReceiveStopped
      PROVE  NewsIsTrue' /\ RecordingHasItsGame'
  <2>1. /\ queue # <<>> /\ queue' = Tail(queue) /\ believed' = believed
        /\ sup = "waiting" /\ subject = NoGame
        /\ sup' = "clearing" \/ (UNCHANGED <<recording, subject>> /\ ~EndsTheRecording(Head(queue).game))
    BY <1>4 DEF ReceiveStopped, Receives, watchVars, trackerVars, supVars, Hand
  <2>2. ASSUME NEW g \in Games, Held(g)', ~Closing'
        PROVE  Held(g) /\ Head(queue) # [change |-> Stopped, game |-> g]
    BY <2>1, <2>2, SupervisorAssumption DEF Held, Closing, EndsTheRecording
  <2>3. ~Closing
    BY <2>1 DEF Closing
  <2> QED
    BY <2>1, <2>2, <2>3, ReceiveIsTold DEF RecordingHasItsGame
<1>5. ASSUME UNCHANGED <<queue, believed>>,
             \A g \in Games : Held(g)' /\ ~Closing' => Held(g) /\ ~Closing
      PROVE  NewsIsTrue' /\ RecordingHasItsGame'
  BY <1>5 DEF NewsIsTrue, StopFollows, RecordingHasItsGame, StopIsQueued
<1>6. ASSUME NEW g \in Games, Toggle(g)
      PROVE  NewsIsTrue' /\ RecordingHasItsGame'
  BY <1>5, <1>6 DEF Toggle, watchVars, trackerVars, supVars, Held, Closing
<1>7. ASSUME Stop \/ PollFails \/ WatcherDies \/ WatcherEnds \/ EngineNext
      PROVE  NewsIsTrue' /\ RecordingHasItsGame'
  <2>1. UNCHANGED <<queue, believed, supVars>>
    BY <1>7 DEF Stop, PollFails, WatcherDies, WatcherEnds, EngineNext, EngineFails, EngineHangsUp,
                EngineReturns, EnginePanics, watchVars, trackerVars
  <2> QED
    BY <1>5, <2>1 DEF supVars, Held, Closing
<1>8. ASSUME \/ PublishRecording \/ Spawn \/ PublishCommands \/ DropCommands \/ Join
             \/ Leave \/ CloseLast \/ JoinLast \/ Gone \/ BeginFails \/ SpawnFails
      PROVE  NewsIsTrue' /\ RecordingHasItsGame'
  <2>1. UNCHANGED <<queue, believed>>
    BY <1>8 DEF PublishRecording, Spawn, PublishCommands, DropCommands, Join, Leave, CloseLast,
                JoinLast, Gone, BeginFails, SpawnFails, watchVars, trackerVars
  <2>2. ASSUME NEW g \in Games, Held(g)', ~Closing'
        PROVE  Held(g) /\ ~Closing
    BY <1>8, <2>2, SupervisorAssumption
       DEF PublishRecording, Spawn, PublishCommands, DropCommands, Join, Leave, CloseLast,
           JoinLast, Gone, BeginFails, SpawnFails, Held, Closing, Hand
  <2> QED
    BY <1>5, <2>1, <2>2
<1> QED
  BY <1>2, <1>3, <1>4, <1>6, <1>7, <1>8 DEF Next, WatcherNext, SupervisorNext, SupervisorStep

LEMMA Received ==
    ASSUME queue \in Seq(Changes), NEW c \in {Running, Stopped}, Receives(c)
    PROVE  /\ queue' \in Seq(Changes) /\ sup = "waiting"
           /\ Head(queue).game \in Games /\ Head(queue).game # NoGame
<1>1. queue # <<>> /\ queue' = Tail(queue) /\ sup = "waiting"
  BY DEF Receives
<1>2. queue' \in Seq(Changes) /\ Head(queue) \in Changes
  BY <1>1, TailOfQueue
<1>3. Head(queue).game \in Games
  BY <1>2 DEF Changes
<1> QED
  BY <1>1, <1>2, <1>3, SupervisorAssumption

LEMMA CountedStep ==
    ASSUME Counted, Next
    PROVE  Counted'
<1>1. ASSUME NEW g \in Games, Toggle(g)
      PROVE  Counted'
  BY <1>1, SupervisorAssumption DEF Toggle, worldVars, watchVars, trackerVars, supVars, engineVars, Counted
<1>2. ASSUME Stop \/ WatcherNext
      PROVE  Counted'
  BY <1>2, SupervisorAssumption DEF Stop, WatcherNext, Poll, PollMisreads, PollFails,
     WatcherDies, WatcherEnds, Observe, Fault, worldVars, watchVars, trackerVars, supVars,
     engineVars, Counted
<1>3. ASSUME ReceiveStarted \/ PublishRecording \/ Spawn \/ PublishCommands \/ BeginFails \/ SpawnFails
      PROVE  Counted'
  BY <1>3, SupervisorAssumption DEF ReceiveStarted, Receives, PublishRecording, Spawn,
     PublishCommands, BeginFails, SpawnFails, Fault, worldVars, watchVars, trackerVars, supVars,
     engineVars, Counted
<1>4. ASSUME ReceiveStopped \/ DropCommands \/ Join
      PROVE  Counted'
  BY <1>4, SupervisorAssumption DEF ReceiveStopped, Receives, DropCommands, Join, StoreOfJoined,
     worldVars, watchVars, trackerVars, supVars, engineVars, Counted
<1>5. ASSUME Leave \/ CloseLast \/ JoinLast \/ Gone
      PROVE  Counted'
  BY <1>5, SupervisorAssumption DEF Leave, CloseLast, JoinLast, Gone, StoreOfJoined, worldVars,
     watchVars, trackerVars, supVars, engineVars, Counted
<1>6. ASSUME EngineNext
      PROVE  Counted'
  BY <1>6, SupervisorAssumption DEF EngineNext, EngineFails, EngineHangsUp, EngineReturns,
     EnginePanics, Fault, worldVars, watchVars, trackerVars, supVars, engineVars, Counted
<1> QED
  BY <1>1, <1>2, <1>3, <1>4, <1>5, <1>6 DEF Next, SupervisorNext, SupervisorStep

LEMMA PlacedStep ==
    ASSUME Placed, Hand, queue \in Seq(Changes), Next
    PROVE  Placed'
<1>1. ASSUME NEW g \in Games, Toggle(g)
      PROVE  Placed'
  BY <1>1, Received DEF Toggle, worldVars, watchVars, trackerVars, supVars, engineVars, Placed, Hand
<1>2. ASSUME Stop \/ WatcherNext
      PROVE  Placed'
  <2>1. UNCHANGED <<sup, subject, recording, store, engine, game>>
    BY <1>2 DEF Stop, WatcherNext, Poll, PollMisreads, PollFails, WatcherDies, WatcherEnds, Observe,
       supVars, engineVars
  <2>2. watcher' = watcher \/ watcher' \in {"told", "down"}
    BY <1>2 DEF Stop, WatcherNext, Poll, PollMisreads, PollFails, WatcherDies, WatcherEnds, Observe,
       watchVars
  <2>3. watcher' \in {"polling", "told", "down"}
    BY <2>2 DEF Placed
  <2> QED
    BY <2>1, <2>3, Zenon DEF Placed
<1>3. ASSUME ReceiveStarted \/ PublishRecording \/ Spawn \/ PublishCommands \/ BeginFails \/ SpawnFails
      PROVE  Placed'
  BY <1>3, Received DEF ReceiveStarted, Receives, PublishRecording, Spawn, PublishCommands,
     BeginFails, SpawnFails, Fault, worldVars, watchVars, trackerVars, supVars, engineVars,
     Placed, Hand
<1>4. ASSUME ReceiveStopped \/ DropCommands \/ Join
      PROVE  Placed'
  BY <1>4, Received DEF ReceiveStopped, Receives, DropCommands, Join, StoreOfJoined, worldVars,
     watchVars, trackerVars, supVars, engineVars, Placed, Hand
<1>5. ASSUME Leave \/ CloseLast \/ JoinLast \/ Gone
      PROVE  Placed'
  BY <1>5, Received DEF Leave, CloseLast, JoinLast, Gone, StoreOfJoined, worldVars, watchVars,
     trackerVars, supVars, engineVars, Placed, Hand
<1>6. ASSUME EngineNext
      PROVE  Placed'
  BY <1>6, Received DEF EngineNext, EngineFails, EngineHangsUp, EngineReturns, EnginePanics,
     Fault, worldVars, watchVars, trackerVars, supVars, engineVars, Placed, Hand
<1> QED
  BY <1>1, <1>2, <1>3, <1>4, <1>5, <1>6 DEF Next, SupervisorNext, SupervisorStep

LEMMA FlagsStep ==
    ASSUME Flags, Next
    PROVE  Flags'
<1>1. ASSUME NEW g \in Games, Toggle(g)
      PROVE  Flags'
  BY <1>1 DEF Toggle, worldVars, watchVars, trackerVars, supVars, engineVars, Flags
<1>2. ASSUME Stop \/ WatcherNext
      PROVE  Flags'
  BY <1>2 DEF Stop, WatcherNext, Poll, PollMisreads, PollFails, WatcherDies, WatcherEnds,
     Observe, Fault, worldVars, watchVars, trackerVars, supVars, engineVars, Flags
<1>3. ASSUME ReceiveStarted \/ PublishRecording \/ Spawn \/ PublishCommands \/ BeginFails \/ SpawnFails
      PROVE  Flags'
  BY <1>3 DEF ReceiveStarted, Receives, PublishRecording, Spawn, PublishCommands, BeginFails,
     SpawnFails, Fault, worldVars, watchVars, trackerVars, supVars, engineVars, Flags
<1>4. ASSUME ReceiveStopped \/ DropCommands \/ Join
      PROVE  Flags'
  BY <1>4 DEF ReceiveStopped, Receives, DropCommands, Join, StoreOfJoined, worldVars, watchVars,
     trackerVars, supVars, engineVars, Flags
<1>5. ASSUME Leave \/ CloseLast \/ JoinLast \/ Gone
      PROVE  Flags'
  BY <1>5 DEF Leave, CloseLast, JoinLast, Gone, StoreOfJoined, worldVars, watchVars,
     trackerVars, supVars, engineVars, Flags
<1>6. ASSUME EngineNext
      PROVE  Flags'
  BY <1>6 DEF EngineNext, EngineFails, EngineHangsUp, EngineReturns, EnginePanics, Fault,
     worldVars, watchVars, trackerVars, supVars, engineVars, Flags
<1> QED
  BY <1>1, <1>2, <1>3, <1>4, <1>5, <1>6 DEF Next, SupervisorNext, SupervisorStep

LEMMA BooksStep ==
    ASSUME Tracked, Placed, Books, Next
    PROVE  Books'
<1>1. ASSUME NEW g \in Games, Toggle(g)
      PROVE  Books'
  BY <1>1, SupervisorAssumption DEF Toggle, worldVars, watchVars, trackerVars, supVars, engineVars, Placed, Books, Hand, Thread, StoreIsSomewhere, NameFollows, WatcherIsTold
<1>2. ASSUME Stop \/ WatcherNext
      PROVE  Books'
  BY <1>2, SupervisorAssumption DEF Stop, WatcherNext, Poll, PollMisreads, PollFails,
     WatcherDies, WatcherEnds, Observe, Fault, worldVars, watchVars, trackerVars, supVars,
     engineVars, Placed, Books, Hand, Thread, StoreIsSomewhere, NameFollows, WatcherIsTold
<1>3. ASSUME ReceiveStarted
      PROVE  Books'
  <2>1. sup = "waiting" /\ Head(queue).game # NoGame
    BY <1>3, Received DEF ReceiveStarted, Tracked
  <2>2. \/ UNCHANGED <<sup, subject, recording, game, engine, store>>
        \/ /\ recording = NoGame /\ store = "prepared"
           /\ sup' = "beginning" /\ subject' = Head(queue).game /\ store' = "beginning"
           /\ UNCHANGED <<recording, game, engine>>
    BY <1>3 DEF ReceiveStarted, supVars, engineVars
  <2>3. UNCHANGED watcher
    BY <1>3 DEF ReceiveStarted, watchVars
  <2> QED
    BY <2>1, <2>2, <2>3 DEF Books, Hand, Thread, StoreIsSomewhere, NameFollows, WatcherIsTold
<1>4. ASSUME PublishRecording
      PROVE  Books'
  BY <1>4, SupervisorAssumption DEF PublishRecording, worldVars, watchVars, trackerVars,
     supVars, engineVars, Placed, Books, Hand, Thread, StoreIsSomewhere, NameFollows,
     WatcherIsTold
<1>5. ASSUME Spawn
      PROVE  Books'
  BY <1>5, SupervisorAssumption DEF Spawn, worldVars, watchVars, trackerVars, supVars,
     engineVars, Placed, Books, Hand, Thread, StoreIsSomewhere, NameFollows, WatcherIsTold
<1>6. ASSUME PublishCommands
      PROVE  Books'
  BY <1>6, SupervisorAssumption DEF PublishCommands, worldVars, watchVars, trackerVars, supVars,
     engineVars, Placed, Books, Hand, Thread, StoreIsSomewhere, NameFollows, WatcherIsTold
<1>7. ASSUME ReceiveStopped
      PROVE  Books'
  <2>1. sup = "waiting"
    BY <1>7 DEF ReceiveStopped, Receives
  <2>2. \/ UNCHANGED <<sup, subject, recording, game>>
        \/ /\ recording # NoGame /\ sup' = "clearing" /\ subject' = recording
           /\ recording' = NoGame /\ game' = NoGame
    BY <1>7 DEF ReceiveStopped, EndsTheRecording, supVars
  <2>3. UNCHANGED <<watcher, engine, store>>
    BY <1>7 DEF ReceiveStopped, watchVars, engineVars
  <2> QED
    BY <2>1, <2>2, <2>3 DEF Books, Hand, Thread, StoreIsSomewhere, NameFollows, WatcherIsTold
<1>8. ASSUME DropCommands
      PROVE  Books'
  BY <1>8, SupervisorAssumption DEF DropCommands, worldVars, watchVars, trackerVars, supVars,
     engineVars, Placed, Books, Hand, Thread, StoreIsSomewhere, NameFollows, WatcherIsTold
<1>9. ASSUME Join
      PROVE  Books'
  BY <1>9, SupervisorAssumption DEF Join, StoreOfJoined, worldVars, watchVars, trackerVars,
     supVars, engineVars, Placed, Books, Hand, Thread, StoreIsSomewhere, NameFollows,
     WatcherIsTold
<1>10. ASSUME Leave
      PROVE  Books'
  BY <1>10, SupervisorAssumption DEF Leave, worldVars, watchVars, trackerVars, supVars,
     engineVars, Placed, Books, Hand, Thread, StoreIsSomewhere, NameFollows, WatcherIsTold
<1>11. ASSUME CloseLast
      PROVE  Books'
  BY <1>11, SupervisorAssumption DEF CloseLast, worldVars, watchVars, trackerVars, supVars,
     engineVars, Placed, Books, Hand, Thread, StoreIsSomewhere, NameFollows, WatcherIsTold
<1>12. ASSUME JoinLast
      PROVE  Books'
  BY <1>12, SupervisorAssumption DEF JoinLast, StoreOfJoined, worldVars, watchVars, trackerVars,
     supVars, engineVars, Placed, Books, Hand, Thread, StoreIsSomewhere, NameFollows,
     WatcherIsTold
<1>13. ASSUME Gone
      PROVE  Books'
  BY <1>13, SupervisorAssumption DEF Gone, worldVars, watchVars, trackerVars, supVars,
     engineVars, Placed, Books, Hand, Thread, StoreIsSomewhere, NameFollows, WatcherIsTold
<1>14. ASSUME BeginFails
      PROVE  Books'
  BY <1>14, SupervisorAssumption DEF BeginFails, Fault, worldVars, watchVars, trackerVars,
     supVars, engineVars, Placed, Books, Hand, Thread, StoreIsSomewhere, NameFollows,
     WatcherIsTold
<1>15. ASSUME SpawnFails
      PROVE  Books'
  BY <1>15, SupervisorAssumption DEF SpawnFails, Fault, worldVars, watchVars, trackerVars,
     supVars, engineVars, Placed, Books, Hand, Thread, StoreIsSomewhere, NameFollows,
     WatcherIsTold
<1>16. ASSUME EngineFails
      PROVE  Books'
  BY <1>16, SupervisorAssumption DEF EngineFails, Fault, worldVars, watchVars, trackerVars,
     supVars, engineVars, Placed, Books, Hand, Thread, StoreIsSomewhere, NameFollows,
     WatcherIsTold
<1>17. ASSUME EngineHangsUp
      PROVE  Books'
  BY <1>17, SupervisorAssumption DEF EngineHangsUp, worldVars, watchVars, trackerVars, supVars,
     engineVars, Placed, Books, Hand, Thread, StoreIsSomewhere, NameFollows, WatcherIsTold
<1>18. ASSUME EngineReturns
      PROVE  Books'
  BY <1>18, SupervisorAssumption DEF EngineReturns, worldVars, watchVars, trackerVars, supVars,
     engineVars, Placed, Books, Hand, Thread, StoreIsSomewhere, NameFollows, WatcherIsTold
<1>19. ASSUME EnginePanics
      PROVE  Books'
  BY <1>19, SupervisorAssumption DEF EnginePanics, Fault, worldVars, watchVars, trackerVars,
     supVars, engineVars, Placed, Books, Hand, Thread, StoreIsSomewhere, NameFollows,
     WatcherIsTold
<1> QED
  BY <1>1, <1>2, <1>3, <1>4, <1>5, <1>6, <1>7, <1>8, <1>9, <1>10, <1>11, <1>12, <1>13,
     <1>14, <1>15, <1>16, <1>17, <1>18, <1>19 DEF Next, SupervisorNext, SupervisorStep,
     EngineNext

LEMMA StatusStep ==
    ASSUME Placed, Flags, Hand, Thread, StatusFollows, Next
    PROVE  StatusFollows'
<1>1. ASSUME NEW g \in Games, Toggle(g)
      PROVE  StatusFollows'
  BY <1>1 DEF Toggle, worldVars, watchVars, trackerVars, supVars, engineVars, Hand, Thread, StatusFollows
<1>2. ASSUME Stop \/ WatcherNext
      PROVE  StatusFollows'
  <2>1. UNCHANGED <<supVars, engineVars>>
    BY <1>2 DEF Stop, WatcherNext, Poll, PollMisreads, PollFails, WatcherDies, WatcherEnds
  <2> QED
    BY <2>1 DEF supVars, engineVars, StatusFollows
<1>3. ASSUME ReceiveStarted
      PROVE  StatusFollows'
  <2>1. UNCHANGED <<running, engine, commands, recording>> /\ sup # "clearing"
    BY <1>3 DEF ReceiveStarted, Receives, supVars, engineVars
  <2> QED
    BY <2>1 DEF StatusFollows
<1>4. ASSUME PublishRecording
      PROVE  StatusFollows'
  BY <1>4 DEF PublishRecording, worldVars, watchVars, trackerVars, supVars, engineVars, Hand,
     Thread, StatusFollows
<1>5. ASSUME Spawn
      PROVE  StatusFollows'
  BY <1>5 DEF Spawn, worldVars, watchVars, trackerVars, supVars, engineVars, Hand, Thread,
     StatusFollows
<1>6. ASSUME PublishCommands
      PROVE  StatusFollows'
  BY <1>6 DEF PublishCommands, worldVars, watchVars, trackerVars, supVars, engineVars, Hand,
     Thread, StatusFollows
<1>7. ASSUME ReceiveStopped
      PROVE  StatusFollows'
  <2>1. UNCHANGED <<running, engine, commands>> /\ sup # "clearing"
    BY <1>7 DEF ReceiveStopped, Receives, supVars, engineVars
  <2>2. recording' = recording \/ sup' = "clearing"
    BY <1>7 DEF ReceiveStopped, supVars
  <2> QED
    BY <2>1, <2>2 DEF StatusFollows
<1>8. ASSUME DropCommands
      PROVE  StatusFollows'
  BY <1>8 DEF DropCommands, worldVars, watchVars, trackerVars, supVars, engineVars, Hand,
     Thread, StatusFollows
<1>9. ASSUME Join
      PROVE  StatusFollows'
  BY <1>9 DEF Join, StoreOfJoined, worldVars, watchVars, trackerVars, supVars, engineVars, Hand,
     Thread, StatusFollows
<1>10. ASSUME Leave
      PROVE  StatusFollows'
  BY <1>10 DEF Leave, worldVars, watchVars, trackerVars, supVars, engineVars, Hand, Thread,
     StatusFollows
<1>11. ASSUME CloseLast
      PROVE  StatusFollows'
  BY <1>11 DEF CloseLast, worldVars, watchVars, trackerVars, supVars, engineVars, Hand, Thread,
     StatusFollows
<1>12. ASSUME JoinLast
      PROVE  StatusFollows'
  BY <1>12 DEF JoinLast, StoreOfJoined, worldVars, watchVars, trackerVars, supVars, engineVars,
     Hand, Thread, StatusFollows
<1>13. ASSUME Gone
      PROVE  StatusFollows'
  BY <1>13 DEF Gone, worldVars, watchVars, trackerVars, supVars, engineVars, Hand, Thread,
     StatusFollows
<1>14. ASSUME BeginFails
      PROVE  StatusFollows'
  BY <1>14 DEF BeginFails, Fault, worldVars, watchVars, trackerVars, supVars, engineVars, Hand,
     Thread, StatusFollows
<1>15. ASSUME SpawnFails
      PROVE  StatusFollows'
  BY <1>15 DEF SpawnFails, Fault, worldVars, watchVars, trackerVars, supVars, engineVars, Hand,
     Thread, StatusFollows
<1>16. ASSUME EngineFails
      PROVE  StatusFollows'
  BY <1>16 DEF EngineFails, Fault, worldVars, watchVars, trackerVars, supVars, engineVars, Hand,
     Thread, StatusFollows
<1>17. ASSUME EngineHangsUp
      PROVE  StatusFollows'
  BY <1>17 DEF EngineHangsUp, worldVars, watchVars, trackerVars, supVars, engineVars, Hand,
     Thread, StatusFollows
<1>18. ASSUME EngineReturns
      PROVE  StatusFollows'
  BY <1>18 DEF EngineReturns, worldVars, watchVars, trackerVars, supVars, engineVars, Hand,
     Thread, StatusFollows
<1>19. ASSUME EnginePanics
      PROVE  StatusFollows'
  BY <1>19 DEF EnginePanics, Fault, worldVars, watchVars, trackerVars, supVars, engineVars,
     Hand, Thread, StatusFollows
<1> QED
  BY <1>1, <1>2, <1>3, <1>4, <1>5, <1>6, <1>7, <1>8, <1>9, <1>10, <1>11, <1>12, <1>13,
     <1>14, <1>15, <1>16, <1>17, <1>18, <1>19 DEF Next, SupervisorNext, SupervisorStep,
     EngineNext

LEMMA TrackedStep ==
    ASSUME Tracked, StreaksEnd, Next
    PROVE  Tracked' /\ StreaksEnd'
<1>1. ASSUME Poll \/ PollMisreads
      PROVE  Tracked' /\ StreaksEnd'
  BY <1>1, ReadingTyped, ObserveTracked DEF Poll, PollMisreads
<1>2. ASSUME queue' \in Seq(Changes), UNCHANGED trackerVars
      PROVE  Tracked' /\ StreaksEnd'
  BY <1>2 DEF trackerVars, Tracked, StreaksEnd
<1>3. ASSUME ReceiveStarted \/ ReceiveStopped
      PROVE  Tracked' /\ StreaksEnd'
  BY <1>2, <1>3, Received DEF ReceiveStarted, ReceiveStopped, watchVars, Tracked
<1>4. ASSUME NEW g \in Games, Toggle(g)
      PROVE  Tracked' /\ StreaksEnd'
  BY <1>2, <1>4 DEF Toggle, watchVars, Tracked
<1>5. ASSUME Stop \/ PollFails \/ WatcherDies \/ WatcherEnds \/ EngineNext
      PROVE  Tracked' /\ StreaksEnd'
  BY <1>2, <1>5 DEF Stop, PollFails, WatcherDies, WatcherEnds, EngineNext, EngineFails,
     EngineHangsUp, EngineReturns, EnginePanics, watchVars, Tracked
<1>6. ASSUME \/ PublishRecording \/ Spawn \/ PublishCommands \/ DropCommands \/ Join
             \/ Leave \/ CloseLast \/ JoinLast \/ Gone \/ BeginFails \/ SpawnFails
      PROVE  Tracked' /\ StreaksEnd'
  BY <1>2, <1>6 DEF PublishRecording, Spawn, PublishCommands, DropCommands, Join, Leave,
     CloseLast, JoinLast, Gone, BeginFails, SpawnFails, watchVars, Tracked
<1> QED
  BY <1>1, <1>3, <1>4, <1>5, <1>6 DEF Next, WatcherNext, SupervisorNext, SupervisorStep

-----------------------------------------------------------------------------
(* The three facts about the invariant, and what follows of every behaviour.*)

LEMMA InitIInv == Init => IInv
<1> SUFFICES ASSUME Init PROVE IInv
  OBVIOUS
<1>1. Tracked /\ StreaksEnd
  BY SupervisorAssumption DEF Init, Tracked, StreaksEnd, Running, Stopped, Unknown
<1>2. Placed /\ Counted
  BY SupervisorAssumption DEF Init, Placed, Counted
<1>3. Flags
  BY Zenon DEF Init, Flags
<1>4. NewsIsTrue /\ RecordingHasItsGame
  BY SupervisorAssumption DEF Init, NewsIsTrue, RecordingHasItsGame, Held
<1>5. Books
  BY SupervisorAssumption DEF Init, Books, Hand, Thread, StoreIsSomewhere, NameFollows, WatcherIsTold
<1>6. StatusFollows
  BY DEF Init, StatusFollows
<1> QED
  BY <1>1, <1>2, <1>3, <1>4, <1>5, <1>6, Zenon DEF IInv, Typed, Books

LEMMA NextIInv == IInv /\ [Next]_vars => IInv'
<1> SUFFICES ASSUME IInv, [Next]_vars PROVE IInv'
  OBVIOUS
<1>1. CASE Next
  <2>1. Tracked /\ Placed /\ Counted /\ Flags /\ StreaksEnd /\ NewsIsTrue
        /\ RecordingHasItsGame /\ Books /\ StatusFollows
    BY Zenon DEF IInv, Typed
  <2>2. Hand /\ Thread /\ queue \in Seq(Changes)
    BY <2>1, Zenon DEF Books, Tracked
  <2>3. Typed' /\ StreaksEnd' /\ Flags'
    BY <1>1, <2>1, <2>2, TrackedStep, PlacedStep, CountedStep, FlagsStep, Zenon DEF Typed
  <2>4. NewsIsTrue' /\ RecordingHasItsGame'
    BY <1>1, <2>1, <2>2, NewsStep, Zenon
  <2>5. Books' /\ StatusFollows'
    BY <1>1, <2>1, <2>2, BooksStep, StatusStep, Zenon
  <2> QED
    BY <2>3, <2>4, <2>5, Zenon DEF IInv
<1>2. CASE UNCHANGED vars
  <2>1. Typed' /\ StreaksEnd'
    <3>1. Tracked' /\ StreaksEnd'
      BY <1>2 DEF IInv, vars, watchVars, trackerVars, Typed, Tracked, StreaksEnd
    <3>2. Placed /\ Counted
      BY Zenon DEF IInv, Typed
    <3>3. Counted'
      BY <1>2, <3>2 DEF vars, worldVars, Counted
    <3>4. Placed'
      <4>1. game' \in {NameOf(g) : g \in Games} \cup {NoGame}
        <5>1. game \in {NameOf(g) : g \in Games} \cup {NoGame}
          BY <3>2, Zenon DEF Placed
        <5>2. game' = game
          BY <1>2 DEF vars, supVars
        <5> QED
          BY <5>1, <5>2, Zenon
      <4>2. UNCHANGED <<watcher, sup, subject, recording, store, engine>>
        BY <1>2 DEF vars, watchVars, supVars, engineVars
      <4> QED
        BY <3>2, <4>1, <4>2 DEF Placed
    <3> QED
      BY <3>1, <3>3, <3>4 DEF Typed
  <2>2. NewsIsTrue' /\ RecordingHasItsGame'
    BY <1>2 DEF IInv, vars, watchVars, trackerVars, supVars, NewsIsTrue, StopFollows,
       RecordingHasItsGame, Held, Closing, StopIsQueued
  <2>3. Books'
    BY <1>2 DEF IInv, vars, watchVars, supVars, engineVars, Books, Hand, Thread, StoreIsSomewhere,
       NameFollows, WatcherIsTold
  <2>4. Flags' /\ StatusFollows'
    BY <1>2, Zenon DEF IInv, vars, worldVars, supVars, engineVars, Flags, StatusFollows
  <2> QED
    BY <2>1, <2>2, <2>3, <2>4, Zenon DEF IInv
<1> QED
  BY <1>1, <1>2

LEMMA IInvHolds == Spec => []IInv
BY InitIInv, NextIInv, PTL DEF Spec

LEMMA IInvSays == IInv => RecordingIsItsGames
<1> SUFFICES ASSUME IInv PROVE RecordingIsItsGames
  OBVIOUS
<1>1. TypeOK
  BY Zenon DEF IInv, Typed, Tracked, Placed, Counted, Flags, TypeOK
<1>2. StoreComesBack
  BY DEF IInv, Books, Thread, StoreIsSomewhere, StoreComesBack
<1>3. StatusNamesTheRecording
  <2>1. commands => recording # NoGame \/ sup = "clearing"
    BY DEF IInv, StatusFollows
  <2>2. running => engine \in {"running", "closing"}
    BY DEF IInv, StatusFollows
  <2>3. ASSUME engine # "none", game # NoGame, sup # "joining last"
        PROVE  \E g \in Games : Held(g) /\ game = NameOf(g)
    BY <2>3 DEF IInv, Typed, Placed, Books, Hand, Thread, NameFollows, Held
  <2> QED
    BY <2>1, <2>2, <2>3 DEF StatusNamesTheRecording
<1>4. GoneMeansGone
  BY DEF IInv, Books, Hand, Thread, StoreIsSomewhere, NameFollows, WatcherIsTold, StatusFollows,
     GoneMeansGone
<1> QED
  BY <1>1, <1>2, <1>3, <1>4, Zenon DEF IInv, RecordingIsItsGames

(* The supervisor, its watcher and the recording's thread agree: a recording *)
(* in hand has its game running or its end on the way, the store is where   *)
(* the next recording finds it, status.game names what is recorded, and a   *)
(* shutdown that returned left nothing (spawn_supervisor, StoreGuard).      *)
THEOREM ARecordingIsItsGames == Spec => []RecordingIsItsGames
BY IInvHolds, IInvSays, PTL

(* Only a panic of the thread that has it loses the store, and a recording  *)
(* is ended only by the end of a watched game of its name (the supervisor's *)
(* Stopped arm). Names need not be distinct, and a game whose name nobody   *)
(* shares is ended by its own end: h is g then.                             *)
THEOREM NothingIsEndedByMistake == Spec => NothingEndsByMistake
<1>1. IInv /\ [Next]_vars =>
        [\A g \in Games : recording = g /\ recording' = NoGame /\ sup' = "clearing"
             => \E h \in Games : /\ Head(queue) = [change |-> Stopped, game |-> h]
                                /\ NameOf(h) = NameOf(g)]_vars
  <2> SUFFICES ASSUME IInv, Next, NEW g \in Games,
                      recording = g, recording' = NoGame, sup' = "clearing"
               PROVE  \E h \in Games : /\ Head(queue) = [change |-> Stopped, game |-> h]
                                      /\ NameOf(h) = NameOf(g)
    OBVIOUS
  <2>1. ReceiveStopped
    <3>1. sup # "clearing"
      BY SupervisorAssumption DEF IInv, Books, Hand
    <3>2. ~(Stop \/ WatcherNext \/ EngineNext) /\ \A h \in Games : ~Toggle(h)
      BY <3>1 DEF Stop, WatcherNext, Poll, PollMisreads, PollFails, WatcherDies, WatcherEnds,
         EngineNext, EngineFails, EngineHangsUp, EngineReturns, EnginePanics, Toggle, supVars
    <3>3. ~\/ ReceiveStarted \/ PublishRecording \/ Spawn \/ PublishCommands \/ DropCommands
           \/ Join \/ Leave \/ CloseLast \/ JoinLast \/ Gone \/ BeginFails \/ SpawnFails
      BY <3>1 DEF ReceiveStarted, PublishRecording, Spawn, PublishCommands, DropCommands,
         Join, Leave, CloseLast, JoinLast, Gone, BeginFails, SpawnFails, supVars
    <3> QED
      BY <3>2, <3>3 DEF Next, SupervisorNext, SupervisorStep
  <2>2. queue # <<>> /\ Head(queue).change = Stopped /\ EndsTheRecording(Head(queue).game)
    <3>1. sup # "clearing"
      BY SupervisorAssumption DEF IInv, Books, Hand
    <3> QED
      BY <2>1, <3>1 DEF ReceiveStopped, Receives, supVars
  <2>3. Head(queue) \in Changes
    BY <2>2, TailOfQueue DEF IInv, Typed, Tracked
  <2>4. NameOf(Head(queue).game) = NameOf(g)
    BY <2>2 DEF EndsTheRecording
  <2>5. Head(queue).game \in Games /\ Head(queue) = [change |-> Stopped, game |-> Head(queue).game]
    BY <2>2, <2>3 DEF Changes
  <2> QED
    BY <2>4, <2>5
<1>2. IInv /\ [Next]_vars => [store # "lost" /\ store' = "lost" => EnginePanics]_vars
  <2> SUFFICES ASSUME IInv, Next, store # "lost", store' = "lost"
               PROVE  EnginePanics
    OBVIOUS
  <2>1. ~(Stop \/ WatcherNext \/ EngineFails \/ EngineHangsUp \/ EngineReturns)
        /\ \A h \in Games : ~Toggle(h)
    BY DEF Stop, WatcherNext, Poll, PollMisreads, PollFails, WatcherDies, WatcherEnds,
       EngineFails, EngineHangsUp, EngineReturns, Toggle, engineVars
  <2>2. ~\/ ReceiveStarted \/ PublishRecording \/ Spawn \/ PublishCommands \/ ReceiveStopped
         \/ DropCommands \/ Leave \/ CloseLast \/ Gone \/ BeginFails \/ SpawnFails
    BY DEF ReceiveStarted, PublishRecording, Spawn, PublishCommands, ReceiveStopped, DropCommands,
       Leave, CloseLast, Gone, BeginFails, SpawnFails, engineVars
  <2>3. ~Join /\ ~JoinLast
    BY DEF Join, JoinLast, StoreOfJoined, IInv, Books, StoreIsSomewhere
  <2> QED
    BY <2>1, <2>2, <2>3 DEF Next, SupervisorNext, SupervisorStep, EngineNext
<1> QED
  BY <1>1, <1>2, IInvHolds, PTL DEF Spec, NothingEndsByMistake, OnlyItsGameEndsIt, LostOnlyToAPanic

=============================================================================
