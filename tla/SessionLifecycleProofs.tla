----------------------- MODULE SessionLifecycleProofs -----------------------
(* What SessionLifecycle promises, proved for every number of recorders, of *)
(* sessions and of faults and every kind of recording, as long as no        *)
(* recovery has taken a live recorder's row for a crash's: the index tells  *)
(* the truth, and footage outlives its row.                                 *)
EXTENDS SessionLifecycle, FiniteSetTheorems, TLAPS

(* The type invariant in two parts: what survives a crash, and what a       *)
(* process that dies forgets.                                               *)
DiskTyped ==
    /\ rows \in [Ids -> Row]
    /\ kind \in [Sessions -> {"segments", "part", "ram"}]
    /\ dir \in [Sessions -> {"none", "empty", "footage", "torn"}]
    /\ file \in [Sessions -> {"none", "partial", "whole"}]
    /\ begun \in 0..MaxSessions
    /\ faults \in 0..MaxFaults
ProcessTyped ==
    /\ slot \in Recorders \cup {NoOne}
    /\ at \in [Recorders -> Phases]
    /\ job \in [Recorders -> {"none", "recording", "recovery"}]
    /\ row \in [Recorders -> 0..MaxSessions]
    /\ session \in [Recorders -> 0..MaxSessions]
    /\ todo \in [Recorders -> SUBSET Ids]
    /\ seen \in [Recorders -> [Ids -> Row]]
EvictTyped ==
    /\ plan \in [Executors -> SUBSET (Sessions \X Ids)]
    /\ paths \in [Executors -> [session : 0..MaxSessions, step : {"none", "file", "tree"}]]

(* A row is some session's, begun and not another row's.                    *)
RowIsASessions(i) ==
    rows[i] # NoRow =>
        /\ rows[i].state \in {"running", "ended"}
        /\ rows[i].session \in 1..begun
        /\ \A j \in Ids : Names(j, rows[i].session) => j = i
RowsAreSessions == \A i \in Ids : RowIsASessions(i)

(* A delete that was committed removes the footage of a session no row      *)
(* names, whoever else is at work.                                          *)
DeletedIsUnnamed ==
    \A x \in Executors : paths[x].step # "none" =>
        paths[x].session \in 1..begun /\ ~ IsNamed(paths[x].session)

(* A session that is claimed has no row yet, and nobody is deleting it.     *)
ClaimedIsNew ==
    \A r \in Recorders : at[r] = "claimed" =>
        /\ ~ IsNamed(session[r])
        /\ \A x \in Executors : paths[x].step # "none" => paths[x].session # session[r]

Busy == {"opening", "recording", "closing", "writing", "written"}
Hands == Busy \cup {"claimed", "closed"}

(* What two recorders have in hand are two sessions; and one at a time      *)
(* recovers.                                                                *)
HandsApart ==
    /\ \A r \in Recorders : at[r] \in Hands => session[r] \in 1..begun
    /\ \A p \in Recorders : \A q \in Recorders \ {p} :
          at[p] \in Hands /\ at[q] \in Hands => session[p] # session[q]
Recovers(r) == at[r] = "starting" \/ job[r] = "recovery"
OneRecovers == \A p \in Recorders : \A q \in Recorders : Recovers(p) /\ Recovers(q) => p = q

(* What a recorder works on is named by one row, its own, and that row runs *)
(* until the session's file is whole.                                       *)
RowFits(r) ==
    /\ at[r] \in Busy \cup {"closed"} => row[r] \in Ids /\ session[r] \in Sessions
    /\ at[r] \in Busy => Names(row[r], session[r]) /\ IsOpen(row[r])
    /\ at[r] = "closed" =>
          \A i \in Ids : Names(i, session[r]) => rows[i].state = "ended" /\ rows[i].file
WorkHasItsRow == \A r \in Recorders : RowFits(r)

(* Footage is filmed while it records, and removed once the file is whole.  *)
FootageFits(r) ==
    /\ at[r] \in {"claimed", "opening"} => ~ HasFootage(session[r])
    /\ at[r] \in {"writing", "written"} => HasFootage(session[r])
    /\ at[r] = "written" => file[session[r]] = "whole"
WorkHasItsFootage == \A r \in Recorders : FootageFits(r)

(* A recovery is over before a recording is begun.                          *)
JobFits(r) ==
    /\ at[r] = "recovering" => job[r] = "recovery"
    /\ at[r] = "recording" => job[r] = "recording"
    /\ at[r] \in {"closing", "writing", "written", "closed"} => job[r] # "none"
    /\ at[r] \in {"down", "starting", "idle", "claimed", "opening"} => job[r] = "none"
    /\ todo[r] # {} => job[r] = "recovery"
WorkHasItsJob == \A r \in Recorders : JobFits(r)

(* What recovery has still to look at is as it was read: a row read running *)
(* still runs, one read ended without a file has no footage, and no         *)
(* recorder has either in hand.                                             *)
ToFinish(was) == was.state = "running" \/ ~ was.file
SeenFits(r, i) ==
    LET was == seen[r][i]
    IN  /\ was.session \in 1..begun /\ was.state \in {"running", "ended"}
        /\ was.state = "running" => Names(i, was.session) /\ IsOpen(i)
        /\ was.state = "ended" /\ ~ was.file => ~ HasFootage(was.session)
        /\ ToFinish(was) => \A q \in Recorders : at[q] \in Hands => session[q] # was.session
        /\ \A j \in todo[r] : seen[r][j].session = was.session => j = i
SeenIsStillSo == \A r \in Recorders : \A i \in todo[r] : SeenFits(r, i)

Work == WorkHasItsRow /\ WorkHasItsFootage /\ WorkHasItsJob

Sound ==
    /\ DiskTyped /\ ProcessTyped /\ EvictTyped
    /\ RowsAreSessions /\ DeletedIsUnnamed /\ ClaimedIsNew
    /\ HandsApart /\ OneRecovers
    /\ Work /\ SeenIsStillSo
    /\ LibraryRowHasItsFile /\ EndedEmptyMeansEmpty

IInv == mistaken \in BOOLEAN /\ (~ mistaken => Sound)

-----------------------------------------------------------------------------
(* The number a new row takes: the largest of a finite set of numbers is    *)
(* one of them.                                                             *)

UpTo(S, i) == {j \in S : j <= i}

LEMMA LargestIsThere ==
    ASSUME NEW n \in Nat, NEW S \in SUBSET (0..n), S # {}
    PROVE  Max(S) \in S /\ \A j \in S : j <= Max(S)
<1> DEFINE T == 1..Cardinality(S)
           f == [i \in S |-> Cardinality(UpTo(S, i))]
<1>1. IsFiniteSet(S) /\ Cardinality(S) \in Nat /\ Cardinality(S) # 0
  <2>1. IsFiniteSet(0..n)
    BY FS_Interval
  <2>2. IsFiniteSet(S)
    BY <2>1, FS_Subset
  <2> QED
    BY <2>2, FS_CardinalityType, FS_EmptySet
<1>2. \A i \in S : i \in Int
  OBVIOUS
<1>3. ASSUME NEW i \in S
      PROVE  IsFiniteSet(UpTo(S, i)) /\ f[i] \in T
  <2>1. UpTo(S, i) \in SUBSET S /\ i \in UpTo(S, i)
    BY <1>2 DEF UpTo
  <2>2. IsFiniteSet(UpTo(S, i)) /\ Cardinality(UpTo(S, i)) <= Cardinality(S)
    BY <1>1, <2>1, FS_Subset
  <2>3. Cardinality(UpTo(S, i)) \in Nat /\ Cardinality(UpTo(S, i)) # 0
    BY <2>1, <2>2, FS_CardinalityType, FS_EmptySet
  <2> QED
    BY <1>1, <2>2, <2>3
<1>4. ASSUME NEW a \in S, NEW b \in S, a < b
      PROVE  f[a] # f[b]
  <2>1. \A x \in S : x <= a => x <= b
    BY <1>2, <1>4
  <2>2. UpTo(S, a) \in SUBSET UpTo(S, b) /\ UpTo(S, a) # UpTo(S, b)
    <3>1. b \in UpTo(S, b) /\ b \notin UpTo(S, a)
      BY <1>2, <1>4 DEF UpTo
    <3> QED
      BY <2>1, <3>1, Zenon DEF UpTo
  <2> QED
    BY <1>3, <2>2, FS_Subset
<1>5. f \in Injection(S, T)
  BY <1>2, <1>3, <1>4 DEF Injection, IsInjective
<1>6. IsFiniteSet(T) /\ Cardinality(T) = Cardinality(S)
  BY <1>1, FS_Interval
<1>7. f \in Surjection(S, T)
  BY <1>5, <1>6, FS_Injection
<1>8. PICK m \in S : f[m] = Cardinality(S)
  <2>1. Cardinality(S) \in T
    BY <1>1
  <2> QED
    BY <1>7, <2>1, Zenon DEF Surjection
<1>9. \A j \in S : j <= m
  <2>1. UpTo(S, m) \in SUBSET S /\ Cardinality(UpTo(S, m)) = Cardinality(S)
    BY <1>8 DEF UpTo
  <2>2. UpTo(S, m) = S
    BY <1>1, <2>1, FS_Subset
  <2> QED
    BY <2>2 DEF UpTo
<1> QED
  BY <1>2, <1>9 DEF Max

LEMMA NextIdIsFree ==
    ASSUME NextId \in Ids
    PROVE  rows[NextId] = NoRow
<1> DEFINE S == {0} \cup {i \in Ids : rows[i] # NoRow}
<1>1. MaxSessions \in Nat
  BY LifecycleAssumption
<1>2. S \in SUBSET (0..MaxSessions) /\ 0 \in S
  BY <1>1 DEF Ids
<1>3. Max(S) \in S /\ \A j \in S : j <= Max(S)
  BY <1>1, <1>2, LargestIsThere
<1>4. NextId = 1 + Max(S)
  BY DEF NextId
<1> HIDE DEF S
<1>5. \A j \in S : j \in Nat
  BY <1>1, <1>2
<1>6. NextId \notin S
  <2>1. Max(S) \in Nat
    BY <1>3, <1>5
  <2> QED
    BY <1>3, <1>4, <2>1
<1> QED
  BY <1>6 DEF S

-----------------------------------------------------------------------------
(* What a step may do to the table.                                         *)

(* Ending a row keeps the session it names.                                 *)
LEMMA EndOfARow ==
    ASSUME rows \in [Ids -> Row], NEW i \in Ids, NEW named \in BOOLEAN, IsOpen(i), End(i, named)
    PROVE  /\ rows' \in [Ids -> Row]
           /\ rows'[i].state = "ended" /\ rows'[i].file = named
           /\ rows'[i].session = rows[i].session
           /\ rows[i] # NoRow /\ rows'[i] # NoRow
           /\ \A j \in Ids : j # i => rows'[j] = rows[j]
<1>1. rows'[i] = [rows[i] EXCEPT !.state = "ended", !.file = named]
  BY DEF End
<1>2. rows[i] \in Row /\ rows[i].state = "running"
  BY DEF IsOpen
<1>3. /\ rows'[i] \in Row /\ rows'[i].state = "ended" /\ rows'[i].file = named
      /\ rows'[i].session = rows[i].session
  BY <1>1, <1>2 DEF Row
<1>4. \A j \in Ids : j # i => rows'[j] = rows[j]
  BY DEF End
<1>5. rows' = [j \in Ids |-> rows'[j]]
  BY DEF End
<1> QED
  BY <1>2, <1>3, <1>4, <1>5 DEF NoRow

(* A step brings no row back: what it leaves named was named by that row.   *)
NoNewNames ==
    \A i \in Ids : rows'[i] # NoRow =>
        /\ rows[i] # NoRow
        /\ rows'[i].session = rows[i].session
        /\ rows'[i].state \in {rows[i].state, "ended"}

LEMMA EndMakesNoName ==
    ASSUME rows \in [Ids -> Row], NEW i \in Ids, NEW named \in BOOLEAN, IsOpen(i), End(i, named)
    PROVE  NoNewNames
<1>1. \A j \in Ids : rows'[j] = rows[j] \/ (rows[j] # NoRow /\ rows'[j].session = rows[j].session /\ rows'[j].state = "ended")
  BY EndOfARow
<1> QED
  BY <1>1 DEF NoNewNames

LEMMA FavourOfARow ==
    ASSUME rows \in [Ids -> Row], NEW i \in Ids, Favour(i)
    PROVE  /\ rows' \in [Ids -> Row]
           /\ rows[i] # NoRow
           /\ rows'[i].session = rows[i].session /\ rows'[i].state = rows[i].state
           /\ rows'[i].file = rows[i].file
           /\ \A j \in Ids : j # i => rows'[j] = rows[j]
<1>1. rows'[i] = [rows[i] EXCEPT !.favourite = ~ @]
  BY DEF Favour
<1>2. rows[i] \in Row /\ rows[i] # NoRow
  BY DEF Favour
<1>3. /\ rows'[i] \in Row
      /\ rows'[i].session = rows[i].session /\ rows'[i].state = rows[i].state
      /\ rows'[i].file = rows[i].file
  BY <1>1, <1>2 DEF Row
<1>4. /\ \A j \in Ids : j # i => rows'[j] = rows[j]
      /\ rows' = [j \in Ids |-> rows'[j]]
  BY DEF Favour
<1> QED
  BY <1>2, <1>3, <1>4

LEMMA DeleteOfARow ==
    ASSUME rows \in [Ids -> Row], NEW x \in Executors, EvictTyped, DeleteRow(x)
    PROVE  \/ UNCHANGED <<rows, paths>>
           \/ \E i \in Ids :
                /\ rows[i].state = "ended" /\ rows' = [rows EXCEPT ![i] = NoRow]
                /\ \E step \in {"file", "tree"} :
                     paths' = [paths EXCEPT ![x] = [session |-> rows[i].session, step |-> step]]
<1>1. PICK e \in plan[x] :
         IF rows[e[2]].state # "ended"
         THEN UNCHANGED <<rows, paths>>
         ELSE /\ rows' = [rows EXCEPT ![e[2]] = NoRow]
              /\ paths' = [paths EXCEPT ![x] =
                    [session |-> rows[e[2]].session,
                     step |-> IF rows[e[2]].file THEN "file" ELSE "tree"]]
  BY DEF DeleteRow
<1>2. e[2] \in Ids
  BY DEF EvictTyped
<1>3. (IF rows[e[2]].file THEN "file" ELSE "tree") \in {"file", "tree"}
  OBVIOUS
<1> QED
  BY <1>1, <1>2, <1>3, Zenon

(* The steps that leave the table alone. *)
RowsStay(r) ==
    \/ Recovery(r) \/ Claim(r) \/ OpenFails(r) \/ StartEngine(r) \/ Film(r) \/ Sweep(r)
    \/ StopRecording(r) \/ StartWriting(r) \/ LayoutRefused(r) \/ FinishWriting(r)
    \/ RemoveFootage(r) \/ Quit(r)

LEMMA RowsStaySo ==
    ASSUME NEW r \in Recorders, RowsStay(r)
    PROVE  rows' = rows
<1>1. CASE Recovery(r) \/ Quit(r)
  BY <1>1 DEF Recovery, Start, ListRows, Recover, Recovered, Quit
<1>2. CASE Claim(r) \/ OpenFails(r) \/ StartEngine(r) \/ Film(r) \/ Sweep(r)
  BY <1>2 DEF Claim, OpenFails, StartEngine, Film, Sweep
<1>3. CASE \/ StopRecording(r) \/ StartWriting(r) \/ LayoutRefused(r) \/ FinishWriting(r)
           \/ RemoveFootage(r)
  BY <1>3 DEF StopRecording, StartWriting, LayoutRefused, FinishWriting, RemoveFootage
<1> QED
  BY <1>1, <1>2, <1>3 DEF RowsStay

(* Every step but the opening of a row leaves no name that was not there.   *)
LEMMA OnlyOpenRowNames ==
    ASSUME DiskTyped, ProcessTyped, EvictTyped, RowsAreSessions, WorkHasItsRow, Next
    PROVE  \/ rows' \in [Ids -> Row] /\ NoNewNames
           \/ \E r \in Recorders : OpenRow(r)
<1> DEFINE Kept == rows' \in [Ids -> Row] /\ NoNewNames
<1>1. rows \in [Ids -> Row]
  BY DEF DiskTyped
<1>2. ASSUME rows' = rows
      PROVE  Kept
  BY <1>1, <1>2 DEF NoNewNames
<1>3. ASSUME NEW i \in Ids, NEW named \in BOOLEAN, IsOpen(i), End(i, named)
      PROVE  Kept
  BY <1>1, <1>3, EndOfARow, EndMakesNoName
<1>4. ASSUME NEW r \in Recorders, RowsStay(r)
      PROVE  Kept
  BY <1>2, <1>4, RowsStaySo
<1>5. ASSUME NEW r \in Recorders, SourcesFail(r)
      PROVE  Kept
  <2>1. row[r] \in Ids
    BY <1>5 DEF SourcesFail, WorkHasItsRow, RowFits, Busy
  <2>2. rows' = rows \/ (IsOpen(row[r]) /\ End(row[r], FALSE))
    BY <1>5 DEF SourcesFail
  <2> QED
    BY <1>2, <1>3, <2>1, <2>2
<1>6. ASSUME NEW r \in Recorders, CloseEmpty(r)
      PROVE  Kept
  <2>1. row[r] \in Ids
    BY <1>6 DEF CloseEmpty, WorkHasItsRow, RowFits, Busy
  <2>2. rows' = rows \/ (IsOpen(row[r]) /\ End(row[r], FALSE))
    BY <1>6 DEF CloseEmpty
  <2> QED
    BY <1>2, <1>3, <2>1, <2>2
<1>7. ASSUME NEW r \in Recorders, CloseRow(r)
      PROVE  Kept
  <2>1. row[r] \in Ids
    BY <1>7 DEF CloseRow, WorkHasItsRow, RowFits, Busy
  <2>2. rows' = rows \/ (IsOpen(row[r]) /\ End(row[r], TRUE))
    BY <1>7 DEF CloseRow
  <2> QED
    BY <1>2, <1>3, <2>1, <2>2
<1>8. ASSUME NEW x \in Executors, DeleteRow(x)
      PROVE  Kept
  <2>1. rows' = rows \/ \E i \in Ids : rows' = [rows EXCEPT ![i] = NoRow]
    BY <1>1, <1>8, DeleteOfARow
  <2>2. NoRow \in Row
    BY LifecycleAssumption DEF NoRow, Row
  <2> QED
    BY <1>1, <1>2, <2>1, <2>2 DEF NoNewNames
<1>9. ASSUME NEW x \in Executors, Unlink(x) \/ RemoveTree(x)
      PROVE  Kept
  BY <1>2, <1>9 DEF Unlink, RemoveTree
<1>10. ASSUME Look \/ Crash
       PROVE  Kept
  BY <1>2, <1>10 DEF Look, Crash
<1>11. ASSUME NEW i \in Ids, Favour(i)
       PROVE  Kept
  BY <1>1, <1>11, FavourOfARow DEF NoNewNames
<1> QED
  BY <1>4, <1>5, <1>6, <1>7, <1>8, <1>9, <1>10, <1>11
     DEF Next, Begin, Finish, Evict, RowsStay

LEMMA OnlyClaimBegins ==
    ASSUME Next
    PROVE  begun' = begun \/ \E r \in Recorders : Claim(r)
<1>1. ASSUME NEW r \in Recorders, Recovery(r) \/ Quit(r)
      PROVE  begun' = begun
  BY <1>1 DEF Recovery, Start, ListRows, Recover, Recovered, Quit
<1>2. ASSUME NEW r \in Recorders,
             OpenFails(r) \/ OpenRow(r) \/ SourcesFail(r) \/ StartEngine(r) \/ Film(r) \/ Sweep(r)
      PROVE  begun' = begun
  BY <1>2 DEF OpenFails, OpenRow, SourcesFail, StartEngine, Film, Sweep
<1>3. ASSUME NEW r \in Recorders, Finish(r)
      PROVE  begun' = begun
  BY <1>3 DEF Finish, StopRecording, CloseEmpty, StartWriting, LayoutRefused, FinishWriting,
     CloseRow, RemoveFootage
<1>4. ASSUME NEW x \in Executors, Evict(x)
      PROVE  begun' = begun
  BY <1>4 DEF Evict, DeleteRow, Unlink, RemoveTree
<1>5. ASSUME Look \/ Crash \/ \E i \in Ids : Favour(i)
      PROVE  begun' = begun
  BY <1>5 DEF Look, Crash, Favour
<1> QED
  BY <1>1, <1>2, <1>3, <1>4, <1>5 DEF Next, Begin

(* Who moves: a recorder, and then the others stay where they are; or none. *)
Moves(r) == Recovery(r) \/ Begin(r) \/ Film(r) \/ Sweep(r) \/ Finish(r) \/ Quit(r)
NoneMoves == Look \/ (\E x \in Executors : Evict(x)) \/ (\E i \in Ids : Favour(i))
Stays(q) ==
    /\ at'[q] = at[q] /\ job'[q] = job[q] /\ row'[q] = row[q] /\ session'[q] = session[q]
    /\ todo'[q] = todo[q] /\ seen'[q] = seen[q]

LEMMA WhoMoves ==
    ASSUME Next
    PROVE  (\E r \in Recorders : Moves(r)) \/ NoneMoves \/ Crash
BY DEF Next, Moves, NoneMoves

LEMMA NoneMovesSo ==
    ASSUME NoneMoves
    PROVE  UNCHANGED recorderVars
BY DEF NoneMoves, Look, Evict, DeleteRow, Unlink, RemoveTree, Favour, recorderVars

LEMMA LetGoAlone ==
    ASSUME ProcessTyped, NEW r \in Recorders, NEW q \in Recorders, q # r, LetGo(r)
    PROVE  at'[q] = at[q] /\ job'[q] = job[q] /\ row'[q] = row[q] /\ session'[q] = session[q]
BY DEF LetGo, ProcessTyped

LEMMA OthersStay ==
    ASSUME ProcessTyped, NEW r \in Recorders, Moves(r), NEW q \in Recorders, q # r
    PROVE  Stays(q)
<1>1. CASE Recovery(r)
  BY <1>1 DEF Recovery, Start, ListRows, Recover, Recovered, Stays, ProcessTyped
<1>2. CASE Begin(r)
  BY <1>2 DEF Begin, Claim, OpenFails, OpenRow, SourcesFail, StartEngine, Stays, ProcessTyped
<1>3. CASE Film(r) \/ Sweep(r) \/ Quit(r)
  BY <1>3 DEF Film, Sweep, Quit, recorderVars, Stays, ProcessTyped
<1>4. CASE Finish(r)
  <2>1. UNCHANGED <<todo, seen>>
    BY <1>4 DEF Finish, StopRecording, CloseEmpty, StartWriting, LayoutRefused, FinishWriting,
       CloseRow, RemoveFootage
  <2>2. LetGo(r) \/ (UNCHANGED <<job, row, session>> /\ \E phase : at' = [at EXCEPT ![r] = phase])
    BY <1>4 DEF Finish, StopRecording, CloseEmpty, StartWriting, LayoutRefused, FinishWriting,
       CloseRow, RemoveFootage
  <2> QED
    BY <2>1, <2>2, LetGoAlone DEF Stays, ProcessTyped
<1> QED
  BY <1>1, <1>2, <1>3, <1>4 DEF Moves

(* Only a recovery that reads the table can mistake it.                     *)
LEMMA OnlyListRowsMistakes ==
    ASSUME Next
    PROVE  \/ mistaken' = mistaken
           \/ \E r \in Recorders :
                ListRows(r) /\ mistaken' = (mistaken \/ \E q \in Recorders \ {r} : HasItsRowOpen(q))
<1>1. ASSUME NEW r \in Recorders, Recovery(r) \/ Quit(r)
      PROVE  mistaken' = mistaken \/ ListRows(r)
  BY <1>1 DEF Recovery, Start, Recover, Recovered, Quit
<1>2. ASSUME NEW r \in Recorders, Begin(r) \/ Film(r) \/ Sweep(r)
      PROVE  mistaken' = mistaken
  BY <1>2 DEF Begin, Claim, OpenFails, OpenRow, SourcesFail, StartEngine, Film, Sweep
<1>3. ASSUME NEW r \in Recorders, Finish(r)
      PROVE  mistaken' = mistaken
  BY <1>3 DEF Finish, StopRecording, CloseEmpty, StartWriting, LayoutRefused, FinishWriting,
     CloseRow, RemoveFootage
<1>4. ASSUME NoneMoves \/ Crash
      PROVE  mistaken' = mistaken
  BY <1>4 DEF NoneMoves, Look, Evict, DeleteRow, Unlink, RemoveTree, Favour, Crash
<1>5. \A r \in Recorders : ListRows(r) =>
         mistaken' = (mistaken \/ \E q \in Recorders \ {r} : HasItsRowOpen(q))
  BY DEF ListRows
<1> QED
  BY <1>1, <1>2, <1>3, <1>4, <1>5, WhoMoves DEF Moves

(* Opening a row names a session that had none, under an id that is free.   *)
LEMMA OpenRowNames ==
    ASSUME HandsApart, DiskTyped, ProcessTyped, NEW r \in Recorders, OpenRow(r)
    PROVE  /\ session[r] \in 1..begun /\ at[r] = "claimed" /\ begun' = begun
           /\ \/ UNCHANGED rows /\ at' = [at EXCEPT ![r] = "idle"]
              \/ \E i \in Ids :
                    /\ rows[i] = NoRow
                    /\ rows' = [rows EXCEPT ![i] = [session |-> session[r], state |-> "running",
                                                    file |-> FALSE, favourite |-> FALSE]]
                    /\ row' = [row EXCEPT ![r] = i] /\ at' = [at EXCEPT ![r] = "opening"]
                    /\ UNCHANGED <<dir, session>>
<1>1. at[r] = "claimed" /\ NextId \in Ids /\ begun' = begun
  BY DEF OpenRow
<1>2. rows[NextId] = NoRow /\ session[r] \in 1..begun
  BY <1>1, NextIdIsFree DEF HandsApart, Hands
<1> QED
  BY <1>1, <1>2 DEF OpenRow

LEMMA NewRowTyped ==
    ASSUME DiskTyped, NEW s \in 1..begun, NEW i \in Ids,
           rows' = [rows EXCEPT ![i] = [session |-> s, state |-> "running",
                                        file |-> FALSE, favourite |-> FALSE]]
    PROVE  /\ rows' \in [Ids -> Row]
           /\ rows'[i].session = s /\ rows'[i].state = "running" /\ rows'[i] # NoRow
           /\ \A j \in Ids : j # i => rows'[j] = rows[j]
<1> DEFINE new == [session |-> s, state |-> "running", file |-> FALSE, favourite |-> FALSE]
<1>1. s \in 0..MaxSessions
  BY LifecycleAssumption DEF DiskTyped
<1>2. new \in Row /\ new # NoRow
  BY <1>1 DEF Row, NoRow
<1>3. new.session = s /\ new.state = "running"
  OBVIOUS
<1> QED
  BY <1>2, <1>3 DEF DiskTyped

-----------------------------------------------------------------------------
(* The invariant is kept, one group of its conjuncts at a time.             *)

(* What a recorder has in hand after its step: what it had, the session it  *)
(* claims, or the one its recovery takes from what it has still to look at. *)
HandFollows(r) ==
    \/ at'[r] \notin Hands
    \/ at[r] \in Hands /\ session'[r] = session[r] /\ (at'[r] = "claimed" => at[r] = "claimed")
    \/ Claim(r) /\ session'[r] = begun + 1 /\ begun' = begun + 1
    \/ \E n \in todo[r] :
          /\ at[r] = "recovering" /\ at'[r] = "closing" /\ todo'[r] = todo[r] \ {n}
          /\ session'[r] = seen[r][n].session /\ Unfinished(r, n)

LEMMA HandOfMover ==
    ASSUME ProcessTyped, NEW r \in Recorders, Moves(r)
    PROVE  HandFollows(r)
<1>1. ASSUME at'[r] \in {"starting", "recovering", "idle", "down"}
      PROVE  HandFollows(r)
  BY <1>1 DEF HandFollows, Hands, Busy
<1>2. ASSUME at[r] \in Busy \cup {"closed"}, session' = session, at'[r] # "claimed"
      PROVE  HandFollows(r)
  BY <1>2 DEF HandFollows, Hands
<1>3. CASE Start(r) \/ ListRows(r) \/ Recovered(r) \/ Quit(r) \/ OpenFails(r) \/ SourcesFail(r)
  <2>1. at'[r] \in {"starting", "recovering", "idle", "down"}
    BY <1>3 DEF Start, ListRows, Recovered, Quit, OpenFails, SourcesFail, ProcessTyped
  <2> QED
    BY <1>1, <2>1
<1>4. CASE Recover(r)
  <2>1. PICK n \in todo[r] :
           /\ todo' = [todo EXCEPT ![r] = @ \ {n}]
           /\ \/ /\ Unfinished(r, n) /\ at' = [at EXCEPT ![r] = "closing"]
                 /\ session' = [session EXCEPT ![r] = seen[r][n].session]
              \/ at' = at
    BY <1>4 DEF Recover, IsNext
  <2>2. at[r] = "recovering"
    BY <1>4 DEF Recover
  <2>3. CASE at' = at
    BY <1>1, <2>2, <2>3
  <2>4. CASE /\ Unfinished(r, n) /\ at' = [at EXCEPT ![r] = "closing"]
             /\ session' = [session EXCEPT ![r] = seen[r][n].session]
    BY <2>1, <2>2, <2>4 DEF HandFollows, ProcessTyped
  <2> QED
    BY <2>1, <2>3, <2>4
<1>5. CASE Claim(r)
  BY <1>5 DEF Claim, HandFollows, ProcessTyped
<1>6. CASE OpenRow(r)
  <2>1. at'[r] = "idle" \/ (at[r] = "claimed" /\ at'[r] = "opening" /\ session' = session)
    BY <1>6 DEF OpenRow, ProcessTyped
  <2> QED
    BY <1>1, <2>1 DEF HandFollows, Hands
<1>7. CASE StartEngine(r)
  <2>1. at'[r] = "idle" \/ (at[r] \in Busy /\ at'[r] # "claimed" /\ session' = session)
    BY <1>7 DEF StartEngine, ProcessTyped, Busy
  <2> QED
    BY <1>1, <1>2, <2>1
<1>8. CASE Film(r) \/ Sweep(r)
  BY <1>2, <1>8 DEF Film, Sweep, recorderVars, Busy
<1>9. CASE LetGo(r)
  <2>1. at'[r] \in {"recovering", "idle", "down"}
    BY <1>9 DEF LetGo, ProcessTyped
  <2> QED
    BY <1>1, <2>1
<1>10. CASE Finish(r)
  <2>1. LetGo(r) \/ (at[r] \in Busy \cup {"closed"} /\ session' = session /\ at'[r] # "claimed")
    BY <1>10 DEF Finish, StopRecording, CloseEmpty, StartWriting, LayoutRefused, FinishWriting,
       CloseRow, RemoveFootage, Busy, ProcessTyped
  <2> QED
    BY <1>2, <1>9, <2>1
<1> QED
  BY <1>3, <1>4, <1>5, <1>6, <1>7, <1>8, <1>10 DEF Moves, Recovery, Begin

LEMMA RowsStep ==
    ASSUME DiskTyped, ProcessTyped, EvictTyped, RowsAreSessions, ClaimedIsNew, HandsApart,
           WorkHasItsRow, Next
    PROVE  rows' \in [Ids -> Row] /\ RowsAreSessions'
<1>1. begun \in Nat /\ begun' \in Nat /\ begun <= begun'
  BY OnlyClaimBegins DEF Claim, DiskTyped
<1>2. CASE rows' \in [Ids -> Row] /\ NoNewNames
  <2> SUFFICES ASSUME NEW i \in Ids, rows'[i] # NoRow
               PROVE  /\ rows'[i].state \in {"running", "ended"}
                      /\ rows'[i].session \in 1..begun'
                      /\ \A j \in Ids : rows'[j] # NoRow /\ rows'[j].session = rows'[i].session
                            => j = i
    BY <1>2 DEF RowsAreSessions, RowIsASessions, Names
  <2>1. /\ rows[i] # NoRow /\ rows'[i].session = rows[i].session
        /\ rows'[i].state \in {rows[i].state, "ended"}
        /\ \A j \in Ids : rows'[j] # NoRow => rows[j] # NoRow /\ rows'[j].session = rows[j].session
    BY <1>2 DEF NoNewNames
  <2>2. RowIsASessions(i)
    BY DEF RowsAreSessions
  <2> QED
    BY <1>1, <2>1, <2>2 DEF RowIsASessions, Names, Ids
<1>3. ASSUME NEW r \in Recorders, OpenRow(r), rows' # rows
      PROVE  rows' \in [Ids -> Row] /\ RowsAreSessions'
  <2>1. /\ session[r] \in 1..begun /\ begun' = begun /\ at[r] = "claimed"
        /\ \A i \in Ids : rows[i] # NoRow => rows[i].session # session[r]
    BY <1>3, OpenRowNames DEF ClaimedIsNew, IsNamed, Names
  <2>2. PICK n \in Ids : /\ rows[n] = NoRow
                         /\ rows' \in [Ids -> Row]
                         /\ rows'[n].session = session[r] /\ rows'[n].state = "running"
                         /\ rows'[n] # NoRow
                         /\ \A j \in Ids : j # n => rows'[j] = rows[j]
    BY <1>3, <2>1, OpenRowNames, NewRowTyped
  <2>3. ASSUME NEW i \in Ids, rows'[i] # NoRow
        PROVE  /\ rows'[i].state \in {"running", "ended"}
               /\ rows'[i].session \in 1..begun'
               /\ \A j \in Ids : rows'[j] # NoRow /\ rows'[j].session = rows'[i].session => j = i
    <3>1. CASE i = n
      <4>1. \A j \in Ids : j # n /\ rows'[j] # NoRow => rows'[j].session # session[r]
        BY <2>1, <2>2
      <4> QED
        BY <2>1, <2>2, <3>1, <4>1
    <3>2. CASE i # n
      <4>1. rows'[i] = rows[i] /\ RowIsASessions(i) /\ rows[i].session # session[r]
        BY <2>1, <2>2, <2>3, <3>2 DEF RowsAreSessions
      <4>2. \A j \in Ids : rows'[j] # NoRow /\ rows'[j].session = rows[i].session => j # n
        BY <2>2, <4>1
      <4> QED
        BY <2>1, <2>2, <2>3, <4>1, <4>2 DEF RowIsASessions, Names
    <3> QED
      BY <3>1, <3>2
  <2> QED
    BY <2>2, <2>3 DEF RowsAreSessions, RowIsASessions, Names
<1>4. ASSUME rows' = rows
      PROVE  rows' \in [Ids -> Row] /\ NoNewNames
  BY <1>4 DEF DiskTyped, NoNewNames
<1> QED
  BY <1>2, <1>3, <1>4, OnlyOpenRowNames

(* What a delete has still to remove it had already, or it is of the row    *)
(* that this step deletes.                                                  *)
PathsFollow ==
    \A x \in Executors : paths'[x].step # "none" =>
        \/ paths[x].step # "none" /\ paths'[x].session = paths[x].session
        \/ \E i \in Ids : /\ rows[i].state = "ended"
                          /\ rows' = [rows EXCEPT ![i] = NoRow]
                          /\ paths'[x].session = rows[i].session

LEMMA PathsStep ==
    ASSUME DiskTyped, EvictTyped, Next
    PROVE  PathsFollow
<1>1. ASSUME paths' = paths
      PROVE  PathsFollow
  BY <1>1 DEF PathsFollow
<1>2. ASSUME NEW r \in Recorders, Recovery(r) \/ Begin(r) \/ Film(r) \/ Sweep(r) \/ Quit(r)
      PROVE  PathsFollow
  BY <1>1, <1>2 DEF Recovery, Start, ListRows, Recover, Recovered, Begin, Claim, OpenFails, OpenRow,
     SourcesFail, StartEngine, Film, Sweep, Quit, evictVars
<1>3. ASSUME NEW r \in Recorders, Finish(r)
      PROVE  PathsFollow
  BY <1>1, <1>3 DEF Finish, StopRecording, CloseEmpty, StartWriting, LayoutRefused, FinishWriting,
     CloseRow, RemoveFootage, evictVars
<1>4. ASSUME NEW x \in Executors, DeleteRow(x)
      PROVE  PathsFollow
  <2>1. CASE UNCHANGED paths
    BY <1>1, <2>1
  <2>2. ASSUME NEW i \in Ids, rows[i].state = "ended", rows' = [rows EXCEPT ![i] = NoRow],
               NEW step \in {"file", "tree"},
               paths' = [paths EXCEPT ![x] = [session |-> rows[i].session, step |-> step]]
        PROVE  PathsFollow
    <3>1. \A y \in Executors : y # x => paths'[y] = paths[y]
      BY <2>2 DEF EvictTyped
    <3>2. paths'[x].session = rows[i].session
      BY <2>2 DEF EvictTyped
    <3> QED
      BY <2>2, <3>1, <3>2 DEF PathsFollow
  <2> QED
    BY <1>4, <2>1, <2>2, DeleteOfARow DEF DiskTyped
<1>5. ASSUME NEW x \in Executors, Unlink(x)
      PROVE  PathsFollow
  BY <1>5 DEF Unlink, PathsFollow, EvictTyped
<1>6. ASSUME NEW x \in Executors, RemoveTree(x)
      PROVE  PathsFollow
  BY <1>6 DEF RemoveTree, PathsFollow, EvictTyped, NoPaths
<1>7. ASSUME Look \/ \E i \in Ids : Favour(i)
      PROVE  PathsFollow
  BY <1>1, <1>7 DEF Look, Favour, evictVars
<1>8. ASSUME Crash
      PROVE  PathsFollow
  BY <1>8 DEF Crash, PathsFollow, NoPaths
<1> QED
  BY <1>2, <1>3, <1>4, <1>5, <1>6, <1>7, <1>8 DEF Next, Evict

LEMMA DeletedStep ==
    ASSUME DiskTyped, ProcessTyped, EvictTyped, RowsAreSessions, DeletedIsUnnamed, ClaimedIsNew,
           HandsApart, WorkHasItsRow, Next
    PROVE  DeletedIsUnnamed'
<1>1. begun \in Nat /\ begun' \in Nat /\ begun <= begun'
  BY OnlyClaimBegins DEF Claim, DiskTyped
<1>2. PathsFollow
  BY PathsStep
<1>3. ASSUME NEW x \in Executors, paths'[x].step # "none"
      PROVE  paths'[x].session \in 1..begun'
  <2>1. \A i \in Ids : rows[i].state = "ended" => rows[i].session \in 1..begun
    BY DEF RowsAreSessions, RowIsASessions, NoRow
  <2>2. paths'[x].session \in 1..begun
    BY <1>2, <1>3, <2>1 DEF PathsFollow, DeletedIsUnnamed
  <2> QED
    BY <1>1, <2>2
<1>4. ASSUME NEW x \in Executors, paths'[x].step # "none",
             NEW n \in Ids, rows'[n] # NoRow, rows'[n].session = paths'[x].session
      PROVE  FALSE
  <2>1. CASE NoNewNames
    <3>1. rows[n] # NoRow /\ rows[n].session = paths'[x].session
      BY <1>4, <2>1 DEF NoNewNames
    <3>2. CASE paths[x].step # "none" /\ paths'[x].session = paths[x].session
      BY <3>1, <3>2 DEF DeletedIsUnnamed, IsNamed, Names
    <3>3. ASSUME NEW i \in Ids, rows[i].state = "ended", rows' = [rows EXCEPT ![i] = NoRow],
                 paths'[x].session = rows[i].session
          PROVE  FALSE
      <4>1. rows[i] # NoRow /\ RowIsASessions(i)
        BY <3>3 DEF NoRow, RowsAreSessions
      <4>2. n = i
        BY <3>1, <3>3, <4>1 DEF RowIsASessions, Names
      <4> QED
        BY <1>4, <3>3, <4>2 DEF DiskTyped
    <3> QED
      BY <1>2, <1>4, <3>2, <3>3 DEF PathsFollow
  <2>2. ASSUME NEW r \in Recorders, OpenRow(r)
        PROVE  FALSE
    <3>1. paths' = paths /\ at[r] = "claimed" /\ session[r] \in 1..begun
      BY <2>2, OpenRowNames DEF OpenRow, evictVars
    <3>2. paths[x].session # session[r] /\ ~ IsNamed(paths[x].session)
      BY <1>4, <3>1 DEF ClaimedIsNew, DeletedIsUnnamed
    <3>3. rows'[n].session = session[r] \/ rows'[n] = rows[n]
      BY <2>2, <3>1, OpenRowNames, NewRowTyped
    <3> QED
      BY <1>4, <3>1, <3>2, <3>3 DEF IsNamed, Names
  <2> QED
    BY <2>1, <2>2, OnlyOpenRowNames
<1> QED
  BY <1>3, <1>4 DEF DeletedIsUnnamed, IsNamed, Names

(* What a step leaves claimed was claimed before, or it claims it.          *)
LEMMA ClaimedStep ==
    ASSUME DiskTyped, ProcessTyped, EvictTyped, RowsAreSessions, DeletedIsUnnamed, ClaimedIsNew,
           HandsApart, WorkHasItsRow, Next
    PROVE  ClaimedIsNew'
<1> SUFFICES ASSUME NEW q \in Recorders, at'[q] = "claimed"
             PROVE  /\ \A i \in Ids : rows'[i] # NoRow => rows'[i].session # session'[q]
                    /\ \A x \in Executors :
                          paths'[x].step # "none" => paths'[x].session # session'[q]
  BY DEF ClaimedIsNew, IsNamed, Names
<1>1. begun \in Nat
  BY DEF DiskTyped
<1>2. CASE Claim(q)
  <2>1. session'[q] = begun + 1 /\ rows' = rows /\ paths' = paths
    BY <1>2 DEF Claim, evictVars, ProcessTyped
  <2>2. \A i \in Ids : rows[i] # NoRow => rows[i].session \in 1..begun
    BY DEF RowsAreSessions, RowIsASessions
  <2>3. \A x \in Executors : paths[x].step # "none" => paths[x].session \in 1..begun
    BY DEF DeletedIsUnnamed
  <2> QED
    BY <1>1, <2>1, <2>2, <2>3
<1>3. CASE at[q] = "claimed" /\ session'[q] = session[q]
  <2>1. /\ \A i \in Ids : rows[i] # NoRow => rows[i].session # session[q]
        /\ \A x \in Executors : paths[x].step # "none" => paths[x].session # session[q]
    BY <1>3 DEF ClaimedIsNew, IsNamed, Names
  <2>2. ASSUME NEW i \in Ids, rows'[i] # NoRow
        PROVE  rows'[i].session # session[q]
    <3>1. CASE NoNewNames
      BY <2>1, <2>2, <3>1 DEF NoNewNames
    <3>2. ASSUME NEW r \in Recorders, OpenRow(r)
          PROVE  rows'[i].session # session[q]
      <4>1. at[r] = "claimed" /\ session[r] \in 1..begun /\ at'[r] # "claimed"
        BY <3>2, OpenRowNames DEF ProcessTyped
      <4>2. session[r] # session[q]
        BY <1>3, <4>1 DEF HandsApart, Hands
      <4>3. rows'[i].session = session[r] \/ rows'[i] = rows[i]
        BY <3>2, <4>1, OpenRowNames, NewRowTyped
      <4> QED
        BY <2>1, <2>2, <4>2, <4>3
    <3> QED
      BY <3>1, <3>2, OnlyOpenRowNames
  <2>3. ASSUME NEW x \in Executors, paths'[x].step # "none"
        PROVE  paths'[x].session # session[q]
    <3>1. \A i \in Ids : rows[i].state = "ended" => rows[i] # NoRow
      BY DEF NoRow
    <3> QED
      BY <2>1, <2>3, <3>1, PathsStep DEF PathsFollow
  <2> QED
    BY <1>3, <2>2, <2>3
<1>4. Claim(q) \/ (at[q] = "claimed" /\ session'[q] = session[q])
  <2>1. CASE Moves(q)
    BY <2>1, HandOfMover DEF HandFollows, Hands
  <2>2. ASSUME NEW r \in Recorders, r # q, Moves(r)
        PROVE  at[q] = "claimed" /\ session'[q] = session[q]
    BY <2>2, OthersStay DEF Stays
  <2>3. CASE NoneMoves
    BY <2>3, NoneMovesSo DEF recorderVars
  <2>4. CASE Crash
    BY <2>4 DEF Crash
  <2> QED
    BY <2>1, <2>2, <2>3, <2>4, WhoMoves
<1> QED
  BY <1>2, <1>3, <1>4

LEMMA FaultTyped ==
    ASSUME faults \in 0..MaxFaults, Fault \/ NoFault
    PROVE  faults' \in 0..MaxFaults
BY LifecycleAssumption DEF Fault, NoFault

(* What a recovery takes in hand nobody has in hand.                        *)
LEMMA HandsStep ==
    ASSUME DiskTyped, ProcessTyped, HandsApart, SeenIsStillSo, Next
    PROVE  HandsApart'
<1>1. begun \in Nat /\ begun' \in Nat /\ begun <= begun'
  BY OnlyClaimBegins DEF Claim, DiskTyped
<1>2. ASSUME NEW r \in Recorders, Moves(r), at'[r] \in Hands
      PROVE  /\ session'[r] \in 1..begun'
             /\ \A q \in Recorders : q # r /\ at[q] \in Hands => session[q] # session'[r]
  <2>1. CASE at[r] \in Hands /\ session'[r] = session[r]
    BY <1>1, <2>1 DEF HandsApart
  <2>2. CASE session'[r] = begun + 1 /\ begun' = begun + 1
    BY <1>1, <2>2 DEF HandsApart
  <2>3. ASSUME NEW n \in todo[r], session'[r] = seen[r][n].session, Unfinished(r, n)
        PROVE  /\ session'[r] \in 1..begun'
               /\ \A q \in Recorders : at[q] \in Hands => session[q] # session'[r]
    <3>1. SeenFits(r, n) /\ ToFinish(seen[r][n])
      BY <2>3 DEF SeenIsStillSo, Unfinished, ToFinish
    <3> QED
      BY <1>1, <2>3, <3>1 DEF SeenFits
  <2> QED
    BY <1>2, <2>1, <2>2, <2>3, HandOfMover DEF HandFollows
<1>3. ASSUME NEW r \in Recorders, Moves(r)
      PROVE  HandsApart'
  <2>1. \A q \in Recorders : q # r => at'[q] = at[q] /\ session'[q] = session[q]
    BY <1>3, OthersStay DEF Stays
  <2>2. ASSUME NEW q \in Recorders, at'[q] \in Hands
        PROVE  session'[q] \in 1..begun'
    BY <1>1, <1>2, <1>3, <2>1, <2>2 DEF HandsApart
  <2>3. ASSUME NEW q \in Recorders, NEW p \in Recorders, p # q, at'[q] \in Hands, at'[p] \in Hands
        PROVE  session'[p] # session'[q]
    BY <1>2, <1>3, <2>1, <2>3 DEF HandsApart
  <2> QED
    BY <2>2, <2>3 DEF HandsApart
<1>4. CASE NoneMoves
  BY <1>1, <1>4, NoneMovesSo DEF recorderVars, HandsApart
<1>5. CASE Crash
  BY <1>5 DEF Crash, HandsApart, Hands, Busy
<1> QED
  BY <1>3, <1>4, <1>5, WhoMoves

(* A recorder starts only when none recovers.                               *)
LEMMA RecoversStep ==
    ASSUME ProcessTyped, WorkHasItsJob, OneRecovers, Next
    PROVE  OneRecovers'
<1>1. ASSUME NEW r \in Recorders, Moves(r), Recovers(r)'
      PROVE  Recovers(r) \/ Start(r)
  <2>1. CASE ListRows(r) \/ Recover(r) \/ Recovered(r) \/ Quit(r)
    BY <1>1, <2>1 DEF ListRows, Recover, Recovered, Quit, WorkHasItsJob, JobFits, Recovers, ProcessTyped
  <2>2. CASE Begin(r) \/ Film(r) \/ Sweep(r)
    BY <1>1, <2>2 DEF Begin, Claim, OpenFails, OpenRow, SourcesFail, StartEngine, Film, Sweep,
       recorderVars, Recovers, ProcessTyped
  <2>3. CASE LetGo(r)
    BY <1>1, <2>3 DEF LetGo, Recovers, ProcessTyped
  <2>4. CASE Finish(r)
    <3>1. LetGo(r) \/ (job' = job /\ at'[r] # "starting")
      BY <2>4 DEF Finish, StopRecording, CloseEmpty, StartWriting, LayoutRefused, FinishWriting,
         CloseRow, RemoveFootage, ProcessTyped
    <3> QED
      BY <1>1, <2>3, <3>1 DEF Recovers
  <2> QED
    BY <1>1, <2>1, <2>2, <2>4 DEF Moves, Recovery
<1>2. ASSUME NEW r \in Recorders, Moves(r)
      PROVE  OneRecovers'
  <2>1. \A q \in Recorders : q # r => (Recovers(q)' <=> Recovers(q))
    BY <1>2, OthersStay DEF Stays, Recovers
  <2>2. Start(r) => \A q \in Recorders : ~ Recovers(q)
    BY DEF Start, Recovers
  <2>3. ASSUME NEW p \in Recorders, NEW q \in Recorders, Recovers(p)', Recovers(q)', p # q
        PROVE  FALSE
    BY <1>1, <1>2, <2>1, <2>2, <2>3 DEF OneRecovers
  <2> QED
    BY <2>3 DEF OneRecovers
<1>3. CASE NoneMoves
  BY <1>3, NoneMovesSo DEF recorderVars, OneRecovers, Recovers
<1>4. CASE Crash
  BY <1>4 DEF Crash, OneRecovers, Recovers
<1> QED
  BY <1>2, <1>3, <1>4, WhoMoves

LEMMA DiskStep ==
    ASSUME DiskTyped, ProcessTyped, EvictTyped, RowsAreSessions, ClaimedIsNew, HandsApart,
           WorkHasItsRow, Next
    PROVE  DiskTyped'
<1> DEFINE Dirs == [Sessions -> {"none", "empty", "footage", "torn"}]
           Files == [Sessions -> {"none", "partial", "whole"}]
           DiskSo == /\ kind' \in [Sessions -> {"segments", "part", "ram"}] /\ dir' \in Dirs
                     /\ file' \in Files /\ begun' \in 0..MaxSessions /\ faults' \in 0..MaxFaults
<1>1. rows' \in [Ids -> Row]
  BY RowsStep
<1>2. /\ kind \in [Sessions -> {"segments", "part", "ram"}] /\ dir \in Dirs /\ file \in Files
      /\ begun \in 0..MaxSessions /\ faults \in 0..MaxFaults
  BY DEF DiskTyped
<1>3. MaxSessions \in Nat
  BY LifecycleAssumption
<1>4. ASSUME NEW r \in Recorders,
             Recovery(r) \/ Quit(r) \/ OpenFails(r) \/ StartEngine(r) \/ Sweep(r) \/ StopRecording(r) \/ LayoutRefused(r)
      PROVE  DiskSo
  <2>1. UNCHANGED <<kind, dir, file, begun>> /\ (Fault \/ NoFault)
    BY <1>4 DEF Recovery, Start, ListRows, Recover, Recovered, Quit, OpenFails, StartEngine, Sweep,
       StopRecording, LayoutRefused, diskVars, NoFault
  <2> QED
    BY <1>2, <2>1, FaultTyped
<1>5. ASSUME NEW r \in Recorders, Claim(r)
      PROVE  DiskSo
  <2>1. PICK k \in Kinds : /\ kind' = [kind EXCEPT ![begun + 1] = k]
                           /\ dir' = [dir EXCEPT ![begun + 1] = IF k = "ram" THEN "none" ELSE "empty"]
    BY <1>5 DEF Claim
  <2>2. k \in {"segments", "part", "ram"}
    BY LifecycleAssumption
  <2>3. begun' \in 0..MaxSessions /\ file' = file /\ faults' = faults
    BY <1>2, <1>3, <1>5 DEF Claim
  <2> QED
    BY <1>2, <2>1, <2>2, <2>3
<1>6. ASSUME NEW r \in Recorders, OpenRow(r) \/ SourcesFail(r) \/ Film(r)
      PROVE  DiskSo
  <2>1. /\ UNCHANGED <<kind, file, begun>> /\ (Fault \/ NoFault)
        /\ \/ dir' = dir
           \/ \E left \in {"none", "footage", dir[session[r]]} : dir' = [dir EXCEPT ![session[r]] = left]
    BY <1>6 DEF OpenRow, SourcesFail, Film, NoFault
  <2>2. dir' \in Dirs
    BY <1>2, <2>1
  <2> QED
    BY <1>2, <2>1, <2>2, FaultTyped
<1>7. ASSUME NEW s, RemoveDir(s)
      PROVE  dir' \in Dirs /\ (Fault \/ NoFault)
  BY <1>2, <1>7 DEF RemoveDir
<1>8. ASSUME NEW r \in Recorders, CloseEmpty(r)
      PROVE  DiskSo
  <2>1. UNCHANGED <<kind, file, begun>>
    BY <1>8 DEF CloseEmpty
  <2>2. \/ RemoveDir(session[r])
        \/ /\ Fault \/ NoFault
           /\ \E left \in {"none", dir[session[r]]} : dir' = [dir EXCEPT ![session[r]] = left]
    BY <1>8 DEF CloseEmpty
  <2>3. dir' \in Dirs /\ (Fault \/ NoFault)
    BY <1>2, <1>7, <2>2
  <2> QED
    BY <1>2, <2>1, <2>3, FaultTyped
<1>9. ASSUME NEW r \in Recorders, StartWriting(r) \/ FinishWriting(r)
      PROVE  DiskSo
  <2>1. /\ UNCHANGED <<kind, dir, begun>> /\ (Fault \/ NoFault)
        /\ \E v \in {"none", "partial", "whole"} : file' = [file EXCEPT ![session[r]] = v]
    BY <1>9 DEF StartWriting, FinishWriting, NoFault
  <2>2. file' \in Files
    BY <1>2, <2>1
  <2> QED
    BY <1>2, <2>1, <2>2, FaultTyped
<1>10. ASSUME NEW r \in Recorders, CloseRow(r) \/ RemoveFootage(r)
       PROVE  DiskSo
  <2>1. UNCHANGED <<kind, file, begun>>
    BY <1>10 DEF CloseRow, RemoveFootage, diskVars
  <2>2. CASE CloseRow(r)
    <3>1. dir' = dir /\ (Fault \/ NoFault)
      BY <2>2 DEF CloseRow, diskVars
    <3> QED
      BY <1>2, <2>1, <3>1, FaultTyped
  <2>3. CASE RemoveFootage(r)
    <3>1. dir' \in Dirs /\ (Fault \/ NoFault)
      BY <1>7, <2>3 DEF RemoveFootage
    <3> QED
      BY <1>2, <2>1, <3>1, FaultTyped
  <2> QED
    BY <1>10, <2>2, <2>3
<1>11. ASSUME NEW x \in Executors, DeleteRow(x) \/ Look \/ \E i \in Ids : Favour(i)
       PROVE  DiskSo
  BY <1>2, <1>11 DEF DeleteRow, Look, Favour, diskVars
<1>12. ASSUME NEW x \in Executors, Unlink(x)
       PROVE  DiskSo
  <2>1. /\ UNCHANGED <<kind, dir, begun>> /\ (Fault \/ NoFault)
        /\ file' = file \/ file' = [file EXCEPT ![paths[x].session] = "none"]
    BY <1>12 DEF Unlink
  <2>2. file' \in Files
    BY <1>2, <2>1
  <2> QED
    BY <1>2, <2>1, <2>2, FaultTyped
<1>13. ASSUME NEW x \in Executors, RemoveTree(x)
       PROVE  DiskSo
  <2>1. UNCHANGED <<kind, file, begun>> /\ RemoveDir(paths[x].session)
    BY <1>13 DEF RemoveTree
  <2>2. dir' \in Dirs /\ (Fault \/ NoFault)
    BY <1>7, <2>1
  <2> QED
    BY <1>2, <2>1, <2>2, FaultTyped
<1>14. ASSUME Crash
       PROVE  DiskSo
  <2>1. UNCHANGED <<kind, file, begun>> /\ (Fault \/ NoFault)
    BY <1>14 DEF Crash
  <2>2. PICK torn : dir' = [s \in Sessions |-> IF s \in torn THEN "torn" ELSE dir[s]]
    BY <1>14 DEF Crash
  <2>3. dir' \in Dirs
    BY <1>2, <2>2
  <2> QED
    BY <1>2, <2>1, <2>3, FaultTyped
<1>15. User \in Executors
  BY DEF Executors
<1>16. DiskSo
  BY <1>4, <1>5, <1>6, <1>8, <1>9, <1>10, <1>11, <1>12, <1>13, <1>14, <1>15
     DEF Next, Begin, Finish, Evict
<1> QED
  BY <1>1, <1>16 DEF DiskTyped

LEMMA EndedIsASession ==
    ASSUME DiskTyped, RowsAreSessions, NEW i \in Ids, rows[i].state = "ended"
    PROVE  rows[i] # NoRow /\ rows[i].session \in Sessions
<1>1. rows[i] # NoRow
  BY DEF NoRow
<1>2. rows[i].session \in 1..begun
  BY <1>1 DEF RowsAreSessions, RowIsASessions
<1>3. begun \in 0..MaxSessions /\ MaxSessions \in Nat
  BY LifecycleAssumption DEF DiskTyped
<1> QED
  BY <1>1, <1>2, <1>3 DEF Sessions

LEMMA PlansTyped ==
    ASSUME DiskTyped, RowsAreSessions, NEW p \in Plans
    PROVE  p \in SUBSET (Sessions \X Ids)
<1>1. \A i \in Ids : ~ Exempt(i) => rows[i].session \in Sessions
  BY EndedIsASession DEF Exempt
<1> QED
  BY <1>1 DEF Plans

LEMMA EvictStep ==
    ASSUME DiskTyped, EvictTyped, RowsAreSessions, Next
    PROVE  EvictTyped'
<1> DEFINE PlanSo == plan' \in [Executors -> SUBSET (Sessions \X Ids)]
           PathsSo == paths' \in [Executors -> [session : 0..MaxSessions, step : {"none", "file", "tree"}]]
<1>1. /\ plan \in [Executors -> SUBSET (Sessions \X Ids)]
      /\ paths \in [Executors -> [session : 0..MaxSessions, step : {"none", "file", "tree"}]]
  BY DEF EvictTyped
<1>2. ASSUME NEW x \in Executors, NEW p \in Plans, plan' = [plan EXCEPT ![x] = p]
      PROVE  PlanSo
  BY <1>1, <1>2, PlansTyped
<1>3. ASSUME NEW r \in Recorders, LetGo(r)
      PROVE  PlanSo
  BY <1>1, <1>2, <1>3 DEF LetGo, Executors
<1>4. ASSUME NEW r \in Recorders, Recovery(r) \/ Quit(r) \/ Begin(r) \/ Film(r) \/ Sweep(r)
      PROVE  PlanSo /\ PathsSo
  <2>1. paths' = paths
    BY <1>4 DEF Recovery, Start, ListRows, Recover, Recovered, Quit, Begin, Claim, OpenFails, OpenRow,
       SourcesFail, StartEngine, Film, Sweep, evictVars
  <2>2. plan' = plan \/ \E p \in Plans : plan' = [plan EXCEPT ![r] = p]
    BY <1>4 DEF Recovery, Start, ListRows, Recover, Recovered, Quit, Begin, Claim, OpenFails, OpenRow,
       SourcesFail, StartEngine, Film, Sweep, evictVars
  <2> QED
    BY <1>1, <1>2, <2>1, <2>2 DEF Executors
<1>5. ASSUME NEW r \in Recorders, Finish(r)
      PROVE  PlanSo /\ PathsSo
  <2>1. paths' = paths
    BY <1>5 DEF Finish, StopRecording, CloseEmpty, StartWriting, LayoutRefused, FinishWriting,
       CloseRow, RemoveFootage, evictVars
  <2>2. plan' = plan \/ LetGo(r)
    BY <1>5 DEF Finish, StopRecording, CloseEmpty, StartWriting, LayoutRefused, FinishWriting,
       CloseRow, RemoveFootage, evictVars
  <2> QED
    BY <1>1, <1>3, <2>1, <2>2
<1>6. ASSUME NEW x \in Executors, DeleteRow(x)
      PROVE  PlanSo /\ PathsSo
  <2>1. PlanSo
    BY <1>1, <1>6 DEF DeleteRow
  <2>2. paths' = paths \/ \E i \in Ids, step \in {"file", "tree"} :
           /\ rows[i].state = "ended"
           /\ paths' = [paths EXCEPT ![x] = [session |-> rows[i].session, step |-> step]]
    BY <1>6, DeleteOfARow DEF DiskTyped
  <2>3. \A i \in Ids : rows[i].state = "ended" => rows[i].session \in 0..MaxSessions
    BY DEF DiskTyped, Row
  <2> QED
    BY <1>1, <2>1, <2>2, <2>3
<1>7. ASSUME NEW x \in Executors, Unlink(x) \/ RemoveTree(x)
      PROVE  PlanSo /\ PathsSo
  <2>1. NoPaths \in [session : 0..MaxSessions, step : {"none", "file", "tree"}]
    BY LifecycleAssumption DEF NoPaths
  <2> QED
    BY <1>1, <1>7, <2>1 DEF Unlink, RemoveTree
<1>8. ASSUME Look
      PROVE  PlanSo /\ PathsSo
  <2>1. PICK i \in Ids : rows[i].state = "ended" /\ plan' = [plan EXCEPT ![User] = {<<rows[i].session, i>>}]
    BY <1>8 DEF Look
  <2>2. {<<rows[i].session, i>>} \in SUBSET (Sessions \X Ids)
    BY <2>1, EndedIsASession
  <2>3. paths' = paths
    BY <1>8 DEF Look
  <2> QED
    BY <1>1, <2>1, <2>2, <2>3
<1>9. ASSUME Crash
      PROVE  PlanSo /\ PathsSo
  BY <1>9, LifecycleAssumption DEF Crash, NoPaths
<1>10. ASSUME NEW i \in Ids, Favour(i)
       PROVE  PlanSo /\ PathsSo
  BY <1>1, <1>10 DEF Favour, evictVars
<1>11. PlanSo /\ PathsSo
  BY <1>4, <1>5, <1>6, <1>7, <1>8, <1>9, <1>10 DEF Next, Evict
<1> QED
  BY <1>11 DEF EvictTyped

LEMMA LetGoTyped ==
    ASSUME ProcessTyped, NEW r \in Recorders, LetGo(r)
    PROVE  /\ slot' \in Recorders \cup {NoOne}
           /\ at' \in [Recorders -> Phases]
           /\ job' \in [Recorders -> {"none", "recording", "recovery"}]
           /\ row' \in [Recorders -> 0..MaxSessions]
           /\ session' \in [Recorders -> 0..MaxSessions]
<1>1. 0 \in 0..MaxSessions
  BY LifecycleAssumption
<1>2. at' \in [Recorders -> Phases]
  BY DEF LetGo, ProcessTyped, Phases
<1> QED
  BY <1>1, <1>2 DEF LetGo, ProcessTyped

LEMMA ProcessStep ==
    ASSUME DiskTyped, ProcessTyped, Next
    PROVE  ProcessTyped'
<1>1. 0 \in 0..MaxSessions /\ Ids \in SUBSET (0..MaxSessions)
  BY LifecycleAssumption DEF Ids
<1>2. ASSUME NEW r \in Recorders, Start(r)
      PROVE  ProcessTyped'
  BY <1>2 DEF Start, ProcessTyped, Phases
<1>3. ASSUME NEW r \in Recorders, ListRows(r)
      PROVE  ProcessTyped'
  BY <1>3 DEF ListRows, ProcessTyped, Phases, DiskTyped
<1>4. ASSUME NEW r \in Recorders, Recover(r)
      PROVE  ProcessTyped'
  <2>1. PICK i \in Ids :
           /\ todo' = [todo EXCEPT ![r] = @ \ {i}]
           /\ \/ /\ at' = [at EXCEPT ![r] = "closing"]
                 /\ row' = [row EXCEPT ![r] = i]
                 /\ session' = [session EXCEPT ![r] = seen[r][i].session]
              \/ UNCHANGED <<at, row, session>>
    BY <1>4 DEF Recover
  <2>2. UNCHANGED <<slot, job, seen>>
    BY <1>4 DEF Recover
  <2>3. seen[r][i].session \in 0..MaxSessions /\ i \in 0..MaxSessions
    BY <1>1 DEF ProcessTyped, Row
  <2> QED
    BY <2>1, <2>2, <2>3 DEF ProcessTyped, Phases
<1>5. ASSUME NEW r \in Recorders, Recovered(r)
      PROVE  ProcessTyped'
  <2>1. NoRows \in [Ids -> Row]
    BY <1>1 DEF NoRows, NoRow, Row
  <2> QED
    BY <1>5, <2>1 DEF Recovered, ProcessTyped, Phases
<1>6. ASSUME NEW r \in Recorders, Claim(r)
      PROVE  ProcessTyped'
  <2>1. begun + 1 \in 0..MaxSessions
    BY <1>6, LifecycleAssumption DEF Claim, DiskTyped
  <2> QED
    BY <1>6, <2>1 DEF Claim, ProcessTyped, Phases
<1>7. ASSUME NEW r \in Recorders, OpenFails(r) \/ SourcesFail(r) \/ StartEngine(r)
      PROVE  ProcessTyped'
  <2>1. CASE OpenFails(r)
    BY <1>1, <2>1 DEF OpenFails, ProcessTyped, Phases
  <2>2. CASE SourcesFail(r)
    <3>1. /\ at' = [at EXCEPT ![r] = "idle"] /\ UNCHANGED <<slot, job, todo, seen>>
          /\ row' = [row EXCEPT ![r] = 0] /\ session' = [session EXCEPT ![r] = 0]
      BY <2>2 DEF SourcesFail
    <3> QED
      BY <1>1, <3>1 DEF ProcessTyped, Phases
  <2>3. CASE StartEngine(r)
    <3>1. /\ \E p \in {"recording", "idle"} : at' = [at EXCEPT ![r] = p]
          /\ job' = job \/ job' = [job EXCEPT ![r] = "recording"]
          /\ row' = row \/ row' = [row EXCEPT ![r] = 0]
          /\ session' = session \/ session' = [session EXCEPT ![r] = 0]
          /\ UNCHANGED <<slot, todo, seen>>
      BY <2>3 DEF StartEngine
    <3> QED
      BY <1>1, <3>1 DEF ProcessTyped, Phases
  <2> QED
    BY <1>7, <2>1, <2>2, <2>3
<1>8. ASSUME NEW r \in Recorders, OpenRow(r)
      PROVE  ProcessTyped'
  <2>1. UNCHANGED <<slot, job, todo, seen>>
    BY <1>8 DEF OpenRow
  <2>2. \/ /\ at' = [at EXCEPT ![r] = "idle"] /\ session' = [session EXCEPT ![r] = 0] /\ row' = row
        \/ /\ \E i \in 0..MaxSessions : row' = [row EXCEPT ![r] = i]
           /\ at' = [at EXCEPT ![r] = "opening"] /\ session' = session
    BY <1>1, <1>8 DEF OpenRow
  <2>3. at' \in [Recorders -> Phases]
    BY <2>2 DEF ProcessTyped, Phases
  <2>4. row' \in [Recorders -> 0..MaxSessions] /\ session' \in [Recorders -> 0..MaxSessions]
    BY <1>1, <2>2 DEF ProcessTyped
  <2> QED
    BY <2>1, <2>3, <2>4 DEF ProcessTyped
<1>9. ASSUME NEW r \in Recorders, Film(r) \/ Sweep(r)
      PROVE  ProcessTyped'
  BY <1>9 DEF Film, Sweep, recorderVars, ProcessTyped
<1>10. ASSUME NEW r \in Recorders, StopRecording(r) \/ StartWriting(r) \/ Quit(r)
       PROVE  ProcessTyped'
  BY <1>10 DEF StopRecording, StartWriting, Quit, ProcessTyped, Phases
<1>11. ASSUME NEW r \in Recorders, LetGo(r), UNCHANGED <<todo, seen>>
       PROVE  ProcessTyped'
  BY <1>11, LetGoTyped DEF ProcessTyped
<1>12. ASSUME NEW r \in Recorders, CloseEmpty(r) \/ LayoutRefused(r) \/ RemoveFootage(r)
       PROVE  ProcessTyped'
  BY <1>11, <1>12 DEF CloseEmpty, LayoutRefused, RemoveFootage
<1>13. ASSUME NEW r \in Recorders, FinishWriting(r) \/ CloseRow(r)
       PROVE  ProcessTyped'
  <2>1. UNCHANGED <<todo, seen>>
    BY <1>13 DEF FinishWriting, CloseRow
  <2>2. \/ LetGo(r)
        \/ /\ \E phase \in {"written", "closed"} : at' = [at EXCEPT ![r] = phase]
           /\ UNCHANGED <<slot, job, row, session>>
    BY <1>13 DEF FinishWriting, CloseRow
  <2> QED
    BY <1>11, <2>1, <2>2 DEF ProcessTyped, Phases
<1>14. ASSUME NEW x \in Executors, Evict(x) \/ Look \/ \E i \in Ids : Favour(i)
       PROVE  ProcessTyped'
  BY <1>14 DEF Evict, DeleteRow, Unlink, RemoveTree, Look, Favour, recorderVars, ProcessTyped
<1>15. ASSUME Crash
       PROVE  ProcessTyped'
  BY <1>1, <1>15 DEF Crash, ProcessTyped, Phases, NoRows, NoRow, Row
<1>16. User \in Executors
  BY DEF Executors
<1> QED
  BY <1>2, <1>3, <1>4, <1>5, <1>6, <1>7, <1>8, <1>9, <1>10, <1>12, <1>13, <1>14, <1>15, <1>16
     DEF Next, Recovery, Begin, Finish

LEMMA JobStep ==
    ASSUME ProcessTyped, WorkHasItsJob, Next
    PROVE  WorkHasItsJob'
<1>1. ASSUME NEW r \in Recorders, Moves(r), JobFits(r)'
      PROVE  WorkHasItsJob'
  <2>1. \A q \in Recorders : q # r => JobFits(q)'
    BY <1>1, OthersStay DEF Stays, WorkHasItsJob, JobFits
  <2> QED
    BY <1>1, <2>1 DEF WorkHasItsJob
<1>2. ASSUME NEW r \in Recorders
      PROVE  JobFits(r)
  BY DEF WorkHasItsJob
<1>3. ASSUME NEW r \in Recorders, Recovery(r) \/ Quit(r)
      PROVE  JobFits(r)'
  BY <1>2, <1>3 DEF Recovery, Start, ListRows, Recover, Recovered, Quit, JobFits, ProcessTyped
<1>4. ASSUME NEW r \in Recorders, Begin(r) \/ Film(r) \/ Sweep(r)
      PROVE  JobFits(r)'
  BY <1>2, <1>4 DEF Begin, Claim, OpenFails, OpenRow, SourcesFail, StartEngine, Film, Sweep, recorderVars,
     JobFits, ProcessTyped
<1>5. ASSUME NEW r \in Recorders, LetGo(r), UNCHANGED todo
      PROVE  JobFits(r)'
  BY <1>2, <1>5 DEF LetGo, JobFits, ProcessTyped
<1>6. ASSUME NEW r \in Recorders, Finish(r)
      PROVE  JobFits(r)'
  <2>1. UNCHANGED todo
    BY <1>6 DEF Finish, StopRecording, CloseEmpty, StartWriting, LayoutRefused, FinishWriting,
       CloseRow, RemoveFootage
  <2>2. \/ LetGo(r)
        \/ /\ at[r] \in {"recording", "closing", "writing", "written"} /\ UNCHANGED job
           /\ \E phase \in {"closing", "writing", "written", "closed"} : at' = [at EXCEPT ![r] = phase]
    BY <1>6 DEF Finish, StopRecording, CloseEmpty, StartWriting, LayoutRefused, FinishWriting,
       CloseRow, RemoveFootage
  <2> QED
    BY <1>2, <1>5, <2>1, <2>2 DEF JobFits, ProcessTyped
<1>7. ASSUME Look \/ (\E x \in Executors : Evict(x)) \/ (\E i \in Ids : Favour(i))
      PROVE  WorkHasItsJob'
  BY <1>7 DEF Look, Evict, DeleteRow, Unlink, RemoveTree, Favour, recorderVars, WorkHasItsJob, JobFits
<1>8. ASSUME Crash
      PROVE  WorkHasItsJob'
  BY <1>8 DEF Crash, WorkHasItsJob, JobFits
<1> QED
  BY <1>1, <1>3, <1>4, <1>6, <1>7, <1>8 DEF Next, Moves

(* Only a recording that films puts footage where there was none.           *)
NoNewFootage == \A s \in Sessions : HasFootage(s)' => HasFootage(s)

LEMMA OnlyFilmFilms ==
    ASSUME DiskTyped, Next
    PROVE  NoNewFootage \/ \E r \in Recorders : Film(r)
<1>1. ASSUME dir' = dir \/ \E s : \E v \in {"none", "empty", dir[s]} : dir' = [dir EXCEPT ![s] = v]
      PROVE  NoNewFootage
  BY <1>1 DEF NoNewFootage, HasFootage, DiskTyped
<1>2. ASSUME NEW r \in Recorders, Recovery(r) \/ Quit(r) \/ Sweep(r)
      PROVE  NoNewFootage
  BY <1>1, <1>2 DEF Recovery, Start, ListRows, Recover, Recovered, Quit, Sweep, diskVars
<1>3. ASSUME NEW r \in Recorders, Begin(r)
      PROVE  NoNewFootage
  BY <1>1, <1>3 DEF Begin, Claim, OpenFails, OpenRow, SourcesFail, StartEngine, diskVars
<1>4. ASSUME NEW r \in Recorders, Finish(r)
      PROVE  NoNewFootage
  BY <1>1, <1>4 DEF Finish, StopRecording, CloseEmpty, StartWriting, LayoutRefused, FinishWriting,
     CloseRow, RemoveFootage, RemoveDir, diskVars
<1>5. ASSUME NEW x \in Executors, Evict(x) \/ Look \/ \E i \in Ids : Favour(i)
      PROVE  NoNewFootage
  BY <1>1, <1>5 DEF Evict, DeleteRow, Unlink, RemoveTree, RemoveDir, Look, Favour, diskVars
<1>6. ASSUME Crash
      PROVE  NoNewFootage
  <2>1. PICK torn : /\ dir' = [s \in Sessions |-> IF s \in torn THEN "torn" ELSE dir[s]]
                    /\ \A s \in torn : dir[s] = "footage"
    BY <1>6 DEF Crash
  <2> QED
    BY <2>1 DEF NoNewFootage, HasFootage
<1>7. User \in Executors
  BY DEF Executors
<1> QED
  BY <1>2, <1>3, <1>4, <1>5, <1>6, <1>7 DEF Next

(* What recovery finds unfinished was running when it was read, and still is.*)
LEMMA UnfinishedRuns ==
    ASSUME DiskTyped, SeenIsStillSo, NEW r \in Recorders, NEW i \in todo[r], Unfinished(r, i)
    PROVE  /\ seen[r][i].state = "running" /\ seen[r][i].session \in Sessions
           /\ Names(i, seen[r][i].session) /\ IsOpen(i)
<1>1. SeenFits(r, i)
  BY DEF SeenIsStillSo
<1>2. seen[r][i].session \in Sessions
  BY <1>1, LifecycleAssumption DEF SeenFits, DiskTyped, Sessions
<1> QED
  BY <1>1, <1>2 DEF SeenFits, Unfinished

(* A row that runs runs on, whoever moves, unless its own recorder does.    *)
LEMMA RunsOn ==
    ASSUME DiskTyped, ProcessTyped, EvictTyped, HandsApart, WorkHasItsRow, NEW i \in Ids, IsOpen(i),
           NoneMoves \/ Crash \/ \E r \in Recorders : Moves(r) /\ (at[r] \in Busy => i # row[r])
    PROVE  rows'[i].session = rows[i].session /\ rows'[i].state = "running" /\ rows'[i] # NoRow
<1> DEFINE Runs == rows'[i].session = rows[i].session /\ rows'[i].state = "running"
<1>1. rows[i].state = "running" /\ rows[i] # NoRow
  BY DEF IsOpen, NoRow
<1>2. ASSUME rows'[i] = rows[i]
      PROVE  Runs
  BY <1>1, <1>2
<1>3. ASSUME NEW q \in Recorders, SourcesFail(q) \/ CloseEmpty(q) \/ CloseRow(q),
             at[q] \in Busy => i # row[q]
      PROVE  Runs
  <2>1. at[q] \in Busy /\ row[q] \in Ids /\ i # row[q]
    BY <1>3 DEF SourcesFail, CloseEmpty, CloseRow, WorkHasItsRow, RowFits, Busy
  <2>2. rows' = rows \/ \E named \in BOOLEAN : IsOpen(row[q]) /\ End(row[q], named)
    BY <1>3 DEF SourcesFail, CloseEmpty, CloseRow
  <2>3. rows'[i] = rows[i]
    BY <2>1, <2>2, EndOfARow DEF DiskTyped
  <2> QED
    BY <1>2, <2>3
<1>4. ASSUME NEW q \in Recorders, RowsStay(q)
      PROVE  Runs
  BY <1>2, <1>4, RowsStaySo
<1>5. ASSUME NEW q \in Recorders, OpenRow(q)
      PROVE  Runs
  BY <1>1, <1>2, <1>5, OpenRowNames DEF DiskTyped
<1>6. ASSUME NEW x \in Executors, DeleteRow(x)
      PROVE  Runs
  <2> rows' = rows \/ \E j \in Ids : rows[j].state = "ended" /\ rows' = [rows EXCEPT ![j] = NoRow]
    BY <1>6, DeleteOfARow DEF DiskTyped
  <2> QED
    BY <1>1, <1>2 DEF DiskTyped
<1>7. ASSUME NEW j \in Ids, Favour(j)
      PROVE  Runs
  BY <1>1, <1>7, FavourOfARow DEF DiskTyped
<1>8. ASSUME (\E x \in Executors : Unlink(x) \/ RemoveTree(x)) \/ Look \/ Crash
      PROVE  Runs
  BY <1>2, <1>8 DEF Unlink, RemoveTree, Look, Crash
<1>9. Runs
  BY <1>3, <1>4, <1>5, <1>6, <1>7, <1>8 DEF Moves, NoneMoves, Begin, Finish, Evict, RowsStay
<1> QED
  BY <1>9 DEF NoRow

(* Where a row that has ended comes from: it had, or its recorder ended it. *)
EndsRow(r, i) ==
    /\ i = row[r] /\ Names(i, session[r]) /\ IsOpen(i) /\ rows' # rows
    /\ \/ SourcesFail(r) /\ at[r] = "opening" /\ ~ rows'[i].file
       \/ CloseEmpty(r) /\ ~ HasFootage(session[r]) /\ ~ rows'[i].file
       \/ CloseRow(r) /\ at[r] = "written" /\ file' = file /\ rows'[i].file

LEMMA EndedStep ==
    ASSUME DiskTyped, ProcessTyped, EvictTyped, RowsAreSessions, HandsApart, WorkHasItsRow, Next,
           NEW i \in Ids, rows'[i].state = "ended"
    PROVE  /\ rows'[i].session = rows[i].session
           /\ \/ rows[i].state = "ended" /\ rows'[i].file = rows[i].file
              \/ \E r \in Recorders : EndsRow(r, i)
<1> DEFINE Was == /\ rows'[i].session = rows[i].session
                  /\ rows[i].state = "ended" /\ rows'[i].file = rows[i].file
<1>1. ASSUME rows'[i] = rows[i]
      PROVE  Was
  BY <1>1
<1>2. ASSUME NEW r \in Recorders, SourcesFail(r) \/ CloseEmpty(r) \/ CloseRow(r)
      PROVE  Was \/ (rows'[i].session = rows[i].session /\ EndsRow(r, i))
  <2>1. at[r] \in Busy /\ row[r] \in Ids /\ Names(row[r], session[r]) /\ IsOpen(row[r])
    BY <1>2 DEF SourcesFail, CloseEmpty, CloseRow, WorkHasItsRow, RowFits, Busy
  <2>2. CASE rows' = rows
    BY <1>1, <2>2
  <2>3. ASSUME NEW named \in BOOLEAN, IsOpen(row[r]), End(row[r], named), i # row[r]
        PROVE  Was
    BY <1>1, <2>1, <2>3, EndOfARow DEF DiskTyped
  <2>4. CASE rows' # rows /\ SourcesFail(r) /\ i = row[r] /\ IsOpen(row[r]) /\ End(row[r], FALSE)
    BY <2>1, <2>4, EndOfARow DEF EndsRow, SourcesFail, DiskTyped
  <2>5. CASE rows' # rows /\ CloseEmpty(r) /\ i = row[r] /\ IsOpen(row[r]) /\ End(row[r], FALSE)
    BY <2>1, <2>5, EndOfARow DEF EndsRow, CloseEmpty, DiskTyped
  <2>6. CASE rows' # rows /\ CloseRow(r) /\ i = row[r] /\ IsOpen(row[r]) /\ End(row[r], TRUE)
    BY <2>1, <2>6, EndOfARow DEF EndsRow, CloseRow, diskVars, DiskTyped
  <2>7. \/ rows' = rows
        \/ (SourcesFail(r) \/ CloseEmpty(r)) /\ IsOpen(row[r]) /\ End(row[r], FALSE)
        \/ CloseRow(r) /\ IsOpen(row[r]) /\ End(row[r], TRUE)
    BY <1>2 DEF SourcesFail, CloseEmpty, CloseRow
  <2> QED
    BY <2>2, <2>3, <2>4, <2>5, <2>6, <2>7
<1>3. ASSUME NEW r \in Recorders, RowsStay(r)
      PROVE  Was
  BY <1>1, <1>3, RowsStaySo
<1>4. ASSUME NEW r \in Recorders, OpenRow(r)
      PROVE  Was
  <2>1. rows'[i] = rows[i] \/ rows'[i].state = "running"
    BY <1>4, OpenRowNames, NewRowTyped
  <2> QED
    BY <1>1, <2>1
<1>5. ASSUME NEW x \in Executors, DeleteRow(x)
      PROVE  Was
  <2>1. rows' = rows \/ \E j \in Ids : rows' = [rows EXCEPT ![j] = NoRow]
    BY <1>5, DeleteOfARow DEF DiskTyped
  <2>2. rows'[i] = rows[i]
    BY <2>1 DEF DiskTyped, NoRow
  <2> QED
    BY <1>1, <2>2
<1>6. ASSUME NEW j \in Ids, Favour(j)
      PROVE  Was
  BY <1>1, <1>6, FavourOfARow DEF DiskTyped
<1>7. ASSUME NEW x \in Executors, Unlink(x) \/ RemoveTree(x) \/ Look \/ Crash
      PROVE  Was
  BY <1>1, <1>7 DEF Unlink, RemoveTree, Look, Crash
<1>8. User \in Executors
  BY DEF Executors
<1> QED
  BY <1>2, <1>3, <1>4, <1>5, <1>6, <1>7, <1>8 DEF Next, Begin, Finish, Evict, RowsStay

(* What another recorder does leaves a recorder its row.                    *)
LEMMA OthersKeepTheirRow ==
    ASSUME DiskTyped, ProcessTyped, EvictTyped, RowsAreSessions, HandsApart, WorkHasItsRow, Next,
           NEW r \in Recorders, Moves(r), NEW q \in Recorders, q # r
    PROVE  RowFits(q)'
<1>1. Stays(q)
  BY OthersStay
<1>2. RowFits(q)
  BY DEF WorkHasItsRow
<1>3. ASSUME at[q] \in Busy
      PROVE  /\ rows'[row[q]] # NoRow /\ rows'[row[q]].session = session[q]
             /\ rows'[row[q]].state = "running"
  <2>1. row[q] \in Ids /\ Names(row[q], session[q]) /\ IsOpen(row[q])
    BY <1>2, <1>3 DEF RowFits
  <2>2. at[r] \in Busy => row[q] # row[r]
    <3>1. at[r] \in Busy => session[q] # session[r] /\ Names(row[r], session[r])
      BY <1>3 DEF HandsApart, Hands, WorkHasItsRow, RowFits
    <3> QED
      BY <2>1, <3>1 DEF Names
  <2> QED
    BY <2>1, <2>2, RunsOn DEF Names
<1>4. ASSUME at[q] = "closed", NEW i \in Ids, rows'[i] # NoRow, rows'[i].session = session[q]
      PROVE  rows'[i].state = "ended" /\ rows'[i].file
  <2>1. Names(i, session[q]) /\ rows'[i].state \in {rows[i].state, "ended"}
    <3>1. CASE NoNewNames
      BY <1>4, <3>1 DEF NoNewNames, Names
    <3>2. ASSUME NEW p \in Recorders, OpenRow(p)
          PROVE  Names(i, session[q]) /\ rows'[i].state \in {rows[i].state, "ended"}
      <4>1. at[p] = "claimed" /\ session[p] \in 1..begun
        BY <3>2, OpenRowNames
      <4>2. session[p] # session[q]
        BY <1>4, <4>1 DEF HandsApart, Hands
      <4>3. rows'[i].session = session[p] \/ rows'[i] = rows[i]
        BY <3>2, <4>1, OpenRowNames, NewRowTyped
      <4> QED
        BY <1>4, <4>2, <4>3 DEF Names
    <3> QED
      BY <3>1, <3>2, OnlyOpenRowNames
  <2>2. rows[i].state = "ended" /\ rows[i].file
    BY <1>2, <1>4, <2>1 DEF RowFits
  <2>3. rows'[i].state = "ended"
    BY <2>1, <2>2
  <2>4. \A p \in Recorders : ~ EndsRow(p, i)
    BY <2>2 DEF EndsRow, IsOpen
  <2> QED
    BY <2>2, <2>3, <2>4, EndedStep
<1> QED
  BY <1>1, <1>2, <1>3, <1>4 DEF RowFits, Stays, Names, IsOpen

LEMMA RowStep ==
    ASSUME DiskTyped, ProcessTyped, EvictTyped, RowsAreSessions, HandsApart,
           WorkHasItsRow, SeenIsStillSo, Next
    PROVE  WorkHasItsRow'
<1>1. ASSUME NEW r \in Recorders, Moves(r), RowFits(r)'
      PROVE  WorkHasItsRow'
  BY <1>1, OthersKeepTheirRow DEF WorkHasItsRow
<1>2. ASSUME NEW r \in Recorders
      PROVE  RowFits(r)
  BY DEF WorkHasItsRow
<1>3. ASSUME NEW r \in Recorders, at'[r] \notin Busy \cup {"closed"}
      PROVE  RowFits(r)'
  BY <1>3 DEF RowFits, Busy
<1>4. ASSUME NEW r \in Recorders, at[r] \in Busy, at'[r] \in Busy,
             UNCHANGED <<rows, row, session>>
      PROVE  RowFits(r)'
  BY <1>2, <1>4 DEF RowFits, Busy, Names, IsOpen
<1>5. ASSUME NEW r \in Recorders, UNCHANGED <<rows, at, row, session>>
      PROVE  RowFits(r)'
  BY <1>2, <1>5 DEF RowFits, Names, IsOpen
<1>6. ASSUME NEW r \in Recorders,
             Start(r) \/ ListRows(r) \/ Recovered(r) \/ Quit(r) \/ Claim(r) \/ OpenFails(r) \/ SourcesFail(r)
      PROVE  RowFits(r)'
  <2>1. at'[r] \in {"starting", "recovering", "idle", "down", "claimed"}
    BY <1>6 DEF Start, ListRows, Recovered, Quit, Claim, OpenFails, SourcesFail, ProcessTyped
  <2> QED
    BY <1>3, <2>1 DEF Busy
<1>7. ASSUME NEW r \in Recorders, Recover(r)
      PROVE  RowFits(r)'
  <2>1. rows' = rows
    BY <1>7 DEF Recover
  <2>2. CASE UNCHANGED <<at, row, session>>
    BY <1>5, <2>1, <2>2
  <2>3. ASSUME NEW i \in todo[r], Unfinished(r, i), i \in Ids,
               at' = [at EXCEPT ![r] = "closing"], row' = [row EXCEPT ![r] = i],
               session' = [session EXCEPT ![r] = seen[r][i].session]
        PROVE  RowFits(r)'
    <3>1. seen[r][i].session \in Sessions /\ Names(i, seen[r][i].session) /\ IsOpen(i)
      BY <2>3, UnfinishedRuns
    <3>2. at'[r] = "closing" /\ row'[r] = i /\ session'[r] = seen[r][i].session
      BY <2>3 DEF ProcessTyped
    <3> QED
      BY <2>1, <2>3, <3>1, <3>2 DEF RowFits, Names, IsOpen
  <2> QED
    BY <1>7, <2>2, <2>3 DEF Recover, IsNext
<1>8. ASSUME NEW r \in Recorders, OpenRow(r)
      PROVE  RowFits(r)'
  <2>1. CASE at' = [at EXCEPT ![r] = "idle"]
    <3>1. at'[r] = "idle"
      BY <2>1 DEF ProcessTyped
    <3> QED
      BY <1>3, <3>1 DEF Busy
  <2>2. ASSUME NEW i \in Ids, session[r] \in 1..begun,
               rows' = [rows EXCEPT ![i] = [session |-> session[r], state |-> "running",
                                            file |-> FALSE, favourite |-> FALSE]],
               row' = [row EXCEPT ![r] = i], at' = [at EXCEPT ![r] = "opening"], session' = session
        PROVE  RowFits(r)'
    <3>1. at'[r] = "opening" /\ row'[r] = i /\ session'[r] = session[r]
      BY <2>2 DEF ProcessTyped
    <3>2. rows'[i].session = session[r] /\ rows'[i].state = "running" /\ rows'[i] # NoRow
      BY <2>2, NewRowTyped
    <3>3. session[r] \in Sessions
      BY <2>2, LifecycleAssumption DEF DiskTyped, Sessions
    <3> QED
      BY <2>2, <3>1, <3>2, <3>3 DEF RowFits, Names, IsOpen
  <2> QED
    BY <1>8, <2>1, <2>2, OpenRowNames
<1>9. ASSUME NEW r \in Recorders, StartEngine(r)
      PROVE  RowFits(r)'
  <2>1. at'[r] = "idle" \/ (at[r] \in Busy /\ at'[r] \in Busy /\ UNCHANGED <<rows, row, session>>)
    BY <1>9 DEF StartEngine, ProcessTyped, Busy
  <2> QED
    BY <1>3, <1>4, <2>1 DEF Busy
<1>10. ASSUME NEW r \in Recorders, Film(r) \/ Sweep(r)
       PROVE  RowFits(r)'
  BY <1>5, <1>10 DEF Film, Sweep, recorderVars
<1>11. ASSUME NEW r \in Recorders, StopRecording(r) \/ StartWriting(r)
       PROVE  RowFits(r)'
  <2>1. at[r] \in Busy /\ at'[r] \in Busy /\ UNCHANGED <<rows, row, session>>
    BY <1>11 DEF StopRecording, StartWriting, ProcessTyped, Busy
  <2> QED
    BY <1>4, <2>1
<1>12. ASSUME NEW r \in Recorders, LetGo(r)
       PROVE  RowFits(r)'
  <2>1. at'[r] \in {"recovering", "idle", "down"}
    BY <1>12 DEF LetGo, ProcessTyped
  <2> QED
    BY <1>3, <2>1 DEF Busy
<1>13. ASSUME NEW r \in Recorders, CloseEmpty(r) \/ LayoutRefused(r) \/ RemoveFootage(r)
       PROVE  RowFits(r)'
  BY <1>12, <1>13 DEF CloseEmpty, LayoutRefused, RemoveFootage
<1>14. ASSUME NEW r \in Recorders, FinishWriting(r)
       PROVE  RowFits(r)'
  <2>1. LetGo(r) \/ (at[r] \in Busy /\ at'[r] \in Busy /\ UNCHANGED <<rows, row, session>>)
    BY <1>14 DEF FinishWriting, ProcessTyped, Busy
  <2> QED
    BY <1>4, <1>12, <2>1
<1>15. ASSUME NEW r \in Recorders, CloseRow(r)
       PROVE  RowFits(r)'
  <2>1. \/ LetGo(r)
        \/ /\ at[r] = "written" /\ at'[r] = "closed" /\ UNCHANGED <<row, session>>
           /\ IsOpen(row[r]) /\ End(row[r], TRUE)
    BY <1>15 DEF CloseRow, ProcessTyped
  <2>2. ASSUME at[r] = "written", at'[r] = "closed", UNCHANGED <<row, session>>,
               IsOpen(row[r]), End(row[r], TRUE)
        PROVE  RowFits(r)'
    <3>1. row[r] \in Ids /\ session[r] \in Sessions /\ Names(row[r], session[r])
      BY <1>2, <2>2 DEF RowFits, Busy
    <3>2. /\ rows'[row[r]].state = "ended" /\ rows'[row[r]].file = TRUE
          /\ \A j \in Ids : j # row[r] => rows'[j] = rows[j]
      BY <2>2, <3>1, EndOfARow DEF DiskTyped
    <3>3. \A j \in Ids : Names(j, session[r]) => j = row[r]
      BY <3>1 DEF RowsAreSessions, RowIsASessions, Names
    <3>4. ASSUME NEW j \in Ids, Names(j, session[r])'
          PROVE  rows'[j].state = "ended" /\ rows'[j].file
      BY <2>2, <3>2, <3>3, <3>4 DEF Names
    <3> QED
      BY <2>2, <3>1, <3>4 DEF RowFits, Busy, Names
  <2> QED
    BY <1>12, <2>1, <2>2
<1>16. ASSUME NEW x \in Executors, DeleteRow(x)
       PROVE  WorkHasItsRow'
  <2>1. UNCHANGED <<at, row, session>>
    BY <1>16 DEF DeleteRow, recorderVars
  <2>2. rows' = rows \/ \E i \in Ids : rows[i].state = "ended" /\ rows' = [rows EXCEPT ![i] = NoRow]
    BY <1>16, DeleteOfARow DEF DiskTyped
  <2>3. ASSUME NEW i \in Ids, rows[i].state = "ended", rows' = [rows EXCEPT ![i] = NoRow],
               NEW r \in Recorders
        PROVE  RowFits(r)'
    <3>1. /\ rows'[i] = NoRow
          /\ \A j \in Ids : j # i => rows'[j] = rows[j]
      BY <2>3 DEF DiskTyped
    <3>2. at[r] \in Busy => row[r] # i
      BY <1>2, <2>3 DEF RowFits, IsOpen
    <3> QED
      BY <1>2, <2>1, <3>1, <3>2 DEF RowFits, Names, IsOpen, Busy
  <2> QED
    BY <1>5, <2>1, <2>2, <2>3 DEF WorkHasItsRow
<1>17. ASSUME NEW i \in Ids, Favour(i)
       PROVE  WorkHasItsRow'
  <2>1. UNCHANGED <<at, row, session>>
    BY <1>17 DEF Favour, recorderVars
  <2>2. /\ \A j \in Ids : /\ rows'[j].session = rows[j].session /\ rows'[j].state = rows[j].state
                          /\ rows'[j].file = rows[j].file
        /\ \A j \in Ids : rows[j] = NoRow => rows'[j] = NoRow
        /\ \A j \in Ids : rows[j] # NoRow => rows[j].state # "none"
    BY <1>17, FavourOfARow DEF DiskTyped, RowsAreSessions, RowIsASessions
  <2>3. \A j \in Ids : rows[j] # NoRow => rows'[j] # NoRow
    BY <2>2 DEF NoRow
  <2> QED
    BY <2>1, <2>2, <2>3 DEF WorkHasItsRow, RowFits, Names, IsOpen, Busy
<1>18. ASSUME NEW x \in Executors, Unlink(x) \/ RemoveTree(x) \/ Look
       PROVE  WorkHasItsRow'
  BY <1>5, <1>18 DEF Unlink, RemoveTree, Look, recorderVars, WorkHasItsRow
<1>19. ASSUME Crash
       PROVE  WorkHasItsRow'
  BY <1>19 DEF Crash, WorkHasItsRow, RowFits, Busy
<1>20. User \in Executors
  BY DEF Executors
<1> QED
  BY <1>1, <1>6, <1>7, <1>8, <1>9, <1>10, <1>11, <1>13, <1>14, <1>15, <1>16, <1>17, <1>18, <1>19, <1>20
     DEF Next, Moves, Recovery, Begin, Finish, Evict

(* A recorder writes to the directory and the file of the session it has in *)
(* hand, or to those of the one it begins.                                  *)
LEMMA OwnFootage ==
    ASSUME DiskTyped, NEW r \in Recorders, Moves(r), NEW s \in Sessions, s # begun + 1, s # session[r]
    PROVE  dir'[s] = dir[s] /\ file'[s] = file[s]
<1> DEFINE DirSo == dir' = dir \/ \E t \in {begun + 1, session[r]} : \E v : dir' = [dir EXCEPT ![t] = v]
           FileSo == file' = file \/ \E v : file' = [file EXCEPT ![session[r]] = v]
<1>1. CASE Recovery(r) \/ Quit(r) \/ Film(r) \/ Sweep(r)
  <2>1. DirSo /\ FileSo
    BY <1>1 DEF Recovery, Start, ListRows, Recover, Recovered, Quit, Film, Sweep, diskVars
  <2> QED
    BY <2>1 DEF DiskTyped
<1>2. CASE Begin(r)
  <2>1. DirSo /\ FileSo
    BY <1>2 DEF Begin, Claim, OpenFails, OpenRow, SourcesFail, StartEngine, diskVars
  <2> QED
    BY <2>1 DEF DiskTyped
<1>3. CASE Finish(r)
  <2>1. DirSo
    BY <1>3 DEF Finish, StopRecording, CloseEmpty, StartWriting, LayoutRefused, FinishWriting,
       CloseRow, RemoveFootage, RemoveDir, diskVars
  <2>2. FileSo
    BY <1>3 DEF Finish, StopRecording, CloseEmpty, StartWriting, LayoutRefused, FinishWriting,
       CloseRow, RemoveFootage, diskVars
  <2> QED
    BY <2>1, <2>2 DEF DiskTyped
<1> QED
  BY <1>1, <1>2, <1>3 DEF Moves

LEMMA OnlyHandsWrite ==
    ASSUME NEW r \in Recorders, Moves(r), at[r] \notin Hands
    PROVE  UNCHANGED <<dir, file>> \/ Claim(r)
<1>1. CASE Recovery(r) \/ Quit(r) \/ Film(r) \/ Sweep(r)
  BY <1>1 DEF Recovery, Start, ListRows, Recover, Recovered, Quit, Film, Sweep, diskVars, Hands, Busy
<1>2. CASE Begin(r)
  BY <1>2 DEF Begin, OpenFails, OpenRow, SourcesFail, StartEngine, diskVars, Hands, Busy
<1>3. ~ Finish(r)
  BY DEF Finish, StopRecording, CloseEmpty, StartWriting, LayoutRefused, FinishWriting,
     CloseRow, RemoveFootage, Hands, Busy
<1> QED
  BY <1>1, <1>2, <1>3 DEF Moves

LEMMA OthersKeepTheirFootage ==
    ASSUME DiskTyped, ProcessTyped, HandsApart, WorkHasItsFootage,
           NEW r \in Recorders, Moves(r), NEW q \in Recorders, q # r
    PROVE  FootageFits(q)'
<1>1. Stays(q)
  BY OthersStay
<1>2. FootageFits(q)
  BY DEF WorkHasItsFootage
<1>3. ASSUME at[q] \in {"claimed", "opening", "writing", "written"}
      PROVE  dir'[session[q]] = dir[session[q]] /\ file'[session[q]] = file[session[q]]
  <2>1. session[q] \in 1..begun /\ at[q] \in Hands
    BY <1>3 DEF HandsApart, Hands, Busy
  <2>2. session[q] \in Sessions /\ session[q] # begun + 1
    BY <2>1, LifecycleAssumption DEF DiskTyped, Sessions
  <2>3. CASE session[q] # session[r]
    BY <2>2, <2>3, OwnFootage
  <2>4. CASE session[q] = session[r]
    <3>1. at[r] \notin Hands
      BY <2>1, <2>4 DEF HandsApart
    <3>2. UNCHANGED <<dir, file>> \/ Claim(r)
      BY <3>1, OnlyHandsWrite
    <3>3. CASE Claim(r)
      <4>1. file' = file /\ \E v : dir' = [dir EXCEPT ![begun + 1] = v]
        BY <3>3 DEF Claim
      <4> QED
        BY <2>2, <4>1 DEF DiskTyped
    <3> QED
      BY <3>2, <3>3
  <2> QED
    BY <2>3, <2>4
<1> QED
  BY <1>1, <1>2, <1>3 DEF FootageFits, HasFootage, Stays

(* A delete touches no session a recorder is at work on.                    *)
LEMMA DeletesKeepOff ==
    ASSUME DeletedIsUnnamed, ClaimedIsNew, WorkHasItsRow, DiskTyped,
           NEW r \in Recorders, NEW x \in Executors, paths[x].step # "none",
           at[r] \in Busy \cup {"claimed"}
    PROVE  paths[x].session # session[r]
<1>1. CASE at[r] = "claimed"
  BY <1>1 DEF ClaimedIsNew, DiskTyped
<1>2. CASE at[r] \in Busy
  BY <1>2 DEF WorkHasItsRow, RowFits, DeletedIsUnnamed, IsNamed
<1> QED
  BY <1>1, <1>2

LEMMA FootageStep ==
    ASSUME DiskTyped, ProcessTyped, EvictTyped, HandsApart, DeletedIsUnnamed, ClaimedIsNew,
           WorkHasItsRow, WorkHasItsFootage, Next
    PROVE  WorkHasItsFootage'
<1>1. ASSUME NEW r \in Recorders, Moves(r), FootageFits(r)'
      PROVE  WorkHasItsFootage'
  BY <1>1, OthersKeepTheirFootage DEF WorkHasItsFootage
<1>2. ASSUME NEW r \in Recorders
      PROVE  /\ FootageFits(r)
             /\ at[r] \in Hands => session[r] \in Sessions
  BY <1>2, LifecycleAssumption DEF WorkHasItsFootage, HandsApart, DiskTyped, Sessions
<1>3. ASSUME NEW r \in Recorders, at'[r] \notin {"claimed", "opening", "writing", "written"}
      PROVE  FootageFits(r)'
  BY <1>3 DEF FootageFits
<1>4. ASSUME NEW r \in Recorders, UNCHANGED <<at, session, dir, file>>
      PROVE  FootageFits(r)'
  BY <1>2, <1>4 DEF FootageFits, HasFootage
<1>5. ASSUME NEW r \in Recorders,
             Recovery(r) \/ Quit(r) \/ OpenFails(r) \/ SourcesFail(r) \/ StartEngine(r) \/ StopRecording(r)
      PROVE  FootageFits(r)'
  <2>1. \/ at'[r] \in {"starting", "recovering", "closing", "idle", "down", "recording"}
        \/ UNCHANGED <<at, session, dir, file>>
    BY <1>5 DEF Recovery, Start, ListRows, Recover, Recovered, Quit, OpenFails, SourcesFail, StartEngine,
       StopRecording, ProcessTyped, diskVars
  <2> QED
    BY <1>3, <1>4, <2>1
<1>6. ASSUME NEW r \in Recorders, Claim(r)
      PROVE  FootageFits(r)'
  <2>1. /\ at'[r] = "claimed" /\ session'[r] = begun + 1 /\ begun + 1 \in Sessions
        /\ \E v \in {"none", "empty"} : dir' = [dir EXCEPT ![begun + 1] = v]
    <3>1. at'[r] = "claimed" /\ session'[r] = begun + 1
      BY <1>6 DEF Claim, ProcessTyped
    <3>2. begun + 1 \in Sessions
      BY <1>6, LifecycleAssumption DEF Claim, DiskTyped, Sessions
    <3>3. \E k \in Kinds : dir' = [dir EXCEPT ![begun + 1] = IF k = "ram" THEN "none" ELSE "empty"]
      BY <1>6 DEF Claim
    <3> QED
      BY <3>1, <3>2, <3>3
  <2>2. dir'[begun + 1] \in {"none", "empty"}
    BY <2>1 DEF DiskTyped
  <2> QED
    BY <2>1, <2>2 DEF FootageFits, HasFootage
<1>7. ASSUME NEW r \in Recorders, OpenRow(r)
      PROVE  FootageFits(r)'
  <2>1. at'[r] = "idle" \/ (at[r] = "claimed" /\ at'[r] = "opening" /\ UNCHANGED <<dir, session>>)
    BY <1>7 DEF OpenRow, ProcessTyped
  <2> QED
    BY <1>2, <1>3, <2>1 DEF FootageFits, HasFootage
<1>8. ASSUME NEW r \in Recorders, Film(r) \/ Sweep(r)
      PROVE  FootageFits(r)'
  <2>1. at'[r] = "recording"
    BY <1>8 DEF Film, Sweep, recorderVars
  <2> QED
    BY <1>3, <2>1
<1>9. ASSUME NEW r \in Recorders, LetGo(r)
      PROVE  FootageFits(r)'
  <2>1. at'[r] \in {"recovering", "idle", "down"}
    BY <1>9 DEF LetGo, ProcessTyped
  <2> QED
    BY <1>3, <2>1
<1>10. ASSUME NEW r \in Recorders, CloseEmpty(r) \/ LayoutRefused(r) \/ RemoveFootage(r)
       PROVE  FootageFits(r)'
  BY <1>9, <1>10 DEF CloseEmpty, LayoutRefused, RemoveFootage
<1>11. ASSUME NEW r \in Recorders, StartWriting(r)
       PROVE  FootageFits(r)'
  <2>1. at'[r] = "writing" /\ HasFootage(session[r]) /\ UNCHANGED <<dir, session>>
    BY <1>11 DEF StartWriting, ProcessTyped
  <2> QED
    BY <2>1 DEF FootageFits, HasFootage
<1>12. ASSUME NEW r \in Recorders, FinishWriting(r)
       PROVE  FootageFits(r)'
  <2>1. \/ LetGo(r)
        \/ /\ at[r] = "writing" /\ at'[r] = "written" /\ UNCHANGED <<dir, session>>
           /\ file' = [file EXCEPT ![session[r]] = "whole"]
    BY <1>12 DEF FinishWriting, ProcessTyped
  <2>2. ASSUME at[r] = "writing", at'[r] = "written", UNCHANGED <<dir, session>>,
               file' = [file EXCEPT ![session[r]] = "whole"]
        PROVE  FootageFits(r)'
    <3>1. HasFootage(session[r]) /\ session[r] \in Sessions
      BY <1>2, <2>2 DEF FootageFits, Busy, Hands
    <3> QED
      BY <2>2, <3>1 DEF FootageFits, HasFootage, DiskTyped
  <2> QED
    BY <1>9, <2>1, <2>2
<1>13. ASSUME NEW r \in Recorders, CloseRow(r)
       PROVE  FootageFits(r)'
  <2>1. LetGo(r) \/ at'[r] = "closed"
    BY <1>13 DEF CloseRow, ProcessTyped
  <2> QED
    BY <1>3, <1>9, <2>1
<1>14. ASSUME NEW x \in Executors, Unlink(x) \/ RemoveTree(x), NEW r \in Recorders
       PROVE  FootageFits(r)'
  <2>1. /\ UNCHANGED <<at, session>> /\ paths[x].step # "none"
        /\ dir' = dir \/ dir' = [dir EXCEPT ![paths[x].session] = "none"]
        /\ file' = file \/ file' = [file EXCEPT ![paths[x].session] = "none"]
    BY <1>14 DEF Unlink, RemoveTree, RemoveDir, recorderVars
  <2>2. ASSUME at[r] \in {"claimed", "opening", "writing", "written"}
        PROVE  dir'[session[r]] = dir[session[r]] /\ file'[session[r]] = file[session[r]]
    <3>1. session[r] \in Sessions /\ paths[x].session # session[r]
      BY <1>2, <2>1, <2>2, DeletesKeepOff DEF Busy, Hands
    <3> QED
      BY <2>1, <3>1 DEF DiskTyped
  <2> QED
    BY <1>2, <2>1, <2>2 DEF FootageFits, HasFootage
<1>15. ASSUME NEW x \in Executors, DeleteRow(x) \/ Look \/ \E i \in Ids : Favour(i)
       PROVE  WorkHasItsFootage'
  BY <1>4, <1>15 DEF DeleteRow, Look, Favour, recorderVars, diskVars, WorkHasItsFootage
<1>16. ASSUME Crash
       PROVE  WorkHasItsFootage'
  BY <1>16 DEF Crash, WorkHasItsFootage, FootageFits
<1>17. User \in Executors
  BY DEF Executors
<1> QED
  BY <1>1, <1>5, <1>6, <1>7, <1>8, <1>10, <1>11, <1>12, <1>13, <1>14, <1>15, <1>16, <1>17
     DEF Next, Moves, Begin, Finish, Evict, WorkHasItsFootage

(* What a recovery has still to look at is what it had, as it read it.      *)
LEMMA TodoFollows ==
    ASSUME ProcessTyped, Next, NEW q \in Recorders, ~ ListRows(q)
    PROVE  todo'[q] \subseteq todo[q] /\ (todo'[q] = {} \/ seen'[q] = seen[q])
<1> DEFINE Follows == todo'[q] \subseteq todo[q] /\ (todo'[q] = {} \/ seen'[q] = seen[q])
<1>1. CASE Moves(q)
  <2>1. CASE Recovery(q)
    BY <2>1 DEF Recovery, Start, Recover, Recovered, ProcessTyped
  <2>2. CASE Begin(q) \/ Film(q) \/ Sweep(q) \/ Quit(q)
    BY <2>2 DEF Begin, Claim, OpenFails, OpenRow, SourcesFail, StartEngine, Film, Sweep, Quit, recorderVars
  <2>3. CASE Finish(q)
    BY <2>3 DEF Finish, StopRecording, CloseEmpty, StartWriting, LayoutRefused, FinishWriting,
       CloseRow, RemoveFootage
  <2> QED
    BY <1>1, <2>1, <2>2, <2>3 DEF Moves
<1>2. ASSUME NEW r \in Recorders, r # q, Moves(r)
      PROVE  Follows
  BY <1>2, OthersStay DEF Stays
<1>3. CASE NoneMoves
  BY <1>3, NoneMovesSo DEF recorderVars
<1>4. CASE Crash
  BY <1>4 DEF Crash
<1> QED
  BY <1>1, <1>2, <1>3, <1>4, WhoMoves

LEMMA SeenKept ==
    ASSUME Sound, Next, NEW r \in Recorders, NEW i \in todo[r],
           i \in todo'[r], todo'[r] \subseteq todo[r], seen'[r] = seen[r]
    PROVE  SeenFits(r, i)'
<1> USE DEF Sound, Work
<1> DEFINE was == seen[r][i]
<1>1. begun \in Nat /\ begun' \in Nat /\ begun <= begun' /\ begun <= MaxSessions /\ MaxSessions \in Nat
  BY OnlyClaimBegins, LifecycleAssumption DEF Claim, DiskTyped
<1>2. /\ i \in Ids /\ was.session \in 1..begun /\ was.state \in {"running", "ended"}
      /\ was.state = "running" => Names(i, was.session) /\ IsOpen(i)
      /\ was.state = "ended" /\ ~ was.file => ~ HasFootage(was.session)
      /\ ToFinish(was) => \A q \in Recorders : at[q] \in Hands => session[q] # was.session
      /\ \A j \in todo[r] : seen[r][j].session = was.session => j = i
  BY DEF SeenIsStillSo, SeenFits, ProcessTyped
<1>3. job[r] = "recovery"
  BY DEF WorkHasItsJob, JobFits
<1> HIDE DEF was
<1>4. ASSUME ToFinish(was), NEW q \in Recorders, at'[q] \in Hands
      PROVE  session'[q] # was.session
  <2>1. \A p \in Recorders : at[p] \in Hands => session[p] # was.session
    BY <1>2, <1>4
  <2>2. CASE Moves(q)
    <3>1. CASE session'[q] = begun + 1
      BY <1>1, <1>2, <3>1
    <3>2. ASSUME NEW n \in todo[q], at[q] = "recovering", todo'[q] = todo[q] \ {n},
                 session'[q] = seen[q][n].session
          PROVE  session'[q] # was.session
      <4>1. q = r
        BY <1>3, <3>2 DEF WorkHasItsJob, JobFits, OneRecovers, Recovers
      <4> QED
        BY <1>2, <3>2, <4>1
    <3> QED
      BY <1>4, <2>1, <2>2, <3>1, <3>2, HandOfMover DEF HandFollows
  <2>3. ASSUME NEW p \in Recorders, p # q, Moves(p)
        PROVE  session'[q] # was.session
    BY <1>4, <2>1, <2>3, OthersStay DEF Stays
  <2>4. CASE NoneMoves
    BY <1>4, <2>1, <2>4, NoneMovesSo DEF recorderVars
  <2>5. ~ Crash
    BY <1>4 DEF Crash, Hands, Busy
  <2> QED
    BY <2>2, <2>3, <2>4, <2>5, WhoMoves
<1>5. ASSUME was.state = "running"
      PROVE  rows'[i] # NoRow /\ rows'[i].session = was.session /\ rows'[i].state = "running"
  <2>1. Names(i, was.session) /\ IsOpen(i) /\ ToFinish(was)
    BY <1>2, <1>5 DEF ToFinish
  <2>2. \A p \in Recorders : at[p] \in Busy => i # row[p]
    BY <1>2, <2>1 DEF WorkHasItsRow, RowFits, Names, Hands
  <2> QED
    BY <1>2, <2>1, <2>2, WhoMoves, RunsOn DEF Names
<1>6. ASSUME was.state = "ended", ~ was.file
      PROVE  dir'[was.session] \notin {"footage", "torn"}
  <2>1. ~ HasFootage(was.session) /\ was.session \in Sessions
    BY <1>1, <1>2, <1>6 DEF Sessions
  <2>2. CASE NoNewFootage
    BY <2>1, <2>2 DEF NoNewFootage, HasFootage
  <2>3. ASSUME NEW q \in Recorders, Film(q)
        PROVE  dir'[was.session] \notin {"footage", "torn"}
    <3>1. session[q] # was.session
      BY <1>2, <1>6, <2>3 DEF ToFinish, Film, Hands, Busy
    <3>2. dir' = [dir EXCEPT ![session[q]] = "footage"]
      BY <2>3 DEF Film
    <3>3. dir'[was.session] = dir[was.session]
      BY <2>1, <3>1, <3>2 DEF DiskTyped
    <3> QED
      BY <2>1, <3>3 DEF HasFootage
  <2> QED
    BY <2>2, <2>3, OnlyFilmFilms
<1>7. was.session \in 1..begun' /\ was' = was
  BY <1>1, <1>2 DEF was
<1>8. \A j \in todo'[r] : seen'[r][j].session = was.session => j = i
  BY <1>2
<1> QED
  BY <1>2, <1>4, <1>5, <1>6, <1>7, <1>8 DEF SeenFits, Names, IsOpen, ToFinish, HasFootage, was

LEMMA SeenStep ==
    ASSUME Sound, ~ mistaken', Next
    PROVE  SeenIsStillSo'
<1> USE DEF Sound, Work
<1>1. ASSUME NEW r \in Recorders, ListRows(r), NEW i \in todo'[r]
      PROVE  SeenFits(r, i)'
  <2>1. /\ seen'[r] = rows /\ todo'[r] = {j \in Ids : rows[j] # NoRow}
        /\ at'[r] \notin Hands /\ UNCHANGED <<rows, dir, session, begun>>
        /\ \A q \in Recorders : q # r => at'[q] = at[q] /\ ~ HasItsRowOpen(q)
    BY <1>1 DEF ListRows, ProcessTyped, Hands, Busy, diskVars
  <2>2. /\ i \in Ids /\ rows[i] # NoRow /\ rows[i].session \in 1..begun
        /\ rows[i].state \in {"running", "ended"} /\ Names(i, rows[i].session)
        /\ \A j \in Ids : Names(j, rows[i].session) => j = i
    BY <1>1, <2>1 DEF RowsAreSessions, RowIsASessions, Names
  <2>3. ASSUME ToFinish(rows[i]), NEW q \in Recorders, at'[q] \in Hands
        PROVE  session[q] # rows[i].session
    <3>1. q # r /\ at[q] \in {"claimed", "closed"}
      BY <2>1, <2>3 DEF HasItsRowOpen, Hands, Busy
    <3>2. CASE at[q] = "claimed"
      BY <2>2, <3>2 DEF ClaimedIsNew, IsNamed
    <3>3. CASE at[q] = "closed"
      BY <2>2, <2>3, <3>3 DEF WorkHasItsRow, RowFits, ToFinish
    <3> QED
      BY <3>1, <3>2, <3>3
  <2>4. rows[i].state = "ended" /\ ~ rows[i].file => dir[rows[i].session] \notin {"footage", "torn"}
    BY <2>2 DEF EndedEmptyMeansEmpty, HasFootage
  <2>5. \A j \in todo'[r] : rows[j].session = rows[i].session => j = i
    BY <2>1, <2>2 DEF Names
  <2>6. ToFinish(seen'[r][i]) => ToFinish(rows[i])
    BY <2>1
  <2> QED
    BY <2>1, <2>2, <2>3, <2>4, <2>5 DEF SeenFits, Names, IsOpen, HasFootage, ToFinish
<1>2. ASSUME NEW r \in Recorders, ~ ListRows(r), NEW i \in todo'[r]
      PROVE  SeenFits(r, i)'
  BY <1>2, TodoFollows, SeenKept
<1> QED
  BY <1>1, <1>2 DEF SeenIsStillSo

(* What may take the file of a session, or make it less than whole: the     *)
(* recorder writing it, and the delete of a session no row names.           *)
LEMMA FileStep ==
    ASSUME DiskTyped, ProcessTyped, EvictTyped, Next, NEW s \in Sessions, file'[s] # file[s]
    PROVE  \/ \E r \in Recorders : /\ at[r] \in {"closing", "writing"} /\ session[r] = s
                                   /\ HasFootage(s) \/ at[r] = "writing"
                                   /\ rows' = rows /\ dir' = dir
           \/ \E x \in Executors : /\ paths[x].step # "none" /\ paths[x].session = s
                                   /\ rows' = rows /\ dir' = dir
<1>1. file' # file
  OBVIOUS
<1>2. ASSUME NEW r \in Recorders, StartWriting(r) \/ FinishWriting(r)
      PROVE  /\ at[r] \in {"closing", "writing"} /\ session[r] = s
             /\ HasFootage(s) \/ at[r] = "writing"
             /\ rows' = rows /\ dir' = dir
  <2>1. \E v : file' = [file EXCEPT ![session[r]] = v]
    BY <1>2 DEF StartWriting, FinishWriting
  <2>2. session[r] = s
    BY <2>1 DEF DiskTyped
  <2> QED
    BY <1>2, <2>2 DEF StartWriting, FinishWriting
<1>3. ASSUME NEW x \in Executors, Unlink(x)
      PROVE  /\ paths[x].step # "none" /\ paths[x].session = s
             /\ rows' = rows /\ dir' = dir
  <2>1. file' = file \/ file' = [file EXCEPT ![paths[x].session] = "none"]
    BY <1>3 DEF Unlink
  <2>2. paths[x].session = s
    BY <2>1 DEF DiskTyped
  <2> QED
    BY <1>3, <2>2 DEF Unlink
<1>4. \A r \in Recorders : ~(Recovery(r) \/ Quit(r) \/ Begin(r) \/ Film(r) \/ Sweep(r))
  BY <1>1 DEF Recovery, Start, ListRows, Recover, Recovered, Quit, Begin, Claim, OpenFails, OpenRow,
     SourcesFail, StartEngine, Film, Sweep, diskVars
<1>5. \A r \in Recorders :
         ~(StopRecording(r) \/ CloseEmpty(r) \/ LayoutRefused(r) \/ CloseRow(r) \/ RemoveFootage(r))
  BY <1>1 DEF StopRecording, CloseEmpty, LayoutRefused, CloseRow, RemoveFootage, diskVars
<1>6. ~Look /\ ~Crash /\ (\A i \in Ids : ~Favour(i)) /\ \A x \in Executors : ~DeleteRow(x) /\ ~RemoveTree(x)
  BY <1>1 DEF Look, Crash, Favour, DeleteRow, RemoveTree, diskVars
<1> QED
  BY <1>2, <1>3, <1>4, <1>5, <1>6 DEF Next, Finish, Evict

LEMMA LibraryStep ==
    ASSUME Sound, Next
    PROVE  LibraryRowHasItsFile' /\ EndedEmptyMeansEmpty'
<1> USE DEF Sound, Work
<1>1. ASSUME NEW i \in Ids, rows[i].state = "ended", NEW r \in Recorders, at[r] \in Busy
      PROVE  rows[i].session # session[r]
  <2>1. Names(row[r], session[r]) /\ IsOpen(row[r]) /\ row[r] \in Ids
    BY <1>1 DEF WorkHasItsRow, RowFits
  <2>2. rows[i] # NoRow /\ i # row[r]
    BY <1>1, <2>1 DEF NoRow, IsOpen
  <2> QED
    BY <2>1, <2>2 DEF RowsAreSessions, RowIsASessions, Names
<1>2. ASSUME NEW i \in Ids, rows'[i].state = "ended", rows'[i].file
      PROVE  file'[rows'[i].session] = "whole"
  <2>1. CASE rows'[i].session = rows[i].session /\ rows[i].state = "ended" /\ rows'[i].file = rows[i].file
    <3>1. file[rows[i].session] = "whole" /\ rows[i] # NoRow /\ rows[i].session \in Sessions
      BY <1>2, <2>1, EndedIsASession DEF LibraryRowHasItsFile
    <3>2. \A x \in Executors : paths[x].step # "none" => paths[x].session # rows[i].session
      BY <3>1 DEF DeletedIsUnnamed, IsNamed, Names
    <3>3. file'[rows[i].session] = file[rows[i].session]
      BY <1>1, <2>1, <3>1, <3>2, FileStep DEF Busy
    <3> QED
      BY <2>1, <3>1, <3>3
  <2>2. ASSUME NEW r \in Recorders, EndsRow(r, i), rows'[i].session = rows[i].session
        PROVE  file'[rows'[i].session] = "whole"
    BY <1>2, <2>2 DEF EndsRow, Names, WorkHasItsFootage, FootageFits
  <2> QED
    BY <1>2, <2>1, <2>2, EndedStep
<1>3. ASSUME NEW i \in Ids, rows'[i].state = "ended", ~ rows'[i].file,
             NEW s \in Sessions, s = rows'[i].session
      PROVE  ~ HasFootage(s)'
  <2>1. CASE rows'[i].session = rows[i].session /\ rows[i].state = "ended" /\ rows'[i].file = rows[i].file
    <3>1. ~ HasFootage(s)
      BY <1>3, <2>1 DEF EndedEmptyMeansEmpty
    <3>2. CASE NoNewFootage
      BY <3>1, <3>2 DEF NoNewFootage
    <3>3. ASSUME NEW r \in Recorders, Film(r)
          PROVE  ~ HasFootage(s)'
      <4>1. s # session[r] /\ dir' = [dir EXCEPT ![session[r]] = "footage"]
        BY <1>1, <1>3, <2>1, <3>3 DEF Film, Busy
      <4>2. dir'[s] = dir[s]
        BY <4>1 DEF DiskTyped
      <4> QED
        BY <3>1, <4>2 DEF HasFootage
    <3> QED
      BY <3>2, <3>3, OnlyFilmFilms
  <2>2. ASSUME NEW r \in Recorders, EndsRow(r, i), rows'[i].session = rows[i].session
        PROVE  ~ HasFootage(s)'
    <3>1. s = session[r]
      BY <1>3, <2>2 DEF EndsRow, Names
    <3>2. ~ HasFootage(s)
      BY <1>3, <2>2, <3>1 DEF EndsRow, WorkHasItsFootage, FootageFits
    <3>3. \A q \in Recorders : ~ Film(q)
      BY <2>2 DEF EndsRow, Film
    <3> QED
      BY <3>2, <3>3, OnlyFilmFilms DEF NoNewFootage
  <2> QED
    BY <1>3, <2>1, <2>2, EndedStep
<1>4. RowsAreSessions' /\ DiskTyped'
  BY RowsStep, DiskStep
<1>5. ASSUME NEW i \in Ids, rows'[i].state = "ended", ~ rows'[i].file
      PROVE  dir'[rows'[i].session] \notin {"footage", "torn"}
  <2>1. rows'[i].session \in Sessions
    <3>1. rows'[i] # NoRow
      BY <1>5 DEF NoRow
    <3>2. rows'[i].session \in 1..begun'
      BY <1>4, <3>1 DEF RowsAreSessions, RowIsASessions
    <3>3. begun' \in 0..MaxSessions
      BY <1>4 DEF DiskTyped
    <3> QED
      BY <3>2, <3>3, LifecycleAssumption DEF Sessions
  <2>2. PICK s \in Sessions : s = rows'[i].session
    BY <2>1
  <2>3. ~ HasFootage(s)'
    BY <1>3, <1>5, <2>2
  <2> QED
    BY <2>2, <2>3 DEF HasFootage
<1> QED
  BY <1>2, <1>5 DEF LibraryRowHasItsFile, EndedEmptyMeansEmpty, HasFootage

-----------------------------------------------------------------------------
(* Footage outlives its row. *)

(* Footage leaves a directory by three steps: the claim of a new session's,  *)
(* the removal once its file is whole, and the delete of its row.            *)
LEMMA WhoTakesFootage ==
    ASSUME DiskTyped, WorkHasItsFootage, Next, NEW s \in Sessions, HasFootage(s), ~ HasFootage(s)'
    PROVE  \/ \E r \in Recorders : Claim(r) /\ s = begun + 1
           \/ \E r \in Recorders : RemoveFootage(r) /\ s = session[r]
           \/ \E x \in Executors : RemoveTree(x) /\ s = paths[x].session
<1>1. dir[s] \in {"footage", "torn"} /\ dir'[s] \notin {"footage", "torn"} /\ dir' # dir
  BY DEF HasFootage
<1>2. ASSUME NEW t, NEW v, dir' = [dir EXCEPT ![t] = v]
      PROVE  s = t /\ dir'[s] = v
  BY <1>1, <1>2 DEF DiskTyped
<1>3. ASSUME NEW r \in Recorders, Claim(r)
      PROVE  s = begun + 1
  <2>1. \E v : dir' = [dir EXCEPT ![begun + 1] = v]
    BY <1>3 DEF Claim
  <2> QED
    BY <1>2, <2>1
<1>4. ASSUME NEW r \in Recorders, RemoveFootage(r)
      PROVE  s = session[r]
  BY <1>1, <1>2, <1>4 DEF RemoveFootage, RemoveDir
<1>5. ASSUME NEW x \in Executors, RemoveTree(x)
      PROVE  s = paths[x].session
  BY <1>1, <1>2, <1>5 DEF RemoveTree, RemoveDir
<1>6. ASSUME NEW r \in Recorders, OpenRow(r) \/ SourcesFail(r)
      PROVE  FALSE
  <2>1. ~ HasFootage(session[r])
    BY <1>6 DEF OpenRow, SourcesFail, WorkHasItsFootage, FootageFits
  <2>2. dir' = dir \/ \E v : dir' = [dir EXCEPT ![session[r]] = v]
    BY <1>6 DEF OpenRow, SourcesFail
  <2> QED
    BY <1>1, <1>2, <2>1, <2>2
<1>7. ASSUME NEW r \in Recorders, CloseEmpty(r)
      PROVE  FALSE
  <2>1. ~ HasFootage(session[r])
    BY <1>7 DEF CloseEmpty
  <2>2. dir' = dir \/ \E v : dir' = [dir EXCEPT ![session[r]] = v]
    BY <1>7 DEF CloseEmpty, RemoveDir
  <2> QED
    BY <1>1, <1>2, <2>1, <2>2
<1>8. ASSUME NEW r \in Recorders, Film(r)
      PROVE  FALSE
  BY <1>1, <1>2, <1>8 DEF Film
<1>9. ~ Crash
  BY <1>1 DEF Crash
<1>10. ASSUME NEW r \in Recorders
       PROVE  /\ ~ (Recovery(r) \/ Quit(r) \/ OpenFails(r) \/ StartEngine(r) \/ Sweep(r))
              /\ ~ (StopRecording(r) \/ StartWriting(r) \/ LayoutRefused(r) \/ FinishWriting(r) \/ CloseRow(r))
  BY <1>1 DEF Recovery, Start, ListRows, Recover, Recovered, Quit, OpenFails, StartEngine, Sweep,
     StopRecording, StartWriting, LayoutRefused, FinishWriting, CloseRow, diskVars
<1>11. ~ Look /\ (\A i \in Ids : ~ Favour(i)) /\ \A x \in Executors : ~ DeleteRow(x) /\ ~ Unlink(x)
  BY <1>1 DEF Look, Favour, DeleteRow, Unlink, diskVars
<1> QED
  BY <1>3, <1>4, <1>5, <1>6, <1>7, <1>8, <1>9, <1>10, <1>11 DEF Next, Begin, Finish, Evict

LEMMA FootageOutlives ==
    ASSUME Sound, Next, NEW s \in Sessions, Exists(s), IsNamed(s)'
    PROVE  Exists(s)'
<1> USE DEF Sound, Work
<1>1. ASSUME NEW i \in Ids, Names(i, s), rows' = rows
      PROVE  \A x \in Executors : paths[x].step # "none" => paths[x].session # s
  BY <1>1 DEF DeletedIsUnnamed, IsNamed
<1>2. ASSUME rows' = rows
      PROVE  \E i \in Ids : Names(i, s)
  BY <1>2 DEF IsNamed, Names
<1>3. CASE HasFootage(s) /\ ~ HasFootage(s)'
  <2>1. ASSUME NEW r \in Recorders, Claim(r), s = begun + 1
        PROVE  FALSE
    <3>1. PICK i \in Ids : Names(i, s)
      BY <1>2, <2>1 DEF Claim
    <3>2. s \in 1..begun /\ begun \in Nat
      BY <3>1 DEF Names, RowsAreSessions, RowIsASessions, DiskTyped
    <3> QED
      BY <2>1, <3>2
  <2>2. ASSUME NEW r \in Recorders, RemoveFootage(r), s = session[r]
        PROVE  Exists(s)'
    <3>1. PICK i \in Ids : Names(i, s)
      BY <1>2, <2>2 DEF RemoveFootage
    <3>2. rows[i].state = "ended" /\ rows[i].file
      BY <2>2, <3>1 DEF RemoveFootage, WorkHasItsRow, RowFits
    <3>3. file[s] = "whole" /\ file' = file
      BY <2>2, <3>1, <3>2 DEF LibraryRowHasItsFile, Names, RemoveFootage
    <3> QED
      BY <3>3 DEF Exists
  <2>3. ASSUME NEW x \in Executors, RemoveTree(x), s = paths[x].session
        PROVE  FALSE
    BY <1>1, <1>2, <2>3 DEF RemoveTree
  <2> QED
    BY <1>3, <2>1, <2>2, <2>3, WhoTakesFootage
<1>4. CASE ~ HasFootage(s) /\ file'[s] # "whole"
  <2>1. file[s] = "whole"
    BY <1>4 DEF Exists
  <2>2. ASSUME NEW r \in Recorders, at[r] = "writing", session[r] = s
        PROVE  FALSE
    BY <1>4, <2>2 DEF WorkHasItsFootage, FootageFits
  <2>3. ASSUME NEW x \in Executors, paths[x].step # "none", paths[x].session = s, rows' = rows
        PROVE  FALSE
    BY <1>1, <1>2, <2>3
  <2> QED
    BY <1>4, <2>1, <2>2, <2>3, FileStep
<1> QED
  BY <1>3, <1>4 DEF Exists

-----------------------------------------------------------------------------
LEMMA InitIInv == Init => IInv
<1> SUFFICES ASSUME Init PROVE IInv
  OBVIOUS
<1>1. MaxSessions \in Nat /\ MaxFaults \in Nat /\ NoRow \in Row /\ NoRows \in [Ids -> Row]
  BY LifecycleAssumption DEF NoRow, NoRows, Row
<1>2. DiskTyped
  BY <1>1 DEF Init, DiskTyped
<1>3. ProcessTyped
  BY <1>1 DEF Init, ProcessTyped, Phases
<1>4. EvictTyped
  BY <1>1 DEF Init, EvictTyped, NoPaths
<1>5. \A i \in Ids : rows[i] = NoRow
  BY DEF Init, NoRows
<1>6. \A r \in Recorders : at[r] = "down" /\ job[r] = "none" /\ todo[r] = {}
  BY DEF Init
<1>7. \A x \in Executors : paths[x].step = "none"
  BY DEF Init, NoPaths
<1>8. RowsAreSessions /\ DeletedIsUnnamed /\ ClaimedIsNew
  BY <1>5, <1>6, <1>7 DEF RowsAreSessions, RowIsASessions, DeletedIsUnnamed, ClaimedIsNew
<1>9. HandsApart /\ OneRecovers
  BY <1>6 DEF HandsApart, OneRecovers, Recovers, Hands, Busy
<1>10. Work /\ SeenIsStillSo
  BY <1>6 DEF Work, WorkHasItsRow, RowFits, WorkHasItsFootage, FootageFits, WorkHasItsJob, JobFits,
     SeenIsStillSo, Busy
<1>11. LibraryRowHasItsFile /\ EndedEmptyMeansEmpty
  BY <1>5 DEF LibraryRowHasItsFile, EndedEmptyMeansEmpty, NoRow
<1>12. mistaken = FALSE
  BY DEF Init
<1> QED
  BY <1>2, <1>3, <1>4, <1>8, <1>9, <1>10, <1>11, <1>12 DEF IInv, Sound

LEMMA SoundStep ==
    ASSUME Sound, ~ mistaken', Next
    PROVE  Sound'
<1>1. DiskTyped' /\ RowsAreSessions'
  BY DiskStep, RowsStep DEF Sound, Work
<1>2. ProcessTyped' /\ EvictTyped'
  BY ProcessStep, EvictStep DEF Sound
<1>3. DeletedIsUnnamed' /\ ClaimedIsNew'
  BY DeletedStep, ClaimedStep DEF Sound, Work
<1>4. HandsApart' /\ OneRecovers'
  BY HandsStep, RecoversStep DEF Sound, Work
<1>5. Work'
  BY RowStep, FootageStep, JobStep DEF Sound, Work
<1>6. SeenIsStillSo'
  BY SeenStep
<1>7. LibraryRowHasItsFile' /\ EndedEmptyMeansEmpty'
  BY LibraryStep
<1> QED
  BY <1>1, <1>2, <1>3, <1>4, <1>5, <1>6, <1>7 DEF Sound

LEMMA SoundStays ==
    ASSUME Sound, UNCHANGED vars
    PROVE  Sound'
<1> USE DEF vars, diskVars, recorderVars, evictVars
<1>1. DiskTyped' /\ ProcessTyped' /\ EvictTyped'
  BY DEF Sound, DiskTyped, ProcessTyped, EvictTyped
<1>2. RowsAreSessions' /\ DeletedIsUnnamed' /\ ClaimedIsNew'
  BY DEF Sound, RowsAreSessions, RowIsASessions, DeletedIsUnnamed, ClaimedIsNew, IsNamed, Names
<1>3. HandsApart' /\ OneRecovers'
  BY DEF Sound, HandsApart, OneRecovers, Recovers
<1>4. WorkHasItsRow'
  BY DEF Sound, Work, WorkHasItsRow, RowFits, Names, IsOpen
<1>5. WorkHasItsFootage' /\ WorkHasItsJob'
  BY DEF Sound, Work, WorkHasItsFootage, FootageFits, HasFootage, WorkHasItsJob, JobFits
<1>6. SeenIsStillSo'
  BY DEF Sound, SeenIsStillSo, SeenFits, HasFootage, Names, IsOpen, ToFinish
<1>7. LibraryRowHasItsFile' /\ EndedEmptyMeansEmpty'
  BY DEF Sound, LibraryRowHasItsFile, EndedEmptyMeansEmpty, HasFootage
<1> QED
  BY <1>1, <1>2, <1>3, <1>4, <1>5, <1>6, <1>7 DEF Sound, Work

(* What is mistaken stays so.                                               *)
LEMMA MistakenStays ==
    ASSUME mistaken \in BOOLEAN, [Next]_vars
    PROVE  mistaken' \in BOOLEAN /\ (~ mistaken' => ~ mistaken)
<1>1. CASE UNCHANGED vars
  BY <1>1 DEF vars
<1>2. CASE Next
  BY <1>2, OnlyListRowsMistakes
<1> QED
  BY <1>1, <1>2

LEMMA NextIInv ==
    ASSUME IInv, [Next]_vars
    PROVE  IInv'
<1>1. mistaken' \in BOOLEAN /\ (~ mistaken' => Sound)
  BY MistakenStays DEF IInv
<1>2. ~ mistaken' => Sound'
  BY <1>1, SoundStep, SoundStays
<1> QED
  BY <1>1, <1>2 DEF IInv

LEMMA IInvHolds == Spec => []IInv
<1>1. IInv /\ [Next]_vars => IInv'
  BY NextIInv
<1> QED
  BY <1>1, InitIInv, PTL DEF Spec

LEMMA IInvSays ==
    ASSUME IInv
    PROVE  RowsTellTheTruth
<1> SUFFICES ASSUME ~ mistaken, Sound
             PROVE  TypeOK /\ LibraryRowHasItsFile /\ EndedEmptyMeansEmpty /\ LiveSessionIsOpen
  BY DEF IInv, RowsTellTheTruth
<1>1. mistaken \in BOOLEAN
  BY DEF IInv
<1>2. TypeOK
  BY <1>1 DEF Sound, DiskTyped, ProcessTyped, EvictTyped, TypeOK
<1>3. LiveSessionIsOpen
  BY DEF Sound, Work, WorkHasItsRow, RowFits, Busy, LiveSessionIsOpen, IsRunning
<1> QED
  BY <1>2, <1>3 DEF Sound

(* What the index says of a session is so, in every state of every process  *)
(* that ran on this disk and however many recorders it had: a row that      *)
(* ended with a file names a whole one, a row that ended without has        *)
(* nothing left to finish, and the recording being made has a running row   *)
(* of its own.  It is so until a recovery reads the row of a recorder       *)
(* armed beside it, which the host does not rule out.                       *)
THEOREM TheIndexTellsTheTruth == Spec => []RowsTellTheTruth
<1>1. IInv => RowsTellTheTruth
  BY IInvSays
<1> QED
  BY <1>1, IInvHolds, PTL

(* No step of a finish, of a recovery, of the storage policy or of the user *)
(* takes the last of a session's footage while a row names it, whatever     *)
(* fails on the way, wherever the process dies and however many recorders   *)
(* are at work, until a recovery reads the row of a recorder beside it.     *)
THEOREM FootageIsNeverLost == Spec => FootageOutlivesItsRow
<1>1. IInv /\ [Next]_vars =>
        [~ mistaken' => \A s \in Sessions : Exists(s) /\ IsNamed(s)' => Exists(s)']_vars
  <2> SUFFICES ASSUME IInv, Next, ~ mistaken', NEW s \in Sessions, Exists(s), IsNamed(s)'
               PROVE  Exists(s)'
    OBVIOUS
  <2>1. Sound
    BY MistakenStays DEF IInv
  <2> QED
    BY <2>1, FootageOutlives
<1> QED
  BY <1>1, IInvHolds, PTL DEF Spec, FootageOutlivesItsRow

=============================================================================
