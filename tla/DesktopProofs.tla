--------------------------- MODULE DesktopProofs ---------------------------
(* What the program keeps from run to run and the shell around it, proved   *)
(* for every value of the constants MCDesktop's parts declare: the rows of  *)
(* the library name their files, its versions and the old directory lose    *)
(* nothing, config.toml keeps what a panel did not edit, one launch of the  *)
(* shell stays, one recording is captured at a time, and the tools beside   *)
(* the program say what they did.                                           *)
EXTENDS MCDesktop, FiniteSetTheorems, SequenceTheorems, WellFoundedInduction, TLAPS

-----------------------------------------------------------------------------
(* --- induction over numbers ---------------------------------------------- *)
(* From the least number that is not in the set.                            *)
LEMMA NumbersByInduction ==
    ASSUME NEW T, 0 \in T, \A n \in Nat : n \in T => n + 1 \in T
    PROVE  Nat \subseteq T
<1> DEFINE Rest == {n \in Nat : n \notin T}
<1> DEFINE Less == {pair \in Nat \X Nat : pair[1] < pair[2]}
<1>1. SUFFICES ASSUME Rest # {} PROVE FALSE
  OBVIOUS
<1>2. PICK x \in Rest : \A y \in Rest : <<y, x>> \notin Less
  <2>1. IsWellFoundedOn(Less, Nat) /\ Rest \subseteq Nat
    BY NatLessThanWellFounded DEF OpToRel
  <2> HIDE DEF Rest, Less
  <2> QED
    BY <1>1, <2>1, WFMin
<1>3. x \in Nat /\ x # 0 /\ x - 1 \in Nat /\ (x - 1) + 1 = x
  OBVIOUS
<1>4. x - 1 \notin Rest
  <2>1. <<x - 1, x>> \in Less
    BY <1>3
  <2> QED
    BY <1>2, <2>1
<1> QED
  BY <1>3, <1>4

\* Of numbers up to one that is among them, it is the largest.
LEMMA TheLastIsLargest ==
    ASSUME NEW n \in Nat, NEW S \in SUBSET (1..n), n \in S
    PROVE  Max(S) = n
<1>1. \A x \in S : (\A y \in S : x >= y) <=> x = n
  OBVIOUS
<1> QED
  BY <1>1 DEF Max

-----------------------------------------------------------------------------
(* --- the clip library --------------------------------------------------- *)
(* The names a clip and its two copies may have, for the first k clips.     *)
NamesOf(k) == (1..k) \X (0..2)

(* A row, an events row and a command in flight have their fields.          *)
IsRow(r) == r = [name |-> r.name, worth |-> r.worth, created |-> r.created, favourite |-> r.favourite]
IsMark(m) == m = [clip |-> m.clip, worth |-> m.worth]
IsCommand(a) == a = [at |-> a.at, clip |-> a.clip, name |-> a.name, worth |-> a.worth, plan |-> a.plan]

(* A command that is about to index a file, or to unlink one, holds a file  *)
(* that is on disk and that no row names.                                   *)
Holds(a) == a.at \in {"index", "frames", "unlink"}
HoldsAFile(a, rows_, files) ==
    Holds(a) => a.name \in DOMAIN files /\ \A i \in DOMAIN rows_ : rows_[i].name # a.name

RowsApart(rows_) ==
    \A i, j \in DOMAIN rows_ : rows_[i].name = rows_[j].name => i = j

LibraryShape ==
    /\ saves \in Nat
    /\ DOMAIN disk \subseteq NamesOf(saves)
    /\ \A i \in DOMAIN clips : IsRow(clips[i])
    /\ \A m \in marks : IsMark(m)
    /\ IsCommand(engine) /\ IsCommand(desk)

LibraryHeld ==
    /\ HoldsAFile(engine, clips, disk)
    /\ HoldsAFile(desk, clips, disk)
    /\ Holds(engine) /\ Holds(desk) => engine.name # desk.name

LibraryInv ==
    /\ LibraryShape
    /\ RowsApart(clips)
    /\ RowNamesItsFile
    /\ LibraryHeld
    /\ LinksNameAClip

LEMMA LibraryStarts == LibraryInit => LibraryInv
<1> SUFFICES ASSUME LibraryInit
             PROVE  LibraryInv
    OBVIOUS
<1>1. DOMAIN clips = {} /\ DOMAIN disk = {} /\ marks = {} /\ tags = {} /\ saves = 0
    BY DEF LibraryInit
<1>2. engine = Idle /\ desk = Idle /\ ~Holds(Idle)
    BY DEF LibraryInit, Idle, Holds
<1>3. IsCommand(Idle)
    BY DEF IsCommand, Idle
<1>4. LibraryShape
    BY <1>1, <1>2, <1>3 DEF LibraryShape
<1>5. RowsApart(clips) /\ RowNamesItsFile
    BY <1>1 DEF RowsApart, RowNamesItsFile
<1>6. LibraryHeld
    BY <1>2 DEF LibraryHeld, HoldsAFile
<1>7. LinksNameAClip
    BY <1>1 DEF LinksNameAClip
<1> QED
    BY <1>4, <1>5, <1>6, <1>7 DEF LibraryInv

(* A name that is not one of the first k clips' names is not on disk, and   *)
(* the next clip's own name is none of them.                                *)
LEMMA TheNextNameIsFree ==
    ASSUME NEW k \in Nat
    PROVE  /\ <<k + 1, 0>> \notin NamesOf(k)
           /\ <<k + 1, 0>> \in NamesOf(k + 1)
           /\ NamesOf(k) \subseteq NamesOf(k + 1)
<1>1. k + 1 \notin 1..k /\ k + 1 \in 1..(k + 1) /\ 0 \in 0..2
    OBVIOUS
<1>2. 1..k \subseteq 1..(k + 1)
    OBVIOUS
<1> QED
    BY <1>1, <1>2 DEF NamesOf

(* A copy of a clip has one of the names of the clips so far, and no file   *)
(* has it yet.                                                              *)
LEMMA ACopyHasAFreeName ==
    ASSUME NEW k \in Nat, NEW name \in NamesOf(k), NEW n \in FreeName(name)
    PROVE  n \in NamesOf(k) /\ n \notin DOMAIN disk
<1>1. n \in Copies(name) /\ n \notin DOMAIN disk
    BY DEF FreeName
<1>2. PICK c_ \in 1..2 : n = <<name[1], c_>>
    BY <1>1 DEF Copies
<1>3. name[1] \in 1..k /\ c_ \in 0..2
    BY DEF NamesOf
<1> QED
    BY <1>1, <1>2, <1>3 DEF NamesOf

(* --- what a step does to the rows and the links ------------------------- *)
(* A new row names the file it was made for, and every link still names a   *)
(* row.                                                                     *)
LEMMA InsertingKeepsTheRows ==
    ASSUME LibraryInv, NEW name \in DOMAIN disk, InsertClip(name),
           \A i \in DOMAIN clips : clips[i].name # name
    PROVE  /\ \A i \in DOMAIN clips' : IsRow(clips'[i])
           /\ RowsApart(clips')
           /\ \A i \in DOMAIN clips' : clips'[i].name \in DOMAIN disk /\ disk[clips'[i].name] = clips'[i].worth
           /\ \A n \in DOMAIN disk : (\A i \in DOMAIN clips : clips[i].name # n) /\ n # name
                                     => \A i \in DOMAIN clips' : clips'[i].name # n
           /\ DOMAIN clips \subseteq DOMAIN clips'
<1> DEFINE k == NextId
<1> DEFINE r == [name |-> name, worth |-> disk[name], created |-> now, favourite |-> FALSE]
<1>1. clips' = [i \in DOMAIN clips \cup {k} |-> IF i = k THEN r ELSE clips[i]]
    BY DEF InsertClip
<1> HIDE DEF k
<1>2. r.name = name /\ r.worth = disk[name] /\ IsRow(r)
    BY DEF IsRow
<1> HIDE DEF r
<1>3. DOMAIN clips' = DOMAIN clips \cup {k} /\ clips'[k] = r
    BY <1>1
<1>4. \A i \in DOMAIN clips' : i = k \/ (i \in DOMAIN clips /\ clips'[i] = clips[i])
    BY <1>1
<1>5. /\ \A i \in DOMAIN clips : IsRow(clips[i])
      /\ RowsApart(clips) /\ RowNamesItsFile
    BY DEF LibraryInv, LibraryShape
<1>6. \A i \in DOMAIN clips' : IsRow(clips'[i])
    BY <1>2, <1>3, <1>4, <1>5
<1>7. RowsApart(clips')
    BY <1>2, <1>3, <1>4, <1>5 DEF RowsApart
<1>8. \A i \in DOMAIN clips' : clips'[i].name \in DOMAIN disk /\ disk[clips'[i].name] = clips'[i].worth
    BY <1>2, <1>3, <1>4, <1>5 DEF RowNamesItsFile
<1>9. ASSUME NEW n \in DOMAIN disk, \A i \in DOMAIN clips : clips[i].name # n, n # name
      PROVE  \A i \in DOMAIN clips' : clips'[i].name # n
    BY <1>2, <1>3, <1>4, <1>9
<1> QED
    BY <1>3, <1>6, <1>7, <1>8, <1>9

(* A deleted row leaves a file that no row names, and no link to itself.    *)
LEMMA DeletingKeepsTheRows ==
    ASSUME LibraryInv, NEW i \in DOMAIN clips, DeleteRow(i)
    PROVE  /\ DOMAIN clips' \subseteq DOMAIN clips
           /\ \A j \in DOMAIN clips' : clips'[j] = clips[j] /\ clips'[j].name # clips[i].name
           /\ \A m \in marks' : IsMark(m)
           /\ LinksNameAClip'
<1>1. clips' = [j \in DOMAIN clips \ {i} |-> clips[j]]
    BY DEF DeleteRow, Without
<1>2. /\ DOMAIN clips' = DOMAIN clips \ {i}
      /\ \A j \in DOMAIN clips' : clips'[j] = clips[j]
    BY <1>1
<1>3. \A j \in DOMAIN clips' : clips'[j].name # clips[i].name
    BY <1>2 DEF LibraryInv, RowsApart
<1>4. /\ tags \subseteq DOMAIN clips \cup {0}
      /\ \A m \in marks : IsMark(m) /\ m.clip \in DOMAIN clips \cup {0}
    BY DEF LibraryInv, LibraryShape, LinksNameAClip
<1>5. ASSUME NEW m_ \in marks'
      PROVE  IsMark(m_) /\ m_.clip \in DOMAIN clips' \cup {0}
    <2>1. PICK m \in marks : m_ = IF m.clip = i THEN [m EXCEPT !.clip = 0] ELSE m
        BY DEF DeleteRow
    <2>2. IsMark(m) /\ m.clip \in DOMAIN clips \cup {0}
        BY <1>4
    <2>3. CASE m.clip = i
        <3>1. m_ = [clip |-> 0, worth |-> m.worth]
            BY <2>1, <2>2, <2>3 DEF IsMark
        <3> QED
            BY <3>1 DEF IsMark
    <2>4. CASE m.clip # i
        BY <1>2, <2>1, <2>2, <2>4
    <2> QED
        BY <2>3, <2>4
<1>6. tags' \subseteq DOMAIN clips' \cup {0}
    BY <1>2, <1>4 DEF DeleteRow
<1>7. LinksNameAClip'
    BY <1>5, <1>6 DEF LinksNameAClip
<1> QED
    BY <1>2, <1>3, <1>5, <1>7

(* --- what a step does to the disk --------------------------------------- *)
(* A file that no row names goes, and no other: the rows name theirs still. *)
LEMMA UnlinkingKeepsTheRows ==
    ASSUME LibraryInv, NEW name, Unlinked(name), UNCHANGED <<clips, saves>>,
           \A i \in DOMAIN clips : clips[i].name # name
    PROVE  /\ DOMAIN disk' = DOMAIN disk \ {name}
           /\ RowNamesItsFile'
<1>1. disk' = [n \in DOMAIN disk \ {name} |-> disk[n]]
    BY DEF Unlinked, Without
<1>2. RowNamesItsFile
    BY DEF LibraryInv
<1> QED
    BY <1>1, <1>2 DEF RowNamesItsFile

(* A file that takes a free name leaves the others as they were.            *)
LEMMA WritingKeepsTheRows ==
    ASSUME LibraryInv, NEW name, name \notin DOMAIN disk, UNCHANGED clips, NEW w,
           disk' = [n \in DOMAIN disk \cup {name} |-> IF n = name THEN w ELSE disk[n]]
    PROVE  /\ DOMAIN disk' = DOMAIN disk \cup {name}
           /\ RowNamesItsFile'
           /\ \A i \in DOMAIN clips : clips[i].name # name
<1>1. RowNamesItsFile
    BY DEF LibraryInv
<1>2. \A i \in DOMAIN clips : clips[i].name # name
    BY <1>1 DEF RowNamesItsFile
<1>3. DOMAIN disk' = DOMAIN disk \cup {name}
    OBVIOUS
<1>4. \A n \in DOMAIN disk : disk'[n] = disk[n] /\ n \in DOMAIN disk'
    OBVIOUS
<1>5. RowNamesItsFile'
    BY <1>1, <1>4 DEF RowNamesItsFile
<1> QED
    BY <1>2, <1>3, <1>5

(* --- the recorder's steps ----------------------------------------------- *)
LEMMA SavingKeepsLibrary == LibraryInv /\ SavesClip => LibraryInv'
<1> SUFFICES ASSUME LibraryInv, SavesClip
             PROVE  LibraryInv'
    OBVIOUS
<1> DEFINE n == <<saves + 1, 0>>
<1>1. LibraryShape /\ RowsApart(clips) /\ RowNamesItsFile /\ LibraryHeld /\ LinksNameAClip
    BY DEF LibraryInv
<1>2. /\ UNCHANGED <<clips, tags, marks, thumbs, desk, now, faults>> /\ saves' = saves + 1
      /\ disk' = [n_ \in DOMAIN disk \cup {n} |-> IF n_ = n THEN writes + 1 ELSE disk[n_]]
    BY DEF SavesClip, storeVars
<1>3. saves \in Nat /\ n \notin DOMAIN disk /\ n \in NamesOf(saves + 1)
      /\ NamesOf(saves) \subseteq NamesOf(saves + 1)
    BY <1>1, TheNextNameIsFree DEF LibraryShape
<1>4. engine' = [at |-> "index", clip |-> 0, name |-> n, worth |-> writes + 1, plan |-> <<>>]
    BY DEF SavesClip, Idle
<1>5. IsCommand(engine') /\ engine'.name = n
    BY <1>4 DEF IsCommand
<1> HIDE DEF n
<1>6. /\ DOMAIN disk' = DOMAIN disk \cup {n}
      /\ RowNamesItsFile'
      /\ \A i \in DOMAIN clips : clips[i].name # n
    BY <1>2, <1>3, WritingKeepsTheRows
<1>7. LibraryShape'
    BY <1>1, <1>2, <1>3, <1>5, <1>6 DEF LibraryShape
<1>8. HoldsAFile(engine', clips', disk')
    BY <1>2, <1>5, <1>6 DEF HoldsAFile
<1>9. HoldsAFile(desk, clips, disk)
    BY <1>1 DEF LibraryHeld
<1>10. HoldsAFile(desk', clips', disk')
    BY <1>2, <1>6, <1>9 DEF HoldsAFile
<1>11. Holds(engine') /\ Holds(desk') => engine'.name # desk'.name
    BY <1>2, <1>3, <1>5, <1>9 DEF HoldsAFile
<1>12. LibraryHeld'
    BY <1>8, <1>10, <1>11 DEF LibraryHeld
<1>13. RowsApart(clips') /\ LinksNameAClip'
    BY <1>1, <1>2 DEF LinksNameAClip
<1> QED
    BY <1>6, <1>7, <1>12, <1>13 DEF LibraryInv

LEMMA IndexingKeepsLibrary == LibraryInv /\ IndexesClip => LibraryInv'
<1> SUFFICES ASSUME LibraryInv, IndexesClip
             PROVE  LibraryInv'
    OBVIOUS
<1>1. LibraryShape /\ RowsApart(clips) /\ RowNamesItsFile /\ LibraryHeld /\ LinksNameAClip
    BY DEF LibraryInv
<1>2. engine.at = "index" /\ UNCHANGED <<tags, marks, disk, desk, saves>>
    BY DEF IndexesClip
<1>3. IsCommand(engine)
    BY <1>1 DEF LibraryShape
<1>4. HoldsAFile(engine, clips, disk) /\ HoldsAFile(desk, clips, disk)
      /\ (Holds(desk) => engine.name # desk.name)
    BY <1>1, <1>2 DEF LibraryHeld, Holds
<1>5. engine.name \in DOMAIN disk /\ \A i \in DOMAIN clips : clips[i].name # engine.name
    BY <1>2, <1>4 DEF HoldsAFile, Holds
<1>6. CASE InsertClip(engine.name) /\ engine' = [engine EXCEPT !.at = "event", !.clip = NextId]
    <2>1. \E k : engine' = [at |-> "event", clip |-> k, name |-> engine.name, worth |-> engine.worth, plan |-> engine.plan]
        BY <1>3, <1>6 DEF IsCommand
    <2>2. IsCommand(engine') /\ ~Holds(engine')
        BY <2>1 DEF IsCommand, Holds
    <2>3. /\ \A i \in DOMAIN clips' : IsRow(clips'[i])
          /\ RowsApart(clips')
          /\ \A i \in DOMAIN clips' : clips'[i].name \in DOMAIN disk /\ disk[clips'[i].name] = clips'[i].worth
          /\ \A n \in DOMAIN disk : (\A i \in DOMAIN clips : clips[i].name # n) /\ n # engine.name
                                     => \A i \in DOMAIN clips' : clips'[i].name # n
          /\ DOMAIN clips \subseteq DOMAIN clips'
        BY <1>5, <1>6, InsertingKeepsTheRows
    <2>4. LibraryShape'
        BY <1>1, <1>2, <2>2, <2>3 DEF LibraryShape
    <2>5. HoldsAFile(desk', clips', disk')
        BY <1>2, <1>4, <2>3 DEF HoldsAFile
    <2>6. LibraryHeld'
        BY <2>2, <2>5 DEF LibraryHeld, HoldsAFile
    <2>7. RowNamesItsFile'
        BY <1>2, <2>3 DEF RowNamesItsFile
    <2>8. LinksNameAClip'
        BY <1>1, <1>2, <2>3 DEF LinksNameAClip
    <2> QED
        BY <2>3, <2>4, <2>6, <2>7, <2>8 DEF LibraryInv
<1>7. CASE UNCHANGED clips /\ engine' = [engine EXCEPT !.at = "event"]
    <2>1. engine' = [at |-> "event", clip |-> engine.clip, name |-> engine.name, worth |-> engine.worth, plan |-> engine.plan]
        BY <1>3, <1>7 DEF IsCommand
    <2>2. IsCommand(engine') /\ ~Holds(engine')
        BY <2>1 DEF IsCommand, Holds
    <2>3. LibraryShape'
        BY <1>1, <1>2, <1>7, <2>2 DEF LibraryShape
    <2>4. LibraryHeld'
        BY <1>2, <1>4, <1>7, <2>2 DEF LibraryHeld, HoldsAFile
    <2>5. RowsApart(clips') /\ RowNamesItsFile' /\ LinksNameAClip'
        BY <1>1, <1>2, <1>7 DEF RowNamesItsFile, LinksNameAClip
    <2> QED
        BY <2>3, <2>4, <2>5 DEF LibraryInv
<1> QED
    BY <1>6, <1>7 DEF IndexesClip

(* A step that neither writes, removes nor renames anything, and after which *)
(* a thread or a command holds what it held, or nothing.                    *)
Releases(new_, old_) ==
    IsCommand(new_) /\ (Holds(new_) => Holds(old_) /\ new_.name = old_.name)

LEMMA ReleasingKeepsLibrary ==
    ASSUME LibraryInv, UNCHANGED <<clips, disk, saves>>,
           \A m \in marks' : IsMark(m), LinksNameAClip',
           Releases(engine', engine), Releases(desk', desk)
    PROVE  LibraryInv'
<1>1. LibraryShape /\ RowsApart(clips) /\ RowNamesItsFile /\ LibraryHeld
    BY DEF LibraryInv
<1>2. LibraryShape'
    BY <1>1 DEF LibraryShape, Releases
<1>3. HoldsAFile(engine', clips', disk') /\ HoldsAFile(desk', clips', disk')
    BY <1>1 DEF LibraryHeld, Releases, HoldsAFile
<1>4. Holds(engine') /\ Holds(desk') => engine'.name # desk'.name
    BY <1>1 DEF LibraryHeld, Releases
<1>5. RowsApart(clips') /\ RowNamesItsFile'
    BY <1>1 DEF RowNamesItsFile
<1> QED
    BY <1>2, <1>3, <1>4, <1>5 DEF LibraryInv, LibraryHeld

LEMMA AnIdleCommandHoldsNothing == IsCommand(Idle) /\ ~Holds(Idle)
    BY DEF IsCommand, Holds, Idle

LEMMA TheEventKeepsLibrary == LibraryInv /\ IndexesEvent => LibraryInv'
<1> SUFFICES ASSUME LibraryInv, IndexesEvent
             PROVE  LibraryInv'
    OBVIOUS
<1>1. UNCHANGED <<clips, tags, disk, desk, saves>> /\ engine' = Idle
    BY DEF IndexesEvent, clock
<1>2. LinksNameAClip /\ (\A m \in marks : IsMark(m)) /\ IsCommand(desk)
    BY DEF LibraryInv, LibraryShape
<1> DEFINE m_ == [clip |-> engine.clip, worth |-> engine.worth]
<1>3. IsMark(m_) /\ m_.clip = engine.clip
    BY DEF IsMark
<1>4. marks' = IF engine.clip \in DOMAIN clips \cup {0} THEN marks \cup {m_} ELSE marks
    BY DEF IndexesEvent, InsertEvent
<1> HIDE DEF m_
<1>5. \A m \in marks' : IsMark(m)
    BY <1>2, <1>3, <1>4
<1>6. LinksNameAClip'
    BY <1>1, <1>2, <1>3, <1>4 DEF LinksNameAClip
<1>7. Releases(engine', engine) /\ Releases(desk', desk)
    BY <1>1, <1>2, AnIdleCommandHoldsNothing DEF Releases
<1> QED
    BY <1>1, <1>5, <1>6, <1>7, ReleasingKeepsLibrary

LEMMA PlanningKeepsLibrary == LibraryInv /\ (PlansCleanup \/ EndsCleanup) => LibraryInv'
<1> SUFFICES ASSUME LibraryInv, PlansCleanup \/ EndsCleanup
             PROVE  LibraryInv'
    OBVIOUS
<1>1. UNCHANGED <<clips, tags, marks, disk, desk, saves>>
    BY DEF PlansCleanup, EndsCleanup, storeVars, clock
<1>2. LinksNameAClip /\ (\A m \in marks : IsMark(m)) /\ IsCommand(desk)
    BY DEF LibraryInv, LibraryShape
<1>3. Releases(engine', engine)
    <2>1. CASE EndsCleanup
        BY <2>1, AnIdleCommandHoldsNothing DEF EndsCleanup, Releases
    <2>2. CASE PlansCleanup
        <3>1. PICK p_ : engine' = [at |-> "delete", clip |-> 0, name |-> <<0, 0>>, worth |-> 0, plan |-> p_]
            BY <2>2 DEF PlansCleanup, Idle
        <3> QED
            BY <3>1 DEF Releases, IsCommand, Holds
    <2> QED
        BY <2>1, <2>2
<1>4. LinksNameAClip' /\ \A m \in marks' : IsMark(m)
    BY <1>1, <1>2 DEF LinksNameAClip
<1>5. Releases(desk', desk)
    BY <1>1, <1>2 DEF Releases
<1> QED
    BY <1>1, <1>3, <1>4, <1>5, ReleasingKeepsLibrary

(* Deleting a row, by either of the two, leaves its file in the hand of the *)
(* one that deleted it.                                                     *)
LEMMA DeletingHandsTheFileOn ==
    ASSUME LibraryInv, NEW i \in DOMAIN clips, DeleteRow(i), UNCHANGED <<disk, saves>>
    PROVE  /\ \A j \in DOMAIN clips' : IsRow(clips'[j])
           /\ \A m \in marks' : IsMark(m)
           /\ RowsApart(clips') /\ RowNamesItsFile' /\ LinksNameAClip'
           /\ clips[i].name \in DOMAIN disk'
           /\ \A j \in DOMAIN clips' : clips'[j].name # clips[i].name
           /\ HoldsAFile(engine, clips', disk') /\ HoldsAFile(desk, clips', disk')
           /\ (Holds(engine) => engine.name # clips[i].name)
           /\ (Holds(desk) => desk.name # clips[i].name)
<1>1. /\ DOMAIN clips' \subseteq DOMAIN clips
      /\ \A j \in DOMAIN clips' : clips'[j] = clips[j] /\ clips'[j].name # clips[i].name
      /\ \A m \in marks' : IsMark(m)
      /\ LinksNameAClip'
    BY DeletingKeepsTheRows
<1>2. LibraryShape /\ RowsApart(clips) /\ RowNamesItsFile /\ LibraryHeld
    BY DEF LibraryInv
<1>3. \A j \in DOMAIN clips' : IsRow(clips'[j])
    BY <1>1, <1>2 DEF LibraryShape
<1>4. RowsApart(clips')
    BY <1>1, <1>2 DEF RowsApart
<1>5. RowNamesItsFile' /\ clips[i].name \in DOMAIN disk'
    BY <1>1, <1>2 DEF RowNamesItsFile
<1>6. HoldsAFile(engine, clips, disk) /\ HoldsAFile(desk, clips, disk)
    BY <1>2 DEF LibraryHeld
<1>7. HoldsAFile(engine, clips', disk') /\ HoldsAFile(desk, clips', disk')
    BY <1>1, <1>6 DEF HoldsAFile
<1>8. (Holds(engine) => engine.name # clips[i].name) /\ (Holds(desk) => desk.name # clips[i].name)
    BY <1>6 DEF HoldsAFile
<1> QED
    BY <1>1, <1>3, <1>4, <1>5, <1>7, <1>8

LEMMA CleaningARowKeepsLibrary == LibraryInv /\ CleansRow => LibraryInv'
<1> SUFFICES ASSUME LibraryInv, CleansRow
             PROVE  LibraryInv'
    OBVIOUS
<1> DEFINE i == Head(engine.plan)
<1>1. engine.at = "delete" /\ UNCHANGED <<disk, desk, saves>>
    BY DEF CleansRow
<1>2. IsCommand(engine) /\ IsCommand(desk) /\ saves \in Nat /\ DOMAIN disk \subseteq NamesOf(saves)
    BY DEF LibraryInv, LibraryShape
<1>3. CASE i \in DOMAIN clips /\ DeleteRow(i)
           /\ engine' = [engine EXCEPT !.at = "unlink", !.plan = Tail(@), !.name = clips[i].name]
    <2> HIDE DEF i
    <2>1. PICK p_ : engine' = [at |-> "unlink", clip |-> engine.clip, name |-> clips[i].name, worth |-> engine.worth, plan |-> p_]
        BY <1>2, <1>3 DEF IsCommand
    <2>2. IsCommand(engine') /\ engine'.name = clips[i].name
        BY <2>1 DEF IsCommand
    <2>3. /\ \A j \in DOMAIN clips' : IsRow(clips'[j])
          /\ \A m \in marks' : IsMark(m)
          /\ RowsApart(clips') /\ RowNamesItsFile' /\ LinksNameAClip'
          /\ clips[i].name \in DOMAIN disk'
          /\ \A j \in DOMAIN clips' : clips'[j].name # clips[i].name
          /\ HoldsAFile(desk, clips', disk')
          /\ (Holds(desk) => desk.name # clips[i].name)
        BY <1>1, <1>3, DeletingHandsTheFileOn
    <2>4. LibraryShape'
        BY <1>1, <1>2, <2>2, <2>3 DEF LibraryShape
    <2>5. LibraryHeld'
        BY <1>1, <2>2, <2>3 DEF LibraryHeld, HoldsAFile
    <2> QED
        BY <2>3, <2>4, <2>5 DEF LibraryInv
<1>4. CASE UNCHANGED storeVars /\ engine' = [engine EXCEPT !.plan = Tail(@)]
    <2>1. PICK p_ : engine' = [at |-> "delete", clip |-> engine.clip, name |-> engine.name, worth |-> engine.worth, plan |-> p_]
        BY <1>1, <1>2, <1>4 DEF IsCommand
    <2>2. Releases(engine', engine)
        BY <2>1 DEF Releases, IsCommand, Holds
    <2>3. Releases(desk', desk)
        BY <1>1, <1>2 DEF Releases
    <2>4. UNCHANGED <<clips, tags, marks>>
        BY <1>4 DEF storeVars
    <2>5. LinksNameAClip' /\ \A m \in marks' : IsMark(m)
        BY <2>4 DEF LibraryInv, LibraryShape, LinksNameAClip
    <2> QED
        BY <1>1, <2>2, <2>3, <2>4, <2>5, ReleasingKeepsLibrary
<1> QED
    BY <1>3, <1>4 DEF CleansRow

(* A file that one of the two unlinks is neither named by a row nor held by *)
(* the other.                                                               *)
LEMMA CleaningAFileKeepsLibrary == LibraryInv /\ CleansFile => LibraryInv'
<1> SUFFICES ASSUME LibraryInv, CleansFile
             PROVE  LibraryInv'
    OBVIOUS
<1>1. LibraryShape /\ RowsApart(clips) /\ LibraryHeld /\ LinksNameAClip
    BY DEF LibraryInv
<1>2. engine.at = "unlink" /\ UNCHANGED <<clips, tags, marks, desk, saves>>
      /\ engine' = [engine EXCEPT !.at = "delete"]
    BY DEF CleansFile, storeVars
<1>3. IsCommand(engine) /\ IsCommand(desk)
    BY <1>1 DEF LibraryShape
<1>4. engine' = [at |-> "delete", clip |-> engine.clip, name |-> engine.name, worth |-> engine.worth, plan |-> engine.plan]
    BY <1>2, <1>3 DEF IsCommand
<1>5. Releases(engine', engine) /\ Releases(desk', desk) /\ ~Holds(engine')
    BY <1>2, <1>3, <1>4 DEF Releases, IsCommand, Holds
<1>6. HoldsAFile(engine, clips, disk) /\ HoldsAFile(desk, clips, disk) /\ (Holds(desk) => desk.name # engine.name)
    BY <1>1, <1>2 DEF LibraryHeld, Holds
<1>7. LinksNameAClip' /\ \A m \in marks' : IsMark(m)
    BY <1>1, <1>2 DEF LibraryShape, LinksNameAClip
<1>8. CASE Unlinked(engine.name)
    <2>1. \A i \in DOMAIN clips : clips[i].name # engine.name
        BY <1>2, <1>6 DEF HoldsAFile, Holds
    <2>2. DOMAIN disk' = DOMAIN disk \ {engine.name} /\ RowNamesItsFile'
        BY <1>2, <1>8, <2>1, UnlinkingKeepsTheRows
    <2>3. LibraryShape'
        BY <1>1, <1>2, <1>5, <2>2 DEF LibraryShape, Releases
    <2>4. HoldsAFile(desk', clips', disk')
        BY <1>2, <1>6, <2>2 DEF HoldsAFile
    <2>5. LibraryHeld'
        BY <1>5, <2>4 DEF LibraryHeld, HoldsAFile
    <2> QED
        BY <1>1, <1>2, <1>7, <2>2, <2>3, <2>5 DEF LibraryInv
<1>9. CASE UNCHANGED disk
    BY <1>2, <1>5, <1>7, <1>9, ReleasingKeepsLibrary
<1> QED
    BY <1>8, <1>9 DEF CleansFile

(* --- the desktop's steps ------------------------------------------------ *)
(* Marking a favourite changes no row's name or worth.                      *)
LEMMA MarkingKeepsLibrary ==
    ASSUME LibraryInv, NEW i \in DOMAIN clips, NEW b \in BOOLEAN, SetsFavourite(i, b)
    PROVE  LibraryInv'
<1>1. LibraryShape /\ RowsApart(clips) /\ RowNamesItsFile /\ LibraryHeld /\ LinksNameAClip
    BY DEF LibraryInv
<1>2. UNCHANGED <<tags, marks, disk, engine, desk, saves>> /\ clips' = [clips EXCEPT ![i].favourite = b]
    BY DEF SetsFavourite, StoreFavourite, clock
<1> DEFINE r == [name |-> clips[i].name, worth |-> clips[i].worth, created |-> clips[i].created, favourite |-> b]
<1>3. IsRow(clips[i])
    BY <1>1 DEF LibraryShape
<1>4. [clips[i] EXCEPT !.favourite = b] = r
    BY <1>3 DEF IsRow
<1>5. clips' = [clips EXCEPT ![i] = [clips[i] EXCEPT !.favourite = b]]
    BY <1>2
<1>6. clips' = [clips EXCEPT ![i] = r]
    BY <1>4, <1>5
<1>7. r.name = clips[i].name /\ r.worth = clips[i].worth /\ IsRow(r)
    BY DEF IsRow
<1> HIDE DEF r
<1>8. DOMAIN clips' = DOMAIN clips /\ clips'[i] = r /\ \A j \in DOMAIN clips : j # i => clips'[j] = clips[j]
    BY <1>6
<1>9. \A j \in DOMAIN clips : clips'[j].name = clips[j].name /\ clips'[j].worth = clips[j].worth
                              /\ (IsRow(clips[j]) => IsRow(clips'[j]))
    BY <1>7, <1>8
<1>10. LibraryShape'
    BY <1>1, <1>2, <1>8, <1>9 DEF LibraryShape
<1>11. RowsApart(clips')
    BY <1>1, <1>8, <1>9 DEF RowsApart
<1>12. RowNamesItsFile'
    BY <1>1, <1>2, <1>8, <1>9 DEF RowNamesItsFile
<1>13. LibraryHeld'
    BY <1>1, <1>2, <1>8, <1>9 DEF LibraryHeld, HoldsAFile
<1>14. LinksNameAClip'
    BY <1>1, <1>2, <1>8 DEF LinksNameAClip
<1> QED
    BY <1>10, <1>11, <1>12, <1>13, <1>14 DEF LibraryInv

LEMMA TaggingKeepsLibrary ==
    ASSUME LibraryInv, NEW i \in DOMAIN clips, NEW b \in BOOLEAN, SetsTag(i, b)
    PROVE  LibraryInv'
<1>1. UNCHANGED <<clips, marks, disk, engine, desk, saves>> /\ tags' = IF b THEN tags \cup ({i} \cap DOMAIN clips) ELSE tags \ {i}
    BY DEF SetsTag, ReplaceTags, clock
<1>2. LinksNameAClip /\ (\A m \in marks : IsMark(m)) /\ IsCommand(engine) /\ IsCommand(desk)
    BY DEF LibraryInv, LibraryShape
<1>3. tags' \subseteq tags \cup DOMAIN clips
    BY <1>1
<1>4. LinksNameAClip' /\ \A m \in marks' : IsMark(m)
    BY <1>1, <1>2, <1>3 DEF LinksNameAClip
<1>5. Releases(engine', engine) /\ Releases(desk', desk)
    BY <1>1, <1>2 DEF Releases
<1> QED
    BY <1>1, <1>4, <1>5, ReleasingKeepsLibrary

LEMMA DeletingKeepsLibrary ==
    ASSUME LibraryInv, NEW i \in DOMAIN clips, DeletesClip(i)
    PROVE  LibraryInv'
<1>1. DeleteRow(i) /\ UNCHANGED <<disk, engine, saves>>
      /\ desk' = [at |-> "frames", clip |-> i, name |-> clips[i].name, worth |-> 0, plan |-> <<>>]
    BY DEF DeletesClip, clock, Idle
<1>2. IsCommand(desk') /\ desk'.name = clips[i].name
    BY <1>1 DEF IsCommand
<1>3. IsCommand(engine) /\ saves \in Nat /\ DOMAIN disk \subseteq NamesOf(saves)
    BY DEF LibraryInv, LibraryShape
<1>4. /\ \A j \in DOMAIN clips' : IsRow(clips'[j])
      /\ \A m \in marks' : IsMark(m)
      /\ RowsApart(clips') /\ RowNamesItsFile' /\ LinksNameAClip'
      /\ clips[i].name \in DOMAIN disk'
      /\ \A j \in DOMAIN clips' : clips'[j].name # clips[i].name
      /\ HoldsAFile(engine, clips', disk')
      /\ (Holds(engine) => engine.name # clips[i].name)
    BY <1>1, DeletingHandsTheFileOn
<1>5. LibraryShape'
    BY <1>1, <1>2, <1>3, <1>4 DEF LibraryShape
<1>6. LibraryHeld'
    BY <1>1, <1>2, <1>4 DEF LibraryHeld, HoldsAFile
<1> QED
    BY <1>4, <1>5, <1>6 DEF LibraryInv

LEMMA TheFramesKeepLibrary == LibraryInv /\ DeletesFrames => LibraryInv'
<1> SUFFICES ASSUME LibraryInv, DeletesFrames
             PROVE  LibraryInv'
    OBVIOUS
<1>1. desk.at = "frames" /\ desk' = [desk EXCEPT !.at = "unlink"]
      /\ UNCHANGED <<clips, tags, marks, disk, engine, saves>>
    BY DEF DeletesFrames, storeVars
<1>2. LinksNameAClip /\ (\A m \in marks : IsMark(m)) /\ IsCommand(engine) /\ IsCommand(desk)
    BY DEF LibraryInv, LibraryShape
<1>3. desk' = [at |-> "unlink", clip |-> desk.clip, name |-> desk.name, worth |-> desk.worth, plan |-> desk.plan]
    BY <1>1, <1>2 DEF IsCommand
<1>4. Releases(engine', engine) /\ Releases(desk', desk)
    BY <1>1, <1>2, <1>3 DEF Releases, IsCommand, Holds
<1>5. LinksNameAClip' /\ \A m \in marks' : IsMark(m)
    BY <1>1, <1>2 DEF LinksNameAClip
<1> QED
    BY <1>1, <1>4, <1>5, ReleasingKeepsLibrary

LEMMA DeletingAFileKeepsLibrary == LibraryInv /\ DeletesFile => LibraryInv'
<1> SUFFICES ASSUME LibraryInv, DeletesFile
             PROVE  LibraryInv'
    OBVIOUS
<1>1. LibraryShape /\ RowsApart(clips) /\ LibraryHeld /\ LinksNameAClip
    BY DEF LibraryInv
<1>2. desk.at = "unlink" /\ UNCHANGED <<clips, tags, marks, engine, saves>> /\ desk' = Idle
    BY DEF DeletesFile, storeVars
<1>3. Releases(engine', engine) /\ Releases(desk', desk) /\ ~Holds(desk')
    BY <1>1, <1>2, AnIdleCommandHoldsNothing DEF LibraryShape, Releases
<1>4. HoldsAFile(engine, clips, disk) /\ HoldsAFile(desk, clips, disk) /\ (Holds(engine) => desk.name # engine.name)
    BY <1>1, <1>2 DEF LibraryHeld, Holds
<1>5. LinksNameAClip' /\ \A m \in marks' : IsMark(m)
    BY <1>1, <1>2 DEF LibraryShape, LinksNameAClip
<1>6. CASE Unlinked(desk.name)
    <2>1. \A i \in DOMAIN clips : clips[i].name # desk.name
        BY <1>2, <1>4 DEF HoldsAFile, Holds
    <2>2. DOMAIN disk' = DOMAIN disk \ {desk.name} /\ RowNamesItsFile'
        BY <1>2, <1>6, <2>1, UnlinkingKeepsTheRows
    <2>3. LibraryShape'
        BY <1>1, <1>2, <1>3, <2>2 DEF LibraryShape, Releases
    <2>4. HoldsAFile(engine', clips', disk')
        BY <1>2, <1>4, <2>2 DEF HoldsAFile
    <2>5. LibraryHeld'
        BY <1>3, <2>4 DEF LibraryHeld, HoldsAFile
    <2> QED
        BY <1>1, <1>2, <1>5, <2>2, <2>3, <2>5 DEF LibraryInv
<1>7. CASE UNCHANGED disk
    BY <1>2, <1>3, <1>5, <1>7, ReleasingKeepsLibrary
<1> QED
    BY <1>6, <1>7 DEF DeletesFile

LEMMA TrimmingKeepsLibrary ==
    ASSUME LibraryInv, NEW i \in DOMAIN clips, Trims(i)
    PROVE  LibraryInv'
<1>1. LibraryShape /\ RowsApart(clips) /\ RowNamesItsFile /\ LibraryHeld /\ LinksNameAClip
    BY DEF LibraryInv
<1>2. PICK n \in FreeName(clips[i].name) :
          /\ disk' = [n_ \in DOMAIN disk \cup {n} |-> IF n_ = n THEN writes + 1 ELSE disk[n_]]
          /\ desk' = [Idle EXCEPT !.at = "index", !.clip = i, !.name = n]
    BY DEF Trims
<1>3. UNCHANGED <<clips, tags, marks, engine, saves>>
    BY DEF Trims, storeVars
<1>4. clips[i].name \in NamesOf(saves) /\ saves \in Nat
    BY <1>1 DEF LibraryShape, RowNamesItsFile
<1>5. n \in NamesOf(saves) /\ n \notin DOMAIN disk
    BY <1>4, ACopyHasAFreeName
<1>6. desk' = [at |-> "index", clip |-> i, name |-> n, worth |-> 0, plan |-> <<>>]
    BY <1>2 DEF Idle
<1>7. IsCommand(desk') /\ desk'.name = n
    BY <1>6 DEF IsCommand
<1>8. /\ DOMAIN disk' = DOMAIN disk \cup {n}
      /\ RowNamesItsFile'
      /\ \A j \in DOMAIN clips : clips[j].name # n
    BY <1>2, <1>3, <1>5, WritingKeepsTheRows
<1>9. LibraryShape'
    BY <1>1, <1>3, <1>5, <1>7, <1>8 DEF LibraryShape
<1>10. HoldsAFile(desk', clips', disk')
    BY <1>3, <1>7, <1>8 DEF HoldsAFile
<1>11. HoldsAFile(engine, clips, disk)
    BY <1>1 DEF LibraryHeld
<1>12. HoldsAFile(engine', clips', disk')
    BY <1>3, <1>8, <1>11 DEF HoldsAFile
<1>13. Holds(engine') /\ Holds(desk') => engine'.name # desk'.name
    BY <1>3, <1>5, <1>7, <1>11 DEF HoldsAFile
<1>14. RowsApart(clips') /\ LinksNameAClip'
    BY <1>1, <1>3 DEF LinksNameAClip
<1> QED
    BY <1>8, <1>9, <1>10, <1>12, <1>13, <1>14 DEF LibraryInv, LibraryHeld

LEMMA IndexingATrimKeepsLibrary == LibraryInv /\ IndexesTrim => LibraryInv'
<1> SUFFICES ASSUME LibraryInv, IndexesTrim
             PROVE  LibraryInv'
    OBVIOUS
<1>1. LibraryShape /\ RowsApart(clips) /\ RowNamesItsFile /\ LibraryHeld /\ LinksNameAClip
    BY DEF LibraryInv
<1>2. desk.at = "index" /\ UNCHANGED <<tags, marks, disk, engine, saves>>
    BY DEF IndexesTrim
<1>3. IsCommand(desk) /\ IsCommand(engine)
    BY <1>1 DEF LibraryShape
<1>4. HoldsAFile(engine, clips, disk) /\ HoldsAFile(desk, clips, disk)
      /\ (Holds(engine) => engine.name # desk.name)
    BY <1>1, <1>2 DEF LibraryHeld, Holds
<1>5. desk.name \in DOMAIN disk /\ \A i \in DOMAIN clips : clips[i].name # desk.name
    BY <1>2, <1>4 DEF HoldsAFile, Holds
<1>6. CASE InsertClip(desk.name) /\ desk' = [desk EXCEPT !.at = "inherit", !.plan = IF desk.clip \in tags THEN <<NextId>> ELSE <<>>]
    <2>1. PICK p_ : desk' = [at |-> "inherit", clip |-> desk.clip, name |-> desk.name, worth |-> desk.worth, plan |-> p_]
        BY <1>3, <1>6 DEF IsCommand
    <2>2. IsCommand(desk') /\ ~Holds(desk')
        BY <2>1 DEF IsCommand, Holds
    <2>3. /\ \A i \in DOMAIN clips' : IsRow(clips'[i])
          /\ RowsApart(clips')
          /\ \A i \in DOMAIN clips' : clips'[i].name \in DOMAIN disk /\ disk[clips'[i].name] = clips'[i].worth
          /\ \A n \in DOMAIN disk : (\A i \in DOMAIN clips : clips[i].name # n) /\ n # desk.name
                                     => \A i \in DOMAIN clips' : clips'[i].name # n
          /\ DOMAIN clips \subseteq DOMAIN clips'
        BY <1>5, <1>6, InsertingKeepsTheRows
    <2>4. LibraryShape'
        BY <1>1, <1>2, <2>2, <2>3 DEF LibraryShape
    <2>5. HoldsAFile(engine', clips', disk')
        BY <1>2, <1>4, <2>3 DEF HoldsAFile
    <2>6. LibraryHeld'
        BY <2>2, <2>5 DEF LibraryHeld, HoldsAFile
    <2>7. RowNamesItsFile'
        BY <1>2, <2>3 DEF RowNamesItsFile
    <2>8. LinksNameAClip'
        BY <1>1, <1>2, <2>3 DEF LinksNameAClip
    <2> QED
        BY <2>3, <2>4, <2>6, <2>7, <2>8 DEF LibraryInv
<1>7. CASE UNCHANGED clips /\ desk' = Idle
    <2>1. Releases(engine', engine) /\ Releases(desk', desk)
        BY <1>2, <1>3, <1>7, AnIdleCommandHoldsNothing DEF Releases
    <2>2. LinksNameAClip' /\ \A m \in marks' : IsMark(m)
        BY <1>1, <1>2, <1>7 DEF LibraryShape, LinksNameAClip
    <2> QED
        BY <1>2, <1>7, <2>1, <2>2, ReleasingKeepsLibrary
<1> QED
    BY <1>6, <1>7 DEF IndexesTrim

LEMMA InheritingKeepsLibrary == LibraryInv /\ InheritsTags => LibraryInv'
<1> SUFFICES ASSUME LibraryInv, InheritsTags
             PROVE  LibraryInv'
    OBVIOUS
<1>1. UNCHANGED <<clips, marks, disk, engine, saves>> /\ desk' = Idle
      /\ tags' \subseteq tags \cup DOMAIN clips
    BY DEF InheritsTags, ReplaceTags, clock
<1>2. LinksNameAClip /\ (\A m \in marks : IsMark(m)) /\ IsCommand(engine)
    BY DEF LibraryInv, LibraryShape
<1>3. LinksNameAClip' /\ \A m \in marks' : IsMark(m)
    BY <1>1, <1>2 DEF LinksNameAClip
<1>4. Releases(engine', engine) /\ Releases(desk', desk)
    BY <1>1, <1>2, AnIdleCommandHoldsNothing DEF Releases
<1> QED
    BY <1>1, <1>3, <1>4, ReleasingKeepsLibrary

(* --- every step --------------------------------------------------------- *)
LEMMA TheRestKeepsLibrary ==
    LibraryInv /\ ((\E i \in DOMAIN clips : MakesThumbnail(i)) \/ LibraryCrashes \/ LibraryAges
                   \/ UNCHANGED libraryVars)
    => LibraryInv'
<1> SUFFICES ASSUME LibraryInv,
                    (\E i \in DOMAIN clips : MakesThumbnail(i)) \/ LibraryCrashes \/ LibraryAges
                    \/ UNCHANGED libraryVars
             PROVE  LibraryInv'
    OBVIOUS
<1>1. UNCHANGED <<clips, tags, marks, disk, saves>>
    BY DEF MakesThumbnail, LibraryCrashes, LibraryAges, libraryVars, storeVars
<1>2. LinksNameAClip /\ (\A m \in marks : IsMark(m)) /\ IsCommand(engine) /\ IsCommand(desk)
    BY DEF LibraryInv, LibraryShape
<1>3. LinksNameAClip' /\ \A m \in marks' : IsMark(m)
    BY <1>1, <1>2 DEF LinksNameAClip
<1>4. (engine' = engine /\ desk' = desk) \/ (engine' = Idle /\ desk' = Idle)
    BY DEF MakesThumbnail, LibraryCrashes, LibraryAges, libraryVars
<1>5. Releases(engine', engine) /\ Releases(desk', desk)
    BY <1>2, <1>4, AnIdleCommandHoldsNothing DEF Releases
<1> QED
    BY <1>1, <1>3, <1>5, ReleasingKeepsLibrary

LEMMA LibraryStays == LibraryInv /\ [LibraryNext]_libraryVars => LibraryInv'
<1> SUFFICES ASSUME LibraryInv, [LibraryNext]_libraryVars
             PROVE  LibraryInv'
    OBVIOUS
<1>1. CASE SavesClip \/ IndexesClip \/ IndexesEvent
    BY <1>1, SavingKeepsLibrary, IndexingKeepsLibrary, TheEventKeepsLibrary
<1>2. CASE PlansCleanup \/ CleansRow \/ CleansFile \/ EndsCleanup
    BY <1>2, PlanningKeepsLibrary, CleaningARowKeepsLibrary, CleaningAFileKeepsLibrary
<1>3. CASE DeletesFrames \/ DeletesFile \/ IndexesTrim \/ InheritsTags
    BY <1>3, TheFramesKeepLibrary, DeletingAFileKeepsLibrary, IndexingATrimKeepsLibrary,
       InheritingKeepsLibrary
<1>4. CASE \E i \in DOMAIN clips : \E b \in BOOLEAN : SetsFavourite(i, b) \/ SetsTag(i, b)
    BY <1>4, MarkingKeepsLibrary, TaggingKeepsLibrary
<1>5. CASE \E i \in DOMAIN clips : DeletesClip(i) \/ Trims(i)
    BY <1>5, DeletingKeepsLibrary, TrimmingKeepsLibrary
<1>6. CASE (\E i \in DOMAIN clips : MakesThumbnail(i)) \/ LibraryCrashes \/ LibraryAges
           \/ UNCHANGED libraryVars
    BY <1>6, TheRestKeepsLibrary
<1> QED
    BY <1>1, <1>2, <1>3, <1>4, <1>5, <1>6 DEF LibraryNext

-----------------------------------------------------------------------------
(* A function on the subsets of a finite set that takes one element at a    *)
(* time, the way the folds of the community modules do: there is one.       *)
Folds(f, D, pick, step, base) ==
    /\ f[{}] = base
    /\ \A S \in SUBSET D : S # {} => f[S] = step[pick[S]][f[S \ {pick[S]}]]

LEMMA ThereIsAFold ==
    ASSUME NEW D, IsFiniteSet(D),
           NEW pick, \A S \in SUBSET D : S # {} => pick[S] \in S,
           NEW Y, NEW base \in Y, NEW step \in [D -> [Y -> Y]]
    PROVE  \E f \in [SUBSET D -> Y] : Folds(f, D, pick, step, base)
<1> DEFINE Upto(n) == {S \in SUBSET D : Cardinality(S) <= n}
           Made(f, n) == /\ f \in [Upto(n) -> Y] /\ f[{}] = base
                         /\ \A S \in Upto(n) : S # {} => f[S] = step[pick[S]][f[S \ {pick[S]}]]
           T == {n \in Nat : \E f : Made(f, n)}
<1>1. \A S \in SUBSET D : IsFiniteSet(S) /\ Cardinality(S) \in Nat /\ (Cardinality(S) = 0 <=> S = {})
  BY FS_Subset, FS_CardinalityType, FS_EmptySet
<1>2. \A S \in SUBSET D : S # {} => /\ S \ {pick[S]} \in SUBSET D
                                    /\ Cardinality(S \ {pick[S]}) = Cardinality(S) - 1
  BY <1>1, FS_RemoveElement
<1>3. 0 \in T
  <2>1. \A S \in Upto(0) : S = {}
    BY <1>1
  <2>2. {} \in Upto(0)
    BY <1>1
  <2>3. Made([S \in Upto(0) |-> base], 0)
    BY <2>1, <2>2
  <2> HIDE DEF Made
  <2> QED
    BY <2>3
<1>4. ASSUME NEW n \in Nat, n \in T PROVE n + 1 \in T
  <2>1. PICK f : Made(f, n)
    BY <1>4
  <2> DEFINE g == [S \in Upto(n + 1) |-> IF S \in Upto(n) THEN f[S] ELSE step[pick[S]][f[S \ {pick[S]}]]]
  <2>2. \A S \in Upto(n + 1) : S # {} => S \ {pick[S]} \in Upto(n) /\ pick[S] \in D
    BY <1>1, <1>2
  <2>3. \A S \in Upto(n) : S \in Upto(n + 1)
    BY <1>1
  <2>4. {} \in Upto(n)
    BY <1>1
  <2>5. \A S \in Upto(n + 1) : S # {} => f[S \ {pick[S]}] \in Y /\ step[pick[S]][f[S \ {pick[S]}]] \in Y
    BY <2>1, <2>2
  <2>6. g \in [Upto(n + 1) -> Y]
    BY <2>1, <2>4, <2>5
  <2>7. \A S \in Upto(n) : g[S] = f[S]
    BY <2>3
  <2>8. \A S \in Upto(n + 1) : S # {} => g[S] = step[pick[S]][g[S \ {pick[S]}]]
    <3> SUFFICES ASSUME NEW S \in Upto(n + 1), S # {} PROVE g[S] = step[pick[S]][g[S \ {pick[S]}]]
      OBVIOUS
    <3>1. g[S \ {pick[S]}] = f[S \ {pick[S]}]
      BY <2>2, <2>7
    <3>2. CASE S \in Upto(n)
      BY <2>1, <2>7, <3>1, <3>2
    <3>3. CASE S \notin Upto(n)
      BY <3>1, <3>3
    <3> QED
      BY <3>2, <3>3
  <2>9. g[{}] = base
    BY <2>1, <2>4, <2>7
  <2> HIDE DEF g
  <2>10. Made(g, n + 1)
    BY <2>6, <2>8, <2>9
  <2> HIDE DEF Made
  <2> QED
    BY <2>10
<1>5. Cardinality(D) \in T
  <2> HIDE DEF T
  <2>1. Nat \subseteq T
    BY <1>3, <1>4, NumbersByInduction
  <2> QED
    BY <1>1, <2>1
<1>6. Upto(Cardinality(D)) = SUBSET D
  <2>1. \A S \in SUBSET D : Cardinality(S) <= Cardinality(D)
    BY FS_Subset
  <2> QED
    BY <2>1
<1>7. PICK f : Made(f, Cardinality(D))
  BY <1>5
<1> QED
  BY <1>6, <1>7 DEF Folds

-----------------------------------------------------------------------------
(* The bytes of the clips: one clip more or less, in whatever order they    *)
(* are added.                                                               *)
RowsCounted(kept) ==
    /\ IsFiniteSet(DOMAIN kept) /\ DOMAIN kept \subseteq Nat
    /\ \A i \in DOMAIN kept : kept[i].created \in Nat /\ kept[i].worth \in Nat /\ kept[i].favourite \in BOOLEAN

Weight(kept, i) == Size(kept[i].worth)
AnyOf(S) == CHOOSE x \in S : TRUE
Adding(f, kept, S) == [R \in SUBSET S |-> IF R = {} THEN 0 ELSE Weight(kept, AnyOf(R)) + f[R \ {AnyOf(R)}]]
Added(kept, S) == CHOOSE f : f = Adding(f, kept, S)

LEMMA BytesAreAdded == ASSUME NEW kept, NEW S PROVE Bytes(kept, S) = Added(kept, S)[S]
  BY DEF Bytes, MapThenSumSet, MapThenFoldSet, Added, Adding, AnyOf, Weight

LEMMA AnyIsOne == ASSUME NEW S, S # {} PROVE AnyOf(S) \in S
  BY DEF AnyOf

LEMMA WeightsAreNumbers ==
    ASSUME NEW kept, RowsCounted(kept), NEW i \in DOMAIN kept
    PROVE  Weight(kept, i) \in Nat
  BY DEF RowsCounted, Weight, Size

LEMMA FewerAreCounted ==
    ASSUME NEW D, IsFiniteSet(D), NEW S \in SUBSET D
    PROVE  /\ IsFiniteSet(S) /\ Cardinality(S) \in Nat /\ (Cardinality(S) = 0 <=> S = {})
           /\ \A x \in S : Cardinality(S \ {x}) = Cardinality(S) - 1 /\ S \ {x} \in SUBSET D
<1>1. IsFiniteSet(S) /\ Cardinality(S) \in Nat /\ (Cardinality(S) = 0 <=> S = {})
  BY FS_Subset, FS_CardinalityType, FS_EmptySet
<1>2. \A x \in S : Cardinality(S \ {x}) = Cardinality(S) - 1
  BY <1>1, FS_RemoveElement
<1> QED
  BY <1>1, <1>2

\* The sum over every set of clips, one function for all of them.
SumOf(f, kept) ==
    /\ f \in [SUBSET DOMAIN kept -> Nat] /\ f[{}] = 0
    /\ \A S \in SUBSET DOMAIN kept : S # {} => f[S] = Weight(kept, AnyOf(S)) + f[S \ {AnyOf(S)}]

LEMMA ThereIsASum ==
    ASSUME NEW kept, RowsCounted(kept), NEW D, D \in SUBSET DOMAIN kept
    PROVE  \E f \in [SUBSET D -> Nat] : f = Adding(f, kept, D)
<1> DEFINE pick == [S \in SUBSET D |-> AnyOf(S)]
           step == [i \in D |-> [y \in Nat |-> Weight(kept, i) + y]]
<1>1. IsFiniteSet(D)
  BY FS_Subset DEF RowsCounted
<1>2. \A S \in SUBSET D : S # {} => pick[S] \in S /\ pick[S] = AnyOf(S)
  BY AnyIsOne
<1>3. \A i \in D : Weight(kept, i) \in Nat
  BY WeightsAreNumbers
<1>4. step \in [D -> [Nat -> Nat]]
  BY <1>3
<1>5. \A i \in D, y \in Nat : step[i][y] = Weight(kept, i) + y
  OBVIOUS
<1> HIDE DEF pick, step
<1>6. PICK f \in [SUBSET D -> Nat] : Folds(f, D, pick, step, 0)
  BY <1>1, <1>2, <1>4, ThereIsAFold
<1>7. \A S \in SUBSET D : f[S] = IF S = {} THEN 0 ELSE Weight(kept, AnyOf(S)) + f[S \ {AnyOf(S)}]
  <2> SUFFICES ASSUME NEW S \in SUBSET D, S # {} PROVE f[S] = Weight(kept, AnyOf(S)) + f[S \ {AnyOf(S)}]
    BY <1>6 DEF Folds
  <2>1. AnyOf(S) \in D /\ S \ {AnyOf(S)} \in SUBSET D
    BY AnyIsOne
  <2>2. f[S \ {AnyOf(S)}] \in Nat
    BY <2>1
  <2> QED
    BY <1>2, <1>5, <1>6, <2>1, <2>2 DEF Folds
<1> QED
  BY <1>7 DEF Adding

LEMMA BytesAreASum ==
    ASSUME NEW kept, RowsCounted(kept)
    PROVE  \E f : SumOf(f, kept) /\ \A S \in SUBSET DOMAIN kept : Bytes(kept, S) = f[S]
<1> DEFINE D == DOMAIN kept
<1>1. PICK f \in [SUBSET D -> Nat] : f = Adding(f, kept, D)
  BY ThereIsASum
<1>2. \A S \in SUBSET D : f[S] = IF S = {} THEN 0 ELSE Weight(kept, AnyOf(S)) + f[S \ {AnyOf(S)}]
  BY <1>1 DEF Adding
<1>3. SumOf(f, kept)
  BY <1>1, <1>2 DEF SumOf
<1>4. ASSUME NEW S \in SUBSET D PROVE Bytes(kept, S) = f[S]
  <2> DEFINE g == Added(kept, S)
             T == {n \in Nat : \A R \in SUBSET S : Cardinality(R) = n => g[R] = f[R]}
  <2>1. g = Adding(g, kept, S)
    <3>1. \E h : h = Adding(h, kept, S)
      BY ThereIsASum
    <3> QED
      BY <3>1 DEF Added
  <2> HIDE DEF g
  <2>2. \A R \in SUBSET S : g[R] = IF R = {} THEN 0 ELSE Weight(kept, AnyOf(R)) + g[R \ {AnyOf(R)}]
    BY <2>1 DEF Adding
  <2>3. IsFiniteSet(S)
    BY FS_Subset DEF RowsCounted
  <2>4. 0 \in T
    BY <1>2, <2>2, <2>3, FewerAreCounted
  <2>5. ASSUME NEW n \in Nat, n \in T PROVE n + 1 \in T
    <3> SUFFICES ASSUME NEW R \in SUBSET S, Cardinality(R) = n + 1 PROVE g[R] = f[R]
      OBVIOUS
    <3>1. R # {} /\ AnyOf(R) \in R
      BY <2>3, FewerAreCounted, AnyIsOne
    <3>2. R \ {AnyOf(R)} \in SUBSET S /\ Cardinality(R \ {AnyOf(R)}) = n
      BY <2>3, <3>1, FewerAreCounted
    <3>3. g[R \ {AnyOf(R)}] = f[R \ {AnyOf(R)}]
      BY <2>5, <3>2
    <3> QED
      BY <1>2, <2>2, <3>1, <3>3
  <2>6. Cardinality(S) \in T
    <3> HIDE DEF T
    <3>1. Nat \subseteq T
      BY <2>4, <2>5, NumbersByInduction
    <3> QED
      BY <2>3, <3>1, FewerAreCounted
  <2>7. g[S] = f[S]
    BY <2>6
  <2> QED
    BY <2>7, BytesAreAdded DEF g
<1> QED
  BY <1>3, <1>4

LEMMA EitherFirst ==
    ASSUME NEW one \in Nat, NEW other \in Nat, NEW rest \in Nat,
           NEW a, NEW b, NEW c, a = one + b, b = other + rest, c = one + rest
    PROVE  a = other + c
  OBVIOUS

\* The order does not matter: any clip may be the one that is left out.
LEMMA AnyMayBeLeftOut ==
    ASSUME NEW kept, RowsCounted(kept), NEW f, SumOf(f, kept),
           NEW S \in SUBSET DOMAIN kept, NEW x \in S
    PROVE  f[S] = Weight(kept, x) + f[S \ {x}]
<1> DEFINE D == DOMAIN kept
           T == {n \in Nat : \A R \in SUBSET D : Cardinality(R) = n =>
                    \A y \in R : f[R] = Weight(kept, y) + f[R \ {y}]}
<1>1. IsFiniteSet(D) /\ \A i \in D : Weight(kept, i) \in Nat
  BY WeightsAreNumbers DEF RowsCounted
<1>2. \A R \in SUBSET D : f[R] \in Nat /\ (R # {} => f[R] = Weight(kept, AnyOf(R)) + f[R \ {AnyOf(R)}])
  BY DEF SumOf
<1>3. 0 \in T
  BY <1>1, FewerAreCounted
<1>4. ASSUME NEW n \in Nat, n \in T PROVE n + 1 \in T
  <2> SUFFICES ASSUME NEW R \in SUBSET D, Cardinality(R) = n + 1, NEW y \in R
               PROVE  f[R] = Weight(kept, y) + f[R \ {y}]
    OBVIOUS
  <2> DEFINE z == AnyOf(R)
  <2>1. z \in R /\ f[R] = Weight(kept, z) + f[R \ {z}]
    BY <1>2, AnyIsOne
  <2> HIDE DEF z
  <2>2. CASE z = y
    BY <2>1, <2>2
  <2>3. CASE z # y
    <3>1. /\ R \ {z} \in SUBSET D /\ R \ {y} \in SUBSET D
          /\ Cardinality(R \ {z}) = n /\ Cardinality(R \ {y}) = n
          /\ y \in R \ {z} /\ z \in R \ {y} /\ (R \ {z}) \ {y} = (R \ {y}) \ {z} /\ (R \ {y}) \ {z} \in SUBSET D
      BY <1>1, <2>1, <2>3, FewerAreCounted
    <3>2. f[R \ {z}] = Weight(kept, y) + f[(R \ {z}) \ {y}] /\ f[R \ {y}] = Weight(kept, z) + f[(R \ {y}) \ {z}]
      BY <1>4, <3>1
    <3>3. f[(R \ {y}) \ {z}] \in Nat /\ Weight(kept, y) \in Nat /\ Weight(kept, z) \in Nat
      BY <1>1, <1>2, <2>1, <3>1
    <3>4. f[(R \ {z}) \ {y}] = f[(R \ {y}) \ {z}]
      BY <3>1
    <3> QED
      BY <2>1, <3>2, <3>3, <3>4, EitherFirst
  <2> QED
    BY <2>2, <2>3
<1>5. Cardinality(S) \in T
  <2> HIDE DEF T
  <2>1. Nat \subseteq T
    BY <1>3, <1>4, NumbersByInduction
  <2> QED
    BY <1>1, <2>1, FewerAreCounted
<1> QED
  BY <1>5

LEMMA BytesOfSome ==
    ASSUME NEW kept, RowsCounted(kept), NEW S \in SUBSET DOMAIN kept
    PROVE  /\ Bytes(kept, S) \in Nat /\ Bytes(kept, {}) = 0
           /\ \A x \in S : Bytes(kept, S) = Weight(kept, x) + Bytes(kept, S \ {x})
<1>1. PICK f : SumOf(f, kept) /\ \A R \in SUBSET DOMAIN kept : Bytes(kept, R) = f[R]
  BY BytesAreASum
<1>2. \A x \in S : f[S] = Weight(kept, x) + f[S \ {x}] /\ S \ {x} \in SUBSET DOMAIN kept
  BY <1>1, AnyMayBeLeftOut
<1>3. f[S] \in Nat /\ f[{}] = 0
  BY <1>1 DEF SumOf
<1> QED
  BY <1>1, <1>2, <1>3

LEMMA MoreClipsMoreBytes ==
    ASSUME NEW kept, RowsCounted(kept), NEW S \in SUBSET DOMAIN kept, NEW R \in SUBSET S
    PROVE  Bytes(kept, R) <= Bytes(kept, S)
<1> DEFINE D == DOMAIN kept
           T == {n \in Nat : \A Q \in SUBSET D : Cardinality(Q) = n /\ R \subseteq Q => Bytes(kept, R) <= Bytes(kept, Q)}
<1>1. IsFiniteSet(D) /\ \A i \in D : Weight(kept, i) \in Nat
  BY WeightsAreNumbers DEF RowsCounted
<1>2. \A Q \in SUBSET D : Bytes(kept, Q) \in Nat
  BY BytesOfSome
<1>3. 0 \in T
  <2> SUFFICES ASSUME NEW Q \in SUBSET D, Cardinality(Q) = 0, R \subseteq Q PROVE Bytes(kept, R) <= Bytes(kept, Q)
    OBVIOUS
  <2>1. Q = {} /\ R = Q
    BY <1>1, FewerAreCounted
  <2> QED
    BY <1>2, <2>1
<1>4. ASSUME NEW n \in Nat, n \in T PROVE n + 1 \in T
  <2> SUFFICES ASSUME NEW Q \in SUBSET D, Cardinality(Q) = n + 1, R \subseteq Q PROVE Bytes(kept, R) <= Bytes(kept, Q)
    OBVIOUS
  <2>1. CASE R = Q
    BY <1>2, <2>1
  <2>2. CASE R # Q
    <3>1. PICK x \in Q : x \notin R
      BY <2>2
    <3>2. Cardinality(Q \ {x}) = n /\ R \subseteq Q \ {x} /\ Q \ {x} \in SUBSET D
      BY <1>1, <3>1, FewerAreCounted
    <3>3. Bytes(kept, R) <= Bytes(kept, Q \ {x})
      BY <1>4, <3>2
    <3>4. Bytes(kept, Q) = Weight(kept, x) + Bytes(kept, Q \ {x})
      BY <3>1, BytesOfSome
    <3>5. Weight(kept, x) \in Nat /\ Bytes(kept, R) \in Nat /\ Bytes(kept, Q \ {x}) \in Nat
      BY <1>1, <1>2, <3>1, <3>2
    <3> QED
      BY <3>3, <3>4, <3>5
  <2> QED
    BY <2>1, <2>2
<1>5. Cardinality(S) \in T
  <2> HIDE DEF T
  <2>1. Nat \subseteq T
    BY <1>3, <1>4, NumbersByInduction
  <2> QED
    BY <1>1, <2>1, FewerAreCounted
<1> QED
  BY <1>5

-----------------------------------------------------------------------------
(* Clips in the order of their age. *)
IsByAge(kept, s, S) ==
    /\ s \in [1..Cardinality(S) -> S] /\ ToSet(s) = S
    /\ \A j \in DOMAIN s : \A i \in 1..(j - 1) : Older(kept, s[i], s[j])

LEMMA AgesAreAnOrder ==
    ASSUME NEW kept, RowsCounted(kept)
    PROVE  /\ \A i, j \in DOMAIN kept : i = j \/ Older(kept, i, j) \/ Older(kept, j, i)
           /\ \A i, j \in DOMAIN kept : Older(kept, i, j) => i # j /\ ~ Older(kept, j, i)
           /\ \A i, j, k \in DOMAIN kept : Older(kept, i, j) /\ Older(kept, j, k) => Older(kept, i, k)
<1>1. \A i \in DOMAIN kept : i \in Nat /\ kept[i].created \in Nat
  BY DEF RowsCounted
<1> QED
  BY <1>1 DEF Older

LEMMA OneIsNewest ==
    ASSUME NEW kept, RowsCounted(kept), NEW S \in SUBSET DOMAIN kept, S # {}
    PROVE  \E m \in S : \A y \in S \ {m} : Older(kept, y, m)
<1> DEFINE D == DOMAIN kept
           T == {n \in Nat : \A R \in SUBSET D : Cardinality(R) = n /\ R # {} =>
                    \E m \in R : \A y \in R \ {m} : Older(kept, y, m)}
<1>1. IsFiniteSet(D)
  BY DEF RowsCounted
<1>2. 0 \in T
  BY <1>1, FewerAreCounted
<1>3. ASSUME NEW n \in Nat, n \in T PROVE n + 1 \in T
  <2> SUFFICES ASSUME NEW R \in SUBSET D, Cardinality(R) = n + 1, R # {}
               PROVE  \E m \in R : \A y \in R \ {m} : Older(kept, y, m)
    OBVIOUS
  <2>1. PICK x : x \in R
    OBVIOUS
  <2>2. Cardinality(R \ {x}) = n /\ R \ {x} \in SUBSET D
    BY <1>1, <2>1, FewerAreCounted
  <2>3. CASE R = {x}
    BY <2>3
  <2>4. CASE R # {x}
    <3>1. R \ {x} # {}
      BY <2>1, <2>4
    <3>2. PICK m \in R \ {x} : \A y \in (R \ {x}) \ {m} : Older(kept, y, m)
      BY <1>3, <2>2, <3>1
    <3>3. m \in D /\ x \in D /\ x # m
      BY <2>1, <3>2
    <3>4. CASE Older(kept, x, m)
      BY <3>2, <3>4
    <3>5. CASE Older(kept, m, x)
      <4>1. \A y \in R \ {x} : Older(kept, y, x)
        BY <3>2, <3>3, <3>5, AgesAreAnOrder
      <4> QED
        BY <2>1, <4>1
    <3> QED
      BY <3>3, <3>4, <3>5, AgesAreAnOrder
  <2> QED
    BY <2>3, <2>4
<1>4. Cardinality(S) \in T
  <2> HIDE DEF T
  <2>1. Nat \subseteq T
    BY <1>2, <1>3, NumbersByInduction
  <2> QED
    BY <1>1, <2>1, FewerAreCounted
<1> QED
  BY <1>4

LEMMA TheyCanBeOrdered ==
    ASSUME NEW kept, RowsCounted(kept), NEW S \in SUBSET DOMAIN kept
    PROVE  \E s : IsByAge(kept, s, S)
<1> DEFINE D == DOMAIN kept
           T == {n \in Nat : \A R \in SUBSET D : Cardinality(R) = n => \E s : IsByAge(kept, s, R)}
<1>1. IsFiniteSet(D)
  BY DEF RowsCounted
<1>2. 0 \in T
  <2> SUFFICES ASSUME NEW R \in SUBSET D, Cardinality(R) = 0 PROVE \E s : IsByAge(kept, s, R)
    OBVIOUS
  <2>1. R = {} /\ Cardinality({}) = 0 /\ 1..0 = {}
    BY <1>1, FewerAreCounted
  <2> DEFINE s == [i \in 1..0 |-> i]
  <2>2. s \in [1..0 -> {}] /\ DOMAIN s = {}
    OBVIOUS
  <2> HIDE DEF s
  <2>3. ToSet(s) = {}
    BY <2>2 DEF ToSet
  <2> QED
    BY <2>1, <2>2, <2>3 DEF IsByAge
<1>3. ASSUME NEW n \in Nat, n \in T PROVE n + 1 \in T
  <2> SUFFICES ASSUME NEW R \in SUBSET D, Cardinality(R) = n + 1 PROVE \E s : IsByAge(kept, s, R)
    OBVIOUS
  <2>1. R # {}
    BY <1>1, FewerAreCounted
  <2>2. PICK m \in R : \A y \in R \ {m} : Older(kept, y, m)
    BY <2>1, OneIsNewest
  <2>3. Cardinality(R \ {m}) = n /\ R \ {m} \in SUBSET D
    BY <1>1, <2>2, FewerAreCounted
  <2>4. PICK s : IsByAge(kept, s, R \ {m})
    BY <1>3, <2>3
  <2>5. /\ s \in [1..n -> R \ {m}] /\ DOMAIN s = 1..n
        /\ {s[i] : i \in 1..n} = R \ {m}
        /\ \A j \in 1..n : \A i \in 1..(j - 1) : Older(kept, s[i], s[j])
    BY <2>3, <2>4 DEF IsByAge, ToSet
  <2> DEFINE t == [i \in 1..(n + 1) |-> IF i = n + 1 THEN m ELSE s[i]]
  <2>6. /\ DOMAIN t = 1..(n + 1) /\ t[n + 1] = m
        /\ \A i \in 1..n : t[i] = s[i] /\ t[i] \in R \ {m}
    BY <2>5
  <2>7. t \in [1..(n + 1) -> R]
    BY <2>2, <2>5
  <2> HIDE DEF t
  <2>8. ToSet(t) = R
    <3>1. \A x \in R : \E i \in 1..(n + 1) : t[i] = x
      <4> SUFFICES ASSUME NEW x \in R PROVE \E i \in 1..(n + 1) : t[i] = x
        OBVIOUS
      <4>1. CASE x = m
        BY <2>6, <4>1
      <4>2. CASE x # m
        <5>1. PICK i \in 1..n : s[i] = x
          BY <2>5, <4>2
        <5> QED
          BY <2>6, <5>1
      <4> QED
        BY <4>1, <4>2
    <3> QED
      BY <2>6, <2>7, <3>1 DEF ToSet
  <2>9. ASSUME NEW j \in 1..(n + 1), NEW i \in 1..(j - 1) PROVE Older(kept, t[i], t[j])
    <3>1. i \in 1..n
      BY <2>9
    <3>2. CASE j = n + 1
      BY <2>2, <2>6, <3>1, <3>2
    <3>3. CASE j # n + 1
      <4>1. j \in 1..n
        BY <3>3
      <4> QED
        BY <2>5, <2>6, <3>1, <4>1
    <3> QED
      BY <3>2, <3>3
  <2>10. IsByAge(kept, t, R)
    BY <2>6, <2>7, <2>8, <2>9 DEF IsByAge
  <2> QED
    BY <2>10
<1>4. Cardinality(S) \in T
  <2> HIDE DEF T
  <2>1. Nat \subseteq T
    BY <1>2, <1>3, NumbersByInduction
  <2> QED
    BY <1>1, <2>1, FewerAreCounted
<1> QED
  BY <1>4

LEMMA ByAgeIsOrdered ==
    ASSUME NEW kept, RowsCounted(kept), NEW S \in SUBSET DOMAIN kept
    PROVE  IsByAge(kept, ByAge(kept, S), S)
<1>1. \E s \in [1..Cardinality(S) -> S] :
          ToSet(s) = S /\ \A j \in DOMAIN s : \A i \in 1..(j - 1) : Older(kept, s[i], s[j])
  BY TheyCanBeOrdered DEF IsByAge
<1> QED
  BY <1>1 DEF ByAge, IsByAge

-----------------------------------------------------------------------------
(* The walk of the size rule. *)
LEMMA TheLargestIsAmongThem ==
    ASSUME NEW n \in Nat, NEW S \in SUBSET (1..n), S # {}
    PROVE  Max(S) \in S
<1> DEFINE T == {k \in Nat : \A R \in SUBSET (1..k) : R # {} => \E x \in R : \A y \in R : x >= y}
<1>1. 0 \in T
  <2>1. 1..0 = {}
    OBVIOUS
  <2> QED
    BY <2>1
<1>2. ASSUME NEW k \in Nat, k \in T PROVE k + 1 \in T
  <2> SUFFICES ASSUME NEW R \in SUBSET (1..(k + 1)), R # {} PROVE \E x \in R : \A y \in R : x >= y
    OBVIOUS
  <2>1. CASE k + 1 \in R
    BY <2>1
  <2>2. CASE k + 1 \notin R
    <3>1. R \in SUBSET (1..k)
      BY <2>2
    <3> QED
      BY <1>2, <3>1
  <2> QED
    BY <2>1, <2>2
<1>3. n \in T
  <2> HIDE DEF T
  <2>1. Nat \subseteq T
    BY <1>1, <1>2, NumbersByInduction
  <2> QED
    BY <2>1
<1>4. \E x \in S : \A y \in S : x >= y
  BY <1>3
<1> QED
  BY <1>4 DEF Max

Sized(kept, start, s) == FoldLeft(LAMBDA acc, i : SizeRule(kept, acc, i), start, s)
Sizing(f, kept, start, s) ==
    [S \in SUBSET DOMAIN s |-> IF S = {} THEN start ELSE SizeRule(kept, f[S \ {Max(S)}], s[Max(S)])]
Sizes(kept, start, s) == CHOOSE f : f = Sizing(f, kept, start, s)

LEMMA SizedIsAWalk == ASSUME NEW kept, NEW start, NEW s PROVE Sized(kept, start, s) = Sizes(kept, start, s)[DOMAIN s]
  BY DEF Sized, FoldLeft, MapThenFoldSet, Sizes, Sizing

Marks(kept) == [marked : SUBSET DOMAIN kept, left : Int]

LEMMA ASizeStays ==
    ASSUME NEW kept, RowsCounted(kept), NEW acc \in Marks(kept), NEW i \in DOMAIN kept
    PROVE  SizeRule(kept, acc, i) \in Marks(kept)
<1>1. Size(kept[i].worth) \in Nat
  BY WeightsAreNumbers DEF Weight
<1> QED
  BY <1>1 DEF Marks, SizeRule

LEMMA TheWalkIsThere ==
    ASSUME NEW kept, RowsCounted(kept), NEW n \in Nat, NEW s \in [1..n -> DOMAIN kept],
           NEW start \in Marks(kept)
    PROVE  Sizes(kept, start, s) = Sizing(Sizes(kept, start, s), kept, start, s)
<1> DEFINE pick == [S \in SUBSET (1..n) |-> Max(S)]
           step == [i \in 1..n |-> [y \in Marks(kept) |-> SizeRule(kept, y, s[i])]]
<1>1. IsFiniteSet(1..n)
  BY FS_Interval
<1>2. \A S \in SUBSET (1..n) : S # {} => pick[S] \in S /\ pick[S] = Max(S)
  BY TheLargestIsAmongThem
<1>3. step \in [1..n -> [Marks(kept) -> Marks(kept)]]
  BY ASizeStays
<1>4. \A i \in 1..n, y \in Marks(kept) : step[i][y] = SizeRule(kept, y, s[i])
  OBVIOUS
<1> HIDE DEF pick, step
<1>5. PICK f \in [SUBSET (1..n) -> Marks(kept)] : Folds(f, 1..n, pick, step, start)
  BY <1>1, <1>2, <1>3, ThereIsAFold
<1>6. \A S \in SUBSET (1..n) : f[S] = IF S = {} THEN start ELSE SizeRule(kept, f[S \ {Max(S)}], s[Max(S)])
  <2> SUFFICES ASSUME NEW S \in SUBSET (1..n), S # {} PROVE f[S] = SizeRule(kept, f[S \ {Max(S)}], s[Max(S)])
    BY <1>5 DEF Folds
  <2>1. Max(S) \in 1..n /\ S \ {Max(S)} \in SUBSET (1..n)
    BY TheLargestIsAmongThem
  <2>2. f[S \ {Max(S)}] \in Marks(kept)
    BY <1>5, <2>1
  <2> QED
    BY <1>2, <1>4, <1>5, <2>1, <2>2 DEF Folds
<1>7. f = Sizing(f, kept, start, s)
  BY <1>5, <1>6 DEF Sizing
<1> QED
  BY <1>7 DEF Sizes

\* What is so after the first k clips of the walk: only others than favourites
\* are gone; each gone for the cap had to be, and so had those before it.
TakenFor(acc, old) == acc.marked \ old
SoFar(kept, acc, k, s, old) ==
    /\ acc \in Marks(kept) /\ old \subseteq acc.marked
    /\ acc.marked \cap Favourites(kept) = {}
    /\ TakenFor(acc, old) \subseteq {s[p] : p \in 1..k}
    /\ acc.left = Bytes(kept, DOMAIN kept \ acc.marked)
    /\ acc.left > Cap => \A p \in 1..k : s[p] \in Favourites(kept) \cup acc.marked
    /\ \A p \in 1..k : s[p] \in TakenFor(acc, old) =>
          \A q \in 1..(p - 1) : s[q] \in Favourites(kept) \cup acc.marked
    /\ \A p \in 1..k : s[p] \in TakenFor(acc, old) =>
          \/ acc.left + Weight(kept, s[p]) > Cap
          \/ \E r \in (p + 1)..k : s[r] \in TakenFor(acc, old)

LEMMA OneMoreClip ==
    ASSUME NEW kept, RowsCounted(kept), NEW n \in Nat, NEW s \in [1..n -> DOMAIN kept],
           \A j \in 1..n : \A i \in 1..(j - 1) : s[i] # s[j],
           NEW old, NEW k \in Nat, k + 1 <= n, NEW acc, SoFar(kept, acc, k, s, old)
    PROVE  SoFar(kept, SizeRule(kept, acc, s[k + 1]), k + 1, s, old)
<1> DEFINE D == DOMAIN kept
           i == s[k + 1]
           made == SizeRule(kept, acc, i)
<1>1. /\ i \in D /\ acc \in Marks(kept) /\ acc.marked \in SUBSET D /\ acc.left \in Int
      /\ \A p \in 1..k : p \in 1..n /\ s[p] \in D /\ s[p] # i
      /\ 1..(k + 1) = 1..k \cup {k + 1} /\ Cap \in Int
  BY LibraryAssumption DEF SoFar, Marks
<1>2. \A p \in 1..(k + 1) : p \in 1..k \/ p = k + 1
  OBVIOUS
<1> HIDE DEF i
<1>3. i \in Favourites(kept) <=> kept[i].favourite
  BY <1>1 DEF Favourites
<1>4. CASE acc.left <= Cap \/ kept[i].favourite \/ i \in acc.marked
  <2>1. made = acc
    BY <1>4 DEF SizeRule
  <2>2. i \notin TakenFor(acc, old)
    <3>1. SUFFICES ASSUME i \in TakenFor(acc, old) PROVE FALSE
      OBVIOUS
    <3>2. PICK p \in 1..k : s[p] = i
      BY <3>1 DEF SoFar
    <3> QED
      BY <1>1, <3>2
  <2>3. acc.left > Cap => i \in Favourites(kept) \cup acc.marked
    BY <1>1, <1>3, <1>4
  <2>4. acc.left > Cap => \A p \in 1..(k + 1) : s[p] \in Favourites(kept) \cup acc.marked
    BY <1>2, <2>3 DEF SoFar, i
  <2>5. ASSUME NEW p \in 1..(k + 1), s[p] \in TakenFor(acc, old)
        PROVE  /\ \A q \in 1..(p - 1) : s[q] \in Favourites(kept) \cup acc.marked
               /\ \/ acc.left + Weight(kept, s[p]) > Cap
                  \/ \E r \in (p + 1)..(k + 1) : s[r] \in TakenFor(acc, old)
    <3>1. p \in 1..k
      BY <1>2, <2>2, <2>5 DEF i
    <3>2. \A r \in (p + 1)..k : r \in (p + 1)..(k + 1)
      BY <3>1
    <3> QED
      BY <2>5, <3>1, <3>2 DEF SoFar
  <2>6. TakenFor(acc, old) \subseteq {s[p] : p \in 1..(k + 1)}
    BY <1>1 DEF SoFar
  <2> QED
    BY <2>1, <2>4, <2>5, <2>6 DEF SoFar, i
<1>5. CASE ~ (acc.left <= Cap \/ kept[i].favourite \/ i \in acc.marked)
  <2>1. /\ made = [marked |-> acc.marked \cup {i}, left |-> acc.left - Size(kept[i].worth)]
        /\ acc.left > Cap /\ i \notin Favourites(kept) /\ i \notin acc.marked
    BY <1>1, <1>3, <1>5 DEF SizeRule
  <2>2. made.marked = acc.marked \cup {i} /\ made.left = acc.left - Weight(kept, i)
    BY <2>1 DEF Weight
  <2>3. made \in Marks(kept)
    BY <1>1, ASizeStays
  <2> HIDE DEF made
  <2>4. TakenFor(made, old) = TakenFor(acc, old) \cup {i}
    BY <2>1, <2>2 DEF TakenFor, SoFar
  <2>5. made.left = Bytes(kept, D \ made.marked)
    <3>1. (D \ acc.marked) \ {i} = D \ made.marked /\ i \in D \ acc.marked /\ D \ acc.marked \in SUBSET D
      BY <1>1, <2>1, <2>2
    <3>2. Bytes(kept, D \ acc.marked) = Weight(kept, i) + Bytes(kept, D \ made.marked)
      BY <3>1, BytesOfSome
    <3>3. Bytes(kept, D \ made.marked) \in Nat /\ Weight(kept, i) \in Nat
      BY <1>1, BytesOfSome, WeightsAreNumbers
    <3> QED
      BY <2>2, <3>2, <3>3 DEF SoFar
  <2>6. \A p \in 1..(k + 1) : s[p] \in Favourites(kept) \cup made.marked
    BY <1>2, <2>1, <2>2 DEF SoFar, i
  <2>7. TakenFor(made, old) \subseteq {s[p] : p \in 1..(k + 1)}
    <3>1. i \in {s[p] : p \in 1..(k + 1)}
      BY <1>1 DEF i
    <3> QED
      BY <1>1, <2>4, <3>1 DEF SoFar
  <2>8. \A p \in 1..(k + 1) : \A q \in 1..(p - 1) : q \in 1..(k + 1)
    OBVIOUS
  <2>9. \A p \in 1..(k + 1) : \/ made.left + Weight(kept, s[p]) > Cap
                             \/ \E r \in (p + 1)..(k + 1) : s[r] \in TakenFor(made, old)
    <3> SUFFICES ASSUME NEW p \in 1..(k + 1)
                 PROVE  \/ made.left + Weight(kept, s[p]) > Cap
                        \/ \E r \in (p + 1)..(k + 1) : s[r] \in TakenFor(made, old)
      OBVIOUS
    <3>1. CASE p = k + 1
      <4>1. Weight(kept, i) \in Nat /\ s[p] = i
        BY <1>1, <3>1, WeightsAreNumbers DEF i
      <4> QED
        BY <1>1, <2>1, <2>2, <4>1
    <3>2. CASE p # k + 1
      <4>1. k + 1 \in (p + 1)..(k + 1)
        BY <1>2, <3>2
      <4> QED
        BY <2>4, <4>1 DEF i
    <3> QED
      BY <3>1, <3>2
  <2>10. old \subseteq made.marked /\ made.marked \cap Favourites(kept) = {}
    BY <2>1, <2>2 DEF SoFar
  <2> QED
    BY <2>3, <2>5, <2>6, <2>7, <2>8, <2>9, <2>10 DEF SoFar, made, i
<1> QED
  BY <1>4, <1>5

LEMMA TheWalkIsSoFar ==
    ASSUME NEW kept, RowsCounted(kept), NEW n \in Nat, NEW s \in [1..n -> DOMAIN kept],
           \A j \in 1..n : \A i \in 1..(j - 1) : s[i] # s[j],
           NEW old, NEW start, SoFar(kept, start, 0, s, old)
    PROVE  SoFar(kept, Sized(kept, start, s), n, s, old)
<1> DEFINE f == Sizes(kept, start, s)
           T == {k \in Nat : k <= n => SoFar(kept, f[1..k], k, s, old)}
<1>1. start \in Marks(kept) /\ DOMAIN s = 1..n
  BY DEF SoFar
<1>2. f = Sizing(f, kept, start, s)
  BY <1>1, TheWalkIsThere
<1> HIDE DEF f
<1>3. \A S \in SUBSET (1..n) : f[S] = IF S = {} THEN start ELSE SizeRule(kept, f[S \ {Max(S)}], s[Max(S)])
  BY <1>1, <1>2 DEF Sizing
<1>4. 0 \in T
  <2>1. 1..0 = {} /\ {} \in SUBSET (1..n)
    OBVIOUS
  <2>2. f[1..0] = start
    BY <1>3, <2>1
  <2> QED
    BY <2>2
<1>5. ASSUME NEW k \in Nat, k \in T PROVE k + 1 \in T
  <2> SUFFICES ASSUME k + 1 <= n PROVE SoFar(kept, f[1..(k + 1)], k + 1, s, old)
    OBVIOUS
  <2>1. k + 1 \in 1..(k + 1) /\ (1..(k + 1)) \ {k + 1} = 1..k /\ 1..(k + 1) \in SUBSET (1..n) /\ k <= n
    OBVIOUS
  <2>2. Max(1..(k + 1)) = k + 1
    BY <2>1, TheLastIsLargest
  <2>3. f[1..(k + 1)] = SizeRule(kept, f[1..k], s[k + 1])
    BY <1>3, <2>1, <2>2
  <2>4. SoFar(kept, f[1..k], k, s, old)
    BY <1>5, <2>1
  <2> QED
    BY <2>3, <2>4, OneMoreClip
<1>6. n \in T
  <2> HIDE DEF T
  <2>1. Nat \subseteq T
    BY <1>4, <1>5, NumbersByInduction
  <2> QED
    BY <2>1
<1>7. SoFar(kept, f[1..n], n, s, old)
  BY <1>6
<1> QED
  BY <1>1, <1>7, SizedIsAWalk DEF f

\* What the plan of a pass promises, of any rows.
PlanHolds(kept, at) ==
    LET p == Plan(kept, at)
        gone == ToSet(p.deletions)
        forCap == gone \ TooOld(kept, at)
        others == DOMAIN kept \ (TooOld(kept, at) \cup Favourites(kept))
    IN /\ TooOld(kept, at) \subseteq gone /\ gone \cap Favourites(kept) = {}
       /\ p.bytes_after = Bytes(kept, DOMAIN kept \ gone) /\ (p.cap_met <=> p.bytes_after <= Cap)
       /\ \A i \in forCap : \A j \in others \ gone : Older(kept, i, j)
       /\ \A i \in forCap : (\A j \in forCap : j = i \/ Older(kept, j, i)) => p.bytes_after + Size(kept[i].worth) > Cap

LEMMA ThePlanHolds ==
    ASSUME NEW kept, RowsCounted(kept), NEW at
    PROVE  PlanHolds(kept, at)
<1> DEFINE D == DOMAIN kept
           old == TooOld(kept, at)
           fav == Favourites(kept)
           s == Oldest(kept)
           n == Cardinality(D)
           aged == [marked |-> old, left |-> Bytes(kept, D \ old)]
           bySize == IF OverCap(kept) > 0 THEN aged ELSE Sized(kept, aged, s)
           p == Plan(kept, at)
           gone == ToSet(p.deletions)
<1>1. p = [deletions |-> ByAge(kept, bySize.marked), bytes_after |-> bySize.left, cap_met |-> OverCap(kept) = 0]
  BY DEF Plan, Sized
<1>2. old \in SUBSET D /\ fav \in SUBSET D /\ old \cap fav = {} /\ Cap \in Nat
  BY LibraryAssumption DEF TooOld, Favourites
<1>3. IsFiniteSet(D) /\ n \in Nat
  BY FS_CardinalityType DEF RowsCounted
<1>4. IsByAge(kept, s, D)
  BY ByAgeIsOrdered DEF Oldest
<1> HIDE DEF p, old, fav, s, n
<1>5. /\ s \in [1..n -> D] /\ DOMAIN s = 1..n
      /\ \A x \in D : \E q \in 1..n : s[q] = x
      /\ \A j \in 1..n : \A i \in 1..(j - 1) : Older(kept, s[i], s[j])
  BY <1>4 DEF IsByAge, ToSet, n
<1>6. \A j \in 1..n : \A i \in 1..(j - 1) : s[i] # s[j]
  <2> SUFFICES ASSUME NEW j \in 1..n, NEW i \in 1..(j - 1) PROVE s[i] # s[j]
    OBVIOUS
  <2>1. i \in 1..n
    BY <1>3
  <2>2. Older(kept, s[i], s[j]) /\ s[i] \in D /\ s[j] \in D
    BY <1>5, <2>1
  <2> QED
    BY <2>2, AgesAreAnOrder
<1>7. Bytes(kept, D \ old) \in Nat /\ Bytes(kept, fav) \in Nat
  <2>1. D \ old \in SUBSET D
    OBVIOUS
  <2> QED
    BY <1>2, <2>1, BytesOfSome
<1>8. SoFar(kept, aged, 0, s, old)
  <2>1. aged \in Marks(kept) /\ aged.marked = old /\ aged.left = Bytes(kept, D \ old)
    BY <1>2, <1>7 DEF Marks
  <2>2. TakenFor(aged, old) = {} /\ 1..0 = {}
    BY <2>1 DEF TakenFor
  <2> HIDE DEF aged
  <2> QED
    BY <1>2, <2>1, <2>2 DEF SoFar, fav
<1>9. OverCap(kept) \in Nat /\ (OverCap(kept) = 0 <=> Bytes(kept, fav) <= Cap) /\ (OverCap(kept) > 0 <=> Bytes(kept, fav) > Cap)
  BY <1>2, <1>7 DEF OverCap, fav
<1>10. SoFar(kept, Sized(kept, aged, s), n, s, old)
  <2> HIDE DEF aged
  <2> QED
    BY <1>3, <1>5, <1>6, <1>8, TheWalkIsSoFar
<1>11. SoFar(kept, bySize, n, s, old) \/ (OverCap(kept) > 0 /\ bySize = aged)
  BY <1>9, <1>10
<1>12. /\ bySize.marked \in SUBSET D /\ old \subseteq bySize.marked /\ bySize.marked \cap fav = {}
       /\ bySize.left = Bytes(kept, D \ bySize.marked)
  <2>1. CASE SoFar(kept, bySize, n, s, old)
    BY <2>1 DEF SoFar, Marks, fav
  <2>2. CASE bySize = aged
    BY <1>2, <2>2
  <2> QED
    BY <1>11, <2>1, <2>2
<1>13. gone = bySize.marked /\ p.bytes_after = bySize.left /\ (p.cap_met <=> OverCap(kept) = 0)
  <2> HIDE DEF bySize
  <2>1. IsByAge(kept, ByAge(kept, bySize.marked), bySize.marked)
    BY <1>12, ByAgeIsOrdered
  <2>2. p.deletions = ByAge(kept, bySize.marked)
    BY <1>1
  <2> QED
    BY <1>1, <2>1, <2>2 DEF IsByAge
<1> HIDE DEF gone
<1>14. p.cap_met <=> p.bytes_after <= Cap
  <2>1. fav \in SUBSET (D \ bySize.marked) /\ D \ bySize.marked \in SUBSET D
    BY <1>2, <1>12
  <2>2. Bytes(kept, fav) <= bySize.left /\ bySize.left \in Nat
    <3> HIDE DEF bySize
    <3> QED
      BY <1>12, <2>1, MoreClipsMoreBytes, BytesOfSome
  <2>3. CASE OverCap(kept) > 0
    BY <1>2, <1>7, <1>9, <1>13, <2>2, <2>3
  <2>4. CASE OverCap(kept) = 0
    <3>1. SoFar(kept, bySize, n, s, old)
      BY <1>9, <1>10, <2>4
    <3>2. SUFFICES ASSUME bySize.left > Cap PROVE FALSE
      BY <1>2, <1>13, <2>2, <2>4
    <3> HIDE DEF bySize
    <3>3. \A q \in 1..n : s[q] \in fav \cup bySize.marked
      BY <3>1, <3>2 DEF SoFar, fav
    <3>4. D \ bySize.marked \subseteq fav
      BY <1>5, <3>3
    <3>5. D \ bySize.marked = fav
      BY <2>1, <3>4
    <3> QED
      BY <1>2, <1>7, <1>9, <1>12, <2>4, <3>2, <3>5
  <2> QED
    BY <1>9, <2>3, <2>4
<1>15. \A i \in gone \ old : /\ SoFar(kept, bySize, n, s, old)
                             /\ \E q \in 1..n : s[q] = i /\ s[q] \in TakenFor(bySize, old)
  <2> SUFFICES ASSUME NEW i \in gone \ old
               PROVE  /\ SoFar(kept, bySize, n, s, old)
                      /\ \E q \in 1..n : s[q] = i /\ s[q] \in TakenFor(bySize, old)
    OBVIOUS
  <2>1. SoFar(kept, bySize, n, s, old)
    BY <1>11, <1>13
  <2> HIDE DEF bySize
  <2>2. i \in TakenFor(bySize, old) /\ i \in D
    BY <1>12, <1>13 DEF TakenFor
  <2> QED
    BY <1>5, <2>1, <2>2
<1> HIDE DEF bySize, aged
<1>16. ASSUME NEW i \in gone \ old, NEW j \in (D \ (old \cup fav)) \ gone PROVE Older(kept, i, j)
  <2>1. PICK q \in 1..n : s[q] = i /\ s[q] \in TakenFor(bySize, old)
    BY <1>15
  <2>2. PICK r \in 1..n : s[r] = j
    BY <1>5
  <2>3. q # r
    BY <2>1, <2>2
  <2>4. ~ (r \in 1..(q - 1))
    <3>1. SUFFICES ASSUME r \in 1..(q - 1) PROVE FALSE
      OBVIOUS
    <3>2. s[r] \in fav \cup bySize.marked
      BY <1>15, <2>1, <3>1 DEF SoFar, fav
    <3> QED
      BY <1>13, <2>2, <3>2
  <2>5. q \in 1..(r - 1)
    BY <1>3, <2>3, <2>4
  <2> QED
    BY <1>5, <2>1, <2>2, <2>5
<1>17. ASSUME NEW i \in gone \ old, \A j \in gone \ old : j = i \/ Older(kept, j, i)
       PROVE  p.bytes_after + Size(kept[i].worth) > Cap
  <2>1. PICK q \in 1..n : s[q] = i /\ s[q] \in TakenFor(bySize, old)
    BY <1>15
  <2>2. ~ \E r \in (q + 1)..n : s[r] \in TakenFor(bySize, old)
    <3>1. SUFFICES ASSUME NEW r \in (q + 1)..n, s[r] \in TakenFor(bySize, old) PROVE FALSE
      OBVIOUS
    <3>2. r \in 1..n /\ q \in 1..(r - 1)
      BY <1>3
    <3>3. Older(kept, i, s[r]) /\ s[r] \in D /\ i \in D
      BY <1>5, <2>1, <3>2
    <3>4. s[r] \in gone \ old
      BY <1>13, <3>1 DEF TakenFor
    <3>5. s[r] = i \/ Older(kept, s[r], i)
      BY <1>17, <3>4
    <3> QED
      BY <3>3, <3>5, AgesAreAnOrder
  <2>3. bySize.left + Weight(kept, s[q]) > Cap
    BY <1>15, <2>1, <2>2 DEF SoFar
  <2> QED
    BY <1>13, <2>1, <2>3 DEF Weight
<1> QED
  BY <1>12, <1>13, <1>14, <1>16, <1>17 DEF PlanHolds, p, gone, old, fav

-----------------------------------------------------------------------------
(* The rows of the library can be counted: ids and what they hold are       *)
(* numbers, and so are the files they will be made from.                    *)
CountInv ==
    /\ RowsCounted(clips)
    /\ \A n \in DOMAIN disk : disk[n] \in Nat
    /\ now \in Nat /\ writes \in Nat

LEMMA TheNextIdIsANumber ==
    ASSUME RowsCounted(clips)
    PROVE  NextId \in Nat
<1> DEFINE S == {0} \cup DOMAIN clips
           T == {n \in Nat : \A R \in SUBSET S : Cardinality(R) = n /\ R # {} => \E m \in R : \A y \in R : m >= y}
<1>1. IsFiniteSet(S) /\ S \in SUBSET Nat
  <2>1. S = DOMAIN clips \cup {0}
    OBVIOUS
  <2> QED
    BY <2>1, FS_AddElement DEF RowsCounted
<1> HIDE DEF S
<1>2. 0 \in T
  BY <1>1, FewerAreCounted
<1>3. ASSUME NEW n \in Nat, n \in T PROVE n + 1 \in T
  <2> SUFFICES ASSUME NEW R \in SUBSET S, Cardinality(R) = n + 1, R # {} PROVE \E m \in R : \A y \in R : m >= y
    OBVIOUS
  <2>1. PICK x : x \in R
    OBVIOUS
  <2>2. Cardinality(R \ {x}) = n /\ R \ {x} \in SUBSET S
    <3>1. \A y \in R : Cardinality(R \ {y}) = Cardinality(R) - 1 /\ R \ {y} \in SUBSET S
      <4> HIDE DEF T
      <4> QED
        BY <1>1, FewerAreCounted
    <3>2. Cardinality(R \ {x}) = Cardinality(R) - 1 /\ R \ {x} \in SUBSET S
      BY <2>1, <3>1
    <3> QED
      BY <3>2, SMT
  <2>3. CASE R \ {x} = {}
    <3>1. \A y \in R : x >= y
      BY <1>1, <2>1, <2>3
    <3> QED
      BY <2>1, <3>1
  <2>4. CASE R \ {x} # {}
    <3>1. PICK m \in R \ {x} : \A y \in R \ {x} : m >= y
      BY <1>3, <2>2, <2>4
    <3>2. \A y \in R : y \in Nat
      BY <1>1
    <3>3. CASE m >= x
      BY <3>1, <3>3
    <3>4. CASE ~ (m >= x)
      <4>1. \A y \in R : x >= y
        BY <2>1, <3>1, <3>2, <3>4
      <4> QED
        BY <2>1, <4>1
    <3> QED
      BY <3>3, <3>4
  <2> QED
    BY <2>3, <2>4
<1>4. Cardinality(S) \in T
  <2> HIDE DEF T
  <2>1. Nat \subseteq T
    BY <1>2, <1>3, NumbersByInduction
  <2> QED
    BY <1>1, <2>1, FewerAreCounted
<1>5. \E m \in S : \A y \in S : m >= y
  <2>1. S # {}
    BY DEF S
  <2> QED
    BY <1>4, <2>1
<1>6. Max(S) \in Nat
  BY <1>1, <1>5 DEF Max
<1> QED
  BY <1>6 DEF NextId, S

LEMMA ARowIsCounted ==
    ASSUME CountInv, NEW name \in DOMAIN disk, InsertClip(name)
    PROVE  RowsCounted(clips')
<1> DEFINE k == NextId
           r == [name |-> name, worth |-> disk[name], created |-> now, favourite |-> FALSE]
<1>1. clips' = [i \in DOMAIN clips \cup {k} |-> IF i = k THEN r ELSE clips[i]]
  BY DEF InsertClip
<1>2. k \in Nat
  BY TheNextIdIsANumber DEF CountInv
<1> HIDE DEF k
<1>3. r.worth \in Nat /\ r.created \in Nat /\ r.favourite \in BOOLEAN
  BY DEF CountInv
<1> HIDE DEF r
<1>4. DOMAIN clips' = DOMAIN clips \cup {k} /\ \A i \in DOMAIN clips' : clips'[i] = IF i = k THEN r ELSE clips[i]
  BY <1>1
<1>5. IsFiniteSet(DOMAIN clips \cup {k}) /\ DOMAIN clips \cup {k} \subseteq Nat
  BY <1>2, FS_AddElement DEF CountInv, RowsCounted
<1> QED
  BY <1>3, <1>4, <1>5 DEF CountInv, RowsCounted

LEMMA FewerRowsAreCounted ==
    ASSUME NEW kept, RowsCounted(kept), NEW i
    PROVE  RowsCounted(Without(kept, {i}))
<1>1. /\ DOMAIN Without(kept, {i}) = DOMAIN kept \ {i}
      /\ \A j \in DOMAIN kept \ {i} : Without(kept, {i})[j] = kept[j]
  BY DEF Without
<1>2. IsFiniteSet(DOMAIN kept \ {i})
  BY FS_RemoveElement DEF RowsCounted
<1> QED
  BY <1>1, <1>2 DEF RowsCounted

LEMMA AFavouriteIsCounted ==
    ASSUME CountInv, LibraryInv, NEW i \in DOMAIN clips, NEW b \in BOOLEAN, StoreFavourite(i, b)
    PROVE  RowsCounted(clips')
<1>1. IsRow(clips[i])
  BY DEF LibraryInv, LibraryShape
<1>2. clips' = [clips EXCEPT ![i] = [clips[i] EXCEPT !.favourite = b]]
  BY DEF StoreFavourite
<1> DEFINE r == [clips[i] EXCEPT !.favourite = b]
<1>3. r.worth = clips[i].worth /\ r.created = clips[i].created /\ r.favourite = b
  BY <1>1 DEF IsRow
<1> HIDE DEF r
<1>4. DOMAIN clips' = DOMAIN clips /\ \A j \in DOMAIN clips : clips'[j] = IF j = i THEN r ELSE clips[j]
  BY <1>2 DEF r
<1> QED
  BY <1>3, <1>4 DEF CountInv, RowsCounted

LEMMA TheCountStarts == LibraryInit => CountInv
<1> SUFFICES ASSUME LibraryInit PROVE CountInv
  OBVIOUS
<1>1. clips = <<>> /\ disk = <<>> /\ now = 0 /\ writes = 0 /\ DOMAIN <<>> = {}
  BY DEF LibraryInit
<1>2. IsFiniteSet({})
  BY FS_EmptySet
<1> QED
  BY <1>1, <1>2 DEF CountInv, RowsCounted

\* A step inserts a row of a file that is there, takes one away, marks one, or
\* leaves the rows.
LEMMA TheRowsStayCounted ==
    ASSUME LibraryInv, CountInv, [LibraryNext]_libraryVars
    PROVE  RowsCounted(clips')
<1>1. RowsCounted(clips)
  BY DEF CountInv
<1>2. CASE IndexesClip
  <2>1. engine.name \in DOMAIN disk
    BY <1>2 DEF IndexesClip, LibraryInv, LibraryHeld, HoldsAFile, Holds
  <2> QED
    BY <1>1, <1>2, <2>1, ARowIsCounted DEF IndexesClip
<1>3. CASE IndexesTrim
  <2>1. desk.name \in DOMAIN disk
    BY <1>3 DEF IndexesTrim, LibraryInv, LibraryHeld, HoldsAFile, Holds
  <2> QED
    BY <1>1, <1>3, <2>1, ARowIsCounted DEF IndexesTrim
<1>4. CASE CleansRow
  <2>1. CASE DeleteRow(Head(engine.plan))
    BY <1>1, <2>1, FewerRowsAreCounted DEF DeleteRow
  <2>2. CASE UNCHANGED clips
    BY <1>1, <2>2
  <2> QED
    BY <1>4, <2>1, <2>2 DEF CleansRow, storeVars
<1>5. ASSUME NEW i \in DOMAIN clips, NEW b \in BOOLEAN, SetsFavourite(i, b) PROVE RowsCounted(clips')
  BY <1>5, AFavouriteIsCounted DEF SetsFavourite
<1>6. ASSUME NEW i \in DOMAIN clips, DeletesClip(i) PROVE RowsCounted(clips')
  BY <1>1, <1>6, FewerRowsAreCounted DEF DeletesClip, DeleteRow
<1>7. CASE UNCHANGED clips
  BY <1>1, <1>7
<1>8. CASE SavesClip \/ IndexesEvent \/ PlansCleanup \/ CleansFile \/ EndsCleanup \/ DeletesFrames \/ DeletesFile
           \/ InheritsTags \/ LibraryCrashes \/ LibraryAges
  BY <1>7, <1>8 DEF SavesClip, IndexesEvent, PlansCleanup, CleansFile, EndsCleanup, DeletesFrames, DeletesFile,
     InheritsTags, LibraryCrashes, LibraryAges, storeVars
<1>9. ASSUME NEW i \in DOMAIN clips, Trims(i) \/ MakesThumbnail(i) \/ \E b \in BOOLEAN : SetsTag(i, b)
      PROVE  RowsCounted(clips')
  BY <1>7, <1>9 DEF Trims, MakesThumbnail, SetsTag, storeVars
<1> QED
  BY <1>2, <1>3, <1>4, <1>5, <1>6, <1>7, <1>8, <1>9 DEF LibraryNext, libraryVars

LEMMA TheDiskStaysCounted ==
    ASSUME CountInv, [LibraryNext]_libraryVars
    PROVE  (\A n \in DOMAIN disk' : disk'[n] \in Nat) /\ now' \in Nat /\ writes' \in Nat
<1>1. (\A n \in DOMAIN disk : disk[n] \in Nat) /\ now \in Nat /\ writes \in Nat
  BY DEF CountInv
<1>2. CASE SavesClip
  BY <1>1, <1>2 DEF SavesClip
<1>3. ASSUME NEW i \in DOMAIN clips, Trims(i)
      PROVE  (\A n \in DOMAIN disk' : disk'[n] \in Nat) /\ now' \in Nat /\ writes' \in Nat
  BY <1>1, <1>3 DEF Trims
<1>4. ASSUME NEW name, Unlinked(name) PROVE \A n \in DOMAIN disk' : disk'[n] \in Nat
  BY <1>1, <1>4 DEF Unlinked, Without
<1>5. CASE CleansFile \/ DeletesFile
  BY <1>1, <1>4, <1>5 DEF CleansFile, DeletesFile
<1>6. CASE LibraryAges
  BY <1>1, <1>6 DEF LibraryAges
<1>7. CASE UNCHANGED <<disk, now, writes>>
  BY <1>1, <1>7
<1>8. CASE IndexesClip \/ IndexesEvent \/ PlansCleanup \/ CleansRow \/ EndsCleanup \/ DeletesFrames
           \/ IndexesTrim \/ InheritsTags \/ LibraryCrashes
  BY <1>7, <1>8 DEF IndexesClip, IndexesEvent, PlansCleanup, CleansRow, EndsCleanup, DeletesFrames,
     IndexesTrim, InheritsTags, LibraryCrashes, clock
<1>9. ASSUME NEW i \in DOMAIN clips,
             DeletesClip(i) \/ MakesThumbnail(i) \/ \E b \in BOOLEAN : SetsFavourite(i, b) \/ SetsTag(i, b)
      PROVE  (\A n \in DOMAIN disk' : disk'[n] \in Nat) /\ now' \in Nat /\ writes' \in Nat
  BY <1>7, <1>9 DEF DeletesClip, MakesThumbnail, SetsFavourite, SetsTag, clock
<1> QED
  BY <1>2, <1>3, <1>5, <1>6, <1>7, <1>8, <1>9 DEF LibraryNext, libraryVars

LEMMA TheCountStays == LibraryInv /\ CountInv /\ [LibraryNext]_libraryVars => CountInv'
  BY TheRowsStayCounted, TheDiskStaysCounted DEF CountInv

LEMMA ThePlanIsTheRule == CountInv => PlanIsTheRule
  BY ThePlanHolds DEF CountInv, PlanHolds, PlanIsTheRule

-----------------------------------------------------------------------------
(* --- the matches of a session ------------------------------------------- *)
NoMatch == [out |-> <<>>, open |-> NotOpen, prev |-> 0]
Folded(markers) == FoldLeft(OnMarker, NoMatch, markers)

\* What FoldLeft means: a function on the sets of positions, each set's last
\* marker taken after the others.
Walk(f, markers) ==
    [S \in SUBSET DOMAIN markers |->
        IF S = {} THEN NoMatch ELSE OnMarker(f[S \ {Max(S)}], markers[Max(S)])]
Walked(markers) == CHOOSE f : f = Walk(f, markers)

LEMMA AFoldIsAWalk == ASSUME NEW markers PROVE Folded(markers) = Walked(markers)[DOMAIN markers]
  BY DEF Folded, FoldLeft, MapThenFoldSet, Walked, Walk, NoMatch

\* There is such a function, by induction over the length.
LEMMA ThereIsAWalk ==
    ASSUME NEW markers \in Seq(Marker)
    PROVE  Walked(markers) = Walk(Walked(markers), markers)
<1> DEFINE Part(k) == SUBSET (1..k)
           Made(f, k) == f = [S \in Part(k) |-> IF S = {} THEN NoMatch
                                                ELSE OnMarker(f[S \ {Max(S)}], markers[Max(S)])]
           T == {k \in Nat : \E f : Made(f, k)}
<1>1. 0 \in T
  <2> DEFINE f == [S \in Part(0) |-> NoMatch]
  <2>1. Part(0) = {{}}
    OBVIOUS
  <2>2. Made(f, 0)
    BY <2>1
  <2> QED
    BY <2>2
<1>2. ASSUME NEW k \in Nat, k \in T PROVE k + 1 \in T
  <2>1. PICK f : Made(f, k)
    BY <1>2
  <2> DEFINE g == [S \in Part(k + 1) |-> IF k + 1 \in S THEN OnMarker(f[S \ {k + 1}], markers[k + 1]) ELSE f[S]]
  <2>2. \A S \in Part(k + 1) : S \ {k + 1} \in Part(k) /\ (k + 1 \notin S => S \in Part(k))
    OBVIOUS
  <2>3. \A S \in Part(k) : S \in Part(k + 1) /\ g[S] = f[S]
    <3>1. \A S \in Part(k) : S \in Part(k + 1) /\ k + 1 \notin S
      OBVIOUS
    <3> QED
      BY <3>1
  <2>4. \A S \in Part(k + 1) : g[S] = IF S = {} THEN NoMatch ELSE OnMarker(g[S \ {Max(S)}], markers[Max(S)])
    <3> SUFFICES ASSUME NEW S \in Part(k + 1)
                 PROVE  g[S] = IF S = {} THEN NoMatch ELSE OnMarker(g[S \ {Max(S)}], markers[Max(S)])
      OBVIOUS
    <3>1. CASE k + 1 \in S
      <4>1. Max(S) = k + 1
        BY <3>1, TheLastIsLargest
      <4>2. g[S] = OnMarker(f[S \ {k + 1}], markers[k + 1])
        BY <3>1
      <4>3. g[S \ {k + 1}] = f[S \ {k + 1}]
        BY <2>2, <2>3
      <4> QED
        BY <3>1, <4>1, <4>2, <4>3
    <3>2. CASE k + 1 \notin S
      <4>1. S \in Part(k) /\ g[S] = f[S]
        BY <2>2, <2>3, <3>2
      <4>2. f[S] = IF S = {} THEN NoMatch ELSE OnMarker(f[S \ {Max(S)}], markers[Max(S)])
        BY <2>1, <4>1
      <4>3. S \ {Max(S)} \in Part(k)
        BY <4>1
      <4>4. g[S \ {Max(S)}] = f[S \ {Max(S)}]
        BY <2>3, <4>3
      <4> QED
        BY <4>1, <4>2, <4>4
    <3> QED
      BY <3>1, <3>2
  <2>5. Made(g, k + 1)
    BY <2>4
  <2>6. \E h : Made(h, k + 1)
    <3> HIDE DEF g, Made
    <3> QED
      BY <2>5
  <2> HIDE DEF Made
  <2> QED
    BY <2>6
<1>3. Len(markers) \in T
  <2> HIDE DEF T
  <2>1. Nat \subseteq T
    BY <1>1, <1>2, NumbersByInduction
  <2> QED
    BY <2>1
<1>4. DOMAIN markers = 1..Len(markers)
  OBVIOUS
<1>5. PICK f : f = Walk(f, markers)
  BY <1>3, <1>4 DEF Walk
<1> HIDE DEF T, Made, Part
<1> QED
  BY <1>5 DEF Walked

\* A longer list is walked as far as the shorter one in the same way.
LEMMA AWalkGoesOn ==
    ASSUME NEW markers \in Seq(Marker), NEW m \in Marker
    PROVE  Walked(Append(markers, m))[DOMAIN markers] = Walked(markers)[DOMAIN markers]
<1> DEFINE more == Append(markers, m)
           n == Len(markers)
           T == {k \in Nat : k <= n => \A S \in SUBSET (1..k) : Walked(more)[S] = Walked(markers)[S]}
<1>1. /\ n \in Nat /\ DOMAIN markers = 1..n /\ DOMAIN more = 1..(n + 1)
      /\ more \in Seq(Marker) /\ \A i \in 1..n : more[i] = markers[i]
  OBVIOUS
<1> HIDE DEF more, n
<1>2. Walked(markers) = Walk(Walked(markers), markers) /\ Walked(more) = Walk(Walked(more), more)
  BY <1>1, ThereIsAWalk
<1>3. /\ \A S \in SUBSET (1..n) :
            Walked(markers)[S] = IF S = {} THEN NoMatch
                                 ELSE OnMarker(Walked(markers)[S \ {Max(S)}], markers[Max(S)])
      /\ \A S \in SUBSET (1..(n + 1)) :
            Walked(more)[S] = IF S = {} THEN NoMatch
                              ELSE OnMarker(Walked(more)[S \ {Max(S)}], more[Max(S)])
  BY <1>1, <1>2 DEF Walk
<1>4. \A k \in Nat : k <= n => 1..k \subseteq 1..n /\ 1..k \subseteq 1..(n + 1)
  BY <1>1
<1>5. 0 \in T
  <2>1. \A S \in SUBSET (1..0) : S = {}
    OBVIOUS
  <2>2. {} \in SUBSET (1..n) /\ {} \in SUBSET (1..(n + 1))
    OBVIOUS
  <2>3. Walked(more)[{}] = NoMatch /\ Walked(markers)[{}] = NoMatch
    BY <1>3, <2>2
  <2> QED
    BY <2>1, <2>3
<1>6. ASSUME NEW k \in Nat, k \in T PROVE k + 1 \in T
  <2>1. SUFFICES ASSUME k + 1 <= n, NEW S \in SUBSET (1..(k + 1))
                 PROVE  Walked(more)[S] = Walked(markers)[S]
    OBVIOUS
  <2>2. \A R \in SUBSET (1..k) : Walked(more)[R] = Walked(markers)[R]
    BY <1>1, <1>6, <2>1
  <2>3. CASE k + 1 \in S
    <3>1. Max(S) = k + 1 /\ S # {} /\ S \ {k + 1} \in SUBSET (1..k)
      BY <2>3, TheLastIsLargest
    <3>2. S \in SUBSET (1..n) /\ S \in SUBSET (1..(n + 1)) /\ k + 1 \in 1..n
      BY <1>1, <1>4, <2>1
    <3>3. Walked(more)[S] = OnMarker(Walked(more)[S \ {k + 1}], more[k + 1])
      BY <1>3, <3>1, <3>2
    <3>4. Walked(markers)[S] = OnMarker(Walked(markers)[S \ {k + 1}], markers[k + 1])
      BY <1>3, <3>1, <3>2
    <3> QED
      BY <1>1, <2>2, <3>1, <3>2, <3>3, <3>4
  <2>4. CASE k + 1 \notin S
    <3>1. S \in SUBSET (1..k)
      BY <2>4
    <3> QED
      BY <2>2, <3>1
  <2> QED
    BY <2>3, <2>4
<1>7. n \in T
  <2> HIDE DEF T
  <2>1. Nat \subseteq T
    BY <1>5, <1>6, NumbersByInduction
  <2> QED
    BY <1>1, <2>1
<1> QED
  BY <1>1, <1>7 DEF more

LEMMA FoldOfNothing == Folded(<<>>) = NoMatch
<1>1. <<>> \in Seq(Marker) /\ DOMAIN <<>> = {}
  OBVIOUS
<1>2. Walked(<<>>)[{}] = NoMatch
  BY <1>1, ThereIsAWalk DEF Walk
<1> QED
  BY <1>1, <1>2, AFoldIsAWalk

\* The next marker is taken after the others.
LEMMA FoldOfOneMore ==
    ASSUME NEW markers \in Seq(Marker), NEW m \in Marker
    PROVE  Folded(Append(markers, m)) = OnMarker(Folded(markers), m)
<1> DEFINE more == Append(markers, m)
           n == Len(markers)
<1>1. /\ n \in Nat /\ DOMAIN markers = 1..n /\ DOMAIN more = 1..(n + 1)
      /\ more \in Seq(Marker) /\ more[n + 1] = m
      /\ 1..(n + 1) # {} /\ n + 1 \in 1..(n + 1) /\ (1..(n + 1)) \ {n + 1} = 1..n
  OBVIOUS
<1> HIDE DEF more, n
<1>2. Max(1..(n + 1)) = n + 1
  BY <1>1, TheLastIsLargest
<1>3. Walked(more) = Walk(Walked(more), more)
  BY <1>1, ThereIsAWalk
<1>4. Walked(more)[1..(n + 1)] = OnMarker(Walked(more)[1..n], m)
  BY <1>1, <1>2, <1>3 DEF Walk
<1>5. Walked(more)[1..n] = Walked(markers)[1..n]
  BY <1>1, AWalkGoesOn DEF more
<1> QED
  BY <1>1, <1>4, <1>5, AFoldIsAWalk DEF more

-----------------------------------------------------------------------------
(* What is so of the matches after each marker. *)
Segments == [start : Nat, end : Nat, complete : BOOLEAN, inferred : BOOLEAN]
Opened == [start : Nat, inferred : {FALSE}]
Accs == [out : Seq(Segments), open : {NotOpen} \cup Opened, prev : Nat]
Reach(markers) == IF markers = <<>> THEN 0 ELSE Last(markers).at
Completed(matches) == {i \in DOMAIN matches : matches[i].complete}
Begun(matches) == {i \in DOMAIN matches : ~ matches[i].inferred}

\* The markers come in the order of the timeline.
InOrder(markers) == \A i, j \in DOMAIN markers : i <= j => markers[i].at <= markers[j].at

\* The matches follow each other up to prev, and each shows its end.
Tiles(matches, prev, markers) ==
    /\ \A i \in DOMAIN matches :
          /\ matches[i].start <= matches[i].end /\ matches[i].end <= prev
          /\ matches[i].inferred => matches[i].complete
          /\ matches[i].complete => \E k \in DOMAIN markers : markers[k].at = matches[i].end
    /\ \A i \in DOMAIN matches : i > 1 => matches[i - 1].end <= matches[i].start

\* The next match begins no earlier than the last ended, and every game that
\* ended or started is one of the matches, or the open one.
Accounts(acc, markers) ==
    /\ acc \in Accs
    /\ Tiles(acc.out, acc.prev, markers)
    /\ acc.prev <= Reach(markers)
    /\ acc.open # NotOpen => acc.prev <= acc.open.start /\ acc.open.start <= Reach(markers)
    /\ Cardinality(Completed(acc.out)) = Cardinality(OfKind("game_end", markers))
    /\ Cardinality(Begun(acc.out)) + (IF acc.open = NotOpen THEN 0 ELSE 1)
           = Cardinality(OfKind("game_start", markers))

MatchInv ==
    /\ timeline \in Seq(Marker) /\ length \in Nat
    /\ InOrder(timeline)
    /\ Accounts(Folded(timeline), timeline)

LEMMA OneMoreMarker ==
    ASSUME NEW markers \in Seq(Marker), NEW m \in Marker, NEW kind
    PROVE  /\ OfKind(kind, markers) \in SUBSET (1..Len(markers))
           /\ OfKind(kind, Append(markers, m))
                = OfKind(kind, markers) \cup (IF m.kind = kind THEN {Len(markers) + 1} ELSE {})
<1>1. /\ DOMAIN markers = 1..Len(markers) /\ DOMAIN Append(markers, m) = 1..(Len(markers) + 1) /\ Len(markers) \in Nat
      /\ \A i \in 1..Len(markers) : Append(markers, m)[i] = markers[i]
      /\ Append(markers, m)[Len(markers) + 1] = m
  OBVIOUS
<1> QED
  BY <1>1 DEF OfKind

LEMMA OneMoreMatch ==
    ASSUME NEW matches \in Seq(Segments), NEW r \in Segments
    PROVE  /\ Completed(matches) \in SUBSET (1..Len(matches))
           /\ Begun(matches) \in SUBSET (1..Len(matches))
           /\ Completed(Append(matches, r))
                = Completed(matches) \cup (IF r.complete THEN {Len(matches) + 1} ELSE {})
           /\ Begun(Append(matches, r))
                = Begun(matches) \cup (IF r.inferred THEN {} ELSE {Len(matches) + 1})
<1>1. /\ DOMAIN matches = 1..Len(matches) /\ DOMAIN Append(matches, r) = 1..(Len(matches) + 1) /\ Len(matches) \in Nat
      /\ \A i \in 1..Len(matches) : Append(matches, r)[i] = matches[i]
      /\ Append(matches, r)[Len(matches) + 1] = r
  OBVIOUS
<1> QED
  BY <1>1 DEF Completed, Begun

\* A number past the rest makes the count one more.
LEMMA OneMoreCounted ==
    ASSUME NEW n \in Nat, NEW S \in SUBSET (1..n), NEW D, D \in {{}, {n + 1}}
    PROVE  /\ Cardinality(S) \in Nat
           /\ Cardinality(S \cup D) = Cardinality(S) + (IF D = {} THEN 0 ELSE 1)
<1>1. IsFiniteSet(S) /\ Cardinality(S) \in Nat
  <2>1. IsFiniteSet(1..n)
    BY FS_Interval
  <2> QED
    BY <2>1, FS_Subset, FS_CardinalityType
<1>2. n + 1 \notin S
  OBVIOUS
<1>3. CASE D = {}
  BY <1>1, <1>3
<1>4. CASE D = {n + 1}
  <2>1. Cardinality(S \cup {n + 1}) = Cardinality(S) + 1
    BY <1>1, <1>2, FS_AddElement
  <2> QED
    BY <1>1, <1>4, <2>1
<1> QED
  BY <1>3, <1>4

\* What closing a match does to the rest.
IsClosed(made, acc, begin, guessed, end, complete, markers) ==
    /\ made \in Accs /\ made.open = NotOpen /\ made.prev = Later(end, begin)
    /\ Tiles(made.out, made.prev, markers)
    /\ Cardinality(Completed(made.out)) = Cardinality(Completed(acc.out)) + (IF complete THEN 1 ELSE 0)
    /\ Cardinality(Begun(made.out)) = Cardinality(Begun(acc.out)) + (IF guessed THEN 0 ELSE 1)

\* A match is closed: it follows the others.
LEMMA AMatchIsClosed ==
    ASSUME NEW acc \in Accs, NEW markers, Tiles(acc.out, acc.prev, markers),
           NEW begin \in Nat, NEW guessed \in BOOLEAN, NEW end \in Nat, NEW complete \in BOOLEAN,
           acc.prev <= begin, guessed => complete,
           complete => \E k \in DOMAIN markers : markers[k].at = Later(end, begin)
    PROVE  IsClosed(Close(acc, [start |-> begin, inferred |-> guessed], end, complete),
                    acc, begin, guessed, end, complete, markers)
<1> DEFINE stop == Later(end, begin)
           r == [start |-> begin, end |-> stop, complete |-> complete, inferred |-> guessed]
           made == Close(acc, [start |-> begin, inferred |-> guessed], end, complete)
<1>1. stop \in Nat /\ begin <= stop
  BY DEF Later
<1>2. r \in Segments
  BY <1>1 DEF Segments
<1>3. made = [out |-> Append(acc.out, r), open |-> NotOpen, prev |-> stop]
  <2>1. acc = [out |-> acc.out, open |-> acc.open, prev |-> acc.prev]
    BY DEF Accs
  <2>2. made = [acc EXCEPT !.open = NotOpen, !.prev = stop, !.out = Append(acc.out, r)]
    BY <2>1 DEF Close
  <2> HIDE DEF made, stop, r
  <2> QED
    BY <2>1, <2>2
<1>4. acc.out \in Seq(Segments) /\ acc.prev \in Nat
  BY DEF Accs
<1>5. made.out = Append(acc.out, r) /\ made.open = NotOpen /\ made.prev = stop
  BY <1>3
<1>6. made \in Accs
  <2>1. Append(acc.out, r) \in Seq(Segments)
    BY <1>2, <1>4
  <2> HIDE DEF r, stop
  <2> QED
    BY <1>1, <1>3, <2>1 DEF Accs
<1>7. /\ DOMAIN acc.out = 1..Len(acc.out) /\ DOMAIN made.out = 1..(Len(acc.out) + 1) /\ Len(acc.out) \in Nat
      /\ \A i \in 1..Len(acc.out) : made.out[i] = acc.out[i] /\ acc.out[i] \in Segments
      /\ made.out[Len(acc.out) + 1] = r
  BY <1>2, <1>4, <1>5
<1>8. r.start = begin /\ r.end = stop /\ r.complete = complete /\ r.inferred = guessed
  OBVIOUS
<1> HIDE DEF r, stop, made
<1>9. Tiles(made.out, stop, markers)
  <2>1. ASSUME NEW i \in DOMAIN made.out
        PROVE  /\ made.out[i].start <= made.out[i].end /\ made.out[i].end <= stop
               /\ made.out[i].inferred => made.out[i].complete
               /\ made.out[i].complete => \E k \in DOMAIN markers : markers[k].at = made.out[i].end
               /\ i > 1 => made.out[i - 1].end <= made.out[i].start
    <3>1. CASE i = Len(acc.out) + 1
      <4>1. i > 1 => i - 1 \in DOMAIN acc.out
        BY <1>7, <3>1
      <4>2. i > 1 => made.out[i - 1].end <= acc.prev /\ made.out[i - 1].end \in Nat
        BY <1>7, <4>1 DEF Tiles, Segments
      <4> QED
        BY <1>1, <1>4, <1>7, <1>8, <3>1, <4>2 DEF stop
    <3>2. CASE i \in 1..Len(acc.out)
      <4>1. made.out[i] = acc.out[i] /\ (i > 1 => made.out[i - 1] = acc.out[i - 1])
        BY <1>7, <3>2
      <4>2. acc.out[i].end \in Nat
        BY <1>7, <3>2 DEF Segments
      <4> QED
        BY <1>1, <1>4, <1>7, <3>2, <4>1, <4>2 DEF Tiles
    <3> QED
      BY <1>7, <2>1, <3>1, <3>2
  <2> QED
    BY <2>1 DEF Tiles
<1>10. Cardinality(Completed(made.out)) = Cardinality(Completed(acc.out)) + (IF complete THEN 1 ELSE 0)
  <2>1. Completed(made.out) = Completed(acc.out) \cup (IF complete THEN {Len(acc.out) + 1} ELSE {})
    BY <1>2, <1>4, <1>5, <1>8, OneMoreMatch
  <2>2. Completed(acc.out) \in SUBSET (1..Len(acc.out)) /\ Len(acc.out) \in Nat
    BY <1>2, <1>4, OneMoreMatch
  <2> DEFINE D == (IF complete THEN {Len(acc.out) + 1} ELSE {})
  <2>3. D \in {{}, {Len(acc.out) + 1}}
    OBVIOUS
  <2>4. Cardinality(Completed(acc.out) \cup D) = Cardinality(Completed(acc.out)) + (IF D = {} THEN 0 ELSE 1)
    <3> DEFINE N == Len(acc.out)
               S == Completed(acc.out)
    <3>1. N \in Nat /\ S \in SUBSET (1..N) /\ D \in {{}, {N + 1}}
      BY <2>2, <2>3
    <3> HIDE DEF D, N, S
    <3>2. Cardinality(S \cup D) = Cardinality(S) + (IF D = {} THEN 0 ELSE 1)
      BY ONLY <3>1, OneMoreCounted
    <3> QED
      BY <3>2 DEF S
  <2>5. D = {} <=> ~ complete
    OBVIOUS
  <2>6. Completed(made.out) = Completed(acc.out) \cup D
    BY <2>1
  <2> HIDE DEF D
  <2> QED
    BY <2>4, <2>5, <2>6
<1>11. Cardinality(Begun(made.out)) = Cardinality(Begun(acc.out)) + (IF guessed THEN 0 ELSE 1)
  <2>1. Begun(made.out) = Begun(acc.out) \cup (IF guessed THEN {} ELSE {Len(acc.out) + 1})
    BY <1>2, <1>4, <1>5, <1>8, OneMoreMatch
  <2>2. Begun(acc.out) \in SUBSET (1..Len(acc.out)) /\ Len(acc.out) \in Nat
    BY <1>2, <1>4, OneMoreMatch
  <2> DEFINE D == (IF guessed THEN {} ELSE {Len(acc.out) + 1})
  <2>3. D \in {{}, {Len(acc.out) + 1}}
    OBVIOUS
  <2>4. Cardinality(Begun(acc.out) \cup D) = Cardinality(Begun(acc.out)) + (IF D = {} THEN 0 ELSE 1)
    <3> DEFINE N == Len(acc.out)
               S == Begun(acc.out)
    <3>1. N \in Nat /\ S \in SUBSET (1..N) /\ D \in {{}, {N + 1}}
      BY <2>2, <2>3
    <3> HIDE DEF D, N, S
    <3>2. Cardinality(S \cup D) = Cardinality(S) + (IF D = {} THEN 0 ELSE 1)
      BY ONLY <3>1, OneMoreCounted
    <3> QED
      BY <3>2 DEF S
  <2>5. D = {} <=> guessed
    OBVIOUS
  <2>6. Begun(made.out) = Begun(acc.out) \cup D
    BY <2>1
  <2> HIDE DEF D
  <2> QED
    BY <2>4, <2>5, <2>6
<1> QED
  BY <1>5, <1>6, <1>9, <1>10, <1>11 DEF made, stop, IsClosed

\* The markers so far are markers of the longer list.
LEMMA TilesStay ==
    ASSUME NEW markers \in Seq(Marker), NEW m \in Marker, NEW matches, NEW prev, Tiles(matches, prev, markers)
    PROVE  Tiles(matches, prev, Append(markers, m))
<1>1. \A k \in DOMAIN markers : k \in DOMAIN Append(markers, m) /\ Append(markers, m)[k] = markers[k]
  OBVIOUS
<1>2. \A at : (\E k \in DOMAIN markers : markers[k].at = at)
                 => \E k \in DOMAIN Append(markers, m) : Append(markers, m)[k].at = at
  BY <1>1
<1> QED
  BY <1>2 DEF Tiles

LEMMA LaterIsOne ==
    ASSUME NEW a \in Nat, NEW b \in Nat, NEW c \in Nat, b <= c, c <= a
    PROVE  Later(a, b) <= a
  BY DEF Later

LEMMA AMarkerIsAccountedFor ==
    ASSUME NEW markers \in Seq(Marker), NEW m \in Marker, NEW acc,
           Accounts(acc, markers), Reach(markers) <= m.at
    PROVE  Accounts(OnMarker(acc, m), Append(markers, m))
<1> DEFINE more == Append(markers, m)
           ends(k) == Cardinality(OfKind("game_end", k))
           begins(k) == Cardinality(OfKind("game_start", k))
<1>1. /\ acc \in Accs /\ acc.out \in Seq(Segments) /\ acc.prev \in Nat
      /\ acc.open = NotOpen \/ acc.open \in Opened
      /\ m.at \in Nat /\ Reach(markers) \in Nat
  <2>1. m.at \in 0..MaxOffset /\ \A k \in DOMAIN markers : markers[k].at \in 0..MaxOffset
    <3>1. \A x \in Marker : x.at \in 0..MaxOffset
      BY DEF Marker
    <3> QED
      BY <3>1
  <2>2. Reach(markers) \in Nat
    <3>1. markers # <<>> => Len(markers) \in DOMAIN markers
      OBVIOUS
    <3> QED
      BY <2>1, <3>1 DEF Reach, Last
  <2> QED
    BY <2>1, <2>2 DEF Accounts, Accs
<1>2. Reach(more) = m.at
  <2>1. more # <<>> /\ Len(more) = Len(markers) + 1 /\ more[Len(markers) + 1] = m
    OBVIOUS
  <2> QED
    BY <2>1 DEF Reach, Last
<1>3. Tiles(acc.out, acc.prev, more)
  BY TilesStay DEF Accounts
<1>4. \E k \in DOMAIN more : more[k].at = m.at
  <2>1. Len(markers) + 1 \in DOMAIN more /\ more[Len(markers) + 1] = m
    OBVIOUS
  <2> QED
    BY <2>1
<1>5. /\ ends(more) = ends(markers) + (IF m.kind = "game_end" THEN 1 ELSE 0) /\ ends(markers) \in Nat
      /\ begins(more) = begins(markers) + (IF m.kind = "game_start" THEN 1 ELSE 0) /\ begins(markers) \in Nat
  <2>1. Len(markers) \in Nat
    OBVIOUS
  <2>2. ASSUME NEW kind
        PROVE  /\ Cardinality(OfKind(kind, more)) = Cardinality(OfKind(kind, markers)) + (IF m.kind = kind THEN 1 ELSE 0)
               /\ Cardinality(OfKind(kind, markers)) \in Nat
    <3>1. /\ OfKind(kind, markers) \in SUBSET (1..Len(markers))
          /\ OfKind(kind, more) = OfKind(kind, markers) \cup (IF m.kind = kind THEN {Len(markers) + 1} ELSE {})
      BY OneMoreMarker
    <3> QED
      BY <2>1, <3>1, OneMoreCounted
  <2> QED
    BY <2>2
<1>6. /\ acc.prev <= Reach(markers)
      /\ acc.open # NotOpen => acc.prev <= acc.open.start /\ acc.open.start <= Reach(markers)
      /\ Cardinality(Completed(acc.out)) = ends(markers)
      /\ Cardinality(Begun(acc.out)) + (IF acc.open = NotOpen THEN 0 ELSE 1) = begins(markers)
  BY DEF Accounts
<1>7. Cardinality(Begun(acc.out)) \in Nat /\ Cardinality(Completed(acc.out)) \in Nat
  <2>1. Begun(acc.out) \in SUBSET (1..Len(acc.out)) /\ Completed(acc.out) \in SUBSET (1..Len(acc.out)) /\ Len(acc.out) \in Nat
    BY <1>1 DEF Begun, Completed
  <2> QED
    BY <2>1, OneMoreCounted
<1>8. acc.open # NotOpen => /\ acc.open = [start |-> acc.open.start, inferred |-> FALSE]
                            /\ acc.open.start \in Nat
  BY <1>1 DEF Opened
<1> HIDE DEF more, ends, begins
<1>9. CASE m.kind = "game_start"
  <2> DEFINE base == IF acc.open = NotOpen THEN acc ELSE Close(acc, acc.open, m.at, FALSE)
             fresh == [start |-> m.at, inferred |-> FALSE]
  <2>1. /\ base \in Accs /\ Tiles(base.out, base.prev, more) /\ base.prev <= m.at
        /\ Cardinality(Completed(base.out)) = ends(more)
        /\ Cardinality(Begun(base.out)) + 1 = begins(more)
    <3>1. CASE acc.open = NotOpen
      BY <1>1, <1>3, <1>5, <1>6, <1>7, <1>9, <3>1
    <3>2. CASE acc.open # NotOpen
      <4> DEFINE made == Close(acc, [start |-> acc.open.start, inferred |-> FALSE], m.at, FALSE)
      <4>1. /\ made \in Accs /\ made.prev = Later(m.at, acc.open.start)
            /\ Tiles(made.out, made.prev, more)
            /\ Cardinality(Completed(made.out)) = Cardinality(Completed(acc.out))
            /\ Cardinality(Begun(made.out)) = Cardinality(Begun(acc.out)) + 1
        <5>1. acc.prev <= acc.open.start /\ acc.open.start \in Nat
          BY <1>6, <1>8, <3>2
        <5>2. IsClosed(made, acc, acc.open.start, FALSE, m.at, FALSE, more)
          BY <1>1, <1>3, <5>1, AMatchIsClosed, Zenon
        <5> HIDE DEF made
        <5> QED
          BY <1>7, <5>2 DEF IsClosed
      <4>2. base = made
        BY <1>8, <3>2
      <4>3. made.prev <= m.at
        BY <1>1, <1>6, <1>8, <3>2, <4>1, LaterIsOne
      <4> HIDE DEF made, base
      <4> QED
        BY <1>5, <1>6, <1>7, <1>9, <3>2, <4>1, <4>2, <4>3
    <3> QED
      BY <3>1, <3>2
  <2>2. OnMarker(acc, m) = [base EXCEPT !.open = fresh]
    BY <1>9 DEF OnMarker, OnStart
  <2> HIDE DEF base
  <2>3. OnMarker(acc, m) = [out |-> base.out, open |-> fresh, prev |-> base.prev]
    BY <2>1, <2>2 DEF Accs
  <2>4. fresh \in Opened /\ fresh # NotOpen /\ fresh.start = m.at
    BY <1>1 DEF Opened, NotOpen
  <2> HIDE DEF fresh
  <2>5. OnMarker(acc, m) \in Accs
    BY <2>1, <2>3, <2>4 DEF Accs
  <2>6. /\ OnMarker(acc, m).out = base.out /\ OnMarker(acc, m).open = fresh
        /\ OnMarker(acc, m).prev = base.prev
    BY <2>3
  <2> QED
    BY <1>1, <1>2, <2>1, <2>4, <2>5, <2>6 DEF Accounts, more, ends, begins
<1>10. CASE m.kind = "game_end"
  <2> DEFINE guessed == acc.open = NotOpen
             begin == IF guessed THEN acc.prev ELSE acc.open.start
             made == Close(acc, [start |-> begin, inferred |-> guessed], m.at, TRUE)
  <2>1. begin \in Nat /\ acc.prev <= begin /\ begin <= m.at
    BY <1>1, <1>6, <1>8
  <2>2. Later(m.at, begin) = m.at
    BY <1>1, <2>1 DEF Later
  <2>3. OnMarker(acc, m) = made
    <3>1. OnMarker(acc, m) = OnEnd(acc, m.at)
      BY <1>10 DEF OnMarker
    <3>2. CASE acc.open = NotOpen
      BY <3>1, <3>2 DEF OnEnd
    <3>3. CASE acc.open # NotOpen
      <4>1. [start |-> begin, inferred |-> guessed] = acc.open
        BY <1>8, <3>3
      <4> HIDE DEF begin, guessed
      <4> QED
        BY <3>1, <3>3, <4>1 DEF OnEnd
    <3> QED
      BY <3>2, <3>3
  <2>4. guessed \in BOOLEAN
    OBVIOUS
  <2> HIDE DEF begin
  <2>5. /\ made \in Accs /\ made.open = NotOpen /\ made.prev = Later(m.at, begin)
        /\ Tiles(made.out, made.prev, more)
        /\ Cardinality(Completed(made.out)) = Cardinality(Completed(acc.out)) + 1
        /\ Cardinality(Begun(made.out)) = Cardinality(Begun(acc.out)) + (IF guessed THEN 0 ELSE 1)
    <3>1. \E k \in DOMAIN more : more[k].at = Later(m.at, begin)
      BY <1>4, <2>2 DEF more
    <3>2. guessed => TRUE
      OBVIOUS
    <3> HIDE DEF guessed
    <3>3. IsClosed(made, acc, begin, guessed, m.at, TRUE, more)
      BY <1>1, <1>3, <2>1, <2>4, <3>1, <3>2, AMatchIsClosed, Zenon
    <3> QED
      BY <3>3 DEF IsClosed
  <2> HIDE DEF made
  <2> QED
    BY <1>1, <1>2, <1>5, <1>6, <1>7, <1>10, <2>2, <2>3, <2>5 DEF Accounts, more, ends, begins
<1>11. CASE m.kind \notin {"game_start", "game_end"}
  <2>1. OnMarker(acc, m) = acc
    BY <1>11 DEF OnMarker
  <2>2. ends(more) = ends(markers) /\ begins(more) = begins(markers)
    BY <1>5, <1>11
  <2>3. acc.prev <= Reach(more) /\ (acc.open # NotOpen => acc.open.start <= Reach(more))
    BY <1>1, <1>2, <1>6, <1>8
  <2> QED
    BY <1>1, <1>3, <1>6, <2>1, <2>2, <2>3 DEF Accounts, more, ends, begins
<1> QED
  BY <1>9, <1>10, <1>11

LEMMA MatchesStart == MatchInit => MatchInv
<1> SUFFICES ASSUME MatchInit PROVE MatchInv
  OBVIOUS
<1>1. timeline = <<>> /\ length = 0 /\ timeline \in Seq(Marker)
  BY DEF MatchInit
<1>2. Folded(timeline) = NoMatch
  BY <1>1, FoldOfNothing
<1>3. /\ OfKind("game_end", <<>>) = {} /\ OfKind("game_start", <<>>) = {}
      /\ Completed(<<>>) = {} /\ Begun(<<>>) = {}
  BY DEF OfKind, Completed, Begun
<1>4. Cardinality({}) = 0
  BY FS_EmptySet
<1>5. NoMatch \in Accs /\ NoMatch.out = <<>> /\ NoMatch.open = NotOpen /\ NoMatch.prev = 0
  BY DEF NoMatch, Accs
<1>6. Tiles(<<>>, 0, <<>>) /\ Reach(<<>>) = 0 /\ InOrder(<<>>)
  BY DEF Tiles, Reach, InOrder
<1>7. Accounts(NoMatch, <<>>)
  <2>1. Tiles(NoMatch.out, NoMatch.prev, <<>>) /\ NoMatch.prev <= Reach(<<>>)
    BY <1>5, <1>6
  <2>2. Cardinality(Completed(NoMatch.out)) = Cardinality(OfKind("game_end", <<>>))
    BY <1>3, <1>5
  <2>3. Cardinality(Begun(NoMatch.out)) = 0 /\ Cardinality(OfKind("game_start", <<>>)) = 0
    BY <1>3, <1>4, <1>5
  <2> QED
    BY <1>5, <2>1, <2>2, <2>3 DEF Accounts
<1>8. InOrder(timeline) /\ Accounts(Folded(timeline), timeline)
  BY <1>1, <1>2, <1>6, <1>7
<1> QED
  BY <1>1, <1>8 DEF MatchInv

LEMMA MatchesStay == MatchInv /\ [MatchNext]_matchVars => MatchInv'
<1> SUFFICES ASSUME MatchInv, [MatchNext]_matchVars PROVE MatchInv'
  OBVIOUS
<1>1. timeline \in Seq(Marker) /\ length \in Nat /\ InOrder(timeline) /\ Accounts(Folded(timeline), timeline)
  BY DEF MatchInv
<1>2. ASSUME NEW m \in Marker, MarkerComes(m) PROVE MatchInv'
  <2>1. timeline' = Append(timeline, m) /\ length' = length /\ (timeline # <<>> => Last(timeline).at <= m.at)
    BY <1>2 DEF MarkerComes
  <2>2. m.at \in Nat /\ \A k \in DOMAIN timeline : timeline[k].at \in Nat
    <3>1. \A x \in Marker : x.at \in 0..MaxOffset
      BY DEF Marker
    <3> QED
      BY <1>1, <3>1
  <2>3. Reach(timeline) <= m.at
    BY <2>1, <2>2 DEF Reach
  <2>4. Accounts(Folded(Append(timeline, m)), Append(timeline, m))
    BY <1>1, <2>3, AMarkerIsAccountedFor, FoldOfOneMore
  <2>5. /\ Append(timeline, m) \in Seq(Marker)
        /\ DOMAIN timeline = 1..Len(timeline) /\ Len(timeline) \in Nat
        /\ DOMAIN Append(timeline, m) = 1..(Len(timeline) + 1)
        /\ \A i \in 1..Len(timeline) : Append(timeline, m)[i] = timeline[i]
        /\ Append(timeline, m)[Len(timeline) + 1] = m
    BY <1>1
  <2>6. \A i \in 1..Len(timeline) : timeline[i].at <= m.at
    <3> SUFFICES ASSUME NEW i \in 1..Len(timeline) PROVE timeline[i].at <= m.at
      OBVIOUS
    <3>1. timeline # <<>> /\ Len(timeline) \in 1..Len(timeline) /\ i <= Len(timeline)
      BY <2>5
    <3>2. timeline[i].at <= timeline[Len(timeline)].at
      BY <1>1, <2>5, <3>1 DEF InOrder
    <3> QED
      BY <2>1, <2>2, <2>5, <3>1, <3>2 DEF Last
  <2>7. InOrder(Append(timeline, m))
    <3> SUFFICES ASSUME NEW i \in 1..(Len(timeline) + 1), NEW j \in 1..(Len(timeline) + 1), i <= j
                 PROVE  Append(timeline, m)[i].at <= Append(timeline, m)[j].at
      BY <2>5 DEF InOrder
    <3>1. CASE j = Len(timeline) + 1
      BY <2>2, <2>5, <2>6, <3>1
    <3>2. CASE j # Len(timeline) + 1
      <4>1. i \in 1..Len(timeline) /\ j \in 1..Len(timeline)
        BY <2>5, <3>2
      <4> QED
        BY <1>1, <2>5, <4>1 DEF InOrder
    <3> QED
      BY <3>1, <3>2
  <2> QED
    BY <1>1, <2>1, <2>4, <2>5, <2>7 DEF MatchInv
<1>3. ASSUME NEW l \in 1..MaxOffset, SessionEnds(l) PROVE MatchInv'
  <2>1. timeline' = timeline /\ length' = l /\ l \in Nat
    BY <1>3, MatchAssumption DEF SessionEnds
  <2> QED
    BY <1>1, <2>1 DEF MatchInv
<1>4. CASE UNCHANGED matchVars
  BY <1>1, <1>4 DEF matchVars, MatchInv
<1> QED
  BY <1>2, <1>3, <1>4 DEF MatchNext

\* What is open when the session ends is closed there, incomplete.
LEMMA TheSessionIsTiled == MatchInv => MatchesTileTheSession
<1> SUFFICES ASSUME MatchInv PROVE MatchesTileTheSession
  OBVIOUS
<1> DEFINE acc == Folded(timeline)
           s == SplitMatches(timeline, length)
           ends == Cardinality(OfKind("game_end", timeline))
           begins == Cardinality(OfKind("game_start", timeline))
<1>1. timeline \in Seq(Marker) /\ length \in Nat /\ Accounts(acc, timeline)
  BY DEF MatchInv
<1>2. /\ acc \in Accs /\ acc.out \in Seq(Segments) /\ acc.prev \in Nat
      /\ acc.open = NotOpen \/ acc.open \in Opened
      /\ Tiles(acc.out, acc.prev, timeline)
      /\ acc.open # NotOpen => acc.prev <= acc.open.start
      /\ Cardinality(Completed(acc.out)) = ends
      /\ Cardinality(Begun(acc.out)) + (IF acc.open = NotOpen THEN 0 ELSE 1) = begins
  BY <1>1 DEF Accounts, Accs
<1>3. s = IF acc.open = NotOpen THEN acc.out
          ELSE Close(acc, acc.open, IF length > acc.open.start THEN length ELSE Last(timeline).at, FALSE).out
  BY DEF SplitMatches, Folded, NoMatch
<1>4. Cardinality(Begun(acc.out)) \in Nat /\ Cardinality(Completed(acc.out)) \in Nat
  <2>1. Begun(acc.out) \in SUBSET (1..Len(acc.out)) /\ Completed(acc.out) \in SUBSET (1..Len(acc.out)) /\ Len(acc.out) \in Nat
    BY <1>2 DEF Begun, Completed
  <2> QED
    BY <2>1, OneMoreCounted
<1>5. acc.open # NotOpen => Last(timeline).at \in Nat
  <2> SUFFICES ASSUME acc.open # NotOpen PROVE Last(timeline).at \in Nat
    OBVIOUS
  <2>1. timeline # <<>>
    <3>1. SUFFICES ASSUME timeline = <<>> PROVE FALSE
      OBVIOUS
    <3>2. Folded(<<>>) = NoMatch /\ NoMatch.open = NotOpen
      BY FoldOfNothing DEF NoMatch
    <3> QED
      BY <3>1, <3>2
  <2>2. Len(timeline) \in DOMAIN timeline
    BY <1>1, <2>1
  <2>3. \A x \in Marker : x.at \in 0..MaxOffset
    BY DEF Marker
  <2> QED
    BY <1>1, <2>2, <2>3 DEF Last
<1> HIDE DEF acc, s, ends, begins
<1>6. /\ \E prev : Tiles(s, prev, timeline)
      /\ s \in Seq(Segments)
      /\ Cardinality(Completed(s)) = ends /\ Cardinality(Begun(s)) = begins
  <2>1. CASE acc.open = NotOpen
    BY <1>2, <1>3, <1>4, <2>1
  <2>2. CASE acc.open # NotOpen
    <3> DEFINE last == IF length > acc.open.start THEN length ELSE Last(timeline).at
               made == Close(acc, acc.open, last, FALSE)
    <3>1. last \in Nat
      BY <1>1, <1>5, <2>2
    <3>2. acc.open.start \in Nat /\ acc.open = [start |-> acc.open.start, inferred |-> FALSE] /\ acc.prev <= acc.open.start
      BY <1>2, <2>2 DEF Opened
    <3> HIDE DEF last
    <3>3. IsClosed(Close(acc, [start |-> acc.open.start, inferred |-> FALSE], last, FALSE),
                   acc, acc.open.start, FALSE, last, FALSE, timeline)
      BY <1>2, <3>1, <3>2, AMatchIsClosed, Zenon
    <3>4. IsClosed(made, acc, acc.open.start, FALSE, last, FALSE, timeline)
      BY <3>2, <3>3
    <3>5. s = made.out
      BY <1>3, <2>2 DEF last
    <3> HIDE DEF made
    <3>6. made.out \in Seq(Segments) /\ Tiles(made.out, made.prev, timeline)
      BY <3>4 DEF IsClosed, Accs
    <3>7. Cardinality(Completed(made.out)) = ends /\ Cardinality(Begun(made.out)) = begins
      BY <1>2, <1>4, <2>2, <3>4 DEF IsClosed
    <3> QED
      BY <3>5, <3>6, <3>7
  <2> QED
    BY <2>1, <2>2
<1>7. PICK prev : Tiles(s, prev, timeline)
  BY <1>6
<1>8. \A i \in DOMAIN s : s[i].complete => EventsOf(s[i], timeline) # {}
  <2> SUFFICES ASSUME NEW i \in DOMAIN s, s[i].complete PROVE EventsOf(s[i], timeline) # {}
    OBVIOUS
  <2>1. s[i].start \in Nat /\ s[i].end \in Nat /\ s[i].start <= s[i].end
    <3>1. s[i] \in Segments
      BY <1>6
    <3> QED
      BY <1>7, <3>1 DEF Tiles, Segments
  <2>2. PICK k \in DOMAIN timeline : timeline[k].at = s[i].end
    BY <1>7 DEF Tiles
  <2>3. k \in EventsOf(s[i], timeline)
    BY <2>1, <2>2 DEF EventsOf
  <2> QED
    BY <2>3
<1> QED
  BY <1>6, <1>7, <1>8 DEF MatchesTileTheSession, Tiles, Completed, Begun, s, ends, begins
-----------------------------------------------------------------------------
(* --- the index and its versions; the directory of the old name ---------- *)
OpenerTypes == [at : {"closed", "refused", "open", "backup", "upgrade", "reads", "writes", "failed", "duplicate"},
                read : Int, step : Int, piece : Int, looked : BOOLEAN, adds : SUBSET (Int \X Int)]
Ongoing == {"upgrade", "reads", "writes"}

(* The steps up to what it read, and those before the one it is at, are     *)
(* there; so are the pieces before the one it is at, or in its transaction. *)
StepsBehind(o, there) == \A k \in Steps : k <= o.read \/ k < o.step => PiecesOf(k) \subseteq there
PiecesBehind(o, there) == \A i \in Int : 1 <= i /\ i < o.piece => <<o.step, i>> \in there \cup o.adds

(* What it saw was not there cannot be added by another while it reads.     *)
SeenIsStillSo(o, there) ==
    o.looked => o.at \in {"reads", "writes"} /\ o.step > 1 /\ <<o.step, o.piece>> \notin there

(* Whoever upgrades read an older version, which the file still is or more. *)
OnItsWay(o, v, there) ==
    /\ o.at \notin {"closed", "failed"} => o.read <= v
    /\ o.at = "refused" => v > SCHEMA_VERSION
    /\ o.at \in Ongoing \cup {"open", "backup"} => v <= SCHEMA_VERSION
    /\ o.at = "open" => v = SCHEMA_VERSION
    /\ o.at # "duplicate"
    /\ o.at = "backup" => o.step = 1 /\ o.piece = 1 /\ ~o.looked /\ o.adds = {}
    /\ o.at \in Ongoing =>
          /\ o.step >= 1 /\ o.piece >= 1 /\ (o.adds # {} => o.at = "writes")
          /\ StepsBehind(o, there) /\ PiecesBehind(o, there) /\ SeenIsStillSo(o, there)

OneWrites == \A p, q \in Openers : Writes(p) /\ Writes(q) => p = q

SchemaInv ==
    /\ version \in Int /\ version >= 0 /\ opener \in [Openers -> OpenerTypes]
    /\ \A k \in Steps : version >= k => PiecesOf(k) \subseteq has
    /\ \A p \in Openers : OnItsWay(opener[p], version, has)
    /\ OneWrites

LEMMA ClosedIsTyped ==
    /\ Closed \in OpenerTypes /\ Closed.at = "closed" /\ Closed.read = 0 /\ Closed.step = 1 /\ Closed.piece = 1
    /\ ~Closed.looked /\ Closed.adds = {}
    /\ \A at \in {"closed", "failed", "open"} :
          /\ [Closed EXCEPT !.at = at] \in OpenerTypes /\ [Closed EXCEPT !.at = at].at = at
          /\ [Closed EXCEPT !.at = at].read = 0
<1>1. /\ Closed \in OpenerTypes /\ Closed.at = "closed" /\ Closed.read = 0 /\ Closed.step = 1 /\ Closed.piece = 1
      /\ ~Closed.looked /\ Closed.adds = {}
  <2>1. {} \in SUBSET (Int \X Int) /\ FALSE \in BOOLEAN
    OBVIOUS
  <2> QED
    BY <2>1 DEF Closed, OpenerTypes
<1>2. ASSUME NEW at \in {"closed", "failed", "open"}
      PROVE  /\ [Closed EXCEPT !.at = at] \in OpenerTypes /\ [Closed EXCEPT !.at = at].at = at
             /\ [Closed EXCEPT !.at = at].read = 0
  BY <1>1 DEF OpenerTypes
<1> QED
  BY <1>1, <1>2

LEMMA SchemaStarts == SchemaInit => SchemaInv
<1> SUFFICES ASSUME SchemaInit PROVE SchemaInv
  OBVIOUS
<1>1. version \in Int /\ version >= 0 /\ opener = [p \in Openers |-> Closed]
  BY SchemaAssumption DEF SchemaInit
<1>2. Closed \in OpenerTypes /\ Closed.at = "closed"
  BY ClosedIsTyped DEF Closed
<1>3. opener \in [Openers -> OpenerTypes] /\ \A p \in Openers : opener[p] = Closed
  BY <1>1, <1>2
<1>4. ASSUME NEW k \in Steps, version >= k PROVE PiecesOf(k) \subseteq has
  <2> DEFINE past == {j \in Steps : j <= version}
             claimed == UNION {PiecesOf(j) : j \in past}
  <2>1. k \in past
    BY <1>1, <1>4 DEF Steps
  <2>2. PiecesOf(k) \subseteq claimed
    <3> HIDE DEF past
    <3> QED
      BY <2>1
  <2>3. claimed \subseteq has
    <3> DEFINE next == IF version + 1 \in Steps THEN PiecesOf(version + 1) ELSE {}
    <3>1. has \in {claimed \cup more : more \in SUBSET next}
      BY DEF SchemaInit
    <3> HIDE DEF claimed, next
    <3> QED
      BY <3>1
  <2> QED
    BY <2>2, <2>3
<1>5. \A p \in Openers : OnItsWay(opener[p], version, has)
  BY <1>2, <1>3 DEF OnItsWay, Ongoing
<1>6. OneWrites
  BY <1>2, <1>3 DEF OneWrites, Writes
<1> QED
  BY <1>1, <1>3, <1>4, <1>5, <1>6 DEF SchemaInv

(* A process that holds no lock is not disturbed by what another one adds,  *)
(* one that does by nothing another may do, and nobody by the stamp.        *)
LEMMA OthersGoOn ==
    ASSUME NEW x \in OpenerTypes, NEW v \in Int, NEW w \in Int, NEW h, NEW g, OnItsWay(x, v, h), h \subseteq g,
           g = h \/ x.at \notin {"reads", "writes"}, w = v \/ (v <= SCHEMA_VERSION /\ w = SCHEMA_VERSION)
    PROVE  OnItsWay(x, w, g)
<1>1. SCHEMA_VERSION \in Int /\ x.read \in Int /\ v <= w
  BY SchemaAssumption DEF OpenerTypes
<1>2. /\ x.at \notin {"closed", "failed"} => x.read <= w
      /\ x.at = "refused" => w > SCHEMA_VERSION
      /\ x.at \in Ongoing \cup {"open", "backup"} => w <= SCHEMA_VERSION
      /\ x.at = "open" => w = SCHEMA_VERSION
  BY <1>1 DEF OnItsWay
<1>3. StepsBehind(x, h) => StepsBehind(x, g)
  BY DEF StepsBehind
<1>4. PiecesBehind(x, h) => PiecesBehind(x, g)
  BY DEF PiecesBehind
<1>5. SeenIsStillSo(x, h) => SeenIsStillSo(x, g)
  BY DEF SeenIsStillSo
<1> QED
  BY <1>2, <1>3, <1>4, <1>5 DEF OnItsWay

(* One process moves: what it adds it adds while no other reads or writes.  *)
LEMMA OneOpenerMoves ==
    ASSUME SchemaInv, NEW p \in Openers, NEW o \in OpenerTypes, opener' = [opener EXCEPT ![p] = o],
           version' = version \/ (version <= SCHEMA_VERSION /\ version' = SCHEMA_VERSION
                                  /\ \A k \in Steps : PiecesOf(k) \subseteq has'),
           has' = has \/ (has \subseteq has' /\ Unlocked(p) /\ Unread(p)),
           o.at = "writes" => Writes(p) \/ Unlocked(p), OnItsWay(o, version', has')
    PROVE  SchemaInv'
<1>1. /\ SCHEMA_VERSION \in Nat /\ version \in Int /\ version >= 0 /\ opener \in [Openers -> OpenerTypes]
      /\ \A q \in Openers : OnItsWay(opener[q], version, has)
  BY SchemaAssumption DEF SchemaInv
<1>2. opener' \in [Openers -> OpenerTypes] /\ \A q \in Openers : opener'[q] = IF q = p THEN o ELSE opener[q]
  BY <1>1
<1>3. version' \in Int /\ version' >= 0 /\ has \subseteq has'
  BY <1>1
<1>4. ASSUME NEW q \in Openers PROVE OnItsWay(opener'[q], version', has')
  <2>1. CASE q = p
    BY <1>2, <2>1
  <2>2. CASE q # p
    <3>1. opener'[q] = opener[q] /\ opener[q] \in OpenerTypes
      BY <1>1, <1>2, <2>2
    <3>2. has' = has \/ opener[q].at \notin {"reads", "writes"}
      BY <2>2 DEF Unlocked, Unread, Writes, Reads
    <3> QED
      BY <1>1, <1>3, <3>1, <3>2, OthersGoOn
  <2> QED
    BY <2>1, <2>2
<1>5. \A k \in Steps : version' >= k => PiecesOf(k) \subseteq has'
  BY <1>3 DEF SchemaInv
<1>6. OneWrites'
  <2> SUFFICES ASSUME NEW a \in Openers, NEW b \in Openers, opener'[a].at = "writes", opener'[b].at = "writes"
               PROVE  a = b
    BY DEF OneWrites, Writes
  <2>1. \A q \in Openers : q # p /\ opener'[q].at = "writes" => Writes(q)
    BY <1>2 DEF Writes
  <2>2. \A q \in Openers : q # p /\ opener'[q].at = "writes" => ~(opener'[p].at = "writes")
    BY <1>2, <2>1 DEF Unlocked, OneWrites, SchemaInv
  <2> QED
    BY <2>1, <2>2 DEF OneWrites, SchemaInv
<1> QED
  BY <1>2, <1>3, <1>4, <1>5, <1>6 DEF SchemaInv

(* What an upgrade in progress may rely on.                                 *)
LEMMA AnUpgradeGoesOn ==
    ASSUME SchemaInv, NEW p \in Openers, Upgrading(p)
    PROVE  /\ SCHEMA_VERSION \in Nat /\ version \in Int /\ opener[p] \in OpenerTypes
           /\ opener[p].at \in Ongoing /\ opener[p].step \in Steps /\ opener[p].step \in Nat /\ opener[p].read \in Int
           /\ opener[p].piece \in Int /\ opener[p].piece >= 1 /\ opener[p].looked \in BOOLEAN
           /\ opener[p].step <= SCHEMA_VERSION /\ opener[p].step >= 1
           /\ opener[p].adds \in SUBSET (Int \X Int) /\ Piece(p) \in Int \X Int
           /\ Piece(p) = <<opener[p].step, opener[p].piece>>
           /\ Pieces[opener[p].step] \in Nat
           /\ opener[p].read <= version /\ version <= SCHEMA_VERSION /\ (opener[p].adds # {} => Writes(p))
           /\ StepsBehind(opener[p], has) /\ PiecesBehind(opener[p], has) /\ SeenIsStillSo(opener[p], has)
<1>1. SCHEMA_VERSION \in Nat /\ version \in Int /\ opener[p] \in OpenerTypes /\ OnItsWay(opener[p], version, has)
  BY SchemaAssumption DEF SchemaInv
<1>2. opener[p].at \in Ongoing /\ opener[p].step \in Steps
  BY DEF Upgrading, Ongoing
<1>3. /\ opener[p].step \in Nat /\ opener[p].read \in Int /\ opener[p].piece \in Int /\ opener[p].looked \in BOOLEAN
      /\ opener[p].step <= SCHEMA_VERSION /\ opener[p].step >= 1 /\ opener[p].adds \in SUBSET (Int \X Int)
  BY <1>1, <1>2 DEF OpenerTypes, Steps
<1>4. Pieces[opener[p].step] \in Nat
  BY <1>2, SchemaAssumption DEF Steps
<1>5. /\ opener[p].piece >= 1 /\ opener[p].read <= version /\ version <= SCHEMA_VERSION
      /\ opener[p].adds # {} => opener[p].at = "writes"
      /\ StepsBehind(opener[p], has) /\ PiecesBehind(opener[p], has) /\ SeenIsStillSo(opener[p], has)
  BY <1>1, <1>2 DEF OnItsWay, Ongoing
<1>6. Piece(p) = <<opener[p].step, opener[p].piece>> /\ Piece(p) \in Int \X Int
  BY <1>3 DEF Piece
<1> QED
  BY <1>1, <1>2, <1>3, <1>4, <1>5, <1>6 DEF Writes

(* The upgrade ends: it failed, died, or never began.                       *)
LEMMA AnUpgradeEnds ==
    ASSUME SchemaInv, NEW p \in Openers, NEW at \in {"closed", "failed"},
           opener' = [opener EXCEPT ![p] = [Closed EXCEPT !.at = at]], UNCHANGED <<version, has>>
    PROVE  SchemaInv'
<1> DEFINE o == [Closed EXCEPT !.at = at]
<1>1. o \in OpenerTypes /\ o.at \in {"closed", "failed"} /\ opener' = [opener EXCEPT ![p] = o]
  BY ClosedIsTyped
<1> HIDE DEF o
<1>2. OnItsWay(o, version', has')
  BY <1>1 DEF OnItsWay, Ongoing
<1> QED
  BY <1>1, <1>2, OneOpenerMoves

(* Reading the version, and the copy made before anything is changed.       *)
LEMMA AnUpgradeBegins ==
    ASSUME SchemaInv, NEW p \in Openers, ReadsVersion(p) \/ \E ok \in BOOLEAN : BacksUp(p, ok)
    PROVE  SchemaInv'
<1>0. SCHEMA_VERSION \in Nat /\ version \in Int /\ opener[p] \in OpenerTypes /\ OnItsWay(opener[p], version, has)
  BY SchemaAssumption DEF SchemaInv
<1>1. CASE ReadsVersion(p)
  <2> DEFINE at == IF version > SCHEMA_VERSION THEN "refused" ELSE IF version = SCHEMA_VERSION THEN "open" ELSE "backup"
             o == [Closed EXCEPT !.read = version, !.at = at]
  <2>1. /\ at \in {"refused", "open", "backup"}
        /\ at = "refused" => version > SCHEMA_VERSION
        /\ at = "open" => version = SCHEMA_VERSION
        /\ at = "backup" => version <= SCHEMA_VERSION
    BY <1>0
  <2>2. opener' = [opener EXCEPT ![p] = o] /\ UNCHANGED <<version, has>>
    BY <1>1 DEF ReadsVersion
  <2> HIDE DEF at
  <2>3. /\ o \in OpenerTypes /\ o.read = version /\ o.at = at /\ o.step = 1 /\ o.piece = 1 /\ ~o.looked /\ o.adds = {}
    <3>1. /\ Closed \in OpenerTypes /\ Closed.step = 1 /\ Closed.piece = 1 /\ ~Closed.looked /\ Closed.adds = {}
      BY ClosedIsTyped
    <3> QED
      BY ONLY <1>0, <2>1, <3>1 DEF OpenerTypes
  <2> HIDE DEF o
  <2>4. OnItsWay(o, version', has')
    BY <1>0, <2>1, <2>2, <2>3 DEF OnItsWay, Ongoing
  <2> QED
    BY <2>1, <2>2, <2>3, <2>4, OneOpenerMoves
<1>2. ASSUME NEW ok \in BOOLEAN, BacksUp(p, ok) PROVE SchemaInv'
  <2>1. CASE ~ok
    <3>1. opener' = [opener EXCEPT ![p] = [Closed EXCEPT !.at = "failed"]] /\ UNCHANGED <<version, has>>
      BY <1>2, <2>1 DEF BacksUp
    <3> QED
      BY <3>1, AnUpgradeEnds
  <2>2. CASE ok
    <3> DEFINE o == [opener[p] EXCEPT !.at = "upgrade"]
    <3>1. opener[p].at = "backup" /\ opener' = [opener EXCEPT ![p] = o] /\ UNCHANGED <<version, has>>
      BY <1>2, <2>2 DEF BacksUp
    <3>2. /\ o \in OpenerTypes /\ o.at = "upgrade" /\ o.read = opener[p].read /\ o.step = opener[p].step
          /\ o.piece = opener[p].piece /\ o.looked = opener[p].looked /\ o.adds = opener[p].adds
      BY <1>0 DEF OpenerTypes
    <3>3. /\ o.read <= version /\ version <= SCHEMA_VERSION /\ o.step = 1 /\ o.piece = 1 /\ ~o.looked /\ o.adds = {}
          /\ o.read \in Int
      BY <1>0, <3>1, <3>2 DEF OnItsWay, OpenerTypes
    <3> HIDE DEF o
    <3>4. StepsBehind(o, has) /\ PiecesBehind(o, has) /\ SeenIsStillSo(o, has)
      <4>1. \A k \in Steps : k <= o.read \/ k < o.step => version >= k
        BY <1>0, <3>3 DEF Steps
      <4>2. StepsBehind(o, has)
        BY <4>1 DEF StepsBehind, SchemaInv
      <4>3. PiecesBehind(o, has) /\ SeenIsStillSo(o, has)
        BY <3>3 DEF PiecesBehind, SeenIsStillSo
      <4> QED
        BY <4>2, <4>3
    <3>5. OnItsWay(o, version', has')
      BY <3>1, <3>2, <3>3, <3>4 DEF OnItsWay, Ongoing
    <3> QED
      BY <3>1, <3>2, <3>5, OneOpenerMoves
  <2> QED
    BY <2>1, <2>2
<1> QED
  BY <1>1, <1>2

(* An upgrade comes to its next piece, or sees that this one is missing.    *)
LEMMA APieceIsSeen ==
    ASSUME SchemaInv, NEW p \in Openers, Upgrading(p), NEW o \in OpenerTypes,
           opener' = [opener EXCEPT ![p] = o], version' = version,
           has' = has \/ (has \subseteq has' /\ Unlocked(p) /\ Unread(p)),
           o.at \in Ongoing, o.at = "writes" => Writes(p) \/ Unlocked(p), o.read = opener[p].read,
           o.step = opener[p].step, o.adds # {} => o.at = "writes",
           \/ o.piece = opener[p].piece /\ o.adds = opener[p].adds
           \/ o.piece = opener[p].piece + 1 /\ opener[p].adds \subseteq o.adds /\ Piece(p) \in has' \cup o.adds,
           SeenIsStillSo(o, has')
    PROVE  SchemaInv'
<1>1. /\ version \in Int /\ opener[p].piece \in Int /\ opener[p].piece >= 1 /\ opener[p].step >= 1
      /\ opener[p].read <= version /\ version <= SCHEMA_VERSION
      /\ StepsBehind(opener[p], has) /\ PiecesBehind(opener[p], has)
      /\ Piece(p) = <<opener[p].step, opener[p].piece>>
  BY AnUpgradeGoesOn
<1>2. has \subseteq has' /\ o.piece \in Int /\ o.piece >= 1
  BY <1>1 DEF OpenerTypes
<1>3. StepsBehind(o, has')
  BY <1>1, <1>2 DEF StepsBehind
<1>4. PiecesBehind(o, has')
  <2> SUFFICES ASSUME NEW i \in Int, 1 <= i, i < o.piece PROVE <<o.step, i>> \in has' \cup o.adds
    BY DEF PiecesBehind
  <2>1. CASE i < opener[p].piece
    <3>1. <<opener[p].step, i>> \in has \cup opener[p].adds
      BY <1>1, <2>1 DEF PiecesBehind
    <3> QED
      BY <1>2, <3>1
  <2>2. CASE ~(i < opener[p].piece)
    <3>1. i = opener[p].piece /\ o.piece # opener[p].piece
      BY <1>1, <1>2, <2>2
    <3> QED
      BY <1>1, <3>1
  <2> QED
    BY <2>1, <2>2
<1>5. OnItsWay(o, version', has')
  BY <1>1, <1>2, <1>3, <1>4 DEF OnItsWay, Ongoing
<1> QED
  BY <1>5, OneOpenerMoves

(* A table or a column, looked at and added.                                *)
LEMMA PiecesAreAdded ==
    ASSUME SchemaInv, NEW p \in Openers, Creates(p) \/ Looks(p) \/ Alters(p) \/ FillsIn(p)
    PROVE  SchemaInv'
<1>0. Upgrading(p)
  BY DEF Creates, Looks, Alters, FillsIn
<1>9. /\ SCHEMA_VERSION \in Nat /\ version \in Int /\ opener[p] \in OpenerTypes
      /\ opener[p].at \in Ongoing /\ opener[p].step \in Nat /\ opener[p].read \in Int
      /\ opener[p].piece \in Int /\ opener[p].looked \in BOOLEAN
      /\ opener[p].adds \in SUBSET (Int \X Int) /\ Piece(p) \in Int \X Int
      /\ Piece(p) = <<opener[p].step, opener[p].piece>>
      /\ opener[p].adds # {} => Writes(p)
      /\ SeenIsStillSo(opener[p], has)
  BY <1>0, AnUpgradeGoesOn
<1>1. CASE Creates(p)
  <2> DEFINE next == opener[p].piece + 1
             o == [opener[p] EXCEPT !.piece = next]
  <2>1. next \in Int /\ opener' = [opener EXCEPT ![p] = o] /\ version' = version /\ has' = has \cup {Piece(p)}
        /\ opener[p].step = 1 /\ (Piece(p) \notin has => Unlocked(p) /\ Unread(p))
    BY <1>1, <1>9 DEF Creates, SchemaInv
  <2>2. /\ o \in OpenerTypes /\ o.at = opener[p].at /\ o.read = opener[p].read /\ o.step = opener[p].step
        /\ o.piece = next /\ o.looked = opener[p].looked /\ o.adds = opener[p].adds
    <3> HIDE DEF next
    <3> QED
      BY <1>9, <2>1 DEF OpenerTypes
  <2> HIDE DEF o
  <2>3. SeenIsStillSo(o, has')
    BY <1>9, <2>1, <2>2 DEF SeenIsStillSo
  <2>4. has' = has \/ (has \subseteq has' /\ Unlocked(p) /\ Unread(p))
    BY <2>1
  <2>5. o.at = "writes" => Writes(p)
    BY <2>2 DEF Writes
  <2>6. o.adds # {} => o.at = "writes"
    BY <1>9, <2>2 DEF Writes
  <2> QED
    BY <1>0, <1>9, <2>1, <2>2, <2>3, <2>4, <2>5, <2>6, APieceIsSeen
<1>2. CASE Looks(p)
  <2> DEFINE at == IF Writes(p) THEN "writes" ELSE "reads"
             next == opener[p].piece + 1
             there == [opener[p] EXCEPT !.at = at, !.piece = next]
             missing == [opener[p] EXCEPT !.at = at, !.looked = TRUE]
             o == IF Piece(p) \in has THEN there ELSE missing
  <2>1. /\ opener' = [opener EXCEPT ![p] = o] /\ version' = version /\ has' = has
        /\ opener[p].step > 1 /\ ~opener[p].looked
    BY <1>2 DEF Looks
  <2>2. /\ at \in {"reads", "writes"} /\ (at = "writes" => Writes(p)) /\ (Writes(p) => at = "writes")
        /\ next \in Int /\ next = opener[p].piece + 1
    BY <1>9
  <2> HIDE DEF at, next
  <2>3. /\ there \in OpenerTypes /\ there.at = at /\ there.read = opener[p].read /\ there.step = opener[p].step
        /\ there.piece = next /\ there.looked = opener[p].looked /\ there.adds = opener[p].adds
    BY ONLY <1>9, <2>2 DEF OpenerTypes
  <2>4. /\ missing \in OpenerTypes /\ missing.at = at /\ missing.read = opener[p].read
        /\ missing.step = opener[p].step /\ missing.piece = opener[p].piece /\ missing.looked
        /\ missing.adds = opener[p].adds
    BY ONLY <1>9, <2>2 DEF OpenerTypes
  <2> HIDE DEF there, missing
  <2>5. CASE Piece(p) \in has
    <3>1. o = there
      BY <2>5
    <3> HIDE DEF o
    <3>2. SeenIsStillSo(o, has')
      BY <2>1, <2>3, <3>1 DEF SeenIsStillSo
    <3> QED
      BY <1>0, <1>9, <2>1, <2>2, <2>3, <2>5, <3>1, <3>2, APieceIsSeen DEF Ongoing
  <2>6. CASE Piece(p) \notin has
    <3>1. o = missing
      BY <2>6
    <3> HIDE DEF o
    <3>2. SeenIsStillSo(o, has')
      BY <1>9, <2>1, <2>2, <2>4, <2>6, <3>1 DEF SeenIsStillSo
    <3> QED
      BY <1>0, <1>9, <2>1, <2>2, <2>4, <3>1, <3>2, APieceIsSeen DEF Ongoing
  <2> QED
    BY <2>5, <2>6
<1>3. CASE Alters(p)
  <2> DEFINE next == opener[p].piece + 1
             with == opener[p].adds \cup {Piece(p)}
             o == [opener[p] EXCEPT !.at = "writes", !.piece = next, !.looked = FALSE, !.adds = with]
  <2>1. Piece(p) \notin has /\ version' = version /\ has' = has
    BY <1>3, <1>9 DEF Alters, SeenIsStillSo
  <2>2. CASE ~Unlocked(p)
    <3>1. opener' = [opener EXCEPT ![p] = [Closed EXCEPT !.at = "failed"]]
      BY <1>3, <2>1, <2>2 DEF Alters
    <3> QED
      BY <2>1, <3>1, AnUpgradeEnds
  <2>3. CASE Unlocked(p)
    <3>1. opener' = [opener EXCEPT ![p] = o]
      BY <1>3, <2>1, <2>3 DEF Alters
    <3>2. next \in Int /\ next = opener[p].piece + 1 /\ with \in SUBSET (Int \X Int)
          /\ opener[p].adds \subseteq with /\ Piece(p) \in with
      BY <1>9
    <3> HIDE DEF next, with
    <3>3. /\ o \in OpenerTypes /\ o.at = "writes" /\ o.read = opener[p].read /\ o.step = opener[p].step
          /\ o.piece = next /\ ~o.looked /\ o.adds = with
      <4> DEFINE y == [opener[p] EXCEPT !.at = "writes", !.piece = next]
      <4>1. /\ y \in OpenerTypes /\ y.at = "writes" /\ y.read = opener[p].read /\ y.step = opener[p].step /\ y.piece = next
        BY ONLY <1>9, <3>2 DEF OpenerTypes
      <4>2. o = [y EXCEPT !.looked = FALSE, !.adds = with]
        BY ONLY <1>9 DEF OpenerTypes
      <4> HIDE DEF o, y
      <4> QED
        BY ONLY <3>2, <4>1, <4>2 DEF OpenerTypes
    <3> HIDE DEF o
    <3>4. SeenIsStillSo(o, has')
      BY <3>3 DEF SeenIsStillSo
    <3> QED
      BY <1>0, <2>1, <2>3, <3>1, <3>2, <3>3, <3>4, APieceIsSeen DEF Ongoing
  <2> QED
    BY <2>2, <2>3
<1>4. CASE FillsIn(p)
  <2> DEFINE o == [opener[p] EXCEPT !.at = "writes"]
  <2>1. version' = version /\ has' = has /\ opener[p].at = "reads"
    BY <1>4 DEF FillsIn, Reads
  <2>2. CASE ~Unlocked(p)
    <3>1. opener' = [opener EXCEPT ![p] = [Closed EXCEPT !.at = "failed"]]
      BY <1>4, <2>2 DEF FillsIn
    <3> QED
      BY <2>1, <3>1, AnUpgradeEnds
  <2>3. CASE Unlocked(p)
    <3>1. opener' = [opener EXCEPT ![p] = o]
      BY <1>4, <2>3 DEF FillsIn
    <3>2. /\ o \in OpenerTypes /\ o.at = "writes" /\ o.read = opener[p].read /\ o.step = opener[p].step
          /\ o.piece = opener[p].piece /\ o.looked = opener[p].looked /\ o.adds = opener[p].adds
      BY <1>9 DEF OpenerTypes
    <3> HIDE DEF o
    <3>3. SeenIsStillSo(o, has')
      BY <1>9, <2>1, <3>2 DEF SeenIsStillSo
    <3> QED
      BY <1>0, <2>1, <2>3, <3>1, <3>2, <3>3, APieceIsSeen DEF Ongoing
  <2> QED
    BY <2>2, <2>3
<1> QED
  BY <1>1, <1>2, <1>3, <1>4

(* A step is done when the last of its pieces is.                           *)
LEMMA StepsAreCommitted ==
    ASSUME SchemaInv, NEW p \in Openers, Commits(p)
    PROVE  SchemaInv'
<1>0. Upgrading(p) /\ ~Left(p)
  BY DEF Commits
<1>1. /\ SCHEMA_VERSION \in Nat /\ version \in Int /\ opener[p] \in OpenerTypes
      /\ opener[p].at \in Ongoing /\ opener[p].step \in Steps /\ opener[p].step \in Nat /\ opener[p].read \in Int
      /\ opener[p].piece \in Int /\ opener[p].looked \in BOOLEAN /\ opener[p].step >= 1
      /\ opener[p].adds \in SUBSET (Int \X Int) /\ opener[p].read <= version /\ version <= SCHEMA_VERSION
      /\ Pieces[opener[p].step] \in Nat /\ (opener[p].adds # {} => Writes(p))
      /\ StepsBehind(opener[p], has) /\ PiecesBehind(opener[p], has) /\ SeenIsStillSo(opener[p], has)
  BY <1>0, AnUpgradeGoesOn
<1> DEFINE next == IF opener[p].step = 1 /\ opener[p].read > 1 THEN opener[p].read + 1 ELSE opener[p].step + 1
           o == [opener[p] EXCEPT !.at = "upgrade", !.step = next, !.piece = 1, !.looked = FALSE, !.adds = {}]
<1>2. /\ opener' = [opener EXCEPT ![p] = o] /\ version' = version /\ has' = has \cup opener[p].adds
      /\ Writes(p) => Unread(p)
  BY DEF Commits
<1>3. next \in Int /\ next >= 1 /\ (next = opener[p].step + 1 \/ (opener[p].step = 1 /\ next = opener[p].read + 1))
  BY <1>1
<1> HIDE DEF next
<1>4. /\ o \in OpenerTypes /\ o.at = "upgrade" /\ o.read = opener[p].read /\ o.step = next /\ o.piece = 1
      /\ o.adds = {} /\ ~o.looked
  <2> DEFINE y == [opener[p] EXCEPT !.at = "upgrade", !.step = next, !.piece = 1]
  <2>1. {} \in SUBSET (Int \X Int) /\ FALSE \in BOOLEAN
    OBVIOUS
  <2>2. y \in OpenerTypes /\ y.at = "upgrade" /\ y.read = opener[p].read /\ y.step = next /\ y.piece = 1
    <3>1. opener[p] \in OpenerTypes /\ next \in Int /\ 1 \in Int
      BY <1>1, <1>3
    <3> QED
      BY ONLY <3>1 DEF OpenerTypes
  <2>3. o = [y EXCEPT !.looked = FALSE, !.adds = {}]
    OBVIOUS
  <2> HIDE DEF o, y
  <2> QED
    BY ONLY <2>1, <2>2, <2>3 DEF OpenerTypes
<1> HIDE DEF o
<1>5. has' = has \/ (has \subseteq has' /\ Unlocked(p) /\ Unread(p))
  <2>1. CASE opener[p].adds = {}
    BY <1>2, <2>1
  <2>2. CASE opener[p].adds # {}
    <3>1. Writes(p) /\ Unread(p)
      BY <1>1, <1>2, <2>2
    <3>2. Unlocked(p)
      BY <3>1 DEF Unlocked, OneWrites, SchemaInv
    <3> QED
      BY <1>2, <3>1, <3>2
  <2> QED
    BY <2>1, <2>2
<1>6. PiecesOf(opener[p].step) \subseteq has'
  <2> SUFFICES ASSUME NEW i \in 1..Pieces[opener[p].step] PROVE <<opener[p].step, i>> \in has'
    BY DEF PiecesOf
  <2>1. i \in Int /\ 1 <= i /\ i < opener[p].piece
    BY <1>0, <1>1 DEF Left
  <2> QED
    BY <1>1, <1>2, <2>1 DEF PiecesBehind
<1>7. StepsBehind(o, has')
  <2> SUFFICES ASSUME NEW k \in Steps, k <= o.read \/ k < next PROVE PiecesOf(k) \subseteq has'
    BY <1>4 DEF StepsBehind
  <2>1. k <= opener[p].read \/ k < opener[p].step \/ k = opener[p].step
    BY <1>1, <1>3, <1>4 DEF Steps
  <2>2. CASE k = opener[p].step
    BY <1>6, <2>2
  <2>3. CASE k <= opener[p].read \/ k < opener[p].step
    BY <1>1, <1>2, <2>3 DEF StepsBehind
  <2> QED
    BY <2>1, <2>2, <2>3
<1>8. PiecesBehind(o, has')
  BY <1>4 DEF PiecesBehind
<1>9. OnItsWay(o, version', has')
  BY <1>1, <1>2, <1>3, <1>4, <1>7, <1>8 DEF OnItsWay, Ongoing, SeenIsStillSo
<1> QED
  BY <1>2, <1>4, <1>5, <1>9, OneOpenerMoves

(* The stamp comes last: every step is behind it.                           *)
LEMMA TheVersionIsStamped ==
    ASSUME SchemaInv, NEW p \in Openers, Stamps(p)
    PROVE  SchemaInv'
<1>1. /\ SCHEMA_VERSION \in Nat /\ version \in Int /\ opener[p] \in OpenerTypes /\ OnItsWay(opener[p], version, has)
      /\ opener[p].at = "upgrade" /\ opener[p].step > SCHEMA_VERSION /\ opener[p].step \in Int
      /\ version' = SCHEMA_VERSION /\ has' = has /\ opener' = [opener EXCEPT ![p] = [Closed EXCEPT !.at = "open"]]
  BY SchemaAssumption DEF SchemaInv, Stamps, OpenerTypes
<1>2. version <= SCHEMA_VERSION /\ StepsBehind(opener[p], has)
  BY <1>1 DEF OnItsWay, Ongoing
<1>3. \A k \in Steps : PiecesOf(k) \subseteq has'
  <2>1. \A k \in Steps : k < opener[p].step
    BY <1>1 DEF Steps
  <2> QED
    BY <1>1, <1>2, <2>1 DEF StepsBehind
<1> DEFINE o == [Closed EXCEPT !.at = "open"]
<1>4. o \in OpenerTypes /\ o.at = "open" /\ o.read = 0
  BY ClosedIsTyped
<1>5. opener' = [opener EXCEPT ![p] = o]
  BY <1>1
<1> HIDE DEF o
<1>6. OnItsWay(o, version', has')
  BY <1>1, <1>4 DEF OnItsWay, Ongoing
<1> QED
  BY <1>1, <1>2, <1>3, <1>4, <1>5, <1>6, OneOpenerMoves

LEMMA SchemaStays == SchemaInv /\ [SchemaNext]_schemaVars => SchemaInv'
<1> SUFFICES ASSUME SchemaInv, [SchemaNext]_schemaVars PROVE SchemaInv'
  OBVIOUS
<1>1. ASSUME NEW p \in Openers, GivesUp(p) PROVE SchemaInv'
  BY <1>1, AnUpgradeEnds DEF GivesUp
<1>2. ASSUME NEW p \in Openers, OpenerDies(p) PROVE SchemaInv'
  <2>1. [Closed EXCEPT !.at = "closed"] = Closed
    BY DEF Closed
  <2> QED
    BY <1>2, <2>1, AnUpgradeEnds DEF OpenerDies
<1>3. CASE UNCHANGED schemaVars
  BY <1>3 DEF schemaVars, SchemaInv, OneWrites, Writes
<1> QED
  BY <1>1, <1>2, <1>3, AnUpgradeBegins, PiecesAreAdded, StepsAreCommitted, TheVersionIsStamped DEF SchemaNext

LEMMA VersionsAreTrue == SchemaInv => VersionTellsTheTruth
<1> SUFFICES ASSUME SchemaInv PROVE VersionTellsTheTruth
  OBVIOUS
<1>1. SCHEMA_VERSION \in Nat /\ version \in Int
  BY SchemaAssumption DEF SchemaInv
<1>2. ASSUME NEW p \in Openers
      PROVE  /\ opener[p].at = "open" => version = SCHEMA_VERSION
             /\ opener[p].at = "refused" => version > SCHEMA_VERSION
             /\ version > SCHEMA_VERSION => opener[p].at \in {"closed", "refused", "failed"}
             /\ opener[p].at # "duplicate"
  <2>1. OnItsWay(opener[p], version, has) /\ opener[p] \in OpenerTypes
    BY DEF SchemaInv
  <2>2. version > SCHEMA_VERSION => ~ (version <= SCHEMA_VERSION)
    BY <1>1
  <2> QED
    BY <2>1, <2>2 DEF OnItsWay, OpenerTypes, Ongoing
<1> QED
  BY <1>2 DEF VersionTellsTheTruth, SchemaInv

-----------------------------------------------------------------------------
(* The directory of the old name. *)

(* What a start has still to look at is in the old directory, and a         *)
(* directory that had been used is left alone from the first start on.      *)
LegacyInv ==
    /\ data \in [Entries -> {"old", "own", "none"}] /\ pass \subseteq legacy
    /\ legacy \subseteq before.legacy /\ before.legacy \subseteq Entries
    /\ before.data[Index] = "own" \/ before.data[Config] = "own" => pass = {}
    /\ NothingOldIsLost

LEMMA LegacyStarts == LegacyInit => LegacyInv
BY LegacyAssumption DEF LegacyInit, LegacyInv, NothingOldIsLost

LEMMA LegacyStays == LegacyInv /\ [LegacyNext]_legacyVars => LegacyInv'
<1> SUFFICES ASSUME LegacyInv, [LegacyNext]_legacyVars PROVE LegacyInv'
  OBVIOUS
<1>1. CASE AppStarts
  <2>1. /\ UNCHANGED <<legacy, data, before>>
        /\ pass' = IF legacy # {} /\ ~used THEN legacy ELSE {}
    BY <1>1 DEF AppStarts
  <2>2. pass' \subseteq legacy
    BY <2>1
  <2>3. before.data[Index] = "own" \/ before.data[Config] = "own" => pass' = {}
    BY <2>1, LegacyAssumption DEF LegacyInv, NothingOldIsLost, used
  <2> QED
    BY <2>1, <2>2, <2>3 DEF LegacyInv, NothingOldIsLost
<1>2. ASSUME NEW e \in Entries, LeaveEntry(e) \/ MoveFails(e)
      PROVE  LegacyInv'
  BY <1>2 DEF LeaveEntry, MoveFails, LegacyInv, NothingOldIsLost
<1>3. ASSUME NEW e \in Entries, MoveEntry(e)
      PROVE  LegacyInv'
  <2>1. /\ e \in pass /\ data[e] = "none" /\ pass' = pass \ {e} /\ legacy' = legacy \ {e}
        /\ data' = [data EXCEPT ![e] = "old"] /\ before' = before
    BY <1>3 DEF MoveEntry, taken
  <2>2. /\ data' \in [Entries -> {"old", "own", "none"}] /\ data'[e] = "old"
        /\ \A f \in Entries : f # e => data'[f] = data[f]
    BY <2>1 DEF LegacyInv
  <2>3. ~ (before.data[Index] = "own" \/ before.data[Config] = "own")
    BY <2>1 DEF LegacyInv
  <2>4. NothingOldIsLost'
    BY <2>1, <2>2, <2>3 DEF LegacyInv, NothingOldIsLost
  <2> QED
    BY <2>1, <2>2, <2>4 DEF LegacyInv
<1>4. CASE UNCHANGED legacyVars
  BY <1>4 DEF legacyVars, LegacyInv, NothingOldIsLost
<1> QED
  BY <1>1, <1>2, <1>3, <1>4 DEF LegacyNext

-----------------------------------------------------------------------------
(* --- config.toml, its panels and the hand ------------------------------- *)
Edits == SettingsEdits \cup EncoderEdits
Writing == {"write", "rename"}
Locking == Writing \cup {"read", "back"}
CallPlaces == Locking \cup {"idle", "prepare", "lock", "commit"}

Kinds == {"none", "settings", "encoder"}
CallTypes == [at : CallPlaces, kind : Kinds, edits : Edits \cup {<<>>}, doc : Texts]
SettingsTyped ==
    /\ file \in Texts /\ call \in [Calls -> CallTypes] /\ written \in [Keys -> Values \cup {ByHand}]
    /\ stale \in BOOLEAN /\ hands \in Nat
    /\ \A c \in Calls : call[c].at # "idle" => call[c].edits \in Edits

(* Who reads, writes or reads back holds the lock; a directory that is to   *)
(* be written has been made; and a document about to be written is the file *)
(* with the call's edits, but for what the user saved meanwhile.            *)
LockIsTheWriters == \A c \in Calls : call[c].at \in Locking => writeLock = c
DirectoryIsMade ==
    \A c \in Calls : /\ call[c].at \notin {"idle", "prepare"} /\ "clips_dir" \in DOMAIN call[c].edits
                         => call[c].edits["clips_dir"] \in dirs
DocumentIsEdited ==
    \A c \in Calls : call[c].at \in Writing =>
        LET doc == call[c].doc
            sent == call[c].edits
            text == text_or_example(file)
        IN  /\ doc.exists /\ doc.layout = CURRENT
            /\ \A k \in Keys : IF k \in DOMAIN sent THEN doc.v[k] = sent[k]
                               ELSE written[k] # ByHand => doc.v[k] = written[k]
            /\ ~ stale => /\ schema_check(text)
                          /\ \A k \in Keys \ DOMAIN sent : doc.v[k] = text.v[k]

(* What was stored is in a file that exists.                                *)
StoredIsInTheFile == \A k \in Keys : written[k] # ByHand => file.exists /\ file.v[k] = written[k]
StoredIsMade == written["clips_dir"] # ByHand => written["clips_dir"] \in dirs

SettingsInv ==
    /\ SettingsTyped /\ LockIsTheWriters /\ DirectoryIsMade /\ DocumentIsEdited
    /\ StoredIsInTheFile /\ StoredIsMade

LEMMA TextsAreText ==
    /\ Example \in Texts /\ Example.exists
    /\ \A f \in Texts : text_or_example(f) \in Texts /\ text_or_example(f).exists
    /\ NoCommand \in CallTypes
<1>1. [k \in Keys |-> IF k = "zero_copy" THEN "absent" ELSE "example"] \in [Keys -> Values]
  BY DEF Values
<1>2. Example \in Texts /\ Example.exists
  BY <1>1 DEF Example, Texts, CURRENT
<1>3. ASSUME NEW f \in Texts
      PROVE  text_or_example(f) \in Texts /\ text_or_example(f).exists
  BY <1>2, <1>3 DEF text_or_example
<1>4. NoCommand \in CallTypes
  BY <1>2 DEF NoCommand, CallTypes, CallPlaces, Kinds
<1> QED
  BY <1>2, <1>3, <1>4

LEMMA EditsAreSent ==
    \A e \in Edits : DOMAIN e \subseteq Keys /\ \A k \in DOMAIN e : e[k] \in Values
BY SettingsAssumption DEF Edits, Keys

LEMMA ADocumentIsAText ==
    ASSUME NEW t \in Texts, NEW e \in Edits
    PROVE  /\ edited(t, e) \in Texts /\ edited(t, e).exists = t.exists /\ edited(t, e).layout = CURRENT
           /\ \A k \in Keys : edited(t, e).v[k] = IF k \in DOMAIN e THEN e[k] ELSE t.v[k]
<1> DEFINE v == [k \in Keys |-> IF k \in DOMAIN e THEN e[k] ELSE t.v[k]]
<1>1. v \in [Keys -> Values]
  BY EditsAreSent DEF Texts
<1>0. t = [exists |-> t.exists, layout |-> t.layout, inlined |-> t.inlined, v |-> t.v]
  BY DEF Texts
<1>3. migrate_to_current(t) = [exists |-> t.exists, layout |-> CURRENT, inlined |-> t.inlined, v |-> t.v]
  BY <1>0 DEF migrate_to_current
<1>2. edited(t, e) = [exists |-> t.exists, layout |-> CURRENT, inlined |-> t.inlined, v |-> v]
  BY <1>3 DEF edited
<1> QED
  BY <1>1, <1>2 DEF Texts, CURRENT

LEMMA ACallMoves ==
    ASSUME SettingsTyped, NEW c \in Calls, NEW at \in CallPlaces \ {"idle"}, CallGoes(c, at), call[c].at # "idle"
    PROVE  /\ call' \in [Calls -> CallTypes] /\ call'[c].at = at
           /\ call'[c].edits = call[c].edits /\ call'[c].doc = call[c].doc /\ call[c].edits \in Edits
           /\ \A d \in Calls : d # c => call'[d] = call[d]
BY DEF SettingsTyped, CallGoes, CallTypes

LEMMA ACallEnds ==
    ASSUME SettingsTyped, NEW c \in Calls, CallEnds(c)
    PROVE  /\ call' \in [Calls -> CallTypes] /\ call'[c].at = "idle"
           /\ \A d \in Calls : d # c => call'[d] = call[d]
BY TextsAreText DEF SettingsTyped, CallEnds, NoCommand

(* A call that ends or that moves outside the writing, with the lock given  *)
(* up by whoever holds it or left alone, keeps what is said of calls.       *)
LEMMA OneCallMoves ==
    ASSUME SettingsInv, NEW c \in Calls, UNCHANGED <<file, written, stale, hands>>,
           call' \in [Calls -> CallTypes], \A d \in Calls : d # c => call'[d] = call[d],
           call'[c].at # "idle" => call'[c].edits \in Edits,
           call'[c].at \in Locking => writeLock' = c,
           \A d \in Calls : d # c /\ call[d].at \in Locking => writeLock' = writeLock,
           call'[c].at \in Writing =>
              call[c].at \in Writing /\ call'[c].edits = call[c].edits /\ call'[c].doc = call[c].doc,
           dirs \subseteq dirs',
           call'[c].at \notin {"idle", "prepare"} /\ "clips_dir" \in DOMAIN call'[c].edits =>
              call'[c].edits["clips_dir"] \in dirs'
    PROVE  SettingsInv'
<1> USE DEF SettingsInv
<1>1. SettingsTyped'
  BY DEF SettingsTyped
<1>2. LockIsTheWriters'
  BY DEF LockIsTheWriters
<1>3. DirectoryIsMade'
  BY DEF DirectoryIsMade
<1>4. DocumentIsEdited'
  BY DEF DocumentIsEdited
<1>5. StoredIsInTheFile' /\ StoredIsMade'
  BY DEF StoredIsInTheFile, StoredIsMade, SettingsTyped
<1> QED
  BY <1>1, <1>2, <1>3, <1>4, <1>5

LEMMA SettingsStart == SettingsInit => SettingsInv
<1> SUFFICES ASSUME SettingsInit PROVE SettingsInv
  OBVIOUS
<1>1. \A c \in Calls : call[c] = NoCommand
  BY DEF SettingsInit
<1>0. file \in Texts /\ call = [c \in Calls |-> NoCommand] /\ written = [k \in Keys |-> ByHand] /\ stale = FALSE /\ hands = 0
  BY SettingsAssumption DEF SettingsInit
<1>2. SettingsTyped
  BY <1>0, TextsAreText DEF SettingsTyped, NoCommand
<1>3. LockIsTheWriters /\ DirectoryIsMade /\ DocumentIsEdited
  BY <1>1 DEF NoCommand, LockIsTheWriters, DirectoryIsMade, DocumentIsEdited, Locking, Writing
<1>4. StoredIsInTheFile /\ StoredIsMade
  BY DEF SettingsInit, StoredIsInTheFile, StoredIsMade, Keys, SettingsKeys
<1> QED
  BY <1>2, <1>3, <1>4 DEF SettingsInv

LEMMA SettingsStays == SettingsInv /\ [SettingsNext]_settingsVars => SettingsInv'
<1> SUFFICES ASSUME SettingsInv, [SettingsNext]_settingsVars PROVE SettingsInv'
  OBVIOUS
<1>0. SettingsTyped
  BY DEF SettingsInv
<1> USE DEF CallPlaces, Locking, Writing
<1>1. ASSUME NEW c \in Calls, update_settings(c) \/ update_encoder_settings(c)
      PROVE  SettingsInv'
  <2>1. PICK e \in Edits, at \in {"prepare", "lock"}, kind \in Kinds :
            /\ Sends(c, kind, e, at)
            /\ at = "lock" => "clips_dir" \notin DOMAIN e
    <3>1. ASSUME NEW e \in SettingsEdits, Sends(c, "settings", e, IF "clips_dir" \in DOMAIN e THEN "prepare" ELSE "lock")
          PROVE  \E f \in Edits, at \in {"prepare", "lock"}, kind \in Kinds :
                    Sends(c, kind, f, at) /\ (at = "lock" => "clips_dir" \notin DOMAIN f)
      <4>1. e \in Edits /\ "settings" \in Kinds
        BY DEF Edits, Kinds
      <4> QED
        BY <3>1, <4>1
    <3>2. ASSUME NEW e \in EncoderEdits, Sends(c, "encoder", e, "lock")
          PROVE  \E f \in Edits, at \in {"prepare", "lock"}, kind \in Kinds :
                    Sends(c, kind, f, at) /\ (at = "lock" => "clips_dir" \notin DOMAIN f)
      <4>1. e \in Edits /\ "encoder" \in Kinds /\ "clips_dir" \notin DOMAIN e
        BY SettingsAssumption DEF Edits, Kinds, EncodeKeys
      <4> QED
        BY <3>2, <4>1
    <3> QED
      BY <1>1, <3>1, <3>2 DEF update_settings, update_encoder_settings
  <2>2. call' = [call EXCEPT ![c] = [at |-> at, kind |-> kind, edits |-> e, doc |-> Example]]
    BY <2>1 DEF Sends
  <2>3. /\ call' \in [Calls -> CallTypes] /\ call'[c].at = at /\ call'[c].edits = e
        /\ \A d \in Calls : d # c => call'[d] = call[d]
    BY <1>0, <2>1, <2>2, TextsAreText DEF SettingsTyped, CallTypes
  <2> QED
    BY <2>1, <2>3, OneCallMoves DEF Sends
<1>2. ASSUME NEW c \in Calls, prepare_clips_dir(c)
      PROVE  SettingsInv'
  <2>1. CASE CallEnds(c) /\ UNCHANGED dirs
    BY <1>0, <1>2, <2>1, ACallEnds, OneCallMoves DEF prepare_clips_dir
  <2>2. CASE CallGoes(c, "lock") /\ dirs' = dirs \cup {call[c].edits["clips_dir"]}
    BY <1>0, <1>2, <2>2, ACallMoves, OneCallMoves DEF prepare_clips_dir
  <2> QED
    BY <1>2, <2>1, <2>2 DEF prepare_clips_dir
<1>3. ASSUME NEW c \in Calls, settings_write_lock(c)
      PROVE  SettingsInv'
  <2>1. CASE CallEnds(c) /\ UNCHANGED writeLock
    BY <1>0, <1>3, <2>1, ACallEnds, OneCallMoves DEF settings_write_lock
  <2>2. CASE CallGoes(c, "read") /\ writeLock' = c
    <3>1. \A d \in Calls : call[d].at \notin Locking
      BY <1>3, SettingsAssumption DEF settings_write_lock, SettingsInv, LockIsTheWriters
    <3>2. "clips_dir" \in DOMAIN call[c].edits => call[c].edits["clips_dir"] \in dirs
      BY <1>3 DEF settings_write_lock, SettingsInv, DirectoryIsMade
    <3> QED
      BY <1>0, <1>3, <2>2, <3>1, <3>2, ACallMoves, OneCallMoves DEF settings_write_lock
  <2> QED
    BY <1>3, <2>1, <2>2 DEF settings_write_lock
<1>4. ASSUME NEW c \in Calls, BuildDocument(c)
      PROVE  SettingsInv'
  <2>0. /\ writeLock = c /\ call[c].edits \in Edits
        /\ \A d \in Calls : d # c => call[d].at \notin Locking
    BY <1>4 DEF BuildDocument, SettingsInv, LockIsTheWriters, SettingsTyped
  <2>1. CASE Refuse(c) /\ UNCHANGED stale
    BY <1>0, <1>4, <2>0, <2>1, ACallEnds, OneCallMoves DEF BuildDocument, Refuse
  <2>2. CASE ~ (Refuse(c) /\ UNCHANGED stale)
    <3> DEFINE t == text_or_example(file)
               e == call[c].edits
               doc == edited(t, e)
    <3>1. /\ schema_check(t) /\ stale' = FALSE /\ call[c].at = "read"
          /\ UNCHANGED <<file, dirs, written, hands, writeLock>>
          /\ call' = [call EXCEPT ![c].at = "write", ![c].doc = doc]
      BY <1>4, <2>2 DEF BuildDocument
    <3>2. t \in Texts /\ t.exists
      BY <1>0, TextsAreText DEF SettingsTyped
    <3>3. doc \in Texts /\ doc.exists /\ doc.layout = CURRENT
          /\ \A k \in Keys : doc.v[k] = IF k \in DOMAIN e THEN e[k] ELSE t.v[k]
      BY <2>0, <3>2, ADocumentIsAText
    <3> HIDE DEF doc
    <3>4. /\ call' \in [Calls -> CallTypes] /\ call'[c].at = "write" /\ call'[c].edits = e /\ call'[c].doc = doc
          /\ \A d \in Calls : d # c => call'[d] = call[d]
      <4>1. call \in [Calls -> CallTypes]
        BY <1>0 DEF SettingsTyped
      <4>2. PICK r \in CallTypes : call[c] = r
        BY <4>1
      <4>3. PICK place \in CallPlaces, kind \in Kinds, old \in Texts :
               r = [at |-> place, kind |-> kind, edits |-> e, doc |-> old]
        BY <4>2 DEF CallTypes
      <4>4. e \in Edits \cup {<<>>}
        BY <4>2 DEF CallTypes
      <4> DEFINE new == [at |-> "write", kind |-> kind, edits |-> e, doc |-> doc]
      <4>5. new \in CallTypes /\ new.at = "write" /\ new.edits = e /\ new.doc = doc
        BY <3>3, <4>4 DEF CallTypes, CallPlaces
      <4>6. [r EXCEPT !.at = "write", !.doc = doc] = new
        <5> HIDE DEF e, t
        <5>1. [r EXCEPT !.at = "write"] = [at |-> "write", kind |-> kind, edits |-> e, doc |-> old]
          BY <4>3
        <5>2. [r EXCEPT !.at = "write", !.doc = doc] = [[r EXCEPT !.at = "write"] EXCEPT !.doc = doc]
          OBVIOUS
        <5>3. [[at |-> "write", kind |-> kind, edits |-> e, doc |-> old] EXCEPT !.doc = doc] = new
          OBVIOUS
        <5> HIDE DEF new
        <5> QED
          BY <5>1, <5>2, <5>3
      <4>7. call' = [call EXCEPT ![c] = [r EXCEPT !.at = "write", !.doc = doc]]
        <5> HIDE DEF e, t
        <5> QED
          BY <3>1, <4>1, <4>2
      <4> HIDE DEF t, new
      <4> QED
        BY <4>1, <4>5, <4>6, <4>7
    <3>5. \A k \in Keys : written[k] # ByHand => t.v[k] = written[k]
      BY DEF SettingsInv, StoredIsInTheFile, text_or_example
    <3>6. SettingsTyped'
      BY <1>0, <2>0, <3>1, <3>4 DEF SettingsTyped
    <3>7. LockIsTheWriters' /\ DirectoryIsMade'
      BY <2>0, <3>1, <3>4 DEF SettingsInv, LockIsTheWriters, DirectoryIsMade
    <3>8. DocumentIsEdited'
      BY <2>0, <3>1, <3>3, <3>4, <3>5 DEF DocumentIsEdited
    <3>9. StoredIsInTheFile' /\ StoredIsMade'
      BY <3>1 DEF SettingsInv, StoredIsInTheFile, StoredIsMade
    <3> QED
      BY <3>6, <3>7, <3>8, <3>9 DEF SettingsInv
  <2> QED
    BY <1>4, <2>1, <2>2 DEF BuildDocument
<1>5. ASSUME NEW c \in Calls, CreateTemporary(c)
      PROVE  SettingsInv'
  <2>1. writeLock = c /\ ("clips_dir" \in DOMAIN call[c].edits => call[c].edits["clips_dir"] \in dirs)
    BY <1>5 DEF CreateTemporary, SettingsInv, LockIsTheWriters, DirectoryIsMade
  <2> QED
    BY <1>0, <1>5, <2>1, ACallMoves, OneCallMoves DEF CreateTemporary
<1>6. ASSUME NEW c \in Calls, could_not_write(c)
      PROVE  SettingsInv'
  <2>1. \A d \in Calls : d # c => call[d].at \notin Locking
    BY <1>6 DEF could_not_write, SettingsInv, LockIsTheWriters
  <2> QED
    BY <1>0, <1>6, <2>1, ACallEnds, OneCallMoves DEF could_not_write, Refuse
<1>7. ASSUME NEW c \in Calls, Rename(c)
      PROVE  SettingsInv'
  <2> DEFINE e == call[c].edits
             doc == call[c].doc
  <2>1. /\ call[c].at = "rename" /\ file' = doc /\ CallGoes(c, "back")
        /\ written' = [k \in Keys |-> IF k \in DOMAIN e THEN e[k] ELSE written[k]]
        /\ UNCHANGED <<writeLock, dirs, stale, hands>>
    BY <1>7 DEF Rename
  <2>2. /\ call' \in [Calls -> CallTypes] /\ call'[c].at = "back" /\ call'[c].edits = e /\ e \in Edits
        /\ \A d \in Calls : d # c => call'[d] = call[d]
    BY <1>0, <2>1, ACallMoves
  <2>3. /\ writeLock = c /\ \A d \in Calls : d # c => call[d].at \notin Locking
    BY <2>1 DEF SettingsInv, LockIsTheWriters
  <2>4. /\ doc.exists
        /\ \A k \in Keys : IF k \in DOMAIN e THEN doc.v[k] = e[k] ELSE written[k] # ByHand => doc.v[k] = written[k]
    BY <2>1 DEF SettingsInv, DocumentIsEdited
  <2>5. "clips_dir" \in DOMAIN e => e["clips_dir"] \in dirs
    BY <2>1 DEF SettingsInv, DirectoryIsMade
  <2>6. SettingsTyped'
    <3>1. doc \in Texts
      BY <1>0 DEF SettingsTyped, CallTypes
    <3>2. written' \in [Keys -> Values \cup {ByHand}]
      BY <1>0, <2>1, <2>2, EditsAreSent DEF SettingsTyped
    <3> QED
      BY <1>0, <2>1, <2>2, <3>1, <3>2 DEF SettingsTyped
  <2>7. LockIsTheWriters' /\ DirectoryIsMade' /\ DocumentIsEdited'
    BY <2>1, <2>2, <2>3, <2>5 DEF SettingsInv, LockIsTheWriters, DirectoryIsMade, DocumentIsEdited
  <2>8. StoredIsInTheFile'
    BY <2>1, <2>4 DEF StoredIsInTheFile
  <2>9. StoredIsMade'
    <3>1. "clips_dir" \in Keys
      BY DEF Keys, SettingsKeys
    <3> QED
      BY <2>1, <2>5, <3>1 DEF SettingsInv, StoredIsMade
  <2> QED
    BY <2>6, <2>7, <2>8, <2>9 DEF SettingsInv
<1>8. ASSUME NEW c \in Calls, ReadBack(c)
      PROVE  SettingsInv'
  <2>1. \A d \in Calls : d # c => call[d].at \notin Locking
    BY <1>8 DEF ReadBack, SettingsInv, LockIsTheWriters
  <2>2. "clips_dir" \in DOMAIN call[c].edits => call[c].edits["clips_dir"] \in dirs
    BY <1>8 DEF ReadBack, SettingsInv, DirectoryIsMade
  <2>3. CASE CallGoes(c, "commit")
    BY <1>0, <1>8, <2>1, <2>2, <2>3, ACallMoves, OneCallMoves DEF ReadBack
  <2>4. CASE CallEnds(c)
    BY <1>0, <1>8, <2>1, <2>4, ACallEnds, OneCallMoves DEF ReadBack
  <2> QED
    BY <1>8, <2>3, <2>4 DEF ReadBack
<1>9. ASSUME NEW c \in Calls, commit_clips_dir(c)
      PROVE  SettingsInv'
  BY <1>0, <1>9, ACallEnds, OneCallMoves DEF commit_clips_dir
<1>10. CASE HandSave
  <2>1. PICK h \in HandEdits :
            /\ file' = [text_or_example(file) EXCEPT !.v[h[1]] = h[2]]
            /\ written' = [written EXCEPT ![h[1]] = ByHand]
    BY <1>10 DEF HandSave
  <2>2. /\ h[1] \in Keys /\ h[2] \in Values
        /\ stale' = TRUE /\ hands' = hands + 1 /\ UNCHANGED <<writeLock, call, dirs>>
    BY <1>10, SettingsAssumption DEF HandSave
  <2> DEFINE t == text_or_example(file)
  <2>3. t \in Texts /\ t.exists /\ \A k \in Keys : written[k] # ByHand => t.v[k] = written[k]
    BY <1>0, TextsAreText DEF SettingsTyped, SettingsInv, StoredIsInTheFile, text_or_example
  <2> HIDE DEF t
  <2>4. file' \in Texts /\ file'.exists /\ \A k \in Keys : k # h[1] => file'.v[k] = t.v[k]
    BY <2>1, <2>2, <2>3 DEF Texts, t
  <2>5. written' \in [Keys -> Values \cup {ByHand}] /\ written'[h[1]] = ByHand /\ \A k \in Keys : k # h[1] => written'[k] = written[k]
    BY <1>0, <2>1, <2>2 DEF SettingsTyped
  <2>6. SettingsTyped'
    BY <1>0, <2>2, <2>4, <2>5 DEF SettingsTyped
  <2>7. LockIsTheWriters' /\ DirectoryIsMade'
    BY <2>2 DEF SettingsInv, LockIsTheWriters, DirectoryIsMade
  <2>8. DocumentIsEdited'
    BY <2>2, <2>5 DEF SettingsInv, DocumentIsEdited
  <2>9. StoredIsInTheFile'
    BY <2>3, <2>4, <2>5 DEF StoredIsInTheFile
  <2>10. StoredIsMade'
    <3>1. "clips_dir" \in Keys
      BY DEF Keys, SettingsKeys
    <3> QED
      BY <2>2, <2>5, <3>1 DEF SettingsInv, StoredIsMade
  <2> QED
    BY <2>6, <2>7, <2>8, <2>9, <2>10 DEF SettingsInv
<1>11. CASE Relaunch
  <2>1. \A c \in Calls : call'[c] = NoCommand
    BY <1>11 DEF Relaunch
  <2>2. SettingsTyped'
    BY <1>0, <1>11, <2>1, TextsAreText DEF Relaunch, SettingsTyped, NoCommand
  <2>3. LockIsTheWriters' /\ DirectoryIsMade' /\ DocumentIsEdited'
    BY <2>1 DEF NoCommand, LockIsTheWriters, DirectoryIsMade, DocumentIsEdited
  <2>4. StoredIsInTheFile' /\ StoredIsMade'
    BY <1>11 DEF Relaunch, SettingsInv, StoredIsInTheFile, StoredIsMade
  <2> QED
    BY <2>2, <2>3, <2>4 DEF SettingsInv
<1>12. CASE UNCHANGED settingsVars
  BY <1>12 DEF settingsVars, SettingsInv, SettingsTyped, LockIsTheWriters, DirectoryIsMade, DocumentIsEdited,
     StoredIsInTheFile, StoredIsMade
<1> QED
  BY <1>1, <1>2, <1>3, <1>4, <1>5, <1>6, <1>7, <1>8, <1>9, <1>10, <1>11, <1>12 DEF SettingsNext

(* What the readers take: whatever a start works with, both panels show.    *)
LEMMA APanelShowsWhatStarts == PanelsShowWhatStarts
<1> DEFINE t == text_or_example(file)
<1> SUFFICES ASSUME StartWorks(file), t.v["watch"] # "inline"
             PROVE  read_effective_settings(file) /\ read_encoder_settings(file)
  BY DEF PanelsShowWhatStarts
<1>1. /\ recording_loads(file) /\ storage_loads(file) /\ engine_options_load(file)
      /\ t.v["output_size"] # "refused"
  BY DEF StartWorks, recording_loads
<1>2. /\ schema_check(t) /\ t.v["clips_dir"] # "mistyped" /\ t.v["fps"] # "mistyped"
      /\ t.v["output_size"] # "mistyped" /\ t.v["zero_copy"] # "mistyped"
      /\ t.v["mic"] # "mistyped" /\ t.v["watch"] # "mistyped"
  BY <1>1 DEF storage_loads, recording_loads, engine_options_load
<1>3. t.layout # TornText
  BY <1>2 DEF schema_check, Unstamped, CURRENT, TornText
<1>4. typed(t, SettingsKeys) /\ typed(t, EncodeKeys)
  BY <1>2 DEF typed, SettingsKeys, EncodeKeys
<1> QED
  BY <1>1, <1>2, <1>3, <1>4 DEF read_effective_settings, read_encoder_settings, validate_output_size, read_watch_titles

LEMMA PanelsAreTrue == SettingsInv => PanelsTellTheTruth
<1> SUFFICES ASSUME SettingsInv PROVE EditsStay
  BY APanelShowsWhatStarts DEF PanelsTellTheTruth
<1> QED
  BY DEF EditsStay, SettingsInv, StoredIsInTheFile, StoredIsMade

LEMMA AWriteKeepsTheRest ==
    ASSUME SettingsInv, SettingsNext
    PROVE  \/ file' = file \/ hands' # hands
           \/ \E c \in Calls :
                 LET sent == call[c].edits
                     text == text_or_example(file)
                 IN  /\ call[c].at = "rename" /\ file'.layout = CURRENT
                     /\ ~stale => /\ schema_check(text)
                                  /\ \A k \in Keys \ DOMAIN sent : file'.v[k] = text.v[k]
<1>1. CASE HandSave
  BY <1>1 DEF HandSave, SettingsInv, SettingsTyped
<1>2. ASSUME NEW c \in Calls, Rename(c)
      PROVE  LET sent == call[c].edits
                 text == text_or_example(file)
             IN  /\ call[c].at = "rename" /\ file'.layout = CURRENT
                 /\ ~stale => /\ schema_check(text)
                              /\ \A k \in Keys \ DOMAIN sent : file'.v[k] = text.v[k]
  BY <1>2 DEF Rename, SettingsInv, DocumentIsEdited, Writing
<1>3. CASE Relaunch
  BY <1>3 DEF Relaunch
<1>4. ASSUME NEW c \in Calls,
             \/ update_settings(c) \/ update_encoder_settings(c) \/ prepare_clips_dir(c)
             \/ settings_write_lock(c) \/ BuildDocument(c) \/ CreateTemporary(c)
             \/ could_not_write(c) \/ ReadBack(c) \/ commit_clips_dir(c)
      PROVE  file' = file
  BY <1>4 DEF update_settings, update_encoder_settings, Sends, prepare_clips_dir, settings_write_lock,
     BuildDocument, CreateTemporary, could_not_write, ReadBack, commit_clips_dir
<1> QED
  BY <1>1, <1>2, <1>3, <1>4 DEF SettingsNext

-----------------------------------------------------------------------------
(* --- two launches of the shell ------------------------------------------ *)
Early == {"off", "log", "state", "check", "gone"}
Wired == {"hotkey", "autostart", "tray", "threads", "shell", "relock"}
Stages == [at : Early \cup Wired, log : {"none", "shared", "own"}, handle : Int, locked : BOOLEAN,
           config : BOOLEAN, hotkey : {"pending", "installed", "refused"}, hides : BOOLEAN]
Syncs == [at : {"query", "act", "done"}, read : {"none", "unread", "wanted", "moved", "foreign"},
          said : {"nothing", "enabled", "removed", "unchanged", "error"}]
LaunchTyped ==
    /\ launch \in [Launches -> Stages] /\ window \in [Launches -> {"none", "shown", "hidden"}]
    /\ sharedLog \in [file : Nat, lock : Launches \cup {NoProcess}, full : BOOLEAN] /\ slipped \in BOOLEAN
    /\ instance \in Launches \cup {NoProcess} /\ sync \in Syncs
    /\ entry \in {"none", "wanted", "moved", "foreign"} /\ enabled \in BOOLEAN

(* A process past the check is the one that stays, and the one that stays   *)
(* is past it; no other has anything to show, and whoever hides the window  *)
(* has a tray.                                                              *)
ScreenOf(p, l, w, ch, icons, stays) ==
    /\ l.at \in Wired <=> stays = p
    /\ stays # p => ch # p /\ w = "none" /\ p \notin icons /\ l.hotkey = "pending" /\ ~l.hides
    /\ stays = p => w # "none"
    /\ l.hotkey = "installed" => ch = p
    /\ l.hides \/ l.at = "threads" \/ w = "hidden" => p \in icons
ScreenInv == \A p \in Launches : ScreenOf(p, launch[p], window[p], chord, tray, instance)

(* Until it acts, a sync has said nothing and the entry is what it read.    *)
SyncInv ==
    /\ sync.at \in {"query", "act"} => sync.said = "nothing"
    /\ sync.at = "query" => sync.read = "none"
    /\ sync.at = "act" => sync.read \in {"unread", entry} /\ (sync.read = "unread" => ~enabled)
    /\ AutostartIsAsTold

(* Unless the log slipped, who writes the shared file has locked it, or     *)
(* rotated it and locks it next.                                            *)
LogOfOne(p, l, shared, slid) ==
    /\ l.handle <= shared.file
    /\ l.at = "off" \/ l.at = "log" => l.log = "none"
    /\ ~slid /\ l.log = "shared" => l.locked
    /\ ~slid /\ l.log = "shared" /\ l.handle = shared.file /\ l.at # "relock" => shared.lock = p
    /\ l.at = "relock" => l.log = "shared" /\ l.handle = shared.file /\ ~shared.full
    /\ ~slid /\ l.at = "relock" => shared.lock = NoProcess
LogInv == \A p \in Launches : LogOfOne(p, launch[p], sharedLog, slipped)

LaunchInv == LaunchTyped /\ ScreenInv /\ SyncInv /\ LogInv

LEMMA LaunchStarts == LaunchInit => LaunchInv
<1> SUFFICES ASSUME LaunchInit PROVE LaunchInv
  OBVIOUS
<1>0. /\ \A p \in Launches : launch[p] = NotLaunched /\ window[p] = "none"
      /\ tray = {} /\ instance = NoProcess /\ slipped = FALSE /\ sharedLog.file = 1
      /\ chord \in {"free", "other"} /\ NoProcess \notin Launches /\ chord \notin Launches
  BY LaunchAssumption DEF LaunchInit, NoProcess
<1>1. NotLaunched \in Stages /\ NotSynced \in Syncs
  BY DEF NotLaunched, NotSynced, Stages, Syncs, Early, Wired
<1>2. sharedLog \in [file : Nat, lock : Launches \cup {NoProcess}, full : BOOLEAN]
  BY DEF LaunchInit
<1>3. LaunchTyped
  BY <1>0, <1>1, <1>2 DEF LaunchInit, LaunchTyped
<1>4. ScreenInv
  BY <1>0 DEF ScreenInv, ScreenOf, NotLaunched, Early, Wired
<1>5. SyncInv
  BY DEF LaunchInit, SyncInv, NotSynced, AutostartIsAsTold
<1>6. LogInv
  BY <1>0 DEF LogInv, LogOfOne, NotLaunched
<1> QED
  BY <1>3, <1>4, <1>5, <1>6 DEF LaunchInv

-----------------------------------------------------------------------------
(* What each step does to the stage of its process.                         *)
OnlyLaunches(p, l) ==
    /\ l \in Stages /\ launch' \in [Launches -> Stages] /\ launch'[p] = l
    /\ \A q \in Launches : q # p => launch'[q] = launch[q]

LEMMA AStageIsSet ==
    ASSUME launch \in [Launches -> Stages], NEW p \in Launches, NEW l \in Stages, launch' = [launch EXCEPT ![p] = l]
    PROVE  OnlyLaunches(p, l)
BY DEF OnlyLaunches

LEMMA AProcessGoes ==
    ASSUME launch \in [Launches -> Stages], NEW p \in Launches, NEW at \in Early \cup Wired, GoesTo(p, at)
    PROVE  /\ OnlyLaunches(p, launch'[p]) /\ launch'[p].at = at
           /\ launch'[p].log = launch[p].log /\ launch'[p].handle = launch[p].handle
           /\ launch'[p].locked = launch[p].locked /\ launch'[p].hotkey = launch[p].hotkey
           /\ launch'[p].hides = launch[p].hides /\ launch'[p].config = launch[p].config
<1>1. launch[p] \in Stages
  OBVIOUS
<1> DEFINE l == [launch[p] EXCEPT !.at = at]
<1>2. /\ l \in Stages /\ l.at = at /\ l.log = launch[p].log /\ l.handle = launch[p].handle
      /\ l.locked = launch[p].locked /\ l.hotkey = launch[p].hotkey /\ l.hides = launch[p].hides
      /\ l.config = launch[p].config
  BY <1>1 DEF Stages
<1>3. launch' = [launch EXCEPT ![p] = l]
  BY DEF GoesTo
<1> HIDE DEF l
<1> QED
  BY <1>2, <1>3 DEF OnlyLaunches

LEMMA AProcessIsGone ==
    ASSUME launch \in [Launches -> Stages], NEW p \in Launches,
           launch' = [launch EXCEPT ![p] = [NotLaunched EXCEPT !.at = "gone"]]
    PROVE  /\ OnlyLaunches(p, launch'[p]) /\ launch'[p].at = "gone" /\ launch'[p].log = "none"
           /\ launch'[p].handle = 0 /\ launch'[p].hotkey = "pending" /\ ~launch'[p].hides
<1> DEFINE l == [NotLaunched EXCEPT !.at = "gone"]
<1>1. NotLaunched \in Stages /\ "gone" \in Early \cup Wired
  BY DEF NotLaunched, Stages, Early, Wired
<1>2. NotLaunched.log = "none" /\ NotLaunched.handle = 0 /\ NotLaunched.hotkey = "pending" /\ ~NotLaunched.hides
  BY DEF NotLaunched
<1>3. /\ l \in Stages /\ l.at = "gone" /\ l.log = NotLaunched.log /\ l.handle = NotLaunched.handle
      /\ l.hotkey = NotLaunched.hotkey /\ l.hides = NotLaunched.hides
  BY <1>1 DEF Stages
<1>4. launch' = [launch EXCEPT ![p] = l]
  OBVIOUS
<1> HIDE DEF l
<1> QED
  BY <1>2, <1>3, <1>4 DEF OnlyLaunches

(* One process's stage and screen, with the others' as they were.           *)
LEMMA OneScreenMoves ==
    ASSUME ScreenInv, NEW p \in Launches, OnlyLaunches(p, launch'[p]),
           \A q \in Launches : q # p => /\ window'[q] = window[q] /\ (chord' = q <=> chord = q)
                                        /\ (q \in tray' <=> q \in tray) /\ (instance' = q <=> instance = q),
           ScreenOf(p, launch'[p], window'[p], chord', tray', instance')
    PROVE  ScreenInv'
<1>1. ASSUME NEW q \in Launches, q # p
      PROVE  ScreenOf(q, launch'[q], window'[q], chord', tray', instance')
  <2>1. launch'[q] = launch[q] /\ ScreenOf(q, launch[q], window[q], chord, tray, instance)
    BY <1>1 DEF OnlyLaunches, ScreenInv
  <2> QED
    BY <1>1, <2>1 DEF ScreenOf
<1> QED
  BY <1>1 DEF ScreenInv

LEMMA OneLogMoves ==
    ASSUME LogInv, NEW p \in Launches, OnlyLaunches(p, launch'[p]), UNCHANGED logVars,
           LogOfOne(p, launch'[p], sharedLog, slipped)
    PROVE  LogInv'
BY DEF LogInv, OnlyLaunches, logVars

(* A step that leaves the log as it is, of a process that is not relocking. *)
LEMMA TheLogIsLeft ==
    ASSUME LogInv, NEW p \in Launches, OnlyLaunches(p, launch'[p]), UNCHANGED logVars,
           launch[p].at # "relock", launch'[p].at \notin {"relock", "off"},
           launch'[p].at = "log" => launch[p].at = "off",
           launch'[p].log = launch[p].log, launch'[p].handle = launch[p].handle,
           launch'[p].locked = launch[p].locked
    PROVE  LogInv'
<1>1. LogOfOne(p, launch[p], sharedLog, slipped)
  BY DEF LogInv
<1>2. LogOfOne(p, launch'[p], sharedLog, slipped)
  BY <1>1 DEF LogOfOne
<1> QED
  BY <1>2, OneLogMoves

(* What a process that ends leaves: its lock and all it showed go.          *)
LEMMA AnEndLeavesNothing ==
    ASSUME LaunchInv, NEW p \in Launches, launch[p].at # "off",
           launch' = [launch EXCEPT ![p] = [NotLaunched EXCEPT !.at = "gone"]],
           sharedLog' = IF sharedLog.lock = p THEN [sharedLog EXCEPT !.lock = NoProcess] ELSE sharedLog,
           slipped' = slipped
    PROVE  /\ sharedLog' \in [file : Nat, lock : Launches \cup {NoProcess}, full : BOOLEAN]
           /\ LogInv'
<1>1. /\ OnlyLaunches(p, launch'[p]) /\ launch'[p].at = "gone" /\ launch'[p].log = "none" /\ launch'[p].handle = 0
  BY AProcessIsGone DEF LaunchInv, LaunchTyped
<1>2. /\ sharedLog' \in [file : Nat, lock : Launches \cup {NoProcess}, full : BOOLEAN]
      /\ sharedLog'.file = sharedLog.file /\ sharedLog'.full = sharedLog.full
      /\ sharedLog.lock # p => sharedLog'.lock = sharedLog.lock
      /\ sharedLog.lock = p => sharedLog'.lock = NoProcess
      /\ NoProcess \notin Launches
  BY LaunchAssumption DEF LaunchInv, LaunchTyped, NoProcess
<1>3. ASSUME NEW q \in Launches, q # p
      PROVE  LogOfOne(q, launch'[q], sharedLog', slipped')
  <2>1. launch'[q] = launch[q] /\ LogOfOne(q, launch[q], sharedLog, slipped) /\ sharedLog.lock = p => sharedLog.lock # NoProcess
    BY <1>1, <1>2, <1>3 DEF OnlyLaunches, LaunchInv, LogInv
  <2> QED
    BY <1>2, <1>3, <2>1 DEF LogOfOne, OnlyLaunches, LaunchInv, LogInv
<1>4. 0 <= sharedLog.file
  BY DEF LaunchInv, LaunchTyped
<1> QED
  BY <1>1, <1>2, <1>3, <1>4 DEF LogInv, LogOfOne

LEMMA TheAutostartIsLeft ==
    ASSUME SyncInv, UNCHANGED autostartVars PROVE SyncInv'
BY DEF SyncInv, AutostartIsAsTold, autostartVars

(* A step that says where its process is, and no more.                      *)
LEMMA AStageMoves ==
    ASSUME LaunchInv, NEW p \in Launches, OnlyLaunches(p, launch'[p]),
           UNCHANGED <<logVars, screenVars, autostartVars>>,
           launch[p].at # "relock", launch'[p].at \notin {"relock", "off"},
           launch'[p].at = "log" => launch[p].at = "off",
           launch'[p].log = launch[p].log, launch'[p].handle = launch[p].handle,
           launch'[p].locked = launch[p].locked,
           ScreenOf(p, launch'[p], window[p], chord, tray, instance)
    PROVE  LaunchInv'
<1>1. LaunchTyped'
  BY DEF LaunchInv, LaunchTyped, OnlyLaunches, logVars, screenVars, autostartVars
<1>2. ScreenInv'
  <2>1. ScreenOf(p, launch'[p], window'[p], chord', tray', instance')
    BY DEF screenVars
  <2>2. \A q \in Launches : q # p => /\ window'[q] = window[q] /\ (chord' = q <=> chord = q)
                                     /\ (q \in tray' <=> q \in tray) /\ (instance' = q <=> instance = q)
    BY DEF screenVars
  <2> QED
    BY <2>1, <2>2, OneScreenMoves DEF LaunchInv
<1>3. SyncInv'
  BY TheAutostartIsLeft DEF LaunchInv
<1>4. LogInv'
  BY TheLogIsLeft DEF LaunchInv, logVars
<1> QED
  BY <1>1, <1>2, <1>3, <1>4 DEF LaunchInv

(* What holds of the process that moves.                                    *)
LEMMA AProcessIsTyped ==
    ASSUME LaunchInv, NEW p \in Launches
    PROVE  /\ launch \in [Launches -> Stages] /\ launch[p] \in Stages
           /\ ScreenOf(p, launch[p], window[p], chord, tray, instance)
           /\ LogOfOne(p, launch[p], sharedLog, slipped)
           /\ NoProcess \notin Launches /\ "free" \notin Launches /\ "other" \notin Launches
<1>1. launch \in [Launches -> Stages] /\ launch[p] \in Stages
  BY DEF LaunchInv, LaunchTyped
<1> QED
  BY <1>1, LaunchAssumption DEF LaunchInv, ScreenInv, LogInv, NoProcess

-----------------------------------------------------------------------------
(* The steps of a launch that only take it further.                         *)
LEMMA LaunchedStays == ASSUME LaunchInv, NEW p \in Launches, Launched(p) PROVE LaunchInv'
<1>1. /\ launch \in [Launches -> Stages] /\ ScreenOf(p, launch[p], window[p], chord, tray, instance)
      /\ launch[p].at = "off" /\ GoesTo(p, "log") /\ "log" \in Early \cup Wired
      /\ UNCHANGED <<logVars, screenVars, autostartVars>>
  BY AProcessIsTyped DEF Launched, Early
<1>2. ScreenOf(p, launch'[p], window[p], chord, tray, instance) /\ OnlyLaunches(p, launch'[p])
  BY <1>1, AProcessGoes DEF ScreenOf, Early, Wired
<1> QED
  BY <1>1, <1>2, AProcessGoes, AStageMoves

LEMMA CannotOpenLogStays == ASSUME LaunchInv, NEW p \in Launches, CannotOpenLog(p) PROVE LaunchInv'
<1>1. /\ launch \in [Launches -> Stages] /\ ScreenOf(p, launch[p], window[p], chord, tray, instance)
      /\ launch[p].at = "log" /\ GoesTo(p, "state") /\ "state" \in Early \cup Wired
      /\ UNCHANGED <<logVars, screenVars, autostartVars>>
  BY AProcessIsTyped DEF CannotOpenLog, Early
<1>2. ScreenOf(p, launch'[p], window[p], chord, tray, instance) /\ OnlyLaunches(p, launch'[p])
  BY <1>1, AProcessGoes DEF ScreenOf, Early, Wired
<1> QED
  BY <1>1, <1>2, AProcessGoes, AStageMoves

LEMMA OpensStateStays == ASSUME LaunchInv, NEW p \in Launches, OpensState(p) PROVE LaunchInv'
<1>1. /\ launch \in [Launches -> Stages] /\ launch[p] \in Stages
      /\ ScreenOf(p, launch[p], window[p], chord, tray, instance)
      /\ launch[p].at = "state" /\ "check" \in Early \cup Wired
      /\ UNCHANGED <<logVars, screenVars, autostartVars>>
  BY AProcessIsTyped DEF OpensState, Early
<1>2. /\ OnlyLaunches(p, launch'[p]) /\ launch'[p].at = "check"
      /\ launch'[p].log = launch[p].log /\ launch'[p].handle = launch[p].handle
      /\ launch'[p].locked = launch[p].locked /\ launch'[p].hotkey = launch[p].hotkey
      /\ launch'[p].hides = launch[p].hides
  <2>1. CASE GoesTo(p, "check")
    BY <1>1, <2>1, AProcessGoes
  <2>2. CASE launch' = [launch EXCEPT ![p].at = "check", ![p].config = FALSE]
    <3> DEFINE l == [launch[p] EXCEPT !.at = "check", !.config = FALSE]
    <3>1. /\ l \in Stages /\ l.at = "check" /\ l.log = launch[p].log /\ l.handle = launch[p].handle
          /\ l.locked = launch[p].locked /\ l.hotkey = launch[p].hotkey /\ l.hides = launch[p].hides
      BY <1>1 DEF Stages
    <3>2. launch' = [launch EXCEPT ![p] = l]
      BY <2>2
    <3> HIDE DEF l
    <3> QED
      BY <1>1, <3>1, <3>2 DEF OnlyLaunches
  <2> QED
    BY <2>1, <2>2 DEF OpensState
<1>3. ScreenOf(p, launch'[p], window[p], chord, tray, instance)
  BY <1>1, <1>2 DEF ScreenOf, Early, Wired
<1> QED
  BY <1>1, <1>2, <1>3, AStageMoves

LEMMA AutostartIsOverStays == ASSUME LaunchInv, NEW p \in Launches, AutostartIsOver(p) PROVE LaunchInv'
<1>1. /\ launch \in [Launches -> Stages] /\ ScreenOf(p, launch[p], window[p], chord, tray, instance)
      /\ launch[p].at = "autostart" /\ GoesTo(p, "tray") /\ "tray" \in Early \cup Wired
      /\ UNCHANGED <<logVars, screenVars, autostartVars>>
  BY AProcessIsTyped DEF AutostartIsOver, Wired
<1>2. ScreenOf(p, launch'[p], window[p], chord, tray, instance) /\ OnlyLaunches(p, launch'[p])
  BY <1>1, AProcessGoes DEF ScreenOf, Early, Wired
<1> QED
  BY <1>1, <1>2, AProcessGoes, AStageMoves

LEMMA WiresNoFurtherStays == ASSUME LaunchInv, NEW p \in Launches, WiresNoFurther(p) PROVE LaunchInv'
<1>1. /\ launch \in [Launches -> Stages] /\ ScreenOf(p, launch[p], window[p], chord, tray, instance)
      /\ launch[p].at \in {"tray", "threads"} /\ GoesTo(p, "shell") /\ "shell" \in Early \cup Wired
      /\ UNCHANGED <<logVars, screenVars, autostartVars>>
  BY AProcessIsTyped DEF WiresNoFurther, Wired
<1>2. ScreenOf(p, launch'[p], window[p], chord, tray, instance) /\ OnlyLaunches(p, launch'[p])
  BY <1>1, AProcessGoes DEF ScreenOf, Early, Wired
<1> QED
  BY <1>1, <1>2, AProcessGoes, AStageMoves

LEMMA HidesOnCloseStays == ASSUME LaunchInv, NEW p \in Launches, HidesOnClose(p) PROVE LaunchInv'
<1>1. /\ launch \in [Launches -> Stages] /\ launch[p] \in Stages
      /\ ScreenOf(p, launch[p], window[p], chord, tray, instance)
      /\ launch[p].at = "threads" /\ "shell" \in Early \cup Wired
      /\ launch' = [launch EXCEPT ![p].at = "shell", ![p].hides = TRUE]
      /\ UNCHANGED <<logVars, screenVars, autostartVars>>
  BY AProcessIsTyped DEF HidesOnClose, Wired
<1> DEFINE l == [launch[p] EXCEPT !.at = "shell", !.hides = TRUE]
<1>2. /\ l \in Stages /\ l.at = "shell" /\ l.log = launch[p].log /\ l.handle = launch[p].handle
      /\ l.locked = launch[p].locked /\ l.hotkey = launch[p].hotkey
  BY <1>1 DEF Stages
<1>3. launch' = [launch EXCEPT ![p] = l]
  BY <1>1
<1> HIDE DEF l
<1>4. OnlyLaunches(p, l) /\ launch'[p] = l
  BY <1>1, <1>2, <1>3 DEF OnlyLaunches
<1>5. ScreenOf(p, l, window[p], chord, tray, instance)
  BY <1>1, <1>2 DEF ScreenOf, Early, Wired
<1> QED
  BY <1>1, <1>2, <1>4, <1>5, AStageMoves

-----------------------------------------------------------------------------
(* The steps that show something.                                           *)
LEMMA StaysStays == ASSUME LaunchInv, NEW p \in Launches, Stays(p) PROVE LaunchInv'
<1>1. /\ launch \in [Launches -> Stages] /\ launch[p] \in Stages
      /\ ScreenOf(p, launch[p], window[p], chord, tray, instance)
      /\ launch[p].at = "check" /\ GoesTo(p, "hotkey") /\ "hotkey" \in Early \cup Wired
      /\ NoProcess \notin Launches
  BY AProcessIsTyped DEF Stays, Wired
<1>2. /\ instance = NoProcess /\ instance' = p /\ window' = [window EXCEPT ![p] = "shown"]
      /\ enabled' \in BOOLEAN /\ sync' = NotSynced /\ UNCHANGED <<logVars, chord, tray, entry>>
      /\ window \in [Launches -> {"none", "shown", "hidden"}]
  BY DEF Stays, LaunchInv, LaunchTyped
<1>3. /\ OnlyLaunches(p, launch'[p]) /\ launch'[p].at = "hotkey"
      /\ launch'[p].log = launch[p].log /\ launch'[p].handle = launch[p].handle
      /\ launch'[p].locked = launch[p].locked /\ launch'[p].hotkey = launch[p].hotkey
      /\ launch'[p].hides = launch[p].hides
  BY <1>1, AProcessGoes
<1>4. LaunchTyped'
  <2>1. sync' \in Syncs
    BY <1>2 DEF NotSynced, Syncs
  <2> QED
    BY <1>2, <1>3, <2>1 DEF LaunchInv, LaunchTyped, OnlyLaunches, logVars
<1>5. ScreenInv'
  <2>1. ScreenOf(p, launch'[p], window'[p], chord', tray', instance')
    BY <1>1, <1>2, <1>3 DEF ScreenOf, Early, Wired
  <2>2. \A q \in Launches : q # p => /\ window'[q] = window[q] /\ (chord' = q <=> chord = q)
                                     /\ (q \in tray' <=> q \in tray) /\ (instance' = q <=> instance = q)
    BY <1>1, <1>2
  <2> QED
    BY <1>3, <2>1, <2>2, OneScreenMoves DEF LaunchInv
<1>6. SyncInv'
  BY <1>2 DEF SyncInv, AutostartIsAsTold, NotSynced
<1>7. LogInv'
  BY <1>1, <1>2, <1>3, TheLogIsLeft DEF LaunchInv
<1> QED
  BY <1>4, <1>5, <1>6, <1>7 DEF LaunchInv

LEMMA InstallsHotkeyStays == ASSUME LaunchInv, NEW p \in Launches, InstallsHotkey(p) PROVE LaunchInv'
<1>1. /\ launch \in [Launches -> Stages] /\ launch[p] \in Stages
      /\ ScreenOf(p, launch[p], window[p], chord, tray, instance)
      /\ launch[p].at = "hotkey" /\ "autostart" \in Early \cup Wired
      /\ "free" \notin Launches
      /\ UNCHANGED <<logVars, instance, window, tray, autostartVars>>
  BY AProcessIsTyped DEF InstallsHotkey, Wired
<1>2. PICK what \in {"installed", "refused"} :
        /\ Told(p, "autostart", what) /\ (what = "installed" => chord' = p)
        /\ chord' = chord \/ (chord = "free" /\ chord' \in {p, "free"})
  BY DEF InstallsHotkey
<1> DEFINE l == [launch[p] EXCEPT !.at = "autostart", !.hotkey = what]
<1>3. /\ l \in Stages /\ l.at = "autostart" /\ l.log = launch[p].log /\ l.handle = launch[p].handle
      /\ l.locked = launch[p].locked /\ l.hotkey = what /\ l.hides = launch[p].hides
  BY <1>1 DEF Stages
<1>4. launch' = [launch EXCEPT ![p] = l]
  BY <1>2 DEF Told
<1> HIDE DEF l
<1>5. OnlyLaunches(p, l) /\ launch'[p] = l
  BY <1>1, <1>3, <1>4 DEF OnlyLaunches
<1>6. LaunchTyped'
  BY <1>1, <1>5 DEF LaunchInv, LaunchTyped, OnlyLaunches, logVars, autostartVars
<1>7. ScreenInv'
  <2>1. ScreenOf(p, launch'[p], window'[p], chord', tray', instance')
    BY <1>1, <1>2, <1>3, <1>5 DEF ScreenOf, Early, Wired
  <2>2. \A q \in Launches : q # p => /\ window'[q] = window[q] /\ (chord' = q <=> chord = q)
                                     /\ (q \in tray' <=> q \in tray) /\ (instance' = q <=> instance = q)
    BY <1>1, <1>2
  <2> QED
    BY <1>5, <2>1, <2>2, OneScreenMoves DEF LaunchInv
<1>8. SyncInv'
  BY <1>1, TheAutostartIsLeft DEF LaunchInv
<1>9. LogInv'
  BY <1>1, <1>3, <1>5, TheLogIsLeft DEF LaunchInv
<1> QED
  BY <1>6, <1>7, <1>8, <1>9 DEF LaunchInv

LEMMA InstallsTrayStays == ASSUME LaunchInv, NEW p \in Launches, InstallsTray(p) PROVE LaunchInv'
<1>1. /\ launch \in [Launches -> Stages] /\ launch[p] \in Stages
      /\ ScreenOf(p, launch[p], window[p], chord, tray, instance)
      /\ launch[p].at = "tray" /\ GoesTo(p, "threads") /\ "threads" \in Early \cup Wired
      /\ tray' = tray \cup {p} /\ UNCHANGED <<logVars, instance, chord, window, autostartVars>>
  BY AProcessIsTyped DEF InstallsTray, Wired
<1>2. /\ OnlyLaunches(p, launch'[p]) /\ launch'[p].at = "threads"
      /\ launch'[p].log = launch[p].log /\ launch'[p].handle = launch[p].handle
      /\ launch'[p].locked = launch[p].locked /\ launch'[p].hotkey = launch[p].hotkey
      /\ launch'[p].hides = launch[p].hides
  BY <1>1, AProcessGoes
<1>3. LaunchTyped'
  BY <1>1, <1>2 DEF LaunchInv, LaunchTyped, OnlyLaunches, logVars, autostartVars
<1>4. ScreenInv'
  <2>1. ScreenOf(p, launch'[p], window'[p], chord', tray', instance')
    BY <1>1, <1>2 DEF ScreenOf, Early, Wired
  <2>2. \A q \in Launches : q # p => /\ window'[q] = window[q] /\ (chord' = q <=> chord = q)
                                     /\ (q \in tray' <=> q \in tray) /\ (instance' = q <=> instance = q)
    BY <1>1
  <2> QED
    BY <1>2, <2>1, <2>2, OneScreenMoves DEF LaunchInv
<1>5. SyncInv'
  BY <1>1, TheAutostartIsLeft DEF LaunchInv
<1>6. LogInv'
  BY <1>1, <1>2, TheLogIsLeft DEF LaunchInv
<1> QED
  BY <1>3, <1>4, <1>5, <1>6 DEF LaunchInv

(* A window that is shown or hidden, by its own process or a second launch. *)
LEMMA AWindowMoves ==
    ASSUME LaunchInv, NEW p \in Launches, NEW w \in {"shown", "hidden"},
           window' = [window EXCEPT ![p] = w], w = "hidden" => p \in tray, instance = p,
           UNCHANGED <<launch, logVars, instance, chord, tray, autostartVars>>
    PROVE  LaunchInv'
<1>1. LaunchTyped'
  BY DEF LaunchInv, LaunchTyped, logVars, autostartVars
<1>2. ScreenInv'
  <2>1. /\ window \in [Launches -> {"none", "shown", "hidden"}]
        /\ \A q \in Launches : ScreenOf(q, launch[q], window[q], chord, tray, instance)
    BY DEF LaunchInv, LaunchTyped, ScreenInv
  <2>2. ASSUME NEW q \in Launches PROVE ScreenOf(q, launch'[q], window'[q], chord', tray', instance')
    BY <2>1 DEF ScreenOf
  <2> QED
    BY <2>2 DEF ScreenInv
<1>3. SyncInv' /\ LogInv'
  BY TheAutostartIsLeft DEF LaunchInv, LogInv, LogOfOne, logVars
<1> QED
  BY <1>1, <1>2, <1>3 DEF LaunchInv

(* However a process ends, what it showed is gone with it.                  *)
LEMMA ProcessEndsStays ==
    ASSUME LaunchInv, NEW p \in Launches, ProcessEnds(p), launch[p].at # "off" PROVE LaunchInv'
<1>1. /\ launch \in [Launches -> Stages] /\ ScreenOf(p, launch[p], window[p], chord, tray, instance)
      /\ NoProcess \notin Launches /\ "free" \notin Launches
      /\ launch' = [launch EXCEPT ![p] = [NotLaunched EXCEPT !.at = "gone"]]
      /\ sharedLog' = IF sharedLog.lock = p THEN [sharedLog EXCEPT !.lock = NoProcess] ELSE sharedLog
      /\ slipped' = slipped /\ UNCHANGED autostartVars
  BY AProcessIsTyped DEF ProcessEnds
<1>2. /\ instance' = (IF instance = p THEN NoProcess ELSE instance)
      /\ chord' = (IF chord = p THEN "free" ELSE chord)
      /\ window' = [window EXCEPT ![p] = "none"] /\ tray' = tray \ {p}
      /\ window \in [Launches -> {"none", "shown", "hidden"}] /\ instance \in Launches \cup {NoProcess}
  BY DEF ProcessEnds, LaunchInv, LaunchTyped
<1>3. /\ OnlyLaunches(p, launch'[p]) /\ launch'[p].at = "gone" /\ launch'[p].hotkey = "pending" /\ ~launch'[p].hides
  BY <1>1, AProcessIsGone
<1>4. sharedLog' \in [file : Nat, lock : Launches \cup {NoProcess}, full : BOOLEAN] /\ LogInv'
  BY <1>1, AnEndLeavesNothing
<1>5. LaunchTyped'
  BY <1>1, <1>2, <1>3, <1>4 DEF LaunchInv, LaunchTyped, OnlyLaunches, autostartVars
<1>6. ScreenInv'
  <2>1. window'[p] = "none" /\ p \notin tray' /\ instance' # p /\ chord' # p
    BY <1>1, <1>2
  <2>2. ScreenOf(p, launch'[p], window'[p], chord', tray', instance')
    BY <1>3, <2>1 DEF ScreenOf, Early, Wired
  <2>3. \A q \in Launches : q # p => /\ window'[q] = window[q] /\ (chord' = q <=> chord = q)
                                     /\ (q \in tray' <=> q \in tray) /\ (instance' = q <=> instance = q)
    BY <1>1, <1>2
  <2> QED
    BY <1>3, <2>2, <2>3, OneScreenMoves DEF LaunchInv
<1>7. SyncInv'
  BY <1>1, TheAutostartIsLeft DEF LaunchInv
<1> QED
  BY <1>4, <1>5, <1>6, <1>7 DEF LaunchInv

LEMMA HandsOverStays == ASSUME LaunchInv, NEW p \in Launches, HandsOver(p) PROVE LaunchInv'
<1>1. /\ launch \in [Launches -> Stages] /\ ScreenOf(p, launch[p], window[p], chord, tray, instance)
      /\ launch[p].at = "check" /\ instance \in Launches
      /\ launch' = [launch EXCEPT ![p] = [NotLaunched EXCEPT !.at = "gone"]]
      /\ sharedLog' = IF sharedLog.lock = p THEN [sharedLog EXCEPT !.lock = NoProcess] ELSE sharedLog
      /\ window' = [window EXCEPT ![instance] = "shown"]
      /\ UNCHANGED <<slipped, instance, chord, tray, autostartVars>>
  BY AProcessIsTyped DEF HandsOver
<1>2. instance # p
  BY <1>1 DEF ScreenOf, Wired
<1>3. /\ OnlyLaunches(p, launch'[p]) /\ launch'[p].at = "gone" /\ launch'[p].hotkey = "pending" /\ ~launch'[p].hides
  BY <1>1, AProcessIsGone
<1>4. sharedLog' \in [file : Nat, lock : Launches \cup {NoProcess}, full : BOOLEAN] /\ LogInv'
  BY <1>1, AnEndLeavesNothing
<1>5. LaunchTyped'
  BY <1>1, <1>3, <1>4 DEF LaunchInv, LaunchTyped, OnlyLaunches, autostartVars
<1>6. ScreenInv'
  <2>1. /\ window \in [Launches -> {"none", "shown", "hidden"}]
        /\ \A q \in Launches : ScreenOf(q, launch[q], window[q], chord, tray, instance)
    BY DEF LaunchInv, LaunchTyped, ScreenInv
  <2>2. ScreenOf(p, launch'[p], window'[p], chord', tray', instance')
    BY <1>1, <1>2, <1>3, <2>1 DEF ScreenOf, Early, Wired
  <2>3. ASSUME NEW q \in Launches, q # p PROVE ScreenOf(q, launch'[q], window'[q], chord', tray', instance')
    <3>1. launch'[q] = launch[q] /\ ScreenOf(q, launch[q], window[q], chord, tray, instance)
      BY <1>3, <2>1, <2>3 DEF OnlyLaunches
    <3>2. window'[q] = (IF q = instance THEN "shown" ELSE window[q])
      BY <1>1, <2>1
    <3>3. UNCHANGED <<instance, chord, tray>> /\ (q = instance => window'[q] = "shown")
          /\ (q # instance => window'[q] = window[q])
      BY <1>1, <3>2
    <3> QED
      BY <3>1, <3>3 DEF ScreenOf
  <2> QED
    BY <2>2, <2>3 DEF ScreenInv
<1>7. SyncInv'
  BY <1>1, TheAutostartIsLeft DEF LaunchInv
<1> QED
  BY <1>4, <1>5, <1>6, <1>7 DEF LaunchInv

-----------------------------------------------------------------------------
(* The Run key.                                                             *)
LEMMA QueriesStays == ASSUME LaunchInv, NEW p \in Launches, Queries(p) PROVE LaunchInv'
<1>1. /\ sync \in Syncs /\ sync.at = "query" /\ sync.said = "nothing" /\ sync.read = "none"
      /\ UNCHANGED <<launch, logVars, screenVars, entry, enabled>>
      /\ entry \in {"none", "wanted", "moved", "foreign"}
  BY DEF Queries, LaunchInv, LaunchTyped, SyncInv
<1>2. /\ sync' \in Syncs
      /\ \/ sync'.at = "act" /\ sync'.said = "nothing" /\ sync'.read = entry
         \/ enabled /\ sync'.at = "done" /\ sync'.said = "error" /\ sync'.read = "none"
         \/ ~enabled /\ sync'.at = "act" /\ sync'.said = "nothing" /\ sync'.read = "unread"
  <2>1. CASE sync' = [sync EXCEPT !.at = "act", !.read = entry]
    BY <1>1, <2>1 DEF Syncs
  <2>2. CASE enabled /\ sync' = [sync EXCEPT !.at = "done", !.said = "error"]
    BY <1>1, <2>2 DEF Syncs
  <2>3. CASE ~enabled /\ sync' = [sync EXCEPT !.at = "act", !.read = "unread"]
    BY <1>1, <2>3 DEF Syncs
  <2> QED
    BY <2>1, <2>2, <2>3 DEF Queries
<1>3. SyncInv'
  BY <1>1, <1>2 DEF SyncInv, AutostartIsAsTold
<1> QED
  BY <1>1, <1>2, <1>3 DEF LaunchInv, LaunchTyped, ScreenInv, LogInv, logVars, screenVars

LEMMA sync_autostartStays == ASSUME LaunchInv, NEW p \in Launches, sync_autostart(p) PROVE LaunchInv'
<1>1. /\ sync \in Syncs /\ sync.at = "act" /\ sync.said = "nothing"
      /\ sync.read \in {"unread", entry} /\ (sync.read = "unread" => ~enabled)
      /\ UNCHANGED <<launch, logVars, screenVars, enabled>>
      /\ entry \in {"none", "wanted", "moved", "foreign"} /\ enabled \in BOOLEAN
  BY DEF sync_autostart, LaunchInv, LaunchTyped, SyncInv
<1>2. ASSUME NEW what \in {"enabled", "removed", "unchanged", "error"}, Says(what)
      PROVE  sync' \in Syncs /\ sync'.at = "done" /\ sync'.said = what /\ sync'.read = sync.read
  BY <1>1, <1>2 DEF Says, Syncs
<1>3. /\ sync' \in Syncs /\ sync'.at = "done" /\ sync'.read = sync.read
      /\ entry' \in {"none", "wanted", "moved", "foreign"}
      /\ sync'.said = "enabled" => entry' = "wanted"
      /\ sync'.said = "removed" => entry' = "none"
      /\ sync'.said = "unchanged" => entry' = IF enabled THEN "wanted" ELSE "none"
      /\ sync'.said = "error" => entry' = entry
  <2>1. CASE enabled /\ sync.read = "wanted" /\ LeavesEntry("unchanged")
    BY <1>1, <1>2, <2>1 DEF LeavesEntry
  <2>2. CASE enabled /\ write_entry
    BY <1>1, <1>2, <2>2 DEF write_entry
  <2>3. CASE ~enabled /\ sync.read = "none" /\ LeavesEntry("unchanged")
    BY <1>1, <1>2, <2>3 DEF LeavesEntry
  <2>4. CASE ~enabled /\ remove_entry
    <3>1. CASE UNCHANGED entry /\ Says("error")
      BY <1>1, <1>2, <3>1
    <3>2. CASE entry' = "none" /\ Says(IF sync.read = "unread" /\ entry = "none" THEN "unchanged" ELSE "removed")
      <4>1. CASE Says("unchanged")
        BY <1>1, <1>2, <3>2, <4>1, <2>4
      <4>2. CASE Says("removed")
        BY <1>1, <1>2, <3>2, <4>2
      <4> QED
        BY <3>2, <4>1, <4>2
    <3> QED
      BY <2>4, <3>1, <3>2 DEF remove_entry
  <2>5. CASE LeavesEntry("error")
    BY <1>1, <1>2, <2>5 DEF LeavesEntry
  <2> QED
    BY <2>1, <2>2, <2>3, <2>4, <2>5 DEF sync_autostart
<1>4. SyncInv'
  BY <1>1, <1>3 DEF SyncInv, AutostartIsAsTold
<1> QED
  BY <1>1, <1>3, <1>4 DEF LaunchInv, LaunchTyped, ScreenInv, LogInv, logVars, screenVars

LEMMA OthersEditStays == ASSUME LaunchInv, OthersEdit PROVE LaunchInv'
<1>1. /\ sync \in Syncs /\ sync.at # "act" /\ sync' = [sync EXCEPT !.said = "nothing"]
      /\ entry' \in {"none", "foreign"} /\ UNCHANGED <<launch, logVars, screenVars, enabled>>
  BY DEF OthersEdit, LaunchInv, LaunchTyped
<1>2. sync' \in Syncs /\ sync'.said = "nothing" /\ sync'.at = sync.at /\ sync'.read = sync.read
  BY <1>1 DEF Syncs
<1>3. SyncInv'
  BY <1>1, <1>2 DEF LaunchInv, SyncInv, AutostartIsAsTold
<1> QED
  BY <1>1, <1>2, <1>3 DEF LaunchInv, LaunchTyped, ScreenInv, LogInv, logVars, screenVars

-----------------------------------------------------------------------------
(* The log.                                                                 *)

(* Only the process that stays rotates, and locks again.                    *)
LEMMA OneRelocks ==
    ASSUME LaunchInv, NEW p \in Launches, NEW q \in Launches, launch[p].at \in Wired, launch[q].at \in Wired
    PROVE  p = q
BY DEF LaunchInv, ScreenInv, ScreenOf

LEMMA OpensLogStays == ASSUME LaunchInv, NEW p \in Launches, OpensLog(p) PROVE LaunchInv'
<1> DEFINE wins == sharedLog.lock = NoProcess
<1>1. /\ launch \in [Launches -> Stages] /\ launch[p] \in Stages
      /\ ScreenOf(p, launch[p], window[p], chord, tray, instance) /\ NoProcess \notin Launches
      /\ launch[p].at = "log" /\ UNCHANGED <<screenVars, autostartVars>>
      /\ sharedLog \in [file : Nat, lock : Launches \cup {NoProcess}, full : BOOLEAN]
  BY AProcessIsTyped DEF OpensLog, LaunchInv, LaunchTyped
<1>2. /\ sharedLog' = IF sharedLog.full THEN NextFile ELSE IF wins THEN [sharedLog EXCEPT !.lock = p] ELSE sharedLog
      /\ slipped' = (slipped \/ sharedLog.full \/ \E q \in Launches : Relocking(q))
  BY DEF OpensLog
<1>3. PICK log \in LogOf(wins) :
        launch' = [launch EXCEPT ![p].at = "state", ![p].log = log, ![p].handle = sharedLog'.file, ![p].locked = wins]
  BY DEF OpensLog
<1> HIDE DEF wins
<1>4. wins \in BOOLEAN /\ log \in {"none", "shared", "own"} /\ (log = "shared" <=> wins)
  BY <1>3 DEF LogOf, wins
<1>5. /\ sharedLog' \in [file : Nat, lock : Launches \cup {NoProcess}, full : BOOLEAN]
      /\ sharedLog'.file >= sharedLog.file
      /\ ~sharedLog.full => /\ sharedLog'.file = sharedLog.file /\ ~sharedLog'.full
                            /\ wins => sharedLog'.lock = p
                            /\ ~wins => sharedLog'.lock = sharedLog.lock
  <2>1. CASE sharedLog.full
    BY <1>1, <1>2, <2>1 DEF NextFile
  <2>2. CASE ~sharedLog.full /\ wins
    BY <1>1, <1>2, <2>2
  <2>3. CASE ~sharedLog.full /\ ~wins
    BY <1>1, <1>2, <2>3
  <2> QED
    BY <2>1, <2>2, <2>3
<1> DEFINE l == [launch[p] EXCEPT !.at = "state", !.log = log, !.handle = sharedLog'.file, !.locked = wins]
<1>6. /\ l \in Stages /\ l.at = "state" /\ l.log = log /\ l.handle = sharedLog'.file /\ l.locked = wins
      /\ l.hotkey = launch[p].hotkey /\ l.hides = launch[p].hides
  <2>1. sharedLog'.file \in Int /\ launch[p] \in Stages
    BY <1>1, <1>5
  <2> QED
    BY ONLY <1>4, <2>1 DEF Stages, Early
<1>7. launch' = [launch EXCEPT ![p] = l]
  BY <1>3
<1> HIDE DEF l
<1>8. OnlyLaunches(p, l) /\ launch'[p] = l
  BY <1>1, <1>6, <1>7 DEF OnlyLaunches
<1>9. LaunchTyped'
  <2>1. slipped' \in BOOLEAN
    BY <1>2 DEF LaunchInv, LaunchTyped
  <2> QED
    BY <1>1, <1>5, <1>8, <2>1 DEF LaunchInv, LaunchTyped, OnlyLaunches, screenVars, autostartVars
<1>10. ScreenInv'
  <2>1. ScreenOf(p, launch'[p], window'[p], chord', tray', instance')
    BY <1>1, <1>6, <1>8 DEF ScreenOf, Early, Wired, screenVars
  <2>2. \A q \in Launches : q # p => /\ window'[q] = window[q] /\ (chord' = q <=> chord = q)
                                     /\ (q \in tray' <=> q \in tray) /\ (instance' = q <=> instance = q)
    BY <1>1 DEF screenVars
  <2> QED
    BY <1>8, <2>1, <2>2, OneScreenMoves DEF LaunchInv
<1>11. SyncInv'
  BY <1>1, TheAutostartIsLeft DEF LaunchInv
<1>12. LogInv'
  <2>1. LogOfOne(p, launch'[p], sharedLog', slipped')
    BY <1>1, <1>2, <1>4, <1>5, <1>6, <1>8 DEF LogOfOne
  <2>2. ASSUME NEW q \in Launches, q # p PROVE LogOfOne(q, launch'[q], sharedLog', slipped')
    <3>1. /\ launch'[q] = launch[q] /\ LogOfOne(q, launch[q], sharedLog, slipped)
          /\ launch[q] \in Stages
      BY <1>1, <1>8, <2>2 DEF OnlyLaunches, LaunchInv, LogInv
    <3>2. launch[q].handle \in Int /\ sharedLog.file \in Nat /\ sharedLog'.file \in Nat
      BY <1>1, <1>5, <3>1 DEF Stages
    <3>3. launch[q].handle <= sharedLog'.file
      BY <1>5, <3>1, <3>2 DEF LogOfOne
    <3>4. CASE slipped'
      <4>1. launch[q].at = "relock" => ~sharedLog'.full /\ launch[q].handle = sharedLog'.file
        BY <1>5, <3>1 DEF LogOfOne
      <4> QED
        BY <3>1, <3>3, <3>4, <4>1 DEF LogOfOne
    <3>5. CASE ~slipped'
      <4>1. ~slipped /\ ~sharedLog.full /\ launch[q].at # "relock"
        BY <1>2, <2>2, <3>5 DEF Relocking
      <4>2. launch[q].log = "shared" /\ launch[q].handle = sharedLog.file => ~wins /\ sharedLog.lock = q
        BY <1>1, <2>2, <3>1, <4>1 DEF LogOfOne, wins
      <4> QED
        BY <1>5, <3>1, <3>3, <4>1, <4>2 DEF LogOfOne
    <3> QED
      BY <3>4, <3>5
  <2> QED
    BY <2>1, <2>2 DEF LogInv
<1> QED
  BY <1>9, <1>10, <1>11, <1>12 DEF LaunchInv

LEMMA RotatesLogStays == ASSUME LaunchInv, NEW p \in Launches, RotatesLog(p) PROVE LaunchInv'
<1>1. /\ launch \in [Launches -> Stages] /\ launch[p] \in Stages
      /\ ScreenOf(p, launch[p], window[p], chord, tray, instance) /\ NoProcess \notin Launches
      /\ LogOfOne(p, launch[p], sharedLog, slipped)
      /\ launch[p].at = "shell" /\ launch[p].log = "shared" /\ launch[p].handle = sharedLog.file
      /\ sharedLog' = NextFile /\ UNCHANGED <<slipped, screenVars, autostartVars>>
      /\ launch' = [launch EXCEPT ![p].at = "relock", ![p].handle = sharedLog.file + 1]
      /\ sharedLog.file \in Nat
  BY AProcessIsTyped DEF RotatesLog, LaunchInv, LaunchTyped
<1>2. /\ sharedLog' \in [file : Nat, lock : Launches \cup {NoProcess}, full : BOOLEAN]
      /\ sharedLog'.file = sharedLog.file + 1 /\ sharedLog'.lock = NoProcess /\ ~sharedLog'.full
  BY <1>1 DEF NextFile
<1> DEFINE l == [launch[p] EXCEPT !.at = "relock", !.handle = sharedLog.file + 1]
<1>3. /\ l \in Stages /\ l.at = "relock" /\ l.log = "shared" /\ l.handle = sharedLog.file + 1
      /\ l.locked = launch[p].locked /\ l.hotkey = launch[p].hotkey /\ l.hides = launch[p].hides
  <2>1. sharedLog.file + 1 \in Int /\ launch[p] \in Stages /\ launch[p].log = "shared"
    BY <1>1
  <2> QED
    BY ONLY <2>1 DEF Stages, Wired
<1>4. launch' = [launch EXCEPT ![p] = l]
  BY <1>1
<1> HIDE DEF l
<1>5. OnlyLaunches(p, l) /\ launch'[p] = l
  BY <1>1, <1>3, <1>4 DEF OnlyLaunches
<1>6. LaunchTyped'
  BY <1>1, <1>2, <1>5 DEF LaunchInv, LaunchTyped, OnlyLaunches, screenVars, autostartVars
<1>7. ScreenInv'
  <2>1. ScreenOf(p, launch'[p], window'[p], chord', tray', instance')
    BY <1>1, <1>3, <1>5 DEF ScreenOf, Early, Wired, screenVars
  <2>2. \A q \in Launches : q # p => /\ window'[q] = window[q] /\ (chord' = q <=> chord = q)
                                     /\ (q \in tray' <=> q \in tray) /\ (instance' = q <=> instance = q)
    BY <1>1 DEF screenVars
  <2> QED
    BY <1>5, <2>1, <2>2, OneScreenMoves DEF LaunchInv
<1>8. SyncInv'
  BY <1>1, TheAutostartIsLeft DEF LaunchInv
<1>9. LogInv'
  <2>1. LogOfOne(p, launch'[p], sharedLog', slipped')
    BY <1>1, <1>2, <1>3, <1>5 DEF LogOfOne
  <2>2. ASSUME NEW q \in Launches, q # p PROVE LogOfOne(q, launch'[q], sharedLog', slipped')
    <3>1. launch'[q] = launch[q] /\ LogOfOne(q, launch[q], sharedLog, slipped) /\ launch[q].handle \in Int
      BY <1>1, <1>5, <2>2 DEF OnlyLaunches, LaunchInv, LogInv, Stages
    <3>2. launch[q].at # "relock"
      BY <1>1, <2>2, OneRelocks DEF Wired
    <3>3. launch[q].handle <= sharedLog'.file /\ launch[q].handle # sharedLog'.file
      BY <1>1, <1>2, <3>1 DEF LogOfOne
    <3> QED
      BY <1>1, <3>1, <3>2, <3>3 DEF LogOfOne
  <2> QED
    BY <2>1, <2>2 DEF LogInv
<1> QED
  BY <1>6, <1>7, <1>8, <1>9 DEF LaunchInv

LEMMA RelocksLogStays == ASSUME LaunchInv, NEW p \in Launches, RelocksLog(p) PROVE LaunchInv'
<1> DEFINE gets == launch[p].locked /\ sharedLog.lock = NoProcess
<1>1. /\ launch \in [Launches -> Stages] /\ launch[p] \in Stages
      /\ ScreenOf(p, launch[p], window[p], chord, tray, instance) /\ NoProcess \notin Launches
      /\ LogOfOne(p, launch[p], sharedLog, slipped)
      /\ launch[p].at = "relock" /\ UNCHANGED <<slipped, screenVars, autostartVars>>
      /\ sharedLog' = IF gets THEN [sharedLog EXCEPT !.lock = p] ELSE sharedLog
      /\ launch' = [launch EXCEPT ![p].at = "shell", ![p].locked = gets]
      /\ sharedLog \in [file : Nat, lock : Launches \cup {NoProcess}, full : BOOLEAN]
  BY AProcessIsTyped DEF RelocksLog, Relocking, LaunchInv, LaunchTyped
<1>2. gets \in BOOLEAN
  BY <1>1 DEF Stages
<1>3. ~slipped => gets
  BY <1>1 DEF LogOfOne
<1>4. gets => sharedLog.lock = NoProcess
  OBVIOUS
<1> HIDE DEF gets
<1>5. /\ sharedLog' \in [file : Nat, lock : Launches \cup {NoProcess}, full : BOOLEAN]
      /\ sharedLog'.file = sharedLog.file /\ sharedLog'.full = sharedLog.full /\ (gets => sharedLog'.lock = p)
  <2>1. CASE gets
    BY <1>1, <2>1
  <2>2. CASE ~gets
    BY <1>1, <2>2
  <2> QED
    BY <2>1, <2>2
<1> DEFINE l == [launch[p] EXCEPT !.at = "shell", !.locked = gets]
<1>6. /\ l \in Stages /\ l.at = "shell" /\ l.log = launch[p].log /\ l.handle = launch[p].handle
      /\ l.locked = gets /\ l.hotkey = launch[p].hotkey /\ l.hides = launch[p].hides
  BY <1>1, <1>2 DEF Stages, Wired
<1>7. launch' = [launch EXCEPT ![p] = l]
  BY <1>1
<1> HIDE DEF l
<1>8. OnlyLaunches(p, l) /\ launch'[p] = l
  BY <1>1, <1>6, <1>7 DEF OnlyLaunches
<1>9. LaunchTyped'
  BY <1>1, <1>5, <1>8 DEF LaunchInv, LaunchTyped, OnlyLaunches, screenVars, autostartVars
<1>10. ScreenInv'
  <2>1. ScreenOf(p, launch'[p], window'[p], chord', tray', instance')
    BY <1>1, <1>6, <1>8 DEF ScreenOf, Early, Wired, screenVars
  <2>2. \A q \in Launches : q # p => /\ window'[q] = window[q] /\ (chord' = q <=> chord = q)
                                     /\ (q \in tray' <=> q \in tray) /\ (instance' = q <=> instance = q)
    BY <1>1 DEF screenVars
  <2> QED
    BY <1>8, <2>1, <2>2, OneScreenMoves DEF LaunchInv
<1>11. SyncInv'
  BY <1>1, TheAutostartIsLeft DEF LaunchInv
<1>12. LogInv'
  <2>1. LogOfOne(p, launch'[p], sharedLog', slipped')
    BY <1>1, <1>3, <1>5, <1>6, <1>8 DEF LogOfOne
  <2>2. ASSUME NEW q \in Launches, q # p PROVE LogOfOne(q, launch'[q], sharedLog', slipped')
    <3>1. launch'[q] = launch[q] /\ LogOfOne(q, launch[q], sharedLog, slipped)
      BY <1>1, <1>8, <2>2 DEF OnlyLaunches, LaunchInv, LogInv
    <3>2. launch[q].at # "relock"
      BY <1>1, <2>2, OneRelocks DEF Wired
    <3>3. ~slipped /\ launch[q].log = "shared" => launch[q].handle # sharedLog.file
      BY <1>1, <1>3, <1>4, <3>1, <3>2 DEF LogOfOne
    <3> QED
      BY <1>1, <1>5, <3>1, <3>2, <3>3 DEF LogOfOne
  <2> QED
    BY <2>1, <2>2 DEF LogInv
<1> QED
  BY <1>9, <1>10, <1>11, <1>12 DEF LaunchInv

-----------------------------------------------------------------------------
LEMMA ClosesWindowStays == ASSUME LaunchInv, NEW p \in Launches, ClosesWindow(p) PROVE LaunchInv'
<1>1. ScreenOf(p, launch[p], window[p], chord, tray, instance) /\ launch[p].at = "shell"
  BY AProcessIsTyped DEF ClosesWindow
<1>2. CASE launch[p].hides
  <2>1. /\ window' = [window EXCEPT ![p] = "hidden"] /\ p \in tray /\ instance = p
        /\ UNCHANGED <<launch, logVars, instance, chord, tray, autostartVars>>
    BY <1>1, <1>2 DEF ClosesWindow, ScreenOf, Wired
  <2> QED
    BY <2>1, AWindowMoves
<1>3. CASE ~launch[p].hides
  BY <1>1, <1>3, ProcessEndsStays DEF ClosesWindow
<1> QED
  BY <1>2, <1>3

LEMMA ShowHideWindowStays == ASSUME LaunchInv, NEW p \in Launches, ShowHideWindow(p) PROVE LaunchInv'
<1>1. ScreenOf(p, launch[p], window[p], chord, tray, instance)
  BY AProcessIsTyped
<1>2. /\ p \in tray /\ instance = p /\ UNCHANGED <<launch, logVars, instance, chord, tray, autostartVars>>
      /\ \E w \in {"shown", "hidden"} : window' = [window EXCEPT ![p] = w]
  BY <1>1 DEF ShowHideWindow, ScreenOf, Wired
<1> QED
  BY <1>2, AWindowMoves

(* A step of the launches keeps the invariant, whoever takes it.            *)
LEMMA LaunchStays == LaunchInv /\ [LaunchNext]_launchVars => LaunchInv'
<1> SUFFICES ASSUME LaunchInv, [LaunchNext]_launchVars PROVE LaunchInv'
  OBVIOUS
<1>1. CASE UNCHANGED launchVars
  <2>1. UNCHANGED <<launch, logVars, screenVars, autostartVars>>
    BY <1>1 DEF launchVars
  <2>2. SyncInv'
    BY <2>1, TheAutostartIsLeft DEF LaunchInv
  <2> QED
    BY <2>1, <2>2 DEF LaunchInv, LaunchTyped, ScreenInv, LogInv, logVars, screenVars, autostartVars
<1>2. CASE OthersEdit
  BY <1>2, OthersEditStays
<1>3. ASSUME NEW p \in Launches,
             \/ Launched(p) \/ OpensLog(p) \/ CannotOpenLog(p) \/ RotatesLog(p) \/ RelocksLog(p)
             \/ OpensState(p) \/ Stays(p) \/ HandsOver(p) \/ InstallsHotkey(p)
      PROVE  LaunchInv'
  BY <1>3, LaunchedStays, OpensLogStays, CannotOpenLogStays, RotatesLogStays, RelocksLogStays,
     OpensStateStays, StaysStays, HandsOverStays, InstallsHotkeyStays
<1>4. ASSUME NEW p \in Launches,
             \/ Queries(p) \/ sync_autostart(p) \/ AutostartIsOver(p) \/ InstallsTray(p)
             \/ WiresNoFurther(p) \/ HidesOnClose(p) \/ ClosesWindow(p) \/ ShowHideWindow(p)
      PROVE  LaunchInv'
  BY <1>4, QueriesStays, sync_autostartStays, AutostartIsOverStays, InstallsTrayStays,
     WiresNoFurtherStays, HidesOnCloseStays, ClosesWindowStays, ShowHideWindowStays
<1>5. ASSUME NEW p \in Launches, CannotOpenState(p) \/ Quit(p) \/ ProcessDies(p)
      PROVE  LaunchInv'
  <2>1. ProcessEnds(p) /\ launch[p].at # "off"
    BY <1>5 DEF CannotOpenState, Quit, ProcessDies
  <2> QED
    BY <2>1, ProcessEndsStays
<1> QED
  BY <1>1, <1>2, <1>3, <1>4, <1>5 DEF LaunchNext

(* What the invariant says of the launches is what the run checks.          *)
LEMMA TheLaunchesAreOne == LaunchInv => LaunchesAreOne
<1> SUFFICES ASSUME LaunchInv PROVE LaunchesAreOne
  OBVIOUS
<1>1. NoProcess \notin Launches /\ instance \in Launches \cup {NoProcess}
  BY LaunchAssumption DEF NoProcess, LaunchInv, LaunchTyped
<1>2. ShellIsOne
  BY <1>1 DEF LaunchInv, ScreenInv, ScreenOf, ShellIsOne
<1>3. AutostartIsAsTold
  BY DEF LaunchInv, SyncInv
<1>4. LogHasOneWriter
  <2>1. CASE slipped
    BY <2>1 DEF LogHasOneWriter
  <2>2. CASE ~slipped
    <3>1. ASSUME NEW p \in Writers, NEW q \in Writers PROVE p = q
      <4>1. /\ p \in Launches /\ q \in Launches
            /\ LogOfOne(p, launch[p], sharedLog, slipped) /\ LogOfOne(q, launch[q], sharedLog, slipped)
            /\ launch[p].log = "shared" /\ launch[p].handle = sharedLog.file
            /\ launch[q].log = "shared" /\ launch[q].handle = sharedLog.file
        BY <3>1 DEF Writers, LaunchInv, LogInv
      <4>2. CASE launch[p].at = "relock" /\ launch[q].at = "relock"
        BY <4>1, <4>2, OneRelocks DEF Wired
      <4>3. CASE launch[p].at # "relock" \/ launch[q].at # "relock"
        BY <1>1, <2>2, <4>1, <4>3 DEF LogOfOne
      <4> QED
        BY <4>2, <4>3
    <3>2. Writers = {} \/ \E p \in Writers : Writers = {p}
      BY <3>1
    <3>3. Cardinality(Writers) <= 1
      BY <3>2, FS_EmptySet, FS_Singleton
    <3> QED
      BY <3>3 DEF LogHasOneWriter
  <2> QED
    BY <2>1, <2>2
<1> QED
  BY <1>2, <1>3, <1>4 DEF LaunchesAreOne

-----------------------------------------------------------------------------
(* --- the pinned archives ------------------------------------------------ *)
CommandTypes ==
    [at : {"idle", "refused", "download", "read", "write", "copy", "remove", "rename", "check"},
     kind : {"none", "record", "fetch"}, todo : Seq(Targets), updates : SUBSET (Targets \X Versions), file : Nat]
SidecarTyped ==
    /\ url \in [Targets -> Versions]
    /\ torn \/ manifest \in [Targets -> Versions \cup {UNRECORDED}]
    /\ archive \in [Targets -> Versions \cup {"none", "cut"}]
    /\ installed \in [Allowed -> Versions \cup {"none"}]
    /\ partial \in [Allowed -> Versions \cup {"none", "cut"}]
    /\ command \in CommandTypes

(* Every pin was one when it was made, and so was what every binary is of.  *)
PinsOf(pins, there, ever) ==
    /\ pins # TornManifest => \A t \in Targets : pins[t] \in ever
    /\ \A f \in Allowed : there[f] # "none" => there[f] \in ever

(* A fetch that extracts has the archive that is pinned, and the files      *)
(* before the one it is at are in place.                                    *)
FetchOf(cmd, pins, files, there, part_) ==
    /\ cmd.at \in {"copy", "remove", "rename", "check"} =>
          /\ cmd.kind = "fetch" /\ files[Head(cmd.todo)] = pins[Head(cmd.todo)] /\ pins[Head(cmd.todo)] \in Versions
          /\ \A f \in Allowed : f < cmd.file \/ cmd.at = "check" => there[f] = pins[Head(cmd.todo)]
    /\ cmd.at \in {"remove", "rename"} => \A f \in Allowed : f = cmd.file => part_[f] = pins[Head(cmd.todo)]
    /\ cmd.at \notin {"copy", "remove", "rename", "check"} => cmd.file = 1
    /\ cmd.kind = "fetch" => \E t \in Targets : cmd.todo = <<t>>
    /\ cmd.kind = "fetch" /\ cmd.at = "read" => pins[Head(cmd.todo)] # UNRECORDED

(* A record has the archive of every hash, and will not download it again.  *)
RecordOf(cmd, files) ==
    /\ \A u \in cmd.updates : u[2] = files[u[1]] /\ scan(u[2]) /\ \A i \in 1..Len(cmd.todo) : cmd.todo[i] # u[1]
    /\ \A i, j \in 1..Len(cmd.todo) : cmd.todo[i] = cmd.todo[j] => i = j
    /\ cmd.at \in {"download", "read"} => cmd.todo # <<>>
    /\ cmd.at = "read" => files[Head(cmd.todo)] # "none"
    /\ cmd.at = "write" => cmd.kind = "record"

PinsInv ==
    /\ SidecarTyped
    /\ PinsOf(manifest, installed, everPinned)
    /\ command.at \notin {"idle", "refused"} => ~torn
    /\ command.at = "idle" => command = NothingRuns
    /\ FetchOf(command, manifest, archive, installed, partial)
    /\ RecordOf(command, archive)
    /\ ended.how = "ok" => command = NothingRuns
    /\ DoneMeansDone

LEMMA PinsStart == SidecarInit => PinsInv
<1> SUFFICES ASSUME SidecarInit PROVE PinsInv
  OBVIOUS
<1>1. command = NothingRuns /\ NothingRuns \in CommandTypes
  BY DEF SidecarInit, NothingRuns, CommandTypes
<1>2. SidecarTyped
  BY <1>1 DEF SidecarInit, SidecarTyped
<1>3. PinsOf(manifest, installed, everPinned)
  BY DEF SidecarInit, PinsOf
<1>4. /\ NothingRuns.at = "idle" /\ NothingRuns.kind = "none" /\ NothingRuns.updates = {} /\ NothingRuns.todo = <<>>
      /\ NothingRuns.file = 1
  BY DEF NothingRuns
<1>5. FetchOf(command, manifest, archive, installed, partial) /\ RecordOf(command, archive)
  BY <1>1, <1>4 DEF FetchOf, RecordOf
<1>6. ended.how = "none"
  BY DEF SidecarInit, Nothing
<1> QED
  BY <1>1, <1>2, <1>3, <1>4, <1>5, <1>6 DEF PinsInv, DoneMeansDone

(* What holds while a command runs.                                         *)
LEMMA ACommandRuns ==
    ASSUME PinsInv, command.at \notin {"idle", "refused"}
    PROVE  /\ ~torn /\ manifest \in [Targets -> Versions \cup {UNRECORDED}] /\ ended.how # "ok"
           /\ command.at \in {"download", "read", "copy", "remove", "rename", "check"} =>
                 command.todo # <<>> /\ target \in Targets
<1>1. ~torn /\ command \in CommandTypes /\ manifest \in [Targets -> Versions \cup {UNRECORDED}]
  BY DEF PinsInv, SidecarTyped
<1>2. ended.how # "ok"
  BY DEF PinsInv, NothingRuns
<1>3. command.at \in {"copy", "remove", "rename", "check"} => command.kind = "fetch"
  BY DEF PinsInv, FetchOf
<1>4. command.kind = "fetch" => command.todo # <<>>
  BY DEF PinsInv, FetchOf
<1>5. command.at \in {"download", "read"} => command.todo # <<>>
  BY DEF PinsInv, RecordOf
<1>6. command.todo \in Seq(Targets)
  BY <1>1 DEF CommandTypes
<1> QED
  BY <1>1, <1>2, <1>3, <1>4, <1>5, <1>6 DEF target

(* However a command ends without having done it all.                       *)
LEMMA ACommandEnds ==
    ASSUME PinsInv, NEW how, NEW targets, how # "ok", CommandEnds(how, targets), UNCHANGED url,
           archive' \in [Targets -> Versions \cup {"none", "cut"}],
           manifest' = manifest \/ manifest' = TornManifest,
           installed' \in [Allowed -> Versions \cup {"none"}],
           \A f \in Allowed : installed'[f] \in {installed[f], "none"},
           partial' \in [Allowed -> Versions \cup {"none", "cut"}], UNCHANGED everPinned
    PROVE  PinsInv'
<1>1. command' = NothingRuns /\ NothingRuns \in CommandTypes /\ ended'.how # "ok"
  BY DEF CommandEnds, NothingRuns, CommandTypes
<1>2. SidecarTyped'
  BY <1>1 DEF PinsInv, SidecarTyped, torn
<1>3. PinsOf(manifest, installed, everPinned)'
  BY DEF PinsInv, PinsOf
<1>4. /\ NothingRuns.at = "idle" /\ NothingRuns.kind = "none" /\ NothingRuns.updates = {} /\ NothingRuns.todo = <<>>
      /\ NothingRuns.file = 1
  BY DEF NothingRuns
<1>5. FetchOf(command', manifest', archive', installed', partial') /\ RecordOf(command', archive')
  BY <1>1, <1>4 DEF FetchOf, RecordOf
<1> QED
  BY <1>1, <1>2, <1>3, <1>4, <1>5 DEF PinsInv, DoneMeansDone

(* A command that goes on, at another point of the same work.               *)
LEMMA ACommandGoes ==
    ASSUME PinsInv, command.at \notin {"idle", "refused"}, NEW cmd \in CommandTypes, command' = cmd, UNCHANGED <<ended, url, manifest, everPinned>>,
           cmd.at \notin {"idle", "refused"},
           archive' \in [Targets -> Versions \cup {"none", "cut"}],
           installed' \in [Allowed -> Versions \cup {"none"}],
           \A f \in Allowed : installed'[f] # "none" => installed'[f] \in everPinned,
           partial' \in [Allowed -> Versions \cup {"none", "cut"}],
           FetchOf(cmd, manifest, archive', installed', partial'), RecordOf(cmd, archive')
    PROVE  PinsInv'
<1>1. ~torn /\ manifest \in [Targets -> Versions \cup {UNRECORDED}] /\ ended.how # "ok"
  BY ACommandRuns
<1>2. SidecarTyped'
  BY <1>1 DEF PinsInv, SidecarTyped
<1>3. PinsOf(manifest', installed', everPinned') /\ ~torn'
  BY <1>1 DEF PinsInv, PinsOf, torn
<1>4. FetchOf(command', manifest', archive', installed', partial') /\ RecordOf(command', archive')
  OBVIOUS
<1> QED
  BY <1>1, <1>2, <1>3, <1>4 DEF PinsInv, DoneMeansDone

LEMMA StartsStays ==
    ASSUME PinsInv, NEW kind \in {"record", "fetch"}, NEW todo \in Seq(Targets), Starts(kind, todo), todo # <<>>,
           kind = "fetch" => \E t \in Targets : todo = <<t>>,
           \A i, j \in 1..Len(todo) : todo[i] = todo[j] => i = j
    PROVE  PinsInv'
<1> DEFINE where == IF torn THEN "refused" ELSE "download"
<1> DEFINE cmd == [NothingRuns EXCEPT !.at = where, !.kind = kind, !.todo = todo]
<1>1. /\ command' = cmd /\ ended' = Nothing
      /\ UNCHANGED <<manifest, url, archive, installed, partial, everPinned>>
  BY DEF Starts
<1>2. where \in {"refused", "download"} /\ (where = "download" => ~torn)
  OBVIOUS
<1> HIDE DEF where
<1>3. NothingRuns \in CommandTypes /\ NothingRuns.updates = {} /\ NothingRuns.file = 1
  BY DEF NothingRuns, CommandTypes
<1>4. /\ cmd \in CommandTypes /\ cmd.kind = kind /\ cmd.todo = todo /\ cmd.updates = {} /\ cmd.at = where
      /\ cmd.file = 1
  BY ONLY <1>2, <1>3, kind \in {"record", "fetch"}, todo \in Seq(Targets) DEF CommandTypes
<1> HIDE DEF cmd
<1>5. FetchOf(cmd, manifest, archive, installed, partial)
  BY <1>2, <1>4 DEF FetchOf
<1>6. RecordOf(cmd, archive)
  BY <1>2, <1>4 DEF RecordOf
<1>7. ended'.how # "ok"
  BY <1>1 DEF Nothing
<1>8. SidecarTyped' /\ PinsOf(manifest', installed', everPinned') /\ torn' = torn
  BY <1>1, <1>4 DEF PinsInv, SidecarTyped, torn
<1> QED
  BY <1>1, <1>2, <1>4, <1>5, <1>6, <1>7, <1>8 DEF PinsInv, DoneMeansDone

(* The downloads.                                                           *)
LEMMA downloadStays == PinsInv /\ download => PinsInv'
<1> SUFFICES ASSUME PinsInv, download PROVE PinsInv'
  OBVIOUS
<1>1. /\ command.at = "download" /\ (command.kind = "fetch" => manifest[target] # UNRECORDED)
      /\ UNCHANGED <<manifest, url, installed, partial, everPinned>>
  BY DEF download
<1>2. /\ command \in CommandTypes /\ url \in [Targets -> Versions] /\ archive \in [Targets -> Versions \cup {"none", "cut"}]
      /\ installed \in [Allowed -> Versions \cup {"none"}] /\ partial \in [Allowed -> Versions \cup {"none", "cut"}]
      /\ command.todo # <<>> /\ target \in Targets /\ command.at \notin {"idle", "refused"}
      /\ \A f \in Allowed : installed[f] # "none" => installed[f] \in everPinned
  BY <1>1, ACommandRuns DEF PinsInv, SidecarTyped, PinsOf
<1>3. ASSUME NEW v \in Versions \cup {"cut"}, archive' = [archive EXCEPT ![target] = v], CommandGoes("read")
      PROVE  PinsInv'
  <2> DEFINE cmd == [command EXCEPT !.at = "read"]
  <2>1. command' = cmd /\ ended' = ended
    BY <1>3 DEF CommandGoes
  <2>2. /\ cmd \in CommandTypes /\ cmd.at = "read" /\ cmd.kind = command.kind /\ cmd.todo = command.todo
        /\ cmd.updates = command.updates /\ cmd.file = command.file
    BY ONLY <1>2 DEF CommandTypes
  <2> HIDE DEF cmd
  <2>3. /\ archive' \in [Targets -> Versions \cup {"none", "cut"}] /\ archive'[target] # "none"
        /\ \A t \in Targets : t # target => archive'[t] = archive[t]
    BY <1>2, <1>3, SidecarAssumption
  <2>4. FetchOf(cmd, manifest, archive', installed', partial')
    BY <1>1, <1>2, <2>2 DEF FetchOf, PinsInv, target
  <2>5. RecordOf(cmd, archive')
    <3>1. RecordOf(command, archive) /\ command.todo \in Seq(Targets) /\ target = command.todo[1]
          /\ Len(command.todo) \in Nat \ {0} /\ command.updates \subseteq Targets \X Versions
      BY <1>2 DEF PinsInv, CommandTypes, target
    <3>2. ASSUME NEW u \in command.updates PROVE u[1] # target /\ u[1] \in Targets
      BY <3>1 DEF RecordOf
    <3> QED
      BY <1>1, <1>2, <2>2, <2>3, <3>1, <3>2 DEF RecordOf, target
  <2> QED
    BY <1>1, <1>2, <2>1, <2>2, <2>3, <2>4, <2>5, ACommandGoes
<1>4. ASSUME archive' \in {archive, [archive EXCEPT ![target] = "cut"]}, CommandEnds("failed", {})
      PROVE  PinsInv'
  <2>1. archive' \in [Targets -> Versions \cup {"none", "cut"}]
    BY <1>2, <1>4
  <2> QED
    BY <1>1, <1>2, <1>4, <2>1, ACommandEnds
<1>5. url[target] \in Versions
  BY <1>2
<1> QED
  BY <1>3, <1>4, <1>5 DEF download

LEMMA RecordsHashStays == PinsInv /\ RecordsHash => PinsInv'
<1> SUFFICES ASSUME PinsInv, RecordsHash PROVE PinsInv'
  OBVIOUS
<1>1. /\ command.at = "read" /\ command.kind = "record"
      /\ UNCHANGED <<manifest, url, archive, installed, partial, everPinned>>
  BY DEF RecordsHash
<1>2. /\ command \in CommandTypes /\ archive \in [Targets -> Versions \cup {"none", "cut"}]
      /\ installed \in [Allowed -> Versions \cup {"none"}] /\ partial \in [Allowed -> Versions \cup {"none", "cut"}]
      /\ command.todo # <<>> /\ target \in Targets /\ command.at \notin {"idle", "refused"}
      /\ \A f \in Allowed : installed[f] # "none" => installed[f] \in everPinned
      /\ RecordOf(command, archive) /\ target = command.todo[1]
  BY <1>1, ACommandRuns DEF PinsInv, SidecarTyped, PinsOf, target
<1>3. CASE scan(archive[target])
  <2> DEFINE where == IF Len(command.todo) = 1 THEN "write" ELSE "download"
  <2> DEFINE cmd == [command EXCEPT !.updates = @ \cup {<<target, archive[target]>>}, !.todo = Tail(@), !.at = where]
  <2>1. command' = cmd /\ ended' = ended
    BY <1>3 DEF RecordsHash
  <2>2. /\ command.todo \in Seq(Targets) /\ Len(command.todo) \in Nat \ {0} /\ Tail(command.todo) \in Seq(Targets)
        /\ Len(Tail(command.todo)) = Len(command.todo) - 1
        /\ \A i \in 1..Len(Tail(command.todo)) : Tail(command.todo)[i] = command.todo[i + 1] /\ i + 1 \in 1..Len(command.todo) /\ i + 1 # 1
    BY <1>2 DEF CommandTypes
  <2>3. /\ where \in {"write", "download"} /\ (where = "download" => Tail(command.todo) # <<>>)
    <3>1. CASE Len(command.todo) = 1
      BY <3>1
    <3>2. CASE Len(command.todo) # 1
      <4>1. Len(Tail(command.todo)) # 0
        BY <2>2, <3>2
      <4>2. \A rest \in Seq(Targets) : Len(rest) # 0 => rest # <<>>
        OBVIOUS
      <4> QED
        BY <2>2, <3>2, <4>1, <4>2
    <3> QED
      BY <3>1, <3>2
  <2> HIDE DEF where
  <2>4. archive[target] \in Versions
    BY <1>1, <1>2, <1>3, SidecarAssumption DEF scan, open_archive, RecordOf, target
  <2>5. command.updates \cup {<<target, archive[target]>>} \subseteq Targets \X Versions
    BY <1>2, <2>4 DEF CommandTypes
  <2>6. /\ cmd \in CommandTypes /\ cmd.at = where /\ cmd.kind = command.kind /\ cmd.todo = Tail(command.todo)
        /\ cmd.updates = command.updates \cup {<<target, archive[target]>>} /\ cmd.file = command.file
    BY ONLY <1>2, <2>2, <2>3, <2>5 DEF CommandTypes
  <2> HIDE DEF cmd
  <2>7. FetchOf(cmd, manifest, archive', installed', partial')
    BY <1>1, <2>3, <2>6 DEF FetchOf, PinsInv
  <2>8. RecordOf(cmd, archive')
    <3>1. ASSUME NEW u \in cmd.updates
          PROVE  u[2] = archive'[u[1]] /\ scan(u[2]) /\ \A i \in 1..Len(cmd.todo) : cmd.todo[i] # u[1]
      <4>1. CASE u = <<target, archive[target]>>
        BY <1>1, <1>2, <1>3, <2>2, <2>6, <4>1 DEF RecordOf
      <4>2. CASE u \in command.updates
        BY <1>1, <1>2, <2>2, <2>6, <4>2 DEF RecordOf
      <4> QED
        BY <3>1, <4>1, <4>2, <2>6
    <3>2. \A i, j \in 1..Len(cmd.todo) : cmd.todo[i] = cmd.todo[j] => i = j
      BY <1>2, <2>2, <2>6 DEF RecordOf
    <3> QED
      BY <1>1, <2>3, <2>6, <3>1, <3>2 DEF RecordOf
  <2> QED
    BY <1>1, <1>2, <2>1, <2>3, <2>6, <2>7, <2>8, ACommandGoes
<1>4. CASE ~scan(archive[target])
  <2>1. CommandEnds("failed", {})
    BY <1>4 DEF RecordsHash
  <2> QED
    BY <1>1, <1>2, <2>1, ACommandEnds
<1> QED
  BY <1>3, <1>4

(* All the pins at once: each is the hash of what was downloaded.           *)
LEMMA RecordWritesStays == PinsInv /\ RecordWrites => PinsInv'
<1> SUFFICES ASSUME PinsInv, RecordWrites PROVE PinsInv'
  OBVIOUS
<1>1. /\ command.at = "write" /\ command.kind = "record" /\ command.at \notin {"idle", "refused"}
      /\ UNCHANGED <<url, archive, installed, partial>>
  BY DEF RecordWrites, PinsInv, RecordOf
<1>2. /\ command \in CommandTypes /\ archive \in [Targets -> Versions \cup {"none", "cut"}]
      /\ installed \in [Allowed -> Versions \cup {"none"}] /\ partial \in [Allowed -> Versions \cup {"none", "cut"}]
      /\ manifest \in [Targets -> Versions \cup {UNRECORDED}] /\ RecordOf(command, archive)
      /\ PinsOf(manifest, installed, everPinned) /\ ~torn
  BY <1>1, ACommandRuns DEF PinsInv, SidecarTyped
<1>3. CASE /\ manifest' = rewrite_sha256(manifest, command.updates)
           /\ everPinned' = everPinned \cup {u[2] : u \in command.updates}
           /\ CommandEnds("ok", Updated)
  <2>1. /\ command' = NothingRuns /\ NothingRuns \in CommandTypes
        /\ ended' = [kind |-> "record", how |-> "ok", targets |-> Updated]
    BY <1>1, <1>3 DEF CommandEnds, NothingRuns, CommandTypes
  <2>2. command.updates \subseteq Targets \X Versions
    BY <1>2 DEF CommandTypes
  <2>3. ASSUME NEW t \in Targets, t \in Updated
        PROVE  manifest'[t] = archive[t] /\ archive[t] \in Versions /\ scan(archive[t]) /\ archive[t] \in everPinned'
    <3>1. PICK u \in command.updates : u[1] = t
      BY <2>3 DEF Updated
    <3>2. u = <<t, u[2]>> /\ u[2] = archive[t] /\ scan(u[2]) /\ u[2] \in Versions
      BY <1>2, <2>2, <3>1 DEF RecordOf
    <3>3. \A v \in Versions : <<t, v>> \in command.updates => v = archive[t]
      BY <1>2 DEF RecordOf
    <3>4. manifest'[t] = archive[t]
      BY <1>3, <3>1, <3>2, <3>3 DEF rewrite_sha256
    <3> QED
      BY <1>3, <3>1, <3>2, <3>4
  <2>4. ASSUME NEW t \in Targets, t \notin Updated PROVE manifest'[t] = manifest[t]
    <3>1. ~\E v \in Versions : <<t, v>> \in command.updates
      <4>1. ASSUME NEW v \in Versions, <<t, v>> \in command.updates PROVE FALSE
        <5>1. <<t, v>>[1] \in Updated
          BY <4>1 DEF Updated
        <5> QED
          BY <2>4, <5>1
      <4> QED
        BY <4>1
    <3> QED
      BY <1>3, <3>1 DEF rewrite_sha256
  <2>5. manifest' \in [Targets -> Versions \cup {UNRECORDED}]
    <3>1. \A t \in Targets : manifest'[t] \in Versions \cup {UNRECORDED}
      BY <1>2, <2>3, <2>4
    <3> QED
      BY <1>3, <3>1 DEF rewrite_sha256
  <2>6. PinsOf(manifest', installed', everPinned')
    <3>1. \A t \in Targets : manifest'[t] \in everPinned'
      BY <1>2, <1>3, <2>3, <2>4 DEF PinsOf, torn
    <3>2. \A f \in Allowed : installed'[f] # "none" => installed'[f] \in everPinned'
      BY <1>1, <1>2, <1>3 DEF PinsOf
    <3> QED
      BY <3>1, <3>2 DEF PinsOf
  <2>7. /\ NothingRuns.at = "idle" /\ NothingRuns.kind = "none" /\ NothingRuns.updates = {} /\ NothingRuns.todo = <<>>
      /\ NothingRuns.file = 1
    BY DEF NothingRuns
  <2>8. FetchOf(command', manifest', archive', installed', partial') /\ RecordOf(command', archive')
    BY <2>1, <2>7 DEF FetchOf, RecordOf
  <2>9. DoneMeansDone'
    <3>1. ended'.kind = "record" /\ ended'.targets = Updated
      BY <2>1
    <3>2. \A t \in Updated : t \in Targets
      BY <2>2 DEF Updated
    <3> QED
      BY <1>1, <2>3, <3>1, <3>2 DEF DoneMeansDone, scan, open_archive, validate_entry_path
  <2>10. SidecarTyped'
    BY <1>1, <2>1, <2>5 DEF PinsInv, SidecarTyped
  <2> QED
    BY <2>1, <2>6, <2>7, <2>8, <2>9, <2>10 DEF PinsInv
<1>4. CASE manifest' = TornManifest /\ CommandEnds("failed", {}) /\ UNCHANGED everPinned
  BY <1>1, <1>2, <1>4, ACommandEnds
<1> QED
  BY <1>3, <1>4 DEF RecordWrites

-----------------------------------------------------------------------------
(* The steps of a fetch.                                                    *)

(* Where a fetch that extracts stands.                                      *)
LEMMA AFetchRuns ==
    ASSUME PinsInv, command.at \in {"copy", "remove", "rename", "check"}
    PROVE  /\ command \in CommandTypes /\ archive \in [Targets -> Versions \cup {"none", "cut"}]
           /\ installed \in [Allowed -> Versions \cup {"none"}] /\ partial \in [Allowed -> Versions \cup {"none", "cut"}]
           /\ manifest \in [Targets -> Versions \cup {UNRECORDED}] /\ RecordOf(command, archive) /\ ~torn
           /\ \A f \in Allowed : installed[f] # "none" => installed[f] \in everPinned
           /\ target \in Targets /\ archive[target] = manifest[target] /\ manifest[target] \in Versions
           /\ manifest[target] \in everPinned /\ command.kind = "fetch" /\ command.file \in Nat
           /\ \E t \in Targets : command.todo = <<t>>
           /\ \A f \in Allowed : f < command.file \/ command.at = "check" => installed[f] = manifest[target]
           /\ command.at \in {"remove", "rename"} => \A f \in Allowed : f = command.file => partial[f] = manifest[target]
<1>1. /\ command \in CommandTypes /\ archive \in [Targets -> Versions \cup {"none", "cut"}]
      /\ installed \in [Allowed -> Versions \cup {"none"}] /\ partial \in [Allowed -> Versions \cup {"none", "cut"}]
      /\ RecordOf(command, archive) /\ FetchOf(command, manifest, archive, installed, partial)
      /\ PinsOf(manifest, installed, everPinned)
  BY DEF PinsInv, SidecarTyped
<1>2. ~torn /\ manifest \in [Targets -> Versions \cup {UNRECORDED}] /\ target \in Targets
  BY ACommandRuns
<1>3. /\ \A f \in Allowed : installed[f] # "none" => installed[f] \in everPinned
      /\ manifest[target] \in everPinned
  BY <1>1, <1>2 DEF PinsOf, torn
<1>4. command.file \in Nat
  BY <1>1 DEF CommandTypes
<1> QED
  BY <1>1, <1>2, <1>3, <1>4 DEF FetchOf, target

LEMMA verify_sha256Stays == PinsInv /\ verify_sha256 => PinsInv'
<1> SUFFICES ASSUME PinsInv, verify_sha256 PROVE PinsInv'
  OBVIOUS
<1>1. /\ command.at = "read" /\ command.kind = "fetch" /\ command.at \notin {"idle", "refused"}
      /\ UNCHANGED <<manifest, url, archive, installed, partial, everPinned>>
  BY DEF verify_sha256
<1>2. /\ command \in CommandTypes /\ archive \in [Targets -> Versions \cup {"none", "cut"}]
      /\ installed \in [Allowed -> Versions \cup {"none"}] /\ partial \in [Allowed -> Versions \cup {"none", "cut"}]
      /\ manifest \in [Targets -> Versions \cup {UNRECORDED}] /\ target \in Targets
      /\ RecordOf(command, archive) /\ PinsOf(manifest, installed, everPinned)
      /\ FetchOf(command, manifest, archive, installed, partial)
  BY <1>1, ACommandRuns DEF PinsInv, SidecarTyped
<1>3. CASE archive[target] = manifest[target] /\ CommandGoes("copy")
  <2> DEFINE cmd == [command EXCEPT !.at = "copy"]
  <2>1. command' = cmd /\ ended' = ended
    BY <1>3 DEF CommandGoes
  <2>2. /\ cmd \in CommandTypes /\ cmd.at = "copy" /\ cmd.kind = command.kind /\ cmd.todo = command.todo
        /\ cmd.updates = command.updates /\ cmd.file = command.file
    BY ONLY <1>2 DEF CommandTypes
  <2> HIDE DEF cmd
  <2>3. manifest[target] \in Versions
    BY <1>1, <1>2 DEF FetchOf, target
  <2>4. FetchOf(cmd, manifest, archive', installed', partial')
    <3>1. command.file = 1 /\ \E t \in Targets : command.todo = <<t>>
      BY <1>1, <1>2 DEF FetchOf
    <3>2. \A f \in Allowed : ~(f < cmd.file)
      BY <2>2, <3>1, SidecarAssumption DEF Allowed
    <3> QED
      BY <1>1, <1>2, <1>3, <2>2, <2>3, <3>1, <3>2 DEF FetchOf, target
  <2>5. RecordOf(cmd, archive')
    BY <1>1, <1>2, <2>2 DEF RecordOf
  <2> QED
    BY <1>1, <1>2, <2>1, <2>2, <2>4, <2>5, ACommandGoes DEF PinsOf
<1>4. CASE CommandEnds("failed", {})
  BY <1>1, <1>2, <1>4, ACommandEnds
<1> QED
  BY <1>3, <1>4 DEF verify_sha256

(* One more file of the fetch: into its .part, and from there into place.   *)
LEMMA AFetchGoes ==
    ASSUME PinsInv, command.at \in {"copy", "remove", "rename", "check"}, NEW where \in {"remove", "rename"},
           CommandGoes(where), UNCHANGED <<manifest, url, archive, everPinned>>,
           installed' \in [Allowed -> Versions \cup {"none"}], partial' \in [Allowed -> Versions \cup {"none", "cut"}],
           \A f \in Allowed : f # command.file => installed'[f] = installed[f],
           \A f \in Allowed : f = command.file => /\ installed'[f] \in {installed[f], "none"}
                                                  /\ partial'[f] = manifest[target],
           command.at # "check"
    PROVE  PinsInv'
<1> DEFINE cmd == [command EXCEPT !.at = where]
<1>1. command' = cmd /\ ended' = ended
  BY DEF CommandGoes
<1>2. /\ command \in CommandTypes /\ RecordOf(command, archive)
      /\ \A f \in Allowed : installed[f] # "none" => installed[f] \in everPinned
      /\ target \in Targets /\ archive[target] = manifest[target] /\ manifest[target] \in Versions
      /\ command.kind = "fetch" /\ command.file \in Nat /\ command.at \notin {"idle", "refused"}
      /\ \E t \in Targets : command.todo = <<t>>
      /\ \A f \in Allowed : f < command.file => installed[f] = manifest[target]
      /\ archive \in [Targets -> Versions \cup {"none", "cut"}]
  BY AFetchRuns
<1>3. /\ cmd \in CommandTypes /\ cmd.at = where /\ cmd.kind = command.kind /\ cmd.todo = command.todo
      /\ cmd.updates = command.updates /\ cmd.file = command.file
  BY ONLY <1>2, where \in {"remove", "rename"} DEF CommandTypes
<1> HIDE DEF cmd
<1>4. FetchOf(cmd, manifest, archive', installed', partial')
  <2>1. \A f \in Allowed : f < cmd.file => installed'[f] = manifest[target]
    BY <1>2, <1>3 DEF Allowed
  <2> QED
    BY <1>2, <1>3, <2>1 DEF FetchOf, target
<1>5. RecordOf(cmd, archive')
  BY <1>2, <1>3 DEF RecordOf
<1>6. \A f \in Allowed : installed'[f] # "none" => installed'[f] \in everPinned
  BY <1>2
<1> QED
  BY <1>1, <1>2, <1>3, <1>4, <1>5, <1>6, ACommandGoes

LEMMA write_entry_to_diskStays == PinsInv /\ write_entry_to_disk => PinsInv'
<1> SUFFICES ASSUME PinsInv, write_entry_to_disk PROVE PinsInv'
  OBVIOUS
<1>1. /\ command.at = "copy" /\ UNCHANGED <<manifest, url, archive, installed, everPinned>>
  BY DEF write_entry_to_disk
<1>2. /\ archive \in [Targets -> Versions \cup {"none", "cut"}] /\ target \in Targets
      /\ installed \in [Allowed -> Versions \cup {"none"}] /\ partial \in [Allowed -> Versions \cup {"none", "cut"}]
      /\ archive[target] = manifest[target] /\ manifest[target] \in Versions
  BY <1>1, AFetchRuns
<1>3. CASE partial' = [partial EXCEPT ![command.file] = archive[target]] /\ CommandGoes("remove")
  <2>1. /\ installed' \in [Allowed -> Versions \cup {"none"}] /\ partial' \in [Allowed -> Versions \cup {"none", "cut"}]
        /\ \A f \in Allowed : f # command.file => installed'[f] = installed[f]
        /\ \A f \in Allowed : f = command.file => installed'[f] \in {installed[f], "none"} /\ partial'[f] = manifest[target]
    BY <1>1, <1>2, <1>3
  <2>2. /\ command.at \in {"copy", "remove", "rename", "check"} /\ command.at # "check" /\ CommandGoes("remove")
        /\ UNCHANGED <<manifest, url, archive, everPinned>>
    BY <1>1, <1>3
  <2> QED
    BY <2>1, <2>2, AFetchGoes
<1>4. CASE partial' = [partial EXCEPT ![command.file] = "none"] /\ CommandEnds("failed", {})
  BY <1>1, <1>2, <1>4, ACommandEnds
<1> QED
  BY <1>3, <1>4 DEF write_entry_to_disk

LEMMA RemovesOldStays == PinsInv /\ RemovesOld => PinsInv'
<1> SUFFICES ASSUME PinsInv, RemovesOld PROVE PinsInv'
  OBVIOUS
<1>1. /\ command.at = "remove" /\ UNCHANGED <<manifest, url, archive, partial, everPinned>>
  BY DEF RemovesOld
<1>2. /\ archive \in [Targets -> Versions \cup {"none", "cut"}]
      /\ installed \in [Allowed -> Versions \cup {"none"}] /\ partial \in [Allowed -> Versions \cup {"none", "cut"}]
      /\ \A f \in Allowed : f = command.file => partial[f] = manifest[target]
  BY <1>1, AFetchRuns
<1>3. CASE installed' = [installed EXCEPT ![command.file] = "none"] /\ CommandGoes("rename")
  <2>1. /\ installed' \in [Allowed -> Versions \cup {"none"}] /\ partial' \in [Allowed -> Versions \cup {"none", "cut"}]
        /\ \A f \in Allowed : f # command.file => installed'[f] = installed[f]
        /\ \A f \in Allowed : f = command.file => installed'[f] \in {installed[f], "none"} /\ partial'[f] = manifest[target]
    BY <1>1, <1>2, <1>3
  <2>2. /\ command.at \in {"copy", "remove", "rename", "check"} /\ command.at # "check" /\ CommandGoes("rename")
        /\ UNCHANGED <<manifest, url, archive, everPinned>>
    BY <1>1, <1>3
  <2> QED
    BY <2>1, <2>2, AFetchGoes
<1>4. CASE CommandEnds("failed", {}) /\ UNCHANGED installed
  BY <1>1, <1>2, <1>4, ACommandEnds
<1> QED
  BY <1>3, <1>4 DEF RemovesOld

LEMMA RenamesIntoPlaceStays == PinsInv /\ RenamesIntoPlace => PinsInv'
<1> SUFFICES ASSUME PinsInv, RenamesIntoPlace PROVE PinsInv'
  OBVIOUS
<1>1. command.at = "rename" /\ command.at \notin {"idle", "refused"} /\ UNCHANGED <<manifest, url, archive, everPinned>>
  BY DEF RenamesIntoPlace
<1>2. /\ command \in CommandTypes /\ RecordOf(command, archive)
      /\ installed \in [Allowed -> Versions \cup {"none"}] /\ partial \in [Allowed -> Versions \cup {"none", "cut"}]
      /\ \A f \in Allowed : installed[f] # "none" => installed[f] \in everPinned
      /\ target \in Targets /\ archive[target] = manifest[target] /\ manifest[target] \in Versions
      /\ command.kind = "fetch" /\ command.file \in Nat /\ manifest[target] \in everPinned
      /\ \E t \in Targets : command.todo = <<t>>
      /\ \A f \in Allowed : f < command.file => installed[f] = manifest[target]
      /\ archive \in [Targets -> Versions \cup {"none", "cut"}]
      /\ \A f \in Allowed : f = command.file => partial[f] = manifest[target]
  BY <1>1, AFetchRuns
<1>3. CASE /\ installed' = [installed EXCEPT ![command.file] = partial[command.file]]
           /\ partial' = [partial EXCEPT ![command.file] = "none"]
           /\ command' = [command EXCEPT !.file = @ + 1, !.at = IF command.file = Len(Binaries) THEN "check" ELSE "copy"]
           /\ UNCHANGED ended
  <2> DEFINE where == IF command.file = Len(Binaries) THEN "check" ELSE "copy"
  <2> DEFINE cmd == [command EXCEPT !.file = @ + 1, !.at = where]
  <2>1. command' = cmd /\ ended' = ended
    BY <1>3
  <2>2. where \in {"copy", "check"} /\ (where = "check" => command.file = Len(Binaries)) /\ command.file + 1 \in Nat
    BY <1>2
  <2> HIDE DEF where
  <2>3. /\ cmd \in CommandTypes /\ cmd.at = where /\ cmd.kind = command.kind /\ cmd.todo = command.todo
        /\ cmd.updates = command.updates /\ cmd.file = command.file + 1
    BY ONLY <1>2, <2>2 DEF CommandTypes
  <2> HIDE DEF cmd
  <2>4. /\ installed' \in [Allowed -> Versions \cup {"none"}] /\ partial' \in [Allowed -> Versions \cup {"none", "cut"}]
        /\ \A f \in Allowed : f < command.file + 1 => installed'[f] = manifest[target]
        /\ \A f \in Allowed : installed'[f] # "none" => installed'[f] \in everPinned
    <3>1. \A f \in Allowed : f # command.file => installed'[f] = installed[f]
      BY <1>2, <1>3
    <3>2. \A f \in Allowed : f = command.file => installed'[f] = manifest[target]
      BY <1>2, <1>3
    <3>3. \A f \in Allowed : installed'[f] \in Versions \cup {"none"}
      BY <1>2, <3>1, <3>2
    <3>4. \A f \in Allowed : f < command.file + 1 => f < command.file \/ f = command.file
      BY <1>2 DEF Allowed
    <3>5. partial' \in [Allowed -> Versions \cup {"none", "cut"}] /\ installed' \in [Allowed -> Versions \cup {"none"}]
      BY <1>2, <1>3, <3>3
    <3> QED
      BY <1>2, <3>1, <3>2, <3>4, <3>5
  <2>5. FetchOf(cmd, manifest, archive', installed', partial')
    <3>1. where = "check" => \A f \in Allowed : f < command.file + 1
      BY <1>2, <2>2, SidecarAssumption DEF Allowed
    <3>2. \A f \in Allowed : f < cmd.file \/ cmd.at = "check" => installed'[f] = manifest[target]
      BY <2>3, <2>4, <3>1
    <3> QED
      BY <1>1, <1>2, <2>2, <2>3, <3>2 DEF FetchOf, target
  <2>6. RecordOf(cmd, archive')
    BY <1>1, <1>2, <2>2, <2>3 DEF RecordOf
  <2> QED
    BY <1>1, <1>2, <2>1, <2>2, <2>3, <2>4, <2>5, <2>6, ACommandGoes
<1>4. CASE CommandEnds("failed", {}) /\ UNCHANGED <<installed, partial>>
  BY <1>1, <1>2, <1>4, ACommandEnds
<1> QED
  BY <1>3, <1>4 DEF RenamesIntoPlace

LEMMA first_line_of_versionStays == PinsInv /\ first_line_of_version => PinsInv'
<1> SUFFICES ASSUME PinsInv, first_line_of_version PROVE PinsInv'
  OBVIOUS
<1>1. command.at = "check" /\ UNCHANGED <<manifest, url, archive, installed, partial, everPinned>>
  BY DEF first_line_of_version
<1>2. /\ target \in Targets /\ command.kind = "fetch" /\ \A f \in Allowed : installed[f] = manifest[target]
      /\ archive \in [Targets -> Versions \cup {"none", "cut"}]
      /\ installed \in [Allowed -> Versions \cup {"none"}] /\ partial \in [Allowed -> Versions \cup {"none", "cut"}]
  BY <1>1, AFetchRuns
<1>3. CASE CommandEnds("ok", {target})
  <2>1. /\ command' = NothingRuns /\ NothingRuns \in CommandTypes
        /\ ended' = [kind |-> "fetch", how |-> "ok", targets |-> {target}]
    BY <1>2, <1>3 DEF CommandEnds, NothingRuns, CommandTypes
  <2>2. DoneMeansDone'
    BY <1>1, <1>2, <2>1 DEF DoneMeansDone
  <2>3. SidecarTyped' /\ PinsOf(manifest', installed', everPinned')
    BY <1>1, <2>1 DEF PinsInv, SidecarTyped, torn
  <2>4. /\ NothingRuns.at = "idle" /\ NothingRuns.kind = "none" /\ NothingRuns.updates = {} /\ NothingRuns.todo = <<>>
        /\ NothingRuns.file = 1
    BY DEF NothingRuns
  <2>5. FetchOf(command', manifest', archive', installed', partial') /\ RecordOf(command', archive')
    BY <2>1, <2>4 DEF FetchOf, RecordOf
  <2> QED
    BY <2>1, <2>2, <2>3, <2>4, <2>5 DEF PinsInv
<1>4. CASE CommandEnds("failed", {})
  BY <1>1, <1>2, <1>4, ACommandEnds
<1> QED
  BY <1>3, <1>4 DEF first_line_of_version

LEMMA KilledStays == PinsInv /\ Killed => PinsInv'
<1> SUFFICES ASSUME PinsInv, Killed PROVE PinsInv'
  OBVIOUS
<1>1. /\ CommandEnds("killed", {}) /\ UNCHANGED <<url, installed, everPinned>>
      /\ archive' = IF command.at = "download" THEN [archive EXCEPT ![target] = "cut"] ELSE archive
      /\ manifest' = IF command.at = "write" THEN TornManifest ELSE manifest
      /\ partial' = IF command.at = "copy" THEN [partial EXCEPT ![command.file] = "cut"] ELSE partial
  BY DEF Killed
<1>2. /\ archive \in [Targets -> Versions \cup {"none", "cut"}]
      /\ installed \in [Allowed -> Versions \cup {"none"}] /\ partial \in [Allowed -> Versions \cup {"none", "cut"}]
  BY DEF PinsInv, SidecarTyped
<1>3. archive' \in [Targets -> Versions \cup {"none", "cut"}] /\ partial' \in [Allowed -> Versions \cup {"none", "cut"}]
  BY <1>1, <1>2
<1> QED
  BY <1>1, <1>2, <1>3, ACommandEnds

(* A step of the tool keeps the invariant, whatever it is and is cut by.    *)
LEMMA PinsStay == PinsInv /\ [SidecarNext]_sidecarVars => PinsInv'
<1> SUFFICES ASSUME PinsInv, [SidecarNext]_sidecarVars PROVE PinsInv'
  OBVIOUS
<1>1. CASE UNCHANGED sidecarVars
  BY <1>1 DEF sidecarVars, PinsInv, SidecarTyped, torn, DoneMeansDone
<1>2. ASSUME NEW t \in Targets, Release(t) PROVE PinsInv'
  <2>1. url' \in [Targets -> Versions] /\ UNCHANGED <<manifest, archive, installed, partial, command, ended, everPinned>>
    BY <1>2 DEF Release, PinsInv, SidecarTyped
  <2> QED
    BY <2>1 DEF PinsInv, SidecarTyped, torn, DoneMeansDone
<1>3. ASSUME NEW t \in Targets, fetch(t) PROVE PinsInv'
  <2>1. <<t>> \in Seq(Targets) /\ <<t>> # <<>> /\ \A i, j \in 1..Len(<<t>>) : <<t>>[i] = <<t>>[j] => i = j
    OBVIOUS
  <2>2. Starts("fetch", <<t>>)
    BY <1>3 DEF fetch
  <2> QED
    BY <2>1, <2>2, StartsStays
<1>4. CASE record_pins
  <2>1. ASSUME NEW t \in Targets, Starts("record", <<t>>) PROVE PinsInv'
    <3>1. <<t>> \in Seq(Targets) /\ <<t>> # <<>> /\ \A i, j \in 1..Len(<<t>>) : <<t>>[i] = <<t>>[j] => i = j
      OBVIOUS
    <3> QED
      BY <2>1, <3>1, StartsStays
  <2>2. ASSUME NEW t \in Targets, NEW u \in Targets, t # u, Starts("record", <<t, u>>) PROVE PinsInv'
    <3>1. <<t, u>> \in Seq(Targets) /\ <<t, u>> # <<>>
      OBVIOUS
    <3>2. \A i, j \in 1..Len(<<t, u>>) : <<t, u>>[i] = <<t, u>>[j] => i = j
      BY <2>2
    <3> QED
      BY <2>2, <3>1, <3>2, StartsStays
  <2> QED
    BY <1>4, <2>1, <2>2 DEF record_pins
<1>5. CASE Refuses
  <2>1. /\ CommandEnds("failed", {})
        /\ UNCHANGED <<manifest, url, archive, installed, partial, everPinned>>
    BY <1>5 DEF Refuses
  <2> QED
    BY <2>1, ACommandEnds DEF PinsInv, SidecarTyped
<1> QED
  BY <1>1, <1>2, <1>3, <1>4, <1>5, downloadStays, RecordsHashStays, RecordWritesStays,
     verify_sha256Stays, write_entry_to_diskStays, RemovesOldStays, RenamesIntoPlaceStays,
     first_line_of_versionStays, KilledStays DEF SidecarNext

LEMMA ThePinsAreKept == PinsInv => PinsAreKept
<1> SUFFICES ASSUME PinsInv PROVE PinsAreKept
  OBVIOUS
<1>1. \A f \in Allowed : installed[f] # "none" => installed[f] \in everPinned \cap Versions
  BY DEF PinsInv, PinsOf, SidecarTyped
<1> QED
  BY <1>1 DEF PinsInv, PinsAreKept, BinariesWerePinned

-----------------------------------------------------------------------------
(* --- the acceptance run ------------------------------------------------- *)
Outcomes == {"Pass", "Fail", "NotPerformed"}
RowTypes == [id : AllChecks \cup {"buffer_run", "clip_probe"}, outcome : Outcomes]

(* At which step of the harness each check is judged, and how many of the   *)
(* steps are behind it at each point of the run.                            *)
JudgedAt ==
    [sandbox |-> 1, toolchain |-> 2, ffmpeg |-> 2, build |-> 3, encoder_probe |-> 4,
     run_exit |-> 5, startup |-> 5, capture_started |-> 5,
     frames_flowing |-> 6, frame_rate |-> 6, configured_rate_reached |-> 6, dropped |-> 6,
     skipped_readback_skip |-> 6, media_vs_real_time |-> 6, ram_cap |-> 7, eviction |-> 7,
     wasapi_autoconversion |-> 8, silence_detector |-> 8, cpu |-> 9, rss |-> 9,
     clip_written |-> 10, clip_trigger_to_write |-> 10, clip_duration |-> 11, clip_streams |-> 11,
     clip_stream_copy |-> 12, clip_hardware_encoder |-> 12, clip_av_drift |-> 13,
     clip_audio_not_silent |-> 13, clip_not_black |-> 13, criterion7_startup_failure |-> 14]
Behind ==
    [parse |-> 0, sandbox |-> 0, environment |-> 1, build |-> 2, probe |-> 3, buffer |-> 4, process |-> 4,
     status |-> 5, no_status |-> 5, ring |-> 6, endpoint |-> 7, cost |-> 8, clip |-> 9, clip_media |-> 10,
     clip_codec |-> 11, clip_content |-> 12, criterion7 |-> 13, refusal |-> 13, report |-> 14]
Words == {"buffering", "geometry", "wgc", "status", "wasapi", "trigger", "drift", "wrote", "named", "reason"}
RunTypes ==
    [for : {"none", "buffer", "criterion7"}, said : SUBSET Words, next : Nat \ {0}, code : {"none", "error", "zero"}]
Points == {"running", "done"} \cup DOMAIN Behind
Passed(at, what) == IF at = "running" THEN IF what = "buffer" THEN 4 ELSE 13 ELSE Behind[at]

Clean(rs) == \A i \in 1..Len(rs) : rs[i].outcome # "Fail"
Ids(rs) == {rs[i].id : i \in 1..Len(rs)}
OnceEach(rs) == \A i, j \in 1..Len(rs) : rs[i].id = rs[j].id => i = j
Due == AllChecks \ Unreported
Expected(k) == {id \in Due : JudgedAt[id] = k}

(* Unless a row failed, there is one row for each check of the steps behind.*)
Complete(rs, k, all) == Clean(rs) => OnceEach(rs) /\ Ids(rs) = {id \in all : JudgedAt[id] <= k}

(* A clip whose line came is this run's; one that was judged without a      *)
(* failure is.                                                              *)
ClipIsMine ==
    /\ "wrote" \in run.said => clip = "mine"
    /\ pc \in {"clip_media", "clip_codec"} /\ Clean(rows) => "wrote" \in run.said
    /\ \/ pc \in {"clip_media", "clip_codec", "clip_content", "criterion7", "refusal", "report"}
       \/ pc = "running" /\ run.for # "buffer"
       => (Clean(rows) => clip = "mine")

VerdictInv ==
    /\ rows \in Seq(RowTypes) /\ pc \in Points
    /\ pc # "done" => Complete(rows, Passed(pc, run.for), Due) /\ exit = "none"
    /\ child \in {"up", "over"} => pc = "running"
    /\ run \in RunTypes /\ (pc = "running" => run.for # "none")
    /\ pc \in {"parse", "sandbox"} => run.said = {}
    /\ ClipIsMine
    /\ VerdictIsEarned /\ ReportStands

-----------------------------------------------------------------------------
(* Rows that are added.                                                     *)
LEMMA RowsAreRows ==
    ASSUME NEW id \in AllChecks \cup {"buffer_run", "clip_probe"}, NEW bad, NEW ok
    PROVE  /\ NotPerformed(id) \in RowTypes /\ NotPerformed(id).id = id /\ NotPerformed(id).outcome # "Fail"
           /\ Row(id, "Fail") \in RowTypes /\ Row(id, "Fail").outcome = "Fail"
           /\ Row(id, "Pass") \in RowTypes /\ Row(id, "Pass").id = id /\ Row(id, "Pass").outcome # "Fail"
           /\ Check(id, bad) \in RowTypes /\ Check(id, bad).id = id
           /\ HardwareCheck(id, bad) \in RowTypes /\ HardwareCheck(id, bad).id = id
           /\ Judged(id, ok) \in RowTypes /\ Judged(id, ok).id = id
<1>1. \A what \in Outcomes : Row(id, what) \in RowTypes /\ Row(id, what).id = id /\ Row(id, what).outcome = what
  BY DEF Row, RowTypes
<1>2. "Pass" \in Outcomes /\ "Fail" \in Outcomes /\ "NotPerformed" \in Outcomes
  BY DEF Outcomes
<1> QED
  BY <1>1, <1>2 DEF NotPerformed, Check, HardwareCheck, Judged

LEMMA AVerdictIsARow ==
    ASSUME NEW id \in AllChecks, NEW bad
    PROVE  /\ Check(id, bad) \in RowTypes /\ Check(id, bad).id = id
           /\ HardwareCheck(id, bad) \in RowTypes /\ HardwareCheck(id, bad).id = id
BY RowsAreRows

LEMMA AJudgementIsARow ==
    ASSUME NEW id \in AllChecks, NEW ok
    PROVE  Judged(id, ok) \in RowTypes /\ Judged(id, ok).id = id /\ (Judged(id, ok).outcome # "Fail" => ok)
<1>1. Judged(id, ok) \in RowTypes /\ Judged(id, ok).id = id
  BY RowsAreRows
<1> QED
  BY <1>1 DEF Judged, Row

LEMMA AWordIsARow ==
    ASSUME NEW id \in AllChecks
    PROVE  /\ NotPerformed(id) \in RowTypes /\ NotPerformed(id).id = id
           /\ Row(id, "Pass") \in RowTypes /\ Row(id, "Pass").id = id
           /\ Row(id, "Fail") \in RowTypes /\ Row(id, "Fail").id = id /\ Row(id, "Fail").outcome = "Fail"
BY RowsAreRows DEF Row

LEMMA RowsAppended ==
    ASSUME NEW rs \in Seq(RowTypes), NEW new \in Seq(RowTypes)
    PROVE  /\ rs \o new \in Seq(RowTypes)
           /\ Ids(rs \o new) = Ids(rs) \cup Ids(new)
           /\ Clean(rs \o new) <=> Clean(rs) /\ Clean(new)
           /\ OnceEach(rs) /\ OnceEach(new) /\ Ids(rs) \cap Ids(new) = {} => OnceEach(rs \o new)
<1> DEFINE all == rs \o new
<1>1. /\ all \in Seq(RowTypes) /\ Len(all) = Len(rs) + Len(new) /\ Len(rs) \in Nat /\ Len(new) \in Nat
      /\ \A i \in 1..Len(rs) : all[i] = rs[i]
      /\ \A i \in 1..Len(new) : all[Len(rs) + i] = new[i] /\ Len(rs) + i \in 1..Len(all)
  OBVIOUS
<1>2. \A i \in 1..Len(all) : \/ i \in 1..Len(rs) /\ all[i] = rs[i]
                             \/ i - Len(rs) \in 1..Len(new) /\ all[i] = new[i - Len(rs)]
  BY <1>1
<1> HIDE DEF all
<1>3. Ids(all) = Ids(rs) \cup Ids(new)
  <2>1. \A id \in Ids(all) : id \in Ids(rs) \cup Ids(new)
    BY <1>2 DEF Ids
  <2>2. \A id \in Ids(rs) : id \in Ids(all)
    BY <1>1 DEF Ids
  <2>3. \A id \in Ids(new) : id \in Ids(all)
    BY <1>1 DEF Ids
  <2> QED
    BY <2>1, <2>2, <2>3
<1>4. Clean(all) <=> Clean(rs) /\ Clean(new)
  <2>1. ASSUME Clean(all) PROVE Clean(rs)
    BY <1>1, <2>1 DEF Clean
  <2>2. ASSUME Clean(all) PROVE Clean(new)
    BY <1>1, <2>2 DEF Clean
  <2>3. ASSUME Clean(rs), Clean(new) PROVE Clean(all)
    BY <1>2, <2>3 DEF Clean
  <2> QED
    BY <2>1, <2>2, <2>3
<1>5. ASSUME OnceEach(rs), OnceEach(new), Ids(rs) \cap Ids(new) = {} PROVE OnceEach(all)
  <2>1. SUFFICES ASSUME NEW i \in 1..Len(all), NEW j \in 1..Len(all), all[i].id = all[j].id PROVE i = j
    BY DEF OnceEach
  <2>2. ASSUME NEW k \in 1..Len(rs), NEW n \in 1..Len(new) PROVE rs[k].id # new[n].id
    BY <1>5 DEF Ids
  <2>3. CASE i \in 1..Len(rs) /\ j \in 1..Len(rs)
    BY <1>1, <1>5, <2>1, <2>3 DEF OnceEach
  <2>4. CASE i - Len(rs) \in 1..Len(new) /\ j - Len(rs) \in 1..Len(new)
    <3>1. all[i] = new[i - Len(rs)] /\ all[j] = new[j - Len(rs)]
      BY <1>1, <1>2, <2>1, <2>4
    <3>2. i - Len(rs) = j - Len(rs)
      BY <1>5, <2>1, <2>4, <3>1 DEF OnceEach
    <3> QED
      BY <1>1, <2>1, <3>2
  <2> QED
    BY <1>1, <1>2, <2>1, <2>2, <2>3, <2>4
<1> QED
  BY <1>1, <1>3, <1>4, <1>5 DEF all

LEMMA OneRow ==
    ASSUME NEW a \in RowTypes
    PROVE  /\ <<a>> \in Seq(RowTypes) /\ Ids(<<a>>) = {a.id} /\ OnceEach(<<a>>)
           /\ Clean(<<a>>) <=> a.outcome # "Fail"
BY DEF Ids, OnceEach, Clean

LEMMA TwoRows ==
    ASSUME NEW a \in RowTypes, NEW b \in RowTypes, a.id # b.id
    PROVE  /\ <<a, b>> \in Seq(RowTypes) /\ Ids(<<a, b>>) = {a.id, b.id} /\ OnceEach(<<a, b>>)
           /\ Clean(<<a, b>>) <=> a.outcome # "Fail" /\ b.outcome # "Fail"
<1>1. /\ <<a, b>> \in Seq(RowTypes) /\ Len(<<a, b>>) = 2 /\ <<a, b>>[1] = a /\ <<a, b>>[2] = b
      /\ 1..2 = {1, 2}
  OBVIOUS
<1> QED
  BY <1>1 DEF Ids, OnceEach, Clean

LEMMA ThreeRows ==
    ASSUME NEW a \in RowTypes, NEW b \in RowTypes, NEW c \in RowTypes, a.id # b.id, a.id # c.id, b.id # c.id
    PROVE  /\ <<a, b, c>> \in Seq(RowTypes) /\ Ids(<<a, b, c>>) = {a.id, b.id, c.id} /\ OnceEach(<<a, b, c>>)
           /\ Clean(<<a, b, c>>) <=> a.outcome # "Fail" /\ b.outcome # "Fail" /\ c.outcome # "Fail"
<1>1. /\ <<a, b, c>> \in Seq(RowTypes) /\ Len(<<a, b, c>>) = 3
      /\ <<a, b, c>>[1] = a /\ <<a, b, c>>[2] = b /\ <<a, b, c>>[3] = c /\ 1..3 = {1, 2, 3}
  OBVIOUS
<1> QED
  BY <1>1 DEF Ids, OnceEach, Clean

LEMMA FourRows ==
    ASSUME NEW a \in RowTypes, NEW b \in RowTypes, NEW c \in RowTypes, NEW d \in RowTypes,
           a.id # b.id, a.id # c.id, a.id # d.id, b.id # c.id, b.id # d.id, c.id # d.id
    PROVE  /\ <<a, b, c, d>> \in Seq(RowTypes) /\ Ids(<<a, b, c, d>>) = {a.id, b.id, c.id, d.id}
           /\ OnceEach(<<a, b, c, d>>)
<1>1. /\ <<a, b, c, d>> \in Seq(RowTypes) /\ Len(<<a, b, c, d>>) = 4 /\ 1..4 = {1, 2, 3, 4}
      /\ <<a, b, c, d>>[1] = a /\ <<a, b, c, d>>[2] = b /\ <<a, b, c, d>>[3] = c /\ <<a, b, c, d>>[4] = d
  OBVIOUS
<1> QED
  BY <1>1 DEF Ids, OnceEach

(* The checks of each step.                                                 *)
LEMMA TheStepsChecks ==
    /\ Expected(1) = {"sandbox"} /\ Expected(2) = {"toolchain", "ffmpeg"}
    /\ Expected(3) = {"build"} \ Unreported /\ Expected(4) = {"encoder_probe"}
    /\ Expected(5) = {"run_exit", "startup", "capture_started"}
    /\ Expected(6) = {"frames_flowing"} \cup {"frame_rate", "configured_rate_reached", "dropped", "skipped_readback_skip"}
                       \cup {"media_vs_real_time"}
    /\ Expected(7) = {"ram_cap", "eviction"} /\ Expected(8) = {"wasapi_autoconversion", "silence_detector"}
    /\ Expected(9) = {"cpu", "rss"} /\ Expected(10) = {"clip_written", "clip_trigger_to_write"}
    /\ Expected(11) = {"clip_duration", "clip_streams"}
    /\ Expected(12) = {"clip_stream_copy", "clip_hardware_encoder"}
    /\ Expected(13) = {"clip_av_drift", "clip_audio_not_silent", "clip_not_black"}
    /\ Expected(14) = {"criterion7_startup_failure"}
BY DEF Expected, Due, AllChecks, JudgedAt, Unreported

LEMMA EveryCheckHasItsStep == \A id \in AllChecks : JudgedAt[id] \in 1..14
BY DEF AllChecks, JudgedAt

(* The rows of one more step: the report is as complete as before.          *)
LEMMA AStepIsJudged ==
    ASSUME rows \in Seq(RowTypes), NEW new \in Seq(RowTypes), rows' = rows \o new, NEW k \in 0..14, Complete(rows, k, Due),
           Clean(new) => OnceEach(new) /\ Ids(new) = Expected(k + 1)
    PROVE  /\ rows' \in Seq(RowTypes) /\ Complete(rows', k + 1, Due)
           /\ Clean(rows') => Clean(rows) /\ Clean(new)
<1>1. /\ rows' \in Seq(RowTypes) /\ Ids(rows') = Ids(rows) \cup Ids(new) /\ (Clean(rows') <=> Clean(rows) /\ Clean(new))
      /\ OnceEach(rows) /\ OnceEach(new) /\ Ids(rows) \cap Ids(new) = {} => OnceEach(rows')
  BY RowsAppended
<1>2. \A id \in Due : JudgedAt[id] \in Nat
  BY ONLY EveryCheckHasItsStep DEF Due
<1>3. ASSUME Clean(rows') PROVE OnceEach(rows') /\ Ids(rows') = {id \in Due : JudgedAt[id] <= k + 1}
  <2>1. /\ OnceEach(rows) /\ Ids(rows) = {id \in Due : JudgedAt[id] <= k}
        /\ OnceEach(new) /\ Ids(new) = {id \in Due : JudgedAt[id] = k + 1}
    BY <1>1, <1>3 DEF Complete, Expected
  <2>2. Ids(rows) \cap Ids(new) = {}
    BY <1>2, <2>1
  <2>3. Ids(rows) \cup Ids(new) = {id \in Due : JudgedAt[id] <= k + 1}
    BY <1>2, <2>1
  <2> QED
    BY <1>1, <2>1, <2>2, <2>3
<1> QED
  BY <1>1, <1>3 DEF Complete

(* A step that judges: its rows, and where it goes.                         *)
LEMMA AJudgingStep ==
    ASSUME VerdictInv, pc \notin {"running", "done"}, NEW next \in DOMAIN Behind, next \notin {"parse", "sandbox"},
           NEW new \in Seq(RowTypes), rows' = rows \o new, pc' = next,
           Behind[next] = Behind[pc] + 1,
           Clean(new) => OnceEach(new) /\ Ids(new) = Expected(Behind[next]),
           UNCHANGED <<opts, exit, report, child, run>>, ClipIsMine'
    PROVE  VerdictInv'
<1>1. /\ rows \in Seq(RowTypes) /\ Complete(rows, Behind[pc], Due) /\ Behind[pc] \in 0..14
      /\ child \notin {"up", "over"} /\ exit = "none"
  <2>1. pc \in DOMAIN Behind
    BY DEF VerdictInv, Points
  <2>2. Behind[pc] \in 0..14
    BY <2>1 DEF Behind
  <2>3. Passed(pc, run.for) = Behind[pc]
    BY DEF Passed
  <2> QED
    BY <2>2, <2>3 DEF VerdictInv
<1>2. rows' \in Seq(RowTypes) /\ Complete(rows', Behind[next], Due)
  BY <1>1, AStepIsJudged
<1>3. next \in Points /\ next \notin {"running", "done"}
  BY DEF Points, Behind
<1>4. Due' = Due /\ Passed(pc', run'.for) = Behind[next]
  BY <1>3 DEF Due, Unreported, Passed
<1>5. Complete(rows', Passed(pc', run'.for), Due')
  BY <1>2, <1>4
<1>6. VerdictIsEarned' /\ ReportStands'
  BY <1>1, <1>3 DEF VerdictIsEarned, ReportStands
<1> QED
  BY <1>1, <1>2, <1>3, <1>5, <1>6 DEF VerdictInv

(* A run in which a row failed: nothing is asked of its rows any more.      *)
LEMMA ARunHasFailed ==
    ASSUME VerdictInv, pc # "done", NEW bad, NEW new \in Seq(RowTypes), ~Clean(rows) \/ ~Clean(new),
           NEW next \in DOMAIN Behind, next \notin {"parse", "sandbox"}, AddsRows(bad, new, next),
           UNCHANGED <<opts, exit, report, run>>, child' \notin {"up", "over"}, "wrote" \in run.said => clip' = "mine"
    PROVE  VerdictInv'
<1>1. rows' = rows \o new /\ pc' = next /\ rows \in Seq(RowTypes) /\ exit = "none"
  BY DEF AddsRows, VerdictInv
<1>2. rows' \in Seq(RowTypes) /\ ~Clean(rows')
  BY <1>1, RowsAppended
<1>3. next \in Points /\ next \notin {"running", "done"}
  BY DEF Points, Behind
<1>4. Complete(rows', Passed(pc', run'.for), Due') /\ ClipIsMine'
  BY <1>1, <1>2, <1>3 DEF Complete, ClipIsMine
<1>5. VerdictIsEarned' /\ ReportStands'
  BY <1>1, <1>3 DEF VerdictIsEarned, ReportStands
<1> QED
  BY <1>1, <1>2, <1>3, <1>4, <1>5 DEF VerdictInv

(* A step's own failure is a row, wherever it goes on.                      *)
LEMMA AFailedStep ==
    ASSUME VerdictInv, pc # "done", NEW step \in AllChecks \cup {"buffer_run", "clip_probe"}, NEW bad,
           NEW next \in DOMAIN Behind, next \notin {"parse", "sandbox"}, record_step_error(bad, step, next),
           UNCHANGED <<opts, exit, report, run>>, child' \notin {"up", "over"}, "wrote" \in run.said => clip' = "mine"
    PROVE  VerdictInv'
<1>1. <<Row(step, "Fail")>> \in Seq(RowTypes) /\ ~Clean(<<Row(step, "Fail")>>)
  BY RowsAreRows, OneRow
<1>2. AddsRows(bad, <<Row(step, "Fail")>>, next)
  BY DEF record_step_error
<1> QED
  BY <1>1, <1>2, ARunHasFailed

LEMMA VerdictStarts == AcceptanceInit => VerdictInv
<1> SUFFICES ASSUME AcceptanceInit PROVE VerdictInv
  OBVIOUS
<1>1. /\ pc = "parse" /\ rows = <<>> /\ run = NoRun /\ child = "none" /\ exit = "none"
      /\ "parse" \in DOMAIN Behind /\ Behind["parse"] = 0 /\ NoRun.said = {}
  BY DEF AcceptanceInit, Behind, NoRun
<1>2. rows \in Seq(RowTypes) /\ OnceEach(rows) /\ Ids(rows) = {}
  BY <1>1 DEF OnceEach, Ids
<1>3. Passed(pc, run.for) = 0
  BY <1>1 DEF Passed
<1>4. {id \in Due : JudgedAt[id] <= 0} = {}
  BY EveryCheckHasItsStep DEF Due
<1>5. NoRun \in RunTypes
  BY DEF NoRun, RunTypes
<1> QED
  BY <1>1, <1>2, <1>3, <1>4, <1>5 DEF VerdictInv, Complete, Points, ClipIsMine, VerdictIsEarned, ReportStands

-----------------------------------------------------------------------------
(* The steps before the run of the buffer.                                  *)
LEMMA parse_optionsStays == VerdictInv /\ parse_options => VerdictInv'
<1> SUFFICES ASSUME VerdictInv, parse_options PROVE VerdictInv'
  OBVIOUS
<1>1. /\ pc = "parse" /\ UNCHANGED <<opts, rows, child, run, clip, report>> /\ child \notin {"up", "over"}
      /\ \/ pc' = "sandbox" /\ exit' = exit
         \/ pc' = "done" /\ exit' = "refused"
  BY DEF parse_options, VerdictInv
<1>2. Behind["parse"] = 0 /\ Behind["sandbox"] = 0 /\ {"sandbox", "done"} \subseteq Points
  BY DEF Behind, Points
<1>3. pc' # "done" => Complete(rows', Passed(pc', run'.for), Due') /\ exit' = "none"
  BY <1>1, <1>2 DEF VerdictInv, Passed, Due, Unreported
<1> QED
  BY <1>1, <1>2, <1>3 DEF VerdictInv, ClipIsMine, VerdictIsEarned, ReportStands

LEMMA reset_sandboxStays == VerdictInv /\ reset_sandbox => VerdictInv'
<1> SUFFICES ASSUME VerdictInv, reset_sandbox PROVE VerdictInv'
  OBVIOUS
<1>1. PICK bad \in SUBSET {"sandbox"} : AddsRows(bad, <<Check("sandbox", bad)>>, "environment")
  BY DEF reset_sandbox
<1> DEFINE new == <<Check("sandbox", bad)>>
<1>2. /\ pc = "sandbox" /\ UNCHANGED <<opts, child, run, report, exit>>
      /\ rows' = rows \o new /\ pc' = "environment"
  BY <1>1 DEF reset_sandbox, AddsRows
<1>3. /\ "environment" \in DOMAIN Behind /\ Behind["environment"] = 1 /\ Behind["sandbox"] = 0
  BY DEF Behind
<1>4. "sandbox" \in AllChecks
  BY DEF AllChecks
<1>5. new \in Seq(RowTypes) /\ OnceEach(new) /\ Ids(new) = Expected(1)
  <2>1. Check("sandbox", bad) \in RowTypes /\ Check("sandbox", bad).id = "sandbox"
    BY <1>4, AVerdictIsARow
  <2> QED
    BY <2>1, OneRow, TheStepsChecks
<1>6. ClipIsMine'
  BY <1>2 DEF ClipIsMine, VerdictInv
<1> HIDE DEF new
<1> QED
  BY <1>2, <1>3, <1>5, <1>6, AJudgingStep

LEMMA environmentStays == VerdictInv /\ environment => VerdictInv'
<1> SUFFICES ASSUME VerdictInv, environment PROVE VerdictInv'
  OBVIOUS
<1>1. PICK bad \in SUBSET {"toolchain", "ffmpeg"} :
        AddsRows(bad, <<Check("toolchain", bad), Check("ffmpeg", bad)>>, "build")
  BY DEF environment
<1> DEFINE new == <<Check("toolchain", bad), Check("ffmpeg", bad)>>
<1>2. /\ pc = "environment" /\ UNCHANGED <<opts, child, run, clip, report, exit>>
      /\ rows' = rows \o new /\ pc' = "build"
  BY <1>1 DEF environment, AddsRows
<1>3. "build" \in DOMAIN Behind /\ Behind["build"] = 2 /\ Behind["build"] = Behind["environment"] + 1
  BY DEF Behind
<1>4. "toolchain" \in AllChecks /\ "ffmpeg" \in AllChecks
  BY DEF AllChecks
<1>5. new \in Seq(RowTypes) /\ OnceEach(new) /\ Ids(new) = Expected(2)
  <2>1. /\ Check("toolchain", bad) \in RowTypes /\ Check("toolchain", bad).id = "toolchain"
        /\ Check("ffmpeg", bad) \in RowTypes /\ Check("ffmpeg", bad).id = "ffmpeg"
    BY <1>4, AVerdictIsARow
  <2> QED
    BY <2>1, TwoRows, TheStepsChecks
<1>6. ClipIsMine'
  BY <1>2 DEF ClipIsMine, VerdictInv
<1> HIDE DEF new
<1> QED
  BY <1>2, <1>3, <1>5, <1>6, AJudgingStep

LEMMA build_cliStays == VerdictInv /\ build_cli => VerdictInv'
<1> SUFFICES ASSUME VerdictInv, build_cli PROVE VerdictInv'
  OBVIOUS
<1>1. /\ pc = "build" /\ UNCHANGED <<opts, child, run, clip, report, exit>> /\ child \notin {"up", "over"}
      /\ "wrote" \in run.said => clip = "mine"
  BY DEF build_cli, VerdictInv, ClipIsMine
<1>2. "probe" \in DOMAIN Behind /\ Behind["build"] = 2 /\ Behind["probe"] = 3
  BY DEF Behind
<1>3. "build" \in AllChecks
  BY DEF AllChecks
<1>4. ASSUME NEW bad, record_step_error(bad, "build", "probe") PROVE VerdictInv'
  BY <1>1, <1>2, <1>3, <1>4, AFailedStep
<1>5. ASSUME NEW bad, NEW new \in Seq(RowTypes), AddsRows(bad, new, "probe"),
             Clean(new) => OnceEach(new) /\ Ids(new) = Expected(3)
      PROVE  VerdictInv'
  <2>1. ClipIsMine'
    BY <1>1, <1>5 DEF ClipIsMine, AddsRows
  <2> QED
    BY <1>1, <1>2, <1>5, <2>1, AJudgingStep DEF AddsRows
<1>6. CASE ~(opts.cli = "none" /\ opts.noBuild) /\ AddsRows({}, <<Row("build", "Pass")>>, "probe")
  <2>1. Expected(3) = {"build"}
    BY <1>6, TheStepsChecks DEF Unreported
  <2>2. <<Row("build", "Pass")>> \in Seq(RowTypes) /\ OnceEach(<<Row("build", "Pass")>>) /\ Ids(<<Row("build", "Pass")>>) = {"build"}
    BY <1>3, RowsAreRows, OneRow
  <2> QED
    BY <1>5, <1>6, <2>1, <2>2
<1>7. CASE opts.cli = "none" /\ opts.noBuild /\ AddsRows({}, <<>>, "probe")
  <2>1. Expected(3) = {}
    BY <1>7, TheStepsChecks DEF Unreported
  <2>2. <<>> \in Seq(RowTypes) /\ OnceEach(<<>>) /\ Ids(<<>>) = {}
    BY DEF OnceEach, Ids
  <2> QED
    BY <1>5, <1>7, <2>1, <2>2
<1>8. CASE AddsRows({"build"}, <<Row("build", "Fail"), Row("build", "Fail")>>, "probe")
  <2> DEFINE new == <<Row("build", "Fail"), Row("build", "Fail")>>
  <2>1. new \in Seq(RowTypes) /\ new[1] = Row("build", "Fail") /\ Len(new) = 2
    BY <1>3, RowsAreRows
  <2>2. ~Clean(new)
    BY <1>3, <2>1, RowsAreRows DEF Clean
  <2> HIDE DEF new
  <2>3. AddsRows({"build"}, new, "probe")
    BY <1>8 DEF new
  <2> QED
    BY <1>5, <2>1, <2>2, <2>3
<1> QED
  BY <1>4, <1>6, <1>7, <1>8 DEF build_cli

LEMMA probe_encodersStays == VerdictInv /\ probe_encoders => VerdictInv'
<1> SUFFICES ASSUME VerdictInv, probe_encoders PROVE VerdictInv'
  OBVIOUS
<1>1. /\ pc = "probe" /\ UNCHANGED <<opts, child, run, clip, report, exit>> /\ child \notin {"up", "over"}
      /\ "wrote" \in run.said => clip = "mine"
  BY DEF probe_encoders, VerdictInv, ClipIsMine
<1>2. "buffer" \in DOMAIN Behind /\ Behind["buffer"] = 4 /\ Behind["buffer"] = Behind["probe"] + 1
  BY DEF Behind
<1>3. "encoder_probe" \in AllChecks
  BY DEF AllChecks
<1>4. ASSUME NEW bad, record_step_error(bad, "encoder_probe", "buffer") PROVE VerdictInv'
  BY <1>1, <1>2, <1>3, <1>4, AFailedStep
<1>5. ASSUME NEW row \in RowTypes, row.id = "encoder_probe", AddsRows({}, <<row>>, "buffer") PROVE VerdictInv'
  <2>1. ClipIsMine'
    BY <1>1, <1>5 DEF ClipIsMine, AddsRows
  <2>2. <<row>> \in Seq(RowTypes) /\ OnceEach(<<row>>) /\ Ids(<<row>>) = Expected(4)
    BY <1>5, OneRow, TheStepsChecks
  <2> QED
    BY <1>1, <1>2, <1>5, <2>1, <2>2, AJudgingStep DEF AddsRows
<1>6. CASE AddsRows({}, <<IF hardware_path THEN Judged("encoder_probe", \E v \in DOMAIN probe' : probe'[v] = "Works")
                          ELSE NotPerformed("encoder_probe")>>, "buffer")
  <2> DEFINE works == \E v \in DOMAIN probe' : probe'[v] = "Works"
  <2> DEFINE row == IF hardware_path THEN Judged("encoder_probe", works) ELSE NotPerformed("encoder_probe")
  <2>1. AddsRows({}, <<row>>, "buffer")
    BY <1>6
  <2> HIDE DEF works
  <2>2. /\ Judged("encoder_probe", works) \in RowTypes /\ Judged("encoder_probe", works).id = "encoder_probe"
        /\ NotPerformed("encoder_probe") \in RowTypes /\ NotPerformed("encoder_probe").id = "encoder_probe"
    BY <1>3, AJudgementIsARow, AWordIsARow
  <2>3. row \in RowTypes /\ row.id = "encoder_probe"
    BY <2>2
  <2> HIDE DEF row
  <2> QED
    BY <1>5, <2>1, <2>3
<1> QED
  BY <1>4, <1>6 DEF probe_encoders

-----------------------------------------------------------------------------
(* The run of the CLI.                                                      *)
LEMMA run_cliStays ==
    ASSUME VerdictInv, NEW what \in {"buffer", "criterion7"}, NEW step \in AllChecks \cup {"buffer_run", "clip_probe"},
           NEW after \in DOMAIN Behind, after \notin {"parse", "sandbox"}, run_cli(what, step, after),
           pc \in DOMAIN Behind, pc \notin {"parse", "sandbox"}, Behind[pc] = IF what = "buffer" THEN 4 ELSE 13,
           what # "buffer" => (Clean(rows) => clip = "mine"),
           UNCHANGED <<opts, clip, report, exit>>
    PROVE  VerdictInv'
<1>1. /\ child \notin {"up", "over"} /\ pc \notin {"running", "done"} /\ exit = "none" /\ rows \in Seq(RowTypes)
      /\ "wrote" \in run.said => clip = "mine"
  BY DEF VerdictInv, ClipIsMine, Behind
<1>2. ASSUME NEW bad, record_step_error(bad, step, after), UNCHANGED <<child, run>> PROVE VerdictInv'
  BY <1>1, <1>2, AFailedStep
<1>3. CASE AddsRows({}, <<>>, "running") /\ child' = "up" /\ run' = [NoRun EXCEPT !.for = what]
  <2>1. rows' = rows /\ pc' = "running"
    BY <1>1, <1>3 DEF AddsRows
  <2>2. run'.for = what /\ run'.said = {} /\ run' \in RunTypes
    BY <1>3 DEF NoRun, RunTypes
  <2>3. Passed(pc', run'.for) = Passed(pc, run.for)
    BY <1>1, <2>1, <2>2 DEF Passed
  <2>4. Complete(rows', Passed(pc', run'.for), Due')
    BY <1>1, <2>1, <2>3 DEF VerdictInv, Due, Unreported
  <2>5. ClipIsMine'
    BY <1>1, <2>1, <2>2 DEF ClipIsMine
  <2>6. "running" \in Points
    BY DEF Points
  <2> QED
    BY <1>1, <2>1, <2>2, <2>4, <2>5, <2>6 DEF VerdictInv, VerdictIsEarned, ReportStands
<1> QED
  BY <1>2, <1>3 DEF run_cli

LEMMA buffer_runStays == VerdictInv /\ buffer_run => VerdictInv'
<1> SUFFICES ASSUME VerdictInv, buffer_run PROVE VerdictInv'
  OBVIOUS
<1>1. /\ pc = "buffer" /\ run_cli("buffer", "buffer_run", "clip") /\ UNCHANGED <<opts, clip, report, exit>>
  BY DEF buffer_run
<1>2. "buffer" \in DOMAIN Behind /\ "clip" \in DOMAIN Behind /\ Behind["buffer"] = IF "buffer" = "buffer" THEN 4 ELSE 13
  BY DEF Behind
<1> QED
  BY <1>1, <1>2, run_cliStays

LEMMA criterion_sevenStays == VerdictInv /\ criterion_seven => VerdictInv'
<1> SUFFICES ASSUME VerdictInv, criterion_seven PROVE VerdictInv'
  OBVIOUS
<1>1. /\ pc = "criterion7" /\ UNCHANGED <<opts, clip, report, exit>>
      /\ Clean(rows) => clip = "mine"
      /\ "wrote" \in run.said => clip = "mine"
      /\ child \notin {"up", "over"}
  BY DEF criterion_seven, VerdictInv, ClipIsMine
<1>2. /\ {"criterion7", "report"} \subseteq DOMAIN Behind /\ Behind["criterion7"] = 13 /\ Behind["report"] = Behind["criterion7"] + 1
      /\ Behind["report"] = 14 /\ "criterion7_startup_failure" \in AllChecks
  BY DEF Behind, AllChecks
<1>3. CASE record_step_error({}, "criterion7_startup_failure", "report") /\ UNCHANGED <<child, run>>
  BY <1>1, <1>2, <1>3, AFailedStep
<1>4. CASE AddsRows({}, <<NotPerformed("criterion7_startup_failure")>>, "report") /\ UNCHANGED <<child, run>>
  <2> DEFINE new == <<NotPerformed("criterion7_startup_failure")>>
  <2>1. new \in Seq(RowTypes) /\ OnceEach(new) /\ Ids(new) = Expected(14)
    <3>1. NotPerformed("criterion7_startup_failure") \in RowTypes
          /\ NotPerformed("criterion7_startup_failure").id = "criterion7_startup_failure"
      BY <1>2, AWordIsARow
    <3>2. new \in Seq(RowTypes) /\ Ids(new) = {"criterion7_startup_failure"} /\ OnceEach(new)
      BY <3>1, OneRow
    <3>3. Expected(14) = {"criterion7_startup_failure"}
      BY TheStepsChecks
    <3> QED
      BY <3>2, <3>3
  <2> HIDE DEF new
  <2>2. rows' = rows \o new /\ pc' = "report" /\ rows \in Seq(RowTypes)
    BY <1>4 DEF AddsRows, new, VerdictInv
  <2>3. Clean(rows') => Clean(rows)
    BY <2>1, <2>2, RowsAppended
  <2>4. ClipIsMine'
    BY <1>1, <1>4, <2>2, <2>3 DEF ClipIsMine
  <2> QED
    BY <1>1, <1>2, <1>4, <2>1, <2>2, <2>4, AJudgingStep
<1>5. CASE run_cli("criterion7", "criterion7_startup_failure", "report")
  <2>1. Behind[pc] = IF "criterion7" = "buffer" THEN 4 ELSE 13
    BY <1>1, <1>2
  <2> QED
    BY <1>1, <1>2, <1>5, <2>1, run_cliStays
<1> QED
  BY <1>3, <1>4, <1>5 DEF criterion_seven

LEMMA CliLogsStays == VerdictInv /\ CliLogs => VerdictInv'
<1> SUFFICES ASSUME VerdictInv, CliLogs PROVE VerdictInv'
  OBVIOUS
<1>1. /\ child = "up" /\ pc = "running" /\ run \in RunTypes /\ run.for \in {"buffer", "criterion7"} /\ run.next \in Nat \ {0}
      /\ run.next <= Len(Lines[run.for]) /\ UNCHANGED <<opts, pc, rows, have, probe, child, report, exit>>
      /\ exit = "none"
  BY DEF CliLogs, VerdictInv, RunTypes
<1> DEFINE line == Lines[run.for][run.next]
<1>2. /\ run.for = "criterion7" => line # "wrote"
      /\ line \in Words
  <2>1. CASE run.for = "criterion7"
    BY <1>1, <2>1 DEF Lines, Words
  <2>2. CASE run.for = "buffer"
    BY <1>1, <2>2 DEF Lines, Words
  <2> QED
    BY <1>1, <2>1, <2>2
<1>3. /\ run' \in RunTypes /\ run'.for = run.for
      /\ \/ clip' = (IF line = "wrote" THEN "mine" ELSE clip) /\ run'.said = run.said \cup {line}
         \/ clip' = clip /\ run'.said = run.said
  <2>1. CASE run' = [run EXCEPT !.next = @ + 1] /\ clip' = clip
    BY <1>1, <2>1 DEF RunTypes
  <2>2. CASE /\ run' = [run EXCEPT !.next = @ + 1, !.said = @ \cup {line}]
             /\ clip' = (IF line = "wrote" THEN "mine" ELSE clip)
    <3> HIDE DEF line
    <3>1. run' \in RunTypes /\ run'.for = run.for /\ run'.said = run.said \cup {line}
      <4>1. run.said \cup {line} \in SUBSET Words /\ run.next + 1 \in Nat \ {0}
        BY <1>1, <1>2 DEF RunTypes
      <4>2. run' = [run EXCEPT !.next = run.next + 1, !.said = run.said \cup {line}]
        BY <2>2
      <4> QED
        BY ONLY <1>1, <4>1, <4>2 DEF RunTypes
    <3> QED
      BY <2>2, <3>1
  <2> QED
    BY <2>1, <2>2 DEF CliLogs
<1> HIDE DEF line
<1>4. ClipIsMine'
  <2>1. "wrote" \in run'.said => clip' = "mine"
    BY <1>3 DEF VerdictInv, ClipIsMine
  <2>2. run.for # "buffer" => clip' = clip
    BY <1>1, <1>2, <1>3
  <2> QED
    BY <1>1, <1>3, <2>1, <2>2 DEF VerdictInv, ClipIsMine
<1>5. Passed(pc', run'.for) = Passed(pc, run.for) /\ Due' = Due
  BY <1>1, <1>3 DEF Passed, Due, Unreported
<1> QED
  BY <1>1, <1>3, <1>4, <1>5 DEF VerdictInv, VerdictIsEarned, ReportStands

LEMMA CliEndsStays == VerdictInv /\ CliEnds => VerdictInv'
<1> SUFFICES ASSUME VerdictInv, CliEnds PROVE VerdictInv'
  OBVIOUS
<1>1. /\ child = "up" /\ child' = "over" /\ pc = "running" /\ run \in RunTypes /\ exit = "none"
      /\ UNCHANGED <<opts, pc, rows, have, probe, clip, report, exit>>
  BY DEF CliEnds, VerdictInv
<1>2. PICK code \in {"error", "zero"} : run' = [run EXCEPT !.code = code]
  BY DEF CliEnds
<1>3. run' \in RunTypes /\ run'.for = run.for /\ run'.said = run.said
  BY <1>1, <1>2 DEF RunTypes
<1>4. ClipIsMine'
  BY <1>1, <1>3 DEF VerdictInv, ClipIsMine
<1>5. Passed(pc', run'.for) = Passed(pc, run.for) /\ Due' = Due
  BY <1>1, <1>3 DEF Passed, Due, Unreported
<1> QED
  BY <1>1, <1>3, <1>4, <1>5 DEF VerdictInv, VerdictIsEarned, ReportStands

LEMMA WatchStays == VerdictInv /\ Watch => VerdictInv'
<1> SUFFICES ASSUME VerdictInv, Watch PROVE VerdictInv'
  OBVIOUS
<1>1. /\ pc = "running" /\ run \in RunTypes /\ run.for \in {"buffer", "criterion7"} /\ exit = "none"
      /\ UNCHANGED <<opts, have, probe, run, clip, report, exit>> /\ ("wrote" \in run.said => clip = "mine")
  BY DEF Watch, VerdictInv, RunTypes, ClipIsMine
<1>2. /\ {"process", "refusal", "clip", "report"} \subseteq DOMAIN Behind
      /\ Behind["process"] = 4 /\ Behind["refusal"] = 13
      /\ "criterion7_startup_failure" \in AllChecks
  BY DEF Behind, AllChecks
<1>3. CASE /\ child' = "gone" /\ pc' = (IF run.for = "buffer" THEN "process" ELSE "refusal") /\ UNCHANGED rows
  <2>1. Passed(pc', run'.for) = Passed(pc, run.for) /\ Due' = Due /\ pc' \in Points /\ pc' \notin {"running", "done", "parse", "sandbox"}
    BY <1>1, <1>2, <1>3 DEF Passed, Due, Unreported, Points
  <2>2. ClipIsMine'
    BY <1>1, <1>3 DEF VerdictInv, ClipIsMine
  <2> QED
    BY <1>1, <1>3, <2>1, <2>2 DEF VerdictInv, VerdictIsEarned, ReportStands
<1>4. CASE /\ child' = "killed"
           /\ \/ record_step_error({"wait"}, "buffer_run", "clip")
              \/ record_step_error({"wait"}, "criterion7_startup_failure", "report")
  BY <1>1, <1>2, <1>4, AFailedStep
<1> QED
  BY <1>3, <1>4 DEF Watch

-----------------------------------------------------------------------------
(* The judging of the run.                                                  *)

(* Rows of a step that moves nothing else: the clip is as it was.           *)
LEMMA RowsAreJudged ==
    ASSUME VerdictInv, NEW at \in DOMAIN Behind, pc = at, NEW next \in DOMAIN Behind, next \notin {"parse", "sandbox"},
           NEW bad, NEW new \in Seq(RowTypes), AddsRows(bad, new, next), Behind[next] = Behind[at] + 1,
           Clean(new) => OnceEach(new) /\ Ids(new) = Expected(Behind[next]),
           UNCHANGED <<opts, child, run, clip, report, exit>>,
           next \in {"clip_media", "clip_codec"} => (Clean(rows') => "wrote" \in run.said),
           next \in {"clip_media", "clip_codec", "clip_content", "criterion7", "refusal", "report"} => (Clean(rows') => clip = "mine")
    PROVE  VerdictInv'
<1>1. rows' = rows \o new /\ pc' = next
  BY DEF AddsRows
<1>2. pc \notin {"running", "done"} /\ next \notin {"running", "done"}
  BY DEF Behind
<1>3. ClipIsMine'
  BY <1>1, <1>2 DEF ClipIsMine, VerdictInv
<1> QED
  BY <1>1, <1>2, <1>3, AJudgingStep

LEMMA ProcessRowsStays == VerdictInv /\ ProcessRows => VerdictInv'
<1> SUFFICES ASSUME VerdictInv, ProcessRows PROVE VerdictInv'
  OBVIOUS
<1> DEFINE judged == IF hardware_path THEN Judged("capture_started", {"geometry", "wgc"} \subseteq run.said)
                                       ELSE NotPerformed("capture_started")
<1> DEFINE next == IF "status" \in run.said THEN "status" ELSE "no_status"
<1> DEFINE new == <<Judged("run_exit", run.code = "zero"), Judged("startup", "buffering" \in run.said), judged>>
<1>1. /\ pc = "process" /\ AddsRows({}, new, next) /\ UNCHANGED <<opts, child, run, clip, report, exit>>
  BY DEF ProcessRows
<1>2. next \in DOMAIN Behind /\ next \in {"status", "no_status"} /\ "process" \in DOMAIN Behind
      /\ Behind[next] = 5 /\ Behind[next] = Behind["process"] + 1
  BY DEF Behind
<1>3. "run_exit" \in AllChecks /\ "startup" \in AllChecks /\ "capture_started" \in AllChecks
  BY DEF AllChecks
<1>4. judged \in RowTypes /\ judged.id = "capture_started"
  BY <1>3, AJudgementIsARow, AWordIsARow
<1> HIDE DEF judged
<1>5. new \in Seq(RowTypes) /\ OnceEach(new) /\ Ids(new) = {"run_exit", "startup", "capture_started"}
  BY <1>3, <1>4, AJudgementIsARow, ThreeRows
<1>6. Ids(new) = Expected(5)
  BY <1>5, TheStepsChecks
<1> HIDE DEF new, next
<1> QED
  BY <1>1, <1>2, <1>5, <1>6, RowsAreJudged

LEMMA NoStatusRowsStays == VerdictInv /\ NoStatusRows => VerdictInv'
<1> SUFFICES ASSUME VerdictInv, NoStatusRows PROVE VerdictInv'
  OBVIOUS
<1> DEFINE new == <<Row("frames_flowing", "Fail"), NotPerformed("media_vs_real_time")>>
<1>1. pc = "no_status" /\ AddsRows({}, new, "cost") /\ UNCHANGED <<opts, child, run, clip, report, exit>>
  BY DEF NoStatusRows
<1>2. "cost" \in DOMAIN Behind /\ "frames_flowing" \in AllChecks /\ "media_vs_real_time" \in AllChecks
  BY DEF Behind, AllChecks
<1>3. /\ Row("frames_flowing", "Fail") \in RowTypes /\ Row("frames_flowing", "Fail").outcome = "Fail"
      /\ NotPerformed("media_vs_real_time") \in RowTypes
      /\ Row("frames_flowing", "Fail").id = "frames_flowing" /\ NotPerformed("media_vs_real_time").id = "media_vs_real_time"
  BY <1>2, AWordIsARow
<1>4. new \in Seq(RowTypes) /\ ~Clean(new)
  BY <1>3, TwoRows
<1> HIDE DEF new
<1>5. child \notin {"up", "over"} /\ ("wrote" \in run.said => clip = "mine")
  BY <1>1 DEF VerdictInv, ClipIsMine
<1> QED
  BY <1>1, <1>2, <1>4, <1>5, ARunHasFailed

LEMMA StatusRowsStays == VerdictInv /\ StatusRows => VerdictInv'
<1> SUFFICES ASSUME VerdictInv, StatusRows PROVE VerdictInv'
  OBVIOUS
<1>1. PICK bad : AddsRows(bad, FrameRows(bad) \o RateRows(bad) \o MediaTimeRow(bad), "ring")
  BY DEF StatusRows
<1>2. pc = "status" /\ UNCHANGED <<opts, child, run, clip, report, exit>>
  BY DEF StatusRows
<1>3. /\ "frames_flowing" \in AllChecks /\ "frame_rate" \in AllChecks /\ "configured_rate_reached" \in AllChecks
      /\ "dropped" \in AllChecks /\ "skipped_readback_skip" \in AllChecks /\ "media_vs_real_time" \in AllChecks
  BY DEF AllChecks
<1>4. /\ FrameRows(bad) \in Seq(RowTypes) /\ OnceEach(FrameRows(bad)) /\ Ids(FrameRows(bad)) = {"frames_flowing"}
  <2>1. Check("frames_flowing", bad) \in RowTypes /\ Check("frames_flowing", bad).id = "frames_flowing"
    BY <1>3, AVerdictIsARow
  <2> QED
    BY <2>1, OneRow DEF FrameRows
<1>5. /\ RateRows(bad) \in Seq(RowTypes) /\ OnceEach(RateRows(bad))
      /\ Ids(RateRows(bad)) = {"frame_rate", "configured_rate_reached", "dropped", "skipped_readback_skip"}
  <2>1. /\ HardwareCheck("frame_rate", bad) \in RowTypes /\ HardwareCheck("frame_rate", bad).id = "frame_rate"
        /\ HardwareCheck("configured_rate_reached", bad) \in RowTypes
        /\ HardwareCheck("configured_rate_reached", bad).id = "configured_rate_reached"
        /\ HardwareCheck("dropped", bad) \in RowTypes /\ HardwareCheck("dropped", bad).id = "dropped"
        /\ HardwareCheck("skipped_readback_skip", bad) \in RowTypes
        /\ HardwareCheck("skipped_readback_skip", bad).id = "skipped_readback_skip"
    BY <1>3, AVerdictIsARow
  <2> QED
    BY <2>1, FourRows DEF RateRows
<1>6. /\ MediaTimeRow(bad) \in Seq(RowTypes) /\ OnceEach(MediaTimeRow(bad))
      /\ Ids(MediaTimeRow(bad)) = {"media_vs_real_time"}
  <2>1. /\ NotPerformed("media_vs_real_time") \in RowTypes /\ NotPerformed("media_vs_real_time").id = "media_vs_real_time"
        /\ HardwareCheck("media_vs_real_time", bad) \in RowTypes
        /\ HardwareCheck("media_vs_real_time", bad).id = "media_vs_real_time"
    BY <1>3, AVerdictIsARow, AWordIsARow
  <2>2. CASE "stamps" \in bad
    BY <2>1, <2>2, OneRow DEF MediaTimeRow
  <2>3. CASE "stamps" \notin bad
    BY <2>1, <2>3, OneRow DEF MediaTimeRow
  <2> QED
    BY <2>2, <2>3
<1> DEFINE two == FrameRows(bad) \o RateRows(bad)
<1>7. /\ two \in Seq(RowTypes) /\ OnceEach(two)
      /\ Ids(two) = {"frames_flowing"} \cup {"frame_rate", "configured_rate_reached", "dropped", "skipped_readback_skip"}
  <2>1. Ids(FrameRows(bad)) \cap Ids(RateRows(bad)) = {}
    BY <1>4, <1>5
  <2> QED
    BY <1>4, <1>5, <2>1, RowsAppended
<1> HIDE DEF two
<1> DEFINE new == two \o MediaTimeRow(bad)
<1>8. new \in Seq(RowTypes) /\ OnceEach(new) /\ Ids(new) = Ids(two) \cup {"media_vs_real_time"}
  <2>1. Ids(two) \cap Ids(MediaTimeRow(bad)) = {}
    BY <1>6, <1>7
  <2> QED
    BY <1>6, <1>7, <2>1, RowsAppended
<1> HIDE DEF new
<1>9. AddsRows(bad, new, "ring")
  BY <1>1 DEF new, two
<1>10. {"status", "ring"} \subseteq DOMAIN Behind /\ Behind["ring"] = 6 /\ Behind["ring"] = Behind["status"] + 1
  BY DEF Behind
<1>11. Ids(new) = Expected(6)
  BY <1>7, <1>8, TheStepsChecks
<1> QED
  BY <1>2, <1>8, <1>9, <1>10, <1>11, RowsAreJudged

LEMMA RingRowsStays == VerdictInv /\ RingRows => VerdictInv'
<1> SUFFICES ASSUME VerdictInv, RingRows PROVE VerdictInv'
  OBVIOUS
<1>1. PICK bad, filled : AddsRows(bad, <<Check("ram_cap", bad),
                                  IF filled \/ "eviction" \in bad THEN Check("eviction", bad) ELSE NotPerformed("eviction")>>, "endpoint")
  BY DEF RingRows
<1> DEFINE evicts == IF filled \/ "eviction" \in bad THEN Check("eviction", bad) ELSE NotPerformed("eviction")
<1> DEFINE new == <<Check("ram_cap", bad), evicts>>
<1>2. pc = "ring" /\ AddsRows(bad, new, "endpoint") /\ UNCHANGED <<opts, child, run, clip, report, exit>>
  BY <1>1 DEF RingRows
<1>3. "ram_cap" \in AllChecks /\ "eviction" \in AllChecks
  BY DEF AllChecks
<1>4. evicts \in RowTypes /\ evicts.id = "eviction" /\ Check("ram_cap", bad) \in RowTypes /\ Check("ram_cap", bad).id = "ram_cap"
  BY <1>3, AVerdictIsARow, AWordIsARow
<1> HIDE DEF evicts
<1>5. new \in Seq(RowTypes) /\ OnceEach(new) /\ Ids(new) = Expected(7)
  BY <1>4, TwoRows, TheStepsChecks
<1>6. {"ring", "endpoint"} \subseteq DOMAIN Behind /\ Behind["endpoint"] = 7 /\ Behind["endpoint"] = Behind["ring"] + 1
  BY DEF Behind
<1> HIDE DEF new
<1> QED
  BY <1>2, <1>5, <1>6, RowsAreJudged

LEMMA EndpointRowsStays == VerdictInv /\ EndpointRows => VerdictInv'
<1> SUFFICES ASSUME VerdictInv, EndpointRows PROVE VerdictInv'
  OBVIOUS
<1>1. "wasapi_autoconversion" \in AllChecks /\ "silence_detector" \in AllChecks
  BY DEF AllChecks
<1>2. PICK wasapi \in RowTypes, silence \in RowTypes :
        /\ wasapi.id = "wasapi_autoconversion" /\ silence.id = "silence_detector"
        /\ AddsRows({}, <<wasapi, silence>>, "cost")
  <2>1. /\ \A what \in {"Pass", "Fail"} : Row("wasapi_autoconversion", what) \in RowTypes
                                          /\ Row("wasapi_autoconversion", what).id = "wasapi_autoconversion"
        /\ NotPerformed("wasapi_autoconversion") \in RowTypes
        /\ NotPerformed("wasapi_autoconversion").id = "wasapi_autoconversion"
        /\ Row("silence_detector", "Pass") \in RowTypes /\ Row("silence_detector", "Pass").id = "silence_detector"
        /\ NotPerformed("silence_detector") \in RowTypes /\ NotPerformed("silence_detector").id = "silence_detector"
    BY <1>1, AWordIsARow
  <2>2. PICK special \in BOOLEAN :
          LET wasapi == IF "wasapi" \in run.said
                          THEN IF special THEN Row("wasapi_autoconversion", "Pass")
                                          ELSE NotPerformed("wasapi_autoconversion")
                          ELSE IF hardware_path THEN Row("wasapi_autoconversion", "Fail")
                                                ELSE NotPerformed("wasapi_autoconversion")
          IN  AddsRows({}, <<wasapi, IF special THEN Row("silence_detector", "Pass")
                                            ELSE NotPerformed("silence_detector")>>, "cost")
    BY DEF EndpointRows
  <2> DEFINE sound == IF "wasapi" \in run.said
                      THEN IF special THEN Row("wasapi_autoconversion", "Pass")
                                      ELSE NotPerformed("wasapi_autoconversion")
                      ELSE IF hardware_path THEN Row("wasapi_autoconversion", "Fail")
                                            ELSE NotPerformed("wasapi_autoconversion")
  <2> DEFINE silent == IF special THEN Row("silence_detector", "Pass") ELSE NotPerformed("silence_detector")
  <2>3. AddsRows({}, <<sound, silent>>, "cost")
    BY <2>2
  <2>4. sound \in RowTypes /\ sound.id = "wasapi_autoconversion" /\ silent \in RowTypes /\ silent.id = "silence_detector"
    BY <2>1
  <2> HIDE DEF sound, silent
  <2> QED
    BY <2>3, <2>4
<1> DEFINE new == <<wasapi, silence>>
<1>3. pc = "endpoint" /\ AddsRows({}, new, "cost") /\ UNCHANGED <<opts, child, run, clip, report, exit>>
  BY <1>2 DEF EndpointRows
<1>4. new \in Seq(RowTypes) /\ OnceEach(new) /\ Ids(new) = Expected(8)
  BY <1>2, TwoRows, TheStepsChecks
<1>5. {"endpoint", "cost"} \subseteq DOMAIN Behind /\ Behind["cost"] = 8 /\ Behind["cost"] = Behind["endpoint"] + 1
  BY DEF Behind
<1> HIDE DEF new
<1> QED
  BY <1>3, <1>4, <1>5, RowsAreJudged

LEMMA cpu_and_rssStays == VerdictInv /\ cpu_and_rss => VerdictInv'
<1> SUFFICES ASSUME VerdictInv, cpu_and_rss PROVE VerdictInv'
  OBVIOUS
<1>1. PICK bad : AddsRows(bad, IF "samples" \in bad
                                 THEN <<NotPerformed("cpu"), NotPerformed("rss")>>
                                 ELSE <<HardwareCheck("cpu", bad), HardwareCheck("rss", bad)>>, "clip")
  BY DEF cpu_and_rss
<1>2. pc = "cost" /\ UNCHANGED <<opts, child, run, clip, report, exit>>
  BY DEF cpu_and_rss
<1>3. "cpu" \in AllChecks /\ "rss" \in AllChecks
  BY DEF AllChecks
<1> DEFINE new == IF "samples" \in bad THEN <<NotPerformed("cpu"), NotPerformed("rss")>>
                                       ELSE <<HardwareCheck("cpu", bad), HardwareCheck("rss", bad)>>
<1>4. new \in Seq(RowTypes) /\ OnceEach(new) /\ Ids(new) = Expected(9)
  <2>1. /\ NotPerformed("cpu") \in RowTypes /\ NotPerformed("cpu").id = "cpu"
        /\ NotPerformed("rss") \in RowTypes /\ NotPerformed("rss").id = "rss"
        /\ HardwareCheck("cpu", bad) \in RowTypes /\ HardwareCheck("cpu", bad).id = "cpu"
        /\ HardwareCheck("rss", bad) \in RowTypes /\ HardwareCheck("rss", bad).id = "rss"
    BY <1>3, AVerdictIsARow, AWordIsARow
  <2>2. Expected(9) = {"cpu", "rss"} /\ "cpu" # "rss"
    BY TheStepsChecks
  <2>3. CASE "samples" \in bad
    <3>1. LET s == <<NotPerformed("cpu"), NotPerformed("rss")>>
          IN  s \in Seq(RowTypes) /\ Ids(s) = {"cpu", "rss"} /\ OnceEach(s)
      BY <2>1, <2>2, TwoRows
    <3> QED
      BY <2>2, <2>3, <3>1
  <2>4. CASE "samples" \notin bad
    <3>1. LET s == <<HardwareCheck("cpu", bad), HardwareCheck("rss", bad)>>
          IN  s \in Seq(RowTypes) /\ Ids(s) = {"cpu", "rss"} /\ OnceEach(s)
      BY <2>1, <2>2, TwoRows
    <3> QED
      BY <2>2, <2>4, <3>1
  <2> QED
    BY <2>3, <2>4
<1>5. {"cost", "clip"} \subseteq DOMAIN Behind /\ Behind["clip"] = 9 /\ Behind["clip"] = Behind["cost"] + 1
  BY DEF Behind
<1>6. AddsRows(bad, new, "clip")
  BY <1>1
<1> HIDE DEF new
<1> QED
  BY <1>2, <1>4, <1>5, <1>6, RowsAreJudged

-----------------------------------------------------------------------------
(* The judging of the clip, and the report.                                 *)
LEMMA CleanBefore ==
    ASSUME VerdictInv, NEW bad, NEW new \in Seq(RowTypes), NEW next, AddsRows(bad, new, next)
    PROVE  Clean(rows') => Clean(rows) /\ Clean(new)
<1>1. rows' = rows \o new /\ rows \in Seq(RowTypes)
  BY DEF AddsRows, VerdictInv
<1> QED
  BY <1>1, RowsAppended

LEMMA clip_checksStays == VerdictInv /\ clip_checks => VerdictInv'
<1> SUFFICES ASSUME VerdictInv, clip_checks PROVE VerdictInv'
  OBVIOUS
<1>1. /\ pc = "clip" /\ UNCHANGED <<opts, probe, child, run, report, exit>> /\ child \notin {"up", "over"}
      /\ "wrote" \in run.said => clip = "mine"
  BY DEF clip_checks, VerdictInv, ClipIsMine
<1>2. /\ {"clip", "clip_media", "criterion7"} \subseteq DOMAIN Behind
      /\ Behind["clip_media"] = 10 /\ Behind["clip_media"] = Behind["clip"] + 1
      /\ "clip_written" \in AllChecks /\ "clip_trigger_to_write" \in AllChecks
  BY DEF Behind, AllChecks
<1>3. clip' \in newest_clip => ("wrote" \in run.said => clip' = "mine")
  BY <1>1 DEF newest_clip
<1>4. ASSUME NEW bad, record_step_error(bad, "clip_probe", "criterion7"), UNCHANGED clip PROVE VerdictInv'
  BY <1>1, <1>2, <1>4, AFailedStep
<1>5. ASSUME NEW next \in {"criterion7", "clip_media"}, clip' \in newest_clip, AddsRows({}, <<Row("clip_written", "Fail")>>, next)
      PROVE  VerdictInv'
  <2>1. record_step_error({}, "clip_written", next)
    BY <1>5 DEF record_step_error
  <2> QED
    BY <1>1, <1>2, <1>3, <1>5, <2>1, AFailedStep
<1>6. ASSUME clip' \in newest_clip, "wrote" \in run.said, NEW bad,
             AddsRows(bad, <<Row("clip_written", "Pass"),
                             IF "stamps" \in bad THEN NotPerformed("clip_trigger_to_write")
                                                 ELSE Check("clip_trigger_to_write", bad)>>, "clip_media")
      PROVE  VerdictInv'
  <2> DEFINE latency == IF "stamps" \in bad THEN NotPerformed("clip_trigger_to_write") ELSE Check("clip_trigger_to_write", bad)
  <2> DEFINE new == <<Row("clip_written", "Pass"), latency>>
  <2>1. /\ latency \in RowTypes /\ latency.id = "clip_trigger_to_write"
        /\ Row("clip_written", "Pass") \in RowTypes /\ Row("clip_written", "Pass").id = "clip_written"
    BY <1>2, AVerdictIsARow, AWordIsARow
  <2>2. AddsRows(bad, new, "clip_media")
    BY <1>6
  <2> HIDE DEF latency
  <2>3. new \in Seq(RowTypes) /\ OnceEach(new) /\ Ids(new) = Expected(10)
    BY <2>1, TwoRows, TheStepsChecks
  <2> HIDE DEF new
  <2>4. rows' = rows \o new /\ pc' = "clip_media" /\ clip' = "mine"
    BY <1>3, <1>6, <2>2 DEF AddsRows
  <2>5. ClipIsMine'
    BY <1>1, <1>6, <2>4 DEF ClipIsMine
  <2> QED
    BY <1>1, <1>2, <2>3, <2>4, <2>5, AJudgingStep
<1> QED
  BY <1>4, <1>5, <1>6 DEF clip_checks

LEMMA ClipMediaRowsStays == VerdictInv /\ ClipMediaRows => VerdictInv'
<1> SUFFICES ASSUME VerdictInv, ClipMediaRows PROVE VerdictInv'
  OBVIOUS
<1>1. /\ pc = "clip_media" /\ UNCHANGED <<opts, child, run, clip, report, exit>> /\ child \notin {"up", "over"}
      /\ "wrote" \in run.said => clip = "mine"
      /\ Clean(rows) => "wrote" \in run.said
  BY DEF ClipMediaRows, VerdictInv, ClipIsMine
<1>2. /\ {"clip_media", "clip_codec", "criterion7"} \subseteq DOMAIN Behind
      /\ Behind["clip_codec"] = 11 /\ Behind["clip_codec"] = Behind["clip_media"] + 1
      /\ "clip_duration" \in AllChecks /\ "clip_streams" \in AllChecks
  BY DEF Behind, AllChecks
<1>3. CASE record_step_error({"ffprobe"}, "clip_probe", "criterion7")
  BY <1>1, <1>2, <1>3, AFailedStep
<1>4. ASSUME NEW bad, AddsRows(bad, <<Check("clip_duration", bad), Check("clip_streams", bad)>>, "clip_codec")
      PROVE  VerdictInv'
  <2> DEFINE new == <<Check("clip_duration", bad), Check("clip_streams", bad)>>
  <2>1. /\ Check("clip_duration", bad) \in RowTypes /\ Check("clip_duration", bad).id = "clip_duration"
        /\ Check("clip_streams", bad) \in RowTypes /\ Check("clip_streams", bad).id = "clip_streams"
    BY <1>2, AVerdictIsARow
  <2>2. new \in Seq(RowTypes) /\ OnceEach(new) /\ Ids(new) = Expected(11)
    BY <2>1, TwoRows, TheStepsChecks
  <2>3. AddsRows(bad, new, "clip_codec")
    BY <1>4
  <2> HIDE DEF new
  <2>4. Clean(rows') => Clean(rows)
    BY <2>2, <2>3, CleanBefore
  <2> QED
    BY <1>1, <1>2, <2>2, <2>3, <2>4, RowsAreJudged
<1> QED
  BY <1>3, <1>4 DEF ClipMediaRows

LEMMA ClipCodecRowsStays == VerdictInv /\ ClipCodecRows => VerdictInv'
<1> SUFFICES ASSUME VerdictInv, ClipCodecRows PROVE VerdictInv'
  OBVIOUS
<1>1. /\ pc = "clip_codec" /\ UNCHANGED <<opts, child, run, clip, report, exit>> /\ child \notin {"up", "over"}
      /\ "wrote" \in run.said => clip = "mine"
      /\ Clean(rows) => "wrote" \in run.said
  BY DEF ClipCodecRows, VerdictInv, ClipIsMine
<1>2. /\ {"clip_codec", "clip_content"} \subseteq DOMAIN Behind
      /\ Behind["clip_content"] = 12 /\ Behind["clip_content"] = Behind["clip_codec"] + 1
      /\ "clip_stream_copy" \in AllChecks /\ "clip_hardware_encoder" \in AllChecks
  BY DEF Behind, AllChecks
<1>3. CASE "wrote" \notin run.said /\ AddsRows({}, <<NotPerformed("clip_stream_copy")>>, "clip_content")
  <2>1. <<NotPerformed("clip_stream_copy")>> \in Seq(RowTypes) /\ ~Clean(rows)
    BY <1>1, <1>2, <1>3, AWordIsARow, OneRow
  <2> QED
    BY <1>1, <1>2, <1>3, <2>1, ARunHasFailed
<1>4. ASSUME NEW bad, AddsRows(bad, <<IF "slow" \in bad /\ "clip_stream_copy" \notin bad
                                        THEN NotPerformed("clip_stream_copy")
                                        ELSE Check("clip_stream_copy", bad),
                                      HardwareCheck("clip_hardware_encoder", bad)>>, "clip_content")
      PROVE  VerdictInv'
  <2> DEFINE copied == IF "slow" \in bad /\ "clip_stream_copy" \notin bad THEN NotPerformed("clip_stream_copy")
                                                                       ELSE Check("clip_stream_copy", bad)
  <2> DEFINE new == <<copied, HardwareCheck("clip_hardware_encoder", bad)>>
  <2>1. /\ copied \in RowTypes /\ copied.id = "clip_stream_copy"
        /\ HardwareCheck("clip_hardware_encoder", bad) \in RowTypes
        /\ HardwareCheck("clip_hardware_encoder", bad).id = "clip_hardware_encoder"
    BY <1>2, AVerdictIsARow, AWordIsARow
  <2>2. AddsRows(bad, new, "clip_content")
    BY <1>4
  <2> HIDE DEF copied
  <2>3. new \in Seq(RowTypes) /\ OnceEach(new) /\ Ids(new) = Expected(12)
    BY <2>1, TwoRows, TheStepsChecks
  <2> HIDE DEF new
  <2>4. Clean(rows') => Clean(rows)
    BY <2>2, <2>3, CleanBefore
  <2> QED
    BY <1>1, <1>2, <2>2, <2>3, <2>4, RowsAreJudged
<1> QED
  BY <1>3, <1>4 DEF ClipCodecRows

LEMMA ClipContentRowsStays == VerdictInv /\ ClipContentRows => VerdictInv'
<1> SUFFICES ASSUME VerdictInv, ClipContentRows PROVE VerdictInv'
  OBVIOUS
<1>1. /\ pc = "clip_content" /\ UNCHANGED <<opts, child, run, clip, report, exit>>
      /\ Clean(rows) => clip = "mine"
  BY DEF ClipContentRows, VerdictInv, ClipIsMine
<1>2. /\ {"clip_content", "criterion7"} \subseteq DOMAIN Behind
      /\ Behind["criterion7"] = 13 /\ Behind["criterion7"] = Behind["clip_content"] + 1
      /\ "clip_av_drift" \in AllChecks /\ "clip_audio_not_silent" \in AllChecks /\ "clip_not_black" \in AllChecks
  BY DEF Behind, AllChecks
<1>3. PICK bad : AddsRows(bad, <<IF "drift" \in run.said THEN Check("clip_av_drift", bad) ELSE NotPerformed("clip_av_drift"),
                                 IF "unreadable" \in bad THEN NotPerformed("clip_audio_not_silent")
                                                          ELSE HardwareCheck("clip_audio_not_silent", bad),
                                 IF "unreadable" \in bad THEN NotPerformed("clip_not_black")
                                                          ELSE Check("clip_not_black", bad)>>, "criterion7")
  BY DEF ClipContentRows
<1> DEFINE drift == IF "drift" \in run.said THEN Check("clip_av_drift", bad) ELSE NotPerformed("clip_av_drift")
<1> DEFINE heard == IF "unreadable" \in bad THEN NotPerformed("clip_audio_not_silent") ELSE HardwareCheck("clip_audio_not_silent", bad)
<1> DEFINE seen == IF "unreadable" \in bad THEN NotPerformed("clip_not_black") ELSE Check("clip_not_black", bad)
<1> DEFINE new == <<drift, heard, seen>>
<1>4. drift \in RowTypes /\ drift.id = "clip_av_drift"
  BY <1>2, AVerdictIsARow, AWordIsARow
<1>5. heard \in RowTypes /\ heard.id = "clip_audio_not_silent"
  BY <1>2, AVerdictIsARow, AWordIsARow
<1>6. seen \in RowTypes /\ seen.id = "clip_not_black"
  BY <1>2, AVerdictIsARow, AWordIsARow
<1>7. AddsRows(bad, new, "criterion7")
  BY <1>3
<1> HIDE DEF drift, heard, seen
<1>8. new \in Seq(RowTypes) /\ OnceEach(new) /\ Ids(new) = Expected(13)
  BY <1>4, <1>5, <1>6, ThreeRows, TheStepsChecks
<1> HIDE DEF new
<1>9. Clean(rows') => Clean(rows)
  BY <1>7, <1>8, CleanBefore
<1> QED
  BY <1>1, <1>2, <1>7, <1>8, <1>9, RowsAreJudged

LEMMA RefusalRowStays == VerdictInv /\ RefusalRow => VerdictInv'
<1> SUFFICES ASSUME VerdictInv, RefusalRow PROVE VerdictInv'
  OBVIOUS
<1>1. /\ pc = "refusal" /\ UNCHANGED <<opts, child, run, clip, report, exit>>
      /\ Clean(rows) => clip = "mine"
  BY DEF RefusalRow, VerdictInv, ClipIsMine
<1>2. /\ {"refusal", "report"} \subseteq DOMAIN Behind
      /\ Behind["report"] = 14 /\ Behind["report"] = Behind["refusal"] + 1 /\ "criterion7_startup_failure" \in AllChecks
  BY DEF Behind, AllChecks
<1>3. PICK bad : AddsRows(bad, <<Judged("criterion7_startup_failure",
                             run.code = "error" /\ {"named", "reason"} \subseteq run.said /\ bad = {})>>, "report")
  BY DEF RefusalRow
<1> DEFINE refused == run.code = "error" /\ {"named", "reason"} \subseteq run.said /\ bad = {}
<1> DEFINE new == <<Judged("criterion7_startup_failure", refused)>>
<1>4. AddsRows(bad, new, "report")
  BY <1>3
<1> HIDE DEF refused
<1>5. new \in Seq(RowTypes) /\ OnceEach(new) /\ Ids(new) = Expected(14)
  <2>1. /\ Judged("criterion7_startup_failure", refused) \in RowTypes
        /\ Judged("criterion7_startup_failure", refused).id = "criterion7_startup_failure"
    BY <1>2, AJudgementIsARow
  <2> QED
    BY <2>1, OneRow, TheStepsChecks
<1> HIDE DEF new
<1>6. Clean(rows') => Clean(rows)
  BY <1>4, <1>5, CleanBefore
<1> QED
  BY <1>1, <1>2, <1>4, <1>5, <1>6, RowsAreJudged

(* What a verdict counts.                                                   *)
LEMMA NoneIsCounted ==
    ASSUME rows \in Seq(RowTypes), NEW what \in Outcomes, ~(Tally[what] > 0)
    PROVE  \A i \in 1..Len(rows) : rows[i].outcome # what
<1> DEFINE counted == {i \in DOMAIN rows : rows[i].outcome = what}
<1>1. DOMAIN rows = 1..Len(rows) /\ Len(rows) \in Nat
  OBVIOUS
<1>2. IsFiniteSet(counted)
  <2>1. counted \subseteq 1..Len(rows) /\ IsFiniteSet(1..Len(rows))
    BY <1>1, FS_Interval
  <2> QED
    BY <2>1, FS_Subset
<1>3. Tally[what] = Cardinality(counted)
  BY DEF Tally, Outcomes
<1>4. Cardinality(counted) \in Nat
  BY <1>2, FS_CardinalityType
<1>5. Cardinality(counted) = 0
  BY <1>3, <1>4
<1>6. counted = {}
  BY <1>2, <1>5, FS_EmptySet
<1> QED
  BY <1>1, <1>6

LEMMA write_reportStays == VerdictInv /\ write_report => VerdictInv'
<1> SUFFICES ASSUME VerdictInv, write_report PROVE VerdictInv'
  OBVIOUS
<1>1. /\ pc = "report" /\ pc' = "done" /\ UNCHANGED <<opts, rows, have, probe, child, run, clip>>
      /\ rows \in Seq(RowTypes) /\ child \notin {"up", "over"}
      /\ Clean(rows) => clip = "mine"
      /\ \/ exit' = "error"
         \/ /\ exit' = (IF run_failed THEN "failed" ELSE "ok")
            /\ report' = (IF opts.clean /\ opts.inside THEN "removed" ELSE "written")
  BY DEF write_report, VerdictInv, ClipIsMine
<1>2. ReportStands'
  BY <1>1 DEF ReportStands
<1>3. VerdictIsEarned'
  <2>1. CASE run_failed \/ exit' # "ok"
    BY <1>1, <2>1 DEF VerdictIsEarned
  <2>2. CASE ~run_failed
    <3>1. /\ Clean(rows)
          /\ opts.strict => \A i \in 1..Len(rows) : rows[i].outcome # "NotPerformed"
      BY <1>1, <2>2, NoneIsCounted DEF run_failed, Clean, Outcomes
    <3>2. OnceEach(rows) /\ Ids(rows) = Due
      <4>1. Passed(pc, run.for) = 14
        BY <1>1 DEF Passed, Behind
      <4>2. Complete(rows, 14, Due)
        BY <1>1, <4>1 DEF VerdictInv
      <4>3. \A id \in Due : JudgedAt[id] <= 14
        BY EveryCheckHasItsStep DEF Due
      <4> QED
        BY <3>1, <4>2, <4>3 DEF Complete
    <3>3. DOMAIN rows = 1..Len(rows)
      BY <1>1
    <3>4. ASSUME NEW id \in Due PROVE Cardinality({i \in DOMAIN rows : rows[i].id = id}) = 1
      <4>1. PICK i \in 1..Len(rows) : rows[i].id = id
        BY <3>2, <3>4 DEF Ids
      <4>2. {j \in DOMAIN rows : rows[j].id = id} = {i}
        BY <3>2, <3>3, <4>1 DEF OnceEach
      <4> QED
        BY <4>2, FS_Singleton
    <3>5. \A i \in DOMAIN rows : rows[i].id \in AllChecks
      BY <3>2, <3>3 DEF Ids, Due
    <3>6. \A i \in DOMAIN rows : rows[i].outcome \in Outcomes /\ rows[i].outcome # "Fail"
      <4>1. \A i \in 1..Len(rows) : rows[i] \in RowTypes
        BY <1>1
      <4> QED
        BY <3>1, <3>3, <4>1 DEF Clean, RowTypes
    <3>7. opts.strict => \A i \in DOMAIN rows : rows[i].outcome = "Pass"
      BY <3>1, <3>3, <3>6 DEF Outcomes
    <3>8. UNCHANGED <<rows, opts, clip>> /\ clip = "mine"
      BY <1>1, <3>1
    <3> QED
      BY <3>4, <3>5, <3>6, <3>7, <3>8 DEF VerdictIsEarned, Due, Unreported
  <2> QED
    BY <2>1, <2>2
<1>4. ClipIsMine'
  BY <1>1 DEF ClipIsMine, VerdictInv
<1> QED
  BY <1>1, <1>2, <1>3, <1>4 DEF VerdictInv, Points

(* A step of the harness keeps the invariant, whatever it finds odd.        *)
LEMMA VerdictStays == VerdictInv /\ [AcceptanceNext]_acceptanceVars => VerdictInv'
<1> SUFFICES ASSUME VerdictInv, [AcceptanceNext]_acceptanceVars PROVE VerdictInv'
  OBVIOUS
<1>1. CASE UNCHANGED acceptanceVars
  BY <1>1 DEF acceptanceVars, VerdictInv, Complete, Due, Unreported, ClipIsMine, VerdictIsEarned, ReportStands
<1>2. CASE AcceptanceNext
  BY <1>2, parse_optionsStays, reset_sandboxStays, environmentStays, build_cliStays, probe_encodersStays,
     buffer_runStays, CliLogsStays, CliEndsStays, WatchStays, ProcessRowsStays, NoStatusRowsStays,
     StatusRowsStays, RingRowsStays, EndpointRowsStays, cpu_and_rssStays, clip_checksStays, ClipMediaRowsStays,
     ClipCodecRowsStays, ClipContentRowsStays, criterion_sevenStays, RefusalRowStays, write_reportStays
     DEF AcceptanceNext
<1> QED
  BY <1>1, <1>2

-----------------------------------------------------------------------------
(* --- the recordings of the host and the game's listener ----------------- *)

Bindings == [port : Int, token : Int]
Places == {"idle", "start", "starting", "spawn", "hold", "refresh",
           "stop", "stop lock", "stopping"}
Threaded == [Threads -> [at : Places, id : Drivers \cup {NoRecording}, bindings : Bindings]]

HostTyped ==
    /\ recordings \in [Drivers -> {"none", "running", "over"}]
    /\ slot \in Drivers \cup {NoRecording}
    /\ events \in Drivers \cup {NoDriver}
    /\ thread \in Threaded
GsiTyped ==
    /\ token \in Int /\ tokens \in Int
    /\ binding \in [Drivers -> Bindings]
    /\ install \in [at : {"idle", "write", "remember"}, binding : Bindings]

(* Who starts or stops a recording holds the lock.                          *)
LockIsHeld == \A t \in Threads : thread[t].at \in {"starting", "stopping"} => lock = t

(* What runs is in the slot, or with the thread that took it out to stop    *)
(* it; while that thread waits the slot is empty, and while a recording is  *)
(* started nothing runs in it.                                              *)
WhatRunsIsHeld ==
    \A d \in Drivers : recordings[d] = "running" =>
        d = slot \/ \E t \in Threads : thread[t].at = "stopping" /\ thread[t].id = d
SlotIsFree ==
    \A t \in Threads :
        /\ thread[t].at = "stopping" => slot = NoRecording
        /\ thread[t].at = "starting" => ~ status_running

(* A start that is past the lock serves a recording of its own, which no    *)
(* other start and no held driver serves.                                   *)
Spawning == {"spawn", "hold", "refresh"}
StartsAreApart ==
    \A t \in Threads : thread[t].at \in Spawning =>
        /\ thread[t].id \in Drivers /\ recordings[thread[t].id] # "none"
        /\ \A u \in Threads : thread[u].at \in Spawning /\ thread[u].id = thread[t].id => u = t
        /\ thread[t].at # "refresh" => thread[t].id # events
HeldWasStarted == events # NoDriver => recordings[events] # "none"

(* While nothing raced, the file is what the shell remembers writing, or    *)
(* what it is about to remember.                                            *)
FileIsRemembered ==
    ~ raced =>
        /\ install.at # "remember" /\ record # NotServed => cfg = record
        /\ install.at = "remember" => cfg = install.binding

(* And what it remembers, installs or is about to refresh is what the held  *)
(* driver's listener serves.                                                *)
InstallIsOfTheHeld == ~ raced /\ install.at # "idle" /\ events # NoDriver => install.binding = binding[events]
RefreshIsOfTheHeld ==
    \A t \in Threads : thread[t].at = "refresh" /\ thread[t].id = events =>
        thread[t].bindings = binding[events]
RecordIsOfTheHeld ==
    ~ raced /\ install.at # "remember" /\ events # NoDriver =>
        \/ record = NotServed \/ binding[events] = NotServed \/ record = binding[events]
        \/ \E t \in Threads : thread[t].at = "refresh" /\ thread[t].id = events

OneCaptured == LockIsHeld /\ WhatRunsIsHeld /\ SlotIsFree
Apart == StartsAreApart /\ HeldWasStarted
FileTold == FileIsRemembered /\ InstallIsOfTheHeld /\ RefreshIsOfTheHeld /\ RecordIsOfTheHeld
HostInv == HostTyped /\ GsiTyped /\ OneCaptured /\ Apart /\ FileTold

-----------------------------------------------------------------------------
LEMMA IdleIsAThread == IdleThread \in [at : Places, id : Drivers \cup {NoRecording}, bindings : Bindings]
BY DEF IdleThread, Places, Bindings, NotServed

(* A step of one thread, with what it does to that thread.                  *)
OnlyMoves(t) ==
    /\ thread' \in Threaded
    /\ \A u \in Threads : u # t => thread'[u] = thread[u]

LEMMA ThreadSteps ==
    ASSUME HostTyped, GsiTyped, NEW t \in Threads
    PROVE  /\ \A at \in Places : Press(t, at) => OnlyMoves(t) /\ thread[t].at = "idle" /\ thread'[t].at = at
           /\ StartLocks(t) => /\ OnlyMoves(t) /\ thread[t].at = "start"
                               /\ thread'[t].at = IF status_running THEN "idle" ELSE "starting"
           /\ StartFails(t) => OnlyMoves(t) /\ thread[t].at = "starting" /\ thread'[t].at = "idle"
           /\ PolicyRefused(t) \/ DriverCannotStart(t) =>
                OnlyMoves(t) /\ thread[t].at = "spawn" /\ thread'[t].at = "idle"
           /\ SpawnsDriver(t) => /\ OnlyMoves(t) /\ thread[t].at = "spawn"
                                 /\ thread'[t].at = "hold" /\ thread'[t].id = thread[t].id
           /\ RefreshesInstalled(t) => OnlyMoves(t) /\ thread[t].at = "refresh" /\ thread'[t].at = "idle"
           /\ StopDropsDriver(t) => OnlyMoves(t) /\ thread[t].at = "stop" /\ thread'[t].at = "stop lock"
           /\ StopLocks(t) => /\ OnlyMoves(t) /\ thread[t].at = "stop lock"
                              /\ IF slot = NoRecording THEN thread'[t].at = "idle"
                                 ELSE thread'[t].at = "stopping" /\ thread'[t].id = slot
           /\ Stopped(t) => OnlyMoves(t) /\ thread[t].at = "stopping" /\ thread'[t].at = "idle"
<1> USE DEF HostTyped
<1>1. ASSUME Ends(t)
      PROVE  OnlyMoves(t) /\ thread'[t].at = "idle"
  BY <1>1, IdleIsAThread DEF Ends, OnlyMoves, Threaded, IdleThread
<1>2. ASSUME NEW where \in Places, Goes(t, where)
      PROVE  OnlyMoves(t) /\ thread'[t].at = where /\ thread'[t].id = thread[t].id
  BY <1>2 DEF Goes, OnlyMoves, Threaded
<1>3. ASSUME NEW where \in Places, Press(t, where)
      PROVE  OnlyMoves(t) /\ thread[t].at = "idle" /\ thread'[t].at = where
  BY <1>2, <1>3 DEF Press, IdleThread
<1>4. ASSUME StartLocks(t)
      PROVE  /\ OnlyMoves(t) /\ thread[t].at = "start"
             /\ thread'[t].at = IF status_running THEN "idle" ELSE "starting"
  BY <1>1, <1>2, <1>4 DEF StartLocks, Places
<1>5. ASSUME StartFails(t) \/ PolicyRefused(t) \/ DriverCannotStart(t) \/ RefreshesInstalled(t) \/ Stopped(t)
      PROVE  OnlyMoves(t) /\ thread'[t].at = "idle"
  BY <1>1, <1>5 DEF StartFails, PolicyRefused, DriverCannotStart, RefreshesInstalled, Stopped
<1>6. ASSUME SpawnsDriver(t)
      PROVE  OnlyMoves(t) /\ thread'[t].at = "hold" /\ thread'[t].id = thread[t].id
  BY <1>2, <1>6 DEF SpawnsDriver, Places
<1>7. ASSUME StopDropsDriver(t)
      PROVE  OnlyMoves(t) /\ thread'[t].at = "stop lock"
  BY <1>2, <1>7 DEF StopDropsDriver, Places
<1>8. ASSUME StopLocks(t)
      PROVE  /\ OnlyMoves(t)
             /\ IF slot = NoRecording THEN thread'[t].at = "idle"
                ELSE thread'[t].at = "stopping" /\ thread'[t].id = slot
  <2>1. CASE slot = NoRecording
    BY <1>1, <1>8, <2>1 DEF StopLocks
  <2>2. CASE slot # NoRecording
    <3>1. thread' = [thread EXCEPT ![t].at = "stopping", ![t].id = slot]
      BY <1>8, <2>2 DEF StopLocks
    <3> QED
      BY <2>2, <3>1 DEF OnlyMoves, Threaded, Places
  <2> QED
    BY <2>1, <2>2
<1>9. /\ StartFails(t) => thread[t].at = "starting"
      /\ PolicyRefused(t) \/ DriverCannotStart(t) \/ SpawnsDriver(t) => thread[t].at = "spawn"
      /\ RefreshesInstalled(t) => thread[t].at = "refresh"
      /\ Stopped(t) => thread[t].at = "stopping"
      /\ StopDropsDriver(t) => thread[t].at = "stop"
      /\ StopLocks(t) => thread[t].at = "stop lock"
  BY DEF StartFails, PolicyRefused, DriverCannotStart, SpawnsDriver, RefreshesInstalled, Stopped,
     StopDropsDriver, StopLocks
<1> QED
  BY <1>3, <1>4, <1>5, <1>6, <1>7, <1>8, <1>9

(* The two steps that put something into a thread.                          *)
LEMMA StartedThread ==
    ASSUME HostTyped, NEW t \in Threads, Started(t)
    PROVE  /\ OnlyMoves(t) /\ thread[t].at = "starting" /\ thread'[t].at = "spawn"
           /\ thread'[t].id = slot' /\ slot' \in Drivers /\ recordings[slot'] = "none"
           /\ recordings' = [recordings EXCEPT ![slot'] = "running"]
<1>1. PICK d \in Drivers \ started :
         /\ recordings' = [recordings EXCEPT ![d] = "running"]
         /\ slot' = d
         /\ thread' = [thread EXCEPT ![t].at = "spawn", ![t].id = d]
  BY DEF Started
<1>2. recordings[d] = "none"
  BY DEF started
<1>3. OnlyMoves(t) /\ thread'[t].at = "spawn" /\ thread'[t].id = d
  BY <1>1 DEF HostTyped, OnlyMoves, Threaded, Places
<1> QED
  BY <1>1, <1>2, <1>3 DEF Started

LEMMA HeldThread ==
    ASSUME HostTyped, GsiTyped, StartsAreApart, NEW t \in Threads, HoldsDriver(t)
    PROVE  /\ OnlyMoves(t) /\ thread[t].at = "hold" /\ thread'[t].at = "refresh"
           /\ thread'[t].id = thread[t].id /\ events' = thread[t].id /\ events' \in Drivers
           /\ thread'[t].bindings = binding[thread[t].id]
<1>1. thread[t].id \in Drivers
  BY DEF HoldsDriver, StartsAreApart, Spawning
<1>2. binding[thread[t].id] \in Bindings
  BY <1>1 DEF GsiTyped
<1> QED
  BY <1>1, <1>2 DEF HoldsDriver, HostTyped, OnlyMoves, Threaded, Places

-----------------------------------------------------------------------------
(* One recording at a time. *)

LEMMA NoRecordingIsNone == NoRecording \notin Drivers /\ NoDriver \notin Drivers
BY GsiInstallAssumption DEF NoRecording, NoDriver

LEMMA CapturedStep ==
    ASSUME HostTyped, GsiTyped, OneCaptured, StartsAreApart, HostNext
    PROVE  OneCaptured'
<1> USE DEF OneCaptured
<1>1. ASSUME UNCHANGED <<recordings, slot, lock>>, NEW t \in Threads, OnlyMoves(t),
             thread[t].at \notin {"starting", "stopping"}, thread'[t].at \notin {"starting", "stopping"}
      PROVE  OneCaptured'
  BY <1>1 DEF OnlyMoves, LockIsHeld, WhatRunsIsHeld, SlotIsFree, status_running
<1>2. CASE Installs
  <2>1. UNCHANGED <<recordings, slot, lock, thread>>
    BY <1>2 DEF Installs
  <2> QED
    BY <2>1 DEF LockIsHeld, WhatRunsIsHeld, SlotIsFree, status_running
<1>3. CASE RecordingDies
  <2>1. /\ UNCHANGED <<slot, lock, thread>>
        /\ \A d \in Drivers : recordings'[d] = "running" => recordings[d] = "running"
    BY <1>3 DEF RecordingDies, HostTyped
  <2>2. ~ status_running => ~ status_running'
    BY <2>1 DEF status_running, HostTyped, NoRecording
  <2> QED
    BY <2>1, <2>2 DEF LockIsHeld, WhatRunsIsHeld, SlotIsFree
<1>4. ASSUME NEW t \in Threads,
             \/ Press(t, "start") \/ Press(t, "stop") \/ ToggleRecording(t)
             \/ PolicyRefused(t) \/ SpawnsDriver(t) \/ DriverCannotStart(t)
             \/ HoldsDriver(t) \/ RefreshesInstalled(t) \/ StopDropsDriver(t)
      PROVE  OneCaptured'
  <2>1. UNCHANGED <<recordings, slot, lock>>
    BY <1>4 DEF Press, ToggleRecording, PolicyRefused, SpawnsDriver, DriverCannotStart, HoldsDriver,
       RefreshesInstalled, StopDropsDriver
  <2>2. /\ OnlyMoves(t) /\ thread[t].at \notin {"starting", "stopping"}
        /\ thread'[t].at \notin {"starting", "stopping"}
    BY <1>4, ThreadSteps, HeldThread DEF ToggleRecording, Places
  <2> QED
    BY <1>1, <2>1, <2>2
<1>5. ASSUME NEW t \in Threads, StartLocks(t)
      PROVE  OneCaptured'
  <2>1. OnlyMoves(t) /\ thread[t].at = "start" /\ UNCHANGED <<recordings, slot>> /\ lock = Nobody
    BY <1>5, ThreadSteps DEF StartLocks
  <2>2. CASE status_running
    <3>1. thread'[t].at = "idle" /\ UNCHANGED lock
      BY <1>5, <2>2, ThreadSteps DEF StartLocks
    <3> QED
      BY <1>1, <2>1, <3>1
  <2>3. CASE ~ status_running
    <3>1. thread'[t].at = "starting" /\ lock' = t /\ ~ status_running'
      BY <1>5, <2>1, <2>3, ThreadSteps DEF StartLocks, status_running
    <3>2. \A u \in Threads : thread[u].at \notin {"starting", "stopping"}
      BY <2>1, HostAssumption DEF LockIsHeld
    <3> QED
      BY <2>1, <3>1, <3>2 DEF OnlyMoves, LockIsHeld, WhatRunsIsHeld, SlotIsFree
  <2> QED
    BY <2>2, <2>3
<1>6. ASSUME NEW t \in Threads, Started(t) \/ StartFails(t) \/ StopLocks(t) \/ Stopped(t)
      PROVE  \A u \in Threads : u # t => thread[u].at \notin {"starting", "stopping"}
  BY <1>6, HostAssumption DEF LockIsHeld, Started, StartFails, StopLocks, Stopped
<1>7. ASSUME NEW t \in Threads, Started(t)
      PROVE  OneCaptured'
  <2>1. /\ OnlyMoves(t) /\ thread[t].at = "starting" /\ thread'[t].at = "spawn"
        /\ slot' \in Drivers
        /\ recordings' = [recordings EXCEPT ![slot'] = "running"]
    BY <1>7, StartedThread
  <2>2. \A d \in Drivers : recordings[d] # "running"
    BY <1>6, <1>7, <2>1, NoRecordingIsNone DEF WhatRunsIsHeld, SlotIsFree, status_running
  <2>3. \A u \in Threads : thread'[u].at \notin {"starting", "stopping"}
    BY <1>6, <1>7, <2>1 DEF OnlyMoves
  <2>4. \A d \in Drivers : recordings'[d] = "running" => d = slot'
    BY <2>1, <2>2 DEF HostTyped
  <2> QED
    BY <2>3, <2>4 DEF LockIsHeld, WhatRunsIsHeld, SlotIsFree
<1>8. ASSUME NEW t \in Threads, StartFails(t)
      PROVE  OneCaptured'
  <2>1. OnlyMoves(t) /\ thread[t].at = "starting" /\ thread'[t].at = "idle" /\ UNCHANGED <<recordings, slot>>
    BY <1>8, ThreadSteps DEF StartFails
  <2>2. \A u \in Threads : thread'[u].at \notin {"starting", "stopping"}
    BY <1>6, <1>8, <2>1 DEF OnlyMoves
  <2>3. \A d \in Drivers : recordings[d] # "running"
    BY <1>6, <1>8, <2>1, NoRecordingIsNone DEF WhatRunsIsHeld, SlotIsFree, status_running
  <2> QED
    BY <2>1, <2>2, <2>3 DEF LockIsHeld, WhatRunsIsHeld, SlotIsFree
<1>9. ASSUME NEW t \in Threads, StopLocks(t)
      PROVE  OneCaptured'
  <2>1. /\ OnlyMoves(t) /\ thread[t].at = "stop lock" /\ UNCHANGED recordings
        /\ slot' = NoRecording /\ lock = Nobody
    BY <1>9, ThreadSteps DEF StopLocks
  <2>2. \A u \in Threads : u # t => thread'[u].at \notin {"starting", "stopping"}
    BY <1>6, <1>9, <2>1 DEF OnlyMoves
  <2>3. \A d \in Drivers : recordings[d] = "running" => d = slot
    BY <1>6, <1>9, <2>1 DEF WhatRunsIsHeld
  <2>4. CASE slot = NoRecording
    <3>1. thread'[t].at = "idle"
      BY <1>9, <2>4, ThreadSteps
    <3> QED
      BY <2>1, <2>2, <2>3, <2>4, <3>1, NoRecordingIsNone DEF LockIsHeld, WhatRunsIsHeld, SlotIsFree
  <2>5. CASE slot # NoRecording
    <3>1. thread'[t].at = "stopping" /\ thread'[t].id = slot /\ lock' = t
      BY <1>9, <2>5, ThreadSteps DEF StopLocks
    <3> QED
      BY <2>1, <2>2, <2>3, <3>1 DEF LockIsHeld, WhatRunsIsHeld, SlotIsFree
  <2> QED
    BY <2>4, <2>5
<1>10. ASSUME NEW t \in Threads, Stopped(t)
       PROVE  OneCaptured'
  <2>1. /\ OnlyMoves(t) /\ thread[t].at = "stopping" /\ thread'[t].at = "idle" /\ UNCHANGED slot
        /\ recordings' = [recordings EXCEPT ![thread[t].id] = "over"]
    BY <1>10, ThreadSteps DEF Stopped
  <2>2. \A u \in Threads : thread'[u].at \notin {"starting", "stopping"}
    BY <1>6, <1>10, <2>1 DEF OnlyMoves
  <2>3. \A d \in Drivers : recordings'[d] # "running"
    <3>1. \A d \in Drivers : recordings[d] = "running" => d = thread[t].id
      BY <1>6, <1>10, <2>1, NoRecordingIsNone DEF WhatRunsIsHeld, SlotIsFree
    <3> QED
      BY <2>1, <3>1 DEF HostTyped
  <2> QED
    BY <2>2, <2>3 DEF LockIsHeld, WhatRunsIsHeld, SlotIsFree
<1> QED
  BY <1>2, <1>3, <1>4, <1>5, <1>7, <1>8, <1>9, <1>10 DEF HostNext

LEMMA AtMostOneRuns ==
    ASSUME OneCaptured, HostTyped
    PROVE  OneRecordingAtATime
<1>1. \E d : running \in SUBSET {d}
  <2>1. CASE \E t \in Threads : thread[t].at = "stopping"
    <3>1. PICK t \in Threads : thread[t].at = "stopping"
      BY <2>1
    <3>2. \A u \in Threads : thread[u].at = "stopping" => u = t
      BY <3>1 DEF OneCaptured, LockIsHeld
    <3>3. slot = NoRecording
      BY <3>1 DEF OneCaptured, SlotIsFree
    <3>4. \A d \in Drivers : recordings[d] = "running" => d = thread[t].id
      BY <3>2, <3>3, NoRecordingIsNone DEF OneCaptured, WhatRunsIsHeld
    <3> QED
      BY <3>4 DEF running
  <2>2. CASE ~ \E t \in Threads : thread[t].at = "stopping"
    BY <2>2 DEF OneCaptured, WhatRunsIsHeld, running
  <2> QED
    BY <2>1, <2>2
<1>2. PICK d : running \in SUBSET {d}
  BY <1>1
<1>3. IsFiniteSet({d}) /\ Cardinality({d}) = 1
  BY FS_Singleton
<1>4. Cardinality(running) <= Cardinality({d}) /\ Cardinality(running) \in Nat
  BY <1>2, <1>3, FS_Subset, FS_CardinalityType
<1> QED
  BY <1>3, <1>4 DEF OneRecordingAtATime

-----------------------------------------------------------------------------
(* Types, and the starts that are past the lock. *)

LEMMA TypedStep ==
    ASSUME HostTyped, GsiTyped, StartsAreApart, HostNext
    PROVE  HostTyped' /\ GsiTyped'
<1>1. NotServed \in Bindings /\ \A d \in Drivers : d \in Int
  BY GsiInstallAssumption DEF NotServed, Bindings
<1>2. CASE Installs
  <2>1. UNCHANGED <<recordings, slot, events, thread>>
    BY <1>2 DEF Installs
  <2>2. GsiTyped'
    <3>1. ASSUME events # NoDriver, ReadsBinding(binding[events])
          PROVE  GsiTyped'
      <4>1. binding[events] \in Bindings
        BY <3>1 DEF HostTyped, GsiTyped
      <4> QED
        BY <3>1, <4>1 DEF ReadsBinding, GsiTyped
    <3>2. ASSUME write_cfg \/ remember_install
          PROVE  GsiTyped'
      BY <1>1, <3>2 DEF write_cfg, remember_install, GsiTyped
    <3>3. ASSUME TokenFileChanges
          PROVE  GsiTyped'
      BY <3>3 DEF TokenFileChanges, GsiTyped, Absent, Torn
    <3> QED
      BY <1>2, <3>1, <3>2, <3>3 DEF Installs
  <2> QED
    BY <2>1, <2>2 DEF HostTyped
<1>3. CASE RecordingDies
  BY <1>3 DEF RecordingDies, HostTyped, GsiTyped, gsiVars
<1>4. ASSUME NEW t \in Threads,
             \/ Press(t, "start") \/ Press(t, "stop") \/ ToggleRecording(t) \/ StartLocks(t)
             \/ StartFails(t) \/ PolicyRefused(t) \/ DriverCannotStart(t)
      PROVE  HostTyped' /\ GsiTyped'
  <2>1. UNCHANGED <<recordings, slot, events>> /\ UNCHANGED gsiVars
    BY <1>4 DEF Press, ToggleRecording, StartLocks, StartFails, PolicyRefused, DriverCannotStart
  <2>2. OnlyMoves(t)
    BY <1>4, ThreadSteps DEF ToggleRecording, Places
  <2> QED
    BY <2>1, <2>2 DEF OnlyMoves, HostTyped, GsiTyped, gsiVars
<1>5. ASSUME NEW t \in Threads, Started(t)
      PROVE  HostTyped' /\ GsiTyped'
  <2>1. UNCHANGED <<events, token, tokens, binding, install>>
    BY <1>5 DEF Started, gsiVars
  <2> QED
    BY <1>5, <2>1, StartedThread DEF OnlyMoves, HostTyped, GsiTyped
<1>6. ASSUME NEW t \in Threads, StopLocks(t) \/ Stopped(t)
      PROVE  HostTyped' /\ GsiTyped'
  <2>1. OnlyMoves(t) /\ UNCHANGED <<events, token, tokens, binding, install>>
    BY <1>6, ThreadSteps DEF StopLocks, Stopped, gsiVars
  <2>2. slot' \in {slot, NoRecording}
        /\ (recordings' = recordings \/ recordings' = [recordings EXCEPT ![thread[t].id] = "over"])
    BY <1>6 DEF StopLocks, Stopped
  <2> QED
    BY <2>1, <2>2 DEF OnlyMoves, HostTyped, GsiTyped
<1>7. ASSUME NEW t \in Threads, SpawnsDriver(t)
      PROVE  HostTyped' /\ GsiTyped'
  <2>1. OnlyMoves(t) /\ UNCHANGED <<recordings, slot, events, install>> /\ start_gsi(thread[t].id)
    BY <1>7, ThreadSteps DEF SpawnsDriver, start_gsi
  <2>2. thread[t].id \in Drivers
    BY <1>7 DEF SpawnsDriver, StartsAreApart, Spawning
  <2>3. token' \in Int /\ tokens' \in Int
    BY <2>1 DEF start_gsi, load_or_create_token, GsiTyped
  <2>4. [port |-> PortOf(thread[t].id), token |-> token'] \in Bindings
    BY <1>1, <2>2, <2>3 DEF PortOf, ConfiguredPort, Bindings
  <2>5. binding' \in [Drivers -> Bindings]
    BY <2>1, <2>4 DEF start_gsi, GsiTyped
  <2> QED
    BY <2>1, <2>3, <2>5 DEF OnlyMoves, HostTyped, GsiTyped
<1>8. ASSUME NEW t \in Threads, HoldsDriver(t) \/ StopDropsDriver(t)
      PROVE  HostTyped' /\ GsiTyped'
  <2>1. /\ OnlyMoves(t) /\ UNCHANGED <<recordings, slot, token, tokens, install>>
        /\ events' \in Drivers \cup {NoDriver}
        /\ drop_drivers({events})
    BY <1>8, ThreadSteps, HeldThread DEF HoldsDriver, StopDropsDriver
  <2>2. binding' \in [Drivers -> Bindings]
    BY <1>1, <2>1 DEF drop_drivers, GsiTyped
  <2> QED
    BY <2>1, <2>2 DEF OnlyMoves, HostTyped, GsiTyped
<1>9. ASSUME NEW t \in Threads, RefreshesInstalled(t)
      PROVE  HostTyped' /\ GsiTyped'
  <2>1. OnlyMoves(t) /\ UNCHANGED <<recordings, slot, events, token, tokens, binding, install>>
    BY <1>9, ThreadSteps DEF RefreshesInstalled
  <2> QED
    BY <2>1 DEF OnlyMoves, HostTyped, GsiTyped
<1> QED
  BY <1>2, <1>3, <1>4, <1>5, <1>6, <1>7, <1>8, <1>9 DEF HostNext

(* A recording that was started stays so, and a start gets one that was not. *)
LEMMA ApartStep ==
    ASSUME HostTyped, GsiTyped, Apart, HostNext
    PROVE  Apart'
<1> USE DEF Apart
<1>1. ASSUME UNCHANGED thread, UNCHANGED events,
             \A d \in Drivers : recordings[d] # "none" => recordings'[d] # "none"
      PROVE  Apart'
  BY <1>1 DEF StartsAreApart, HeldWasStarted, HostTyped
<1>2. ASSUME NEW t \in Threads, OnlyMoves(t),
             \A d \in Drivers : recordings[d] # "none" => recordings'[d] # "none",
             events' \in {events, NoDriver},
             \/ thread'[t].at \notin Spawning
             \/ thread[t].at = "spawn" /\ thread'[t].at = "hold" /\ thread'[t].id = thread[t].id
      PROVE  Apart'
  <2>1. HeldWasStarted'
    BY <1>2 DEF HeldWasStarted, HostTyped
  <2>2. StartsAreApart'
    BY <1>2, NoRecordingIsNone DEF OnlyMoves, StartsAreApart, Spawning
  <2> QED
    BY <2>1, <2>2
<1>3. CASE Installs \/ RecordingDies
  <2>1. /\ UNCHANGED thread /\ UNCHANGED events
        /\ \A d \in Drivers : recordings[d] # "none" => recordings'[d] # "none"
    BY <1>3 DEF Installs, RecordingDies, HostTyped
  <2> QED
    BY <1>1, <2>1
<1>4. ASSUME NEW t \in Threads,
             \/ Press(t, "start") \/ Press(t, "stop") \/ ToggleRecording(t) \/ StartLocks(t)
             \/ StartFails(t) \/ PolicyRefused(t) \/ DriverCannotStart(t) \/ SpawnsDriver(t)
             \/ RefreshesInstalled(t) \/ StopDropsDriver(t) \/ StopLocks(t)
      PROVE  Apart'
  <2>1. recordings' = recordings /\ events' \in {events, NoDriver}
    BY <1>4 DEF Press, ToggleRecording, StartLocks, StartFails, PolicyRefused, DriverCannotStart,
       SpawnsDriver, RefreshesInstalled, StopDropsDriver, StopLocks
  <2>2. /\ OnlyMoves(t)
        /\ \/ thread'[t].at \notin Spawning
           \/ thread[t].at = "spawn" /\ thread'[t].at = "hold" /\ thread'[t].id = thread[t].id
    BY <1>4, ThreadSteps DEF ToggleRecording, Places, Spawning
  <2> QED
    BY <1>2, <2>1, <2>2
<1>5. ASSUME NEW t \in Threads, Stopped(t)
      PROVE  Apart'
  <2>1. /\ OnlyMoves(t) /\ thread'[t].at = "idle" /\ events' = events
        /\ \A d \in Drivers : recordings[d] # "none" => recordings'[d] # "none"
    BY <1>5, ThreadSteps DEF Stopped, HostTyped
  <2> QED
    BY <1>2, <2>1 DEF Spawning
<1>6. ASSUME NEW t \in Threads, Started(t)
      PROVE  Apart'
  <2>1. /\ OnlyMoves(t) /\ thread'[t].at = "spawn" /\ thread'[t].id = slot'
        /\ slot' \in Drivers /\ recordings[slot'] = "none"
        /\ recordings' = [recordings EXCEPT ![slot'] = "running"]
    BY <1>6, StartedThread
  <2>2. events' = events /\ events # slot'
    BY <1>6, <2>1, NoRecordingIsNone DEF Started, HeldWasStarted
  <2>3. recordings'[slot'] = "running" /\ \A d \in Drivers : recordings[d] # "none" => recordings'[d] # "none"
    BY <2>1 DEF HostTyped
  <2>4. \A u \in Threads : u # t /\ thread'[u].at \in Spawning => thread'[u] = thread[u] /\ thread[u].id # slot'
    BY <2>1 DEF OnlyMoves, StartsAreApart
  <2>5. HeldWasStarted'
    BY <2>2, <2>3 DEF HeldWasStarted, HostTyped
  <2>6. StartsAreApart'
    BY <2>1, <2>2, <2>3, <2>4 DEF StartsAreApart
  <2> QED
    BY <2>5, <2>6
<1>7. ASSUME NEW t \in Threads, HoldsDriver(t)
      PROVE  Apart'
  <2>1. /\ OnlyMoves(t) /\ thread[t].at = "hold" /\ thread'[t].at = "refresh"
        /\ thread'[t].id = thread[t].id /\ events' = thread[t].id /\ recordings' = recordings
    BY <1>7, HeldThread DEF HoldsDriver
  <2>2. recordings[thread[t].id] # "none"
    BY <2>1 DEF StartsAreApart, Spawning
  <2>3. \A u \in Threads : u # t /\ thread[u].at \in Spawning => thread[u].id # thread[t].id
    BY <2>1 DEF StartsAreApart, Spawning
  <2>4. StartsAreApart'
    BY <2>1, <2>3 DEF OnlyMoves, StartsAreApart, Spawning
  <2> QED
    BY <2>1, <2>2, <2>4 DEF HeldWasStarted
<1> QED
  BY <1>3, <1>4, <1>5, <1>6, <1>7 DEF HostNext

-----------------------------------------------------------------------------
(* The game is told the listener that is up. *)

(* What a step that raced nothing found. *)
LEMMA NotRaced ==
    ASSUME NEW t \in Threads, ~ raced'
    PROVE  /\ SpawnsDriver(t) => ~ raced /\ install.at = "idle"
           /\ HoldsDriver(t) => ~ raced /\ install.at = "idle"
           /\ RefreshesInstalled(t) => ~ raced /\ install.at = "idle" /\ events = thread[t].id
<1>1. SpawnsDriver(t) => ~ raced /\ install.at = "idle"
  BY Zenon DEF SpawnsDriver, start_gsi
<1>2. HoldsDriver(t) => ~ raced /\ install.at = "idle"
  BY Zenon DEF HoldsDriver
<1>3. RefreshesInstalled(t) => ~ raced /\ install.at = "idle" /\ events = thread[t].id
  BY Zenon DEF RefreshesInstalled
<1> QED
  BY <1>1, <1>2, <1>3

LEMMA FileToldStep ==
    ASSUME HostTyped, GsiTyped, Apart, FileTold, HostNext
    PROVE  FileTold'
<1> USE DEF FileTold
(* Steps that leave the installation, the held driver and its binding. *)
<1>1. ASSUME NEW t \in Threads, OnlyMoves(t), UNCHANGED <<cfg, record, install, events>>,
             ~ raced' => ~ raced,
             thread[t].at # "refresh", thread'[t].at # "refresh",
             events # NoDriver => binding'[events] = binding[events]
      PROVE  FileTold'
  <2>1. FileIsRemembered' /\ InstallIsOfTheHeld'
    BY <1>1 DEF FileIsRemembered, InstallIsOfTheHeld
  <2>2. RefreshIsOfTheHeld'
    <3>1. \A u \in Threads : thread[u].at = "refresh" => thread[u].id # NoDriver
      BY NoRecordingIsNone DEF Apart, StartsAreApart, Spawning
    <3>2. \A u \in Threads : thread'[u].at = "refresh" => thread'[u] = thread[u]
      BY <1>1 DEF OnlyMoves
    <3> QED
      BY <1>1, <3>1, <3>2 DEF RefreshIsOfTheHeld
  <2>3. RecordIsOfTheHeld'
    <3>1. \A u \in Threads : thread[u].at = "refresh" /\ thread[u].id = events =>
                             thread'[u].at = "refresh" /\ thread'[u].id = events'
      BY <1>1 DEF OnlyMoves
    <3> QED
      BY <1>1, <3>1 DEF RecordIsOfTheHeld
  <2> QED
    BY <2>1, <2>2, <2>3
<1>2. CASE RecordingDies
  BY <1>2 DEF RecordingDies, gsiVars, FileIsRemembered, InstallIsOfTheHeld, RefreshIsOfTheHeld,
     RecordIsOfTheHeld
<1>3. CASE Installs
  <2>1. UNCHANGED <<events, thread, binding>>
    BY <1>3 DEF Installs, ReadsBinding, write_cfg, remember_install, TokenFileChanges
  <2>2. raced' = raced
    BY <1>3, Zenon DEF Installs, ReadsBinding, write_cfg, remember_install, TokenFileChanges
  <2>3. RefreshIsOfTheHeld'
    BY <2>1 DEF RefreshIsOfTheHeld
  <2>4. CASE events # NoDriver /\ ReadsBinding(binding[events])
    <3>1. install.at = "idle" /\ install' = [at |-> "write", binding |-> binding[events]] /\ UNCHANGED <<cfg, record>>
      BY <2>4 DEF ReadsBinding
    <3> QED
      BY <2>1, <2>2, <2>3, <3>1 DEF FileIsRemembered, InstallIsOfTheHeld, RecordIsOfTheHeld
  <2>5. CASE write_cfg
    <3>1. install.at = "write" /\ record' = record
      BY <2>5 DEF write_cfg
    <3>2. CASE cfg' = install.binding /\ install'.at = "remember" /\ install'.binding = install.binding
      BY <2>1, <2>2, <2>3, <3>1, <3>2 DEF FileIsRemembered, InstallIsOfTheHeld, RecordIsOfTheHeld
    <3>3. CASE cfg' = cfg /\ install'.at = "idle"
      BY <2>1, <2>2, <2>3, <3>1, <3>3 DEF FileIsRemembered, InstallIsOfTheHeld, RecordIsOfTheHeld
    <3> QED
      BY <2>5, <3>2, <3>3 DEF write_cfg, GsiTyped
  <2>6. CASE remember_install
    <3>1. install.at = "remember" /\ record' = install.binding /\ install'.at = "idle" /\ cfg' = cfg
      BY <2>6 DEF remember_install
    <3> QED
      BY <2>1, <2>2, <2>3, <3>1 DEF FileIsRemembered, InstallIsOfTheHeld, RecordIsOfTheHeld
  <2>7. CASE TokenFileChanges
    <3>1. UNCHANGED <<cfg, record, install>>
      BY <2>7 DEF TokenFileChanges
    <3> QED
      BY <2>1, <2>2, <2>3, <3>1 DEF FileIsRemembered, InstallIsOfTheHeld, RecordIsOfTheHeld
  <2> QED
    BY <1>3, <2>4, <2>5, <2>6, <2>7 DEF Installs
<1>4. ASSUME NEW t \in Threads,
             \/ Press(t, "start") \/ Press(t, "stop") \/ ToggleRecording(t) \/ StartLocks(t)
             \/ StartFails(t) \/ PolicyRefused(t) \/ DriverCannotStart(t) \/ StopLocks(t) \/ Stopped(t)
      PROVE  FileTold'
  <2>1. UNCHANGED <<cfg, record, install, events, binding>>
    BY <1>4 DEF Press, ToggleRecording, StartLocks, StartFails, PolicyRefused, DriverCannotStart,
       StopLocks, Stopped, gsiVars
  <2>2. raced' = raced
    BY <1>4, Zenon DEF Press, ToggleRecording, StartLocks, StartFails, PolicyRefused, DriverCannotStart,
       StopLocks, Stopped, gsiVars
  <2>3. OnlyMoves(t) /\ thread[t].at # "refresh" /\ thread'[t].at # "refresh"
    BY <1>4, ThreadSteps DEF ToggleRecording, Places
  <2> QED
    BY <1>1, <2>1, <2>2, <2>3
<1>5. ASSUME NEW t \in Threads, Started(t)
      PROVE  FileTold'
  <2>1. UNCHANGED <<cfg, record, install, events, binding>>
    BY <1>5 DEF Started, gsiVars
  <2>2. raced' = raced
    BY <1>5, Zenon DEF Started, gsiVars
  <2> QED
    BY <1>1, <1>5, <2>1, <2>2, StartedThread
<1>6. ASSUME NEW t \in Threads, SpawnsDriver(t)
      PROVE  FileTold'
  <2>1. UNCHANGED <<cfg, record, install, events>> /\ start_gsi(thread[t].id)
    BY <1>6 DEF SpawnsDriver, start_gsi
  <2>2. thread[t].id # events
    BY <1>6 DEF SpawnsDriver, Apart, StartsAreApart, Spawning
  <2>3. events # NoDriver => binding'[events] = binding[events]
    <3>1. binding' = binding \/ \E v : binding' = [binding EXCEPT ![thread[t].id] = v]
      BY <2>1 DEF start_gsi
    <3> QED
      BY <2>2, <3>1 DEF GsiTyped, HostTyped
  <2>4. OnlyMoves(t) /\ thread[t].at # "refresh" /\ thread'[t].at # "refresh"
    BY <1>6, ThreadSteps
  <2> QED
    BY <1>1, <1>6, <2>1, <2>3, <2>4, NotRaced
<1>7. ASSUME NEW t \in Threads, HoldsDriver(t)
      PROVE  FileTold'
  <2>1. /\ OnlyMoves(t) /\ thread[t].at = "hold" /\ thread'[t].at = "refresh"
        /\ thread'[t].id = thread[t].id /\ events' = thread[t].id /\ events' \in Drivers
        /\ thread'[t].bindings = binding[thread[t].id]
        /\ UNCHANGED <<cfg, record, install>>
    BY <1>7, HeldThread DEF HoldsDriver, Apart
  <2>2. events # thread[t].id /\ \A u \in Threads : u # t /\ thread[u].at = "refresh" => thread[u].id # thread[t].id
    BY <2>1 DEF Apart, StartsAreApart, Spawning
  <2>3. binding'[events'] = binding[thread[t].id]
    BY <1>7, <2>1, <2>2 DEF HoldsDriver, drop_drivers
  <2>4. RefreshIsOfTheHeld'
    BY <2>1, <2>2, <2>3 DEF OnlyMoves, RefreshIsOfTheHeld
  <2>5. FileIsRemembered' /\ InstallIsOfTheHeld'
    BY <1>7, <2>1, NotRaced DEF FileIsRemembered, InstallIsOfTheHeld
  <2>6. RecordIsOfTheHeld'
    BY <2>1 DEF RecordIsOfTheHeld
  <2> QED
    BY <2>4, <2>5, <2>6
<1>8. ASSUME NEW t \in Threads, StopDropsDriver(t)
      PROVE  FileTold'
  <2>1. /\ OnlyMoves(t) /\ thread[t].at = "stop" /\ thread'[t].at = "stop lock"
        /\ events' = NoDriver /\ UNCHANGED <<cfg, record, install>>
    BY <1>8, ThreadSteps DEF StopDropsDriver
  <2>2. raced' = raced
    BY <1>8, Zenon DEF StopDropsDriver
  <2>3. RefreshIsOfTheHeld'
    <3>1. \A u \in Threads : thread'[u].at = "refresh" => thread'[u] = thread[u]
      BY <2>1 DEF OnlyMoves
    <3>2. \A u \in Threads : thread[u].at = "refresh" => thread[u].id # NoDriver
      BY NoRecordingIsNone DEF Apart, StartsAreApart, Spawning
    <3> QED
      BY <2>1, <3>1, <3>2 DEF RefreshIsOfTheHeld
  <2> QED
    BY <2>1, <2>2, <2>3 DEF FileIsRemembered, InstallIsOfTheHeld, RecordIsOfTheHeld
<1>9. ASSUME NEW t \in Threads, RefreshesInstalled(t)
      PROVE  FileTold'
  <2>1. /\ OnlyMoves(t) /\ thread[t].at = "refresh" /\ thread'[t].at = "idle"
        /\ UNCHANGED <<events, install, binding>> /\ refresh_installed_gsi(thread[t].bindings)
    BY <1>9, ThreadSteps DEF RefreshesInstalled
  <2>2. RefreshIsOfTheHeld'
    BY <2>1 DEF RefreshIsOfTheHeld, OnlyMoves
  <2>3. CASE raced'
    BY <2>2, <2>3 DEF FileIsRemembered, InstallIsOfTheHeld, RecordIsOfTheHeld
  <2>4. CASE ~ raced'
    <3>1. ~ raced /\ install.at = "idle" /\ events = thread[t].id
      BY <1>9, <2>4, NotRaced
    <3>2. thread[t].bindings = binding[events]
      BY <2>1, <3>1 DEF RefreshIsOfTheHeld
    <3>3. \/ record' = NotServed
          \/ cfg' = record' /\ (record' = binding[events] \/ binding[events] = NotServed)
      BY <2>1, <3>1, <3>2 DEF refresh_installed_gsi, Moved, FileIsRemembered
    <3> QED
      BY <2>1, <2>2, <3>1, <3>3 DEF FileIsRemembered, InstallIsOfTheHeld, RecordIsOfTheHeld
  <2> QED
    BY <2>3, <2>4
<1> QED
  BY <1>2, <1>3, <1>4, <1>5, <1>6, <1>7, <1>8, <1>9 DEF HostNext

-----------------------------------------------------------------------------
LEMMA HostStarts == HostInit => HostInv
<1> SUFFICES ASSUME HostInit PROVE HostInv
  OBVIOUS
<1>1. NotServed \in Bindings
  BY DEF NotServed, Bindings
<1>2. GsiTyped
  BY <1>1 DEF HostInit, GsiInstallInit, GsiTyped, Absent
<1>3. HostTyped
  BY IdleIsAThread DEF HostInit, HostTyped, Threaded
<1>4. /\ \A t \in Threads : thread[t].at = "idle"
      /\ \A d \in Drivers : recordings[d] = "none"
      /\ events = NoDriver /\ install.at = "idle" /\ record = NotServed
  BY DEF HostInit, GsiInstallInit, IdleThread
<1>5. OneCaptured /\ Apart
  BY <1>4 DEF OneCaptured, LockIsHeld, WhatRunsIsHeld, SlotIsFree, Apart, StartsAreApart,
     HeldWasStarted, Spawning
<1>6. FileTold
  BY <1>4 DEF FileTold, FileIsRemembered, InstallIsOfTheHeld, RefreshIsOfTheHeld, RecordIsOfTheHeld
<1> QED
  BY <1>2, <1>3, <1>5, <1>6 DEF HostInv

LEMMA HostStays == HostInv /\ [HostNext]_hostVars => HostInv'
<1> SUFFICES ASSUME HostInv, [HostNext]_hostVars PROVE HostInv'
  OBVIOUS
<1>1. CASE HostNext
  <2>1. HostTyped' /\ GsiTyped' /\ OneCaptured'
    BY <1>1, TypedStep, CapturedStep DEF HostInv, Apart
  <2>2. Apart' /\ FileTold'
    BY <1>1, ApartStep, FileToldStep DEF HostInv
  <2> QED
    BY <2>1, <2>2 DEF HostInv
<1>2. CASE UNCHANGED hostVars
  <2>1. UNCHANGED <<recordings, slot, lock, events, thread, token, tokens, binding, install, cfg, record>>
    BY <1>2 DEF hostVars, gsiVars
  <2>2. raced' = raced
    BY <1>2, Zenon DEF hostVars, gsiVars
  <2>3. HostTyped' /\ GsiTyped' /\ OneCaptured'
    BY <2>1 DEF HostInv, HostTyped, GsiTyped, OneCaptured, LockIsHeld, WhatRunsIsHeld, SlotIsFree, status_running
  <2>4. Apart' /\ FileTold'
    BY <2>1, <2>2 DEF HostInv, Apart, StartsAreApart, HeldWasStarted, FileTold, FileIsRemembered,
       InstallIsOfTheHeld, RefreshIsOfTheHeld, RecordIsOfTheHeld
  <2> QED
    BY <2>3, <2>4 DEF HostInv
<1> QED
  BY <1>1, <1>2

LEMMA HostHolds == HostSpec => []HostInv
BY HostStarts, HostStays, PTL DEF HostSpec

(* However the starts and the stops of any number of threads overlap, and   *)
(* whichever recordings die by themselves meanwhile, one is captured at a   *)
(* time (RecorderHost::start_with, stop).                                   *)
THEOREM TheHostCapturesOne == HostSpec => []OneRecordingAtATime
<1>1. HostInv => OneRecordingAtATime
  BY AtMostOneRuns DEF HostInv
<1> QED
  BY <1>1, HostHolds, PTL

(* The file a game reads names the port and the token of the listener that  *)
(* is up, however many recordings were started since it was installed, as   *)
(* long as no install and no late refresh overlapped a driver's change      *)
(* (refresh_installed_gsi).                                                 *)
THEOREM TheGameFindsTheListener == HostSpec => []GameIsToldTheListener
<1>1. ASSUME HostInv
      PROVE  GameIsToldTheListener
  <2> SUFFICES ASSUME Quiet, install.at = "idle", ~ raced, record # NotServed, events # NoDriver
               PROVE  binding[events] = NotServed \/ cfg = binding[events]
    BY DEF GameIsToldTheListener
  <2>1. \A t \in Threads : thread[t].at # "refresh"
    BY DEF Quiet, IdleThread
  <2>2. cfg = record
    BY <1>1 DEF HostInv, FileTold, FileIsRemembered
  <2> QED
    BY <1>1, <2>1, <2>2 DEF HostInv, FileTold, RecordIsOfTheHeld
<1> QED
  BY <1>1, HostHolds, PTL

-----------------------------------------------------------------------------
(* --- the parts together ------------------------------------------------- *)
DesktopInv ==
    /\ LibraryInv /\ CountInv /\ SchemaInv /\ MatchInv /\ LegacyInv
    /\ SettingsInv /\ LaunchInv
    /\ PinsInv /\ VerdictInv

LEMMA DesktopStarts == MCInit => DesktopInv
  BY LibraryStarts, TheCountStarts, SchemaStarts, MatchesStart, LegacyStarts, SettingsStart,
     LaunchStarts, PinsStart, VerdictStarts
  DEF MCInit, DesktopInv

(* A step of the whole is a step of one part, and the others stay.          *)
LEMMA AStepIsOfOnePart ==
    ASSUME [MCNext]_<<indexVars, desktopVars, toolVars, part>>
    PROVE  /\ [LibraryNext]_libraryVars /\ [SchemaNext]_schemaVars /\ [MatchNext]_matchVars
           /\ [LegacyNext]_legacyVars /\ [SettingsNext]_settingsVars /\ [LaunchNext]_launchVars
           /\ [SidecarNext]_sidecarVars /\ [AcceptanceNext]_acceptanceVars
<1>1. CASE TheIndex /\ UNCHANGED <<desktopVars, toolVars>>
  BY <1>1 DEF TheIndex, desktopVars, toolVars
<1>2. CASE Desktop /\ UNCHANGED <<indexVars, toolVars>>
  BY <1>2 DEF Desktop, indexVars, toolVars
<1>3. CASE Tools /\ UNCHANGED <<indexVars, desktopVars>>
  BY <1>3 DEF Tools, indexVars, desktopVars
<1>4. CASE UNCHANGED <<indexVars, desktopVars, toolVars, part>>
  BY <1>4 DEF indexVars, desktopVars, toolVars
<1> QED
  BY <1>1, <1>2, <1>3, <1>4 DEF MCNext

LEMMA DesktopStays ==
    DesktopInv /\ [MCNext]_<<indexVars, desktopVars, toolVars, part>> => DesktopInv'
<1> SUFFICES ASSUME DesktopInv, [MCNext]_<<indexVars, desktopVars, toolVars, part>>
             PROVE  DesktopInv'
  OBVIOUS
<1>1. /\ LibraryInv /\ CountInv /\ SchemaInv /\ MatchInv /\ LegacyInv
      /\ SettingsInv /\ LaunchInv /\ PinsInv /\ VerdictInv
  BY DEF DesktopInv
<1>2. /\ [LibraryNext]_libraryVars /\ [SchemaNext]_schemaVars /\ [MatchNext]_matchVars
      /\ [LegacyNext]_legacyVars /\ [SettingsNext]_settingsVars /\ [LaunchNext]_launchVars
      /\ [SidecarNext]_sidecarVars /\ [AcceptanceNext]_acceptanceVars
  BY AStepIsOfOnePart
<1>3. LibraryInv' /\ CountInv' /\ SchemaInv' /\ MatchInv' /\ LegacyInv'
  BY <1>1, <1>2, LibraryStays, TheCountStays, SchemaStays, MatchesStay, LegacyStays
<1>4. SettingsInv' /\ LaunchInv'
  BY <1>1, <1>2, SettingsStays, LaunchStays
<1>5. PinsInv' /\ VerdictInv'
  BY <1>1, <1>2, PinsStay, VerdictStays
<1> QED
  BY <1>3, <1>4, <1>5 DEF DesktopInv

LEMMA DesktopHolds == MCSpec => []DesktopInv
  BY DesktopStarts, DesktopStays, PTL DEF MCSpec

(* Whatever the recorder's policy and the desktop's commands delete, trim   *)
(* and index, in any order, and wherever either fails or dies, a row of the *)
(* library names the file it was made for, and no tag or event is left to   *)
(* the id of a row that has gone (cleanup.rs: execute_cleanup; clips.rs:    *)
(* delete_clip, free_output_path; lib.rs: delete_clip_returning_path).  And *)
(* of any library a plan deletes every clip past its age and, oldest first, *)
(* no more of the others than the cap needs; it never names a favourite,    *)
(* and says the cap is met when it is (cleanup.rs: plan_cleanup).           *)
THEOREM TheLibraryIsTrue == MCSpec => []LibraryIsTrue
<1>1. DesktopInv => LibraryIsTrue
  BY ThePlanIsTheRule DEF DesktopInv, LibraryInv, LibraryIsTrue
<1> QED
  BY <1>1, DesktopHolds, PTL

(* Whatever markers a session has, in the order of their times, its matches *)
(* follow each other and do not overlap; as many are complete as games      *)
(* ended and as many have a start of their own as games started, whatever   *)
(* was left open or never seen to begin; a start is guessed only of a match *)
(* that was seen to end, and a complete match shows a marker (matches.rs:   *)
(* split_matches, events_of).                                               *)
THEOREM TheMatchesTileTheSession == MCSpec => []MatchesTileTheSession
<1>1. DesktopInv => MatchesTileTheSession
  BY TheSessionIsTiled DEF DesktopInv
<1> QED
  BY <1>1, DesktopHolds, PTL

(* A launch does what it says to what it finds, and loses nothing there:    *)
(* the version of the index never claims a table that is not there, whoever *)
(* else opens it, whichever call fails and wherever an upgrade dies, and no *)
(* upgrade dies on a column another one added (lib.rs: migrate); every      *)
(* entry of the directory of the old name is in it or in the new one        *)
(* (config.rs: migrate_legacy_data_dir); and one launch of the shell stays, *)
(* says of the Run key what it holds and writes the log alone (lib.rs:      *)
(* run; background.rs: sync_autostart; log_file.rs).                        *)
THEOREM ALaunchIsAsTold == MCSpec => []LaunchesAreAsTold
<1>1. DesktopInv => LaunchesAreAsTold
  BY VersionsAreTrue, TheLaunchesAreOne DEF DesktopInv, LegacyInv, LaunchesAreAsTold
<1> QED
  BY <1>1, DesktopHolds, PTL

(* A file a recording starts with is one both panels can show; and what a   *)
(* panel was told is stored stays in the file, with commands in flight, a   *)
(* user who saves it, failed writes and the program ended and started       *)
(* again anywhere (config.rs: settings_write_lock).                         *)
THEOREM ThePanelsAreTrue == MCSpec => []PanelsTellTheTruth
<1>1. DesktopInv => PanelsTellTheTruth
  BY PanelsAreTrue DEF DesktopInv
<1> QED
  BY <1>1, DesktopHolds, PTL

(* A write changes the keys its panel sent and stamps the layout, in a file *)
(* whose layout this build reads; every other key stays as the last writer  *)
(* left it, unless the user saved the file while it ran (config.rs:         *)
(* write_settings_locked).                                                  *)
THEOREM ThePanelsKeepTheFile == MCSpec => PanelsKeepTheFile
<1> DEFINE Kept ==
      \/ file' = file \/ hands' # hands
      \/ \E c \in Calls :
            LET sent == call[c].edits
                text == text_or_example(file)
            IN  /\ call[c].at = "rename" /\ file'.layout = CURRENT
                /\ ~stale => /\ schema_check(text)
                             /\ \A k \in Keys \ DOMAIN sent : file'.v[k] = text.v[k]
<1>1. DesktopInv /\ [MCNext]_<<indexVars, desktopVars, toolVars, part>> => [Kept]_settingsVars
  <2> SUFFICES ASSUME DesktopInv, [MCNext]_<<indexVars, desktopVars, toolVars, part>>
               PROVE  [Kept]_settingsVars
    OBVIOUS
  <2>1. SettingsInv /\ [SettingsNext]_settingsVars
    BY AStepIsOfOnePart DEF DesktopInv
  <2>2. CASE UNCHANGED settingsVars
    BY <2>2
  <2>3. CASE SettingsNext
    BY <2>1, <2>3, AWriteKeepsTheRest
  <2> QED
    BY <2>1, <2>2, <2>3
<1> QED
  BY <1>1, DesktopHolds, PTL DEF MCSpec, PanelsKeepTheFile

(* What the tools say is done is done: a binary under its own name is of an *)
(* archive that was pinned, a fetch that ended well left every binary of    *)
(* its pin, a record pins archives the next fetch can extract (sidecars.rs: *)
(* fetch, record); and an acceptance run that exits with zero has one row   *)
(* for every check that was due, none failed, about its own clip            *)
(* (verify.rs).                                                             *)
THEOREM TheToolsTellTheTruth == MCSpec => []ToolsTellTheTruth
<1>1. DesktopInv => PinsAreKept /\ AcceptanceIsEarned
  BY ThePinsAreKept DEF DesktopInv, VerdictInv, AcceptanceIsEarned
<1> QED
  BY <1>1, DesktopHolds, PTL DEF ToolsTellTheTruth
=============================================================================
