--------------------------- MODULE PipelineProofs ---------------------------
(* What the two ends of a recording's video promise, proved for every rate,  *)
(* pool, queue, delay and directory: the pump is never starved by itself and *)
(* keeps the pace, the clock's timeline keeps the rate of the wall clock, no *)
(* segment is written over and the ledger of them is true, the clips and the *)
(* session file are whole, and what is saved beside a replay buffer is the   *)
(* stream's beginning.                                                       *)
EXTENDS MCPipeline, FiniteSetTheorems, WellFoundedInduction, TLAPS

\* What the larger of two numbers is, as the pacer and the span use it.
LEMMA LargerOfTwo == ASSUME NEW x \in Int, NEW y \in Int
                     PROVE  Max({x, y}) = IF x >= y THEN x ELSE y
<1> DEFINE m == IF x >= y THEN x ELSE y
<1>1. m \in {x, y} /\ \A z \in {x, y} : m >= z
  OBVIOUS
<1>2. \A a, b \in {x, y} : (\A z \in {x, y} : a >= z) /\ (\A z \in {x, y} : b >= z) => a = b
  OBVIOUS
<1> QED
  BY <1>1, <1>2 DEF Max

\* The smaller of two numbers is a number.
LEMMA SmallerOfTwo == ASSUME NEW x \in Int, NEW y \in Int
                      PROVE  Min({x, y}) \in Int
<1> DEFINE m == IF x <= y THEN x ELSE y
<1>1. m \in {x, y} /\ \A z \in {x, y} : m <= z
  OBVIOUS
<1> QED
  BY <1>1 DEF Min

-----------------------------------------------------------------------------
(* The pump. *)

Places == {"new", "idle", "sleep", "look", "wait", "asleep", "woken", "last",
           "copy", "submit", "failed", "stopped"}
PumpTyped ==
    /\ now \in Nat
    /\ arrivals \in Nat
    /\ taken \in Int
    /\ pump \in [at : Places, until : Int]
    /\ next_due \in Int
    /\ commits \in [last : Int, ahead : Int]

(* A frame beside a pump about to wait has a report, seen or to come.       *)
ReportIsToCome ==
    /\ pump.at = "wait" /\ pool # <<>> => arrived \/ arrivals > 0
    /\ pump.at = "asleep" /\ pool # <<>> => arrivals > 0
FramesAreClosed == taken = IF pump.at = "copy" THEN 1 ELSE 0

(* A frame is looked for when a slot is due.  How far the commits ran ahead *)
(* is measured from the slot that is next: by less than three slots.        *)
SlotIsDue == pump.at \in {"look", "wait", "asleep", "woken", "last", "copy", "submit"} => now >= next_due
AheadOfTheSlot == commits.last + commits.ahead - next_due < 3 * Interval
NotStarted == pump.at = "new" => commits = [last |-> 0, ahead |-> 0]
PaceInv == SlotIsDue /\ AheadOfTheSlot /\ NotStarted /\ PaceIsKept

PumpInv == PumpTyped /\ ReportIsToCome /\ FramesAreClosed /\ PaceInv

\* A step of the pump, the compositor or the encoder keeps the types.
LEMMA PumpTypedStep ==
    ASSUME PumpTyped, CaptureNext
    PROVE  PumpTyped'
<1> USE DEF PumpTyped
<1>1. Interval \in Int /\ Interval > 0
  BY CaptureAssumption
<1>2. ASSUME NEW where \in Places, GoTo(where) \/ StayUntil(where)
      PROVE  pump' \in [at : Places, until : Int]
  BY <1>2 DEF GoTo, StayUntil
<1>3. ASSUME CaptureTicks \/ Present \/ ScreenChanges \/ FrameArrived
      PROVE  PumpTyped'
  <2>1. pump' = pump \/ StayUntil("woken")
    BY <1>3 DEF CaptureTicks, Present, ScreenChanges, FrameArrived
  <2>2. pump' \in [at : Places, until : Int]
    BY <1>2, <2>1 DEF Places
  <2> QED
    BY <1>3, <2>2 DEF CaptureTicks, Present, ScreenChanges, FrameArrived, poolVars
<1>4. ASSUME Start \/ NextFrame \/ discard_pending \/ SleepEnds
      PROVE  PumpTyped'
  <2>1. pump' \in [at : Places, until : Int]
    <3>1. Min({next_due, now + 1}) \in Int
      BY SmallerOfTwo
    <3> QED
      BY <1>2, <1>4, <3>1 DEF Start, NextFrame, discard_pending, SleepEnds, GoUntil, Places
  <2> QED
    BY <1>4, <2>1 DEF Start, NextFrame, discard_pending, SleepEnds, poolVars
<1>5. ASSUME TakeFrame \/ NoFrameThere \/ wait \/ WaitRunsOut \/ Woken \/ FrameIsOut \/ CopyFails
      PROVE  PumpTyped'
  <2>1. \E where \in Places : GoTo(where) \/ StayUntil(where)
    BY <1>5 DEF TakeFrame, NoFrameThere, wait, WaitRunsOut, Woken, FrameIsOut, CopyFails, Places
  <2>2. pump' \in [at : Places, until : Int]
    BY <1>2, <2>1
  <2> QED
    BY <1>5, <2>2 DEF TakeFrame, NoFrameThere, wait, WaitRunsOut, Woken, FrameIsOut, CopyFails,
       CloseFrame, poolVars
<1>6. ASSUME Submit
      PROVE  PumpTyped'
  <2>1. Max({0, commits.ahead - (now - commits.last)}) \in Int
    BY LargerOfTwo
  <2>2. pump' \in [at : Places, until : Int]
    BY <1>2, <1>6 DEF Submit, Places
  <2>3. next_due' \in Int /\ commits' \in [last : Int, ahead : Int]
    BY <1>1, <1>6, <2>1 DEF Submit, commit
  <2> QED
    BY <1>6, <2>2, <2>3 DEF Submit, poolVars
<1>7. ASSUME guard_frame_size \/ stop \/ EncoderReads \/ EncoderHasRead
      PROVE  PumpTyped'
  <2>1. pump' \in [at : Places, until : Int]
    BY <1>2, <1>7 DEF guard_frame_size, stop, EncoderReads, EncoderHasRead, Places
  <2> QED
    BY <1>7, <2>1 DEF guard_frame_size, stop, EncoderReads, EncoderHasRead, poolVars
<1> QED
  BY <1>3, <1>4, <1>5, <1>6, <1>7 DEF CaptureNext

\* The pump keeps looking or a report is to come, and no frame stays open.
LEMMA ReportStep ==
    ASSUME PumpTyped, ReportIsToCome, FramesAreClosed, CaptureNext
    PROVE  ReportIsToCome' /\ FramesAreClosed'
<1> USE DEF PumpTyped, ReportIsToCome, FramesAreClosed
<1>1. ASSUME CaptureTicks \/ ScreenChanges \/ EncoderReads \/ EncoderHasRead
      PROVE  ReportIsToCome' /\ FramesAreClosed'
  BY <1>1 DEF CaptureTicks, ScreenChanges, EncoderReads, EncoderHasRead, poolVars
<1>2. ASSUME Present
      PROVE  ReportIsToCome' /\ FramesAreClosed'
  BY <1>2 DEF Present
<1>3. ASSUME FrameArrived
      PROVE  ReportIsToCome' /\ FramesAreClosed'
  BY <1>3 DEF FrameArrived, StayUntil
<1>4. ASSUME Start \/ NextFrame \/ discard_pending \/ SleepEnds
      PROVE  ReportIsToCome' /\ FramesAreClosed'
  BY <1>4 DEF Start, NextFrame, discard_pending, SleepEnds, GoTo, GoUntil, poolVars
<1>5. ASSUME TakeFrame \/ NoFrameThere \/ WaitRunsOut \/ Woken
      PROVE  ReportIsToCome' /\ FramesAreClosed'
  BY <1>5 DEF TakeFrame, NoFrameThere, WaitRunsOut, Woken, GoTo, StayUntil, poolVars
<1>6. ASSUME wait
      PROVE  ReportIsToCome' /\ FramesAreClosed'
  BY <1>6 DEF wait, StayUntil, poolVars
<1>7. ASSUME FrameIsOut \/ CopyFails \/ Submit \/ guard_frame_size \/ stop
      PROVE  ReportIsToCome' /\ FramesAreClosed'
  BY <1>7 DEF FrameIsOut, CopyFails, Submit, guard_frame_size, stop, CloseFrame, GoTo, poolVars
<1> QED
  BY <1>1, <1>2, <1>3, <1>4, <1>5, <1>6, <1>7 DEF CaptureNext

\* The pacer neither bursts nor falls behind in any step.
LEMMA PaceStep ==
    ASSUME PumpTyped, PaceInv, CaptureNext
    PROVE  PaceInv'
<1> USE DEF PumpTyped, PaceInv, PaceIsKept
<1>1. Interval \in Int /\ Interval > 0
  BY CaptureAssumption
<1>2. ASSUME UNCHANGED <<next_due, commits>>, now' \in {now, now + 1},
             pump'.at # "new" \/ pump' = pump,
             pump'.at \in {"look", "wait", "asleep", "woken", "last", "copy", "submit"} =>
                now >= next_due
      PROVE  PaceInv'
  BY <1>2 DEF SlotIsDue, AheadOfTheSlot, NotStarted
<1>3. ASSUME CaptureTicks \/ Present \/ ScreenChanges \/ FrameArrived \/ EncoderReads \/ EncoderHasRead
      PROVE  PaceInv'
  BY <1>2, <1>3 DEF CaptureTicks, Present, ScreenChanges, FrameArrived, EncoderReads, EncoderHasRead,
     StayUntil, SlotIsDue
<1>4. ASSUME NextFrame \/ discard_pending \/ SleepEnds
      PROVE  PaceInv'
  <2>1. UNCHANGED <<next_due, commits, now>>
    BY <1>4 DEF NextFrame, discard_pending, SleepEnds
  <2>2. \/ now >= next_due /\ pump'.at = "look"
        \/ pump'.at \in {"sleep", "idle"}
    BY <1>4 DEF NextFrame, discard_pending, SleepEnds, is_due, GoTo, GoUntil
  <2> QED
    BY <1>2, <2>1, <2>2
<1>5. ASSUME TakeFrame \/ NoFrameThere \/ wait \/ WaitRunsOut \/ Woken
      PROVE  PaceInv'
  <2>1. UNCHANGED <<next_due, commits, now>>
    BY <1>5 DEF TakeFrame, NoFrameThere, wait, WaitRunsOut, Woken
  <2>2. pump.at \in {"look", "last", "wait", "asleep", "woken"}
    BY <1>5 DEF TakeFrame, NoFrameThere, wait, WaitRunsOut, Woken
  <2>3. pump'.at # "new"
    BY <1>5 DEF TakeFrame, NoFrameThere, wait, WaitRunsOut, Woken, GoTo, StayUntil
  <2> QED
    BY <1>2, <2>1, <2>2, <2>3 DEF SlotIsDue
<1>6. ASSUME FrameIsOut \/ CopyFails \/ guard_frame_size \/ stop
      PROVE  PaceInv'
  <2>1. UNCHANGED <<next_due, commits, now>>
    BY <1>6 DEF FrameIsOut, CopyFails, guard_frame_size, stop
  <2>2. \/ pump.at = "copy" /\ pump'.at = "submit"
        \/ pump'.at \in {"failed", "stopped"}
    <3>1. CASE FrameIsOut
      BY <3>1 DEF FrameIsOut, GoTo
    <3>2. CASE CopyFails \/ guard_frame_size \/ stop
      <4>1. GoTo("failed") \/ GoTo("stopped")
        BY <3>2, Zenon DEF CopyFails, guard_frame_size, stop
      <4> QED
        BY <4>1 DEF GoTo
    <3> QED
      BY <1>6, <3>1, <3>2
  <2> QED
    BY <1>2, <2>1, <2>2 DEF SlotIsDue
<1>7. ASSUME Start
      PROVE  PaceInv'
  <2>1. commits' = [last |-> 0, ahead |-> 0] /\ next_due' = now /\ now' = now /\ pump'.at = "idle"
    BY <1>7 DEF Start, GoTo, NotStarted
  <2> QED
    BY <1>1, <2>1 DEF SlotIsDue, AheadOfTheSlot, NotStarted
<1>8. ASSUME Submit
      PROVE  PaceInv'
  <2> DEFINE over == IF commits.ahead - (now - commits.last) > 0
                     THEN commits.ahead - (now - commits.last) ELSE 0
  <2>1. Max({0, commits.ahead - (now - commits.last)}) = over
    BY LargerOfTwo
  <2>2. commits'.last = now /\ commits'.ahead = Interval + over /\ now' = now /\ pump'.at = "idle"
    BY <1>8, <2>1 DEF Submit, GoTo
  <2>3. \/ now - next_due >= 3 * Interval /\ next_due' = now + Interval
        \/ now - next_due < 3 * Interval /\ next_due' = next_due + Interval
    BY <1>1, <1>8 DEF Submit, commit
  <2>4. now >= next_due
    BY <1>8 DEF Submit, SlotIsDue
  <2>5. over \in Int /\ over >= 0 /\ over < 3 * Interval
    BY <1>1, <2>4 DEF AheadOfTheSlot
  <2>6. commits'.last + commits'.ahead - next_due' < 3 * Interval
    BY <1>1, <2>2, <2>3, <2>4 DEF AheadOfTheSlot
  <2>7. commits'.ahead < 4 * Interval /\ next_due' <= commits'.last + Interval
    BY <1>1, <2>2, <2>3, <2>4, <2>5
  <2> QED
    BY <2>2, <2>6, <2>7 DEF SlotIsDue, AheadOfTheSlot, NotStarted
<1> QED
  BY <1>3, <1>4, <1>5, <1>6, <1>7, <1>8 DEF CaptureNext

-----------------------------------------------------------------------------
(* The clock. *)

Times == [at : Int, stamp : Int, now : Int]
ClockInv ==
    /\ wall \in Nat /\ stamped \in Nat
    /\ last \in Times /\ anchor \in Times
    /\ last.now = wall
    /\ last.stamp # NoStamp => last.stamp = stamped
    /\ TimelineKeepsItsRate

\* The timeline keeps its rate through every kind of stamp.
LEMMA ClockStep ==
    ASSUME ClockInv, ClockNext
    PROVE  ClockInv'
<1> USE DEF ClockInv
<1>1. \A passed \in Intervals : passed \in Nat
  BY ClockAssumption
<1>2. CASE Stampless
  <2>1. PICK passed \in Intervals :
           /\ wall' = wall + passed
           /\ last' = [at |-> wall', stamp |-> NoStamp, now |-> wall']
           /\ anchor' = last' /\ stamped' = stamped
    BY <1>2 DEF Stampless
  <2> QED
    BY <1>1, <2>1 DEF Times, NoStamp, TimelineKeepsItsRate
<1>3. CASE Stamped
  <2>1. PICK passed \in Intervals, shown \in Intervals :
           /\ wall' = wall + passed /\ stamped' = stamped + shown
           /\ last' = [at |-> IF last.stamp = NoStamp THEN wall'
                              ELSE last.at + (IF agree(shown, passed) THEN shown ELSE passed),
                       stamp |-> stamped', now |-> wall']
           /\ anchor' = IF last.stamp = NoStamp THEN last' ELSE anchor
           /\ agreed' = (last.stamp = NoStamp \/ (agreed /\ agree(shown, passed)))
    BY <1>3, Zenon DEF Stamped
  <2>2. passed \in Nat /\ shown \in Nat
    BY <1>1
  <2>3. wall' \in Nat /\ stamped' \in Nat /\ last' \in Times /\ anchor' \in Times
        /\ last'.now = wall' /\ last'.stamp = stamped'
    BY <2>1, <2>2 DEF Times
  <2>4. TimelineKeepsItsRate'
    <3>1. CASE last.stamp = NoStamp
      BY <2>1, <2>3, <3>1 DEF TimelineKeepsItsRate, Times
    <3>2. CASE last.stamp # NoStamp
      <4>1. agreed' => agreed /\ agree(shown, passed)
        BY <2>1, <3>2, Zenon
      <4> DEFINE interval == IF agree(shown, passed) THEN shown ELSE passed
      <4>2. interval \in Nat /\ 2 * interval >= passed /\ interval <= 2 * passed
        BY <2>2 DEF agree
      <4>3. agreed' => interval = shown
        BY <4>1
      <4>4. /\ last'.at = last.at + interval /\ anchor' = anchor
            /\ last'.now = last.now + passed /\ last'.stamp = last.stamp + shown
        BY <2>1, <3>2
      <4> HIDE DEF interval
      <4> QED
        BY <2>2, <3>2, <4>1, <4>2, <4>3, <4>4 DEF TimelineKeepsItsRate, Times
    <3> QED
      BY <3>1, <3>2
  <2> QED
    BY <2>3, <2>4
<1> QED
  BY <1>2, <1>3 DEF ClockNext

-----------------------------------------------------------------------------
(* The segments.                                                            *)

UpTo(S, i) == {j \in S : j <= i}

(* The members of a finite set of numbers rank differently, and every rank  *)
(* is taken ...                                                             *)
LEMMA RanksAreTaken ==
    ASSUME NEW S \in SUBSET Int, IsFiniteSet(S)
    PROVE  /\ \A i \in S : Cardinality(UpTo(S, i)) \in 1..Cardinality(S)
           /\ \A a, b \in S : a < b => Cardinality(UpTo(S, a)) < Cardinality(UpTo(S, b))
           /\ \A k \in 1..Cardinality(S) : \E i \in S : Cardinality(UpTo(S, i)) = k
<1> DEFINE T == 1..Cardinality(S)
           f == [i \in S |-> Cardinality(UpTo(S, i))]
<1>1. Cardinality(S) \in Nat
  BY FS_CardinalityType
<1>2. ASSUME NEW i \in S
      PROVE  IsFiniteSet(UpTo(S, i)) /\ f[i] \in T
  <2>1. UpTo(S, i) \in SUBSET S /\ i \in UpTo(S, i)
    BY DEF UpTo
  <2>2. IsFiniteSet(UpTo(S, i)) /\ Cardinality(UpTo(S, i)) <= Cardinality(S)
    BY <2>1, FS_Subset
  <2>3. Cardinality(UpTo(S, i)) \in Nat /\ Cardinality(UpTo(S, i)) # 0
    BY <2>1, <2>2, FS_CardinalityType, FS_EmptySet
  <2> QED
    BY <1>1, <2>2, <2>3
<1>3. ASSUME NEW a \in S, NEW b \in S, a < b
      PROVE  f[a] < f[b]
  <2>1. \A x \in S : x <= a => x <= b
    BY <1>3
  <2>2. UpTo(S, a) \in SUBSET UpTo(S, b) /\ UpTo(S, a) # UpTo(S, b)
    <3>1. b \in UpTo(S, b) /\ b \notin UpTo(S, a)
      BY <1>3 DEF UpTo
    <3> QED
      BY <2>1, <3>1, Zenon DEF UpTo
  <2>3. f[a] <= f[b] /\ f[a] # f[b]
    BY <1>2, <2>2, FS_Subset
  <2> QED
    BY <1>2, <2>3
<1>4. f \in Injection(S, T)
  BY <1>2, <1>3 DEF Injection, IsInjective
<1>5. IsFiniteSet(T) /\ Cardinality(T) = Cardinality(S)
  BY <1>1, FS_Interval
<1>6. f \in Surjection(S, T)
  BY <1>4, <1>5, FS_Injection
<1>7. \A k \in T : \E i \in S : f[i] = k
  BY <1>6, Zenon DEF Surjection
<1> QED
  BY <1>2, <1>3, <1>7

(* ... so one of them ranks highest.                                        *)
LEMMA LargestIsThere ==
    ASSUME NEW S \in SUBSET Int, IsFiniteSet(S), S # {}
    PROVE  Max(S) \in S /\ \A j \in S : j <= Max(S)
<1>1. Cardinality(S) \in 1..Cardinality(S)
  <2>1. Cardinality(S) \in Nat /\ Cardinality(S) # 0
    BY FS_CardinalityType, FS_EmptySet
  <2> QED
    BY <2>1
<1>2. PICK m \in S : Cardinality(UpTo(S, m)) = Cardinality(S)
  BY <1>1, RanksAreTaken
<1>3. UpTo(S, m) = S
  <2>1. UpTo(S, m) \in SUBSET S
    BY DEF UpTo
  <2> QED
    BY <1>2, <2>1, FS_Subset
<1>4. \A j \in S : j <= m
  BY <1>3 DEF UpTo
<1> QED
  BY <1>4 DEF Max

\* A time that is a whole number of segments divides back to that number.
LEMMA WholeSegments ==
    ASSUME NEW n \in Int
    PROVE  (n * SEG) \div SEG = n
<1>1. SEG \in Nat /\ SEG > 0
  BY SessionFilesAssumption
<1> QED
  BY <1>1

FilesTyped ==
    /\ \A s \in DOMAIN disk : s \in Int /\ DOMAIN disk[s] = {"bytes", "whole", "audio", "old"}
    /\ child.seq \in Int /\ DOMAIN child = {"state", "seq", "open", "audio"}
    /\ session \notin {"running", "stopping"} => child.state # "running"

(* The encoder writes past everything else that is on the disk, an earlier  *)
(* run's segments and its own closed ones, and past the ledger.             *)
WritesPastTheRest ==
    child.state = "running" =>
        /\ \A s \in DOMAIN disk : /\ s <= child.seq
                                  /\ s = child.seq => ~ disk[s].old
                                  /\ s < child.seq => disk[s].whole \/ disk[s].old
        /\ \A s \in DOMAIN ledger : s \in DOMAIN disk /\ s < child.seq
LedgerIsOnDisk ==
    session # "finished" =>
        \A s \in DOMAIN ledger : s \in DOMAIN disk /\ ledger[s] = disk[s].bytes
FilesInv == FilesTyped /\ WritesPastTheRest /\ LedgerIsOnDisk

NoOldIsTouched == \A s \in DOMAIN disk : disk[s].old => s \notin DOMAIN disk' \/ disk'[s] = disk[s]

\* What an earlier run left satisfies the invariant of the segments.
LEMMA FilesStart ==
    ASSUME FilesInit
    PROVE  FilesInv
<1>1. PICK e \in Earlier, torn \in BOOLEAN : disk = EarlierFiles(e, torn /\ e # {})
  BY DEF FilesInit
<1>2. IsFiniteSet(e) /\ e \in SUBSET Int /\ \A s \in e : s \in Int
  <2>1. e \subseteq Nat /\ IsFiniteSet(e)
    BY SessionFilesAssumption
  <2> QED
    BY <2>1
<1>3. DOMAIN disk = e /\ \A s \in e : DOMAIN disk[s] = {"bytes", "whole", "audio", "old"} /\ disk[s].old
  BY <1>1, SessionFilesAssumption DEF EarlierFiles, Whole
<1>4. /\ \A s \in DOMAIN ledger : s \in DOMAIN disk /\ ledger[s] = disk[s].bytes
      /\ session = "running" /\ child.state = "running"
  BY DEF FilesInit, adopt_existing, newly_complete, observed_seqs
<1>5. reserve_number \in Int /\ \A s \in e : s < reserve_number
  <2>1. DOMAIN ledger \cup DOMAIN disk = e
    BY <1>3, <1>4
  <2>2. reserve_number = MaxOr(e, -1) + 1
    BY <2>1 DEF reserve_number, next_segment_number, observed_seqs
  <2>3. CASE e = {}
    BY <2>2, <2>3 DEF MaxOr
  <2>4. CASE e # {}
    <3>1. Max(e) \in e /\ \A s \in e : s <= Max(e)
      BY <1>2, <2>4, LargestIsThere
    <3>2. reserve_number = Max(e) + 1
      BY <2>2, <2>4 DEF MaxOr
    <3>3. Max(e) \in Int
      BY <1>2, <3>1, Zenon
    <3>4. \A s \in e : s \in Int /\ s <= Max(e)
      BY <1>2, <3>1, Zenon
    <3> QED
      BY <3>2, <3>3, <3>4
  <2> QED
    BY <2>3, <2>4
<1>6. child.seq = reserve_number /\ DOMAIN child = {"state", "seq", "open", "audio"}
  <2>1. PICK tracks \in {1, 2} :
           child = [state |-> "running", seq |-> origin \div SEG, open |-> FALSE, audio |-> tracks]
    BY DEF FilesInit
  <2>2. origin = reserve_number * SEG
    BY DEF FilesInit, start_ms
  <2>3. origin \div SEG = reserve_number
    BY <1>5, <2>2, WholeSegments
  <2> QED
    BY <1>5, <2>1, <2>3
<1>7. \A s \in DOMAIN disk : s \in Int
  BY <1>2, <1>3, Zenon
<1> QED
  BY <1>3, <1>4, <1>5, <1>6, <1>7 DEF FilesInv, FilesTyped, WritesPastTheRest, LedgerIsOnDisk

(* Everything but the encoder and the disk's removal leaves the files be.   *)
LEMMA FilesStay ==
    ASSUME FilesInv, disk' = disk, ledger' = ledger,
           child' = child \/ \E state : state # "running" /\ child' = [child EXCEPT !.state = state],
           session' \notin {"running", "stopping"} =>
               session \notin {"running", "stopping"} \/ child'.state # "running",
           session = "finished" => session' = "finished"
    PROVE  FilesInv' /\ NoOldIsTouched
<1>1. child'.seq \in Int /\ DOMAIN child' = DOMAIN child
      /\ (child' = child \/ child'.state # "running")
  BY DEF FilesInv, FilesTyped
<1> QED
  BY <1>1 DEF FilesInv, FilesTyped, WritesPastTheRest, LedgerIsOnDisk, NoOldIsTouched

\* Every step keeps the ledger on the disk and the earlier run's files alone.
LEMMA FilesStep ==
    ASSUME FilesInv, FilesNext
    PROVE  FilesInv' /\ NoOldIsTouched
<1>1. CASE OpenSegment
  <2> DEFINE new == [Whole(0, FALSE, child.audio) EXCEPT !.whole = FALSE]
  <2>1. child.state = "running" /\ ledger' = ledger /\ session' = session
        /\ child' = [child EXCEPT !.open = TRUE] /\ disk' = [s \in DOMAIN disk \cup {child.seq} |-> IF s = child.seq THEN new ELSE disk[s]]
    BY <1>1 DEF OpenSegment
  <2>2. child'.seq \in Int /\ DOMAIN child' = DOMAIN child
        /\ child'.seq = child.seq /\ child'.state = "running"
    BY <2>1 DEF FilesInv, FilesTyped
  <2>3. DOMAIN new = {"bytes", "whole", "audio", "old"} /\ new.old = FALSE
    BY DEF Whole
  <2>4. /\ DOMAIN disk' = DOMAIN disk \cup {child.seq}
        /\ \A s \in DOMAIN disk' : disk'[s] = IF s = child.seq THEN new ELSE disk[s]
    BY <2>1
  <2> HIDE DEF new
  <2> QED
    BY <2>1, <2>2, <2>3, <2>4 DEF FilesInv, FilesTyped, WritesPastTheRest, LedgerIsOnDisk, NoOldIsTouched
<1>2. CASE WriteMedia
  <2> DEFINE bytes == disk[child.seq].bytes + 1
             full == bytes = SEG
             new == [disk[child.seq] EXCEPT !.bytes = bytes, !.whole = full]
  <2>1. /\ child.state = "running" /\ ledger' = ledger /\ session' = session
        /\ disk' = [disk EXCEPT ![child.seq].bytes = bytes, ![child.seq].whole = full]
        /\ child' = IF full THEN [child EXCEPT !.seq = @ + 1, !.open = FALSE] ELSE child
    BY <1>2 DEF WriteMedia
  <2>2. /\ child'.seq \in Int /\ DOMAIN child' = DOMAIN child
        /\ child'.seq = (IF full THEN child.seq + 1 ELSE child.seq) /\ child'.state = "running"
    BY <2>1 DEF FilesInv, FilesTyped
  <2>3. child.seq \in DOMAIN disk =>
          /\ DOMAIN new = DOMAIN disk[child.seq] /\ new.old = disk[child.seq].old
          /\ full => new.whole
    BY DEF FilesInv, FilesTyped
  <2>4. /\ DOMAIN disk' = DOMAIN disk
        /\ \A s \in DOMAIN disk : disk'[s] = IF s = child.seq THEN new ELSE disk[s]
    BY <2>1 DEF FilesInv, FilesTyped
  <2> HIDE DEF new, full
  <2> QED
    BY <2>1, <2>2, <2>3, <2>4 DEF FilesInv, FilesTyped, WritesPastTheRest, LedgerIsOnDisk, NoOldIsTouched
<1>3. CASE Scan
  <2>1. /\ disk' = disk /\ child' = child /\ session' = session /\ session = "running"
        /\ ledger' = push(ledger, newly_complete(observed_seqs, highest))
    BY <1>3 DEF Scan, scan
  <2>2. \A s \in newly_complete(observed_seqs, highest) :
           s \in DOMAIN disk /\ \E later \in DOMAIN disk : s < later
    BY DEF newly_complete, observed_seqs
  <2>3. \A s \in DOMAIN ledger' :
           \/ s \in DOMAIN ledger /\ ledger'[s] = ledger[s]
           \/ s \in DOMAIN disk /\ ledger'[s] = disk[s].bytes /\ \E later \in DOMAIN disk : s < later
    BY <2>1, <2>2 DEF push
  <2> QED
    BY <2>1, <2>3 DEF FilesInv, FilesTyped, WritesPastTheRest, LedgerIsOnDisk, NoOldIsTouched
<1>4. CASE TakeClip \/ WaitInVain \/ PostRollArrives \/ PostRollExpires
  <2>1. disk' = disk /\ ledger' = ledger /\ child' = child /\ session' = session
    BY <1>4 DEF TakeClip, WaitInVain, PostRollArrives, PostRollExpires
  <2> QED
    BY <2>1, FilesStay
<1>5. CASE SpliceEnds
  <2>1. disk' = disk /\ ledger' = ledger /\ child' = child /\ session' = session
    BY <1>5 DEF SpliceEnds
  <2> QED
    BY <2>1, FilesStay
<1>6. CASE EncoderHangs \/ StopRecording
  <2>1. /\ disk' = disk /\ ledger' = ledger
        /\ session = "running" /\ session' \in {"running", "stopping"}
        /\ \/ child' = child
           \/ child' = [child EXCEPT !.state = "hung"] \/ child' = [child EXCEPT !.state = "dead"]
    BY <1>6 DEF EncoderHangs, StopRecording
  <2> QED
    BY <2>1, FilesStay
<1>7. CASE FlushEncoder
  <2>1. /\ ledger' = ledger /\ session' = "flushed" /\ session = "stopping"
        /\ child' = [child EXCEPT !.state = "gone"]
        /\ \/ disk' = disk
           \/ child.state = "running" /\ disk' = [disk EXCEPT ![child.seq].whole = TRUE]
    BY <1>7 DEF FlushEncoder
  <2>2. CASE disk' = disk
    BY <2>1, <2>2, FilesStay
  <2>3. CASE child.state = "running" /\ disk' = [disk EXCEPT ![child.seq].whole = TRUE]
    <3>1. child'.seq \in Int /\ DOMAIN child' = DOMAIN child /\ child'.state # "running"
      BY <2>1 DEF FilesInv, FilesTyped
    <3>2. /\ DOMAIN disk' = DOMAIN disk
          /\ \A s \in DOMAIN disk : /\ DOMAIN disk'[s] = DOMAIN disk[s] /\ disk'[s].bytes = disk[s].bytes
                                    /\ s # child.seq => disk'[s] = disk[s]
      BY <2>3 DEF FilesInv, FilesTyped
    <3> QED
      BY <2>1, <2>3, <3>1, <3>2 DEF FilesInv, FilesTyped, WritesPastTheRest, LedgerIsOnDisk, NoOldIsTouched
  <2> QED
    BY <2>1, <2>2, <2>3
<1>8. CASE IndexAll
  <2>1. /\ disk' = disk /\ child' = child /\ session = "flushed" /\ session' = "indexed"
        /\ ledger' = push(ledger, segments_on_disk)
    BY <1>8 DEF IndexAll, scan_all
  <2>2. \A s \in DOMAIN ledger' :
           \/ s \in DOMAIN ledger /\ ledger'[s] = ledger[s]
           \/ s \in DOMAIN disk /\ ledger'[s] = disk[s].bytes
    BY <2>1 DEF push, segments_on_disk, observed_seqs
  <2> QED
    BY <2>1, <2>2 DEF FilesInv, FilesTyped, WritesPastTheRest, LedgerIsOnDisk, NoOldIsTouched
<1>9. CASE Finalise
  <2>1. disk' = disk /\ ledger' = ledger /\ child' = child
        /\ session = "indexed" /\ session' \in {"empty", "copied", "kept"}
    BY <1>9 DEF Finalise
  <2> QED
    BY <2>1, FilesStay
<1>10. CASE RemoveSegments
  <2>1. ledger' = ledger /\ child' = child /\ session \in {"copied", "empty"}
        /\ ((disk' = disk /\ session' = "kept") \/ (disk' = <<>> /\ session' = "finished"))
    BY <1>10 DEF RemoveSegments
  <2> QED
    BY <2>1 DEF FilesInv, FilesTyped, WritesPastTheRest, LedgerIsOnDisk, NoOldIsTouched
<1> QED
  BY <1>1, <1>2, <1>3, <1>4, <1>5, <1>6, <1>7, <1>8, <1>9, <1>10 DEF FilesNext

-----------------------------------------------------------------------------
(* Numbers in order: what a window, a list for a concatenation and the      *)
(* chapters of a clip are made of.                                          *)

\* Induction over the numbers for a set, from the least counterexample.
LEMMA NumbersByInduction ==
    ASSUME NEW T, 0 \in T, \A n \in Nat : n \in T => n + 1 \in T
    PROVE  Nat \subseteq T
<1> DEFINE Rest == {n \in Nat : n \notin T}
<1> DEFINE Less == {pair \in Nat \X Nat : pair[1] < pair[2]}
<1>1. SUFFICES ASSUME Rest # {} PROVE FALSE
  OBVIOUS
<1>2. PICK x \in Rest : \A y \in Rest : <<y, x>> \notin Less
  <2>1. IsWellFoundedOn(Less, Nat) /\ Rest \subseteq Nat
    BY NatLessThanWellFounded DEF OpToRel
  <2> HIDE DEF Rest, Less
  <2> QED
    BY <1>1, <2>1, WFMin
<1>3. x \in Nat /\ x # 0 /\ x - 1 \in Nat /\ (x - 1) + 1 = x
  OBVIOUS
<1>4. x - 1 \notin Rest
  <2>1. <<x - 1, x>> \in Less
    BY <1>3
  <2> QED
    BY <1>2, <2>1
<1> QED
  BY <1>3, <1>4

-----------------------------------------------------------------------------
(* Segments on the timeline, and numbers in order.                          *)
LEMMA ProductsGrow ==
    ASSUME NEW a \in Int, NEW b \in Int, NEW k \in Nat, a < b
    PROVE  a * k + k <= b * k
<1>1. PICK d \in Nat : b = a + 1 + d
  <2>1. b - a - 1 \in Nat /\ b = a + 1 + (b - a - 1)
    OBVIOUS
  <2> QED
    BY <2>1
<1>2. b * k = a * k + k + d * k
  BY <1>1
<1>3. d * k \in Nat /\ a * k \in Int /\ b * k \in Int
  OBVIOUS
<1> QED
  BY <1>2, <1>3

\* Segments lie one after the other on the timeline.
LEMMA SegmentsFollow ==
    ASSUME NEW a \in Int, NEW b \in Int
    PROVE  /\ start_ms(a) \in Int /\ end_ms(a) = start_ms(a) + SEG /\ end_ms(a) = start_ms(a + 1)
           /\ a \in Nat => start_ms(a) \in Nat
           /\ a < b => end_ms(a) <= start_ms(b)
           /\ start_ms(a) < start_ms(b) => a < b
           /\ start_ms(a) = start_ms(b) => a = b
<1>1. SEG \in Nat /\ SEG > 0
  BY SessionFilesAssumption
<1>2. start_ms(a) \in Int /\ end_ms(a) = start_ms(a) + SEG /\ (a \in Nat => start_ms(a) \in Nat)
  BY <1>1 DEF start_ms, end_ms
<1>3. end_ms(a) = start_ms(a + 1)
  BY <1>1 DEF start_ms, end_ms
<1>4. \A x, y \in Int : x < y => start_ms(x) \in Int /\ start_ms(y) \in Int /\ start_ms(x) + SEG <= start_ms(y)
  BY <1>1, ProductsGrow DEF start_ms
<1>5. a < b \/ b < a \/ a = b
  OBVIOUS
<1> QED
  BY <1>1, <1>2, <1>3, <1>4, <1>5

\* InOrder lists every number of a finite set once, the smaller one first.
LEMMA NumbersInOrder ==
    ASSUME NEW S \in SUBSET Nat, IsFiniteSet(S)
    PROVE  /\ InOrder(S) \in Seq(Nat) /\ Len(InOrder(S)) = Cardinality(S) /\ Cardinality(S) \in Nat
           /\ DOMAIN InOrder(S) = 1..Cardinality(S)
           /\ \A i \in DOMAIN InOrder(S) : InOrder(S)[i] \in S
           /\ \A s \in S : \E i \in DOMAIN InOrder(S) : InOrder(S)[i] = s
           /\ \A i, j \in DOMAIN InOrder(S) : i < j => InOrder(S)[i] < InOrder(S)[j]
<1> DEFINE n == Cardinality(S)
           q == InOrder(S)
<1>1. n \in Nat
  BY FS_CardinalityType
<1>2. q = [i \in 1..n |-> CHOOSE x \in S : Cardinality(UpTo(S, x)) = i]
  BY DEF InOrder, UpTo
<1>3. \A i \in 1..n : q[i] \in S /\ Cardinality(UpTo(S, q[i])) = i
  BY <1>2, RanksAreTaken
<1>4. DOMAIN q = 1..n /\ q = [i \in 1..n |-> q[i]]
  BY <1>2
<1> HIDE DEF q
<1>5. q \in Seq(Nat) /\ Len(q) = n
  <2>1. \A i \in 1..n : q[i] \in Nat
    BY <1>3
  <2>2. q \in [1..n -> Nat]
    BY <1>4, <2>1
  <2> QED
    BY <1>1, <2>2
<1> DEFINE rank == [x \in S |-> Cardinality(UpTo(S, x))]
<1>0. /\ \A x \in S : x \in Int /\ rank[x] \in 1..n
      /\ \A x, y \in S : x < y => rank[x] < rank[y]
      /\ \A i \in 1..n : rank[q[i]] = i
  BY <1>3, RanksAreTaken
<1> HIDE DEF rank, n
<1>6. ASSUME NEW s \in S PROVE \E i \in 1..n : q[i] = s
  <2>1. PICK i \in 1..n : rank[s] = i
    BY <1>0
  <2>2. q[i] \in S /\ rank[q[i]] = i
    BY <1>0, <1>3
  <2>4. q[i] \in Int /\ s \in Int
    <3>1. \A x \in S : x \in Int
      OBVIOUS
    <3> QED
      BY <2>2, <3>1
  <2>3. ~ (q[i] < s) /\ ~ (s < q[i])
    BY <1>0, <2>1, <2>2, <2>4
  <2> QED
    BY <2>3, <2>4
<1>7. ASSUME NEW i \in 1..n, NEW j \in 1..n, i < j PROVE q[i] < q[j]
  <2>1. q[i] \in S /\ q[j] \in S /\ q[i] \in Int /\ q[j] \in Int /\ rank[q[i]] = i /\ rank[q[j]] = j
    BY <1>0, <1>3
  <2>2. ~ (q[j] < q[i]) /\ q[i] # q[j]
    BY <1>0, <1>7, <2>1
  <2> QED
    BY <2>1, <2>2
<1> QED
  BY <1>1, <1>3, <1>4, <1>5, <1>6, <1>7 DEF q, n

(* The first is the least and the last the greatest, and numbers without a  *)
(* gap are counted from the one to the other.                               *)
LEMMA FirstAndLast ==
    ASSUME NEW S \in SUBSET Nat, IsFiniteSet(S), S # {}
    PROVE  LET q == InOrder(S)
           IN  /\ q \in Seq(Nat) /\ q # <<>> /\ Len(q) \in Nat \ {0}
               /\ q[1] \in S /\ Last(q) = q[Len(q)] /\ Last(q) \in S
               /\ \A s \in S : q[1] <= s /\ s <= Last(q)
               /\ Min(S) = q[1] /\ Max(S) = Last(q)
<1> DEFINE q == InOrder(S)
           n == Cardinality(S)
<1>1. n \in Nat /\ n # 0
  BY FS_CardinalityType, FS_EmptySet
<1>2. /\ q \in Seq(Nat) /\ Len(q) = n /\ DOMAIN q = 1..n
      /\ \A i \in 1..n : q[i] \in S
      /\ \A s \in S : \E i \in 1..n : q[i] = s
      /\ \A i, j \in 1..n : i < j => q[i] < q[j]
  BY NumbersInOrder
<1> HIDE DEF q, n
<1>3. 1 \in 1..n /\ n \in 1..n /\ \A i \in 1..n : (i = 1 \/ 1 < i) /\ (i = n \/ i < n)
  BY <1>1
<1>4. Last(q) = q[n]
  BY <1>1, <1>2 DEF Last
<1>5. \A i \in 1..n : q[1] <= q[i] /\ q[i] <= q[n] /\ q[i] \in Nat
  BY <1>2, <1>3
<1>6. \A s \in S : q[1] <= s /\ s <= q[n] /\ s \in Nat
  BY <1>2, <1>5
<1>7. q[1] \in S /\ q[n] \in S
  BY <1>2, <1>3
<1>8. ASSUME NEW x \in S PROVE (\A y \in S : x <= y) <=> x = q[1]
  <2>1. q[1] <= x /\ x \in Nat /\ q[1] \in Nat
    BY <1>6, <1>7
  <2>2. (\A y \in S : x <= y) => x <= q[1]
    BY <1>7
  <2> QED
    BY <1>6, <2>1, <2>2
<1>9. ASSUME NEW x \in S PROVE (\A y \in S : x >= y) <=> x = q[n]
  <2>1. x <= q[n] /\ x \in Nat /\ q[n] \in Nat
    BY <1>6, <1>7
  <2>2. (\A y \in S : x >= y) => x >= q[n]
    BY <1>7
  <2> QED
    BY <1>6, <2>1, <2>2
<1>10. Min(S) = q[1] /\ Max(S) = q[n]
  BY <1>7, <1>8, <1>9 DEF Min, Max
<1>11. q # <<>>
  BY <1>1, <1>2
<1> QED
  BY <1>1, <1>2, <1>4, <1>6, <1>7, <1>10, <1>11 DEF q

\* The members of a set without a gap, in order, go up by one.
LEMMA WithoutAGap ==
    ASSUME NEW S \in SUBSET Nat, IsFiniteSet(S), S # {}, \A i, j \in S : i..j \subseteq S
    PROVE  LET q == InOrder(S)
           IN  /\ \A i \in 1..(Len(q) - 1) : q[i + 1] = q[i] + 1
               /\ Len(q) = Last(q) - q[1] + 1
<1> DEFINE q == InOrder(S)
           n == Len(q)
<1>1. /\ n \in Nat /\ n # 0 /\ DOMAIN q = 1..n /\ Cardinality(S) = n
      /\ \A i \in 1..n : q[i] \in S /\ q[i] \in Nat
      /\ \A s \in S : \E i \in 1..n : q[i] = s
      /\ \A i, j \in 1..n : i < j => q[i] < q[j]
  BY NumbersInOrder, FirstAndLast
<1>2. q[1] \in S /\ Last(q) \in S /\ \A s \in S : q[1] <= s /\ s <= Last(q) /\ s \in Nat
  BY FirstAndLast
<1> HIDE DEF q, n
<1>3. ASSUME NEW i \in 1..(n - 1) PROVE q[i + 1] = q[i] + 1
  <2>1. i \in 1..n /\ i + 1 \in 1..n /\ i < i + 1 /\ n \in Nat /\ i \in Nat
    BY <1>1
  <2>2. q[i] < q[i + 1] /\ q[i] \in S /\ q[i + 1] \in S /\ q[i] \in Nat /\ q[i + 1] \in Nat
    BY <1>1, <2>1
  <2>3. q[i] + 1 \in q[i]..q[i + 1]
    BY <2>2
  <2>4. q[i] + 1 \in S
    BY <2>2, <2>3
  <2>5. PICK k \in 1..n : q[k] = q[i] + 1
    BY <1>1, <2>4
  <2>6. k \in Nat /\ q[k] \in Nat /\ q[i] < q[k] /\ q[k] <= q[i + 1]
    BY <1>1, <2>2, <2>5
  <2>7. ~ (k < i) /\ k # i
    BY <1>1, <2>1, <2>2, <2>6
  <2>8. ~ (i + 1 < k)
    BY <1>1, <2>1, <2>2, <2>6
  <2>9. k = i + 1
    BY <2>1, <2>6, <2>7, <2>8
  <2> QED
    BY <2>5, <2>9
<1>5. Cardinality(S) = Last(q) - q[1] + 1
  <2> DEFINE a == q[1]
             b == Last(q)
  <2>1. a \in Nat /\ b \in Nat /\ a <= b /\ a \in S /\ b \in S /\ \A s \in S : s \in a..b
    <3>1. a \in S /\ b \in S /\ \A s \in S : a <= s /\ s <= b /\ s \in Nat
      BY <1>2
    <3> HIDE DEF a, b
    <3> QED
      BY <3>1
  <2> HIDE DEF a, b
  <2>2. S = a..b
    <3>1. a..b \subseteq S
      BY <2>1
    <3> QED
      BY <2>1, <3>1
  <2>3. Cardinality(a..b) = b - a + 1
    BY <2>1, FS_Interval
  <2> QED
    BY <2>2, <2>3 DEF a, b
<1> QED
  BY <1>1, <1>3, <1>5 DEF q, n

-----------------------------------------------------------------------------
(* The segments and the ledger of them.                                     *)

\* The number of the run's first segment.
FirstSeq == origin \div SEG
\* What the segment being written holds so far.
Held == IF child.open THEN disk[child.seq].bytes ELSE 0
Endings == {"running", "stopping", "flushed", "indexed", "copied", "empty", "kept", "finished"}

NumbersTyped ==
    /\ FirstSeq \in Nat /\ origin = start_ms(FirstSeq)
    /\ media \in Nat /\ looked \in BOOLEAN /\ highest \in Int /\ session \in Endings
    /\ child.seq \in Nat /\ FirstSeq <= child.seq
    /\ child.open \in BOOLEAN /\ child.audio \in {1, 2}
    /\ IsFiniteSet(DOMAIN disk) /\ DOMAIN disk \in SUBSET Nat
    /\ IsFiniteSet(DOMAIN ledger) /\ DOMAIN ledger \in SUBSET Nat

\* From the oldest segment to the one being written there is no gap, and what
\* was recorded reaches to the end of what that one holds.
SegmentsLie == session # "finished" =>
    /\ child.open <=> child.seq \in DOMAIN disk
    /\ \A s \in DOMAIN disk : s <= child.seq /\ s..(child.seq - 1) \subseteq DOMAIN disk
    /\ FirstSeq..(child.seq - 1) \subseteq DOMAIN disk
    /\ origin + media = start_ms(child.seq) + Held

\* An earlier run's segments are those before the run's first; all are full but
\* the newest, and carry the encoder's audio tracks.
SegmentsHold == session # "finished" => \A s \in DOMAIN disk :
    /\ disk[s].bytes \in Nat
    /\ disk[s].old <=> s < FirstSeq
    /\ s < child.seq => disk[s].bytes = SEG
    /\ FirstSeq <= s => disk[s].audio = child.audio /\ (s < child.seq => disk[s].whole)
    /\ s = child.seq => disk[s].bytes < SEG

\* The ledger lists what is on the disk up to the newest segment it knows.
LedgerFollows == session \in {"running", "stopping", "flushed"} =>
    /\ highest < child.seq /\ highest \in {NoSegment} \cup DOMAIN ledger
    /\ DOMAIN ledger = {s \in DOMAIN disk : s <= highest}
\* The span the ledger tells lags the recording by a segment, and by one write
\* more until the scanner has looked.
LagIsShort == session = "running" => span_ms <= media /\ media <= span_ms + SEG + (IF looked THEN 0 ELSE 1)

SegmentsInv == NumbersTyped /\ SegmentsLie /\ SegmentsHold /\ LedgerFollows /\ LagIsShort

\* An earlier run's segments are numbered one after the other, as ffmpeg does.
EarlierFollows == \A e \in Earlier : \A i, j \in e : i..j \subseteq e

-----------------------------------------------------------------------------
\* A member that no other exceeds is the maximum.
LEMMA LargestIsMax ==
    ASSUME NEW S \in SUBSET Int, NEW m \in S, \A s \in S : s <= m
    PROVE  Max(S) = m
<1>1. \A x \in S : x \in Int
  OBVIOUS
<1>2. \A x \in S : (\A y \in S : x >= y) <=> x = m
  BY <1>1
<1> QED
  BY <1>2 DEF Max

\* The span, by the newest segment known.
SpanOf(l, o) == Max({0, LedgerSpan(l) - o})
\* The span is told by the end of the newest segment known.
LEMMA SpanIsKnown ==
    ASSUME NEW l, DOMAIN l \in SUBSET Nat, NEW h \in {NoSegment} \cup DOMAIN l, NEW o \in Nat,
           \A s \in DOMAIN l : s <= h
    PROVE  /\ LedgerSpan(l) = end_ms(h) /\ end_ms(h) \in Int
           /\ SpanOf(l, o) = IF end_ms(h) >= o THEN end_ms(h) - o ELSE 0
<1>1. h \in Int /\ end_ms(h) = start_ms(h) + SEG /\ start_ms(h) \in Int /\ SEG \in Nat
  <2>1. h \in Int
    BY DEF NoSegment
  <2> QED
    BY <2>1, SegmentsFollow, SessionFilesAssumption
<1>2. LedgerSpan(l) = end_ms(h)
  <2>1. CASE DOMAIN l = {}
    <3>1. h = -1
      BY <2>1 DEF NoSegment
    <3>2. end_ms(h) = 0
      BY <3>1, <1>1 DEF end_ms, start_ms
    <3> QED
      BY <2>1, <3>2 DEF LedgerSpan
  <2>2. CASE DOMAIN l # {}
    <3>1. h \in DOMAIN l
      <4>1. PICK s \in DOMAIN l : s <= h
        BY <2>2
      <4>2. s \in Nat
        BY <4>1
      <4> QED
        BY <4>1, <4>2 DEF NoSegment
    <3>2. Max(DOMAIN l) = h
      <4>1. DOMAIN l \in SUBSET Int
        OBVIOUS
      <4> QED
        BY <3>1, <4>1, LargestIsMax
    <3> QED
      BY <2>2, <3>2 DEF LedgerSpan
  <2> QED
    BY <2>1, <2>2
<1>3. SpanOf(l, o) = IF 0 >= end_ms(h) - o THEN 0 ELSE end_ms(h) - o
  BY <1>1, <1>2, LargerOfTwo DEF SpanOf
<1> QED
  BY <1>1, <1>2, <1>3

-----------------------------------------------------------------------------
\* The directory as it is found.
LEMMA SegmentsStart == EarlierFollows /\ FilesInit => SegmentsInv
<1> SUFFICES ASSUME EarlierFollows, FilesInit PROVE SegmentsInv
  OBVIOUS
<1>1. PICK e \in Earlier, torn \in BOOLEAN : disk = EarlierFiles(e, torn /\ e # {})
  BY DEF FilesInit
<1>2. IsFiniteSet(e) /\ e \in SUBSET Nat /\ (\A s \in e : s \in Nat) /\ SEG \in Nat /\ SEG > 0
  <2>1. e \subseteq Nat /\ IsFiniteSet(e) /\ SEG \in Nat /\ SEG > 0
    BY SessionFilesAssumption
  <2> QED
    BY <2>1
<1>3. DOMAIN disk = e /\ \A s \in e : disk[s].old = TRUE /\ disk[s].bytes = SEG
  BY <1>1, SessionFilesAssumption DEF EarlierFiles, Whole
<1>4. /\ DOMAIN ledger = {s \in e : s > -1 /\ \E later \in e : s < later}
      /\ highest = MaxOr(DOMAIN ledger, NoSegment)
  BY <1>3 DEF FilesInit, adopt_existing, newly_complete, observed_seqs, NoSegment
<1>5. \A i, j \in e : i..j \subseteq e
  BY DEF EarlierFollows
<1> DEFINE n == MaxOr(e, -1) + 1
<1>6. /\ n \in Nat /\ \A s \in e : s < n /\ s..(n - 1) \subseteq e
      /\ e # {} => n - 1 \in e
  <2>1. CASE e = {}
    BY <2>1 DEF MaxOr
  <2>2. CASE e # {}
    <3>1. e \in SUBSET Int
      BY <1>2
    <3>2. Max(e) \in e /\ \A s \in e : s <= Max(e)
      BY <1>2, <2>2, <3>1, LargestIsThere
    <3>3. n = Max(e) + 1
      BY <2>2 DEF MaxOr
    <3> DEFINE m == Max(e)
    <3>4. m \in e /\ m \in Nat /\ n = m + 1 /\ \A s \in e : s <= m /\ s \in Nat
      BY <1>2, <3>2, <3>3
    <3> HIDE DEF n, m
    <3>5. \A s \in e : s..(n - 1) \subseteq e
      <4>1. n - 1 = m
        BY <3>4
      <4> QED
        BY <1>5, <3>4, <4>1
    <3> QED
      BY <3>4, <3>5
  <2> QED
    BY <2>1, <2>2
<1>7. reserve_number = n
  <2>1. DOMAIN ledger \cup DOMAIN disk = e
    BY <1>3, <1>4
  <2> QED
    BY <2>1 DEF reserve_number, next_segment_number, observed_seqs
<1> HIDE DEF n
<1>8. /\ origin = n * SEG /\ origin = start_ms(n) /\ origin \div SEG = n
      /\ child.seq = n /\ child.open = FALSE /\ child.audio \in {1, 2} /\ child.state = "running"
      /\ session = "running" /\ media = 0 /\ looked = TRUE
  <2>1. PICK tracks \in {1, 2} :
           child = [state |-> "running", seq |-> origin \div SEG, open |-> FALSE, audio |-> tracks]
    BY DEF FilesInit
  <2>2. origin = n * SEG /\ origin = start_ms(n)
    BY <1>7 DEF FilesInit, start_ms
  <2>3. origin \div SEG = n
    BY <1>6, <2>2, WholeSegments
  <2> QED
    BY <2>1, <2>2, <2>3 DEF FilesInit
<1>9. IsFiniteSet(DOMAIN ledger) /\ DOMAIN ledger \in SUBSET Nat
  <2>1. DOMAIN ledger \in SUBSET e
    BY <1>4
  <2> QED
    BY <1>2, <2>1, FS_Subset
<1>10. highest \in {NoSegment} \cup DOMAIN ledger /\ \A s \in DOMAIN ledger : s <= highest
  <2>1. CASE DOMAIN ledger = {}
    BY <1>4, <2>1 DEF MaxOr
  <2>2. CASE DOMAIN ledger # {}
    <3>1. DOMAIN ledger \in SUBSET Int
      BY <1>9
    <3>2. highest = Max(DOMAIN ledger)
      BY <1>4, <2>2 DEF MaxOr
    <3> QED
      BY <1>9, <2>2, <3>1, <3>2, LargestIsThere
  <2> QED
    BY <2>1, <2>2
<1>11. highest \in Int /\ highest < n
  <2>1. CASE highest = NoSegment
    BY <1>6, <2>1 DEF NoSegment
  <2>2. CASE highest \in DOMAIN ledger
    <3>1. highest \in e /\ highest \in Nat
      BY <1>2, <1>4, <2>2
    <3> QED
      BY <1>6, <3>1
  <2> QED
    BY <1>10, <2>1, <2>2
<1>12. DOMAIN ledger = {s \in e : s <= highest}
  <2>1. ASSUME NEW s \in e, s <= highest PROVE s \in DOMAIN ledger
    <3>1. highest # NoSegment /\ s \in Nat
      BY <1>2, <2>1 DEF NoSegment
    <3>2. highest \in DOMAIN ledger
      BY <1>10, <3>1
    <3>3. PICK later \in e : highest < later
      BY <1>4, <3>2
    <3>4. later \in Nat /\ s < later /\ s > -1
      BY <1>2, <1>11, <2>1, <3>1, <3>3
    <3> QED
      BY <1>4, <3>4
  <2>2. \A s \in DOMAIN ledger : s \in e /\ s <= highest
    BY <1>4, <1>10
  <2> QED
    BY <2>1, <2>2
<1>13. NumbersTyped
  <2>1. FirstSeq = n /\ FirstSeq \in Nat /\ FirstSeq <= child.seq /\ child.seq \in Nat
    BY <1>6, <1>8 DEF FirstSeq
  <2> QED
    BY <1>2, <1>3, <1>8, <1>9, <1>11, <2>1 DEF NumbersTyped, Endings
<1>14. SegmentsLie
  <2>1. n \notin e /\ n..(n - 1) = {} /\ origin \in Int
    BY <1>2, <1>6, <1>8, SegmentsFollow
  <2>2. \A s \in e : s <= n
    BY <1>2, <1>6
  <2> QED
    BY <1>3, <1>6, <1>8, <2>1, <2>2 DEF SegmentsLie, FirstSeq, Held
<1>15. SegmentsHold
  <2>1. FirstSeq = n /\ \A s \in DOMAIN disk : s \in Nat /\ s < n /\ disk[s].old = TRUE /\ disk[s].bytes = SEG
    BY <1>2, <1>3, <1>6, <1>8 DEF FirstSeq
  <2> QED
    BY <1>2, <1>6, <1>8, <2>1 DEF SegmentsHold
<1>16. LedgerFollows
  BY <1>3, <1>8, <1>10, <1>11, <1>12 DEF LedgerFollows
<1>17. LagIsShort
  <2>1. origin \in Nat
    BY <1>6, <1>8, SegmentsFollow
  <2>2. SpanOf(ledger, origin) = IF end_ms(highest) >= origin THEN end_ms(highest) - origin ELSE 0
    BY <1>9, <1>10, <2>1, SpanIsKnown
  <2>3. end_ms(highest) <= origin /\ end_ms(highest) \in Int
    <3>1. n \in Int /\ highest \in Int /\ highest < n /\ origin = start_ms(n)
      BY <1>6, <1>8, <1>11
    <3>2. end_ms(highest) = start_ms(highest) + SEG /\ start_ms(highest) \in Int
          /\ end_ms(highest) <= start_ms(n) /\ SEG \in Nat
      BY ONLY <3>1, SegmentsFollow, SessionFilesAssumption
    <3> QED
      BY <3>1, <3>2
  <2>4. span_ms = 0
    BY <2>1, <2>2, <2>3 DEF span_ms, SpanOf
  <2> QED
    BY <1>2, <1>8, <2>4 DEF LagIsShort
<1> QED
  BY <1>13, <1>14, <1>15, <1>16, <1>17 DEF SegmentsInv

\* While the encoder lives its session has not been finished.
LEMMA ALiveEncoderRuns == ASSUME FilesInv, child.state = "running" PROVE session \in {"running", "stopping"}
  BY DEF FilesInv, FilesTyped

\* A new segment is past all the others.
LEMMA OpeningKeepsSegments ==
    ASSUME FilesInv, SegmentsInv, OpenSegment
    PROVE  SegmentsInv'
<1> DEFINE new == [Whole(0, FALSE, child.audio) EXCEPT !.whole = FALSE]
           q == child.seq
<1>1. /\ ~ child.open /\ ledger' = ledger /\ session' = session /\ highest' = highest
      /\ origin' = origin /\ media' = media /\ looked' = looked
      /\ session \in {"running", "stopping"}
  BY ALiveEncoderRuns DEF OpenSegment
<1>2. /\ child'.seq = q /\ child'.open = TRUE /\ child'.audio = child.audio
      /\ DOMAIN disk' = DOMAIN disk \cup {q}
      /\ \A s \in DOMAIN disk' : disk'[s] = IF s = q THEN new ELSE disk[s]
  BY DEF OpenSegment, FilesInv, FilesTyped
<1>3. new.bytes = 0 /\ new.old = FALSE /\ new.audio = child.audio
  BY DEF Whole
<1>4. FirstSeq' = FirstSeq /\ span_ms' = span_ms /\ start_ms(FirstSeq)' = start_ms(FirstSeq)
  BY <1>1 DEF FirstSeq, span_ms, start_ms, LedgerSpan, end_ms
<1>5. /\ q \in Nat /\ FirstSeq \in Nat /\ FirstSeq <= q /\ q \notin DOMAIN disk /\ highest \in Int /\ highest < q
      /\ \A s \in DOMAIN disk : s \in Nat /\ s <= q /\ s < q
      /\ SEG \in Nat /\ SEG > 0
  <2>1. SEG \in Nat /\ SEG > 0
    BY SessionFilesAssumption
  <2>2. /\ q \in Nat /\ FirstSeq \in Nat /\ FirstSeq <= q /\ q \notin DOMAIN disk /\ highest \in Int /\ highest < q
        /\ \A s \in DOMAIN disk : s \in Nat /\ s <= q
    BY <1>1 DEF SegmentsInv, NumbersTyped, SegmentsLie, LedgerFollows
  <2> QED
    BY <2>1, <2>2
<1> HIDE DEF new, q
<1>6. NumbersTyped'
  <2>1. IsFiniteSet(DOMAIN disk') /\ DOMAIN disk' \in SUBSET Nat
    BY <1>2, <1>5, FS_AddElement DEF SegmentsInv, NumbersTyped
  <2>2. (origin = start_ms(FirstSeq))'
    BY <1>1, <1>4 DEF SegmentsInv, NumbersTyped
  <2> QED
    BY <1>1, <1>2, <1>4, <1>5, <2>1, <2>2 DEF SegmentsInv, NumbersTyped
<1>7. SegmentsLie'
  <2>1. \A s \in DOMAIN disk' : s <= q /\ s..(q - 1) \subseteq DOMAIN disk'
    <3>1. q <= q /\ q..(q - 1) = {}
      BY <1>5
    <3>2. \A s \in DOMAIN disk : s..(q - 1) \subseteq DOMAIN disk
      BY <1>1 DEF SegmentsInv, SegmentsLie, q
    <3> QED
      BY <1>2, <1>5, <3>1, <3>2
  <2>2. FirstSeq..(q - 1) \subseteq DOMAIN disk'
    BY <1>1, <1>2 DEF SegmentsInv, SegmentsLie, q
  <2>3. Held = 0 /\ Held' = 0 /\ start_ms(q)' = start_ms(q)
    BY <1>1, <1>2, <1>3, <1>5 DEF Held, q, start_ms
  <2>4. origin + media = start_ms(q) + Held
    BY <1>1 DEF SegmentsInv, SegmentsLie, q
  <2>5. (origin + media = start_ms(child.seq) + Held)'
    BY <1>1, <1>2, <2>3, <2>4
  <2> QED
    BY <1>2, <1>4, <2>1, <2>2, <2>5 DEF SegmentsLie
<1>8. SegmentsHold'
  <2> SUFFICES ASSUME NEW s \in DOMAIN disk'
               PROVE  /\ disk'[s].bytes \in Nat
                      /\ disk'[s].old <=> s < FirstSeq
                      /\ s < q => disk'[s].bytes = SEG
                      /\ FirstSeq <= s => disk'[s].audio = child.audio /\ (s < q => disk'[s].whole)
                      /\ s = q => disk'[s].bytes < SEG
    BY <1>2, <1>4 DEF SegmentsHold
  <2>1. CASE s = q
    BY <1>2, <1>3, <1>5, <2>1
  <2>2. CASE s \in DOMAIN disk /\ s # q
    BY <1>1, <1>2, <2>2 DEF SegmentsInv, SegmentsHold, q
  <2> QED
    BY <1>2, <2>1, <2>2
<1>9. LedgerFollows'
  <2>1. {s \in DOMAIN disk' : s <= highest} = {s \in DOMAIN disk : s <= highest}
    BY <1>2, <1>5
  <2> QED
    BY <1>1, <1>2, <2>1 DEF SegmentsInv, LedgerFollows, q
<1>10. LagIsShort'
  BY <1>1, <1>4 DEF SegmentsInv, LagIsShort
<1> QED
  BY <1>6, <1>7, <1>8, <1>9, <1>10 DEF SegmentsInv

\* A segment that is full is closed, and the next number taken.
LEMMA WritingKeepsSegments ==
    ASSUME FilesInv, SegmentsInv, WriteMedia
    PROVE  SegmentsInv'
<1> DEFINE bytes == disk[child.seq].bytes + 1
           full == bytes = SEG
           new == [disk[child.seq] EXCEPT !.bytes = bytes, !.whole = full]
           q == child.seq
           r == IF full THEN q + 1 ELSE q
<1>1. /\ child.open /\ ledger' = ledger /\ session' = session /\ highest' = highest
      /\ origin' = origin /\ media' = media + 1 /\ looked /\ looked' = (session # "running")
      /\ session \in {"running", "stopping"}
  BY ALiveEncoderRuns DEF WriteMedia
<1>2. /\ q \in Nat /\ FirstSeq \in Nat /\ FirstSeq <= q /\ q \in DOMAIN disk /\ highest \in Int /\ highest < q
      /\ \A s \in DOMAIN disk : s \in Nat /\ s <= q
      /\ SEG \in Nat /\ SEG > 0 /\ media \in Nat
      /\ disk[q].bytes \in Nat /\ disk[q].bytes < SEG
  <2>1. SEG \in Nat /\ SEG > 0
    BY SessionFilesAssumption
  <2>2. /\ q \in Nat /\ FirstSeq \in Nat /\ FirstSeq <= q /\ q \in DOMAIN disk /\ highest \in Int /\ highest < q
        /\ \A s \in DOMAIN disk : s \in Nat /\ s <= q
        /\ media \in Nat
    BY <1>1 DEF SegmentsInv, NumbersTyped, SegmentsLie, LedgerFollows
  <2>3. disk[q].bytes \in Nat /\ disk[q].bytes < SEG
    BY <1>1, <2>2 DEF SegmentsInv, SegmentsHold
  <2> QED
    BY <2>1, <2>2, <2>3
<1>3. /\ child'.seq = r /\ child'.open = ~ full /\ child'.audio = child.audio
      /\ DOMAIN disk' = DOMAIN disk
      /\ \A s \in DOMAIN disk : disk'[s] = IF s = q THEN new ELSE disk[s]
  BY <1>1, <1>2 DEF WriteMedia, FilesInv, FilesTyped, SegmentsInv, NumbersTyped
<1>4. /\ new.bytes = bytes /\ new.old = disk[q].old /\ new.audio = disk[q].audio /\ (full => new.whole)
      /\ bytes \in Nat /\ (full => bytes = SEG) /\ bytes <= SEG /\ (~ full => bytes < SEG)
  <2>1. DOMAIN disk[q] = {"bytes", "whole", "audio", "old"}
    BY <1>2 DEF FilesInv, FilesTyped
  <2>2. new.bytes = bytes /\ new.old = disk[q].old /\ new.audio = disk[q].audio
    BY <2>1
  <2>3. full => new.whole
    BY <2>1
  <2>4. bytes \in Nat /\ (full => bytes = SEG) /\ bytes <= SEG /\ (~ full => bytes < SEG)
    BY <1>2
  <2> QED
    BY <2>2, <2>3, <2>4
<1>5. FirstSeq' = FirstSeq /\ span_ms' = span_ms /\ start_ms(FirstSeq)' = start_ms(FirstSeq)
  BY <1>1 DEF FirstSeq, span_ms, start_ms, LedgerSpan, end_ms
<1>6. r \in Nat /\ q <= r /\ (full => r = q + 1) /\ (~ full => r = q) /\ full \in BOOLEAN
  BY <1>2
<1>7. origin + media + 1 = start_ms(q) + bytes /\ start_ms(q) \in Int /\ start_ms(q + 1) = start_ms(q) + SEG
      /\ origin \in Int
  <2>1. origin + media = start_ms(q) + disk[q].bytes
    BY <1>1 DEF SegmentsInv, SegmentsLie, Held
  <2>2. start_ms(q) \in Int /\ start_ms(q + 1) = start_ms(q) + SEG /\ origin \in Int
    <3>1. q \in Int /\ FirstSeq \in Int /\ origin = start_ms(FirstSeq)
      BY <1>2 DEF SegmentsInv, NumbersTyped
    <3> QED
      BY <3>1, SegmentsFollow
  <2> QED
    BY <1>2, <2>1, <2>2
<1> HIDE DEF full, new, q, r, bytes
<1>8. NumbersTyped'
  <2>1. (origin = start_ms(FirstSeq))'
    BY <1>1, <1>5 DEF SegmentsInv, NumbersTyped
  <2>2. media' \in Nat /\ child'.seq \in Nat /\ FirstSeq <= r /\ child'.open \in BOOLEAN /\ looked' \in BOOLEAN
    BY <1>1, <1>2, <1>3, <1>6
  <2> QED
    BY <1>1, <1>3, <1>5, <2>1, <2>2 DEF SegmentsInv, NumbersTyped
<1>9. SegmentsLie'
  <2>1. ASSUME NEW s \in Nat, s..(q - 1) \subseteq DOMAIN disk
        PROVE  s..(r - 1) \subseteq DOMAIN disk
    <3> SUFFICES ASSUME NEW x \in s..(r - 1) PROVE x \in DOMAIN disk
      OBVIOUS
    <3>1. x \in Int /\ s <= x /\ x <= q
      BY <1>2, <1>6
    <3>2. x = q \/ x \in s..(q - 1)
      BY <1>2, <3>1
    <3> QED
      BY <1>2, <2>1, <3>2
  <2>2. /\ \A s \in DOMAIN disk : s..(q - 1) \subseteq DOMAIN disk
        /\ FirstSeq..(q - 1) \subseteq DOMAIN disk
    BY <1>1 DEF SegmentsInv, SegmentsLie, q
  <2>3. /\ \A s \in DOMAIN disk : s <= r /\ s..(r - 1) \subseteq DOMAIN disk
        /\ FirstSeq..(r - 1) \subseteq DOMAIN disk
    BY <1>2, <1>6, <2>1, <2>2
  <2>4. ~ full <=> r \in DOMAIN disk
    BY <1>2, <1>6
  <2>5. Held' = (IF full THEN 0 ELSE bytes)
    BY <1>2, <1>3, <1>4, <1>6 DEF Held
  <2>6. start_ms(r) = (IF full THEN start_ms(q) + SEG ELSE start_ms(q)) /\ start_ms(child'.seq) = start_ms(r)
    BY <1>3, <1>6, <1>7
  <2>7. origin + media + 1 = start_ms(r) + (IF full THEN 0 ELSE bytes)
    BY <1>2, <1>7, <2>6 DEF full
  <2>8. origin' + media' = start_ms(child'.seq) + Held'
    BY <1>1, <1>2, <2>5, <2>6, <2>7, <1>7
  <2>9. start_ms(child.seq)' = start_ms(child'.seq)
    BY DEF start_ms
  <2> QED
    BY <1>3, <1>5, <2>3, <2>4, <2>8, <2>9 DEF SegmentsLie
<1>10. SegmentsHold'
  <2> SUFFICES ASSUME NEW s \in DOMAIN disk
               PROVE  /\ disk'[s].bytes \in Nat
                      /\ disk'[s].old <=> s < FirstSeq
                      /\ s < r => disk'[s].bytes = SEG
                      /\ FirstSeq <= s => disk'[s].audio = child.audio /\ (s < r => disk'[s].whole)
                      /\ s = r => disk'[s].bytes < SEG
    BY <1>3, <1>5 DEF SegmentsHold
  <2>1. CASE s = q
    <3>1. (disk[q].old <=> q < FirstSeq) /\ (FirstSeq <= q => disk[q].audio = child.audio)
      BY <1>1, <1>2 DEF SegmentsInv, SegmentsHold
    <3>2. disk'[q] = new
      BY <1>2, <1>3
    <3>3. CASE full
      BY <1>2, <1>4, <1>6, <2>1, <3>1, <3>2, <3>3
    <3>4. CASE ~ full
      BY <1>2, <1>4, <1>6, <2>1, <3>1, <3>2, <3>4
    <3> QED
      BY <3>3, <3>4
  <2>2. CASE s # q
    <3>1. s < q /\ s < r /\ s # r
      BY <1>2, <1>6, <2>2
    <3>2. disk'[s] = disk[s]
      BY <1>3, <2>2
    <3>3. /\ disk[s].bytes = SEG /\ (disk[s].old <=> s < FirstSeq)
          /\ FirstSeq <= s => disk[s].audio = child.audio /\ disk[s].whole
      BY <1>1, <3>1 DEF SegmentsInv, SegmentsHold, q
    <3> QED
      BY <1>2, <3>1, <3>2, <3>3
  <2> QED
    BY <2>1, <2>2
<1>11. LedgerFollows'
  <2>1. highest < r
    BY <1>2, <1>6
  <2> QED
    BY <1>1, <1>3, <2>1 DEF SegmentsInv, LedgerFollows
<1>12. LagIsShort'
  <2> SUFFICES ASSUME session = "running"
               PROVE  span_ms <= media + 1 /\ media + 1 <= span_ms + SEG + 1
    BY <1>1, <1>5 DEF LagIsShort
  <2>1. span_ms \in Int
    <3>1. /\ origin \in Nat /\ DOMAIN ledger \in SUBSET Nat /\ highest \in {NoSegment} \cup DOMAIN ledger
          /\ \A s \in DOMAIN ledger : s <= highest
      <4>1. FirstSeq \in Int /\ FirstSeq \in Nat /\ origin = start_ms(FirstSeq)
        BY <1>2 DEF SegmentsInv, NumbersTyped
      <4>2. origin \in Nat
        BY <4>1, SegmentsFollow
      <4> QED
        BY <1>1, <4>2 DEF SegmentsInv, NumbersTyped, LedgerFollows
    <3> HIDE DEF SegmentsInv
    <3> QED
      BY <3>1, SpanIsKnown DEF span_ms, SpanOf
  <2>2. span_ms <= media /\ media <= span_ms + SEG + 0
    BY <1>1 DEF SegmentsInv, LagIsShort
  <2> QED
    BY <1>2, <2>1, <2>2
<1> QED
  BY <1>8, <1>9, <1>10, <1>11, <1>12 DEF SegmentsInv

\* A lag allowed is a lag allowed with nothing added.
LEMMA ALagStays ==
    ASSUME NEW span \in Int, NEW m \in Nat, NEW k \in Nat, m <= span + k
    PROVE  m <= span + k + 0
  OBVIOUS

\* A scan takes all but the newest: the ledger is short by a segment at most.
LEMMA ScanningKeepsSegments ==
    ASSUME FilesInv, SegmentsInv, Scan
    PROVE  SegmentsInv'
<1> DEFINE q == child.seq
           D == DOMAIN disk
           h == highest'
           known == DOMAIN ledger'
           found == newly_complete(observed_seqs, highest)
<1>1. /\ session = "running" /\ session' = session /\ disk' = disk /\ child' = child
      /\ origin' = origin /\ media' = media /\ looked' = TRUE
      /\ h = MaxOr(found, highest) /\ known = DOMAIN ledger \cup found
  BY DEF Scan, scan, push
<1>2. /\ q \in Nat /\ FirstSeq \in Nat /\ FirstSeq <= q /\ origin = start_ms(FirstSeq)
      /\ highest \in Int /\ highest < q /\ highest \in {NoSegment} \cup DOMAIN ledger
      /\ IsFiniteSet(D) /\ D \in SUBSET Nat /\ DOMAIN ledger = {s \in D : s <= highest}
      /\ \A s \in D : s \in Nat /\ s <= q
      /\ media \in Nat
  BY <1>1 DEF SegmentsInv, NumbersTyped, SegmentsLie, LedgerFollows
<1>3. found = {s \in D : s > highest /\ \E later \in D : s < later}
  BY DEF newly_complete, observed_seqs
<1> HIDE DEF found, q
<1>4. FirstSeq' = FirstSeq /\ span_ms' = SpanOf(ledger', origin)
  BY <1>1 DEF FirstSeq, span_ms, SpanOf, LedgerSpan, end_ms, start_ms
<1>5. /\ highest <= h /\ h \in Int /\ h \in {highest} \cup found /\ \A s \in found : s <= h
  <2>1. CASE found = {}
    BY <1>1, <1>2, <2>1 DEF MaxOr
  <2>2. CASE found # {}
    <3>1. IsFiniteSet(found) /\ found \in SUBSET Int /\ \A s \in found : s \in Int /\ s > highest
      <4>1. found \in SUBSET D /\ \A s \in found : s \in Nat /\ s > highest
        BY <1>2, <1>3
      <4>2. IsFiniteSet(found)
        BY <1>2, <4>1, FS_Subset
      <4> QED
        BY <4>1, <4>2
    <3>2. h = Max(found)
      BY <1>1, <2>2 DEF MaxOr
    <3>3. h \in found /\ \A s \in found : s <= h
      BY <2>2, <3>1, <3>2, LargestIsThere
    <3> QED
      BY <1>2, <3>1, <3>3
  <2> QED
    BY <2>1, <2>2
<1> HIDE DEF h, known
<1>6. h < q /\ h \in {NoSegment} \cup known
  <2>1. ASSUME h \in found PROVE h < q
    <3>1. PICK later \in D : h < later
      BY <1>3, <2>1
    <3> QED
      BY <1>2, <1>5, <3>1
  <2> QED
    BY <1>1, <1>2, <1>5, <2>1
<1>7. \A s \in D : (\E later \in D : s < later) => s <= h
  BY <1>2, <1>3, <1>5
<1>8. known = {s \in D : s <= h}
  <2>1. ASSUME NEW s \in D, s <= h PROVE s \in known
    <3>1. CASE s <= highest
      BY <1>1, <1>2, <3>1
    <3>2. CASE ~ (s <= highest)
      <4>1. h \in found
        BY <1>2, <1>5, <2>1, <3>2
      <4>2. PICK later \in D : h < later
        BY <1>3, <4>1
      <4>3. s < later /\ s > highest
        BY <1>2, <1>5, <2>1, <3>2, <4>2
      <4> QED
        BY <1>1, <1>3, <4>3
    <3> QED
      BY <3>1, <3>2
  <2>2. \A s \in known : s \in D /\ s <= h
    BY <1>1, <1>2, <1>3, <1>5
  <2> QED
    BY <2>1, <2>2
<1>9. NumbersTyped'
  <2>1. known \in SUBSET D /\ IsFiniteSet(known) /\ known \in SUBSET Nat
    BY <1>2, <1>8, FS_Subset
  <2>2. (origin = start_ms(FirstSeq))'
    BY <1>1, <1>2, <1>4 DEF start_ms
  <2> QED
    BY <1>1, <1>4, <1>5, <2>1, <2>2 DEF SegmentsInv, NumbersTyped, h, known
<1>10. SegmentsLie' /\ SegmentsHold'
  BY <1>1, <1>4 DEF SegmentsInv, SegmentsLie, SegmentsHold, Held, start_ms
<1>11. LedgerFollows'
  BY <1>1, <1>6, <1>8 DEF LedgerFollows, h, known, q, NoSegment
<1>12. LagIsShort'
  <2> DEFINE reach == end_ms(h)
  <2>1. /\ SEG \in Nat /\ SEG > 0
        /\ origin \in Nat /\ start_ms(q) \in Int
        /\ reach \in Int /\ reach <= start_ms(q)
        /\ \A s \in Int : s <= h => start_ms(s + 1) \in Int /\ start_ms(s + 1) <= reach
    <3>1. SEG \in Nat /\ SEG > 0
      BY SessionFilesAssumption
    <3>2. FirstSeq \in Int /\ FirstSeq \in Nat /\ q \in Int /\ h \in Int /\ h < q /\ origin = start_ms(FirstSeq)
      BY <1>2, <1>5, <1>6
    <3>3. origin \in Nat /\ start_ms(q) \in Int /\ end_ms(h) <= start_ms(q) /\ end_ms(h) \in Int
      <4>1. start_ms(FirstSeq) \in Nat /\ start_ms(q) \in Int /\ end_ms(h) <= start_ms(q)
            /\ end_ms(h) = start_ms(h) + SEG /\ start_ms(h) \in Int
        BY ONLY <3>2, SegmentsFollow
      <4> QED
        BY <3>1, <3>2, <4>1
    <3>4. ASSUME NEW s \in Int, s <= h PROVE start_ms(s + 1) \in Int /\ start_ms(s + 1) <= end_ms(h)
      <4>1. s = h \/ s < h
        BY <3>2, <3>4
      <4>2. start_ms(s + 1) = end_ms(s) /\ end_ms(s) = start_ms(s) + SEG /\ start_ms(s) \in Int
        BY <3>4, SegmentsFollow
      <4>3. s < h => end_ms(s) <= start_ms(h) /\ start_ms(h) \in Int /\ end_ms(h) = start_ms(h) + SEG
        BY <3>2, <3>4, SegmentsFollow
      <4> QED
        BY <3>1, <3>3, <4>1, <4>2, <4>3
    <3> QED
      BY <3>1, <3>3, <3>4
  <2> HIDE DEF reach
  <2>2. span_ms' = IF reach >= origin THEN reach - origin ELSE 0
    <3>1. DOMAIN ledger' \in SUBSET Nat /\ h \in {NoSegment} \cup DOMAIN ledger' /\ \A s \in DOMAIN ledger' : s <= h
      BY <1>2, <1>6, <1>8 DEF known
    <3>2. SpanOf(ledger', origin) = IF end_ms(h) >= origin THEN end_ms(h) - origin ELSE 0
      BY <2>1, <3>1, SpanIsKnown
    <3> QED
      BY <1>4, <3>2 DEF reach
  <2>3. origin + media = start_ms(q) + Held
    BY <1>1 DEF SegmentsInv, SegmentsLie, q
  <2>4. Held \in Nat /\ Held < SEG /\ (~ child.open => Held = 0) /\ (child.open => q \in D)
    <3>1. child.open => q \in D /\ disk[q].bytes \in Nat /\ disk[q].bytes < SEG
      BY <1>1 DEF SegmentsInv, SegmentsLie, SegmentsHold, q
    <3> QED
      BY <2>1, <3>1 DEF Held, q
  <2>5. \A s \in Int : FirstSeq <= s /\ s < q => s \in D
    <3>1. FirstSeq..(q - 1) \subseteq D
      BY <1>1 DEF SegmentsInv, SegmentsLie, q
    <3> QED
      BY <1>2, <3>1
  <2>6. media \in Nat /\ (q = FirstSeq => start_ms(q) = origin)
    BY <1>2
  <2>8. media <= span_ms' + SEG /\ span_ms' <= media
    <3>1. CASE q = FirstSeq
      BY <2>1, <2>2, <2>3, <2>4, <2>6, <3>1
    <3>2. CASE q # FirstSeq /\ child.open
      <4>1. q - 1 \in Int /\ q - 1 \in D /\ q \in D /\ q - 1 < q /\ (q - 1) + 1 = q
        BY <1>2, <2>4, <2>5, <3>2
      <4>2. start_ms(q) <= reach
        BY <1>7, <2>1, <4>1
      <4> QED
        BY <1>2, <2>1, <2>2, <2>3, <2>4, <4>2
    <3>3. CASE q # FirstSeq /\ ~ child.open
      <4>1. q - 1 \in Int /\ q - 1 \in D /\ q = (q - 1) + 1 /\ q - 2 \in Int /\ q - 2 < q - 1 /\ (q - 2) + 1 = q - 1
        BY <1>2, <2>5, <3>3
      <4>2. start_ms(q) = start_ms(q - 1) + SEG /\ start_ms(q - 1) \in Int
        BY <4>1, SegmentsFollow
      <4>3. CASE q - 1 = FirstSeq
        BY <1>2, <2>1, <2>2, <2>3, <2>4, <3>3, <4>2, <4>3
      <4>4. CASE q - 1 # FirstSeq
        <5>1. q - 2 \in D
          BY <1>2, <2>5, <3>3, <4>1, <4>4
        <5>2. start_ms(q - 1) <= reach
          BY <1>7, <2>1, <4>1, <5>1
        <5> QED
          BY <1>2, <2>1, <2>2, <2>3, <2>4, <3>3, <4>2, <5>2
      <4> QED
        BY <4>3, <4>4
    <3> QED
      BY <3>1, <3>2, <3>3
  <2>7. span_ms' \in Int
    BY <2>1, <2>2
  <2>9. media' = media /\ (IF looked' THEN 0 ELSE 1) = 0
    BY <1>1
  <2>10. SEG \in Nat
    BY <2>1
  <2>11. span_ms' <= media' /\ media' <= span_ms' + SEG + 0
    BY <1>1, <2>6, <2>7, <2>8, <2>10, ALagStays
  <2> QED
    BY <2>9, <2>11 DEF LagIsShort
<1> QED
  BY <1>9, <1>10, <1>11, <1>12 DEF SegmentsInv

\* What touches neither the files nor the ledger.
LEMMA TheRestKeepsSegments ==
    ASSUME SegmentsInv,
           disk' = disk, ledger' = ledger, highest' = highest, origin' = origin, media' = media,
           child'.seq = child.seq, child'.open = child.open, child'.audio = child.audio,
           session' \in Endings, looked' \in BOOLEAN,
           session = "finished" => session' = "finished",
           session' = "running" => session = "running" /\ looked' = looked,
           session' \in {"running", "stopping", "flushed"} => session \in {"running", "stopping", "flushed"}
    PROVE  SegmentsInv'
<1>1. FirstSeq' = FirstSeq /\ span_ms' = span_ms /\ Held' = Held
  BY DEF FirstSeq, Held, span_ms, LedgerSpan, end_ms, start_ms
<1>2. NumbersTyped'
  BY <1>1 DEF SegmentsInv, NumbersTyped, start_ms
<1>3. SegmentsLie'
  BY <1>1 DEF SegmentsInv, SegmentsLie, start_ms
<1>4. SegmentsHold'
  BY <1>1 DEF SegmentsInv, SegmentsHold
<1>5. LedgerFollows'
  BY <1>1 DEF SegmentsInv, LedgerFollows, NoSegment
<1>6. LagIsShort'
  BY <1>1 DEF SegmentsInv, LagIsShort
<1> QED
  BY <1>2, <1>3, <1>4, <1>5, <1>6 DEF SegmentsInv

\* A flush closes the last segment as it is.
LEMMA FlushingKeepsSegments ==
    ASSUME FilesInv, SegmentsInv, FlushEncoder
    PROVE  SegmentsInv'
<1> DEFINE q == child.seq
<1>1. /\ session = "stopping" /\ session' = "flushed"
      /\ ledger' = ledger /\ highest' = highest /\ origin' = origin /\ media' = media /\ looked' = looked
      /\ child'.seq = q /\ child'.open = child.open /\ child'.audio = child.audio
  BY DEF FlushEncoder, FilesInv, FilesTyped
<1>2. /\ DOMAIN disk' = DOMAIN disk
      /\ \A s \in DOMAIN disk : /\ disk'[s].bytes = disk[s].bytes /\ disk'[s].old = disk[s].old
                                /\ disk'[s].audio = disk[s].audio /\ (s # q => disk'[s] = disk[s])
  <2>1. CASE disk' = [disk EXCEPT ![q].whole = TRUE]
    BY <2>1 DEF FilesInv, FilesTyped
  <2>2. CASE disk' = disk
    BY <2>2
  <2> QED
    BY <2>1, <2>2 DEF FlushEncoder
<1>3. FirstSeq' = FirstSeq /\ Held' = Held /\ q \in Nat
  <2>1. child.open => q \in DOMAIN disk
    BY <1>1 DEF SegmentsInv, SegmentsLie
  <2> QED
    BY <1>1, <1>2, <2>1 DEF FirstSeq, Held, SegmentsInv, NumbersTyped
<1>4. NumbersTyped'
  BY <1>1, <1>2, <1>3 DEF SegmentsInv, NumbersTyped, start_ms, Endings
<1>5. SegmentsLie'
  BY <1>1, <1>2, <1>3 DEF SegmentsInv, SegmentsLie, start_ms
<1>6. SegmentsHold'
  <2> SUFFICES ASSUME NEW s \in DOMAIN disk
               PROVE  /\ disk'[s].bytes \in Nat
                      /\ disk'[s].old <=> s < FirstSeq
                      /\ s < q => disk'[s].bytes = SEG
                      /\ FirstSeq <= s => disk'[s].audio = child.audio /\ (s < q => disk'[s].whole)
                      /\ s = q => disk'[s].bytes < SEG
    BY <1>1, <1>2, <1>3 DEF SegmentsHold
  <2>1. /\ disk[s].bytes \in Nat
        /\ disk[s].old <=> s < FirstSeq
        /\ s < q => disk[s].bytes = SEG
        /\ FirstSeq <= s => disk[s].audio = child.audio /\ (s < q => disk[s].whole)
        /\ s = q => disk[s].bytes < SEG
    BY <1>1 DEF SegmentsInv, SegmentsHold
  <2>2. s < q => disk'[s] = disk[s]
    BY <1>2, <1>3
  <2> QED
    BY <1>2, <2>1, <2>2
<1>7. LedgerFollows' /\ LagIsShort'
  BY <1>1, <1>2 DEF SegmentsInv, LedgerFollows, LagIsShort, NoSegment
<1> QED
  BY <1>4, <1>5, <1>6, <1>7 DEF SegmentsInv

\* What finish_session indexes is every segment that holds anything.
LEMMA AllIsIndexed ==
    ASSUME FilesInv, SegmentsInv, IndexAll
    PROVE  /\ DOMAIN ledger' = {s \in DOMAIN disk : disk[s].bytes > 0}
           /\ \A s \in DOMAIN ledger' : ledger'[s] = disk[s].bytes
<1>1. session = "flushed" /\ ledger' = push(ledger, segments_on_disk)
  BY DEF IndexAll, scan_all
<1>2. /\ DOMAIN ledger' = DOMAIN ledger \cup segments_on_disk
      /\ \A s \in DOMAIN ledger' : ledger'[s] = IF s \in DOMAIN ledger THEN ledger[s] ELSE disk[s].bytes
  BY <1>1 DEF push
<1>3. segments_on_disk = {s \in DOMAIN disk : disk[s].bytes > 0}
  BY DEF segments_on_disk, observed_seqs
<1>4. ASSUME NEW s \in DOMAIN ledger
      PROVE  s \in DOMAIN disk /\ disk[s].bytes > 0 /\ ledger[s] = disk[s].bytes
  <2>1. s \in DOMAIN disk /\ s <= highest /\ highest < child.seq /\ ledger[s] = disk[s].bytes
    BY <1>1 DEF SegmentsInv, LedgerFollows, FilesInv, LedgerIsOnDisk
  <2>2. s \in Nat /\ highest \in Int /\ child.seq \in Nat
    BY <2>1 DEF SegmentsInv, NumbersTyped
  <2>3. disk[s].bytes = SEG
    BY <1>1, <2>1, <2>2 DEF SegmentsInv, SegmentsHold
  <2> QED
    BY <2>1, <2>3, SessionFilesAssumption
<1> QED
  BY <1>2, <1>3, <1>4

\* After it the numbers are still numbers; the ledger no longer lags.
LEMMA IndexingKeepsSegments ==
    ASSUME FilesInv, SegmentsInv, IndexAll
    PROVE  SegmentsInv'
<1>1. /\ session = "flushed" /\ session' = "indexed" /\ disk' = disk /\ child' = child
      /\ origin' = origin /\ media' = media /\ looked' = looked
      /\ highest' = MaxOr(segments_on_disk \cup {highest}, highest)
  BY DEF IndexAll, scan_all
<1>2. /\ segments_on_disk = {s \in DOMAIN disk : disk[s].bytes > 0}
      /\ DOMAIN ledger' = segments_on_disk
  BY AllIsIndexed DEF segments_on_disk, observed_seqs
<1>3. FirstSeq' = FirstSeq /\ Held' = Held
  BY <1>1 DEF FirstSeq, Held
<1>4. NumbersTyped'
  <2>1. IsFiniteSet(DOMAIN disk) /\ DOMAIN disk \in SUBSET Nat /\ highest \in Int
    BY DEF SegmentsInv, NumbersTyped
  <2>2. IsFiniteSet(segments_on_disk) /\ segments_on_disk \in SUBSET Nat
    BY <1>2, <2>1, FS_Subset
  <2>3. highest' \in Int
    <3> DEFINE S == segments_on_disk \cup {highest}
    <3>1. IsFiniteSet(S) /\ S \in SUBSET Int /\ S # {} /\ \A s \in S : s \in Int
      BY <2>1, <2>2, FS_AddElement
    <3> HIDE DEF S
    <3>2. Max(S) \in S
      BY <3>1, LargestIsThere
    <3>3. highest' = Max(S)
      BY <1>1, <3>1 DEF MaxOr, S
    <3> QED
      BY <3>1, <3>2, <3>3
  <2> QED
    BY <1>1, <1>2, <1>3, <2>1, <2>2, <2>3 DEF SegmentsInv, NumbersTyped, start_ms, Endings
<1>5. SegmentsLie' /\ SegmentsHold'
  BY <1>1, <1>3 DEF SegmentsInv, SegmentsLie, SegmentsHold, start_ms
<1>6. LedgerFollows' /\ LagIsShort'
  BY <1>1 DEF LedgerFollows, LagIsShort
<1> QED
  BY <1>4, <1>5, <1>6 DEF SegmentsInv

\* Every step keeps the segments.
LEMMA SegmentsStep ==
    ASSUME FilesInv, SegmentsInv, FilesNext
    PROVE  SegmentsInv'
<1>1. CASE OpenSegment
  BY <1>1, OpeningKeepsSegments
<1>2. CASE WriteMedia
  BY <1>2, WritingKeepsSegments
<1>3. CASE Scan
  BY <1>3, ScanningKeepsSegments
<1>4. CASE TakeClip \/ WaitInVain \/ PostRollArrives \/ PostRollExpires \/ SpliceEnds
  <2>1. UNCHANGED <<disk, ledger, highest, origin, media, child, looked, session>>
    BY <1>4 DEF TakeClip, WaitInVain, PostRollArrives, PostRollExpires, SpliceEnds
  <2>2. session \in Endings /\ looked \in BOOLEAN
    BY DEF SegmentsInv, NumbersTyped
  <2> QED
    BY <2>1, <2>2, TheRestKeepsSegments
<1>5. CASE EncoderHangs \/ StopRecording
  <2>1. /\ UNCHANGED <<disk, ledger, highest, origin, media>>
        /\ session = "running"
        /\ \/ session' = "stopping" /\ looked' = TRUE
           \/ session' = session /\ looked' = looked
    BY <1>5 DEF EncoderHangs, StopRecording
  <2>2. child'.seq = child.seq /\ child'.open = child.open /\ child'.audio = child.audio
    BY <1>5 DEF EncoderHangs, StopRecording, FilesInv, FilesTyped
  <2>3. session' \in Endings /\ looked' \in BOOLEAN
    BY <2>1 DEF SegmentsInv, NumbersTyped, Endings
  <2> QED
    BY <2>1, <2>2, <2>3, TheRestKeepsSegments
<1>6. CASE FlushEncoder
  BY <1>6, FlushingKeepsSegments
<1>7. CASE IndexAll
  BY <1>7, IndexingKeepsSegments
<1>8. CASE Finalise
  <2>1. /\ UNCHANGED <<disk, ledger, highest, origin, media, child, looked>>
        /\ session = "indexed" /\ session' \in {"empty", "copied", "kept"}
    BY <1>8 DEF Finalise
  <2>2. session' \in Endings /\ looked' \in BOOLEAN
    BY <2>1 DEF SegmentsInv, NumbersTyped, Endings
  <2> QED
    BY <2>1, <2>2, TheRestKeepsSegments
<1>9. CASE RemoveSegments
  <2>1. /\ UNCHANGED <<ledger, highest, origin, media, child, looked>>
        /\ session \in {"copied", "empty"}
        /\ \/ session' = "finished" /\ disk' = <<>>
           \/ session' = "kept" /\ disk' = disk
    BY <1>9 DEF RemoveSegments
  <2>2. session' \in Endings /\ looked' \in BOOLEAN
    BY <2>1 DEF SegmentsInv, NumbersTyped, Endings
  <2>3. CASE session' = "kept" /\ disk' = disk
    BY <2>1, <2>2, <2>3, TheRestKeepsSegments
  <2>4. CASE session' = "finished" /\ disk' = <<>>
    <3>1. DOMAIN disk' = {} /\ IsFiniteSet({})
      BY <2>4, FS_EmptySet
    <3>2. FirstSeq' = FirstSeq
      BY <2>1 DEF FirstSeq
    <3>3. NumbersTyped'
      BY <2>1, <2>2, <3>1, <3>2 DEF SegmentsInv, NumbersTyped, start_ms
    <3>4. SegmentsLie' /\ SegmentsHold' /\ LedgerFollows' /\ LagIsShort'
      BY <2>4 DEF SegmentsLie, SegmentsHold, LedgerFollows, LagIsShort
    <3> QED
      BY <3>3, <3>4 DEF SegmentsInv
  <2> QED
    BY <2>1, <2>3, <2>4
<1> QED
  BY <1>1, <1>2, <1>3, <1>4, <1>5, <1>6, <1>7, <1>8, <1>9 DEF FilesNext

-----------------------------------------------------------------------------
(* The session file.                                                        *)

\* The run's own segments, as the ledger has them.
ThisRun == {s \in DOMAIN ledger : start_ms(s) >= origin}
\* From the index on, the run's segments sum to what was recorded, and the
\* session file is all of the ledger in order.
Saving ==
    /\ session \in {"indexed", "copied", "empty", "kept", "finished"} =>
          /\ total_bytes([s \in ThisRun |-> ledger[s]]) = media
          /\ media > 0 => \E s \in DOMAIN ledger : FirstSeq <= s
    /\ session \in {"running", "stopping", "flushed", "indexed"} => out = NoFile
    /\ out # NoFile => out.seqs = InOrder(DOMAIN ledger) /\ (Len(out.titles) = child.audio \/ media = 0)
    /\ session = "copied" => out # NoFile
    /\ session = "empty" => media = 0
    /\ session = "finished" /\ media > 0 => out # NoFile

-----------------------------------------------------------------------------
(* The bytes of segments that are full but for one, in whatever order they  *)
(* are added.                                                               *)
AnyOf(S) == CHOOSE x \in S : TRUE
Adding(f, l) == [R \in SUBSET DOMAIN l |-> IF R = {} THEN 0 ELSE l[AnyOf(R)] + f[R \ {AnyOf(R)}]]
Added(l) == CHOOSE f : f = Adding(f, l)

\* The sum of the sizes is that of a recursive function.
LEMMA BytesAreAdded == ASSUME NEW l PROVE total_bytes(l) = Added(l)[DOMAIN l]
  BY DEF total_bytes, MapThenSumSet, MapThenFoldSet, Added, Adding, AnyOf

\* Full segments, and one that holds w, sum to their number of segments and w.
LEMMA FullSegmentsAdd ==
    ASSUME NEW l, IsFiniteSet(DOMAIN l), NEW t, NEW w \in Nat,
           \A s \in DOMAIN l : l[s] = IF s = t THEN w ELSE SEG
    PROVE  total_bytes(l) = start_ms(Cardinality(DOMAIN l \ {t})) + (IF t \in DOMAIN l THEN w ELSE 0)
<1> DEFINE D == DOMAIN l
           Sum(R) == start_ms(Cardinality(R \ {t})) + (IF t \in R THEN w ELSE 0)
           F == [R \in SUBSET D |-> Sum(R)]
           g == Added(l)
<1>1. \A R \in SUBSET D : /\ IsFiniteSet(R) /\ Cardinality(R) \in Nat /\ (Cardinality(R) = 0 <=> R = {})
                          /\ R \ {t} \in SUBSET D
  BY FS_Subset, FS_CardinalityType, FS_EmptySet
<1>2. \A R \in SUBSET D : R # {} => /\ AnyOf(R) \in R /\ R \ {AnyOf(R)} \in SUBSET D
                                    /\ Cardinality(R \ {AnyOf(R)}) = Cardinality(R) - 1
  <2> SUFFICES ASSUME NEW R \in SUBSET D, R # {}
               PROVE  /\ AnyOf(R) \in R /\ R \ {AnyOf(R)} \in SUBSET D
                      /\ Cardinality(R \ {AnyOf(R)}) = Cardinality(R) - 1
    OBVIOUS
  <2>1. AnyOf(R) \in R
    BY DEF AnyOf
  <2> QED
    BY <1>1, <2>1, FS_RemoveElement
<1>3. Sum({}) = 0
  <2>1. {} \ {t} = {} /\ Cardinality({}) = 0 /\ start_ms(0) = 0
    BY FS_EmptySet, SessionFilesAssumption DEF start_ms
  <2> QED
    BY <2>1
<1>4. ASSUME NEW R \in SUBSET D, R # {} PROVE Sum(R) = l[AnyOf(R)] + Sum(R \ {AnyOf(R)})
  <2> DEFINE x == AnyOf(R)
  <2>1. x \in R /\ x \in D /\ R \ {x} \in SUBSET D
    BY <1>2, <1>4
  <2> HIDE DEF x
  <2>2. CASE x = t
    <3>1. (R \ {x}) \ {t} = R \ {t} /\ t \notin R \ {x} /\ t \in R
      BY <2>1, <2>2
    <3>2. Cardinality(R \ {t}) \in Nat /\ Cardinality(R \ {t}) \in Int
      BY <1>1, <1>4
    <3>3. start_ms(Cardinality(R \ {t})) \in Int
      BY <3>2, SegmentsFollow
    <3>4. l[x] = w
      BY <2>1, <2>2
    <3> DEFINE a == start_ms(Cardinality(R \ {t}))
    <3>5. Sum(R) = a + w /\ Sum(R \ {x}) = a + 0
      BY <3>1
    <3> HIDE DEF a, Sum
    <3>6. a \in Int
      BY <3>3 DEF a
    <3> QED
      BY <3>4, <3>5, <3>6 DEF x
  <2>3. CASE x # t
    <3> DEFINE rest == R \ {t}
               n == Cardinality(rest)
    <3>1. (R \ {x}) \ {t} = rest \ {x} /\ (t \in R \ {x} <=> t \in R) /\ x \in rest
      BY <2>1, <2>3
    <3>2. IsFiniteSet(rest) /\ n \in Nat
      BY <1>1, <1>4
    <3>3. Cardinality(rest \ {x}) = n - 1 /\ n - 1 \in Int
      <4> HIDE DEF rest
      <4>1. Cardinality(rest \ {x}) = Cardinality(rest) - 1
        BY <3>1, <3>2, FS_RemoveElement
      <4> QED
        BY <3>2, <4>1
    <3>4. start_ms(n) = start_ms(n - 1) + SEG /\ start_ms(n - 1) \in Int
      <4> HIDE DEF n
      <4>1. n - 1 \in Int /\ n = (n - 1) + 1
        BY <3>2
      <4> QED
        BY <4>1, SegmentsFollow
    <3>5. l[x] = SEG /\ SEG \in Nat
      BY <2>1, <2>3, SessionFilesAssumption
    <3> DEFINE a == start_ms(n)
               b == start_ms(n - 1)
               c == IF t \in R THEN w ELSE 0
    <3>6. Sum(R) = a + c /\ Sum(R \ {x}) = b + c
      BY <3>1, <3>3
    <3>7. c \in Int
      OBVIOUS
    <3> HIDE DEF a, b, c, Sum, n
    <3>8. a = b + SEG /\ b \in Int
      BY <3>4 DEF a, b
    <3> QED
      BY <3>5, <3>6, <3>7, <3>8 DEF x
  <2> QED
    BY <2>2, <2>3
<1> HIDE DEF Sum
<1>5. F = Adding(F, l)
  <2>1. \A R \in SUBSET D : F[R] = IF R = {} THEN 0 ELSE l[AnyOf(R)] + F[R \ {AnyOf(R)}]
    BY <1>2, <1>3, <1>4
  <2>2. F = [R \in SUBSET D |-> F[R]]
    OBVIOUS
  <2> HIDE DEF F
  <2> QED
    BY <2>1, <2>2 DEF Adding
<1>6. g = Adding(g, l)
  BY <1>5, Zenon DEF Added
<1> HIDE DEF g, F
<1>7. \A R \in SUBSET D : g[R] = IF R = {} THEN 0 ELSE l[AnyOf(R)] + g[R \ {AnyOf(R)}]
  BY <1>6 DEF Adding
<1>8. \A R \in SUBSET D : F[R] = IF R = {} THEN 0 ELSE l[AnyOf(R)] + F[R \ {AnyOf(R)}]
  BY <1>5 DEF Adding
<1> DEFINE T == {n \in Nat : \A R \in SUBSET D : Cardinality(R) = n => g[R] = F[R]}
<1>9. 0 \in T
  BY <1>1, <1>7, <1>8
<1>10. ASSUME NEW n \in Nat, n \in T PROVE n + 1 \in T
  <2> SUFFICES ASSUME NEW R \in SUBSET D, Cardinality(R) = n + 1 PROVE g[R] = F[R]
    OBVIOUS
  <2>1. R # {}
    BY <1>1
  <2>2. R \ {AnyOf(R)} \in SUBSET D /\ Cardinality(R \ {AnyOf(R)}) = n
    BY <1>2, <2>1
  <2>3. g[R \ {AnyOf(R)}] = F[R \ {AnyOf(R)}]
    BY <1>10, <2>2
  <2> QED
    BY <1>7, <1>8, <2>1, <2>3
<1>11. Nat \subseteq T
  <2> HIDE DEF T
  <2> QED
    BY <1>9, <1>10, NumbersByInduction
<1>12. g[D] = F[D]
  <2>1. D \in SUBSET D /\ Cardinality(D) \in T
    BY <1>1, <1>11
  <2> QED
    BY <2>1
<1>13. F[D] = Sum(D)
  BY DEF F
<1> QED
  BY <1>12, <1>13, BytesAreAdded DEF g, Sum

-----------------------------------------------------------------------------
\* The last scan lists all of the run, and its sizes sum to what was recorded.
LEMMA TheRunIsSummed ==
    ASSUME FilesInv, SegmentsInv, IndexAll
    PROVE  /\ total_bytes([s \in ThisRun |-> ledger[s]])' = media
           /\ media > 0 => \E s \in DOMAIN ledger' : FirstSeq <= s
<1> DEFINE q == child.seq
           f == FirstSeq
           b == Held
           run == {s \in DOMAIN disk : f <= s /\ disk[s].bytes > 0}
           l == [s \in run |-> disk[s].bytes]
<1>1. /\ session = "flushed" /\ origin' = origin
      /\ DOMAIN ledger' = {s \in DOMAIN disk : disk[s].bytes > 0}
      /\ \A s \in DOMAIN ledger' : ledger'[s] = disk[s].bytes
  BY AllIsIndexed DEF IndexAll
<1>2. /\ q \in Nat /\ f \in Nat /\ f <= q /\ origin = start_ms(f) /\ media \in Nat
      /\ IsFiniteSet(DOMAIN disk)
      /\ \A s \in DOMAIN disk : s \in Nat /\ s <= q
  BY <1>1 DEF SegmentsInv, NumbersTyped, SegmentsLie
<1>3. /\ child.open <=> q \in DOMAIN disk
      /\ f..(q - 1) \subseteq DOMAIN disk
      /\ origin + media = start_ms(q) + b
  BY <1>1 DEF SegmentsInv, SegmentsLie
<1>4. /\ \A s \in DOMAIN disk : s < q => disk[s].bytes = SEG
      /\ q \in DOMAIN disk => disk[q].bytes = b /\ b \in Nat
      /\ q \notin DOMAIN disk => b = 0
      /\ SEG \in Nat /\ SEG > 0
  <2>1. \A s \in DOMAIN disk : disk[s].bytes \in Nat /\ (s < q => disk[s].bytes = SEG)
    BY <1>1 DEF SegmentsInv, SegmentsHold
  <2> QED
    BY <1>3, <2>1, SessionFilesAssumption DEF Held
<1> HIDE DEF q, f, b
<1>5. \A s \in Nat : start_ms(s) \in Int /\ (start_ms(s) >= origin <=> f <= s)
  <2> SUFFICES ASSUME NEW s \in Nat PROVE start_ms(s) \in Int /\ (start_ms(s) >= origin <=> f <= s)
    OBVIOUS
  <2>1. s \in Int /\ f \in Int /\ origin = start_ms(f)
    BY <1>2
  <2>2. start_ms(s) \in Int /\ start_ms(f) \in Int /\ SEG \in Nat /\ SEG > 0
        /\ (s < f => start_ms(s) + SEG <= start_ms(f)) /\ (f < s => start_ms(f) + SEG <= start_ms(s))
    <3>1. SEG \in Nat /\ SEG > 0
      BY SessionFilesAssumption
    <3>2. start_ms(s) \in Int /\ end_ms(s) = start_ms(s) + SEG /\ (s < f => end_ms(s) <= start_ms(f))
      BY <2>1, SegmentsFollow
    <3>3. start_ms(f) \in Int /\ end_ms(f) = start_ms(f) + SEG /\ (f < s => end_ms(f) <= start_ms(s))
      BY <2>1, SegmentsFollow
    <3> QED
      BY <3>1, <3>2, <3>3
  <2> QED
    BY <2>1, <2>2
<1>6. [s \in ThisRun |-> ledger[s]]' = l
  <2>1. ThisRun' = {s \in DOMAIN ledger' : start_ms(s) >= origin}
    BY <1>1 DEF ThisRun, start_ms
  <2>2. ThisRun' = run
    BY <1>1, <1>2, <1>5, <2>1
  <2> QED
    BY <1>1, <2>2
<1>7. run = (f..(q - 1)) \cup (IF q \in DOMAIN disk /\ b > 0 THEN {q} ELSE {})
  <2>1. ASSUME NEW s \in run PROVE s \in f..(q - 1) \/ (s = q /\ q \in DOMAIN disk /\ b > 0)
    BY <1>2, <1>4
  <2>2. ASSUME NEW s \in f..(q - 1) PROVE s \in run
    <3>1. s \in DOMAIN disk /\ s \in Int /\ f <= s /\ s < q
      BY <1>2, <1>3
    <3> QED
      BY <1>4, <3>1
  <2>3. ASSUME q \in DOMAIN disk, b > 0 PROVE q \in run
    BY <1>2, <1>4, <2>3
  <2> HIDE DEF run
  <2> QED
    BY <2>1, <2>2, <2>3
<1>8. total_bytes(l) = start_ms(Cardinality(run \ {q})) + (IF q \in run THEN b ELSE 0)
  <2>1. DOMAIN l = run /\ IsFiniteSet(run)
    <3>1. run \in SUBSET DOMAIN disk
      OBVIOUS
    <3> QED
      BY <1>2, <3>1, FS_Subset
  <2>2. \A s \in run : l[s] = IF s = q THEN b ELSE SEG
    <3> SUFFICES ASSUME NEW s \in run PROVE disk[s].bytes = IF s = q THEN b ELSE SEG
      OBVIOUS
    <3>1. s \in DOMAIN disk /\ (s = q \/ s < q)
      BY <1>2
    <3> QED
      BY <1>4, <3>1
  <2>3. b \in Nat
    BY <1>4
  <2> HIDE DEF l, run
  <2> QED
    BY <2>1, <2>2, <2>3, FullSegmentsAdd
<1>9. Cardinality(run \ {q}) = q - f
  <2>1. run \ {q} = f..(q - 1)
    <3>1. q \notin f..(q - 1)
      BY <1>2
    <3> HIDE DEF run
    <3> QED
      BY <1>7, <3>1
  <2>2. Cardinality(f..(q - 1)) = q - f
    <3>1. f \in Int /\ q - 1 \in Int
      BY <1>2
    <3>2. Cardinality(f..(q - 1)) = IF f > q - 1 THEN 0 ELSE (q - 1) - f + 1
      BY <3>1, FS_Interval
    <3> QED
      BY <1>2, <3>2
  <2> QED
    BY <2>1, <2>2
<1>10. (IF q \in run THEN b ELSE 0) = b
  <2> HIDE DEF run
  <2>1. q \in run <=> q \in DOMAIN disk /\ b > 0
    BY <1>2, <1>7
  <2> QED
    BY <1>4, <2>1
<1>11. start_ms(q - f) = start_ms(q) - origin
  BY <1>2, <1>4 DEF start_ms
<1>12. total_bytes(l) = media
  <2>1. start_ms(q) \in Int /\ origin \in Int /\ b \in Int
    BY <1>2, <1>4, <1>5
  <2>2. total_bytes(l) = (start_ms(q) - origin) + b
    BY <1>8, <1>9, <1>10, <1>11
  <2> QED
    BY <1>2, <1>3, <2>1, <2>2
<1>13. ASSUME media > 0 PROVE run # {}
  <2> HIDE DEF run
  <2>1. SUFFICES ASSUME run = {} PROVE FALSE
    OBVIOUS
  <2>2. f..(q - 1) = {} /\ b = 0
    <3>1. f..(q - 1) = {}
      BY <1>7, <2>1, Zenon
    <3>2. ~ (b > 0)
      <4>1. b > 0 => q \in DOMAIN disk
        BY <1>4
      <4>2. q \in DOMAIN disk /\ b > 0 => q \in run
        BY <1>7
      <4> QED
        BY <2>1, <4>1, <4>2
    <3>3. b \in Nat
      BY <1>4
    <3> QED
      BY <3>1, <3>2, <3>3
  <2>3. q = f
    BY <1>2, <2>2
  <2> QED
    <3>1. origin = start_ms(q) /\ origin \in Int
      BY <1>2, <1>5, <2>3
    <3> QED
      BY <1>2, <1>3, <1>13, <2>2, <3>1
<1>14. run \in SUBSET DOMAIN ledger'
  BY <1>1
<1> QED
  <2>1. total_bytes([s \in ThisRun |-> ledger[s]])' = total_bytes([s \in ThisRun |-> ledger[s]]')
    OBVIOUS
  <2>2. media > 0 => \E s \in DOMAIN ledger' : FirstSeq <= s
    BY <1>13, <1>14 DEF f
  <2> QED
    BY <1>6, <1>12, <2>1, <2>2

\* A name for each track, as audio_titles gives them.
LEMMA TitlesForTracks ==
    ASSUME NEW n \in {1, 2}
    PROVE  Len(audio_titles(n)) = n
<1>1. Min({n, 2}) = n
  <2>1. \A x \in {n, 2} : (\A y \in {n, 2} : x <= y) <=> x = n
    OBVIOUS
  <2> QED
    BY <2>1 DEF Min
<1>2. audio_titles(n) = SubSeq(<<GAME_AUDIO_TITLE, MICROPHONE_TITLE>>, 1, n)
  BY <1>1 DEF audio_titles
<1> DEFINE both == <<GAME_AUDIO_TITLE, MICROPHONE_TITLE>>
<1>3. both \in Seq({GAME_AUDIO_TITLE, MICROPHONE_TITLE}) /\ Len(both) = 2
  OBVIOUS
<1> HIDE DEF both
<1>4. Len(SubSeq(both, 1, n)) = n
  BY <1>3
<1> QED
  BY <1>2, <1>4 DEF both

\* What finalise copies is the whole ledger, probed afterwards or not; or it
\* keeps the segments and leaves no file.
LEMMA TheFileIsOfTheRun ==
    ASSUME FilesInv, SegmentsInv, Saving, Finalise
    PROVE  Saving'
<1> DEFINE seqs == InOrder(DOMAIN ledger)
           files == [i \in DOMAIN seqs |-> disk[seqs[i]]]
<1>1. /\ session = "indexed"
      /\ UNCHANGED <<disk, ledger, origin, child, media>>
      /\ \/ seqs = <<>> /\ session' = "empty" /\ out' = out
         \/ /\ seqs # <<>> /\ session' \in {"copied", "kept"} /\ check_concat_layout(files)
            /\ out' = [seqs |-> seqs, titles |-> ConcatTracks(files)]
         \/ session' = "kept" /\ out' = NoFile
  BY DEF Finalise
<1>2. /\ total_bytes([s \in ThisRun |-> ledger[s]]) = media /\ out = NoFile
      /\ media > 0 => \E s \in DOMAIN ledger : FirstSeq <= s
  BY <1>1 DEF Saving
<1>3. /\ (total_bytes([s \in ThisRun |-> ledger[s]]) = media)'
      /\ FirstSeq' = FirstSeq /\ InOrder(DOMAIN ledger)' = seqs
  <2>1. ThisRun' = ThisRun
    BY <1>1 DEF ThisRun, start_ms
  <2>2. [s \in ThisRun |-> ledger[s]]' = [s \in ThisRun |-> ledger[s]]
    BY <1>1, <2>1
  <2> QED
    BY <1>1, <1>2, <2>2 DEF FirstSeq
<1>4. /\ IsFiniteSet(DOMAIN ledger) /\ DOMAIN ledger \in SUBSET Nat /\ media \in Nat
      /\ DOMAIN seqs = 1..Cardinality(DOMAIN ledger) /\ Len(seqs) = Cardinality(DOMAIN ledger)
      /\ \A s \in DOMAIN ledger : \E i \in DOMAIN seqs : seqs[i] = s
  <2>1. IsFiniteSet(DOMAIN ledger) /\ DOMAIN ledger \in SUBSET Nat /\ media \in Nat
    BY DEF SegmentsInv, NumbersTyped
  <2> QED
    BY <2>1, NumbersInOrder
<1> HIDE DEF seqs
<1>5. CASE seqs = <<>> /\ session' = "empty" /\ out' = out
  <2>1. media = 0
    <3>1. \A s \in DOMAIN ledger : FALSE
      BY <1>4, <1>5
    <3> QED
      BY <1>2, <1>4, <3>1
  <2> QED
    BY <1>1, <1>2, <1>3, <1>5, <2>1 DEF Saving, NoFile
<1>6. CASE session' = "kept" /\ out' = NoFile
  BY <1>1, <1>2, <1>3, <1>6 DEF Saving, NoFile
<1>7. CASE /\ seqs # <<>> /\ session' \in {"copied", "kept"} /\ check_concat_layout(files)
           /\ out' = [seqs |-> seqs, titles |-> ConcatTracks(files)]
  <2>1. out' # NoFile /\ out'.seqs = seqs /\ out'.titles = audio_titles(files[1].audio)
    BY <1>7 DEF NoFile, ConcatTracks
  <2>2. ASSUME media # 0 PROVE Len(out'.titles) = child.audio
    <3>1. PICK s \in DOMAIN ledger : FirstSeq <= s
      BY <1>2, <1>4, <2>2
    <3>2. s \in DOMAIN disk /\ disk[s].audio = child.audio /\ child.audio \in {1, 2}
      <4>1. s \in DOMAIN disk
        BY <1>1 DEF FilesInv, LedgerIsOnDisk
      <4> QED
        BY <1>1, <3>1, <4>1 DEF SegmentsInv, SegmentsHold, NumbersTyped
    <3>3. PICK i \in DOMAIN seqs : seqs[i] = s
      BY <1>4
    <3>4. Layout(files[i]) = Layout(files[1])
      BY <1>7, <3>3 DEF check_concat_layout
    <3>5. files[i].audio = files[1].audio
      BY <3>4 DEF Layout
    <3>6. files[i] = disk[s]
      BY <3>3
    <3>7. files[1].audio = child.audio
      BY <3>2, <3>5, <3>6
    <3> QED
      BY <2>1, <3>2, <3>7, TitlesForTracks
  <2>3. out' # NoFile => (out.seqs = InOrder(DOMAIN ledger))' /\ (Len(out.titles) = child.audio \/ media = 0)'
    BY <1>1, <1>3, <2>1, <2>2
  <2> QED
    BY <1>1, <1>2, <1>3, <1>7, <2>1, <2>3 DEF Saving
<1> QED
  BY <1>1, <1>5, <1>6, <1>7

\* Every step keeps the promise of the file.
LEMMA SavingStep ==
    ASSUME FilesInv, SegmentsInv, Saving, FilesNext
    PROVE  Saving'
<1>1. CASE OpenSegment \/ WriteMedia \/ EncoderHangs \/ Scan \/ TakeClip \/ WaitInVain
           \/ PostRollArrives \/ PostRollExpires \/ StopRecording \/ FlushEncoder
  <2>1. out' = out /\ session \in {"running", "stopping"} /\ session' \in {"running", "stopping", "flushed"}
    BY <1>1, ALiveEncoderRuns DEF OpenSegment, WriteMedia, EncoderHangs, Scan, TakeClip, WaitInVain,
       PostRollArrives, PostRollExpires, StopRecording, FlushEncoder
  <2> QED
    BY <2>1 DEF Saving, NoFile
<1>2. CASE SpliceEnds
  <2>1. UNCHANGED <<disk, ledger, origin, child, media, session, out>>
    BY <1>2 DEF SpliceEnds
  <2>2. ThisRun' = ThisRun /\ FirstSeq' = FirstSeq
    BY <2>1 DEF ThisRun, FirstSeq, start_ms
  <2>3. [s \in ThisRun |-> ledger[s]]' = [s \in ThisRun |-> ledger[s]]
    BY <2>1, <2>2
  <2>4. total_bytes([s \in ThisRun |-> ledger[s]])' = total_bytes([s \in ThisRun |-> ledger[s]])
        /\ InOrder(DOMAIN ledger)' = InOrder(DOMAIN ledger)
    BY <2>1, <2>3
  <2> QED
    BY <2>1, <2>2, <2>4 DEF Saving, NoFile
<1>3. CASE IndexAll
  <2>1. session' = "indexed" /\ out' = out /\ out = NoFile /\ media' = media /\ origin' = origin
    BY <1>3 DEF IndexAll, Saving
  <2>2. FirstSeq' = FirstSeq
    BY <2>1 DEF FirstSeq
  <2>3. (total_bytes([s \in ThisRun |-> ledger[s]]) = media)' /\ (media > 0 => \E s \in DOMAIN ledger : FirstSeq <= s)'
    BY <1>3, <2>1, <2>2, TheRunIsSummed
  <2> QED
    BY <2>1, <2>3 DEF Saving, NoFile
<1>4. CASE Finalise
  BY <1>4, TheFileIsOfTheRun
<1>5. CASE RemoveSegments
  <2>1. UNCHANGED <<ledger, origin, child, media, out>> /\ session \in {"copied", "empty"}
        /\ session' \in {"finished", "kept"}
    BY <1>5 DEF RemoveSegments
  <2>2. ThisRun' = ThisRun /\ FirstSeq' = FirstSeq
    BY <2>1 DEF ThisRun, FirstSeq, start_ms
  <2>3. [s \in ThisRun |-> ledger[s]]' = [s \in ThisRun |-> ledger[s]]
    BY <2>1, <2>2
  <2>4. total_bytes([s \in ThisRun |-> ledger[s]])' = total_bytes([s \in ThisRun |-> ledger[s]])
        /\ InOrder(DOMAIN ledger)' = InOrder(DOMAIN ledger)
    BY <2>1, <2>3
  <2>5. session = "empty" => ~ media > 0
    BY DEF Saving
  <2> QED
    BY <2>1, <2>2, <2>4, <2>5 DEF Saving, NoFile
<1> QED
  BY <1>1, <1>2, <1>3, <1>4, <1>5 DEF FilesNext

\* The invariant says what the session file has to be.
LEMMA TheFileIsTheRecording == SegmentsInv /\ Saving => SessionFileIsTheRecording
<1> SUFFICES ASSUME SegmentsInv, Saving PROVE SessionFileIsTheRecording
  OBVIOUS
<1>1. out # NoFile => session \in {"indexed", "copied", "empty", "kept", "finished"}
  BY DEF Saving, SegmentsInv, NumbersTyped, Endings
<1> QED
  BY <1>1 DEF Saving, SessionFileIsTheRecording, ThisRun

-----------------------------------------------------------------------------
(* The clips.                                                               *)

ClipStages == {"waiting", "refused", "splicing", "expired", "cut", "failed", "lost"}
Chapter == [start : Nat, end : Nat]
Clip == [stage : ClipStages, waited : Nat, asked : Nat, trigger : Nat, pre : Nat, post : Nat,
         window : Seq(Nat), short : BOOLEAN, marks : Seq(Chapter)]

\* What of the state a clip is held against.
World == [session |-> session, state |-> child.state, next |-> child.seq, media |-> media,
          known |-> DOMAIN ledger, start |-> origin, files |-> disk]

\* The files a window names.
FilesOf(window, files) == [k \in DOMAIN window |-> files[window[k]]]

\* ClipCovers, for a run that starts at start and a ledger whose first is first.
Covers(c, start, first) ==
    LET at == start + c.trigger
        from == start_ms(c.window[1])
        to == end_ms(Last(c.window))
    IN /\ c.stage \in {"splicing", "cut"} =>
            /\ \A i \in 1..(Len(c.window) - 1) : c.window[i + 1] = c.window[i] + 1
            /\ to >= at + c.post
            /\ from <= at - c.pre \/ (c.short /\ c.window[1] = first)
            /\ c.post > SEG => start + c.asked <= to
       /\ c.stage = "cut" /\ c.marks # <<>> =>
            /\ c.marks[1].start = 0 /\ Last(c.marks).end = to - from
            /\ \A m \in Range(c.marks) : m.start < m.end

\* A clip that waits asked for footage the ledger lags behind by a segment.
ClipWaits(c, w) == c.stage = "waiting" =>
    /\ w.session = "running"
    /\ c.trigger <= c.asked /\ c.asked <= c.trigger + SEG + 1
    /\ w.state = "running" => w.media = c.asked + c.waited
\* A clip with a window has files that are in the ledger and closed.
ClipIsFramed(c, w) == c.stage \in {"splicing", "cut", "lost"} =>
    /\ c.window # <<>>
    /\ \A k \in DOMAIN c.window : c.window[k] \in w.known /\ c.window[k] < w.next
\* A clip being cut belongs to a session that goes on; its window has no gap.
ClipIsSpliced(c, w) == c.stage = "splicing" =>
    /\ w.session \in {"running", "stopping"}
    /\ Len(c.window) = Last(c.window) - c.window[1] + 1
\* A clip is given up only behind a dead encoder ...
ClipIsGivenUp(c, w) == c.stage = "expired" => w.state # "running"
\* ... and lost only with footage of an earlier run, which then also keeps the
\* session from being saved in one file.
ClipIsLost(c, w) == c.stage = "lost" =>
    /\ w.session \notin {"copied", "empty", "finished"}
    /\ \E k \in DOMAIN c.window : w.files[c.window[k]].old
    /\ ~ check_concat_layout(FilesOf(c.window, w.files))
ClipIs(c, w) ==
    /\ ClipWaits(c, w) /\ ClipIsFramed(c, w) /\ ClipIsSpliced(c, w) /\ ClipIsGivenUp(c, w)
    /\ ClipIsLost(c, w) /\ Covers(c, w.start, Min(w.known))

ClipsAre ==
    /\ clips \in Seq(Clip)
    /\ \A i \in DOMAIN clips : ClipIs(clips[i], World) /\ (clips[i].stage = "waiting" => i = Len(clips))

\* How the state may move under a clip.
Moves(w, v) ==
    /\ v.start = w.start
    /\ w.next \in Int /\ v.next \in Int /\ w.next <= v.next
    /\ w.known \subseteq v.known /\ w.known \subseteq Nat
    /\ w.known # {} => Min(v.known) = Min(w.known)
    /\ v.state = "running" => w.state = "running"
    /\ v.session # "finished" => \A s \in w.known : s < w.next => v.files[s] = w.files[s]

\* A clip is what it was while the state moves under it.
LEMMA AClipStays ==
    ASSUME NEW w, NEW v, Moves(w, v), NEW c \in Clip, ClipIs(c, w),
           c.stage = "waiting" => v.session = w.session /\ v.media = w.media,
           c.stage = "splicing" => v.session \in {"running", "stopping"},
           c.stage = "lost" => v.session \notin {"copied", "empty", "finished"}
    PROVE  ClipIs(c, v)
<1>1. ClipIsFramed(c, w) /\ ClipIsLost(c, w) /\ Covers(c, w.start, Min(w.known))
  BY DEF ClipIs
<1>2. ClipWaits(c, v) /\ ClipIsSpliced(c, v) /\ ClipIsGivenUp(c, v)
  BY DEF ClipIs, Moves, ClipWaits, ClipIsSpliced, ClipIsGivenUp
<1>3. c.window \in Seq(Nat)
  BY DEF Clip
<1>4. ClipIsFramed(c, v)
  <2> SUFFICES ASSUME c.stage \in {"splicing", "cut", "lost"}, NEW k \in DOMAIN c.window
               PROVE  c.window[k] \in v.known /\ c.window[k] < v.next
    BY <1>1 DEF ClipIsFramed
  <2>1. c.window[k] \in w.known /\ c.window[k] < w.next /\ c.window[k] \in Nat
    BY <1>1, <1>3 DEF ClipIsFramed
  <2> QED
    BY <2>1 DEF Moves
<1>5. ClipIsLost(c, v)
  <2> SUFFICES ASSUME c.stage = "lost"
               PROVE  ClipIsLost(c, v)
    BY DEF ClipIsLost
  <2>1. \A k \in DOMAIN c.window : v.files[c.window[k]] = w.files[c.window[k]]
    BY <1>1 DEF ClipIsFramed, Moves
  <2>2. FilesOf(c.window, v.files) = FilesOf(c.window, w.files)
    BY <2>1 DEF FilesOf
  <2> QED
    BY <1>1, <2>1, <2>2 DEF ClipIsLost
<1>6. Covers(c, v.start, Min(v.known))
  <2>1. CASE c.stage \in {"splicing", "cut", "lost"}
    <3>1. 1 \in DOMAIN c.window
      BY <1>1, <1>3, <2>1 DEF ClipIsFramed
    <3>2. w.known # {}
      BY <1>1, <2>1, <3>1 DEF ClipIsFramed
    <3> QED
      BY <1>1, <3>2 DEF Moves
  <2>2. CASE c.stage \notin {"splicing", "cut", "lost"}
    BY <2>2 DEF Covers
  <2> QED
    BY <2>1, <2>2
<1> QED
  BY <1>2, <1>4, <1>5, <1>6 DEF ClipIs

-----------------------------------------------------------------------------
\* A member that exceeds no other is the minimum.
LEMMA SmallestIsMin ==
    ASSUME NEW S \in SUBSET Int, NEW m \in S, \A s \in S : m <= s
    PROVE  Min(S) = m
<1>1. \A x \in S : x \in Int
  OBVIOUS
<1>2. \A x \in S : (\A y \in S : x <= y) <=> x = m
  BY <1>1
<1> QED
  BY <1>2 DEF Min

\* A set that grows past its end keeps its least number.
LEMMA TheFirstStays ==
    ASSUME NEW S \in SUBSET Nat, NEW T \in SUBSET Nat, IsFiniteSet(S), S # {}, S \subseteq T,
           \A x \in T : x \in S \/ \A s \in S : s <= x
    PROVE  Min(T) = Min(S)
<1> DEFINE m == InOrder(S)[1]
<1>1. m \in S /\ Min(S) = m /\ \A s \in S : m <= s
  BY FirstAndLast
<1> HIDE DEF m
<1>2. m \in T /\ \A x \in T : m <= x
  BY <1>1
<1>3. T \in SUBSET Int
  OBVIOUS
<1> QED
  BY <1>1, <1>2, <1>3, SmallestIsMin

\* Every step moves the state so.
LEMMA TheWorldMoves ==
    ASSUME FilesInv, SegmentsInv, FilesNext
    PROVE  Moves(World, World')
<1>1. /\ child.seq \in Nat /\ DOMAIN ledger \in SUBSET Nat /\ IsFiniteSet(DOMAIN ledger)
      /\ DOMAIN ledger \subseteq Nat
  BY DEF SegmentsInv, NumbersTyped
<1> DEFINE Good ==
      /\ origin' = origin
      /\ child'.seq \in Int /\ child.seq \in Int /\ child.seq <= child'.seq
      /\ DOMAIN ledger \subseteq DOMAIN ledger' /\ DOMAIN ledger \subseteq Nat
      /\ DOMAIN ledger # {} => Min(DOMAIN ledger') = Min(DOMAIN ledger)
      /\ child'.state = "running" => child.state = "running"
      /\ session' # "finished" => \A s \in DOMAIN ledger : s < child.seq => disk'[s] = disk[s]
<1>2. SUFFICES Good
  BY <1>2 DEF World, Moves
<1>3. ASSUME disk' = disk, ledger' = ledger, origin' = origin, child'.seq = child.seq,
             child'.state = "running" => child.state = "running"
      PROVE  Good
  BY <1>1, <1>3
<1>4. CASE OpenSegment
  <2>1. /\ ledger' = ledger /\ origin' = origin /\ child.state = "running"
        /\ child' = [child EXCEPT !.open = TRUE]
        /\ DOMAIN disk' = DOMAIN disk \cup {child.seq}
        /\ \A s \in DOMAIN disk : s # child.seq => disk'[s] = disk[s]
    BY <1>4 DEF OpenSegment
  <2>2. child'.seq = child.seq /\ child'.state = child.state
    BY <2>1 DEF FilesInv, FilesTyped
  <2>3. \A s \in DOMAIN ledger : s \in DOMAIN disk
    BY <2>1 DEF FilesInv, WritesPastTheRest
  <2>4. \A s \in DOMAIN ledger : s < child.seq => disk'[s] = disk[s]
    BY <1>1, <2>1, <2>3
  <2> QED
    BY <1>1, <2>1, <2>2, <2>4
<1>5. CASE WriteMedia
  <2>1. /\ ledger' = ledger /\ origin' = origin /\ child.state = "running"
        /\ \/ child' = child
           \/ child' = [child EXCEPT !.seq = child.seq + 1, !.open = FALSE]
    BY <1>5 DEF WriteMedia
  <2>2. child'.state = child.state /\ child'.seq \in {child.seq, child.seq + 1}
    BY <2>1 DEF FilesInv, FilesTyped
  <2>3. \A s \in DOMAIN disk : s # child.seq => disk'[s] = disk[s]
    BY <1>5 DEF WriteMedia
  <2>4. \A s \in DOMAIN ledger : s \in DOMAIN disk
    BY <2>1 DEF FilesInv, WritesPastTheRest
  <2>5. \A s \in DOMAIN ledger : s < child.seq => disk'[s] = disk[s]
    BY <1>1, <2>3, <2>4
  <2>6. child'.seq \in Int /\ child.seq \in Int /\ child.seq <= child'.seq
    BY <1>1, <2>2
  <2> QED
    BY <1>1, <2>1, <2>2, <2>5, <2>6
<1>6. CASE Scan
  <2> DEFINE found == newly_complete(observed_seqs, highest)
  <2>1. /\ disk' = disk /\ child' = child /\ origin' = origin /\ session = "running"
        /\ DOMAIN ledger' = DOMAIN ledger \cup found
    BY <1>6 DEF Scan, scan, push
  <2>2. \A s \in found : s \in DOMAIN disk /\ s > highest
    BY DEF newly_complete, observed_seqs
  <2>3. DOMAIN disk \in SUBSET Nat /\ highest \in Int /\ \A s \in DOMAIN ledger : s <= highest
    BY <2>1 DEF SegmentsInv, NumbersTyped, LedgerFollows
  <2> HIDE DEF found
  <2>4. /\ DOMAIN ledger' \in SUBSET Nat /\ DOMAIN ledger \subseteq DOMAIN ledger'
        /\ \A x \in DOMAIN ledger' : x \in DOMAIN ledger \/ \A s \in DOMAIN ledger : s <= x
    BY <1>1, <2>1, <2>2, <2>3
  <2>5. DOMAIN ledger # {} => Min(DOMAIN ledger') = Min(DOMAIN ledger)
    BY <1>1, <2>4, TheFirstStays
  <2> QED
    BY <1>1, <2>1, <2>4, <2>5
<1>7. CASE IndexAll
  <2>1. /\ disk' = disk /\ child' = child /\ origin' = origin /\ session = "flushed"
        /\ DOMAIN ledger' = DOMAIN ledger \cup segments_on_disk
    BY <1>7 DEF IndexAll, scan_all, push
  <2>2. segments_on_disk \subseteq DOMAIN disk
    BY DEF segments_on_disk, observed_seqs
  <2>3. /\ DOMAIN disk \in SUBSET Nat /\ highest \in Int /\ \A s \in DOMAIN ledger : s <= highest
        /\ \A s \in DOMAIN disk : s <= highest => s \in DOMAIN ledger
    BY <2>1 DEF SegmentsInv, NumbersTyped, LedgerFollows
  <2>4. /\ DOMAIN ledger' \in SUBSET Nat /\ DOMAIN ledger \subseteq DOMAIN ledger'
        /\ \A x \in DOMAIN ledger' : x \in DOMAIN ledger \/ \A s \in DOMAIN ledger : s <= x
    BY <1>1, <2>1, <2>2, <2>3
  <2>5. DOMAIN ledger # {} => Min(DOMAIN ledger') = Min(DOMAIN ledger)
    BY <1>1, <2>4, TheFirstStays
  <2> QED
    BY <1>1, <2>1, <2>4, <2>5
<1>8. CASE TakeClip \/ WaitInVain \/ PostRollArrives \/ PostRollExpires \/ SpliceEnds \/ Finalise
  <2>1. disk' = disk /\ ledger' = ledger /\ origin' = origin /\ child' = child
    BY <1>8 DEF TakeClip, WaitInVain, PostRollArrives, PostRollExpires, SpliceEnds, Finalise
  <2> QED
    BY <1>3, <2>1
<1>9. CASE EncoderHangs \/ StopRecording
  <2>1. /\ disk' = disk /\ ledger' = ledger /\ origin' = origin
        /\ \/ child' = child
           \/ child' = [child EXCEPT !.state = "hung"] \/ child' = [child EXCEPT !.state = "dead"]
    BY <1>9 DEF EncoderHangs, StopRecording
  <2>2. child'.seq = child.seq /\ (child'.state = "running" => child.state = "running")
    BY <2>1 DEF FilesInv, FilesTyped
  <2> QED
    BY <1>3, <2>1, <2>2
<1>10. CASE FlushEncoder
  <2>1. /\ ledger' = ledger /\ origin' = origin /\ child' = [child EXCEPT !.state = "gone"]
        /\ disk' = disk \/ disk' = [disk EXCEPT ![child.seq].whole = TRUE]
    BY <1>10 DEF FlushEncoder
  <2>2. child'.seq = child.seq /\ child'.state = "gone"
    BY <2>1 DEF FilesInv, FilesTyped
  <2>3. \A s \in DOMAIN ledger : s < child.seq => disk'[s] = disk[s]
    <3>1. session # "finished"
      BY <1>10 DEF FlushEncoder
    <3>2. \A s \in DOMAIN ledger : s \in DOMAIN disk
      BY <3>1 DEF FilesInv, LedgerIsOnDisk
    <3>3. \A s \in DOMAIN disk : s # child.seq => disk'[s] = disk[s]
      BY <2>1
    <3> QED
      BY <1>1, <3>2, <3>3
  <2> QED
    BY <1>1, <2>1, <2>2, <2>3
<1>11. CASE RemoveSegments
  <2>1. /\ ledger' = ledger /\ origin' = origin /\ child' = child
        /\ session' = "finished" \/ disk' = disk
    BY <1>11 DEF RemoveSegments
  <2> QED
    BY <1>1, <2>1
<1> QED
  BY <1>4, <1>5, <1>6, <1>7, <1>8, <1>9, <1>10, <1>11 DEF FilesNext

\* A later segment neither starts nor ends before an earlier one.
LEMMA SegmentsAreOrdered ==
    ASSUME NEW a \in Nat, NEW b \in Nat, a <= b
    PROVE  start_ms(a) <= start_ms(b) /\ end_ms(a) <= end_ms(b)
<1>1. a \in Int /\ b \in Int /\ SEG \in Nat
  BY SessionFilesAssumption
<1>2. /\ start_ms(a) \in Int /\ end_ms(a) = start_ms(a) + SEG
      /\ start_ms(b) \in Int /\ end_ms(b) = start_ms(b) + SEG
      /\ a < b => end_ms(a) <= start_ms(b)
  BY <1>1, SegmentsFollow
<1> QED
  BY <1>1, <1>2

\* A window without a gap, from the pre-roll or the first of the segments to the
\* post-roll.
WindowFrames(w, L, at, pre, post) ==
    /\ \A k \in DOMAIN w : w[k] \in L
    /\ \A i \in 1..(Len(w) - 1) : w[i + 1] = w[i] + 1
    /\ Len(w) = Last(w) - w[1] + 1
    /\ end_ms(Last(w)) >= at + post
    /\ start_ms(w[1]) <= at - pre \/ (at < pre + start_ms(Min(L)) /\ w[1] = Min(L))

\* The segments that overlap what was asked for cover it, in a ledger that
\* reaches the end of the post-roll and has no gap.
LEMMA TheWindowCovers ==
    ASSUME NEW L \in SUBSET Nat, IsFiniteSet(L), \A i, j \in L : i..j \subseteq L,
           NEW at \in Nat, NEW pre \in Nat, NEW post \in Nat, NEW start \in Int,
           start >= 0, start > 0 => start = at - pre,
           NEW S \in SUBSET L, \A s \in L : s \in S <=> end_ms(s) > start /\ start_ms(s) < at + post, S # {},
           end_ms(Max(L)) >= at + post,
           NEW w, w = InOrder(S)
    PROVE  WindowFrames(w, L, at, pre, post)
<1> DEFINE f == w[1]
           l == Last(w)
           z == Min(L)
           m == Max(L)
<1>1. S \in SUBSET L /\ S \in SUBSET Nat /\ IsFiniteSet(S)
  BY FS_Subset
<1>2. L # {} /\ \A s \in L : s \in Nat
  OBVIOUS
<1>3. m \in L /\ z \in L /\ \A s \in L : z <= s /\ s <= m
  BY <1>2, FirstAndLast
<1>4. w \in Seq(Nat) /\ w # <<>> /\ f \in S /\ l \in S /\ \A s \in S : f <= s /\ s <= l
  BY <1>1, FirstAndLast
<1>5. \A k \in DOMAIN w : w[k] \in L
  <2>1. \A k \in DOMAIN w : w[k] \in S
    BY <1>1, NumbersInOrder
  <2> QED
    BY <1>1, <2>1
<1> HIDE DEF f, l, z, m
<1>6. SEG \in Nat /\ SEG > 0 /\ \A s \in L : start_ms(s) \in Nat /\ end_ms(s) = start_ms(s) + SEG
  <2>1. SEG \in Nat /\ SEG > 0
    BY SessionFilesAssumption
  <2>2. ASSUME NEW s \in L PROVE start_ms(s) \in Nat /\ end_ms(s) = start_ms(s) + SEG
    <3>1. s \in Int /\ s \in Nat
      BY <1>2
    <3> QED
      BY <3>1, SegmentsFollow
  <2> QED
    BY <2>1, <2>2
<1>7. \A s \in L : s \in S <=> end_ms(s) > start /\ start_ms(s) < at + post
  OBVIOUS
<1>8. \A i, j \in S : i..j \subseteq S
  <2> SUFFICES ASSUME NEW i \in S, NEW j \in S, NEW x \in i..j PROVE x \in S
    OBVIOUS
  <2>1. i \in L /\ j \in L /\ i \in Nat /\ j \in Nat
    BY <1>1, <1>2
  <2>2. x \in L /\ x \in Nat /\ i <= x /\ x <= j
    BY <2>1
  <2>3. end_ms(i) <= end_ms(x) /\ start_ms(x) <= start_ms(j)
    BY <2>1, <2>2, SegmentsAreOrdered
  <2>4. end_ms(i) > start /\ start_ms(j) < at + post
    BY <1>7, <2>1
  <2>5. end_ms(x) > start /\ start_ms(x) < at + post
    <3>1. end_ms(i) \in Int /\ end_ms(x) \in Int /\ start_ms(x) \in Int /\ start_ms(j) \in Int
      BY <1>6, <2>1, <2>2
    <3> QED
      BY ONLY <2>3, <2>4, <3>1, start \in Int, at \in Nat, post \in Nat
  <2> QED
    BY <1>7, <2>2, <2>5
<1>9. (\A i \in 1..(Len(w) - 1) : w[i + 1] = w[i] + 1) /\ Len(w) = Last(w) - w[1] + 1
  BY <1>1, <1>8, WithoutAGap
<1>10. f \in L /\ l \in L /\ f \in Nat /\ l \in Nat /\ m \in Nat /\ z \in Nat /\ l <= m /\ z <= f
  BY <1>1, <1>2, <1>3, <1>4
<1>11. end_ms(l) >= at + post
  <2>1. CASE l = m
    BY <2>1 DEF m
  <2>2. CASE l # m
    <3>1. l + 1 \in l..m /\ l + 1 \in Nat /\ l < l + 1
      BY <1>10, <2>2
    <3>2. l + 1 \in L /\ l + 1 \notin S
      <4>1. l + 1 \in L
        BY <1>3, <1>10, <3>1
      <4>2. ~ (l + 1 <= l)
        BY <1>10
      <4> QED
        BY <1>4, <4>1, <4>2
    <3>3. end_ms(l) = start_ms(l + 1) /\ end_ms(l) <= end_ms(l + 1)
      <4>1. l \in Int
        BY <1>10
      <4>2. end_ms(l) = start_ms(l + 1)
        BY <4>1, SegmentsFollow
      <4>3. end_ms(l) <= end_ms(l + 1)
        BY <1>10, <3>1, SegmentsAreOrdered
      <4> QED
        BY <4>2, <4>3
    <3>4. end_ms(l) > start
      BY <1>4, <1>7, <1>10
    <3>5. end_ms(l + 1) > start
      <4>1. end_ms(l) \in Int /\ end_ms(l + 1) \in Int
        BY <1>6, <1>10, <3>2
      <4> QED
        BY ONLY <3>3, <3>4, <4>1, start \in Int
    <3>6. ~ (start_ms(l + 1) < at + post)
      BY <1>7, <3>2, <3>5
    <3>7. start_ms(l + 1) \in Int
      <4>1. l + 1 \in Int
        BY <1>10
      <4> QED
        BY <4>1, SegmentsFollow
    <3> QED
      BY ONLY <3>3, <3>6, <3>7, at \in Nat, post \in Nat
  <2> QED
    BY <2>1, <2>2
<1>12. start_ms(f) <= at - pre \/ (at < pre + start_ms(z) /\ f = z)
  <2>1. CASE f = z
    <3>1. start_ms(z) \in Int
      BY <1>3, <1>6
    <3> QED
      BY ONLY <2>1, <3>1, at \in Nat, pre \in Nat
  <2>2. CASE f # z
    <3>1. f - 1 \in z..f /\ f - 1 \in Nat /\ f - 1 \in Int /\ f - 1 < f /\ (f - 1) + 1 = f
      BY <1>10, <2>2
    <3>2. f - 1 \in L /\ f - 1 \notin S
      <4>1. f - 1 \in L
        BY <1>3, <1>10, <3>1
      <4>2. ~ (f <= f - 1)
        BY <1>10
      <4> QED
        BY <1>4, <4>1, <4>2
    <3>3. end_ms(f - 1) = start_ms(f) /\ start_ms(f - 1) <= start_ms(f)
      <4>1. end_ms(f - 1) = start_ms((f - 1) + 1)
        BY <3>1, SegmentsFollow
      <4>2. start_ms(f - 1) <= start_ms(f)
        BY <1>10, <3>1, SegmentsAreOrdered
      <4> QED
        BY <3>1, <4>1, <4>2
    <3>4. start_ms(f) < at + post
      BY <1>4, <1>7, <1>10
    <3>5. start_ms(f - 1) \in Nat /\ start_ms(f) \in Nat /\ end_ms(f - 1) = start_ms(f - 1) + SEG
      BY <1>6, <1>10, <3>2
    <3>6. start_ms(f - 1) < at + post
      BY ONLY <3>3, <3>4, <3>5, at \in Nat, post \in Nat
    <3>7. ~ (end_ms(f - 1) > start)
      BY <1>7, <3>2, <3>6
    <3>8. SEG \in Nat /\ SEG > 0
      BY <1>6
    <3> QED
      BY ONLY <3>3, <3>5, <3>7, <3>8, at \in Nat, pre \in Nat, start \in Int, start >= 0, start > 0 => start = at - pre
  <2> QED
    BY <2>1, <2>2
<1> QED
  BY <1>5, <1>9, <1>11, <1>12 DEF WindowFrames, f, l, z, m

-----------------------------------------------------------------------------
\* ffmetadata: the chapters follow one another from 0 to the end of the clip.
LEMMA TheChaptersTile ==
    ASSUME NEW C \in SUBSET Nat, IsFiniteSet(C), NEW d \in Nat
    PROVE  LET m == ffmetadata(C, d)
           IN  /\ m \in Seq(Chapter)
               /\ m # <<>> => m[1].start = 0 /\ Last(m).end = d /\ \A x \in Range(m) : x.start < x.end
<1> DEFINE kept == {c \in C : c < d}
           T == IF kept = {} THEN {} ELSE {0} \cup kept
           all == InOrder(T)
           m == ffmetadata(C, d)
<1>1. m = [i \in DOMAIN all |-> [start |-> all[i], end |-> IF i < Len(all) THEN all[i + 1] ELSE d]]
  BY DEF ffmetadata
<1>2. T \in SUBSET Nat /\ IsFiniteSet(T) /\ \A t \in T : t \in Nat /\ t < d
  <2>1. kept \in SUBSET C
    OBVIOUS
  <2>2. IsFiniteSet(kept) /\ IsFiniteSet({}) /\ IsFiniteSet(kept \cup {0})
    BY <2>1, FS_Subset, FS_EmptySet, FS_AddElement
  <2>3. ASSUME kept # {} PROVE 0 < d
    <3>1. PICK c \in kept : TRUE
      BY <2>3
    <3>2. c \in Nat /\ c < d
      BY <3>1
    <3> QED
      BY <3>2
  <2>4. \A c \in kept : c \in Nat /\ c < d
    OBVIOUS
  <2> HIDE DEF kept
  <2>5. CASE kept = {}
    BY <2>2, <2>5
  <2>6. CASE kept # {}
    <3>1. T = kept \cup {0} /\ 0 \in Nat /\ 0 < d
      BY <2>3, <2>6
    <3> HIDE DEF T
    <3>2. \A t \in T : t \in Nat /\ t < d
      BY <2>4, <3>1
    <3> QED
      BY <2>2, <3>1, <3>2
  <2> QED
    BY <2>5, <2>6
<1>3. T # {} => 0 \in T
  OBVIOUS
<1> HIDE DEF T
<1> DEFINE n == Len(all)
<1>4. /\ all \in Seq(Nat) /\ n \in Nat /\ DOMAIN all = 1..n
      /\ \A i \in 1..n : all[i] \in T
      /\ \A i, j \in 1..n : i < j => all[i] < all[j]
      /\ \A t \in T : \E i \in 1..n : all[i] = t
  BY <1>2, NumbersInOrder
<1>5. T # {} => all[1] \in T /\ \A t \in T : all[1] <= t
  BY <1>2, FirstAndLast
<1> HIDE DEF all, n, m
<1>6. \A i \in 1..n : all[i] \in Nat /\ all[i] < d
  BY <1>2, <1>4
<1>7. ASSUME NEW i \in 1..n
      PROVE  /\ m[i] = [start |-> all[i], end |-> IF i < n THEN all[i + 1] ELSE d]
             /\ m[i] \in Chapter /\ m[i].start < m[i].end
             /\ m[i].start = all[i] /\ (i = n => m[i].end = d)
  <2>1. m[i] = [start |-> all[i], end |-> IF i < n THEN all[i + 1] ELSE d]
    BY <1>1, <1>4 DEF n
  <2>2. CASE i < n
    <3>1. i + 1 \in 1..n /\ i < i + 1
      BY <1>4, <2>2
    <3>2. all[i + 1] \in Nat /\ all[i] \in Nat /\ all[i] < all[i + 1]
      BY <1>4, <1>6, <3>1
    <3> QED
      BY <2>1, <2>2, <3>2 DEF Chapter
  <2>3. CASE ~ (i < n)
    <3>1. all[i] \in Nat /\ all[i] < d
      BY <1>6
    <3> QED
      BY <2>1, <2>3, <3>1 DEF Chapter
  <2> QED
    BY <2>2, <2>3
<1>8. m \in Seq(Chapter) /\ Len(m) = n /\ DOMAIN m = 1..n
  <2>1. DOMAIN m = 1..n
    BY <1>1, <1>4
  <2>2. m \in [1..n -> Chapter]
    <3>1. m = [i \in 1..n |-> m[i]]
      BY <1>1, <1>4
    <3> QED
      BY <1>7, <3>1
  <2> QED
    BY <1>4, <2>1, <2>2
<1>9. ASSUME m # <<>> PROVE m[1].start = 0 /\ Last(m).end = d
  <2>1. n # 0 /\ 1 \in 1..n /\ n \in 1..n
    BY <1>4, <1>8, <1>9
  <2>2. T # {}
    BY <1>4, <2>1
  <2>3. all[1] = 0
    <3>1. all[1] <= 0 /\ all[1] \in Nat
      BY <1>3, <1>5, <1>6, <2>1, <2>2
    <3> QED
      BY <3>1
  <2>4. Last(m) = m[n]
    BY <1>8 DEF Last
  <2> QED
    BY <1>7, <2>1, <2>3, <2>4
<1>10. \A x \in Range(m) : x.start < x.end
  <2>1. \A x \in Range(m) : \E i \in 1..n : x = m[i]
    BY <1>8 DEF Range
  <2> QED
    BY <1>7, <2>1
<1> QED
  BY <1>8, <1>9, <1>10 DEF m

\* What a step leaves of what a clip is held against.
Undisturbed(c) ==
    /\ c.stage = "waiting" => session' = session /\ media' = media
    /\ c.stage = "splicing" => session' \in {"running", "stopping"}
    /\ c.stage = "lost" => session' \notin {"copied", "empty", "finished"}

\* A clip keeps what it has in a step that does not disturb it.
LEMMA TheClipStays ==
    ASSUME ClipsAre, Moves(World, World'), NEW i \in DOMAIN clips, Undisturbed(clips[i])
    PROVE  clips[i] \in Clip /\ ClipIs(clips[i], World')
<1> DEFINE w == World
           v == World'
           c == clips[i]
<1>1. c \in Clip /\ ClipIs(c, w)
  BY DEF ClipsAre
<1>2. /\ c.stage = "waiting" => v.session = w.session /\ v.media = w.media
      /\ c.stage = "splicing" => v.session \in {"running", "stopping"}
      /\ c.stage = "lost" => v.session \notin {"copied", "empty", "finished"}
  BY DEF Undisturbed, World
<1>3. Moves(w, v)
  OBVIOUS
<1> HIDE DEF w, v, c
<1>4. ClipIs(c, v)
  BY <1>1, <1>2, <1>3, AClipStays
<1> QED
  BY <1>1, <1>4 DEF v, c

\* So do all of them in a step that leaves the clips alone.
LEMMA TheClipsStay ==
    ASSUME ClipsAre, Moves(World, World'), clips' = clips, \A i \in DOMAIN clips : Undisturbed(clips[i])
    PROVE  ClipsAre'
<1>1. \A i \in DOMAIN clips : ClipIs(clips[i], World')
  BY TheClipStays
<1>2. clips' \in Seq(Clip) /\ \A i \in DOMAIN clips : clips[i].stage = "waiting" => i = Len(clips)
  BY DEF ClipsAre
<1>3. \A i \in DOMAIN clips' : ClipIs(clips'[i], World') /\ (clips'[i].stage = "waiting" => i = Len(clips'))
  BY <1>1, <1>2
<1> QED
  BY <1>2, <1>3 DEF ClipsAre

\* One clip changes and the others stay.
LEMMA OneClipChanges ==
    ASSUME ClipsAre, Moves(World, World'), NEW k \in DOMAIN clips, NEW n \in Clip,
           clips' = [clips EXCEPT ![k] = n], ClipIs(n, World'), n.stage = "waiting" => k = Len(clips),
           \A i \in DOMAIN clips : i # k => Undisturbed(clips[i])
    PROVE  ClipsAre'
<1>1. \A i \in DOMAIN clips : i # k => ClipIs(clips[i], World')
  BY TheClipStays
<1>2. clips \in Seq(Clip) /\ \A i \in DOMAIN clips : clips[i].stage = "waiting" => i = Len(clips)
  BY DEF ClipsAre
<1>3. /\ clips' \in Seq(Clip) /\ DOMAIN clips' = DOMAIN clips /\ Len(clips') = Len(clips)
      /\ \A i \in DOMAIN clips : clips'[i] = IF i = k THEN n ELSE clips[i]
  BY <1>2
<1>4. \A i \in DOMAIN clips' : ClipIs(clips'[i], World') /\ (clips'[i].stage = "waiting" => i = Len(clips'))
  BY <1>1, <1>2, <1>3
<1> QED
  BY <1>3, <1>4 DEF ClipsAre

\* The loop serves one clip at a time.
LEMMA TheNewestWaits ==
    ASSUME ClipsAre
    PROVE  /\ Waiting => /\ Len(clips) \in DOMAIN clips /\ Last(clips) = clips[Len(clips)]
                         /\ clips[Len(clips)].stage = "waiting"
           /\ ~ Waiting => \A i \in DOMAIN clips : clips[i].stage # "waiting"
           /\ \A i \in DOMAIN clips : i # Len(clips) => clips[i].stage # "waiting"
<1>1. clips \in Seq(Clip) /\ \A i \in DOMAIN clips : clips[i].stage = "waiting" => i = Len(clips)
  BY DEF ClipsAre
<1>2. Last(clips) = clips[Len(clips)]
  BY DEF Last
<1>3. clips # <<>> => Len(clips) \in DOMAIN clips
  BY <1>1
<1>4. \A i \in DOMAIN clips : clips # <<>>
  BY <1>1
<1> QED
  BY <1>1, <1>2, <1>3, <1>4 DEF Waiting

\* A clip that was not begun and waits no more.
LEMMA AnIdleClip ==
    ASSUME NEW c, NEW w, c.stage \in {"refused", "failed"} \/ (c.stage = "expired" /\ w.state # "running")
    PROVE  ClipIs(c, w)
BY DEF ClipIs, ClipWaits, ClipIsFramed, ClipIsSpliced, ClipIsGivenUp, ClipIsLost, Covers

-----------------------------------------------------------------------------
\* What a longer wait changes of a clip.
LEMMA AWaitIsLonger ==
    ASSUME NEW c \in Clip
    PROVE  LET n == [c EXCEPT !.waited = @ + 1]
           IN  n \in Clip /\ n.stage = c.stage /\ n.waited = c.waited + 1 /\ n.asked = c.asked /\ n.trigger = c.trigger
<1>1. c.waited \in Nat /\ c.waited + 1 \in Nat
  BY DEF Clip
<1> QED
  BY <1>1 DEF Clip

\* A tick of waiting, with or without media.
LEMMA WaitingGoesOn ==
    ASSUME SegmentsInv, ClipsAre, Moves(World, World'), clips' = Waited, session' = session,
           ~ Waiting \/ child'.state # "running" \/ media' = media + 1
    PROVE  ClipsAre'
<1> DEFINE k == Len(clips)
           c == clips[k]
           n == [c EXCEPT !.waited = @ + 1]
<1>1. \A i \in DOMAIN clips : clips[i].stage = "splicing" => session' \in {"running", "stopping"}
  BY DEF ClipsAre, ClipIs, ClipIsSpliced, World
<1>2. \A i \in DOMAIN clips : clips[i].stage = "lost" => session' \notin {"copied", "empty", "finished"}
  BY DEF ClipsAre, ClipIs, ClipIsLost, World
<1>3. \A i \in DOMAIN clips : clips[i].stage # "waiting" => Undisturbed(clips[i])
  BY <1>1, <1>2 DEF Undisturbed
<1>4. CASE ~ Waiting
  <2>1. clips' = clips /\ \A i \in DOMAIN clips : clips[i].stage # "waiting"
    BY <1>4, TheNewestWaits DEF Waited
  <2> QED
    BY <1>3, <2>1, TheClipsStay
<1>5. CASE Waiting
  <2>1. k \in DOMAIN clips /\ c.stage = "waiting" /\ \A i \in DOMAIN clips : i # k => clips[i].stage # "waiting"
    BY <1>5, TheNewestWaits
  <2>2. c \in Clip /\ ClipIs(c, World)
    BY <2>1 DEF ClipsAre
  <2>3. clips' = [clips EXCEPT ![k] = n]
    BY <1>5, <2>1 DEF Waited
  <2>4. /\ n \in Clip /\ n.stage = "waiting" /\ n.waited = c.waited + 1
        /\ n.asked = c.asked /\ n.trigger = c.trigger
    BY <2>1, <2>2, AWaitIsLonger
  <2>5. /\ session = "running" /\ c.trigger <= c.asked /\ c.asked <= c.trigger + SEG + 1
        /\ child.state = "running" => media = c.asked + c.waited
    BY <2>1, <2>2 DEF ClipIs, ClipWaits, World
  <2>6. c.asked \in Nat /\ c.waited \in Nat
    BY <2>2 DEF Clip
  <2> HIDE DEF n, c
  <2>7. child'.state = "running" => media' = n.asked + n.waited
    <3>1. child'.state = "running" => child.state = "running"
      BY DEF Moves, World
    <3>2. child'.state = "running" => media' = (c.asked + c.waited) + 1
      BY <1>5, <2>5, <3>1
    <3>3. (c.asked + c.waited) + 1 = n.asked + n.waited
      BY <2>4, <2>6
    <3> QED
      BY <3>2, <3>3
  <2>8. ClipIs(n, World')
    BY <2>4, <2>5, <2>7 DEF ClipIs, ClipWaits, ClipIsFramed, ClipIsSpliced, ClipIsGivenUp, ClipIsLost, Covers, World
  <2> QED
    BY <1>3, <2>1, <2>3, <2>4, <2>8, OneClipChanges
<1> QED
  BY <1>4, <1>5

\* The trigger of a clip is behind the live edge by a segment and a tick at most.
LEMMA TakingKeepsClips ==
    ASSUME SegmentsInv, ClipsAre, Moves(World, World'), TakeClip
    PROVE  ClipsAre'
<1>1. /\ session = "running" /\ ~ Waiting
      /\ UNCHANGED <<disk, ledger, highest, origin, child, media, looked, session, out, harm>>
  BY DEF TakeClip
<1>2. PICK r \in ClipWindows :
         clips' = Append(clips, [stage |-> "waiting", waited |-> 0, asked |-> media, trigger |-> span_ms,
                                 pre |-> r.pre, post |-> r.post, window |-> <<>>,
                                 short |-> FALSE, marks |-> <<>>])
  BY DEF TakeClip
<1> DEFINE n == [stage |-> "waiting", waited |-> 0, asked |-> media, trigger |-> span_ms,
                 pre |-> r.pre, post |-> r.post, window |-> <<>>, short |-> FALSE, marks |-> <<>>]
<1>3. /\ media \in Nat /\ SEG \in Nat /\ span_ms \in Nat
      /\ span_ms <= media /\ media <= span_ms + SEG + 1
  <2>1. /\ media \in Nat /\ FirstSeq \in Int /\ FirstSeq \in Nat /\ origin = start_ms(FirstSeq)
        /\ DOMAIN ledger \in SUBSET Nat
        /\ highest \in {NoSegment} \cup DOMAIN ledger /\ \A s \in DOMAIN ledger : s <= highest
    BY <1>1 DEF SegmentsInv, NumbersTyped, LedgerFollows
  <2>2. origin \in Nat
    BY <2>1, SegmentsFollow
  <2>3. span_ms \in Nat
    <3>1. end_ms(highest) \in Int /\ span_ms = IF end_ms(highest) >= origin THEN end_ms(highest) - origin ELSE 0
      BY <2>1, <2>2, SpanIsKnown DEF span_ms, SpanOf
    <3> QED
      BY <2>2, <3>1
  <2>4. SEG \in Nat
    BY SessionFilesAssumption
  <2>5. span_ms <= media /\ (media <= span_ms + SEG + 0 \/ media <= span_ms + SEG + 1)
    BY <1>1 DEF SegmentsInv, LagIsShort
  <2> QED
    BY <2>1, <2>3, <2>4, <2>5
<1>4. n \in Clip /\ n.stage = "waiting" /\ n.waited = 0 /\ n.asked = media /\ n.trigger = span_ms
  <2>1. r.pre \in Nat /\ r.post \in Nat
    BY SessionFilesAssumption
  <2> QED
    BY <1>3, <2>1 DEF Clip, ClipStages
<1>5. clips' = Append(clips, n)
  BY <1>2
<1> HIDE DEF n
<1>6. ClipIs(n, World')
  <2>1. media = n.asked + n.waited /\ n.trigger <= n.asked /\ n.asked <= n.trigger + SEG + 1
    BY <1>3, <1>4
  <2> QED
    BY <1>1, <1>4, <2>1 DEF ClipIs, ClipWaits, ClipIsFramed, ClipIsSpliced, ClipIsGivenUp, ClipIsLost, Covers, World
<1>7. \A i \in DOMAIN clips : clips[i].stage # "waiting" /\ ClipIs(clips[i], World')
  <2>1. \A i \in DOMAIN clips : clips[i].stage # "waiting"
    BY <1>1, TheNewestWaits
  <2>2. \A i \in DOMAIN clips : Undisturbed(clips[i])
    BY <1>1, <2>1 DEF Undisturbed
  <2> QED
    BY <2>1, <2>2, TheClipStays
<1>8. /\ clips \in Seq(Clip) /\ clips' \in Seq(Clip) /\ Len(clips') = Len(clips) + 1
      /\ \A i \in DOMAIN clips' : \/ i = Len(clips') /\ clips'[i] = n
                                  \/ i \in DOMAIN clips /\ clips'[i] = clips[i]
  BY <1>4, <1>5 DEF ClipsAre
<1>9. \A i \in DOMAIN clips' : ClipIs(clips'[i], World') /\ (clips'[i].stage = "waiting" => i = Len(clips'))
  BY <1>6, <1>7, <1>8
<1> QED
  BY <1>8, <1>9 DEF ClipsAre

\* A clip that no longer waits is not disturbed while the session goes on.
LEMMA TheOthersAreUndisturbed ==
    ASSUME ClipsAre, session' = session, NEW i \in DOMAIN clips, clips[i].stage # "waiting"
    PROVE  Undisturbed(clips[i])
<1>1. ClipIs(clips[i], World)
  BY DEF ClipsAre
<1> QED
  BY <1>1 DEF ClipIs, ClipIsSpliced, ClipIsLost, World, Undisturbed

\* What giving a clip up changes of it.
LEMMA TheWaitIsUpdated ==
    ASSUME NEW c \in Clip, NEW stage \in ClipStages, NEW n, n = [c EXCEPT !.stage = stage, !.waited = 0]
    PROVE  n \in Clip /\ n.stage = stage
BY DEF Clip

\* A clip that is refused, fails or expires leaves the others as they are.
LEMMA TheClipIsGivenUp ==
    ASSUME SegmentsInv, ClipsAre, Moves(World, World'), Waiting, NEW stage \in {"refused", "failed", "expired"},
           clips' = Update(stage), stage = "expired" => child'.state # "running",
           \A i \in DOMAIN clips : clips[i].stage # "waiting" => Undisturbed(clips[i])
    PROVE  ClipsAre'
<1> DEFINE k == Len(clips)
           c == clips[k]
           n == [c EXCEPT !.stage = stage, !.waited = 0]
<1>1. k \in DOMAIN clips /\ \A i \in DOMAIN clips : i # k => clips[i].stage # "waiting"
  BY TheNewestWaits
<1>2. c \in Clip
  BY <1>1 DEF ClipsAre
<1>3. clips' = [clips EXCEPT ![k] = n]
  BY <1>1 DEF Update
<1>4. n \in Clip /\ n.stage = stage
  <2>1. stage \in ClipStages
    BY DEF ClipStages
  <2>2. n = [c EXCEPT !.stage = stage, !.waited = 0]
    OBVIOUS
  <2> HIDE DEF n, c
  <2> QED
    BY <1>2, <2>1, <2>2, TheWaitIsUpdated
<1> HIDE DEF n, c, k
<1>5. ClipIs(n, World')
  <2>1. World'.state = child'.state
    BY DEF World
  <2> QED
    BY <1>4, <2>1, AnIdleClip
<1> QED
  BY <1>1, <1>3, <1>4, <1>5, OneClipChanges

\* The span and the run's start are numbers.
LEMMA TheSpanIsANumber ==
    ASSUME SegmentsInv, session = "running"
    PROVE  span_ms \in Nat /\ origin \in Nat
<1>1. /\ FirstSeq \in Int /\ FirstSeq \in Nat /\ origin = start_ms(FirstSeq)
      /\ DOMAIN ledger \in SUBSET Nat
      /\ highest \in {NoSegment} \cup DOMAIN ledger /\ \A s \in DOMAIN ledger : s <= highest
  BY DEF SegmentsInv, NumbersTyped, LedgerFollows
<1>2. origin \in Nat
  BY <1>1, SegmentsFollow
<1>3. end_ms(highest) \in Int /\ span_ms = IF end_ms(highest) >= origin THEN end_ms(highest) - origin ELSE 0
  BY <1>1, <1>2, SpanIsKnown DEF span_ms, SpanOf
<1> QED
  BY <1>2, <1>3

\* The budget of a wait outlasts the lag of the ledger: it is never spent while
\* the encoder works.
LEMMA ExpiringKeepsClips ==
    ASSUME SegmentsInv, ClipsAre, Moves(World, World'), PostRollExpires
    PROVE  ClipsAre'
<1> DEFINE c == Last(clips)
<1>1. /\ session = "running" /\ Waiting /\ looked
      /\ span_ms < c.trigger + c.post /\ c.waited >= post_roll_budget(c.post)
      /\ clips' = Update("expired")
      /\ session' = session /\ child' = child
  BY DEF PostRollExpires
<1>2. c \in Clip /\ ClipIs(c, World) /\ c.stage = "waiting"
  BY <1>1, TheNewestWaits DEF ClipsAre
<1>3. c.trigger <= c.asked /\ (child.state = "running" => media = c.asked + c.waited)
  BY <1>2 DEF ClipIs, ClipWaits, World
<1>4. media <= span_ms + SEG
  <2>1. media <= span_ms + SEG + (IF looked THEN 0 ELSE 1) /\ media \in Nat
    BY <1>1 DEF SegmentsInv, LagIsShort, NumbersTyped
  <2>2. (IF looked THEN 0 ELSE 1) = 0
    BY <1>1
  <2>3. span_ms \in Int
    BY <1>1, TheSpanIsANumber
  <2>4. SEG \in Nat
    BY SessionFilesAssumption
  <2>5. media <= span_ms + SEG + 0
    BY <2>1, <2>2
  <2> QED
    BY <2>3, <2>4, <2>5
<1>5. child.state # "running"
  <2> SUFFICES ASSUME child.state = "running" PROVE FALSE
    OBVIOUS
  <2>1. media = c.asked + c.waited
    BY <1>3
  <2>2. c.trigger \in Nat /\ c.post \in Nat /\ c.asked \in Nat /\ c.waited \in Nat
    BY <1>2 DEF Clip
  <2>3. c.waited >= c.post + 2 * SEG + MARGIN /\ SEG \in Nat /\ MARGIN \in Nat /\ SEG > 0
    BY <1>1, SessionFilesAssumption DEF post_roll_budget
  <2>4. span_ms \in Int
    BY <1>1, TheSpanIsANumber
  <2> HIDE DEF c
  <2> QED
    BY <1>1, <1>3, <1>4, <2>1, <2>2, <2>3, <2>4
<1>6. \A i \in DOMAIN clips : clips[i].stage # "waiting" => Undisturbed(clips[i])
  BY <1>1, TheOthersAreUndisturbed
<1> QED
  BY <1>1, <1>5, <1>6, TheClipIsGivenUp

-----------------------------------------------------------------------------
\* The ledger of a running session misses none between two it has.
LEMMA TheLedgerHasNoGap ==
    ASSUME SegmentsInv, session = "running"
    PROVE  \A i, j \in DOMAIN ledger : i..j \subseteq DOMAIN ledger
<1>1. /\ highest < child.seq /\ highest \in Int /\ child.seq \in Nat
      /\ DOMAIN ledger = {s \in DOMAIN disk : s <= highest}
      /\ DOMAIN disk \in SUBSET Nat
      /\ \A s \in DOMAIN disk : s..(child.seq - 1) \subseteq DOMAIN disk
  BY DEF SegmentsInv, NumbersTyped, LedgerFollows, SegmentsLie
<1> SUFFICES ASSUME NEW i \in DOMAIN ledger, NEW j \in DOMAIN ledger, NEW x \in i..j
             PROVE  x \in DOMAIN ledger
  OBVIOUS
<1>2. i \in DOMAIN disk /\ i \in Nat /\ j \in Nat /\ j <= highest
  BY <1>1
<1>3. x \in Int /\ i <= x /\ x <= highest /\ x \in i..(child.seq - 1)
  BY <1>1, <1>2
<1> QED
  BY <1>1, <1>2, <1>3

\* What giving a clip its window changes of it.
LEMMA TheClipIsFramed ==
    ASSUME NEW c \in Clip, NEW stage \in ClipStages, NEW window \in Seq(Nat), NEW short \in BOOLEAN,
           NEW n, n = [c EXCEPT !.stage = stage, !.waited = 0, !.window = window, !.short = short]
    PROVE  /\ n \in Clip /\ n.stage = stage /\ n.window = window /\ n.short = short
           /\ n.asked = c.asked /\ n.trigger = c.trigger /\ n.pre = c.pre /\ n.post = c.post
BY DEF Clip

\* The window of a clip whose post-roll has arrived.
LEMMA ArrivingKeepsClips ==
    ASSUME FilesInv, SegmentsInv, ClipsAre, Moves(World, World'), PostRollArrives
    PROVE  ClipsAre'
<1> DEFINE c == Last(clips)
           at == Absolute(c.trigger)
           W == WindowOf(at, c.pre, c.post)
           stage == IF W = <<>> THEN "refused" ELSE "splicing"
           n == [c EXCEPT !.stage = stage, !.waited = 0, !.window = W, !.short = Truncated(at, c.pre)]
           k == Len(clips)
           L == DOMAIN ledger
<1>1. /\ session = "running" /\ Waiting
      /\ UNCHANGED <<disk, ledger, highest, origin, child, media, looked, session, out, harm>>
      /\ clips' = IF ~ Resolves(at, c.post) THEN Update("refused")
                  ELSE [clips EXCEPT ![Len(clips)] =
                          [@ EXCEPT !.stage = stage, !.waited = 0, !.window = W, !.short = Truncated(at, c.pre)]]
  BY DEF PostRollArrives
<1>2. /\ k \in DOMAIN clips /\ c = clips[k] /\ c.stage = "waiting" /\ c \in Clip /\ ClipIs(c, World)
      /\ \A i \in DOMAIN clips : i # k => clips[i].stage # "waiting"
  BY <1>1, TheNewestWaits DEF ClipsAre
<1>3. \A i \in DOMAIN clips : clips[i].stage # "waiting" => Undisturbed(clips[i])
  BY <1>1, TheOthersAreUndisturbed
<1>4. CASE ~ Resolves(at, c.post)
  BY <1>1, <1>3, <1>4, TheClipIsGivenUp
<1>5. CASE Resolves(at, c.post)
  <2>1. clips' = [clips EXCEPT ![k] = n]
    BY <1>1, <1>2, <1>5
  <2>2. L # {} /\ end_ms(Max(L)) >= at + c.post
    BY <1>5 DEF Resolves, LedgerSpan
  <2>3. /\ L \in SUBSET Nat /\ IsFiniteSet(L) /\ \A i, j \in L : i..j \subseteq L
        /\ origin \in Nat /\ child.seq \in Nat /\ highest \in Int /\ highest < child.seq
        /\ \A s \in L : s <= highest
    <3>1. /\ L \in SUBSET Nat /\ IsFiniteSet(L) /\ FirstSeq \in Int /\ FirstSeq \in Nat /\ origin = start_ms(FirstSeq)
          /\ child.seq \in Nat /\ highest \in Int /\ highest < child.seq
          /\ \A s \in L : s <= highest
      BY <1>1 DEF SegmentsInv, NumbersTyped, LedgerFollows
    <3>2. origin \in Nat
      BY <3>1, SegmentsFollow
    <3> QED
      BY <1>1, <3>1, <3>2, TheLedgerHasNoGap
  <2>4. /\ c.trigger \in Nat /\ c.pre \in Nat /\ c.post \in Nat /\ c.asked \in Nat
        /\ c.trigger <= c.asked /\ c.asked <= c.trigger + SEG + 1
    BY <1>2 DEF Clip, ClipIs, ClipWaits
  <2>5. at \in Nat /\ at = origin + c.trigger
    BY <2>3, <2>4 DEF Absolute
  <2> DEFINE start == IF 0 >= at - c.pre THEN 0 ELSE at - c.pre
             S == {s \in L : end_ms(s) > start /\ start_ms(s) < at + c.post}
  <2> HIDE DEF at, c
  <2>6. W = InOrder(S)
    <3>1. Max({0, at - c.pre}) = start
      BY <2>4, <2>5, LargerOfTwo
    <3> QED
      BY <3>1 DEF WindowOf
  <2>7. W # <<>> => S # {}
    <3>1. S \in SUBSET L
      OBVIOUS
    <3>2. IsFiniteSet(S) /\ S \in SUBSET Nat
      BY <2>3, <3>1, FS_Subset
    <3> HIDE DEF S
    <3>3. S = {} => W = <<>>
      <4>1. S = {} => Cardinality(S) = 0
        BY FS_EmptySet
      <4>2. W \in Seq(Nat) /\ Len(W) = Cardinality(S)
        BY <2>6, <3>2, NumbersInOrder
      <4> QED
        BY <4>1, <4>2
    <3> QED
      BY <3>3
  <2>8. start \in Int
    BY <2>4, <2>5
  <2>9. W \in Seq(Nat)
    <3>1. S \in SUBSET L
      OBVIOUS
    <3>2. IsFiniteSet(S) /\ S \in SUBSET Nat
      BY <2>3, <3>1, FS_Subset
    <3> HIDE DEF S
    <3> QED
      BY <2>6, <3>2, NumbersInOrder
  <2>10. ASSUME W # <<>>
         PROVE  /\ \A i \in DOMAIN W : W[i] \in L
                /\ \A i \in 1..(Len(W) - 1) : W[i + 1] = W[i] + 1
                /\ Len(W) = Last(W) - W[1] + 1
                /\ end_ms(Last(W)) >= at + c.post
                /\ start_ms(W[1]) <= at - c.pre \/ (at < c.pre + start_ms(Min(L)) /\ W[1] = Min(L))
    <3> DEFINE p == c.pre
               q == c.post
    <3>1. S \in SUBSET L /\ \A s \in L : s \in S <=> end_ms(s) > start /\ start_ms(s) < at + q
      OBVIOUS
    <3>4. S # {} /\ end_ms(Max(L)) >= at + q /\ p \in Nat /\ q \in Nat /\ at \in Nat
      BY <2>2, <2>4, <2>5, <2>7, <2>10
    <3>5. start >= 0 /\ (start > 0 => start = at - p)
      BY <2>4, <2>5
    <3>2. L \in SUBSET Nat /\ IsFiniteSet(L) /\ \A i, j \in L : i..j \subseteq L
      BY <2>3
    <3> HIDE DEF S, start, W, L, p, q
    <3>3. WindowFrames(W, L, at, p, q)
      BY ONLY <2>6, <2>8, <3>1, <3>2, <3>4, <3>5, TheWindowCovers
    <3> QED
      BY <3>3 DEF p, q, WindowFrames
  <2>11. Truncated(at, c.pre) \in BOOLEAN /\ (Truncated(at, c.pre) <=> at < c.pre + start_ms(Min(L)))
    BY DEF Truncated
  <2> DEFINE short == Truncated(at, c.pre)
  <2>12. /\ n \in Clip /\ n.stage = stage /\ n.window = W /\ n.short = short
         /\ n.asked = c.asked /\ n.trigger = c.trigger /\ n.pre = c.pre /\ n.post = c.post
    <3>1. c \in Clip /\ stage \in ClipStages
      BY <1>2 DEF ClipStages
    <3>2. n = [c EXCEPT !.stage = stage, !.waited = 0, !.window = W, !.short = short]
      OBVIOUS
    <3>3. short \in BOOLEAN
      BY <2>11
    <3> HIDE DEF W, short, stage, n
    <3> QED
      BY <2>9, <3>1, <3>2, <3>3 DEF Clip
  <2> HIDE DEF n, W, short, S, start
  <2>13. ClipIs(n, World')
    <3>1. CASE W = <<>>
      BY <2>12, <3>1, AnIdleClip
    <3>2. CASE W # <<>>
      <4>1. n.stage = "splicing"
        BY <2>12, <3>2
      <4>2. ClipWaits(n, World') /\ ClipIsGivenUp(n, World') /\ ClipIsLost(n, World')
        BY <4>1 DEF ClipWaits, ClipIsGivenUp, ClipIsLost
      <4>3. ClipIsFramed(n, World')
        <5>1. \A i \in DOMAIN W : W[i] \in L /\ W[i] < child.seq
          <6>1. \A s \in L : s < child.seq
            BY <2>3
          <6> QED
            BY <2>10, <3>2, <6>1
        <5> QED
          BY <1>1, <2>12, <3>2, <5>1 DEF ClipIsFramed, World
      <4>4. ClipIsSpliced(n, World')
        BY <1>1, <2>10, <2>12, <3>2 DEF ClipIsSpliced, World
      <4>5. Covers(n, origin, Min(L))
        <5> DEFINE to == end_ms(Last(W))
        <5>1. to >= at + c.post /\ (c.post > SEG => origin + c.asked <= to)
          <6>1. SEG \in Nat
            BY SessionFilesAssumption
          <6>2. to \in Int
            <7>1. Last(W) \in Int
              <8>1. Len(W) \in DOMAIN W /\ Last(W) = W[Len(W)]
                BY <2>9, <3>2 DEF Last
              <8> QED
                BY <2>9, <8>1
            <7> QED
              BY <7>1, <6>1, SegmentsFollow
          <6>3. to >= at + c.post
            BY <2>10, <3>2
          <6> HIDE DEF to
          <6> QED
            BY <2>3, <2>4, <2>5, <6>1, <6>2, <6>3
        <5>2. start_ms(W[1]) <= at - c.pre \/ (short /\ W[1] = Min(L))
          BY <2>10, <2>11, <3>2 DEF short
        <5>3. \A i \in 1..(Len(W) - 1) : W[i + 1] = W[i] + 1
          BY <2>10, <3>2
        <5> HIDE DEF L
        <5> QED
          BY <2>5, <2>12, <4>1, <5>1, <5>2, <5>3 DEF Covers
      <4>6. World'.start = origin /\ World'.known = L
        BY <1>1 DEF World
      <4> QED
        BY <4>2, <4>3, <4>4, <4>5, <4>6 DEF ClipIs
    <3> QED
      BY <3>1, <3>2
  <2> HIDE DEF k
  <2>14. n.stage # "waiting"
    BY <2>12
  <2> QED
    BY <1>2, <1>3, <2>1, <2>12, <2>13, <2>14, OneClipChanges
<1> QED
  BY <1>4, <1>5

\* How long a window without a gap is.
LEMMA TheWindowIsLong ==
    ASSUME NEW a \in Nat, NEW b \in Nat, NEW k \in Nat, k = b - a + 1
    PROVE  end_ms(b) - start_ms(a) = k * SEG
<1>1. SEG \in Nat
  BY SessionFilesAssumption
<1>2. b = a + k - 1
  OBVIOUS
<1>3. end_ms(b) = start_ms(b + 1)
  <2>1. b \in Int
    OBVIOUS
  <2> QED
    BY <2>1, SegmentsFollow
<1>4. start_ms(b + 1) = (a + k) * SEG
  <2>1. b + 1 = a + k
    BY <1>2
  <2> QED
    BY <2>1 DEF start_ms
<1>5. (a + k) * SEG = a * SEG + k * SEG /\ a * SEG \in Int /\ k * SEG \in Int
  BY <1>1
<1> QED
  BY <1>3, <1>4, <1>5 DEF start_ms

\* Chapters that begin at the beginning and end at the end.
Tiles(marks, long) ==
    /\ marks \in Seq(Chapter)
    /\ marks # <<>> => /\ marks[1].start = 0 /\ Last(marks).end = long
                       /\ \A m \in Range(marks) : m.start < m.end

\* The chapters a clip gets, or none.
LEMMA TheMarksTile ==
    ASSUME NEW mark \in Int, NEW started \in Int, NEW long \in Nat, NEW ok \in BOOLEAN,
           NEW marks, marks = add_chapters(clip_chapters({}, {mark}, started, long), long, ok)
    PROVE  Tiles(marks, long)
<1> DEFINE C == clip_chapters({}, {mark}, started, long)
<1>1. C \in SUBSET {mark - started} /\ C \in SUBSET Nat
  BY DEF clip_chapters
<1>2. IsFiniteSet({mark - started})
  BY FS_Singleton
<1>3. IsFiniteSet(C)
  BY <1>1, <1>2, FS_Subset
<1> HIDE DEF C
<1> DEFINE m == ffmetadata(C, long)
<1>4. /\ m \in Seq(Chapter)
      /\ m # <<>> => m[1].start = 0 /\ Last(m).end = long /\ \A x \in Range(m) : x.start < x.end
  BY <1>1, <1>3, TheChaptersTile
<1>5. marks = IF ok THEN m ELSE <<>>
  BY DEF add_chapters, C
<1> HIDE DEF m
<1>6. CASE ok
  BY <1>4, <1>5, <1>6 DEF Tiles
<1>7. CASE ~ ok
  <2>1. marks = <<>> /\ <<>> \in Seq(Chapter)
    BY <1>5, <1>7
  <2> QED
    BY <2>1 DEF Tiles
<1> QED
  BY <1>6, <1>7

\* A clip that is cut covers what its window did.
LEMMA TheCutClipCovers ==
    ASSUME NEW c \in Clip, NEW n \in Clip, NEW start, NEW first, Covers(c, start, first),
           c.stage = "splicing", c.window # <<>>, Len(c.window) = Last(c.window) - c.window[1] + 1,
           n.stage = "cut", n.window = c.window, n.short = c.short, n.asked = c.asked, n.trigger = c.trigger,
           n.pre = c.pre, n.post = c.post,
           n.marks # <<>> => /\ n.marks[1].start = 0 /\ Last(n.marks).end = Len(c.window) * SEG
                             /\ \A m \in Range(n.marks) : m.start < m.end
    PROVE  Covers(n, start, first)
<1>1. end_ms(Last(c.window)) - start_ms(c.window[1]) = Len(c.window) * SEG
  <2>1. c.window \in Seq(Nat)
    BY DEF Clip
  <2>2. 1 \in DOMAIN c.window /\ Len(c.window) \in DOMAIN c.window /\ Len(c.window) \in Nat
    BY <2>1
  <2>3. c.window[1] \in Nat /\ Last(c.window) \in Nat
    BY <2>1, <2>2 DEF Last
  <2> QED
    BY <2>2, <2>3, TheWindowIsLong
<1> QED
  BY <1>1 DEF Covers

\* What can be joined, and what cannot: the segments of this run have one layout.
LEMMA OneRunIsJoined ==
    ASSUME FilesInv, SegmentsInv, session # "finished", NEW window \in Seq(Nat), window # <<>>,
           \A k \in DOMAIN window : window[k] \in DOMAIN disk /\ window[k] < child.seq,
           \A k \in DOMAIN window : ~ disk[window[k]].old
    PROVE  check_concat_layout(FilesOf(window, disk))
<1> DEFINE f == FilesOf(window, disk)
<1>1. DOMAIN f = DOMAIN window /\ 1 \in DOMAIN window /\ \A k \in DOMAIN window : f[k] = disk[window[k]]
  BY DEF FilesOf
<1>2. ASSUME NEW k \in DOMAIN window
      PROVE  f[k].whole = TRUE /\ f[k].audio = child.audio
  <2>1. window[k] \in Nat /\ FirstSeq \in Nat /\ window[k] \in DOMAIN disk /\ window[k] < child.seq
        /\ ~ disk[window[k]].old
    BY DEF SegmentsInv, NumbersTyped
  <2>2. FirstSeq <= window[k] /\ disk[window[k]].audio = child.audio /\ disk[window[k]].whole
    BY <2>1 DEF SegmentsInv, SegmentsHold
  <2> QED
    BY <1>1, <2>2
<1>3. f # <<>>
  BY <1>1
<1> HIDE DEF f
<1> QED
  BY <1>1, <1>2, <1>3 DEF check_concat_layout, Layout, f

\* A splice ends: the clip is cut, has failed, or could not be joined.
LEMMA SplicingKeepsClips ==
    ASSUME FilesInv, SegmentsInv, ClipsAre, Moves(World, World'), SpliceEnds
    PROVE  ClipsAre'
<1>1. UNCHANGED <<disk, ledger, highest, origin, child, media, looked, session, out>>
  BY DEF SpliceEnds
<1>2. PICK i \in DOMAIN clips :
         /\ clips[i].stage = "splicing"
         /\ LET c == clips[i]
                started == start_ms(c.window[1])
                long == Len(c.window) * SEG
                mark == Min({Absolute(c.trigger), started + c.pre})
                possible == /\ write_concat_list(c.window, DOMAIN disk)
                            /\ check_concat_layout([k \in DOMAIN c.window |-> disk[c.window[k]]])
            IN \/ /\ possible
                  /\ \E ok \in BOOLEAN :
                        clips' = Spliced(i, "cut", add_chapters(clip_chapters({}, {mark}, started, long), long, ok))
               \/ clips' = Spliced(i, "failed", <<>>)
               \/ ~ possible /\ clips' = Spliced(i, "lost", <<>>)
  BY DEF SpliceEnds
<1> DEFINE c == clips[i]
           started == start_ms(c.window[1])
           long == Len(c.window) * SEG
           mark == Min({Absolute(c.trigger), started + c.pre})
           possible == /\ write_concat_list(c.window, DOMAIN disk)
                       /\ check_concat_layout(FilesOf(c.window, disk))
<1>3. /\ c.stage = "splicing" /\ c \in Clip /\ clips \in Seq(Clip)
      /\ ClipIs(c, World)
  BY <1>2 DEF ClipsAre
<1>4. \/ \E ok \in BOOLEAN :
             clips' = Spliced(i, "cut", add_chapters(clip_chapters({}, {mark}, started, long), long, ok))
      \/ clips' = Spliced(i, "failed", <<>>)
      \/ ~ possible /\ clips' = Spliced(i, "lost", <<>>)
  BY <1>2 DEF FilesOf
<1>5. /\ session \in {"running", "stopping"}
      /\ c.window # <<>> /\ c.window \in Seq(Nat)
      /\ Len(c.window) = Last(c.window) - c.window[1] + 1
      /\ \A k \in DOMAIN c.window : c.window[k] \in DOMAIN ledger /\ c.window[k] < child.seq
      /\ Covers(c, origin, Min(DOMAIN ledger))
  BY <1>3 DEF ClipIs, ClipIsFramed, ClipIsSpliced, World, Clip
<1>6. \A j \in DOMAIN clips : j # i => Undisturbed(clips[j])
  <2>1. \A j \in DOMAIN clips : clips[j].stage # "waiting" => Undisturbed(clips[j])
    BY <1>1, TheOthersAreUndisturbed
  <2>2. \A j \in DOMAIN clips : clips[j].stage = "waiting" => Undisturbed(clips[j])
    BY <1>1 DEF Undisturbed
  <2> QED
    BY <2>1, <2>2
<1>7. \A k \in DOMAIN c.window : c.window[k] \in DOMAIN disk
  BY <1>5 DEF FilesInv, LedgerIsOnDisk
<1>8. /\ World'.start = origin /\ World'.known = DOMAIN ledger /\ World'.next = child.seq
      /\ World'.files = disk /\ World'.session = session
  BY <1>1 DEF World
<1>9. ASSUME NEW stage \in {"cut", "failed", "lost"}, NEW marks \in Seq(Chapter),
             clips' = Spliced(i, stage, marks),
             stage = "cut" =>
               (marks # <<>> => /\ marks[1].start = 0 /\ Last(marks).end = Len(c.window) * SEG
                                /\ \A m \in Range(marks) : m.start < m.end),
             stage = "lost" => ~ possible
      PROVE  ClipsAre'
  <2> DEFINE n == [clips[i] EXCEPT !.stage = stage, !.marks = marks]
  <2>1. stage \in ClipStages
    BY DEF ClipStages
  <2>2. /\ clips' = [clips EXCEPT ![i] = n] /\ n \in Clip
        /\ n.stage = stage /\ n.marks = marks /\ n.window = c.window /\ n.short = c.short
        /\ n.asked = c.asked /\ n.trigger = c.trigger /\ n.pre = c.pre /\ n.post = c.post
    <3>1. clips \in Seq(Clip) /\ c \in Clip /\ clips' = Spliced(i, stage, marks)
      BY <1>3, <1>9
    <3>2. clips' = [clips EXCEPT ![i] = n]
      BY <3>1 DEF Spliced, Clip
    <3>3. n = [c EXCEPT !.stage = stage, !.marks = marks]
      OBVIOUS
    <3> HIDE DEF n, c
    <3>4. /\ n \in Clip
          /\ n.stage = stage /\ n.marks = marks /\ n.window = c.window /\ n.short = c.short
          /\ n.asked = c.asked /\ n.trigger = c.trigger /\ n.pre = c.pre /\ n.post = c.post
      BY <2>1, <3>1, <3>3 DEF Clip
    <3> QED
      BY <3>2, <3>4
  <2> HIDE DEF n, c
  <2>3. ClipIs(n, World')
    <3>1. CASE stage = "failed"
      BY <2>2, <3>1, AnIdleClip
    <3>2. CASE stage # "failed"
      <4>1. ClipWaits(n, World') /\ ClipIsSpliced(n, World') /\ ClipIsGivenUp(n, World')
        BY <2>2 DEF ClipWaits, ClipIsSpliced, ClipIsGivenUp
      <4>2. ClipIsFramed(n, World')
        BY <1>5, <1>8, <2>2 DEF ClipIsFramed
      <4>3. ClipIsLost(n, World')
        <5> SUFFICES ASSUME stage = "lost" PROVE ClipIsLost(n, World')
          BY <2>2 DEF ClipIsLost
        <5>1. write_concat_list(c.window, DOMAIN disk)
          BY <1>7 DEF write_concat_list, Range
        <5>2. ~ check_concat_layout(FilesOf(c.window, disk))
          BY <1>9, <5>1
        <5>3. \E k \in DOMAIN c.window : disk[c.window[k]].old
          BY <1>5, <1>7, <5>2, OneRunIsJoined
        <5> QED
          BY <1>5, <1>8, <2>2, <5>2, <5>3 DEF ClipIsLost
      <4>4. Covers(n, origin, Min(DOMAIN ledger))
        <5> DEFINE first == Min(DOMAIN ledger)
        <5>1. CASE stage = "cut"
          <6>1. n.marks # <<>> => /\ n.marks[1].start = 0 /\ Last(n.marks).end = Len(c.window) * SEG
                                  /\ \A m \in Range(n.marks) : m.start < m.end
            BY <1>9, <2>2, <5>1
          <6> HIDE DEF first
          <6>2. Covers(c, origin, first)
            BY <1>5 DEF first
          <6>3. Covers(n, origin, first)
            BY <1>3, <1>5, <2>2, <5>1, <6>1, <6>2, TheCutClipCovers
          <6> QED
            BY <6>3 DEF first
        <5>2. CASE stage # "cut"
          BY <2>2, <5>2 DEF Covers
        <5> QED
          BY <5>1, <5>2
      <4> QED
        BY <1>8, <4>1, <4>2, <4>3, <4>4 DEF ClipIs
    <3> QED
      BY <3>1, <3>2
  <2> QED
    BY <1>6, <2>2, <2>3, OneClipChanges
<1>10. CASE \E ok \in BOOLEAN :
               clips' = Spliced(i, "cut", add_chapters(clip_chapters({}, {mark}, started, long), long, ok))
  <2>1. PICK ok \in BOOLEAN :
           clips' = Spliced(i, "cut", add_chapters(clip_chapters({}, {mark}, started, long), long, ok))
    BY <1>10
  <2>2. mark \in Int /\ started \in Int /\ long \in Nat
    <3>1. c.window[1] \in Nat /\ Len(c.window) \in Nat /\ c.trigger \in Nat /\ c.pre \in Nat
      <4>1. 1 \in DOMAIN c.window /\ c.window \in Seq(Nat)
        BY <1>5
      <4>2. c \in Clip
        BY <1>3
      <4> HIDE DEF c
      <4>3. c.trigger \in Nat /\ c.pre \in Nat
        BY <4>2 DEF Clip
      <4> QED
        BY <4>1, <4>3
    <3>2. started \in Int
      <4>1. c.window[1] \in Int
        BY <3>1
      <4> QED
        BY <4>1, SegmentsFollow
    <3>3. SEG \in Nat /\ long \in Nat
      BY <3>1, SessionFilesAssumption
    <3>4. Absolute(c.trigger) \in Int
      <4>1. origin \in Int
        <5>1. FirstSeq \in Int /\ origin = start_ms(FirstSeq)
          BY DEF SegmentsInv, NumbersTyped
        <5> QED
          BY <5>1, SegmentsFollow
      <4> QED
        BY <3>1, <4>1 DEF Absolute
    <3>5. started + c.pre \in Int
      BY <3>1, <3>2
    <3>6. mark \in Int
      BY <3>4, <3>5, SmallerOfTwo
    <3> QED
      BY <3>2, <3>3, <3>6
  <2> DEFINE marks == add_chapters(clip_chapters({}, {mark}, started, long), long, ok)
  <2>3. marks = add_chapters(clip_chapters({}, {mark}, started, long), long, ok)
    OBVIOUS
  <2>4. clips' = Spliced(i, "cut", marks)
    BY <2>1
  <2>5. Tiles(marks, long)
    <3> HIDE DEF mark, started, long, marks
    <3> QED
      BY ONLY <2>2, <2>3, ok \in BOOLEAN, TheMarksTile
  <2>6. /\ marks \in Seq(Chapter)
        /\ marks # <<>> => /\ marks[1].start = 0 /\ Last(marks).end = long
                           /\ \A m \in Range(marks) : m.start < m.end
    <3> HIDE DEF long, marks
    <3> QED
      BY <2>5 DEF Tiles
  <2> HIDE DEF marks, mark, started
  <2> QED
    BY <1>9, <2>4, <2>6
<1>11. CASE clips' = Spliced(i, "failed", <<>>) \/ (~ possible /\ clips' = Spliced(i, "lost", <<>>))
  <2>1. <<>> \in Seq(Chapter)
    OBVIOUS
  <2> HIDE DEF possible
  <2> QED
    BY <1>9, <1>11, <2>1
<1> QED
  BY <1>4, <1>10, <1>11

\* The end of the recording fails a clip that waits.
LEMMA StoppingKeepsClips ==
    ASSUME SegmentsInv, ClipsAre, Moves(World, World'), StopRecording
    PROVE  ClipsAre'
<1>1. session = "running" /\ session' = "stopping"
  BY DEF StopRecording
<1>2. \A i \in DOMAIN clips : clips[i].stage # "waiting" => Undisturbed(clips[i])
  BY <1>1 DEF Undisturbed
<1>3. \/ clips' = clips /\ ~ Waiting
      \/ Waiting /\ clips' = Update("failed")
  BY DEF StopRecording
<1>4. CASE clips' = clips /\ ~ Waiting
  <2>1. \A i \in DOMAIN clips : Undisturbed(clips[i])
    BY <1>2, <1>4, TheNewestWaits
  <2> QED
    BY <1>4, <2>1, TheClipsStay
<1>5. CASE Waiting /\ clips' = Update("failed")
  BY <1>2, <1>5, TheClipIsGivenUp
<1> QED
  BY <1>3, <1>4, <1>5

\* A clip that could not be joined is in the ledger of the session, which then
\* cannot be joined either.
LEMMA NothingIsLostInACopy ==
    ASSUME FilesInv, SegmentsInv, ClipsAre, Finalise, NEW i \in DOMAIN clips, clips[i].stage = "lost"
    PROVE  session' = "kept"
<1> DEFINE c == clips[i]
           window == c.window
           seqs == InOrder(DOMAIN ledger)
           files == [k \in DOMAIN seqs |-> disk[seqs[k]]]
<1>1. \/ seqs = <<>> /\ session' = "empty"
      \/ seqs # <<>> /\ session' = "copied" /\ check_concat_layout(files)
      \/ session' = "kept"
  BY DEF Finalise
<1>2. /\ c \in Clip /\ window # <<>> /\ window \in Seq(Nat)
      /\ \A k \in DOMAIN window : window[k] \in DOMAIN ledger
      /\ ~ check_concat_layout(FilesOf(window, disk))
  <2>1. c \in Clip /\ ClipIs(c, World) /\ c.stage = "lost"
    BY DEF ClipsAre
  <2> HIDE DEF c
  <2> QED
    BY <2>1 DEF ClipIs, ClipIsFramed, ClipIsLost, World, Clip
<1>3. \A s \in DOMAIN ledger : \E k \in DOMAIN seqs : seqs[k] = s
  <2>1. IsFiniteSet(DOMAIN ledger) /\ DOMAIN ledger \in SUBSET Nat
    BY DEF SegmentsInv, NumbersTyped
  <2> QED
    BY <2>1, NumbersInOrder
<1>4. \A j \in DOMAIN window : \E k \in DOMAIN seqs : seqs[k] = window[j]
  BY <1>2, <1>3
<1>5. 1 \in DOMAIN window
  BY <1>2
<1> HIDE DEF window, seqs
<1>6. seqs # <<>>
  BY <1>4, <1>5
<1>7. ~ check_concat_layout(files)
  <2> SUFFICES ASSUME check_concat_layout(files) PROVE FALSE
    OBVIOUS
  <2>1. \A k \in DOMAIN seqs : files[k] = disk[seqs[k]] /\ files[k].whole /\ Layout(files[k]) = Layout(files[1])
    BY DEF check_concat_layout
  <2> DEFINE f == FilesOf(window, disk)
  <2>2. DOMAIN f = DOMAIN window /\ f # <<>> /\ \A j \in DOMAIN window : f[j] = disk[window[j]]
    BY <1>5 DEF FilesOf
  <2> HIDE DEF f, files
  <2>3. \A j \in DOMAIN window : f[j].whole /\ Layout(f[j]) = Layout(files[1])
    <3> SUFFICES ASSUME NEW j \in DOMAIN window PROVE f[j].whole /\ Layout(f[j]) = Layout(files[1])
      OBVIOUS
    <3>1. PICK k \in DOMAIN seqs : seqs[k] = window[j]
      BY <1>4
    <3>2. f[j] = files[k]
      BY <2>1, <2>2, <3>1
    <3> QED
      BY <2>1, <3>2
  <2>4. check_concat_layout(f)
    BY <1>5, <2>2, <2>3 DEF check_concat_layout
  <2> QED
    BY <1>2, <2>4 DEF f
<1> QED
  BY <1>1, <1>6, <1>7

\* Every step keeps the clips.
LEMMA ClipsStep ==
    ASSUME FilesInv, SegmentsInv, ClipsAre, FilesNext
    PROVE  ClipsAre'
<1>1. Moves(World, World')
  BY TheWorldMoves
<1>2. \A i \in DOMAIN clips : /\ clips[i].stage = "waiting" => session = "running"
                              /\ clips[i].stage = "splicing" => session \in {"running", "stopping"}
                              /\ clips[i].stage = "lost" => session \notin {"copied", "empty", "finished"}
  BY DEF ClipsAre, ClipIs, ClipWaits, ClipIsSpliced, ClipIsLost, World
<1>3. CASE OpenSegment \/ EncoderHangs \/ Scan
  <2>1. clips' = clips /\ session' = session /\ media' = media
    BY <1>3 DEF OpenSegment, EncoderHangs, Scan
  <2>2. \A i \in DOMAIN clips : Undisturbed(clips[i])
    BY <1>2, <2>1 DEF Undisturbed
  <2> QED
    BY <1>1, <2>1, <2>2, TheClipsStay
<1>4. CASE WriteMedia
  <2>1. clips' = Waited /\ session' = session /\ media' = media + 1
    BY <1>4 DEF WriteMedia
  <2> QED
    BY <1>1, <2>1, WaitingGoesOn
<1>5. CASE WaitInVain
  <2>1. clips' = Waited /\ session' = session /\ child'.state # "running"
    BY <1>5 DEF WaitInVain
  <2> QED
    BY <1>1, <2>1, WaitingGoesOn
<1>6. CASE TakeClip
  BY <1>1, <1>6, TakingKeepsClips
<1>7. CASE PostRollArrives
  BY <1>1, <1>7, ArrivingKeepsClips
<1>8. CASE PostRollExpires
  BY <1>1, <1>8, ExpiringKeepsClips
<1>9. CASE SpliceEnds
  BY <1>1, <1>9, SplicingKeepsClips
<1>10. CASE StopRecording
  BY <1>1, <1>10, StoppingKeepsClips
<1>11. CASE FlushEncoder \/ IndexAll
  <2>1. /\ clips' = clips /\ session' \in {"flushed", "indexed"}
        /\ (session = "stopping" /\ ClipsAreDone) \/ session = "flushed"
    BY <1>11 DEF FlushEncoder, IndexAll
  <2>2. \A i \in DOMAIN clips : Undisturbed(clips[i])
    BY <1>2, <2>1 DEF Undisturbed, ClipsAreDone
  <2> QED
    BY <1>1, <2>1, <2>2, TheClipsStay
<1>12. CASE Finalise
  <2>1. clips' = clips /\ session = "indexed"
    BY <1>12 DEF Finalise
  <2>2. \A i \in DOMAIN clips : clips[i].stage = "lost" => session' = "kept"
    BY <1>12, NothingIsLostInACopy
  <2>3. \A i \in DOMAIN clips : Undisturbed(clips[i])
    BY <1>2, <2>1, <2>2 DEF Undisturbed
  <2> QED
    BY <1>1, <2>1, <2>3, TheClipsStay
<1>13. CASE RemoveSegments
  <2>1. clips' = clips /\ session \in {"copied", "empty"}
    BY <1>13 DEF RemoveSegments
  <2>2. \A i \in DOMAIN clips : Undisturbed(clips[i])
    BY <1>2, <2>1 DEF Undisturbed
  <2> QED
    BY <1>1, <2>1, <2>2, TheClipsStay
<1> QED
  BY <1>3, <1>4, <1>5, <1>6, <1>7, <1>8, <1>9, <1>10, <1>11, <1>12, <1>13 DEF FilesNext

\* The invariant says what a clip has to be.
LEMMA TheClipsComeOut == ClipsAre => ClipsComeOut
<1> SUFFICES ASSUME ClipsAre, NEW i \in DOMAIN clips
             PROVE  /\ ClipCovers(clips[i])
                    /\ clips[i].stage = "expired" => child.state # "running"
                    /\ clips[i].stage = "lost" => session # "finished" /\ \E s \in Range(clips[i].window) : disk[s].old
  BY DEF ClipsComeOut
<1> DEFINE c == clips[i]
<1>1. c \in Clip /\ ClipIs(c, World)
  BY DEF ClipsAre
<1> HIDE DEF c
<1>2. ClipCovers(c)
  <2>1. Covers(c, origin, Min(DOMAIN ledger))
    BY <1>1 DEF ClipIs, World
  <2> QED
    BY <2>1 DEF Covers, ClipCovers
<1>3. c.stage = "expired" => child.state # "running"
  BY <1>1 DEF ClipIs, ClipIsGivenUp, World
<1>4. c.stage = "lost" => session # "finished" /\ \E s \in Range(c.window) : disk[s].old
  <2>1. c.stage = "lost" => session # "finished" /\ \E k \in DOMAIN c.window : disk[c.window[k]].old
    BY <1>1 DEF ClipIs, ClipIsLost, World
  <2> QED
    BY <2>1 DEF Range
<1> QED
  BY <1>2, <1>3, <1>4 DEF c

\* A run starts with no clip and no file.
LEMMA TheRestStarts == FilesInit => Saving /\ ClipsAre
<1> SUFFICES ASSUME FilesInit PROVE Saving /\ ClipsAre
  OBVIOUS
<1>1. session = "running" /\ out = NoFile /\ clips = <<>>
  BY DEF FilesInit
<1>2. Saving
  BY <1>1 DEF Saving
<1>3. <<>> \in Seq(Clip) /\ DOMAIN <<>> = {}
  OBVIOUS
<1> QED
  BY <1>1, <1>2, <1>3 DEF ClipsAre

-----------------------------------------------------------------------------
(* The file saved beside a replay buffer.                                   *)

(* The file and the queue behind it are the stream's beginning, all of what *)
(* was read while nobody has said why not.                                  *)
SinkTyped ==
    /\ fed \in Nat /\ part \in Seq(Int) /\ queue \in Seq(Int)
    /\ \A i \in 1..Len(part) : part[i] = i
    /\ \A i \in 1..Len(queue) : queue[i] = Len(part) + i
WhatIsMissingIsSaid ==
    /\ sinkWhy = "none" /\ ringWhy = "none" => Len(part) + Len(queue) = fed
    /\ tx /\ writer = "writing" => Len(part) + Len(queue) = fed
    /\ tx /\ writer # "writing" => sinkWhy # "none"
    /\ reader = "reading" /\ ~ tx => sinkWhy # "none"
EndsInOrder ==
    /\ writer # "writing" => queue = <<>>
    /\ ending # "recording" => reader # "reading" /\ writer # "writing"
    /\ ending = "closed" => saved = part
SinkInv == SinkTyped /\ WhatIsMissingIsSaid /\ EndsInOrder

\* What a queue is with one more at its end ...
LEMMA AppendNext ==
    ASSUME NEW q \in Seq(Int), NEW x \in Int
    PROVE  /\ Append(q, x) \in Seq(Int) /\ Len(Append(q, x)) = Len(q) + 1
           /\ \A i \in 1..(Len(q) + 1) : Append(q, x)[i] = IF i = Len(q) + 1 THEN x ELSE q[i]
OBVIOUS

\* ... and with its first taken.
LEMMA TailOfQueue ==
    ASSUME NEW q \in Seq(Int), q # <<>>
    PROVE  /\ Head(q) = q[1] /\ q[1] \in Int /\ Len(q) \in Nat /\ Len(q) > 0
           /\ Tail(q) \in Seq(Int) /\ Len(Tail(q)) = Len(q) - 1
           /\ \A i \in 1..(Len(q) - 1) : Tail(q)[i] = q[i + 1]
OBVIOUS

\* The reader hands a chunk on, or says why it does not.
LEMMA ReadStep ==
    ASSUME SinkInv, ReadChunk
    PROVE  SinkInv'
<1> USE DEF SinkInv, SinkTyped
<1>1. /\ reader = "reading" /\ fed' = fed + 1 /\ queue' = (IF Queued THEN Append(queue, fed') ELSE queue)
      /\ sinkWhy' = SinkWhyAfter
      /\ UNCHANGED <<writer, part, ending, saved>>
  BY DEF ReadChunk
<1>2. \/ (tx' <=> Queued) /\ reader' = reader /\ ringWhy' = ringWhy
      \/ ~ tx' /\ reader' = "done" /\ ringWhy' = "unparsable"
  BY Zenon DEF ReadChunk, FeedAfter
<1>3. Queued => tx /\ writer = "writing"
  BY DEF Queued
<1>4. SinkWhyAfter = "none" <=> sinkWhy = "none" /\ ~ (tx /\ writer = "writing" /\ ~ Queued)
  BY DEF SinkWhyAfter, record_sink_failure
<1> HIDE DEF SinkInv
<1>5. CASE Queued
  <2>1. queue' = Append(queue, fed + 1) /\ Len(part) + Len(queue) = fed
    BY <1>1, <1>3, <1>5 DEF SinkInv, WhatIsMissingIsSaid
  <2>2. Len(queue') = Len(queue) + 1 /\ queue' \in Seq(Int)
        /\ \A i \in 1..(Len(queue) + 1) : queue'[i] = IF i = Len(queue) + 1 THEN fed + 1 ELSE queue[i]
    BY <2>1, AppendNext DEF SinkInv
  <2>3. SinkTyped' /\ Len(part') + Len(queue') = fed'
    <3>1. part' = part /\ fed' = fed + 1 /\ Len(part) \in Nat /\ Len(queue) \in Nat
      BY <1>1 DEF SinkInv
    <3>2. ASSUME NEW i \in 1..(Len(queue) + 1)
          PROVE  queue'[i] = Len(part) + i
      <4>1. CASE i = Len(queue) + 1
        BY <2>1, <2>2, <3>1, <4>1
      <4>2. CASE i # Len(queue) + 1
        <5>1. i \in 1..Len(queue) /\ queue'[i] = queue[i]
          BY <2>2, <3>1, <4>2
        <5> QED
          BY <5>1 DEF SinkInv
      <4> QED
        BY <4>1, <4>2
    <3> QED
      BY <2>1, <2>2, <3>1, <3>2 DEF SinkInv
  <2> QED
    BY <1>1, <1>2, <1>3, <1>4, <1>5, <2>3 DEF SinkInv, WhatIsMissingIsSaid, EndsInOrder
<1>6. CASE ~ Queued
  <2>1. queue' = queue /\ part' = part
    BY <1>1, <1>6
  <2>2. SinkTyped'
    BY <1>1, <2>1 DEF SinkInv
  <2>3. ~ tx'
    BY <1>2, <1>6, Zenon
  <2>4. reader' = "reading" => sinkWhy' # "none"
    BY <1>1, <1>4, <1>6, Zenon DEF SinkInv, WhatIsMissingIsSaid
  <2>5. EndsInOrder'
    BY <1>1, <2>1 DEF SinkInv, EndsInOrder
  <2>6. sinkWhy' = "none" => ringWhy' # "none"
    BY <1>1, <1>2, <2>4
  <2> QED
    BY <2>2, <2>3, <2>4, <2>5, <2>6 DEF SinkInv, WhatIsMissingIsSaid
<1> QED
  BY <1>5, <1>6

\* The writer writes the next chunk, or says why it stops.
LEMMA WriteStep ==
    ASSUME SinkInv, WriteChunk
    PROVE  SinkInv'
<1> USE DEF SinkInv, SinkTyped
<1>1. /\ writer = "writing" /\ queue # <<>>
      /\ UNCHANGED <<fed, reader, ringWhy, ending, saved>> /\ (tx' <=> tx)
  BY DEF WriteChunk
<1>2. CASE part' = Append(part, Head(queue)) /\ queue' = Tail(queue) /\ UNCHANGED <<writer, sinkWhy>>
  <2>1. Head(queue) = Len(part) + 1
    BY <1>1, TailOfQueue
  <2>2. Len(part') = Len(part) + 1 /\ Len(queue') = Len(queue) - 1
    BY <1>1, <1>2, <2>1, AppendNext, TailOfQueue
  <2>3. part' \in Seq(Int) /\ \A i \in 1..Len(part') : part'[i] = i
    BY <1>2, <2>1, <2>2, AppendNext
  <2>4. queue' \in Seq(Int) /\ \A i \in 1..Len(queue') : queue'[i] = Len(part') + i
    BY <1>1, <1>2, <2>2, TailOfQueue
  <2>5. Len(part') + Len(queue') = Len(part) + Len(queue)
    BY <2>2
  <2> QED
    BY <1>1, <1>2, <2>3, <2>4, <2>5 DEF WhatIsMissingIsSaid, EndsInOrder
<1>3. CASE /\ writer' = "done" /\ queue' = <<>>
           /\ sinkWhy' = record_sink_failure("write") /\ part' = part
  <2>1. sinkWhy' # "none"
    BY <1>3 DEF record_sink_failure
  <2> QED
    BY <1>1, <1>3, <2>1 DEF WhatIsMissingIsSaid, EndsInOrder
<1> QED
  BY <1>2, <1>3 DEF WriteChunk

\* Every step keeps what is saved beside a replay buffer a beginning.
LEMMA SinkStep ==
    ASSUME SinkInv, SinkNext
    PROVE  SinkInv'
<1>1. CASE ReadChunk
  BY <1>1, ReadStep
<1>2. CASE WriteChunk
  BY <1>2, WriteStep
<1>3. CASE EndOfStream
  BY <1>3 DEF EndOfStream, SinkInv, SinkTyped, WhatIsMissingIsSaid, EndsInOrder
<1>4. CASE WriterEnds
  <2>1. /\ queue = <<>> /\ writer = "writing" /\ writer' = "done" /\ ~ tx /\ ~ tx'
        /\ sinkWhy # "none" => sinkWhy' # "none"
        /\ UNCHANGED <<fed, reader, ringWhy, queue, part, ending, saved>>
    BY <1>4 DEF WriterEnds, record_sink_failure
  <2> QED
    BY <2>1 DEF SinkInv, SinkTyped, WhatIsMissingIsSaid, EndsInOrder
<1>5. CASE report_session_size
  BY <1>5 DEF report_session_size, SinkInv, SinkTyped, WhatIsMissingIsSaid, EndsInOrder
<1>6. CASE JoinRing \/ FinishSaved
  BY <1>6 DEF JoinRing, Joined, FinishSaved, SinkInv, SinkTyped, WhatIsMissingIsSaid, EndsInOrder
<1> QED
  BY <1>1, <1>2, <1>3, <1>4, <1>5, <1>6 DEF SinkNext


-----------------------------------------------------------------------------
IInv == PumpInv /\ ClockInv /\ FilesInv /\ SinkInv

\* The first invariant holds at the start ...
LEMMA InitIInv == MCInit => IInv
<1> SUFFICES ASSUME MCInit PROVE IInv
  OBVIOUS
<1>1. Interval \in Int /\ Interval > 0
  BY CaptureAssumption
<1>2. ClockInit /\ FilesInit /\ SinkInit /\ \E delivers : CaptureInit(delivers)
  BY DEF MCInit, PartsInit
<1>3. PumpInv
  BY <1>1, <1>2 DEF CaptureInit, PumpInv, PumpTyped, Places, ReportIsToCome, FramesAreClosed, PaceInv,
     SlotIsDue, AheadOfTheSlot, NotStarted, PaceIsKept
<1>4. ClockInv
  BY <1>2 DEF ClockInit, ClockInv, Times, NoStamp, TimelineKeepsItsRate
<1>5. FilesInv
  BY <1>2, FilesStart
<1>6. SinkInv
  BY <1>2 DEF SinkInit, SinkInv, SinkTyped, WhatIsMissingIsSaid, EndsInOrder
<1> QED
  BY <1>3, <1>4, <1>5, <1>6 DEF IInv

\* ... every step keeps it ...
LEMMA NextIInv == IInv /\ [MCNext]_pipelineVars => IInv' /\ [NoOldIsTouched]_filesVars
<1> SUFFICES ASSUME IInv, [MCNext]_pipelineVars PROVE IInv' /\ [NoOldIsTouched]_filesVars
  OBVIOUS
<1>1. \/ CaptureNext
      \/ UNCHANGED <<now, arrivals, taken, pump, next_due, commits, pool, arrived>>
  BY DEF MCNext, pipelineVars, captureVars, poolVars
<1>2. ClockNext \/ (UNCHANGED <<wall, stamped, last, anchor>> /\ agreed' = agreed)
  BY Zenon DEF MCNext, pipelineVars, clockVars
<1>3. FilesNext \/ UNCHANGED filesVars
  BY Zenon DEF MCNext, pipelineVars
<1>4. SinkNext \/ UNCHANGED sinkVars
  BY Zenon DEF MCNext, pipelineVars
<1>5. PumpInv'
  <2>1. CASE CaptureNext
    BY <2>1, PumpTypedStep, ReportStep, PaceStep DEF IInv, PumpInv
  <2>2. CASE UNCHANGED <<now, arrivals, taken, pump, next_due, commits, pool, arrived>>
    BY <2>2 DEF IInv, PumpInv, PumpTyped, ReportIsToCome, FramesAreClosed, PaceInv, SlotIsDue,
       AheadOfTheSlot, NotStarted, PaceIsKept
  <2> QED
    BY <1>1, <2>1, <2>2
<1>6. ClockInv'
  <2>1. CASE ClockNext
    BY <2>1, ClockStep DEF IInv
  <2>2. CASE UNCHANGED <<wall, stamped, last, anchor>> /\ agreed' = agreed
    BY <2>2 DEF IInv, ClockInv, TimelineKeepsItsRate
  <2> QED
    BY <1>2, <2>1, <2>2
<1>7. FilesInv' /\ [NoOldIsTouched]_filesVars
  <2>1. CASE FilesNext
    BY <2>1, FilesStep DEF IInv
  <2>2. CASE UNCHANGED filesVars
    BY <2>2 DEF filesVars, IInv, FilesInv, FilesTyped, WritesPastTheRest, LedgerIsOnDisk
  <2> QED
    BY <1>3, <2>1, <2>2
<1>8. SinkInv'
  <2>1. CASE SinkNext
    BY <2>1, SinkStep DEF IInv
  <2>2. CASE UNCHANGED sinkVars
    BY <2>2 DEF sinkVars, IInv, SinkInv, SinkTyped, WhatIsMissingIsSaid, EndsInOrder
  <2> QED
    BY <1>4, <2>1, <2>2
<1> QED
  BY <1>5, <1>6, <1>7, <1>8 DEF IInv

\* ... so it always holds.
LEMMA IInvHolds == MCSpec => []IInv
BY InitIInv, NextIInv, PTL DEF MCSpec

(* Taking frames costs no time and the frames keep theirs: the pump never   *)
(* sleeps beside a frame nobody will report and closes every frame it took, *)
(* the pacer neither bursts after a stall nor lets a slot pass, and the     *)
(* timeline runs at the wall clock's rate within a factor of two, exactly   *)
(* the compositor's while its stamps are plausible.                         *)
THEOREM TheCaptureKeepsTime == MCSpec => []CaptureKeepsTime
<1>1. IInv => CaptureKeepsTime
  BY DEF IInv, PumpInv, ReportIsToCome, FramesAreClosed, PaceInv, ClockInv, CaptureKeepsTime,
     CaptureIsNotStarved
<1> QED
  BY <1>1, IInvHolds, PTL

(* Whatever an earlier run left in the directory, no step of this one writes *)
(* over a segment of it: the numbering continues past the disk's and the    *)
(* ledger's (next_segment_number, SessionRing's start).                     *)
THEOREM NoSegmentIsWrittenTwice == MCSpec => NothingIsWrittenTwice
<1>1. IInv /\ [MCNext]_pipelineVars =>
        [\A s \in DOMAIN disk : disk[s].old => s \notin DOMAIN disk' \/ disk'[s] = disk[s]]_filesVars
  BY NextIInv, Zenon DEF NoOldIsTouched
<1> QED
  BY <1>1, IInvHolds, PTL DEF MCSpec, NothingIsWrittenTwice

(* What the ledger of a session lists is on the disk with the bytes it says, *)
(* and while the encoder runs it is finished (SessionRing::scan, scan_all). *)
THEOREM TheLedgerIsTrue == MCSpec => []LedgerIsTrue
<1>1. IInv => LedgerIsTrue
  BY DEF IInv, FilesInv, WritesPastTheRest, LedgerIsOnDisk, LedgerIsTrue
<1> QED
  BY <1>1, IInvHolds, PTL

(* What is saved beside a replay buffer is the beginning of the stream, and *)
(* when it is not all of it the writer or the reader has said why           *)
(* (SinkFeed, record_sink_failure).                                         *)
THEOREM TheSavedSessionIsAPrefix == MCSpec => []SavedSessionIsAPrefix
<1>1. ASSUME IInv PROVE SavedSessionIsAPrefix
  <2>1. part = [i \in 1..Len(part) |-> i]
    <3>1. part \in Seq(Int) /\ \A i \in 1..Len(part) : part[i] = i
      BY <1>1 DEF IInv, SinkInv, SinkTyped
    <3> QED
      BY <3>1
  <2>2. ending \in {"closed", "left"} /\ Len(part) < fed => sinkWhy # "none" \/ ringWhy # "none"
    <3>1. ending \in {"closed", "left"} => queue = <<>>
      BY <1>1 DEF IInv, SinkInv, EndsInOrder
    <3>2. part \in Seq(Int) /\ fed \in Nat
      BY <1>1 DEF IInv, SinkInv, SinkTyped
    <3> QED
      BY <1>1, <3>1, <3>2 DEF IInv, SinkInv, WhatIsMissingIsSaid
  <2> QED
    BY <1>1, <2>1, <2>2 DEF IInv, SinkInv, EndsInOrder, SavedSessionIsAPrefix
<1> QED
  BY <1>1, IInvHolds, PTL

(* The second invariant: where the segments lie and what they hold, what a  *)
(* clip is held against, and what the session file will be.                 *)
FollowInv == SegmentsInv /\ Saving /\ ClipsAre

\* Every step keeps the second invariant.
LEMMA FollowInvStep == IInv /\ FollowInv /\ [MCNext]_pipelineVars => FollowInv'
<1> SUFFICES ASSUME IInv, FollowInv, [MCNext]_pipelineVars PROVE FollowInv'
  OBVIOUS
<1>1. FilesNext \/ UNCHANGED filesVars
  BY Zenon DEF MCNext, pipelineVars
<1>2. CASE FilesNext
  BY <1>2, SegmentsStep, SavingStep, ClipsStep DEF IInv, FollowInv
<1>3. CASE UNCHANGED filesVars
  <2>1. UNCHANGED <<disk, ledger, highest, origin, child, media, looked, clips, session, out>>
    BY <1>3 DEF filesVars
  <2>2. SegmentsInv'
    <3>1. session \in Endings /\ looked \in BOOLEAN
      BY DEF FollowInv, SegmentsInv, NumbersTyped
    <3> QED
      BY <2>1, <3>1, TheRestKeepsSegments DEF FollowInv
  <2>3. Saving'
    <3>1. ThisRun' = ThisRun /\ FirstSeq' = FirstSeq
      BY <2>1 DEF ThisRun, FirstSeq, start_ms
    <3>2. [s \in ThisRun |-> ledger[s]]' = [s \in ThisRun |-> ledger[s]]
      BY <2>1, <3>1
    <3>3. total_bytes([s \in ThisRun |-> ledger[s]])' = total_bytes([s \in ThisRun |-> ledger[s]])
          /\ InOrder(DOMAIN ledger)' = InOrder(DOMAIN ledger)
      BY <2>1, <3>2
    <3> QED
      BY <2>1, <3>1, <3>3 DEF FollowInv, Saving, NoFile
  <2>4. ClipsAre'
    <3>1. World' = World
      BY <2>1 DEF World
    <3> QED
      BY <2>1, <3>1 DEF FollowInv, ClipsAre
  <2> QED
    BY <2>2, <2>3, <2>4 DEF FollowInv
<1> QED
  BY <1>1, <1>2, <1>3

(* Whatever an earlier run left in the directory, so long as its segments   *)
(* follow one another as ffmpeg numbers them, and whatever clips and faults *)
(* there are: the ledger is on the disk; a clip covers what it was asked    *)
(* for and is given up only behind a dead encoder, or lost only with footage *)
(* of the earlier run; the session file is all that was recorded, in order  *)
(* and once; and what is saved beside a replay buffer is its beginning      *)
(* (SessionRing, window::resolve, ClipSplicer::splice, session::finalise).  *)
THEOREM FootageIsAlwaysAccountedFor == EarlierFollows => (MCSpec => []FootageIsAccountedFor)
<1> SUFFICES ASSUME EarlierFollows PROVE MCSpec => []FootageIsAccountedFor
  OBVIOUS
<1>1. MCInit => FollowInv
  BY SegmentsStart, TheRestStarts DEF MCInit, PartsInit, FollowInv
<1>2. IInv /\ FollowInv /\ [MCNext]_pipelineVars => FollowInv'
  BY FollowInvStep
<1>3. FollowInv => ClipsComeOut /\ SessionFileIsTheRecording
  BY TheClipsComeOut, TheFileIsTheRecording DEF FollowInv
<1>4. MCSpec => []ClipsComeOut /\ []SessionFileIsTheRecording
  BY <1>1, <1>2, <1>3, IInvHolds, PTL DEF MCSpec
<1>5. LedgerIsTrue /\ ClipsComeOut /\ SessionFileIsTheRecording /\ SavedSessionIsAPrefix => FootageIsAccountedFor
  BY DEF FootageIsAccountedFor
<1> QED
  BY <1>4, <1>5, TheLedgerIsTrue, TheSavedSessionIsAPrefix, PTL
=============================================================================
