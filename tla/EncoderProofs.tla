--------------------------- MODULE EncoderProofs ---------------------------
(* What a recording is started from, proved for every set of options and     *)
(* encoders, every machine of drivers, every depth of a queue and any number *)
(* of chords: the handshake of a start and what it promises, the transforms  *)
(* opened for it, the child that writes it, and the chords that start it;    *)
(* and the ring that holds what the child wrote, for every cap, window,      *)
(* fragment size and stream.  MCSpec is the former's, Spec is the ring's.    *)
EXTENDS MCEncoder, MemoryRing, FiniteSetTheorems, SequenceTheorems, TLAPS

-----------------------------------------------------------------------------
(* The chords. *)

(* The thread holds the chords it has passed while it registers, all of them *)
(* while it listens, none once it was refused; and what was answered is      *)
(* what it was then, until a press finds nobody.                             *)
ShellInv ==
    /\ next \in Int /\ next >= 1 /\ DOMAIN chord = Numbers
    /\ listener \in {"registering", "listening", "refused"}
    /\ \A n \in Numbers :
          /\ listener = "registering" => (chord[n] = "us" <=> n < next)
          /\ listener = "listening" => chord[n] = "us"
          /\ listener = "refused" => chord[n] # "us"
    /\ told = "unanswered" => "forwarder" \in receivers
    /\ told = "refused" => listener = "refused"
    /\ told = "installed" /\ "forwarder" \in receivers => listener = "listening"

LEMMA NumbersAreCounted == Len(Chords) \in Nat /\ \A n \in Numbers : n \in Int /\ n >= 1 /\ n <= Len(Chords)
BY ShellAssumption DEF Numbers

LEMMA ShellStart == ShellInit => ShellInv
<1> SUFFICES ASSUME ShellInit PROVE ShellInv
  OBVIOUS
<1>1. DOMAIN chord = Numbers /\ \A n \in Numbers : chord[n] # "us" /\ n >= 1
  <2>1. chord \in [Numbers -> {"free", "other"}]
    BY DEF ShellInit
  <2> QED
    BY <2>1, NumbersAreCounted
<1>2. \A n \in Numbers : n \in Int
  BY NumbersAreCounted
<1> QED
  BY <1>1, <1>2 DEF ShellInit, ShellInv

LEMMA ReleasedHoldsNone ==
    DOMAIN Released = Numbers /\ \A n \in Numbers : Released[n] # "us"
BY DEF Released

LEMMA ShellStep == ShellInv /\ [ShellNext]_shellVars => ShellInv'
<1> SUFFICES ASSUME ShellInv, [ShellNext]_shellVars PROVE ShellInv'
  OBVIOUS
<1>1. CASE Registers
  <2>1. listener' = listener /\ receivers' = receivers /\ told' = told /\ next' = next + 1
        /\ listener = "registering" /\ next \in Numbers
        /\ DOMAIN chord' = Numbers /\ chord'[next] = "us" /\ \A n \in Numbers : n # next => chord'[n] = chord[n]
    BY <1>1 DEF Registers, ShellInv
  <2>2. \A n \in Numbers : n \in Int
    BY DEF Numbers
  <2> QED
    BY <2>1, <2>2, Numbers' = Numbers DEF ShellInv
<1>2. CASE RegisterFails
  BY <1>2, ReleasedHoldsNone DEF RegisterFails, ShellInv, Numbers
<1>3. CASE AllRegistered
  <2>1. next \in Int /\ next >= 1
    BY DEF ShellInv
  <2>2. next \notin 1..Len(Chords)
    BY <1>3, Zenon DEF AllRegistered, Numbers
  <2>3. next > Len(Chords)
    BY <2>1, <2>2, NumbersAreCounted
  <2>4. \A n \in Numbers : n < next
    BY <2>1, <2>3, NumbersAreCounted
  <2> QED
    BY <1>3, <2>4 DEF AllRegistered, ShellInv, Numbers
<1>4. CASE InstallAnswered
  BY <1>4 DEF InstallAnswered, ShellInv, Numbers
<1>5. CASE WiringFails
  BY <1>5 DEF WiringFails, ShellInv, Numbers
<1>6. CASE PressChord
  BY <1>6, ReleasedHoldsNone DEF PressChord, ShellInv, Numbers
<1>7. CASE OthersTakeOrLeave
  BY <1>7 DEF OthersTakeOrLeave, ShellInv, Numbers
<1>8. CASE UNCHANGED <<chord, listener, next, told, receivers>>
  BY <1>8 DEF ShellInv, Numbers
<1>9. [Keys \/ UNCHANGED <<chord, listener, next, told, receivers>>]_shellVars
  BY DEF ShellNext, AnswersPress, keyVars
<1>10. UNCHANGED shellVars => UNCHANGED <<chord, listener, next, told, receivers>>
  BY DEF shellVars, keyVars
<1> QED
  BY <1>1, <1>2, <1>3, <1>4, <1>5, <1>6, <1>7, <1>8, <1>9, <1>10 DEF Keys

-----------------------------------------------------------------------------
(* The start of a recording: what it leaves behind.                         *)

Sources == {"start_mic", "start_capture", "start_audio"}
BeforeRow == {"dir", "mic", "sources", "config", "rate", "encoder", "row"}
Places == {"idle", "recording", "engine"} \cup BeforeRow \cup Sources

StartTyped ==
    /\ opt \in Options /\ at \in Places /\ start \in 0..MaxStarts
    /\ at # "idle" => start \in Starts
    /\ DOMAIN rows = Starts /\ DOMAIN failedAt = Starts
    /\ DOMAIN status = {"running", "error"}

(* The connection is in its slot, with the handshake, or with the engine.   *)
StoreIsSomewhere ==
    /\ at = "idle" => store = "slot"
    /\ at \notin {"idle", "recording"} => store = "guard"
    /\ status.running = IF at = "recording" THEN start ELSE 0

(* What is known of each handshake: nothing of those to come, that the one  *)
(* under way has not failed, and that a directory is there only for a       *)
(* recording that has one of its own.                                       *)
HandshakesAreKnown ==
    \A k \in Starts :
       /\ k > start => rows[k] = "none" /\ failedAt[k] = "nowhere" /\ k \notin dirs
       /\ k \in dirs => OwnDir
       /\ k = start /\ at # "idle" =>
             /\ failedAt[k] = "nowhere"
             /\ rows[k] = IF at \in BeforeRow THEN "none" ELSE "open"
             /\ OwnDir /\ at # "dir" => k \in dirs
NothingIsLeft ==
    \A k \in Starts :
       /\ rows[k] = "open" => (k = start /\ at # "idle") \/ failedAt[k] = "thread"
       /\ rows[k] = "none" /\ failedAt[k] = "row" => k \notin dirs
       /\ failedAt[k] \in Sources => k \notin dirs
HandshakeInv == StartTyped /\ StoreIsSomewhere /\ HandshakesAreKnown /\ NothingIsLeft

LEMMA HandshakeStart == StartInit => HandshakeInv
<1> SUFFICES ASSUME StartInit PROVE HandshakeInv
  OBVIOUS
<1>1. MaxStarts \in Nat
  BY StartAssumption
<1> QED
  BY <1>1 DEF StartInit, HandshakeInv, StartTyped, StoreIsSomewhere, HandshakesAreKnown, NothingIsLeft,
     Places, Starts, Sources

(* The ways a handshake goes wrong.                                         *)
LEMMA FailedHandshake ==
    ASSUME HandshakeInv, Fails, status' = status, at \notin {"idle", "recording", "engine"},
           \/ at \in BeforeRow /\ at # "row" /\ dirs' = dirs /\ rows' = rows
           \/ at = "row" /\ RemoveOwnDir /\ rows' = rows
           \/ at \in Sources /\ RemoveOwnDir /\ rows' = [rows EXCEPT ![start] = "ended"]
    PROVE  HandshakeInv'
<1>1. at' = "idle" /\ start' = start /\ opt' = opt /\ failedAt' = [failedAt EXCEPT ![start] = at]
  BY DEF Fails
<1>2. store' = "slot"
  BY DEF Fails, StoreGuardDrop, HandshakeInv, StoreIsSomewhere
<1>3. StartTyped'
  BY <1>1 DEF HandshakeInv, StartTyped, Places
<1>4. StoreIsSomewhere'
  BY <1>1, <1>2 DEF HandshakeInv, StoreIsSomewhere
<1>5. OwnDir' = OwnDir /\ start \in Starts /\ start \in Int /\ \A k \in Starts : k \in Int
  BY <1>1 DEF OwnDir, Full, SaveSession, HandshakeInv, StartTyped, Starts
<1>6. /\ \A k \in dirs' : k \in dirs
      /\ \A k \in dirs : k = start \/ k \in dirs'
      /\ at \notin BeforeRow \ {"row"} => start \notin dirs'
  BY <1>5 DEF RemoveOwnDir, HandshakeInv, HandshakesAreKnown, BeforeRow, Sources
<1>7. /\ \A k \in Starts : k # start => rows'[k] = rows[k] /\ failedAt'[k] = failedAt[k]
      /\ failedAt'[start] = at
      /\ rows'[start] = IF at \in Sources THEN "ended" ELSE "none"
  BY <1>1, <1>5 DEF HandshakeInv, StartTyped, HandshakesAreKnown, BeforeRow, Sources
<1>8. HandshakesAreKnown'
  BY <1>1, <1>5, <1>6, <1>7, Starts' = Starts DEF HandshakeInv, HandshakesAreKnown
<1>9. NothingIsLeft'
  BY <1>1, <1>5, <1>6, <1>7, Starts' = Starts DEF HandshakeInv, NothingIsLeft, BeforeRow, Sources
<1> QED
  BY <1>3, <1>4, <1>8, <1>9 DEF HandshakeInv

(* A step that goes well moves it on.                                       *)
LEMMA HandshakeMoves ==
    ASSUME HandshakeInv, at \notin {"idle", "recording"}, at' \in Places \ {"idle", "recording"},
           opt' = opt, start' = start, store' = store, status'.running = status.running,
           DOMAIN status' = DOMAIN status, failedAt' = failedAt,
           dirs' = IF at = "dir" /\ OwnDir THEN dirs \cup {start} ELSE dirs,
           at' # "dir",
           \/ at \in BeforeRow /\ at' \in BeforeRow /\ rows' = rows
           \/ at \notin BeforeRow /\ at' \notin BeforeRow /\ rows' = rows
           \/ at \in BeforeRow /\ at' \notin BeforeRow /\ rows' = [rows EXCEPT ![start] = "open"]
    PROVE  HandshakeInv'
<1>1. StartTyped' /\ StoreIsSomewhere'
  BY DEF HandshakeInv, StartTyped, StoreIsSomewhere
<1>2. OwnDir' = OwnDir /\ start \in Starts /\ start \in Int /\ \A k \in Starts : k \in Int
  BY DEF OwnDir, Full, SaveSession, HandshakeInv, StartTyped, Starts
<1>3. /\ \A k \in Starts : k # start => rows'[k] = rows[k] /\ (k \in dirs' <=> k \in dirs)
      /\ rows'[start] = IF at' \in BeforeRow THEN "none" ELSE "open"
      /\ OwnDir => start \in dirs'
      /\ start \in dirs' => OwnDir
  BY <1>2 DEF HandshakeInv, StartTyped, HandshakesAreKnown
<1>4. HandshakesAreKnown'
  BY <1>2, <1>3, Starts' = Starts DEF HandshakeInv, HandshakesAreKnown
<1>5. NothingIsLeft'
  BY <1>2, <1>3, Starts' = Starts DEF HandshakeInv, HandshakesAreKnown, NothingIsLeft, Sources
<1> QED
  BY <1>1, <1>4, <1>5 DEF HandshakeInv

LEMMA HandshakeStep == HandshakeInv /\ [StartNext]_startVars => HandshakeInv'
<1> SUFFICES ASSUME HandshakeInv, [StartNext]_startVars PROVE HandshakeInv'
  OBVIOUS
<1>1. CASE resolve_encoder
  <2>1. /\ at = "idle" /\ start < MaxStarts /\ store' = "slot" /\ at' = at /\ opt' = opt /\ status' = status
        /\ rows' = rows /\ dirs' = dirs
        /\ \/ start' = start /\ failedAt' = failedAt
           \/ start' = start + 1 /\ failedAt' = [failedAt EXCEPT ![start + 1] = "resolve"]
    BY <1>1 DEF resolve_encoder
  <2>2. MaxStarts \in Nat /\ start \in Int /\ start >= 0 /\ \A k \in Starts : k \in Int
    BY StartAssumption DEF HandshakeInv, StartTyped, Starts
  <2>3. OwnDir' = OwnDir /\ start + 1 \in Starts /\ Starts' = Starts
    BY <2>1, <2>2 DEF OwnDir, Full, SaveSession, Starts
  <2>4. StartTyped' /\ StoreIsSomewhere'
    BY <2>1, <2>2, <2>3 DEF HandshakeInv, StartTyped, StoreIsSomewhere
  <2>5. HandshakesAreKnown' /\ NothingIsLeft'
    BY <2>1, <2>2, <2>3 DEF HandshakeInv, StartTyped, HandshakesAreKnown, NothingIsLeft, Sources
  <2> QED
    BY <2>4, <2>5 DEF HandshakeInv
<1>2. CASE Begin
  <2>1. /\ at = "idle" /\ start < MaxStarts /\ store' = "guard" /\ at' = "dir" /\ opt' = opt /\ status' = status
        /\ rows' = rows /\ dirs' = dirs /\ start' = start + 1 /\ failedAt' = failedAt
    BY <1>2 DEF Begin
  <2>2. MaxStarts \in Nat /\ start \in Int /\ start >= 0 /\ \A k \in Starts : k \in Int
    BY StartAssumption DEF HandshakeInv, StartTyped, Starts
  <2>3. OwnDir' = OwnDir /\ start + 1 \in Starts /\ Starts' = Starts /\ start + 1 \in 0..MaxStarts
    BY <2>1, <2>2 DEF OwnDir, Full, SaveSession, Starts
  <2>4. StartTyped' /\ StoreIsSomewhere'
    BY <2>1, <2>3 DEF HandshakeInv, StartTyped, StoreIsSomewhere, Places, BeforeRow
  <2>5. HandshakesAreKnown' /\ NothingIsLeft'
    BY <2>1, <2>2, <2>3 DEF HandshakeInv, StartTyped, HandshakesAreKnown, NothingIsLeft, Sources, BeforeRow
  <2> QED
    BY <2>4, <2>5 DEF HandshakeInv
<1>3. CASE create_session_dir
  <2>1. CASE BreaksHere
    BY <1>3, <2>1, FailedHandshake DEF create_session_dir, BreaksHere, BeforeRow
  <2>2. CASE ~ BreaksHere
    <3>1. at = "dir" /\ at' = "mic" /\ DOMAIN status' = DOMAIN status /\ status'.running = status.running
      BY <1>3, <2>2 DEF create_session_dir, HandshakeInv, StartTyped
    <3> QED
      BY <1>3, <2>2, <3>1, HandshakeMoves DEF create_session_dir, BeforeRow, Places
  <2> QED
    BY <2>1, <2>2
<1>4. ASSUME /\ at \in BeforeRow \ {"dir", "row"} /\ (BreaksHere \/ Refused)
      PROVE  HandshakeInv'
  BY <1>4, FailedHandshake DEF BreaksHere, Refused, BeforeRow
<1>5. ASSUME at \in BeforeRow \ {"dir"}, at' \in BeforeRow \ {"dir"},
             UNCHANGED <<opt, start, store, status, failedAt, dirs, rows>>
      PROVE  HandshakeInv'
  BY <1>5, HandshakeMoves DEF BeforeRow, Places
<1>6. CASE build_microphone
  BY <1>4, <1>5, <1>6 DEF build_microphone, BeforeRow
<1>7. CASE build_sources
  BY <1>4, <1>5, <1>7 DEF build_sources, BeforeRow
<1>8. CASE build_encode_config
  BY <1>4, <1>5, <1>8 DEF build_encode_config, BeforeRow
<1>9. CASE Measure \/ Probing \/ DecideRate
  BY <1>5, <1>9 DEF Measure, Probing, DecideRate, BeforeRow, choiceVars
<1>10. CASE spawn_encoder
  BY <1>4, <1>5, <1>10 DEF spawn_encoder, BeforeRow
<1>11. CASE start_session
  <2>1. CASE Fails
    BY <1>11, <2>1, FailedHandshake DEF start_session, BeforeRow, Sources, Fails
  <2>2. CASE ~ Fails
    BY <1>11, <2>2, HandshakeMoves DEF start_session, BeforeRow, Places, Sources
  <2> QED
    BY <2>1, <2>2
<1>12. ASSUME NEW step \in Sources, NEW source, NEW following \in (Sources \cup {"engine"}),
              Starts1(step, source, following)
       PROVE  HandshakeInv'
  <2>1. CASE SourcesFail
    BY <1>12, <2>1, FailedHandshake DEF Starts1, SourcesFail, BeforeRow, Sources
  <2>2. CASE ~ SourcesFail
    BY <1>12, <2>2, HandshakeMoves DEF Starts1, BeforeRow, Places, Sources
  <2> QED
    BY <2>1, <2>2
<1>13. CASE StartMicrophone \/ StartCapture \/ StartAudio
  BY <1>12, <1>13 DEF StartMicrophone, StartCapture, StartAudio, Sources
<1>14. CASE SpawnEngine
  <2>1. /\ at = "engine" /\ at' = "recording" /\ store' = "engine" /\ opt' = opt /\ start' = start /\ rows' = rows
        /\ dirs' = dirs /\ failedAt' = failedAt /\ status' = [status EXCEPT !.running = start]
    BY <1>14 DEF SpawnEngine
  <2>2. OwnDir' = OwnDir /\ Starts' = Starts
    BY <2>1 DEF OwnDir, Full, SaveSession, Starts
  <2>3. StartTyped' /\ StoreIsSomewhere'
    BY <2>1, <2>2 DEF HandshakeInv, StartTyped, StoreIsSomewhere, Places
  <2>4. HandshakesAreKnown' /\ NothingIsLeft'
    BY <2>1, <2>2 DEF HandshakeInv, HandshakesAreKnown, NothingIsLeft, BeforeRow
  <2> QED
    BY <2>3, <2>4 DEF HandshakeInv
<1>15. ASSUME /\ at \in {"engine", "recording"} /\ at' = "idle" /\ store' = "slot"
              /\ opt' = opt /\ start' = start /\ dirs' = dirs
              /\ DOMAIN status' = DOMAIN status /\ status'.running = 0
              /\ \/ rows' = rows /\ failedAt' = [failedAt EXCEPT ![start] = "thread"]
                 \/ rows' = [rows EXCEPT ![start] = "ended"] /\ failedAt' = failedAt
       PROVE  HandshakeInv'
  <2>1. OwnDir' = OwnDir /\ Starts' = Starts /\ start \in Starts /\ start \in Int /\ \A k \in Starts : k \in Int
    BY <1>15 DEF OwnDir, Full, SaveSession, Starts, HandshakeInv, StartTyped
  <2>2. StartTyped' /\ StoreIsSomewhere'
    BY <1>15, <2>1 DEF HandshakeInv, StartTyped, StoreIsSomewhere, Places
  <2>3. /\ \A k \in Starts : k # start => rows'[k] = rows[k] /\ failedAt'[k] = failedAt[k]
        /\ \/ rows'[start] = rows[start] /\ failedAt'[start] = "thread"
           \/ rows'[start] = "ended" /\ failedAt'[start] = failedAt[start]
    BY <1>15, <2>1 DEF HandshakeInv, StartTyped
  <2>4. HandshakesAreKnown'
    BY <1>15, <2>1, <2>3 DEF HandshakeInv, HandshakesAreKnown
  <2>5. failedAt[start] = "nowhere" /\ rows[start] = "open"
    BY <1>15, <2>1 DEF HandshakeInv, HandshakesAreKnown, BeforeRow
  <2>6. NothingIsLeft'
    BY <1>15, <2>1, <2>3, <2>5 DEF HandshakeInv, NothingIsLeft, Sources
  <2> QED
    BY <2>2, <2>4, <2>6 DEF HandshakeInv
<1>16. CASE ThreadFails
  BY <1>15, <1>16 DEF ThreadFails, HandshakeInv, StartTyped
<1>17. CASE RecordingEnds
  BY <1>15, <1>17 DEF RecordingEnds, HandshakeInv, StartTyped
<1>18. CASE UNCHANGED startVars
  BY <1>18 DEF startVars, HandshakeInv, StartTyped, StoreIsSomewhere, HandshakesAreKnown, NothingIsLeft,
     OwnDir, Full, SaveSession, Starts
<1> QED
  BY <1>1, <1>2, <1>3, <1>6, <1>7, <1>8, <1>9, <1>10, <1>11, <1>13, <1>14, <1>16, <1>17, <1>18
  DEF StartNext, Handshake

-----------------------------------------------------------------------------
(* The first of a sequence that passes a test.                              *)

FromOn(S, i) == {j \in S : i <= j}

(* The members of a finite set of numbers rank differently, so one has all  *)
(* of them from itself on.                                                  *)
LEMMA SmallestIsThere ==
    ASSUME NEW S \in SUBSET Int, IsFiniteSet(S), S # {}
    PROVE  Min(S) \in S /\ \A j \in S : Min(S) <= j
<1> DEFINE T == 1..Cardinality(S)
           f == [i \in S |-> Cardinality(FromOn(S, i))]
<1>1. Cardinality(S) \in Nat /\ Cardinality(S) # 0
  BY FS_CardinalityType, FS_EmptySet
<1>2. ASSUME NEW i \in S
      PROVE  IsFiniteSet(FromOn(S, i)) /\ f[i] \in T
  <2>1. FromOn(S, i) \in SUBSET S /\ i \in FromOn(S, i)
    BY DEF FromOn
  <2>2. IsFiniteSet(FromOn(S, i)) /\ Cardinality(FromOn(S, i)) <= Cardinality(S)
    BY <2>1, FS_Subset
  <2>3. Cardinality(FromOn(S, i)) \in Nat /\ Cardinality(FromOn(S, i)) # 0
    BY <2>1, <2>2, FS_CardinalityType, FS_EmptySet
  <2> QED
    BY <1>1, <2>2, <2>3
<1>3. ASSUME NEW a \in S, NEW b \in S, a < b
      PROVE  f[a] # f[b]
  <2>1. \A x \in S : b <= x => a <= x
    BY <1>3
  <2>2. FromOn(S, b) \in SUBSET FromOn(S, a) /\ FromOn(S, a) # FromOn(S, b)
    <3>1. a \in FromOn(S, a) /\ a \notin FromOn(S, b)
      BY <1>3 DEF FromOn
    <3> QED
      BY <2>1, <3>1, Zenon DEF FromOn
  <2> QED
    BY <1>2, <2>2, FS_Subset
<1>4. f \in Injection(S, T)
  BY <1>2, <1>3 DEF Injection, IsInjective
<1>5. IsFiniteSet(T) /\ Cardinality(T) = Cardinality(S)
  BY <1>1, FS_Interval
<1>6. f \in Surjection(S, T)
  BY <1>4, <1>5, FS_Injection
<1>7. PICK m \in S : f[m] = Cardinality(S)
  <2>1. Cardinality(S) \in T
    BY <1>1
  <2> QED
    BY <1>6, <2>1, Zenon DEF Surjection
<1>8. \A j \in S : m <= j
  <2>1. FromOn(S, m) \in SUBSET S /\ Cardinality(FromOn(S, m)) = Cardinality(S)
    BY <1>7 DEF FromOn
  <2>2. FromOn(S, m) = S
    BY <2>1, FS_Subset
  <2> QED
    BY <2>2 DEF FromOn
<1> QED
  BY <1>8 DEF Min

(* The places of a sequence that pass a test, and the first of them.        *)
LEMMA FirstPlace ==
    ASSUME NEW n \in Nat, NEW I \in SUBSET (1..n)
    PROVE  IF I = {} THEN TRUE
           ELSE Min(I) \in I /\ \A j \in I : Min(I) <= j
<1>1. IsFiniteSet(1..n)
  BY FS_Interval
<1>2. IsFiniteSet(I)
  BY <1>1, FS_Subset
<1>3. I \in SUBSET Int
  OBVIOUS
<1> QED
  BY <1>2, <1>3, SmallestIsThere

-----------------------------------------------------------------------------
(* The start of a recording: what it promises.                              *)

LEMMA DecideBounds ==
    ASSUME NEW configured \in Nat, NEW adapt \in BOOLEAN, NEW measured \in Int
    PROVE  /\ decide(configured, adapt, measured) \in 1..AtLeastOne(configured)
           /\ adapt /\ measured \in Nat => decide(configured, adapt, measured) <= AtLeastOne(measured)
BY DEF decide, AtLeastOne

(* A measurement that says a rate had a child that ended well, or none.     *)
ProbeInv ==
    /\ DOMAIN probe = {"at", "path", "child", "writer", "clock", "startedAt", "frames", "window", "waited", "rate"}
    /\ probe.clock \in Nat /\ probe.frames \in Nat /\ probe.window \in Nat
    /\ probe.startedAt \in Int /\ probe.startedAt <= probe.clock
    /\ probe.rate \in Int
    /\ probe.rate \in Nat => probe.child \in {"none", "succeeded"} /\ probe.at # "measuring"
    /\ probe.path = "EncodedBitstream" => probe.child = "none"

LEMMA ProbeIsIdle == ASSUME probe' = IdleProbe PROVE ProbeInv'
BY DEF IdleProbe, ProbeInv, NoRate

LEMMA ProbeBegins ==
    ASSUME NEW path, ProbeStarts(path)
    PROVE  ProbeInv'
BY DEF ProbeStarts, measured_path, IdleProbe, ProbeInv, NoRate

LEMMA ProbeGoesOn == ASSUME ProbeInv, ProbeStep PROVE ProbeInv'
<1>1. CASE measure_hardware_encoder_fps
  <2>1. MaxFed \in Nat
    BY RateProbeAssumption
  <2>2. PICK rate \in {Unmeasured} \cup 1..MaxFed : probe' = [probe EXCEPT !.at = "done", !.rate = rate]
    BY <1>1 DEF measure_hardware_encoder_fps
  <2>3. rate \in Int /\ probe.child = "none"
    BY <1>1, <2>1 DEF measure_hardware_encoder_fps, Hardware, Unmeasured, ProbeInv
  <2> QED
    BY <2>2, <2>3 DEF ProbeInv
<1>2. CASE Feed
  BY <1>2 DEF Feed, Measuring, ProbeInv
<1>3. CASE WriterBreaks
  BY <1>3 DEF WriterBreaks, ProbeInv
<1>4. CASE ChildEnds
  BY <1>4 DEF ChildEnds, Measuring, ProbeInv
<1>5. CASE ProbeClock
  BY <1>5 DEF ProbeClock, ProbeInv
<1>6. CASE WaitWithDeadline
  BY <1>6 DEF WaitWithDeadline, Measuring, ProbeInv
<1>7. CASE ProbeReturns
  <2>1. frames_per_second(probe.frames, probe.window) \in Int
    BY DEF ProbeInv, frames_per_second, Unmeasured
  <2> QED
    BY <1>7, <2>1 DEF ProbeReturns, ProbeInv, Unmeasured
<1> QED
  BY <1>1, <1>2, <1>3, <1>4, <1>5, <1>6, <1>7 DEF ProbeStep

(* The encoder that was picked is the first of the candidates that passes.  *)
LEMMA UsableIsFirst ==
    ASSUME NEW candidates \in Seq(Vendors), NEW codec_, NEW results,
           select_usable(candidates, codec_, results) # 0
    PROVE  /\ select_usable(candidates, codec_, results) \in 1..Len(candidates)
           /\ Usable(hw_encoder_name(codec_, candidates[select_usable(candidates, codec_, results)]), results)
           /\ \A i \in 1..Len(candidates) :
                 Usable(hw_encoder_name(codec_, candidates[i]), results) =>
                     select_usable(candidates, codec_, results) <= i
<1> DEFINE I == {i \in 1..Len(candidates) : Usable(hw_encoder_name(codec_, candidates[i]), results)}
<1>1. select_usable(candidates, codec_, results) = IF I # {} THEN Min(I) ELSE 0
  BY DEF select_usable, SelectInSeq
<1>2. I # {} => Min(I) \in I /\ \A j \in I : Min(I) <= j
  <2>1. I \in SUBSET (1..Len(candidates)) /\ Len(candidates) \in Nat
    OBVIOUS
  <2> HIDE DEF I
  <2> QED
    BY <2>1, FirstPlace
<1> QED
  BY <1>1, <1>2

LEMMA CandidatesAreVendors ==
    ASSUME opt \in Options
    PROVE  candidates_for(opt.vendor) \in Seq(Vendors) /\ opt.codec \in Codecs
<1>1. opt.vendor \in {"auto"} \cup Vendors /\ opt.codec \in Codecs
  BY StartAssumption
<1> QED
  BY <1>1, EncoderChoiceAssumption DEF candidates_for

LEMMA PickPasses ==
    ASSUME opt \in Options, resolve_encoder
    PROVE  PickIsUsable'
<1>1. PICK results \in smoke_test_cached :
         /\ vendor' = select_vendor(opt.vendor, opt.codec, results).vendor
         /\ smokeResults' = select_vendor(opt.vendor, opt.codec, results).cache
  BY DEF resolve_encoder
<1> DEFINE candidates == candidates_for(opt.vendor)
           chosen == select_usable(candidates, opt.codec, results)
           encoder(v) == hw_encoder_name(opt.codec, v)
           tested == DOMAIN smokeResults \cup TestsRun(candidates, opt.codec, results)
<1>2. /\ vendor' = IF chosen = 0 THEN NoVendor ELSE candidates[chosen]
      /\ smokeResults' = [e \in tested |-> results[e]]
      /\ opt' = opt /\ advertised' = advertised
  BY <1>1 DEF select_vendor, resolve_encoder
<1>3. candidates \in Seq(Vendors)
  BY CandidatesAreVendors
<1>4. CASE chosen = 0
  BY <1>2, <1>4 DEF PickIsUsable
<1>5. CASE chosen # 0
  <2>1. /\ chosen \in 1..Len(candidates) /\ Usable(encoder(candidates[chosen]), results)
        /\ \A i \in 1..Len(candidates) : Usable(encoder(candidates[i]), results) => chosen <= i
    BY <1>3, <1>5, UsableIsFirst
  <2>2. encoder(candidates[chosen]) \in tested
    <3>1. encoder(candidates[chosen]) \in {encoder(candidates[i]) : i \in 1..chosen}
      BY <2>1
    <3> QED
      BY <1>5, <2>1, <3>1, Zenon DEF TestsRun, Usable
  <2>3. \A v : v \in Vendors /\ encoder(v) \in advertised /\ encoder(v) \in tested /\ smokeResults'[encoder(v)] =>
                 Usable(encoder(v), results)
    BY <1>2 DEF Usable
  <2>4. encoder(vendor') \in advertised' /\ encoder(vendor') \in DOMAIN smokeResults' /\ smokeResults'[encoder(vendor')]
    BY <1>2, <1>5, <2>1, <2>2, Zenon DEF Usable
  <2>5. ASSUME NEW i \in 1..Len(candidates), candidates[i] # vendor',
               encoder(candidates[i]) \in advertised', encoder(candidates[i]) \in DOMAIN smokeResults',
               smokeResults'[encoder(candidates[i])]
        PROVE  \E j \in 1..(i - 1) : candidates[j] = vendor'
    <3>1. candidates[i] \in Vendors
      BY <1>3
    <3>2. chosen <= i
      BY <1>2, <2>1, <2>3, <2>5, <3>1
    <3>3. vendor' = candidates[chosen]
      BY <1>2, <1>5
    <3> QED
      BY <2>1, <2>5, <3>2, <3>3
  <2> QED
    BY <1>2, <2>4, <2>5 DEF PickIsUsable, Cached
<1> QED
  BY <1>4, <1>5

LEMMA PickStays ==
    ASSUME PickIsUsable, UNCHANGED <<opt, choiceVars>>, vendor' \in {vendor, NoVendor}
    PROVE  PickIsUsable'
BY DEF PickIsUsable, choiceVars, Cached

LEMMA PickStep == StartTyped /\ PickIsUsable /\ [StartNext]_startVars => PickIsUsable'
<1> SUFFICES ASSUME StartTyped, PickIsUsable, [StartNext]_startVars PROVE PickIsUsable'
  OBVIOUS
<1>1. CASE resolve_encoder
  BY <1>1, PickPasses DEF StartTyped
<1>2. Fails => UNCHANGED <<opt, choiceVars>> /\ vendor' \in {vendor, NoVendor}
  BY DEF Fails
<1>3. CASE create_session_dir \/ build_microphone \/ build_sources \/ build_encode_config \/ spawn_encoder
  BY <1>2, <1>3, PickStays DEF create_session_dir, build_microphone, build_sources, build_encode_config,
     spawn_encoder, BreaksHere, Refused
<1>4. CASE Measure \/ Probing \/ DecideRate \/ Begin \/ SpawnEngine
  BY <1>4, PickStays DEF Measure, Probing, DecideRate, Begin, SpawnEngine
<1>5. CASE start_session \/ StartMicrophone \/ StartCapture \/ StartAudio
  BY <1>2, <1>5, PickStays DEF start_session, StartMicrophone, StartCapture, StartAudio, Starts1, SourcesFail
<1>6. CASE ThreadFails \/ RecordingEnds
  BY <1>6, PickStays DEF ThreadFails, RecordingEnds
<1>7. CASE UNCHANGED startVars
  BY <1>7, PickStays DEF startVars
<1> QED
  BY <1>1, <1>3, <1>4, <1>5, <1>6, <1>7 DEF StartNext, Handshake

Making == {"idle", "dir", "mic"}
Configuring == Making \cup {"sources", "config"}

(* The sources that are there at each step.                                 *)
DevicesAsAsked ==
    /\ DOMAIN dev = {"mic", "capture", "audio"}
    /\ at \in Making \cup {"sources"} => dev.capture = "none"
    /\ at \in {"config", "rate", "encoder", "row", "start_mic"} => dev.capture # "delivering"
    /\ at \notin Making /\ opt.mic => dev.mic # "none" /\ opt.audio
    /\ at \notin Making \cup {"sources"} /\ opt.audio => dev.audio # "none"
    /\ at \in {"start_capture", "start_audio", "engine", "recording"} /\ opt.mic => dev.mic = "delivering"
    /\ at \in {"engine", "recording"} /\ opt.audio => dev.audio = "delivering"

(* What the child is told, and the rate it is told once it is decided.      *)
EncoderAsAsked ==
    /\ DOMAIN encode = {"fps", "video", "mic", "audio", "output", "spawned"}
    /\ at \in Configuring => ~ encode.spawned
    /\ at \notin Configuring =>
          /\ encode.mic = opt.mic /\ encode.audio = opt.audio
          /\ encode.video = "EncodedBitstream" => opt.opens
    /\ at \notin Configuring \cup {"rate"} =>
          /\ encode.fps \in 1..AtLeastOne(opt.fps)
          /\ opt.adapt /\ probe.rate \in Nat => encode.fps <= AtLeastOne(probe.rate)
    /\ at \notin Configuring \cup {"rate", "encoder"} => encode.spawned
    /\ at = "recording" => pacer = encode.fps
ErrorIsForgotten == at \notin {"idle", "dir"} => status.error = 0

PromiseInv == DevicesAsAsked /\ EncoderAsAsked /\ ErrorIsForgotten /\ ProbeInv

LEMMA PromiseAfresh ==
    ASSUME at' = "idle", dev' = NoDevices, encode' = NoEncoder, probe' = IdleProbe
    PROVE  PromiseInv'
<1>1. ProbeInv'
  BY ProbeIsIdle
<1> QED
  BY <1>1 DEF PromiseInv, DevicesAsAsked, EncoderAsAsked, ErrorIsForgotten, NoDevices, NoEncoder, Making, Configuring

LEMMA PromiseStart == StartInit => PromiseInv
<1> SUFFICES ASSUME StartInit PROVE PromiseInv
  OBVIOUS
<1>1. at = "idle" /\ dev = NoDevices /\ encode = NoEncoder /\ probe = IdleProbe
  BY DEF StartInit
<1>2. ProbeInv
  BY <1>1 DEF IdleProbe, ProbeInv, NoRate
<1> QED
  BY <1>1, <1>2 DEF PromiseInv, DevicesAsAsked, EncoderAsAsked, ErrorIsForgotten, NoDevices, NoEncoder,
     Making, Configuring

LEMMA OptionsAre ==
    ASSUME opt \in Options
    PROVE  /\ {opt.mic, opt.audio, opt.adapt, opt.opens, opt.save, opt.games} \subseteq BOOLEAN /\ opt.fps \in Nat
           /\ opt.zero_copy \in {"auto", "yes", "no"}
BY StartAssumption

LEMMA PromiseStep == StartTyped /\ PromiseInv /\ [StartNext]_startVars => PromiseInv'
<1> SUFFICES ASSUME StartTyped, PromiseInv, [StartNext]_startVars PROVE PromiseInv'
  OBVIOUS
<1> USE DEF PromiseInv
<1>1. Fails => PromiseInv'
  BY PromiseAfresh DEF Fails
<1>2. ASSUME UNCHANGED probe PROVE ProbeInv'
  BY <1>2 DEF ProbeInv
<1>3. CASE resolve_encoder
  BY <1>2, <1>3 DEF resolve_encoder, DevicesAsAsked, EncoderAsAsked, ErrorIsForgotten
<1>4. CASE Begin
  BY <1>2, <1>4 DEF Begin, DevicesAsAsked, EncoderAsAsked, ErrorIsForgotten, Making, Configuring
<1>5. CASE create_session_dir
  <2>1. CASE ~ Fails
    <3>1. /\ at = "dir" /\ at' = "mic" /\ status' = [status EXCEPT !.error = 0]
          /\ UNCHANGED <<probe, opt, dev, encode, pacer>>
      BY <1>5, <2>1 DEF create_session_dir, BreaksHere
    <3> QED
      BY <1>2, <3>1 DEF DevicesAsAsked, EncoderAsAsked, ErrorIsForgotten, Making, Configuring, StartTyped
  <2> QED
    BY <1>1, <2>1
<1>6. CASE build_microphone
  <2>1. CASE ~ Fails
    <3>1. /\ at = "mic" /\ at' = "sources" /\ UNCHANGED <<probe, opt, encode, pacer, status>>
          /\ Microphone => opt.audio
          /\ dev' = [dev EXCEPT !.mic = IF Microphone THEN "made" ELSE "none"]
      BY <1>6, <2>1 DEF build_microphone, BreaksHere, Refused
    <3> QED
      BY <1>2, <3>1 DEF DevicesAsAsked, EncoderAsAsked, ErrorIsForgotten, Making, Configuring, Microphone
  <2> QED
    BY <1>1, <2>1
<1>7. CASE build_sources
  <2>1. CASE ~ Fails
    <3>1. /\ at = "sources" /\ at' = "config" /\ UNCHANGED <<probe, opt, encode, pacer, status>>
          /\ dev' = [dev EXCEPT !.capture = "made", !.audio = IF opt.audio THEN "made" ELSE "none"]
      BY <1>7, <2>1 DEF build_sources, BreaksHere
    <3> QED
      BY <1>2, <3>1 DEF DevicesAsAsked, EncoderAsAsked, ErrorIsForgotten, Making, Configuring
  <2> QED
    BY <1>1, <2>1
<1>8. CASE build_encode_config
  <2>1. CASE ~ Fails
    <3>1. /\ at = "config" /\ at' = "rate" /\ UNCHANGED <<probe, opt, dev, pacer, status>> /\ ~ CannotHonour
          /\ encode' = [NoEncoder EXCEPT !.fps = opt.fps, !.audio = opt.audio, !.mic = Microphone,
                                         !.video = IF ZeroCopy THEN "EncodedBitstream" ELSE "RawPixels"]
      BY <1>8, <2>1 DEF build_encode_config, BreaksHere, Refused
    <3>2. ZeroCopy => opt.opens
      BY <3>1, OptionsAre DEF ZeroCopy, CannotHonour, Openable, StartTyped
    <3>3. DevicesAsAsked' /\ ErrorIsForgotten' /\ ProbeInv'
      BY <1>2, <3>1 DEF DevicesAsAsked, ErrorIsForgotten, Making
    <3>4. EncoderAsAsked'
      BY <3>1, <3>2 DEF EncoderAsAsked, Making, Configuring, NoEncoder, Microphone
    <3> QED
      BY <3>3, <3>4
  <2> QED
    BY <1>1, <2>1
<1>9. CASE Measure \/ Probing
  <2>1. at = "rate" /\ UNCHANGED <<at, opt, dev, encode, pacer, status>>
    BY <1>9 DEF Measure, Probing
  <2>2. ProbeInv'
    BY <1>9, ProbeBegins, ProbeGoesOn DEF Measure, Probing
  <2>3. EncoderAsAsked'
    BY <2>1 DEF EncoderAsAsked, Making, Configuring
  <2> QED
    BY <2>1, <2>2, <2>3 DEF DevicesAsAsked, ErrorIsForgotten, Making, Configuring
<1>10. CASE DecideRate
  <2>1. /\ at = "rate" /\ at' = "encoder" /\ UNCHANGED <<probe, opt, dev, pacer, status>>
        /\ encode' = [encode EXCEPT !.fps = IF opt.adapt THEN decide_rate(opt.fps, TRUE, probe.rate)
                                            ELSE decide(opt.fps, FALSE, Unmeasured)]
    BY <1>10 DEF DecideRate
  <2>2. opt.fps \in Nat /\ opt.adapt \in BOOLEAN /\ probe.rate \in Int
    BY OptionsAre DEF StartTyped, ProbeInv
  <2>3. Unmeasured \in Int
    BY DEF Unmeasured
  <2>4. /\ encode'.fps \in 1..AtLeastOne(opt.fps)
        /\ opt.adapt /\ probe.rate \in Nat => encode'.fps <= AtLeastOne(probe.rate)
    <3>1. CASE opt.adapt
      <4>1. encode'.fps = decide(opt.fps, TRUE, probe.rate)
        BY <2>1, <3>1 DEF decide_rate, EncoderAsAsked
      <4> QED
        BY <2>2, <3>1, <4>1, DecideBounds
    <3>2. CASE ~ opt.adapt
      <4>1. encode'.fps = decide(opt.fps, FALSE, Unmeasured)
        BY <2>1, <3>2 DEF EncoderAsAsked
      <4> QED
        BY <2>2, <2>3, <3>2, <4>1, DecideBounds
    <3> QED
      BY <3>1, <3>2
  <2>5. EncoderAsAsked'
    BY <2>1, <2>4 DEF EncoderAsAsked, Making, Configuring
  <2> QED
    BY <1>2, <2>1, <2>5 DEF DevicesAsAsked, ErrorIsForgotten, Making, Configuring
<1>11. CASE spawn_encoder
  <2>1. CASE ~ Fails
    <3>1. /\ at = "encoder" /\ at' = "row" /\ UNCHANGED <<probe, opt, dev, pacer, status>>
          /\ encode' = [encode EXCEPT !.spawned = TRUE, !.output = IF Full THEN "Segmented" ELSE "FragmentedStream"]
      BY <1>11, <2>1 DEF spawn_encoder, BreaksHere
    <3>2. EncoderAsAsked'
      BY <3>1 DEF EncoderAsAsked, Making, Configuring
    <3> QED
      BY <1>2, <3>1, <3>2 DEF DevicesAsAsked, ErrorIsForgotten, Making, Configuring
  <2> QED
    BY <1>1, <2>1
<1>12. CASE start_session
  <2>1. CASE ~ Fails
    <3>1. at = "row" /\ at' = "start_mic" /\ UNCHANGED <<probe, opt, dev, encode, pacer, status>>
      BY <1>12, <2>1 DEF start_session
    <3> QED
      BY <1>2, <3>1 DEF DevicesAsAsked, EncoderAsAsked, ErrorIsForgotten, Making, Configuring
  <2> QED
    BY <1>1, <2>1
<1>13. ASSUME NEW step, NEW source \in {"mic", "capture", "audio"}, NEW following,
              <<step, source, following>> \in {<<"start_mic", "mic", "start_capture">>,
                  <<"start_capture", "capture", "start_audio">>, <<"start_audio", "audio", "engine">>},
              Starts1(step, source, following)
       PROVE  PromiseInv'
  <2>1. CASE ~ Fails
    <3>1. /\ at = step /\ at' = following /\ UNCHANGED <<probe, opt, encode, pacer, status>>
          /\ dev' = [dev EXCEPT ![source] = IF @ = "none" THEN "none" ELSE "delivering"]
      BY <1>13, <2>1 DEF Starts1, SourcesFail
    <3>2. EncoderAsAsked' /\ ErrorIsForgotten' /\ ProbeInv'
      BY <1>2, <1>13, <3>1 DEF EncoderAsAsked, ErrorIsForgotten, Making, Configuring
    <3>3. DevicesAsAsked'
      BY <1>13, <3>1 DEF DevicesAsAsked, Making
    <3> QED
      BY <3>2, <3>3
  <2> QED
    BY <1>1, <2>1
<1>14. CASE StartMicrophone \/ StartCapture \/ StartAudio
  BY <1>13, <1>14 DEF StartMicrophone, StartCapture, StartAudio
<1>15. CASE SpawnEngine
  <2>1. /\ at = "engine" /\ at' = "recording" /\ UNCHANGED <<probe, opt, dev, encode>> /\ pacer' = encode.fps
        /\ status' = [status EXCEPT !.running = start]
    BY <1>15 DEF SpawnEngine, PacerRate
  <2>2. EncoderAsAsked'
    BY <2>1 DEF EncoderAsAsked, Making, Configuring
  <2> QED
    BY <1>2, <2>1, <2>2 DEF DevicesAsAsked, ErrorIsForgotten, Making, StartTyped
<1>16. CASE ThreadFails \/ RecordingEnds
  BY <1>16, PromiseAfresh DEF ThreadFails, RecordingEnds
<1>17. CASE UNCHANGED startVars
  BY <1>2, <1>17 DEF startVars, DevicesAsAsked, EncoderAsAsked, ErrorIsForgotten
<1> QED
  BY <1>3, <1>4, <1>5, <1>6, <1>7, <1>8, <1>9, <1>10, <1>11, <1>12, <1>14, <1>15, <1>16, <1>17
  DEF StartNext, Handshake

(* The start of a recording, all of it.                                     *)
StartInv == HandshakeInv /\ PickIsUsable /\ PromiseInv

LEMMA StartsRight == StartInit => StartInv
<1> SUFFICES ASSUME StartInit PROVE StartInv
  OBVIOUS
<1>1. PickIsUsable
  <2>1. vendor = NoVendor
    BY DEF StartInit
  <2> QED
    BY <2>1 DEF PickIsUsable
<1> QED
  BY <1>1, HandshakeStart, PromiseStart DEF StartInv

LEMMA StartStaysRight == StartInv /\ [StartNext]_startVars => StartInv'
BY HandshakeStep, PickStep, PromiseStep DEF StartInv, HandshakeInv

LEMMA StartLeavesNothing == StartInv => AFailedStartLeavesNothing
<1> SUFFICES ASSUME StartInv PROVE AFailedStartLeavesNothing
  OBVIOUS
<1>1. at = "idle" => store = "slot" /\ status.running = 0
  BY DEF StartInv, HandshakeInv, StoreIsSomewhere
<1> QED
  BY <1>1 DEF StartInv, HandshakeInv, NothingIsLeft, AFailedStartLeavesNothing, Sources

LEMMA StartKeepsItsPromise == StartInv => ARecordingIsAsPromised
<1> SUFFICES ASSUME StartInv PROVE ARecordingIsAsPromised
  OBVIOUS
<1>1. StartTyped /\ StoreIsSomewhere /\ HandshakesAreKnown /\ PickIsUsable
      /\ DevicesAsAsked /\ EncoderAsAsked /\ ErrorIsForgotten /\ ProbeInv
  BY DEF StartInv, HandshakeInv, PromiseInv
<1>2. OneRate
  BY <1>1 DEF EncoderAsAsked, ProbeInv, OneRate, Making, Configuring
<1>3. /\ dev.capture # "none" /\ opt.mic => dev.mic # "none"
      /\ dev.capture = "delivering" /\ opt.mic => dev.mic = "delivering"
  BY <1>1 DEF DevicesAsAsked, StartTyped, Places, BeforeRow, Sources, Making
<1>4. encode.spawned =>
         /\ encode.mic = opt.mic /\ encode.audio = opt.audio /\ (encode.mic => encode.audio)
         /\ encode.video = "EncodedBitstream" => opt.opens
  BY <1>1 DEF DevicesAsAsked, EncoderAsAsked, Making, Configuring
<1>5. ASSUME at = "recording"
      PROVE  /\ status.running = start /\ status.error # start /\ rows[start] = "open" /\ (OwnDir => start \in dirs)
             /\ encode.mic => dev.mic = "delivering"
             /\ encode.audio => dev.audio = "delivering"
  <2>1. start \in Starts /\ start # 0
    BY <1>1, <1>5 DEF StartTyped, Starts
  <2>2. status.running = start /\ status.error = 0
    BY <1>1, <1>5 DEF StoreIsSomewhere, ErrorIsForgotten
  <2>3. rows[start] = "open" /\ (OwnDir => start \in dirs)
    BY <1>1, <1>5, <2>1 DEF HandshakesAreKnown, BeforeRow
  <2>4. encode.mic = opt.mic /\ encode.audio = opt.audio
    BY <1>1, <1>5 DEF EncoderAsAsked, Making, Configuring
  <2>5. (opt.mic => dev.mic = "delivering") /\ (opt.audio => dev.audio = "delivering")
    BY <1>1, <1>5 DEF DevicesAsAsked
  <2> QED
    BY <2>1, <2>2, <2>3, <2>4, <2>5
<1> QED
  BY <1>1, <1>2, <1>3, <1>4, <1>5, Zenon DEF ARecordingIsAsPromised

-----------------------------------------------------------------------------
(* The transforms.                                                          *)

LEMMA Concatenation ==
    ASSUME NEW S, NEW s \in Seq(S), NEW t \in Seq(S)
    PROVE  /\ s \o t \in Seq(S) /\ Len(s \o t) = Len(s) + Len(t) /\ Len(s) \in Nat /\ Len(t) \in Nat
           /\ \A i \in 1..Len(s) : (s \o t)[i] = s[i]
           /\ \A i \in 1..Len(t) : (s \o t)[Len(s) + i] = t[i]
OBVIOUS

LEMMA Singleton == ASSUME NEW S, NEW x \in S PROVE <<x>> \in Seq(S) /\ Len(<<x>>) = 1 /\ <<x>>[1] = x
OBVIOUS

LEMMA SameMembers ==
    ASSUME NEW S, NEW s \in Seq(S), NEW t \in Seq(S),
           \A i \in 1..Len(s) : \E j \in 1..Len(t) : s[i] = t[j],
           \A j \in 1..Len(t) : \E i \in 1..Len(s) : s[i] = t[j]
    PROVE  ToSet(s) = ToSet(t)
<1>1. DOMAIN s = 1..Len(s) /\ DOMAIN t = 1..Len(t)
  OBVIOUS
<1>2. \A x : x \in ToSet(s) <=> \E i \in 1..Len(s) : x = s[i]
  BY <1>1 DEF ToSet
<1>3. \A x : x \in ToSet(t) <=> \E i \in 1..Len(t) : x = t[i]
  BY <1>1 DEF ToSet
<1>4. \A x : x \in ToSet(s) <=> x \in ToSet(t)
  BY <1>2, <1>3
<1> QED
  BY <1>4

(* The order the formats are tried in leaves none out.                      *)
LEMMA SameInputs ==
    ASSUME NEW preferred
    PROVE  candidate_inputs(preferred) \in Seq(STRING) /\ ToSet(candidate_inputs(preferred)) = ToSet(CANDIDATE_INPUTS)
<1> DEFINE CI == CANDIDATE_INPUTS
           I == {i \in 1..Len(CI) : CI[i] = preferred}
           index == IF I # {} THEN Min(I) ELSE 0
<1>1. CI \in Seq(STRING)
  BY SetupAssumption
<1>2. candidate_inputs(preferred) = IF index = 0 THEN CI ELSE <<preferred>> \o RemoveAt(CI, index)
  BY DEF candidate_inputs, SelectInSeq
<1>3. CASE index = 0
  BY <1>1, <1>2, <1>3
<1>4. CASE index # 0
  <2>1. index \in 1..Len(CI) /\ CI[index] = preferred
    <3>1. I \in SUBSET (1..Len(CI)) /\ Len(CI) \in Nat /\ I # {}
      BY <1>1, <1>4
    <3>2. Min(I) \in I
      <4> HIDE DEF I
      <4> QED
        BY <3>1, FirstPlace
    <3> QED
      BY <3>1, <3>2
  <2> HIDE DEF index, CI
  <2>2. RemoveAt(CI, index) = SubSeq(CI, 1, index - 1) \o SubSeq(CI, index + 1, Len(CI))
    BY DEF RemoveAt
  <2> DEFINE before == SubSeq(CI, 1, index - 1)
             after == SubSeq(CI, index + 1, Len(CI))
  <2>3. /\ before \in Seq(STRING) /\ Len(before) = index - 1 /\ \A i \in 1..(index - 1) : before[i] = CI[i]
        /\ after \in Seq(STRING) /\ Len(after) = Len(CI) - index
        /\ \A i \in 1..(Len(CI) - index) : after[i] = CI[index + i]
    BY <1>1, <2>1
  <2> DEFINE c == <<preferred>> \o (before \o after)
  <2>4. preferred \in STRING
    BY <1>1, <2>1
  <2>5. /\ c \in Seq(STRING) /\ Len(c) = Len(CI) /\ c[1] = preferred
        /\ \A i \in 2..index : c[i] = CI[i - 1]
        /\ \A i \in (index + 1)..Len(CI) : c[i] = CI[i]
    <3> HIDE DEF before, after
    <3>1. before \o after \in Seq(STRING) /\ Len(before \o after) = Len(CI) - 1
      BY <1>1, <2>1, <2>3
    <3>2. /\ \A i \in 1..(index - 1) : (before \o after)[i] = CI[i]
          /\ \A i \in index..(Len(CI) - 1) : (before \o after)[i] = CI[i + 1]
      <4>1. /\ \A i \in 1..(index - 1) : (before \o after)[i] = before[i]
            /\ \A i \in 1..(Len(CI) - index) : (before \o after)[(index - 1) + i] = after[i]
        BY <2>3, Concatenation
      <4>2. \A i \in index..(Len(CI) - 1) : i - (index - 1) \in 1..(Len(CI) - index)
                                            /\ (index - 1) + (i - (index - 1)) = i /\ index + (i - (index - 1)) = i + 1
        BY <1>1, <2>1
      <4>3. \A i \in index..(Len(CI) - 1) : (before \o after)[i] = after[i - (index - 1)]
        BY <4>1, <4>2
      <4> QED
        BY <2>3, <4>1, <4>2, <4>3
    <3>3. <<preferred>> \in Seq(STRING) /\ Len(<<preferred>>) = 1 /\ <<preferred>>[1] = preferred
      BY <2>4, Singleton
    <3> HIDE DEF c
    <3>4. c \in Seq(STRING) /\ Len(c) = Len(CI) /\ c[1] = preferred /\ \A i \in 2..Len(CI) : c[i] = (before \o after)[i - 1]
      BY <1>1, <2>1, <3>1, <3>3 DEF c
    <3>5. \A i \in 2..index : c[i] = CI[i - 1]
      <4>1. \A i \in 2..index : i \in 2..Len(CI) /\ i - 1 \in 1..(index - 1)
        BY <1>1, <2>1
      <4> QED
        BY <3>2, <3>4, <4>1
    <3>6. \A i \in (index + 1)..Len(CI) : c[i] = CI[i]
      <4>1. \A i \in (index + 1)..Len(CI) : i \in 2..Len(CI) /\ i - 1 \in index..(Len(CI) - 1) /\ (i - 1) + 1 = i
        BY <1>1, <2>1
      <4> QED
        BY <3>2, <3>4, <4>1
    <3> QED
      BY <3>4, <3>5, <3>6
  <2>6. candidate_inputs(preferred) = c
    BY <1>2, <1>4, <2>2
  <2> HIDE DEF c
  <2>7. \A i \in 1..Len(c) : \E j \in 1..Len(CI) : c[i] = CI[j]
    BY <1>1, <2>1, <2>5, SMTT(30)
  <2>8. \A j \in 1..Len(CI) : \E i \in 1..Len(c) : c[i] = CI[j]
    <3> SUFFICES ASSUME NEW j \in 1..Len(CI) PROVE \E i \in 1..Len(c) : c[i] = CI[j]
      OBVIOUS
    <3>1. CASE j = index
      BY <2>1, <2>5, <3>1
    <3>2. CASE j < index
      <4>1. j + 1 \in 2..index /\ j + 1 \in 1..Len(c) /\ (j + 1) - 1 = j
        BY <1>1, <2>1, <2>5, <3>2
      <4> QED
        BY <2>5, <4>1
    <3>3. CASE j > index
      BY <1>1, <2>1, <2>5, <3>3
    <3> QED
      BY <1>1, <2>1, <3>1, <3>2, <3>3
  <2>9. ToSet(c) = ToSet(CI)
    BY <1>1, <2>5, <2>7, <2>8, SameMembers
  <2> QED
    BY <2>5, <2>6, <2>9 DEF CI
<1> QED
  BY <1>3, <1>4

LEMMA FirstAcceptedIs ==
    ASSUME NEW d, NEW tr, NEW formats \in Seq(STRING), "none" \notin ToSet(formats)
    PROVE  LET f == FirstAccepted(d, tr, formats)
           IN  /\ f # "none" <=> \E g \in ToSet(formats) : TakesInput(d, tr, g)
               /\ f # "none" => TakesInput(d, tr, f)
<1> DEFINE I == {i \in 1..Len(formats) : TakesInput(d, tr, formats[i])}
<1>1. FirstAccepted(d, tr, formats) = IF I # {} THEN (IF Min(I) = 0 THEN "none" ELSE formats[Min(I)]) ELSE "none"
  BY DEF FirstAccepted, SelectInSeq
<1>2. I # {} => Min(I) \in I
  <2>1. I \in SUBSET (1..Len(formats)) /\ Len(formats) \in Nat
    OBVIOUS
  <2> HIDE DEF I
  <2> QED
    BY <2>1, FirstPlace
<1>3. \A i \in 1..Len(formats) : formats[i] \in ToSet(formats)
  BY DEF ToSet
<1>4. (\E g \in ToSet(formats) : TakesInput(d, tr, g)) <=> I # {}
  BY DEF ToSet
<1>5. CASE I = {}
  BY <1>1, <1>4, <1>5
<1>6. CASE I # {}
  <2>1. Min(I) \in 1..Len(formats) /\ TakesInput(d, tr, formats[Min(I)])
    BY <1>2, <1>6
  <2>2. FirstAccepted(d, tr, formats) = formats[Min(I)] /\ formats[Min(I)] # "none"
    BY <1>1, <1>3, <1>6, <2>1
  <2> QED
    BY <1>4, <1>6, <2>1, <2>2
<1> QED
  BY <1>5, <1>6

(* Whether a driver can be configured, whichever format is tried first.     *)
Configures(d) ==
    LET ready == prepare_transform(d, Fresh)
    IN  /\ d.activates /\ ready.managed /\ set_output_type(d, ready).output = "wanted"
        /\ \E f \in ToSet(CANDIDATE_INPUTS) : f \in d.inputs

(* A transform as configure_encoder leaves it.                              *)
IsReady(tr, d) ==
    /\ tr.unlocked = d.async /\ tr.managed /\ tr.output = "wanted" /\ tr.input \in d.inputs
    /\ tr.pinned = d.rates
    /\ codec = "hevc" => tr.warmed

TransformFields == {"unlocked", "managed", "warmed", "output", "input", "pinned"}

LEMMA SetOnce ==
    ASSUME NEW d, NEW tr, NEW size \in {"small", "wanted"},
           DOMAIN tr = TransformFields, tr.warmed \in BOOLEAN
    PROVE  LET after == set_output_type_once(d, tr, size)
           IN  /\ DOMAIN after = TransformFields /\ after.warmed \in BOOLEAN
               /\ after.unlocked = tr.unlocked /\ after.managed = tr.managed /\ after.input = tr.input
               /\ after.pinned = tr.pinned
               /\ tr.warmed => after.warmed
               /\ size = "small" /\ codec = d.codec /\ tr.managed => after.warmed
               /\ after.output = "wanted" => codec = d.codec /\ tr.managed
BY DEF set_output_type_once, TakesOutput, OutputType, TransformFields

LEMMA SetOutput ==
    ASSUME NEW d, NEW tr, DOMAIN tr = TransformFields, tr.warmed \in BOOLEAN
    PROVE  LET after == set_output_type(d, tr)
           IN  /\ DOMAIN after = TransformFields
               /\ after.unlocked = tr.unlocked /\ after.managed = tr.managed /\ after.input = tr.input
               /\ after.output = "wanted" /\ codec = "hevc" => after.warmed
<1> DEFINE small == set_output_type_once(d, tr, "small")
           warmed == IF codec = "hevc" THEN small ELSE tr
           after == set_output_type_once(d, warmed, "wanted")
<1>1. /\ DOMAIN small = TransformFields /\ small.warmed \in BOOLEAN
      /\ small.unlocked = tr.unlocked /\ small.managed = tr.managed /\ small.input = tr.input
      /\ codec = d.codec /\ tr.managed => small.warmed
  BY SetOnce
<1> HIDE DEF small
<1>2. /\ DOMAIN warmed = TransformFields /\ warmed.warmed \in BOOLEAN
      /\ warmed.unlocked = tr.unlocked /\ warmed.managed = tr.managed /\ warmed.input = tr.input
      /\ codec = "hevc" /\ codec = d.codec /\ tr.managed => warmed.warmed
  BY <1>1
<1>3. set_output_type(d, tr) = after
  BY DEF set_output_type, small
<1> HIDE DEF warmed
<1>4. /\ DOMAIN after = TransformFields
      /\ after.unlocked = warmed.unlocked /\ after.managed = warmed.managed /\ after.input = warmed.input
      /\ warmed.warmed => after.warmed
      /\ after.output = "wanted" => codec = d.codec /\ warmed.managed
  BY <1>2, SetOnce
<1> HIDE DEF after
<1> QED
  BY <1>2, <1>3, <1>4

LEMMA Configured ==
    ASSUME NEW d \in DriverAnswers, NEW preferred
    PROVE  LET tr == configure_encoder(d, preferred)
           IN  /\ tr.input # "none" <=> Configures(d)
               /\ tr.input # "none" => IsReady(tr, d)
<1> DEFINE ready == prepare_transform(d, Fresh)
           typed == set_output_type(d, ready)
           pinned == pin_bitrate(d, typed)
           input == FirstAccepted(d, pinned, candidate_inputs(preferred))
           tr == configure_encoder(d, preferred)
<1>1. tr = IF d.activates /\ ready.managed /\ typed.output = "wanted" THEN [pinned EXCEPT !.input = input] ELSE Fresh
  BY DEF configure_encoder
<1>2. DOMAIN ready = TransformFields /\ ready.warmed \in BOOLEAN /\ ready.unlocked = d.async
  BY DEF prepare_transform, Unlock, Fresh, TransformFields
<1> HIDE DEF ready
<1>3. /\ DOMAIN typed = TransformFields /\ typed.unlocked = ready.unlocked /\ typed.managed = ready.managed
      /\ typed.output = "wanted" /\ codec = "hevc" => typed.warmed
  BY <1>2, SetOutput
<1> HIDE DEF typed
<1>4. /\ DOMAIN pinned = TransformFields /\ pinned.unlocked = typed.unlocked /\ pinned.managed = typed.managed
      /\ pinned.output = typed.output /\ pinned.warmed = typed.warmed /\ pinned.pinned = d.rates
  BY <1>3 DEF pin_bitrate, TransformFields
<1> HIDE DEF pinned
<1>5. /\ input # "none" <=> \E f \in ToSet(CANDIDATE_INPUTS) : TakesInput(d, pinned, f)
      /\ input # "none" => TakesInput(d, pinned, input)
  <2>1. candidate_inputs(preferred) \in Seq(STRING) /\ "none" \notin ToSet(candidate_inputs(preferred))
        /\ ToSet(candidate_inputs(preferred)) = ToSet(CANDIDATE_INPUTS)
    BY SameInputs, SetupAssumption
  <2> QED
    BY <2>1, FirstAcceptedIs
<1> HIDE DEF input
<1>6. Configures(d) <=> /\ d.activates /\ ready.managed /\ typed.output = "wanted"
                        /\ \E f \in ToSet(CANDIDATE_INPUTS) : f \in d.inputs
  BY DEF Configures, ready, typed
<1>7. CASE d.activates /\ ready.managed /\ typed.output = "wanted"
  <2>1. \A f : TakesInput(d, pinned, f) <=> f \in d.inputs
    BY <1>4, <1>7 DEF TakesInput
  <2>2. /\ tr.unlocked = pinned.unlocked /\ tr.managed = pinned.managed /\ tr.output = pinned.output
        /\ tr.warmed = pinned.warmed /\ tr.pinned = pinned.pinned /\ tr.input = input
    BY <1>1, <1>4, <1>7 DEF TransformFields
  <2> HIDE DEF tr
  <2>3. tr.input # "none" <=> Configures(d)
    BY <1>5, <1>6, <1>7, <2>1, <2>2
  <2>4. tr.input # "none" => IsReady(tr, d)
    BY <1>2, <1>3, <1>4, <1>5, <1>7, <2>1, <2>2 DEF IsReady
  <2> QED
    BY <2>3, <2>4 DEF tr
<1>8. CASE ~ (d.activates /\ ready.managed /\ typed.output = "wanted")
  <2>1. tr.input = "none"
    BY <1>1, <1>8 DEF Fresh
  <2> QED
    BY <1>6, <1>8, <2>1
<1> QED
  BY <1>7, <1>8

(* The drivers that can be configured, and the one that is found first.     *)
Configurable == {k \in 1..Len(machine) : Configures(machine[k])}
FirstOnes == {k \in Configurable : \A j \in 1..(k - 1) : j \notin Configurable}

AskerFields == {"call", "at", "candidate", "rows", "encoder", "texture", "now", "inside", "frames", "window", "rate"}
HasEncoder == {"opened", "recording", "measuring", "measured"}

AskersTyped == machine \in Machines /\ DOMAIN asker = Askers /\ \A a \in Askers : DOMAIN asker[a] = AskerFields

(* The candidates before the one that is tried were refused, an encoder     *)
(* that is open is the first that was not, as it was left when it was, and  *)
(* a rate is set by the frame that closes a window opened warm.             *)
RightAsker(t) ==
    /\ t.now \in Nat
    /\ t.at = "trying" => t.candidate \in 1..Len(machine)
    /\ t.at = "trying" /\ t.call \in Opens => \A j \in 1..(t.candidate - 1) : j \notin Configurable
    /\ t.at \in HasEncoder =>
          /\ t.candidate \in FirstOnes /\ machine[t.candidate].async
          /\ IsReady(t.encoder, machine[t.candidate])
    /\ t.at \in {"measuring", "measured"} => t.texture = t.encoder.input
    /\ t.window # <<>> => t.window[1] \in Nat /\ t.window[1] >= WARM_UP
    /\ t.at \notin {"measured", "ended", "failed"} => t.rate = 0
    /\ t.rate > 0 => t.window[1] >= WARM_UP /\ t.window[2] - t.window[1] >= ProbeWindow

(* What was answered is what the machine answers.                           *)
AnswersAreTheMachines ==
    \A call \in {"choose", "record"} :
        /\ <<call, "ended">> \in answers => \E k \in FirstOnes : machine[k].async
        /\ <<call, "failed">> \in answers => \A k \in FirstOnes : ~ machine[k].async
SetupInv ==
    /\ AskersTyped /\ \A a \in Askers : RightAsker(asker[a])
    /\ AnswersAreTheMachines /\ PlatformIsBalanced

LEMMA IdleIsRight == DOMAIN Idle = AskerFields /\ RightAsker(Idle)
BY DEF RightAsker, Idle, AskerFields, HasEncoder

LEMMA SetupStart == SetupInit => SetupInv
<1> SUFFICES ASSUME SetupInit PROVE SetupInv
  OBVIOUS
<1>1. /\ machine \in Machines /\ asker = [a \in Askers |-> Idle] /\ answers = {} /\ users = 0
  BY DEF SetupInit
<1>2. \A a \in Askers : asker[a] = Idle
  BY <1>1
<1>3. AskersTyped /\ \A a \in Askers : RightAsker(asker[a])
  BY <1>1, <1>2, IdleIsRight DEF AskersTyped
<1>4. AnswersAreTheMachines
  BY <1>1 DEF AnswersAreTheMachines
<1>5. PlatformIsBalanced
  <2>1. {a \in Askers : asker[a].at \notin {"idle", "ended", "failed"}} = {}
    BY <1>2 DEF Idle
  <2> QED
    BY <1>1, <2>1, FS_EmptySet DEF PlatformIsBalanced
<1> QED
  BY <1>3, <1>4, <1>5 DEF SetupInv

LEMMA SameMachine ==
    ASSUME machine' = machine, codec' = codec
    PROVE  Configurable' = Configurable /\ FirstOnes' = FirstOnes
<1>1. Configurable' = Configurable
  BY DEF Configurable, Configures, set_output_type, set_output_type_once, OutputType
<1> QED
  BY <1>1 DEF FirstOnes

LEMMA OneIsFirst ==
    ASSUME NEW k \in FirstOnes, NEW l \in FirstOnes PROVE k = l
BY DEF FirstOnes, Configurable

UsesPlatform(t) == t.at \notin {"idle", "ended", "failed"}

(* One thread more or less on the platform.                                 *)
LEMMA UsersAreCounted ==
    ASSUME AskersTyped, PlatformIsBalanced, NEW a \in Askers, NEW r, asker' = [asker EXCEPT ![a] = r],
           users' = users + (IF UsesPlatform(r) THEN 1 ELSE 0) - (IF UsesPlatform(asker[a]) THEN 1 ELSE 0)
    PROVE  PlatformIsBalanced'
<1> DEFINE S == {b \in Askers : UsesPlatform(asker[b])}
           T == {b \in Askers : UsesPlatform(asker'[b])}
<1>1. IsFiniteSet(S) /\ IsFiniteSet(T) /\ Cardinality(S) \in Nat /\ Cardinality(T) \in Nat
  <2>1. S \in SUBSET Askers /\ T \in SUBSET Askers
    OBVIOUS
  <2> HIDE DEF S, T
  <2> QED
    BY <2>1, SetupAssumption, FS_Subset, FS_CardinalityType
<1>2. (a \in S <=> UsesPlatform(asker[a])) /\ (a \in T <=> UsesPlatform(r)) /\ S \ {a} = T \ {a}
  BY DEF AskersTyped
<1>3. users = Cardinality(S)
  BY DEF PlatformIsBalanced, UsesPlatform
<1>4. PlatformIsBalanced' <=> users' = Cardinality(T)
  BY DEF PlatformIsBalanced, UsesPlatform
<1> HIDE DEF S, T
<1>5. /\ Cardinality(S \ {a}) = IF a \in S THEN Cardinality(S) - 1 ELSE Cardinality(S)
      /\ Cardinality(T \ {a}) = IF a \in T THEN Cardinality(T) - 1 ELSE Cardinality(T)
  BY <1>1, FS_RemoveElement
<1> QED
  BY <1>1, <1>2, <1>3, <1>4, <1>5

LEMMA OneAskerGoes ==
    ASSUME SetupInv, machine' = machine, codec' = codec, NEW a \in Askers, NEW r,
           asker' = [asker EXCEPT ![a] = r], DOMAIN r = AskerFields, RightAsker(r),
           users' = users + (IF UsesPlatform(r) THEN 1 ELSE 0) - (IF UsesPlatform(asker[a]) THEN 1 ELSE 0),
           \A call \in {"choose", "record"}, kind \in {"ended", "failed"} :
               <<call, kind>> \in answers' =>
                   \/ <<call, kind>> \in answers
                   \/ kind = "ended" /\ \E k \in FirstOnes : machine[k].async
                   \/ kind = "failed" /\ \A k \in FirstOnes : ~ machine[k].async
    PROVE  SetupInv'
<1>1. Configurable' = Configurable /\ FirstOnes' = FirstOnes
  BY SameMachine
<1>2. AskersTyped'
  BY DEF SetupInv, AskersTyped
<1>3. \A b \in Askers : asker'[b] = r \/ asker'[b] = asker[b]
  BY DEF SetupInv, AskersTyped
<1>4. ASSUME NEW b \in Askers PROVE RightAsker(asker[b])'
  <2>1. RightAsker(asker'[b])
    BY <1>3 DEF SetupInv
  <2> QED
    BY <1>1, <2>1 DEF RightAsker, IsReady
<1>5. AnswersAreTheMachines'
  BY <1>1 DEF SetupInv, AnswersAreTheMachines
<1>6. PlatformIsBalanced'
  BY UsersAreCounted DEF SetupInv
<1> QED
  BY <1>2, <1>4, <1>5, <1>6 DEF SetupInv

LEMMA DriversAnswer ==
    ASSUME machine \in Machines
    PROVE  Len(machine) \in Nat /\ \A i \in 1..Len(machine) : machine[i] \in DriverAnswers
BY SetupAssumption

LEMMA UsersAreNumbers == SetupInv => users \in Int
<1>1. IsFiniteSet({b \in Askers : asker[b].at \notin {"idle", "ended", "failed"}})
  BY SetupAssumption, FS_Subset
<1> QED
  BY <1>1, FS_CardinalityType DEF SetupInv, PlatformIsBalanced

(* A call starts the platform, or fails before it.                          *)
LEMMA OpenStep ==
    ASSUME SetupInv, NEW a \in Askers, NEW call, Open(a, call)
    PROVE  SetupInv'
<1>1. machine' = machine /\ codec' = codec /\ answers' = answers /\ ~ UsesPlatform(asker[a])
  BY DEF Open, UsesPlatform
<1>2. PICK to \in {"started", "failed"} :
          /\ asker' = [asker EXCEPT ![a] = [Idle EXCEPT !.call = call, !.at = to]]
          /\ users' = users + IF to = "started" THEN 1 ELSE 0
  BY UsersAreNumbers DEF Open, Goes
<1> DEFINE r == [Idle EXCEPT !.call = call, !.at = to]
<1>3. DOMAIN r = AskerFields /\ RightAsker(r) /\ r.at = to
  BY DEF RightAsker, Idle, AskerFields, HasEncoder
<1>4. asker' = [asker EXCEPT ![a] = r]
  BY <1>2
<1> HIDE DEF r
<1>5. users' = users + (IF UsesPlatform(r) THEN 1 ELSE 0) - (IF UsesPlatform(asker[a]) THEN 1 ELSE 0)
  BY <1>1, <1>2, <1>3, UsersAreNumbers DEF UsesPlatform
<1> QED
  BY <1>1, <1>3, <1>4, <1>5, OneAskerGoes

(* A call that is under way and ends: it leaves the platform, its encoder   *)
(* is gone, and what it answered is the machine's answer.                   *)
LEMMA CallEnds ==
    ASSUME SetupInv, machine' = machine, codec' = codec, NEW a \in Askers, NEW kind \in {"ended", "failed"},
           UsesPlatform(asker[a]), asker[a].at # "measured" => asker[a].rate = 0, users' = users - 1,
           \/ asker' = [asker EXCEPT ![a] = [@ EXCEPT !.at = kind, !.encoder = Fresh]]
           \/ asker' = [asker EXCEPT ![a] = [@ EXCEPT !.at = kind]],
           \/ answers' = answers
           \/ /\ answers' = answers \cup {<<asker[a].call, kind>>}
              /\ \/ kind = "ended" /\ \E k \in FirstOnes : machine[k].async
                 \/ kind = "failed" /\ \A k \in FirstOnes : ~ machine[k].async
    PROVE  SetupInv'
<1> PICK encoder : asker' = [asker EXCEPT ![a] = [@ EXCEPT !.at = kind, !.encoder = encoder]]
  <2>1. DOMAIN asker[a] = AskerFields /\ a \in DOMAIN asker
    BY DEF SetupInv, AskersTyped
  <2>2. [asker[a] EXCEPT !.at = kind] = [asker[a] EXCEPT !.at = kind, !.encoder = asker[a].encoder]
    BY <2>1 DEF AskerFields
  <2>3. CASE asker' = [asker EXCEPT ![a] = [@ EXCEPT !.at = kind]]
    BY <2>2, <2>3
  <2> QED
    BY <2>3
<1> DEFINE r == [asker[a] EXCEPT !.at = kind, !.encoder = encoder]
<1>1. DOMAIN asker[a] = AskerFields /\ RightAsker(asker[a])
  BY DEF SetupInv, AskersTyped
<1>2. DOMAIN r = AskerFields /\ r.at = kind /\ r.now = asker[a].now /\ r.window = asker[a].window /\ r.rate = asker[a].rate
  BY <1>1 DEF AskerFields
<1>3. asker' = [asker EXCEPT ![a] = r]
  OBVIOUS
<1> HIDE DEF r
<1>4. RightAsker(r) /\ ~ UsesPlatform(r)
  BY <1>1, <1>2 DEF RightAsker, UsesPlatform, HasEncoder
<1>5. users \in Int
  BY UsersAreNumbers
<1>6. users' = users + (IF UsesPlatform(r) THEN 1 ELSE 0) - (IF UsesPlatform(asker[a]) THEN 1 ELSE 0)
  BY <1>4, <1>5
<1>7. \A c \in {"choose", "record"}, k \in {"ended", "failed"} :
          <<c, k>> \in answers' =>
              \/ <<c, k>> \in answers
              \/ k = "ended" /\ \E l \in FirstOnes : machine[l].async
              \/ k = "failed" /\ \A l \in FirstOnes : ~ machine[l].async
  OBVIOUS
<1> QED
  BY <1>2, <1>3, <1>4, <1>6, <1>7, OneAskerGoes

(* A call that is under way and stays so.                                   *)
LEMMA CallGoesOn ==
    ASSUME SetupInv, machine' = machine, codec' = codec, users' = users, NEW a \in Askers, NEW r,
           UsesPlatform(asker[a]), UsesPlatform(r), DOMAIN r = AskerFields, RightAsker(r),
           asker' = [asker EXCEPT ![a] = r],
           \/ answers' = answers
           \/ answers' = answers \cup {<<"record", "ended">>} /\ \E k \in FirstOnes : machine[k].async
    PROVE  SetupInv'
<1>1. users' = users + (IF UsesPlatform(r) THEN 1 ELSE 0) - (IF UsesPlatform(asker[a]) THEN 1 ELSE 0)
  BY UsersAreNumbers
<1>2. \A c \in {"choose", "record"}, k \in {"ended", "failed"} :
          <<c, k>> \in answers' =>
              \/ <<c, k>> \in answers
              \/ k = "ended" /\ \E l \in FirstOnes : machine[l].async
              \/ k = "failed" /\ \A l \in FirstOnes : ~ machine[l].async
  OBVIOUS
<1> QED
  BY <1>1, <1>2, OneAskerGoes

LEMMA OpenStartedStep ==
    ASSUME SetupInv, NEW a \in Askers, OpenStarted(a)
    PROVE  SetupInv'
<1>1. /\ machine' = machine /\ codec' = codec /\ asker[a].at = "started"
      /\ DOMAIN asker[a] = AskerFields /\ RightAsker(asker[a]) /\ Len(machine) \in Nat
  BY DriversAnswer DEF OpenStarted, SetupInv, AskersTyped
<1>2. UsesPlatform(asker[a]) /\ asker[a].rate = 0
  BY <1>1 DEF UsesPlatform, RightAsker
<1>3. CASE machine # <<>> /\ Goes(a, [asker[a] EXCEPT !.at = "trying", !.candidate = 1]) /\ users' = users /\ answers' = answers
  <2> DEFINE r == [asker[a] EXCEPT !.at = "trying", !.candidate = 1]
  <2>1. DOMAIN r = AskerFields /\ r.at = "trying" /\ r.candidate = 1 /\ r.now = asker[a].now
        /\ r.window = asker[a].window /\ r.rate = 0
    BY <1>1, <1>2 DEF AskerFields
  <2>2. asker' = [asker EXCEPT ![a] = r]
    BY <1>3 DEF Goes
  <2> HIDE DEF r
  <2>3. 1 \in 1..Len(machine)
    <3>1. machine \in Seq(DriverAnswers)
      BY SetupAssumption DEF SetupInv, AskersTyped
    <3>2. Len(machine) # 0
      BY <1>3, <3>1
    <3> QED
      BY <1>1, <3>2
  <2>4. RightAsker(r) /\ UsesPlatform(r)
    BY <1>1, <2>1, <2>3 DEF RightAsker, UsesPlatform, HasEncoder
  <2> QED
    BY <1>1, <1>2, <1>3, <2>1, <2>2, <2>4, CallGoesOn
<1>4. CASE machine = <<>> /\ users' = users - 1 /\ Ends(a, IF asker[a].call \in Opens THEN "failed" ELSE "ended")
  <2>1. FirstOnes = {}
    BY <1>4 DEF FirstOnes, Configurable
  <2>2. answers' = answers \/ (asker[a].call \in Opens /\ answers' = answers \cup {<<asker[a].call, "failed">>})
    BY <1>4 DEF Ends, Answered, Opens
  <2>3. asker' = [asker EXCEPT ![a] = [@ EXCEPT !.at = IF asker[a].call \in Opens THEN "failed" ELSE "ended", !.encoder = Fresh]]
    BY <1>1, <1>4 DEF Ends, Goes, SetupInv, AskersTyped
  <2> QED
    BY <1>1, <1>2, <1>4, <2>1, <2>2, <2>3, CallEnds
<1>5. CASE users' = users - 1 /\ Goes(a, [asker[a] EXCEPT !.at = "failed"]) /\ answers' = answers
  <2>1. asker' = [asker EXCEPT ![a] = [@ EXCEPT !.at = "failed"]]
    BY <1>5 DEF Goes
  <2> QED
    BY <1>1, <1>2, <1>5, <2>1, CallEnds
<1> QED
  BY <1>3, <1>4, <1>5 DEF OpenStarted

LEMMA TryCandidateStep ==
    ASSUME SetupInv, NEW a \in Askers, TryCandidate(a)
    PROVE  SetupInv'
<1> DEFINE t == asker[a]
           driver == machine[t.candidate]
           tr == configure_encoder(driver, Preferred(t.call))
<1>1. /\ machine' = machine /\ codec' = codec /\ t.at = "trying" /\ t.call \in Opens
      /\ DOMAIN t = AskerFields /\ RightAsker(t) /\ Len(machine) \in Nat
  BY DriversAnswer DEF TryCandidate, SetupInv, AskersTyped
<1>2. /\ UsesPlatform(t) /\ t.rate = 0 /\ t.candidate \in 1..Len(machine)
      /\ \A j \in 1..(t.candidate - 1) : j \notin Configurable
  BY <1>1 DEF UsesPlatform, RightAsker
<1>3. (tr.input # "none" <=> Configures(driver)) /\ (tr.input # "none" => IsReady(tr, driver))
  <2>1. driver \in DriverAnswers
    BY <1>2, DriversAnswer DEF SetupInv, AskersTyped
  <2> HIDE DEF driver
  <2> QED
    BY <2>1, Configured
<1>4. /\ tr.input # "none" => t.candidate \in FirstOnes
      /\ tr.input = "none" => t.candidate \notin Configurable
  BY <1>2, <1>3 DEF FirstOnes, Configurable
<1>5. \/ /\ tr.input # "none" /\ driver.async /\ Goes(a, [t EXCEPT !.at = "opened", !.encoder = tr])
         /\ users' = users /\ answers' = answers
      \/ tr.input # "none" /\ ~ driver.async /\ Ends(a, "failed") /\ users' = users - 1
      \/ /\ tr.input = "none" /\ t.candidate < Len(machine) /\ Goes(a, [t EXCEPT !.candidate = @ + 1])
         /\ users' = users /\ answers' = answers
      \/ tr.input = "none" /\ ~ (t.candidate < Len(machine)) /\ Ends(a, "failed") /\ users' = users - 1
  BY DEF TryCandidate
<1> HIDE DEF tr
<1>6. CASE tr.input # "none" /\ driver.async /\ Goes(a, [t EXCEPT !.at = "opened", !.encoder = tr])
           /\ users' = users /\ answers' = answers
  <2> DEFINE r == [t EXCEPT !.at = "opened", !.encoder = tr]
  <2>1. /\ DOMAIN r = AskerFields /\ r.at = "opened" /\ r.encoder = tr /\ r.candidate = t.candidate
        /\ r.now = t.now /\ r.window = t.window /\ r.rate = 0
    BY <1>1, <1>2 DEF AskerFields
  <2>2. asker' = [asker EXCEPT ![a] = r]
    BY <1>6 DEF Goes
  <2> HIDE DEF r
  <2>3. RightAsker(r) /\ UsesPlatform(r)
    BY <1>1, <1>3, <1>4, <1>6, <2>1 DEF RightAsker, UsesPlatform, HasEncoder
  <2> QED
    BY <1>1, <1>2, <1>6, <2>1, <2>2, <2>3, CallGoesOn
<1>7. ASSUME Ends(a, "failed"), users' = users - 1, \A k \in FirstOnes : ~ machine[k].async
      PROVE  SetupInv'
  <2>1. asker' = [asker EXCEPT ![a] = [@ EXCEPT !.at = "failed", !.encoder = Fresh]]
    BY <1>7 DEF Ends, Goes
  <2>2. answers' = answers \/ answers' = answers \cup {<<asker[a].call, "failed">>}
    BY <1>7 DEF Ends, Answered
  <2> QED
    BY <1>1, <1>2, <1>7, <2>1, <2>2, CallEnds
<1>8. CASE tr.input # "none" /\ ~ driver.async /\ Ends(a, "failed") /\ users' = users - 1
  <2>1. \A k \in FirstOnes : k = t.candidate
    BY <1>4, <1>8, OneIsFirst
  <2> QED
    BY <1>7, <1>8, <2>1
<1>9. CASE /\ tr.input = "none" /\ t.candidate < Len(machine) /\ Goes(a, [t EXCEPT !.candidate = @ + 1])
           /\ users' = users /\ answers' = answers
  <2> DEFINE r == [t EXCEPT !.candidate = @ + 1]
  <2>1. /\ DOMAIN r = AskerFields /\ r.at = "trying" /\ r.candidate = t.candidate + 1
        /\ r.now = t.now /\ r.window = t.window /\ r.rate = 0
    BY <1>1, <1>2 DEF AskerFields
  <2>2. asker' = [asker EXCEPT ![a] = r]
    BY <1>9 DEF Goes
  <2> HIDE DEF r
  <2>3. r.candidate \in 1..Len(machine) /\ \A j \in 1..(r.candidate - 1) : j \notin Configurable
    <3>1. \A j \in 1..(r.candidate - 1) : j = t.candidate \/ j \in 1..(t.candidate - 1)
      BY <1>1, <1>2, <2>1
    <3>2. r.candidate \in 1..Len(machine)
      BY <1>1, <1>2, <1>9, <2>1
    <3> QED
      BY <1>2, <1>4, <1>9, <3>1, <3>2
  <2>4. RightAsker(r) /\ UsesPlatform(r)
    BY <1>1, <2>1, <2>3 DEF RightAsker, UsesPlatform, HasEncoder
  <2> QED
    BY <1>1, <1>2, <1>9, <2>1, <2>2, <2>4, CallGoesOn
<1>10. CASE tr.input = "none" /\ ~ (t.candidate < Len(machine)) /\ Ends(a, "failed") /\ users' = users - 1
  <2>1. \A k \in Configurable : k = t.candidate \/ k \in 1..(t.candidate - 1)
    BY <1>1, <1>2, <1>10 DEF Configurable
  <2>2. FirstOnes = {}
    BY <1>2, <1>4, <1>10, <2>1 DEF FirstOnes
  <2> QED
    BY <1>7, <1>10, <2>2
<1> QED
  BY <1>5, <1>6, <1>8, <1>9, <1>10

LEMMA AskCandidateStep ==
    ASSUME SetupInv, NEW a \in Askers, AskCandidate(a)
    PROVE  SetupInv'
<1> DEFINE t == asker[a]
           i == t.candidate
           asked == t.rows \cup {<<i, row>> : row \in RowsOf(t.call, machine[i])}
           last == i = Len(machine)
           r == [t EXCEPT !.rows = asked, !.at = IF last THEN "ended" ELSE "trying",
                          !.candidate = IF last THEN i ELSE i + 1]
<1>1. /\ machine' = machine /\ codec' = codec /\ answers' = answers /\ t.at = "trying" /\ t.call \notin Opens
      /\ DOMAIN t = AskerFields /\ RightAsker(t) /\ Len(machine) \in Nat
  BY DriversAnswer DEF AskCandidate, SetupInv, AskersTyped, Surveys, Opens
<1>2. asker' = [asker EXCEPT ![a] = r] /\ users' = IF last THEN users - 1 ELSE users
  BY Zenon DEF AskCandidate, Goes
<1>3. UsesPlatform(t) /\ t.rate = 0 /\ t.candidate \in 1..Len(machine)
  BY <1>1 DEF UsesPlatform, RightAsker
<1> HIDE DEF asked
<1>4. /\ DOMAIN r = AskerFields /\ r.at = (IF last THEN "ended" ELSE "trying")
      /\ r.candidate = (IF last THEN i ELSE i + 1) /\ r.call = t.call
      /\ r.now = t.now /\ r.window = t.window /\ r.rate = 0
  BY <1>1, <1>3 DEF AskerFields
<1> HIDE DEF r
<1>5. RightAsker(r) /\ (UsesPlatform(r) <=> ~ last)
  BY <1>1, <1>3, <1>4 DEF RightAsker, UsesPlatform, HasEncoder
<1>6. users \in Int
  BY UsersAreNumbers
<1>7. users' = users + (IF UsesPlatform(r) THEN 1 ELSE 0) - (IF UsesPlatform(asker[a]) THEN 1 ELSE 0)
  BY <1>2, <1>3, <1>5, <1>6
<1> QED
  BY <1>1, <1>2, <1>4, <1>5, <1>7, OneAskerGoes

(* What is done with an encoder that is open.                               *)
LEMMA EncoderInHandStep ==
    ASSUME SetupInv, NEW a \in Askers,
           CanEncode(a) \/ DropEncoder(a) \/ OpenForTexture(a) \/ synthetic_capture_texture(a)
    PROVE  SetupInv'
<1> DEFINE t == asker[a]
<1>1. /\ machine' = machine /\ codec' = codec /\ t.at \in HasEncoder
      /\ DOMAIN t = AskerFields /\ RightAsker(t)
  BY DEF CanEncode, DropEncoder, OpenForTexture, synthetic_capture_texture, SetupInv, AskersTyped, HasEncoder
<1>2. /\ UsesPlatform(t) /\ (t.at # "measured" => t.rate = 0)
      /\ t.candidate \in FirstOnes /\ machine[t.candidate].async
  BY <1>1 DEF UsesPlatform, RightAsker, HasEncoder
<1>3. CASE CanEncode(a)
  <2>1. /\ asker' = [asker EXCEPT ![a] = [@ EXCEPT !.at = "ended", !.encoder = Fresh]] /\ users' = users - 1
        /\ answers' = answers \cup {<<asker[a].call, "ended">>}
    BY <1>3 DEF CanEncode, Ends, Goes, Answered
  <2> QED
    BY <1>1, <1>2, <2>1, CallEnds
<1>4. CASE DropEncoder(a)
  <2>1. /\ asker' = [asker EXCEPT ![a] = [@ EXCEPT !.at = "ended", !.encoder = Fresh]] /\ users' = users - 1
        /\ answers' = answers
    BY <1>4 DEF DropEncoder, Goes
  <2> QED
    BY <1>1, <1>2, <2>1, CallEnds
<1>5. ASSUME NEW to \in {"recording", "measuring"}, NEW given, t.at = "opened",
             to = "measuring" => given = t.encoder.input,
             asker' = [asker EXCEPT ![a] = [t EXCEPT !.at = to, !.texture = given]], users' = users,
             answers' = answers \/ answers' = answers \cup {<<"record", "ended">>}
      PROVE  SetupInv'
  <2> DEFINE r == [t EXCEPT !.at = to, !.texture = given]
  <2>1. /\ DOMAIN r = AskerFields /\ r.at = to /\ r.texture = given /\ r.encoder = t.encoder
        /\ r.candidate = t.candidate /\ r.now = t.now /\ r.window = t.window /\ r.rate = t.rate
    BY <1>1 DEF AskerFields
  <2>2. asker' = [asker EXCEPT ![a] = r]
    BY <1>5
  <2> HIDE DEF r
  <2>3. RightAsker(r) /\ UsesPlatform(r)
    BY <1>1, <1>2, <1>5, <2>1 DEF RightAsker, UsesPlatform, HasEncoder
  <2> QED
    BY <1>1, <1>2, <1>5, <2>1, <2>2, <2>3, CallGoesOn
<1>6. CASE OpenForTexture(a)
  BY <1>5, <1>6 DEF OpenForTexture, Goes
<1>7. CASE synthetic_capture_texture(a)
  BY <1>5, <1>7 DEF synthetic_capture_texture, Goes
<1> QED
  BY <1>3, <1>4, <1>6, <1>7

(* The measurement: its clock, the frames it feeds and the ones it counts.  *)
LEMMA MeasureStep ==
    ASSUME SetupInv, NEW a \in Askers, measure_encode_fps(a)
    PROVE  SetupInv'
<1> DEFINE t == asker[a]
<1>1. /\ machine' = machine /\ codec' = codec /\ users' = users /\ answers' = answers /\ t.at = "measuring"
      /\ DOMAIN t = AskerFields /\ RightAsker(t)
  BY DEF measure_encode_fps, Tick, NeedInput, HaveOutput, WindowMissed, Measured, SetupInv, AskersTyped
<1>2. /\ t.now \in Nat /\ t.rate = 0 /\ UsesPlatform(t) /\ WARM_UP \in Nat /\ ProbeWindow \in Nat
      /\ (t.window # <<>> => t.window[1] \in Nat /\ t.window[1] >= WARM_UP)
  BY <1>1, SetupAssumption DEF RightAsker, UsesPlatform
<1>3. ASSUME NEW r, asker' = [asker EXCEPT ![a] = r], DOMAIN r = AskerFields,
             r.at \in {"measuring", "measured"}, r.now \in Nat, r.candidate = t.candidate,
             r.encoder = t.encoder, r.texture = t.texture,
             r.window # <<>> => r.window[1] \in Nat /\ r.window[1] >= WARM_UP,
             r.rate = 0 \/ /\ r.at = "measured" /\ r.window # <<>>
                           /\ r.window[2] - r.window[1] >= ProbeWindow
      PROVE  SetupInv'
  <2>1. RightAsker(r) /\ UsesPlatform(r)
    BY <1>1, <1>3 DEF RightAsker, UsesPlatform, HasEncoder
  <2> QED
    BY <1>1, <1>2, <1>3, <2>1, CallGoesOn
<1>4. CASE Tick(a)
  <2> DEFINE r == [t EXCEPT !.now = @ + 1]
  <2>1. /\ DOMAIN r = AskerFields /\ r.candidate = t.candidate /\ r.encoder = t.encoder /\ r.texture = t.texture
        /\ r.window = t.window /\ r.rate = 0 /\ r.at = "measuring" /\ r.now \in Nat
    BY <1>1, <1>2 DEF AskerFields
  <2>2. asker' = [asker EXCEPT ![a] = r]
    BY <1>4 DEF Tick, Goes
  <2> HIDE DEF r
  <2> QED
    BY <1>2, <1>3, <2>1, <2>2
<1>5. CASE NeedInput(a)
  <2> DEFINE r == [t EXCEPT !.inside = @ + 1]
  <2>1. /\ DOMAIN r = AskerFields /\ r.candidate = t.candidate /\ r.encoder = t.encoder /\ r.texture = t.texture
        /\ r.window = t.window /\ r.rate = 0 /\ r.at = "measuring" /\ r.now = t.now
    BY <1>1, <1>2 DEF AskerFields
  <2>2. asker' = [asker EXCEPT ![a] = r]
    BY <1>5 DEF NeedInput, Goes
  <2> HIDE DEF r
  <2> QED
    BY <1>2, <1>3, <2>1, <2>2
<1>6. CASE WindowMissed(a)
  <2> DEFINE r == [t EXCEPT !.at = "measured"]
  <2>1. /\ DOMAIN r = AskerFields /\ r.candidate = t.candidate /\ r.encoder = t.encoder /\ r.texture = t.texture
        /\ r.window = t.window /\ r.rate = 0 /\ r.at = "measured" /\ r.now = t.now
    BY <1>1, <1>2 DEF AskerFields
  <2>2. asker' = [asker EXCEPT ![a] = r]
    BY <1>6 DEF WindowMissed, Goes
  <2> HIDE DEF r
  <2> QED
    BY <1>2, <1>3, <2>1, <2>2
<1>7. CASE HaveOutput(a)
  <2> DEFINE clock == t.now
             begun == IF t.window = <<>> THEN clock ELSE t.window[1]
             counted == t.frames + 1
             rate == counted \div (clock - begun)
  <2>1. begun \in Nat /\ (clock >= WARM_UP => begun >= WARM_UP)
    BY <1>2
  <2>2. \/ /\ clock < WARM_UP /\ asker' = [asker EXCEPT ![a] = [t EXCEPT !.inside = @ - 1]]
        \/ /\ ~ (clock < WARM_UP) /\ clock - begun < ProbeWindow
           /\ asker' = [asker EXCEPT ![a] = [t EXCEPT !.inside = @ - 1, !.frames = counted, !.window = <<begun, clock>>]]
        \/ /\ ~ (clock < WARM_UP) /\ ~ (clock - begun < ProbeWindow)
           /\ asker' = [asker EXCEPT ![a] = [t EXCEPT !.at = "measured", !.inside = @ - 1, !.frames = counted,
                                                      !.window = <<begun, clock>>, !.rate = rate]]
    BY <1>7, Zenon DEF HaveOutput, Goes
  <2> HIDE DEF begun, counted, rate
  <2>3. <<begun, clock>> # <<>> /\ <<begun, clock>>[1] = begun /\ <<begun, clock>>[2] = clock
    OBVIOUS
  <2>4. CASE clock < WARM_UP /\ asker' = [asker EXCEPT ![a] = [t EXCEPT !.inside = @ - 1]]
    <3> DEFINE r == [t EXCEPT !.inside = @ - 1]
    <3>1. /\ DOMAIN r = AskerFields /\ r.at = "measuring" /\ r.now = clock /\ r.candidate = t.candidate
          /\ r.encoder = t.encoder /\ r.texture = t.texture /\ r.window = t.window /\ r.rate = 0
      BY <1>1, <1>2 DEF AskerFields
    <3>2. asker' = [asker EXCEPT ![a] = r]
      BY <2>4
    <3> HIDE DEF r
    <3> QED
      BY <1>2, <1>3, <3>1, <3>2
  <2>5. CASE /\ ~ (clock < WARM_UP)
             /\ asker' = [asker EXCEPT ![a] = [t EXCEPT !.inside = @ - 1, !.frames = counted, !.window = <<begun, clock>>]]
    <3> DEFINE r == [t EXCEPT !.inside = @ - 1, !.frames = counted, !.window = <<begun, clock>>]
    <3>1. /\ DOMAIN r = AskerFields /\ r.at = "measuring" /\ r.now = clock /\ r.candidate = t.candidate
          /\ r.encoder = t.encoder /\ r.texture = t.texture /\ r.window = <<begun, clock>> /\ r.rate = 0
      BY <1>1, <1>2 DEF AskerFields
    <3>2. asker' = [asker EXCEPT ![a] = r]
      BY <2>5
    <3> HIDE DEF r
    <3>3. begun >= WARM_UP
      BY <1>2, <2>1, <2>5
    <3> QED
      BY <1>2, <1>3, <2>1, <2>3, <3>1, <3>2, <3>3
  <2>6. CASE /\ ~ (clock < WARM_UP) /\ ~ (clock - begun < ProbeWindow)
             /\ asker' = [asker EXCEPT ![a] = [t EXCEPT !.at = "measured", !.inside = @ - 1, !.frames = counted,
                                                        !.window = <<begun, clock>>, !.rate = rate]]
    <3> DEFINE r == [t EXCEPT !.at = "measured", !.inside = @ - 1, !.frames = counted,
                              !.window = <<begun, clock>>, !.rate = rate]
    <3>1. /\ DOMAIN r = AskerFields /\ r.at = "measured" /\ r.now = clock /\ r.candidate = t.candidate
          /\ r.encoder = t.encoder /\ r.texture = t.texture /\ r.window = <<begun, clock>>
      BY <1>1 DEF AskerFields
    <3>2. asker' = [asker EXCEPT ![a] = r]
      BY <2>6
    <3> HIDE DEF r
    <3>3. begun >= WARM_UP /\ clock - begun >= ProbeWindow
      BY <1>2, <2>1, <2>6
    <3> QED
      BY <1>2, <1>3, <2>1, <2>3, <3>1, <3>2, <3>3
  <2> QED
    BY <2>2, <2>4, <2>5, <2>6
<1> QED
  BY <1>4, <1>5, <1>6, <1>7 DEF measure_encode_fps

LEMMA SetupStep == SetupInv /\ [SetupNext]_setupVars => SetupInv'
<1> SUFFICES ASSUME SetupInv, [SetupNext]_setupVars PROVE SetupInv'
  OBVIOUS
<1>1. CASE SetupNext
  BY <1>1, OpenStep, OpenStartedStep, TryCandidateStep, AskCandidateStep, EncoderInHandStep, MeasureStep
     DEF SetupNext
<1>2. CASE UNCHANGED setupVars
  <2>1. machine' = machine /\ codec' = codec /\ asker' = asker /\ answers' = answers /\ users' = users
    BY <1>2 DEF setupVars
  <2>2. Configurable' = Configurable /\ FirstOnes' = FirstOnes
    BY <2>1, SameMachine
  <2> QED
    BY <2>1, <2>2 DEF SetupInv, AskersTyped, RightAsker, IsReady, AnswersAreTheMachines, PlatformIsBalanced
<1> QED
  BY <1>1, <1>2

LEMMA SetupIsAsAsked == SetupInv => EncodersOpenAsAsked
<1> SUFFICES ASSUME SetupInv PROVE EncodersOpenAsAsked
  OBVIOUS
<1>1. PlatformIsBalanced
  BY DEF SetupInv
<1>2. EncoderIsReady
  <2> SUFFICES ASSUME NEW a \in Askers, asker[a].at \in {"recording", "measuring", "measured"}
               PROVE  LET tr == asker[a].encoder  driver == machine[asker[a].candidate]
                      IN  /\ tr.unlocked /\ tr.managed /\ tr.output = "wanted" /\ tr.input \in driver.inputs
                          /\ tr.pinned = driver.rates
                          /\ codec = "hevc" => tr.warmed
    BY DEF EncoderIsReady
  <2>1. asker[a].at \in HasEncoder
    BY DEF HasEncoder
  <2>2. machine[asker[a].candidate].async /\ IsReady(asker[a].encoder, machine[asker[a].candidate])
    BY <2>1 DEF SetupInv, RightAsker
  <2> QED
    BY <2>2, Zenon DEF IsReady
<1>3. ChoiceIsKept
  BY OneIsFirst DEF SetupInv, AnswersAreTheMachines, ChoiceIsKept
<1>4. RateIsMeasured
  BY DEF SetupInv, RightAsker, RateIsMeasured
<1> QED
  BY <1>1, <1>2, <1>3, <1>4 DEF EncodersOpenAsAsked

-----------------------------------------------------------------------------
(* The encoder's child: its video.                                          *)

(* The requests for input among the events of the transform.                *)
Needs(s) == {i \in 1..Len(s) : s[i] = "need"}

(* The thread that encodes: it is there for textures only, opens its        *)
(* transform once, before the child was written anything, and has in hand   *)
(* what it took from its queue.                                             *)
FeedIsThere ==
    /\ (feed = "absent" <=> ~ textured)
    /\ feed \in Busy => transform.open
    /\ feed = "absent" => ~ transform.open
    /\ feed = "header" \/ (feed = "receiving" /\ ~ transform.open) => video = <<>>
    /\ feed \in {"header", "asking"} => texture \in Frame

(* A frame waits, is in hand or is inside once, the transform finishes only *)
(* what it was given, and every request it has queued is one it made.       *)
InHand == IF feed \in {"header", "asking"} THEN 1 ELSE 0
FramesAreCounted ==
    /\ Len(textures) + InHand + Len(transform.inside) <= captured
    /\ transform.finished <= Len(transform.inside)
    /\ Cardinality(Needs(events)) <= transform.asked

(* The times that wait are those of the frames inside, until a finished     *)
(* sample is lost; and until then every chunk carries its own frame's time. *)
Timely(s) == \A i \in 1..Len(s) : s[i].frame # Header => s[i].captured_at = s[i].frame
TimesArePaired ==
    ~ misread => pairing = transform.inside /\ Timely(video) /\ Timely(written) /\ Timely(units)

VideoTyped ==
    /\ HardwareTypes /\ textured \in BOOLEAN /\ captured \in 0..Frames /\ dropped \in 0..captured
    /\ written \in Seq(Chunk)
VideoInv == VideoTyped /\ FeedIsThere /\ FramesAreCounted /\ TimesArePaired

-----------------------------------------------------------------------------
(* The encoder's child: its audio.                                          *)

TrackRecord ==
    [queue : Seq(Piece), owed : 0..Blocks, dropped : 0..Blocks, submitted : 0..Blocks, open : BOOLEAN,
     writer : {"accepting", "running", "ended", "failed", "deadline"}, written : Seq(Piece)]

(* Each block lies where its number says.                                   *)
OnTimeline(pieces) ==
    \A k \in 1..Len(pieces) : pieces[k].block # Silence => Length(SubSeq(pieces, 1, k)) = pieces[k].block

(* What a track was given is written, queued or owed, and no more than that *)
(* was dropped; a writer that ended had nothing left to write.              *)
RightTrack(track) ==
    /\ track \in TrackRecord /\ Len(track.queue) <= AudioDepth
    /\ track.owed <= track.submitted /\ track.dropped <= track.submitted
    /\ OnTimeline(track.written \o track.queue)
    /\ track.writer \in {"accepting", "running", "ended"} =>
          Length(track.written \o track.queue) + track.owed = track.submitted
    /\ track.writer = "ended" => track.queue = <<>>
TracksInv == DOMAIN tracks \subseteq Track /\ \A t \in DOMAIN tracks : RightTrack(tracks[t])

-----------------------------------------------------------------------------
(* The encoder's child: its closing.                                        *)

ChildTyped ==
    /\ child \in [state : {"running", "stuck", "exited"}, status : {"none", "ok", "failed"}, killed : BOOLEAN]
    /\ writer \in {"running", "ended", "failed"}
    /\ owner \in {"open", "feed", "inputs", "child", "video", "audio", "done"}
    /\ closing \in {"no", "finish", "drop"}
    /\ result \in {"none", "ok", "deadline", "status", "writer"}

(* The video's writer ends when nobody can send to it, and until then what  *)
(* was captured as pixels is written, queued or counted as dropped.         *)
PixelsAreCounted ==
    /\ (readable <=> writer = "running")
    /\ owner \in {"open", "feed", "inputs"} => "pump" \in senders
    /\ writer = "ended" => senders = {} /\ (textured \/ video = <<>>)
    /\ ~ textured /\ writer # "failed" => Len(written) + Len(video) + dropped = captured

(* What the owner has waited for is over.                                   *)
OwnerHasWaited ==
    /\ child.killed => child.state = "exited" /\ child.status = "failed"
    /\ owner \in {"video", "audio", "done"} => child.state = "exited"
    /\ owner \in {"audio", "done"} => writer # "running"
    /\ owner = "done" => \A t \in DOMAIN tracks : ~ Writing(tracks[t])
    /\ result # "none" => owner = "done"
    /\ result = "ok" => child.status = "ok" /\ writer = "ended" /\ \A t \in DOMAIN tracks : tracks[t].writer = "ended"

ChildInv == VideoInv /\ TracksInv /\ ChildTyped /\ PixelsAreCounted /\ OwnerHasWaited

(* Everything that holds at every step.                                     *)
IInv == part \in {"start", "child", "shell", "transform"} /\ ShellInv /\ StartInv /\ SetupInv /\ ChildInv

(* Sequences, an element more or one less.                                  *)
LEMMA AppendIs ==
    ASSUME NEW S, NEW s \in Seq(S), NEW x \in S
    PROVE  /\ Append(s, x) \in Seq(S) /\ Len(s) \in Nat /\ Len(Append(s, x)) = Len(s) + 1
           /\ Append(s, x)[Len(s) + 1] = x
           /\ \A i \in 1..Len(s) : Append(s, x)[i] = s[i]
OBVIOUS

LEMMA TailIs ==
    ASSUME NEW S, NEW s \in Seq(S), s # <<>>
    PROVE  /\ Tail(s) \in Seq(S) /\ Len(s) \in Nat /\ Len(s) >= 1 /\ Len(Tail(s)) = Len(s) - 1
           /\ Head(s) = s[1] /\ Head(s) \in S
           /\ \A i \in 1..(Len(s) - 1) : Tail(s)[i] = s[i + 1] /\ i + 1 \in 1..Len(s)
OBVIOUS

LEMMA NothingIs == ASSUME NEW S PROVE <<>> \in Seq(S) /\ Len(<<>>) = 0
OBVIOUS

LEMMA TimelyAppend ==
    ASSUME NEW s \in Seq(Chunk), Timely(s), NEW x \in Chunk, x.frame # Header => x.captured_at = x.frame
    PROVE  Timely(Append(s, x))
<1> DEFINE a == Append(s, x)
<1>1. /\ Len(s) \in Nat /\ Len(a) = Len(s) + 1 /\ a[Len(s) + 1] = x /\ \A i \in 1..Len(s) : a[i] = s[i]
  BY AppendIs
<1> HIDE DEF a
<1>2. \A i \in 1..Len(a) : a[i].frame # Header => a[i].captured_at = a[i].frame
  BY <1>1 DEF Timely
<1> QED
  BY <1>2 DEF Timely, a

LEMMA TimelyTail ==
    ASSUME NEW s \in Seq(Chunk), s # <<>>, Timely(s)
    PROVE  Timely(Tail(s)) /\ (Head(s).frame # Header => Head(s).captured_at = Head(s).frame)
<1>1. /\ Len(s) \in Nat /\ Len(s) >= 1 /\ Len(Tail(s)) = Len(s) - 1 /\ Head(s) = s[1]
      /\ \A i \in 1..(Len(s) - 1) : Tail(s)[i] = s[i + 1] /\ i + 1 \in 1..Len(s)
  BY TailIs
<1> QED
  BY <1>1 DEF Timely

LEMMA TimelyNothing == Timely(<<>>)
BY DEF Timely

LEMMA TimelyConcatenation ==
    ASSUME NEW s \in Seq(Chunk), NEW t \in Seq(Chunk), Timely(s), Timely(t)
    PROVE  Timely(s \o t)
<1> DEFINE c == s \o t
<1>1. /\ Len(s) \in Nat /\ Len(t) \in Nat /\ Len(c) = Len(s) + Len(t)
      /\ \A i \in 1..Len(s) : c[i] = s[i]
      /\ \A i \in 1..Len(t) : c[Len(s) + i] = t[i]
  BY Concatenation
<1> HIDE DEF c
<1>2. ASSUME NEW i \in 1..Len(c), c[i].frame # Header PROVE c[i].captured_at = c[i].frame
  <2>1. CASE i \in 1..Len(s)
    BY <1>1, <1>2, <2>1 DEF Timely
  <2>2. CASE i \notin 1..Len(s)
    <3>1. i - Len(s) \in 1..Len(t) /\ c[i] = t[i - Len(s)]
      BY <1>1, <1>2, <2>2, SMTT(30)
    <3> QED
      BY <1>2, <3>1 DEF Timely
  <2> QED
    BY <2>1, <2>2
<1> QED
  BY <1>2 DEF Timely, c

LEMMA TimelyPrefix ==
    ASSUME NEW s \in Seq(Chunk), Timely(s), NEW n \in 0..Len(s)
    PROVE  SubSeq(s, 1, n) \in Seq(Chunk) /\ Len(SubSeq(s, 1, n)) = n /\ Timely(SubSeq(s, 1, n))
<1> DEFINE p == SubSeq(s, 1, n)
<1>1. p \in Seq(Chunk) /\ Len(p) = n /\ Len(s) \in Nat /\ \A i \in 1..n : p[i] = s[i] /\ i \in 1..Len(s)
  OBVIOUS
<1> HIDE DEF p
<1>2. Timely(p)
  BY <1>1 DEF Timely
<1> QED
  BY <1>1, <1>2 DEF p

(* A request more or one less.                                              *)
LEMMA NeedsAreCounted ==
    ASSUME NEW s \in Seq({"need", "output"})
    PROVE  IsFiniteSet(Needs(s)) /\ Cardinality(Needs(s)) \in Nat
<1> DEFINE N == Needs(s)
<1>1. N \in SUBSET (1..Len(s)) /\ Len(s) \in Nat
  BY DEF Needs
<1> HIDE DEF N
<1>2. IsFiniteSet(1..Len(s))
  BY <1>1, FS_Interval
<1> QED
  BY <1>1, <1>2, FS_Subset, FS_CardinalityType DEF N

LEMMA NeedsAppend ==
    ASSUME NEW s \in Seq({"need", "output"}), NEW e \in {"need", "output"}
    PROVE  Cardinality(Needs(Append(s, e))) = Cardinality(Needs(s)) + IF e = "need" THEN 1 ELSE 0
<1>1. IsFiniteSet(Needs(s)) /\ Cardinality(Needs(s)) \in Nat
  BY NeedsAreCounted
<1>2. /\ Len(s) \in Nat /\ Len(Append(s, e)) = Len(s) + 1 /\ Append(s, e)[Len(s) + 1] = e
      /\ \A i \in 1..Len(s) : Append(s, e)[i] = s[i]
  BY AppendIs
<1>3. Needs(Append(s, e)) = IF e = "need" THEN Needs(s) \cup {Len(s) + 1} ELSE Needs(s)
  BY <1>2 DEF Needs
<1>4. Len(s) + 1 \notin Needs(s)
  BY <1>2 DEF Needs
<1>5. Cardinality(Needs(s) \cup {Len(s) + 1}) = Cardinality(Needs(s)) + 1
  BY <1>1, <1>4, FS_AddElement
<1> QED
  BY <1>1, <1>3, <1>5

LEMMA NeedsTail ==
    ASSUME NEW s \in Seq({"need", "output"}), s # <<>>
    PROVE  /\ Cardinality(Needs(Tail(s))) \in Nat
           /\ Cardinality(Needs(Tail(s))) <= Cardinality(Needs(s)) - IF Head(s) = "need" THEN 1 ELSE 0
<1> DEFINE N == Needs(s)
           T == Needs(Tail(s))
           f == [i \in T |-> i + 1]
<1>1. /\ Tail(s) \in Seq({"need", "output"}) /\ Len(s) \in Nat /\ Len(s) >= 1 /\ Len(Tail(s)) = Len(s) - 1
      /\ Head(s) = s[1] /\ \A i \in 1..(Len(s) - 1) : Tail(s)[i] = s[i + 1] /\ i + 1 \in 1..Len(s)
  BY TailIs
<1>2. IsFiniteSet(N) /\ Cardinality(N) \in Nat /\ Cardinality(T) \in Nat
  BY <1>1, NeedsAreCounted
<1>3. 1 \in N <=> Head(s) = "need"
  BY <1>1 DEF Needs
<1>4. \A i \in T : i \in Int /\ i + 1 \in N \ {1}
  BY <1>1 DEF Needs
<1> HIDE DEF N, T
<1>5. f \in Injection(T, N \ {1})
  BY <1>4 DEF Injection, IsInjective
<1>6. IsFiniteSet(N \ {1}) /\ Cardinality(N \ {1}) = IF 1 \in N THEN Cardinality(N) - 1 ELSE Cardinality(N)
  BY <1>2, FS_RemoveElement
<1> HIDE DEF f
<1>7. Cardinality(T) <= Cardinality(N \ {1})
  BY <1>5, <1>6, FS_Injection
<1> QED
  BY <1>2, <1>3, <1>6, <1>7 DEF N, T

(* The transform moves in its own time.                                     *)
TransformRecord ==
    [open : BOOLEAN, asked : 0..Slots, inside : Seq(Frame), finished : 0..Frames,
     changes : 0..RENEGOTIATION_ATTEMPTS, usable : BOOLEAN]

LEMMA TransformIs ==
    ASSUME VideoInv
    PROVE  /\ transform \in TransformRecord /\ transform.inside \in Seq(Frame) /\ Len(transform.inside) \in Nat
           /\ transform.asked \in 0..Slots /\ transform.finished \in 0..Frames
           /\ events \in Seq({"need", "output"}) /\ Cardinality(Needs(events)) \in Nat
           /\ Len(textures) \in Nat /\ InHand \in 0..1 /\ captured \in 0..Frames /\ Frames \in Nat /\ Slots \in Nat
<1>1. /\ transform \in TransformRecord /\ events \in Seq({"need", "output"}) /\ textures \in Seq(Frame)
      /\ captured \in 0..Frames
  BY DEF VideoInv, VideoTyped, HardwareTypes, TransformRecord
<1>2. Cardinality(Needs(events)) \in Nat
  BY <1>1, NeedsAreCounted
<1>3. transform.inside \in Seq(Frame) /\ transform.asked \in 0..Slots /\ transform.finished \in 0..Frames
  BY <1>1 DEF TransformRecord
<1>4. Frames \in Nat /\ Slots \in Nat
  BY HardwareAssumption
<1> QED
  BY <1>1, <1>2, <1>3, <1>4 DEF InHand

LEMMA TransformStep ==
    ASSUME VideoInv, TransformMoves, UNCHANGED childVars
    PROVE  VideoInv'
<1>1. /\ UNCHANGED <<textures, handed, feed, texture, pairing, units, misread, unencoded, video, senders, readable>>
      /\ UNCHANGED <<textured, captured, dropped, written>>
      /\ transform.open
  BY DEF TransformMoves, TransformAsks, TransformFinishes, TransformChangesType, Transform, queueVars, childVars
<1>2. ASSUME transform' \in TransformRecord, events' \in Seq({"need", "output"}), hwFaults' \in 0..TransformFaults
      PROVE  VideoTyped'
  BY <1>1, <1>2 DEF VideoInv, VideoTyped, HardwareTypes, TransformRecord
<1>3. ASSUME transform'.open = transform.open PROVE FeedIsThere'
  BY <1>1, <1>3 DEF VideoInv, FeedIsThere
<1>4. ASSUME transform'.inside = transform.inside PROVE TimesArePaired'
  BY <1>1, <1>4 DEF VideoInv, TimesArePaired
<1>5. InHand' = InHand
  BY <1>1 DEF InHand
<1>6. hwFaults \in 0..TransformFaults /\ TransformFaults \in Nat
  BY HardwareAssumption DEF VideoInv, VideoTyped, HardwareTypes
<1>7. CASE TransformAsks
  <2>1. /\ transform' = [transform EXCEPT !.asked = @ + 1] /\ transform.asked + Len(transform.inside) < Slots
        /\ events' = Append(events, "need") /\ hwFaults' = hwFaults
    BY <1>7 DEF TransformAsks, Transform
  <2>2. /\ transform' \in TransformRecord /\ transform'.open = transform.open /\ transform'.inside = transform.inside
        /\ transform'.asked = transform.asked + 1 /\ transform'.finished = transform.finished
    <3>1. transform.asked + 1 \in 0..Slots
      BY <2>1, TransformIs
    <3> QED
      BY <2>1, <3>1, TransformIs DEF TransformRecord
  <2>3. events' \in Seq({"need", "output"}) /\ Cardinality(Needs(events')) = Cardinality(Needs(events)) + 1
    BY <2>1, TransformIs, AppendIs, NeedsAppend
  <2>4. FramesAreCounted'
    BY <1>1, <1>5, <2>2, <2>3, TransformIs DEF VideoInv, FramesAreCounted
  <2> QED
    BY <1>2, <1>3, <1>4, <1>6, <2>1, <2>2, <2>3, <2>4 DEF VideoInv
<1>8. CASE TransformFinishes
  <2>1. /\ transform' = [transform EXCEPT !.finished = @ + 1] /\ transform.finished < Len(transform.inside)
        /\ events' = Append(events, "output") /\ hwFaults' = hwFaults
    BY <1>8 DEF TransformFinishes, Transform
  <2>2. transform.finished + 1 \in 0..Frames
    BY <2>1, TransformIs, SMTT(30) DEF VideoInv, FramesAreCounted
  <2>3. /\ transform' \in TransformRecord /\ transform'.open = transform.open /\ transform'.inside = transform.inside
        /\ transform'.asked = transform.asked /\ transform'.finished = transform.finished + 1
    BY <2>1, <2>2, TransformIs DEF TransformRecord
  <2>4. events' \in Seq({"need", "output"}) /\ Cardinality(Needs(events')) = Cardinality(Needs(events))
    BY <2>1, TransformIs, AppendIs, NeedsAppend
  <2>5. FramesAreCounted'
    BY <1>1, <1>5, <2>1, <2>3, <2>4, TransformIs DEF VideoInv, FramesAreCounted
  <2> QED
    BY <1>2, <1>3, <1>4, <1>6, <2>1, <2>3, <2>4, <2>5 DEF VideoInv
<1>9. CASE TransformChangesType
  <2>1. PICK n \in 1..RENEGOTIATION_ATTEMPTS, usable \in BOOLEAN :
            transform' = [transform EXCEPT !.changes = n, !.usable = usable]
    BY <1>9 DEF TransformChangesType, Transform
  <2>2. events' = events /\ hwFaults' = hwFaults - 1 /\ hwFaults > 0
    BY <1>9 DEF TransformChangesType
  <2>3. /\ transform' \in TransformRecord /\ transform'.open = transform.open /\ transform'.inside = transform.inside
        /\ transform'.asked = transform.asked /\ transform'.finished = transform.finished
    <3>1. n \in 0..RENEGOTIATION_ATTEMPTS
      BY HardwareAssumption
    <3> QED
      BY <2>1, <3>1, TransformIs DEF TransformRecord
  <2>4. FramesAreCounted'
    BY <1>1, <1>5, <2>2, <2>3, TransformIs DEF VideoInv, FramesAreCounted
  <2>5. events' \in Seq({"need", "output"}) /\ hwFaults' \in 0..TransformFaults
    BY <1>6, <2>2, TransformIs
  <2> QED
    BY <1>2, <1>3, <1>4, <2>3, <2>4, <2>5 DEF VideoInv
<1> QED
  BY <1>7, <1>8, <1>9 DEF TransformMoves

(* The thread is over.                                                      *)
LEMMA FeedEnds ==
    ASSUME VideoInv, NEW taken \in Seq(Chunk), EndsFeed(taken), feed # "absent", UNCHANGED <<misread, handed, childVars>>,
           Len(video) + Len(taken) <= VideoDepth, ~ misread => Timely(taken),
           unencoded' = unencoded, hwFaults' \in 0..TransformFaults
    PROVE  VideoInv'
<1>1. /\ UNCHANGED <<textured, captured, dropped, written, readable>> /\ feed' = "ended"
      /\ senders' = senders \ {"feed"} /\ textures' = <<>> /\ texture' = Header /\ video' = video \o taken
      /\ transform' = NoTransform /\ events' = <<>> /\ pairing' = <<>> /\ units' = <<>>
  BY DEF childVars, EndsFeed
<1>2. video \in Seq(Chunk)
  BY DEF VideoInv, VideoTyped, HardwareTypes
<1>3. video' \in Seq(Chunk) /\ Len(video') <= VideoDepth
  BY <1>1, <1>2, Concatenation
<1>4. /\ NoTransform \in TransformRecord /\ NoTransform.inside = <<>> /\ NoTransform.finished = 0 /\ NoTransform.asked = 0
      /\ ~ NoTransform.open
  BY HardwareAssumption DEF NoTransform, TransformRecord
<1> HIDE DEF NoTransform
<1>5. VideoTyped'
  <2>1. /\ <<>> \in Seq(Frame) /\ <<>> \in Seq(Chunk) /\ <<>> \in Seq({"need", "output"}) /\ Len(<<>>) = 0
        /\ QUEUE_DEPTH \in Nat
    BY HardwareAssumption
  <2> QED
    BY <1>1, <1>3, <1>4, <2>1 DEF VideoInv, VideoTyped, HardwareTypes, TransformRecord, Header
<1>6. FeedIsThere'
  BY <1>1, <1>4 DEF VideoInv, FeedIsThere, Busy
<1>7. FramesAreCounted'
  <2>1. Cardinality(Needs(<<>>)) = 0
    <3>1. Needs(<<>>) = {}
      BY DEF Needs
    <3> QED
      BY <3>1, FS_EmptySet
  <2>2. InHand' = 0
    BY <1>1 DEF InHand
  <2> QED
    BY <1>1, <1>4, <2>1, <2>2, TransformIs DEF FramesAreCounted
<1>8. TimesArePaired'
  <2>1. ~ misread => Timely(video')
    BY <1>1, <1>2, TimelyConcatenation DEF VideoInv, TimesArePaired
  <2> QED
    BY <1>1, <1>4, <2>1, TimelyNothing DEF VideoInv, TimesArePaired
<1> QED
  BY <1>5, <1>6, <1>7, <1>8 DEF VideoInv

(* The thread takes a texture from its queue, or finds it closed.           *)
LEMMA ReceiveStep ==
    ASSUME VideoInv, Receives \/ CannotStart \/ FeedClosed, UNCHANGED childVars
    PROVE  VideoInv'
<1>1. hwFaults \in 0..TransformFaults /\ TransformFaults \in Nat /\ textures \in Seq(Frame) /\ unencoded \in Nat
  BY HardwareAssumption DEF VideoInv, VideoTyped, HardwareTypes
<1>2. UNCHANGED <<textured, captured, dropped, written>>
  BY DEF childVars
<1>3. CASE Receives
  <2>1. /\ feed = "receiving" /\ textures # <<>> /\ texture' = Head(textures) /\ textures' = Tail(textures)
        /\ UNCHANGED <<events, pairing, units, misread, video, senders, readable, handed>>
    BY <1>3 DEF Receives, queueVars
  <2>2. /\ feed' \in {"asking", "header"} \/ (feed' = feed /\ transform' = transform)
        /\ feed' \in {"asking", "header"} => transform'.open
        /\ feed' = "header" => ~ transform.open
        /\ transform' \in TransformRecord /\ transform'.inside = transform.inside
        /\ transform'.finished = transform.finished /\ transform'.asked = transform.asked
    BY <1>3, <2>1, TransformIs DEF Receives, TransformRecord
  <2>3. hwFaults' \in 0..TransformFaults /\ unencoded' \in Nat
    BY <1>1, <1>3 DEF Receives
  <2>4. /\ textures' \in Seq(Frame) /\ Len(textures') = Len(textures) - 1 /\ texture' \in Frame
    BY <1>1, <2>1, TailIs
  <2>5. VideoTyped'
    BY <1>1, <1>2, <2>1, <2>2, <2>3, <2>4, HardwareAssumption, SMTT(30)
    DEF VideoInv, VideoTyped, HardwareTypes, TransformRecord, Busy
  <2>6. FeedIsThere'
    BY <1>2, <2>1, <2>2, <2>4 DEF VideoInv, FeedIsThere, Busy
  <2>7. FramesAreCounted'
    <3>1. InHand = 0 /\ InHand' <= 1 /\ InHand' \in Nat
      BY <2>1 DEF InHand
    <3> QED
      BY <1>2, <2>1, <2>2, <2>4, <3>1, TransformIs, SMTT(30) DEF VideoInv, FramesAreCounted
  <2>8. TimesArePaired'
    BY <1>2, <2>1, <2>2 DEF VideoInv, TimesArePaired
  <2> QED
    BY <2>5, <2>6, <2>7, <2>8 DEF VideoInv
<1>4. ASSUME EndsFeed(<<>>), feed = "receiving", UNCHANGED <<misread, handed, unencoded>>, hwFaults' \in 0..TransformFaults
      PROVE  VideoInv'
  <2>1. <<>> \in Seq(Chunk) /\ Len(video) + Len(<<>>) <= VideoDepth
    BY DEF VideoInv, VideoTyped, HardwareTypes
  <2> QED
    BY <1>4, <2>1, FeedEnds, TimelyNothing
<1>5. CASE CannotStart
  BY <1>1, <1>4, <1>5 DEF CannotStart
<1>6. CASE FeedClosed
  <2>1. CASE transform.open
    <3>1. /\ feed = "receiving" /\ feed' = "finishing"
          /\ UNCHANGED <<textures, texture, transform, events, pairing, units, video, senders, readable,
                         misread, unencoded, hwFaults, handed>>
      BY <1>6, <2>1 DEF FeedClosed, queueVars
    <3>2. VideoTyped'
      BY <1>2, <3>1 DEF VideoInv, VideoTyped, HardwareTypes, Busy
    <3>3. FeedIsThere'
      BY <1>2, <2>1, <3>1 DEF VideoInv, FeedIsThere, Busy
    <3>4. FramesAreCounted'
      BY <1>2, <3>1 DEF VideoInv, FramesAreCounted, InHand
    <3>5. TimesArePaired'
      BY <1>2, <3>1 DEF VideoInv, TimesArePaired
    <3> QED
      BY <3>2, <3>3, <3>4, <3>5 DEF VideoInv
  <2>2. CASE ~ transform.open
    BY <1>1, <1>4, <1>6, <2>2 DEF FeedClosed
  <2> QED
    BY <2>1, <2>2
<1> QED
  BY <1>3, <1>5, <1>6

(* It hands what it has to the video's queue.                               *)
LEMMA HandStep ==
    ASSUME VideoInv, HeaderHanded \/ HandOver \/ HandedAll \/ TailQueued, UNCHANGED childVars
    PROVE  VideoInv'
<1>1. /\ video \in Seq(Chunk) /\ Len(video) <= VideoDepth /\ units \in Seq(Chunk) /\ VideoDepth \in Nat \ {0}
      /\ Len(video) \in Nat /\ Len(units) \in Nat
  BY HardwareAssumption, SMTT(30) DEF VideoInv, VideoTyped, HardwareTypes
<1>2. UNCHANGED <<textured, captured, dropped, written>>
  BY DEF childVars
<1>3. ASSUME feed \in Busy, feed' \in {feed, "asking", "receiving"}, feed' \in {"header", "asking"} <=> feed \in {"header", "asking"},
             feed' # "header",
             UNCHANGED <<textures, texture, transform, events, pairing, misread, senders, readable, unencoded, hwFaults, handed>>,
             video' \in Seq(Chunk), Len(video') <= VideoDepth, units' \in Seq(Chunk),
             ~ misread => Timely(video') /\ Timely(units')
      PROVE  VideoInv'
  <2>1. VideoTyped'
    BY <1>2, <1>3 DEF VideoInv, VideoTyped, HardwareTypes, Busy
  <2>2. FeedIsThere'
    BY <1>2, <1>3 DEF VideoInv, FeedIsThere, Busy
  <2>3. FramesAreCounted'
    BY <1>2, <1>3 DEF VideoInv, FramesAreCounted, InHand
  <2>4. TimesArePaired'
    BY <1>2, <1>3 DEF VideoInv, TimesArePaired
  <2> QED
    BY <2>1, <2>2, <2>3, <2>4 DEF VideoInv
<1>4. CASE HeaderHanded
  <2> DEFINE x == [frame |-> Header, captured_at |-> NoTime]
  <2>1. feed = "header" /\ UNCHANGED <<misread, unencoded, hwFaults, handed>>
    BY <1>4 DEF HeaderHanded
  <2>2. x \in Chunk /\ x.frame = Header
    BY DEF Chunk, NoTime, Header
  <2>3. CASE readable
    <3>1. /\ feed' = "asking"
          /\ (HasRoom /\ video' = Append(video, x)) \/ video' = video
          /\ UNCHANGED <<textures, texture, transform, events, pairing, units, senders, readable>>
      BY <1>4, <2>3 DEF HeaderHanded
    <3> HIDE DEF x
    <3>2. Append(video, x) \in Seq(Chunk) /\ Len(Append(video, x)) = Len(video) + 1
      BY <1>1, <2>2, AppendIs
    <3>3. video' \in Seq(Chunk) /\ Len(video') <= VideoDepth
      BY <1>1, <3>1, <3>2 DEF HasRoom
    <3>4. ~ misread => Timely(video') /\ Timely(units')
      BY <1>1, <2>1, <3>1, <2>2, TimelyAppend DEF VideoInv, TimesArePaired
    <3> QED
      BY <1>1, <1>3, <2>1, <3>1, <3>3, <3>4 DEF Busy
  <2>4. CASE ~ readable
    <3>1. EndsFeed(<<>>)
      BY <1>4, <2>4 DEF HeaderHanded
    <3>2. /\ <<>> \in Seq(Chunk) /\ Len(<<>>) = 0 /\ Len(video) + Len(<<>>) <= VideoDepth
          /\ hwFaults' \in 0..TransformFaults
      BY <1>1, <2>1 DEF VideoInv, VideoTyped, HardwareTypes
    <3> QED
      BY <2>1, <3>1, <3>2, FeedEnds, TimelyNothing
  <2> QED
    BY <2>3, <2>4
<1>5. CASE HandOver
  <2>1. /\ feed = "handing" /\ feed' = feed /\ units # <<>>
        /\ UNCHANGED <<textures, texture, transform, events, pairing, misread, senders, readable,
                       unencoded, hwFaults, handed>>
        /\ \/ HasRoom /\ video' = Append(video, Head(units)) /\ units' = Tail(units)
           \/ video' = video /\ units' = Tail(units)
           \/ video' = video /\ units' = <<>>
    BY <1>5 DEF HandOver
  <2>2. /\ Tail(units) \in Seq(Chunk) /\ Head(units) \in Chunk
    BY <1>1, <2>1, TailIs
  <2>3. video' \in Seq(Chunk) /\ Len(video') <= VideoDepth /\ units' \in Seq(Chunk)
    <3>1. <<>> \in Seq(Chunk)
      OBVIOUS
    <3>2. /\ Append(video, Head(units)) \in Seq(Chunk)
          /\ Len(Append(video, Head(units))) = Len(video) + 1
      BY <1>1, <2>2, AppendIs
    <3>3. HasRoom => Len(video) + 1 <= VideoDepth
      BY <1>1 DEF HasRoom
    <3> QED
      BY <1>1, <2>1, <2>2, <3>1, <3>2, <3>3
  <2>4. ~ misread => Timely(video') /\ Timely(units')
    BY <1>1, <2>1, <2>2, TimelyAppend, TimelyTail, TimelyNothing DEF VideoInv, TimesArePaired
  <2> QED
    BY <1>3, <2>1, <2>3, <2>4 DEF Busy
<1>6. CASE HandedAll
  <2>1. /\ feed = "handing" /\ feed' = "receiving"
        /\ UNCHANGED <<textures, texture, transform, events, pairing, units, misread, video, senders, readable,
                       unencoded, hwFaults, handed>>
    BY <1>6 DEF HandedAll, queueVars
  <2>2. ~ misread => Timely(video') /\ Timely(units')
    BY <2>1 DEF VideoInv, TimesArePaired
  <2> QED
    BY <1>1, <1>3, <2>1, <2>2 DEF Busy
<1>7. CASE TailQueued
  <2> DEFINE room == Min({Len(units), VideoDepth - Len(video)})
             taken == IF readable THEN SubSeq(units, 1, room) ELSE <<>>
  <2>1. feed = "tail" /\ EndsFeed(taken) /\ UNCHANGED <<misread, unencoded, hwFaults, handed>>
    BY <1>7 DEF TailQueued
  <2>2. room \in 0..Len(units) /\ Len(video) + room <= VideoDepth
    <3> DEFINE S == {Len(units), VideoDepth - Len(video)}
    <3>1. S \in SUBSET Int /\ S # {} /\ IsFiniteSet(S)
      <4>1. S \subseteq 0..(Len(units) + VideoDepth)
        BY <1>1
      <4>2. IsFiniteSet(0..(Len(units) + VideoDepth))
        BY <1>1, FS_Interval
      <4>3. IsFiniteSet(S)
        BY <4>1, <4>2, FS_Subset
      <4> QED
        BY <1>1, <4>3
    <3>2. \A x \in S : x >= 0
      BY <1>1
    <3>3. Len(units) \in S /\ VideoDepth - Len(video) \in S
      OBVIOUS
    <3> HIDE DEF S
    <3>4. Min(S) \in S /\ \A j \in S : Min(S) <= j
      BY <3>1, SmallestIsThere
    <3>5. Min(S) >= 0 /\ Min(S) \in Int /\ Min(S) <= Len(units) /\ Min(S) <= VideoDepth - Len(video)
      BY <3>1, <3>2, <3>3, <3>4
    <3> QED
      BY <1>1, <3>5 DEF S
  <2> HIDE DEF room
  <2>3. /\ taken \in Seq(Chunk) /\ Len(video) + Len(taken) <= VideoDepth
        /\ ~ misread => Timely(taken)
    <3>1. ~ misread => Timely(units)
      BY DEF VideoInv, TimesArePaired
    <3>2. <<>> \in Seq(Chunk) /\ Len(<<>>) = 0
      OBVIOUS
    <3>3. SubSeq(units, 1, room) \in Seq(Chunk) /\ Len(SubSeq(units, 1, room)) = room
      BY <1>1, <2>2
    <3>4. ~ misread => Timely(SubSeq(units, 1, room))
      BY <1>1, <2>2, <3>1, TimelyPrefix
    <3> QED
      BY <1>1, <2>2, <3>2, <3>3, <3>4, TimelyNothing
  <2> HIDE DEF taken
  <2>4. hwFaults' \in 0..TransformFaults
    BY <2>1 DEF VideoInv, VideoTyped, HardwareTypes
  <2> QED
    BY <2>1, <2>3, <2>4, FeedEnds
<1> QED
  BY <1>4, <1>5, <1>6, <1>7

(* The exchange with the transform.  What it may change of the rest.        *)
LEMMA ExchangeKeeps ==
    ASSUME VideoInv, UNCHANGED <<childVars, queueVars, textures, texture, unencoded, handed>>,
           feed \in Busy, feed # "header", feed' \in Busy, feed' # "header", feed' = "asking" => feed = "asking",
           transform' \in TransformRecord, transform'.open = transform.open,
           events' \in Seq({"need", "output"}), pairing' \in Seq(Frame), units' \in Seq(Chunk),
           misread' \in BOOLEAN, hwFaults' \in 0..TransformFaults,
           Len(textures) + InHand' + Len(transform'.inside) <= captured,
           transform'.finished <= Len(transform'.inside),
           Cardinality(Needs(events')) <= transform'.asked,
           ~ misread' => ~ misread /\ pairing' = transform'.inside /\ Timely(units')
    PROVE  VideoInv'
<1>1. UNCHANGED <<textured, captured, dropped, written, video, senders, readable>>
  BY DEF childVars, queueVars
<1>2. VideoTyped'
  BY <1>1 DEF VideoInv, VideoTyped, HardwareTypes, TransformRecord
<1>3. FeedIsThere'
  BY <1>1 DEF VideoInv, FeedIsThere, Busy
<1>4. FramesAreCounted'
  BY <1>1 DEF FramesAreCounted
<1>5. TimesArePaired'
  BY <1>1 DEF VideoInv, TimesArePaired
<1> QED
  BY <1>2, <1>3, <1>4, <1>5 DEF VideoInv

LEMMA WaitStep ==
    ASSUME VideoInv, RequestPassedOver \/ NothingQueued \/ GivesUp \/ DrainDeadline, UNCHANGED childVars
    PROVE  VideoInv'
<1>1. /\ feed \in {"asking", "collecting", "finishing"} /\ feed' \in {"handing", "finishing", "tail"}
      /\ UNCHANGED <<queueVars, textures, texture, transform, pairing, misread, unencoded, hwFaults, handed>>
      /\ units' \in {units, <<>>}
      /\ events' = events \/ (events # <<>> /\ events' = Tail(events))
  BY DEF RequestPassedOver, NothingQueued, GivesUp, DrainDeadline
<1>2. /\ events' \in Seq({"need", "output"}) /\ Cardinality(Needs(events')) <= Cardinality(Needs(events))
      /\ Cardinality(Needs(events')) \in Nat
  <2>1. CASE events' = events
    BY <2>1, TransformIs
  <2>2. CASE events # <<>> /\ events' = Tail(events)
    <3>1. Tail(events) \in Seq({"need", "output"})
      BY <2>2, TransformIs, TailIs
    <3>2. /\ Cardinality(Needs(Tail(events))) \in Nat
          /\ Cardinality(Needs(Tail(events))) <= Cardinality(Needs(events)) - IF Head(events) = "need" THEN 1 ELSE 0
      BY <2>2, TransformIs, NeedsTail
    <3> QED
      BY <2>2, <3>1, <3>2, TransformIs
  <2> QED
    BY <1>1, <2>1, <2>2
<1>3. /\ pairing \in Seq(Frame) /\ units' \in Seq(Chunk) /\ misread \in BOOLEAN /\ hwFaults \in 0..TransformFaults
  <2>1. units \in Seq(Chunk) /\ <<>> \in Seq(Chunk)
    BY DEF VideoInv, VideoTyped, HardwareTypes
  <2> QED
    BY <1>1, <2>1 DEF VideoInv, VideoTyped, HardwareTypes
<1>4. /\ Len(textures) + InHand + Len(transform.inside) <= captured
      /\ transform.finished <= Len(transform.inside) /\ Cardinality(Needs(events)) <= transform.asked
      /\ ~ misread => pairing = transform.inside /\ Timely(units)
  BY DEF VideoInv, FramesAreCounted, TimesArePaired
<1>5. InHand' = 0
  BY <1>1 DEF InHand
<1>6. Len(textures) + InHand' + Len(transform'.inside) <= captured /\ Cardinality(Needs(events')) <= transform'.asked
  BY <1>1, <1>2, <1>4, <1>5, TransformIs, SMTT(30)
<1>7. ~ misread' => ~ misread /\ pairing' = transform'.inside /\ Timely(units')
  BY <1>1, <1>4, TimelyNothing
<1> QED
  BY <1>1, <1>2, <1>3, <1>4, <1>6, <1>7, TransformIs, ExchangeKeeps DEF Busy

LEMMA PushStep ==
    ASSUME VideoInv, Pushes, UNCHANGED childVars
    PROVE  VideoInv'
<1>1. /\ feed = "asking" /\ events # <<>> /\ Head(events) = "need" /\ events' = Tail(events)
      /\ pairing' = Append(pairing, texture) /\ feed' = "collecting"
      /\ transform' = [transform EXCEPT !.asked = @ - 1, !.inside = Append(@, texture)]
      /\ UNCHANGED <<queueVars, textures, texture, units, misread, unencoded, hwFaults, handed>>
  BY DEF Pushes
<1>2. /\ pairing \in Seq(Frame) /\ units \in Seq(Chunk) /\ misread \in BOOLEAN /\ hwFaults \in 0..TransformFaults
      /\ texture \in Frame
  BY <1>1 DEF VideoInv, VideoTyped, HardwareTypes, FeedIsThere
<1>3. /\ Len(textures) + InHand + Len(transform.inside) <= captured
      /\ transform.finished <= Len(transform.inside) /\ Cardinality(Needs(events)) <= transform.asked
      /\ ~ misread => pairing = transform.inside /\ Timely(units)
  BY DEF VideoInv, FramesAreCounted, TimesArePaired
<1>4. /\ events' \in Seq({"need", "output"}) /\ Cardinality(Needs(events')) \in Nat
      /\ Cardinality(Needs(events')) <= Cardinality(Needs(events)) - 1
  BY <1>1, TransformIs, TailIs, NeedsTail
<1>5. transform.asked - 1 \in 0..Slots
  BY <1>3, <1>4, TransformIs, SMTT(30)
<1>6. /\ Append(transform.inside, texture) \in Seq(Frame)
      /\ Len(Append(transform.inside, texture)) = Len(transform.inside) + 1
      /\ pairing' \in Seq(Frame)
  BY <1>1, <1>2, TransformIs, AppendIs
<1>7. /\ transform' \in TransformRecord /\ transform'.open = transform.open
      /\ transform'.inside = Append(transform.inside, texture) /\ transform'.asked = transform.asked - 1
      /\ transform'.finished = transform.finished
  BY <1>1, <1>5, <1>6, TransformIs DEF TransformRecord
<1>8. InHand = 1 /\ InHand' = 0
  BY <1>1 DEF InHand
<1>9. /\ Len(textures) + InHand' + Len(transform'.inside) <= captured
      /\ transform'.finished <= Len(transform'.inside) /\ Cardinality(Needs(events')) <= transform'.asked
  <2>1. Len(transform'.inside) = Len(transform.inside) + 1
    BY <1>6, <1>7
  <2>2. Len(textures) + InHand' + Len(transform'.inside) <= captured
    <3>1. Len(textures) + 1 + Len(transform.inside) <= captured
      BY <1>3, <1>8
    <3>2. Len(textures) \in Nat /\ Len(transform.inside) \in Nat /\ captured \in Nat
      BY TransformIs
    <3>3. \A w, i, c \in Nat : w + 1 + i <= c => w + 0 + (i + 1) <= c
      OBVIOUS
    <3>4. Len(textures) + 0 + (Len(transform.inside) + 1) <= captured
      BY <3>1, <3>2, <3>3, Zenon
    <3> QED
      BY <1>8, <2>1, <3>4
  <2>3. transform'.finished <= Len(transform'.inside)
    BY <1>3, <1>7, <2>1, TransformIs
  <2>4. Cardinality(Needs(events')) <= transform'.asked
    BY <1>3, <1>4, <1>7, TransformIs
  <2> QED
    BY <2>2, <2>3, <2>4
<1>10. ~ misread' => ~ misread /\ pairing' = transform'.inside /\ Timely(units')
  BY <1>1, <1>3, <1>7
<1> QED
  BY <1>1, <1>2, <1>4, <1>6, <1>7, <1>9, <1>10, ExchangeKeeps DEF Busy

(* A sample is taken, or is not; without a fault it is the oldest frame's.  *)
LEMMA AnnouncedIs ==
    ASSUME VideoInv, Announced
    PROVE  /\ UNCHANGED <<textures, texture, unencoded, queueVars, handed>>
           /\ feed \in {"asking", "collecting", "finishing"} /\ events' \in Seq({"need", "output"})
           /\ Cardinality(Needs(events')) \in Nat /\ Cardinality(Needs(events')) <= transform.asked
<1>1. events # <<>> /\ Head(events) = "output" /\ events' = Tail(events)
  BY DEF Announced
<1>2. /\ events' \in Seq({"need", "output"}) /\ Cardinality(Needs(events')) \in Nat
      /\ Cardinality(Needs(events')) <= Cardinality(Needs(events))
  <2>1. Tail(events) \in Seq({"need", "output"})
    BY <1>1, TransformIs, TailIs
  <2>2. /\ Cardinality(Needs(Tail(events))) \in Nat
        /\ Cardinality(Needs(Tail(events))) <= Cardinality(Needs(events)) - IF Head(events) = "need" THEN 1 ELSE 0
    BY <1>1, TransformIs, NeedsTail
  <2> QED
    BY <1>1, <2>1, <2>2, TransformIs
<1>3. Cardinality(Needs(events)) <= transform.asked
  BY DEF VideoInv, FramesAreCounted
<1> QED
  BY <1>2, <1>3, TransformIs DEF Announced

LEMMA TakeStep ==
    ASSUME VideoInv, OutputTaken, UNCHANGED childVars
    PROVE  VideoInv'
<1>1. /\ transform.finished > 0 /\ units' = Append(units, Finished(Head(transform.inside))) /\ feed' = feed
      /\ pairing' = IF pairing = <<>> THEN <<>> ELSE Tail(pairing)
      /\ transform' = [transform EXCEPT !.inside = Tail(@), !.finished = @ - 1, !.changes = 0]
      /\ UNCHANGED <<misread, hwFaults>>
  BY DEF OutputTaken, TakesSample
<1>2. /\ UNCHANGED <<textures, texture, unencoded, queueVars, handed>>
      /\ feed \in {"asking", "collecting", "finishing"} /\ events' \in Seq({"need", "output"})
      /\ Cardinality(Needs(events')) \in Nat /\ Cardinality(Needs(events')) <= transform.asked
  BY AnnouncedIs DEF OutputTaken
<1>3. /\ Len(textures) + InHand + Len(transform.inside) <= captured
      /\ transform.finished <= Len(transform.inside)
      /\ ~ misread => pairing = transform.inside /\ Timely(units)
  BY DEF VideoInv, FramesAreCounted, TimesArePaired
<1>4. /\ pairing \in Seq(Frame) /\ units \in Seq(Chunk) /\ misread \in BOOLEAN /\ hwFaults \in 0..TransformFaults
  BY DEF VideoInv, VideoTyped, HardwareTypes
<1>5. transform.inside # <<>> /\ transform.finished - 1 \in 0..Frames
  BY <1>1, <1>3, TransformIs, SMTT(30)
<1>6. /\ Tail(transform.inside) \in Seq(Frame) /\ Len(Tail(transform.inside)) = Len(transform.inside) - 1
      /\ Head(transform.inside) \in Frame
  BY <1>5, TransformIs, TailIs
<1>7. /\ transform' \in TransformRecord /\ transform'.open = transform.open
      /\ transform'.inside = Tail(transform.inside) /\ transform'.asked = transform.asked
      /\ transform'.finished = transform.finished - 1
  <2>1. 0 \in 0..RENEGOTIATION_ATTEMPTS
    BY HardwareAssumption
  <2> QED
    BY <1>1, <1>5, <1>6, <2>1, TransformIs DEF TransformRecord
<1>8. pairing' \in Seq(Frame) /\ (pairing # <<>> => Head(pairing) \in Frame)
  BY <1>1, <1>4, TailIs, NothingIs
<1>9. /\ Finished(Head(transform.inside)) \in Chunk
      /\ Finished(Head(transform.inside)).frame = Head(transform.inside)
      /\ ~ misread => Finished(Head(transform.inside)).captured_at = Head(transform.inside)
  BY <1>3, <1>5, <1>6, <1>8 DEF Finished, Chunk
<1>10. units' \in Seq(Chunk) /\ (~ misread => Timely(units'))
  BY <1>1, <1>3, <1>4, <1>9, AppendIs, TimelyAppend
<1>11. InHand' = InHand
  BY <1>1 DEF InHand
<1>12. /\ Len(textures) + InHand' + Len(transform'.inside) <= captured
       /\ transform'.finished <= Len(transform'.inside) /\ Cardinality(Needs(events')) <= transform'.asked
  BY <1>2, <1>3, <1>6, <1>7, <1>11, TransformIs, SMTT(30)
<1>13. ~ misread' => ~ misread /\ pairing' = transform'.inside /\ Timely(units')
  BY <1>1, <1>3, <1>5, <1>7, <1>10
<1> QED
  BY <1>1, <1>2, <1>4, <1>7, <1>8, <1>10, <1>12, <1>13, ExchangeKeeps DEF Busy

LEMMA RefuseStep ==
    ASSUME VideoInv, OutputRefused, UNCHANGED childVars
    PROVE  VideoInv'
<1>1. /\ UNCHANGED <<textures, texture, unencoded, queueVars, handed>>
      /\ feed \in {"asking", "collecting", "finishing"} /\ events' \in Seq({"need", "output"})
      /\ Cardinality(Needs(events')) \in Nat /\ Cardinality(Needs(events')) <= transform.asked
  BY AnnouncedIs DEF OutputRefused
<1>2. feed' \in {"finishing", "handing", "tail"} /\ units' \in {units, <<>>} /\ pairing' = pairing
  BY <1>1 DEF OutputRefused
<1>3. /\ Len(textures) + InHand + Len(transform.inside) <= captured
      /\ transform.finished <= Len(transform.inside)
      /\ ~ misread => pairing = transform.inside /\ Timely(units)
  BY DEF VideoInv, FramesAreCounted, TimesArePaired
<1>4. /\ pairing \in Seq(Frame) /\ units' \in Seq(Chunk) /\ misread \in BOOLEAN /\ hwFaults \in 0..TransformFaults
  <2>1. units \in Seq(Chunk) /\ <<>> \in Seq(Chunk)
    BY DEF VideoInv, VideoTyped, HardwareTypes
  <2> QED
    BY <1>2, <2>1 DEF VideoInv, VideoTyped, HardwareTypes
<1>5. \/ transform' = transform /\ misread' = misread
      \/ /\ transform.finished > 0 /\ misread' = TRUE
         /\ transform' = [transform EXCEPT !.inside = Tail(@), !.finished = @ - 1]
  BY DEF OutputRefused, TakeFails
<1>6. hwFaults' \in 0..TransformFaults
  <2>1. hwFaults' = hwFaults \/ (hwFaults > 0 /\ hwFaults' = hwFaults - 1)
    BY DEF OutputRefused, TakeFails
  <2> QED
    BY <1>4, <2>1, HardwareAssumption
<1>7. InHand' = 0
  BY <1>2 DEF InHand
<1>8. /\ transform' \in TransformRecord /\ transform'.open = transform.open /\ transform'.asked = transform.asked
      /\ Len(transform'.inside) \in Nat /\ Len(transform'.inside) <= Len(transform.inside)
      /\ transform'.finished <= Len(transform'.inside)
      /\ ~ misread' => ~ misread /\ transform' = transform
  <2>1. CASE transform' = transform /\ misread' = misread
    BY <1>3, <2>1, TransformIs
  <2>2. CASE /\ transform.finished > 0 /\ misread' = TRUE
             /\ transform' = [transform EXCEPT !.inside = Tail(@), !.finished = @ - 1]
    <3>1. transform.inside # <<>> /\ transform.finished - 1 \in 0..Frames
      BY <1>3, <2>2, TransformIs
    <3>2. Tail(transform.inside) \in Seq(Frame) /\ Len(Tail(transform.inside)) = Len(transform.inside) - 1
      BY <3>1, TransformIs, TailIs
    <3>3. /\ transform' \in TransformRecord /\ transform'.open = transform.open /\ transform'.asked = transform.asked
          /\ transform'.inside = Tail(transform.inside) /\ transform'.finished = transform.finished - 1
      BY <2>2, <3>1, <3>2, TransformIs DEF TransformRecord
    <3> QED
      BY <1>3, <2>2, <3>1, <3>2, <3>3, TransformIs, SMTT(30)
  <2> QED
    BY <1>5, <2>1, <2>2
<1>9. /\ Len(textures) + InHand' + Len(transform'.inside) <= captured
      /\ Cardinality(Needs(events')) <= transform'.asked
  BY <1>1, <1>3, <1>7, <1>8, TransformIs, SMTT(30)
<1>10. ~ misread' => ~ misread /\ pairing' = transform'.inside /\ Timely(units')
  BY <1>2, <1>3, <1>8, TimelyNothing
<1>11. misread' \in BOOLEAN
  BY <1>4, <1>5
<1> QED
  BY <1>1, <1>2, <1>4, <1>6, <1>8, <1>9, <1>10, <1>11, ExchangeKeeps DEF Busy

LEMMA FeedSteps ==
    ASSUME VideoInv, FeedStep \/ TransformMoves, UNCHANGED childVars
    PROVE  VideoInv'
BY ReceiveStep, HandStep, WaitStep, PushStep, TakeStep, RefuseStep, TransformStep DEF FeedStep

(* What the video's writer takes it has written, and what it leaves is      *)
(* gone when it ends.                                                       *)
LEMMA VideoKept ==
    ASSUME VideoInv,
           UNCHANGED <<textures, feed, texture, transform, events, pairing, units, misread, unencoded, hwFaults,
                       textured, captured, dropped>>,
           handed' \in BOOLEAN, senders' \subseteq senders, readable' \in BOOLEAN,
           \/ UNCHANGED <<video, written>>
           \/ video' = <<>> /\ written' = written
           \/ video # <<>> /\ video' = Tail(video) /\ written' = Append(written, Head(video))
    PROVE  VideoInv'
<1>1. video \in Seq(Chunk) /\ Len(video) <= VideoDepth /\ written \in Seq(Chunk) /\ VideoDepth \in Nat /\ Len(video) \in Nat
  BY HardwareAssumption DEF VideoInv, VideoTyped, HardwareTypes
<1>2. ~ misread => Timely(video) /\ Timely(written)
  BY DEF VideoInv, TimesArePaired
<1>3. /\ video' \in Seq(Chunk) /\ Len(video') <= VideoDepth /\ written' \in Seq(Chunk)
      /\ video = <<>> => video' = <<>>
      /\ ~ misread => Timely(video') /\ Timely(written')
  <2>1. CASE UNCHANGED <<video, written>>
    BY <1>1, <1>2, <2>1
  <2>2. CASE video' = <<>> /\ written' = written
    <3>1. <<>> \in Seq(Chunk) /\ Len(<<>>) = 0
      OBVIOUS
    <3> QED
      BY <1>1, <1>2, <2>2, <3>1, TimelyNothing
  <2>3. CASE video # <<>> /\ video' = Tail(video) /\ written' = Append(written, Head(video))
    <3>1. /\ Tail(video) \in Seq(Chunk) /\ Len(Tail(video)) = Len(video) - 1 /\ Head(video) \in Chunk
      BY <1>1, <2>3, TailIs
    <3>2. Append(written, Head(video)) \in Seq(Chunk)
      BY <1>1, <3>1, AppendIs
    <3>3. ~ misread => Timely(video') /\ Timely(written')
      BY <1>1, <1>2, <2>3, <3>1, TimelyTail, TimelyAppend
    <3>4. Len(video') = Len(video) - 1
      BY <2>3, <3>1
    <3>5. Len(video') <= VideoDepth
      BY <1>1, <3>4
    <3>6. video' \in Seq(Chunk) /\ written' \in Seq(Chunk) /\ video # <<>>
      BY <2>3, <3>1, <3>2
    <3> QED
      BY <3>3, <3>5, <3>6, Zenon
  <2> QED
    BY <2>1, <2>2, <2>3
<1>4. VideoTyped'
  BY <1>3 DEF VideoInv, VideoTyped, HardwareTypes
<1>5. FeedIsThere'
  BY <1>3 DEF VideoInv, FeedIsThere
<1>6. FramesAreCounted'
  BY DEF VideoInv, FramesAreCounted, InHand
<1>7. TimesArePaired'
  BY <1>3 DEF VideoInv, TimesArePaired
<1> QED
  BY <1>4, <1>5, <1>6, <1>7 DEF VideoInv

LEMMA VideoSubmitted ==
    ASSUME VideoInv, SubmitsVideo
    PROVE  VideoInv'
<1>1. /\ captured < Frames /\ captured' = captured + 1
      /\ UNCHANGED <<handed, feed, texture, transform, events, pairing, units, misread, hwFaults, senders, readable,
                     textured, written>>
  BY DEF SubmitsVideo, Submit, hwVars
<1>2. /\ video \in Seq(Chunk) /\ Len(video) <= VideoDepth /\ Len(video) \in Nat /\ VideoDepth \in Nat
      /\ textures \in Seq(Frame) /\ Len(textures) <= QUEUE_DEPTH /\ Len(textures) \in Nat /\ QUEUE_DEPTH \in Nat
      /\ unencoded \in Nat /\ captured \in 0..Frames /\ dropped \in 0..captured /\ Frames \in Nat
  BY HardwareAssumption, SMTT(30) DEF VideoInv, VideoTyped, HardwareTypes
<1>3. captured' \in 0..Frames /\ captured + 1 \in Frame
  BY <1>1, <1>2 DEF Frame
<1>4. InHand' = InHand
  BY <1>1 DEF InHand
<1>5. CASE textured
  <2>1. /\ UNCHANGED <<video, dropped>>
        /\ \/ UNCHANGED <<textures, unencoded>>
           \/ Len(textures) < QUEUE_DEPTH /\ textures' = Append(textures, captured + 1) /\ unencoded' = unencoded
           \/ textures' = textures /\ unencoded' = unencoded + 1
    BY <1>5 DEF SubmitsVideo, Submit
  <2>2. /\ textures' \in Seq(Frame) /\ Len(textures') <= QUEUE_DEPTH /\ unencoded' \in Nat
        /\ Len(textures') <= Len(textures) + 1 /\ Len(textures') \in Nat
    <3>1. Append(textures, captured + 1) \in Seq(Frame) /\ Len(Append(textures, captured + 1)) = Len(textures) + 1
      BY <1>2, <1>3, AppendIs
    <3>2. textures' = textures \/ (Len(textures) < QUEUE_DEPTH /\ textures' = Append(textures, captured + 1))
      BY <2>1
    <3>3. unencoded' \in Nat
      BY <1>2, <2>1
    <3> HIDE DEF Frame
    <3>4. textures' \in Seq(Frame)
      BY <1>2, <3>1, <3>2
    <3>5. Len(textures') \in {Len(textures), Len(textures) + 1} /\ Len(textures') <= QUEUE_DEPTH
      BY <1>2, <3>1, <3>2
    <3> QED
      BY <1>2, <3>3, <3>4, <3>5
  <2>3. dropped' \in 0..captured'
    BY <1>1, <1>2, <2>1
  <2>4. VideoTyped'
    BY <1>1, <1>3, <2>1, <2>2, <2>3 DEF VideoInv, VideoTyped, HardwareTypes
  <2>5. FeedIsThere'
    BY <1>1, <2>1 DEF VideoInv, FeedIsThere
  <2>6. FramesAreCounted'
    BY <1>1, <1>2, <1>4, <2>2, TransformIs, SMTT(30) DEF VideoInv, FramesAreCounted
  <2>7. TimesArePaired'
    BY <1>1, <2>1 DEF VideoInv, TimesArePaired
  <2> QED
    BY <2>4, <2>5, <2>6, <2>7 DEF VideoInv
<1>6. CASE ~ textured
  <2> DEFINE x == [frame |-> captured + 1, captured_at |-> captured + 1]
  <2>1. /\ UNCHANGED <<textures, unencoded>>
        /\ \/ UNCHANGED <<video, dropped>>
           \/ HasRoom /\ video' = Append(video, x) /\ dropped' = dropped
           \/ video' = video /\ dropped' = dropped + 1
    BY <1>6 DEF SubmitsVideo, hwVars
  <2>2. x \in Chunk /\ x.frame = x.captured_at
    BY <1>3 DEF Chunk
  <2> HIDE DEF x
  <2>3. Append(video, x) \in Seq(Chunk) /\ Len(Append(video, x)) = Len(video) + 1 /\ (HasRoom => Len(video) + 1 <= VideoDepth)
    BY <1>2, <2>2, AppendIs DEF HasRoom
  <2>4. video' \in Seq(Chunk) /\ Len(video') <= VideoDepth /\ dropped' \in 0..captured'
    BY <1>1, <1>2, <2>1, <2>3, SMTT(30)
  <2>5. VideoTyped'
    BY <1>1, <1>3, <2>1, <2>4 DEF VideoInv, VideoTyped, HardwareTypes
  <2>6. FeedIsThere'
    BY <1>1, <1>6, <2>1 DEF VideoInv, FeedIsThere
  <2>7. FramesAreCounted'
    BY <1>1, <1>2, <1>4, <2>1, TransformIs DEF VideoInv, FramesAreCounted
  <2>8. ~ misread => Timely(video')
    BY <1>2, <2>1, <2>2, TimelyAppend DEF VideoInv, TimesArePaired
  <2>9. TimesArePaired'
    BY <1>1, <2>1, <2>8 DEF VideoInv, TimesArePaired
  <2> QED
    BY <2>5, <2>6, <2>7, <2>9 DEF VideoInv
<1> QED
  BY <1>5, <1>6

(* The steps of the child and of its owner that leave the video alone.      *)
Aside ==
    \/ \E t \in DOMAIN tracks : SubmitsAudio(t) \/ Dials(t) \/ AudioWrites(t)
    \/ ChildFails \/ ChildStopsReading \/ ChildFinishes
    \/ FeedJoined \/ ChildReaped \/ VideoJoined \/ AudioJoined

LEMMA AsideIs ==
    ASSUME Aside
    PROVE  UNCHANGED <<textures, handed, feed, texture, transform, events, pairing, units, misread, unencoded, hwFaults,
                       video, senders, readable, textured, writer, written, captured, dropped>>
BY DEF Aside, SubmitsAudio, Dials, AudioWrites, ChildFails, ChildStopsReading, ChildFinishes, FeedJoined,
   ChildReaped, VideoJoined, AudioJoined, Child, Owner, hwVars, queueVars

LEMMA EncoderSteps ==
    ASSUME EncoderNext
    PROVE  \/ SubmitsVideo \/ VideoWrites \/ Aside \/ DropsSenders
           \/ (FeedStep \/ TransformMoves) /\ UNCHANGED childVars
           \/ \E how \in {"finish", "drop"} : Closes(how)
BY DEF EncoderNext, Writers, Closing, Aside

LEMMA VideoStep ==
    ASSUME VideoInv, EncoderNext
    PROVE  VideoInv'
<1>1. handed \in BOOLEAN /\ readable \in BOOLEAN
  BY DEF VideoInv, VideoTyped, HardwareTypes
<1>2. CASE VideoWrites
  BY <1>1, <1>2, VideoKept DEF VideoWrites, EndsWriter, hwVars
<1>3. CASE Aside
  BY <1>1, <1>3, VideoKept, AsideIs
<1>4. CASE DropsSenders
  BY <1>1, <1>4, VideoKept DEF DropsSenders, Owner, hwVars
<1>5. ASSUME NEW how \in {"finish", "drop"}, Closes(how) PROVE VideoInv'
  BY <1>1, <1>5, VideoKept DEF Closes, Owner, TellFeedToStop, hwVars, queueVars
<1> QED
  BY <1>2, <1>3, <1>4, <1>5, EncoderSteps, VideoSubmitted, FeedSteps

(* What only the closing is about.                                          *)
LEMMA FeedLeaves ==
    ASSUME FeedStep
    PROVE  feed # "absent" /\ readable' = readable /\ senders' \in {senders, senders \ {"feed"}}
BY DEF FeedStep, Receives, CannotStart, FeedClosed, EndsFeed, HeaderHanded, HandOver, HandedAll, Pushes, OutputTaken,
   OutputRefused, Announced, RequestPassedOver, NothingQueued, GivesUp, DrainDeadline, TailQueued, queueVars, Busy

LEMMA PixelsStep ==
    ASSUME ChildInv, EncoderNext
    PROVE  PixelsAreCounted'
<1>1. /\ (readable <=> writer = "running")
      /\ owner \in {"open", "feed", "inputs"} => "pump" \in senders
      /\ writer = "ended" => senders = {} /\ (textured \/ video = <<>>)
      /\ ~ textured /\ writer # "failed" => Len(written) + Len(video) + dropped = captured
      /\ writer \in {"running", "ended", "failed"}
      /\ textured \in BOOLEAN
  BY DEF ChildInv, PixelsAreCounted, ChildTyped, VideoInv, VideoTyped
<1>2. /\ video \in Seq(Chunk) /\ written \in Seq(Chunk) /\ Len(video) \in Nat /\ Len(written) \in Nat
      /\ dropped \in Nat /\ captured \in Nat
  BY HardwareAssumption, SMTT(30) DEF ChildInv, VideoInv, VideoTyped, HardwareTypes
<1>3. CASE SubmitsVideo
  <2>1. /\ owner = "open" /\ captured' = captured + 1
        /\ UNCHANGED <<readable, writer, owner, senders, textured, written>>
    BY <1>3 DEF SubmitsVideo
  <2>2. CASE textured
    <3>1. video' = video
      BY <1>3, <2>2 DEF SubmitsVideo
    <3> QED
      BY <1>1, <2>1, <2>2, <3>1 DEF PixelsAreCounted
  <2>3. CASE ~ textured
    <3> DEFINE x == [frame |-> captured + 1, captured_at |-> captured + 1]
    <3>1. writer # "ended"
      BY <1>1, <2>1
    <3>2. \/ ~ readable
          \/ video' = Append(video, x) /\ dropped' = dropped
          \/ video' = video /\ dropped' = dropped + 1
      BY <1>3, <2>3 DEF SubmitsVideo
    <3>3. Len(Append(video, x)) = Len(video) + 1
      BY <1>2
    <3> HIDE DEF x
    <3>4. writer # "failed" => Len(written') + Len(video') + dropped' = captured'
      BY <1>1, <1>2, <2>1, <2>3, <3>1, <3>2, <3>3
    <3> QED
      BY <1>1, <2>1, <2>3, <3>1, <3>4 DEF PixelsAreCounted
  <2> QED
    BY <2>2, <2>3
<1>4. CASE VideoWrites
  <2>1. writer = "running" /\ UNCHANGED <<textured, captured, dropped, owner, senders>>
    BY <1>4 DEF VideoWrites, EndsWriter
  <2>2. CASE UNCHANGED <<writer, readable>> /\ video # <<>> /\ written' = Append(written, Head(video)) /\ video' = Tail(video)
    <3>1. /\ Len(Tail(video)) = Len(video) - 1 /\ Head(video) \in Chunk
      BY <1>2, <2>2, TailIs
    <3>2. Len(Append(written, Head(video))) = Len(written) + 1
      BY <1>2, <3>1, AppendIs
    <3>3. Len(written') + Len(video') = Len(written) + Len(video)
      BY <1>2, <2>2, <3>1, <3>2
    <3>4. ~ textured => Len(written') + Len(video') + dropped' = captured'
      BY <1>1, <2>1, <3>3
    <3> QED
      BY <1>1, <2>1, <2>2, <3>4 DEF PixelsAreCounted
  <2>3. CASE EndsWriter("failed")
    BY <1>1, <2>1, <2>3 DEF EndsWriter, PixelsAreCounted
  <2>4. CASE video = <<>> /\ senders = {} /\ EndsWriter("ended")
    <3>1. writer' = "ended" /\ readable' = FALSE /\ video' = video /\ written' = written
      BY <2>4 DEF EndsWriter
    <3> QED
      BY <1>1, <2>1, <2>4, <3>1 DEF PixelsAreCounted
  <2> QED
    BY <1>4, <2>2, <2>3, <2>4 DEF VideoWrites
<1>5. CASE Aside
  <2>1. UNCHANGED <<readable, writer, senders, textured, video, written, captured, dropped>>
    BY <1>5, AsideIs
  <2>2. owner' = owner \/ (owner = "feed" /\ owner' = "inputs") \/ owner' \in {"video", "audio", "done"}
    BY <1>5 DEF Aside, SubmitsAudio, Dials, AudioWrites, ChildFails, ChildStopsReading, ChildFinishes, FeedJoined,
       ChildReaped, VideoJoined, AudioJoined, Child, Owner
  <2> QED
    BY <1>1, <2>1, <2>2 DEF PixelsAreCounted
<1>6. CASE DropsSenders
  <2>1. /\ UNCHANGED <<readable, writer, textured, video, written, captured, dropped>>
        /\ owner' = "child" /\ senders' = senders \ {"pump"}
    BY <1>6 DEF DropsSenders, Owner
  <2> QED
    BY <1>1, <2>1 DEF PixelsAreCounted
<1>7. ASSUME NEW how \in {"finish", "drop"}, Closes(how) PROVE PixelsAreCounted'
  <2>1. /\ UNCHANGED <<readable, writer, senders, textured, video, written, captured, dropped>>
        /\ owner = "open" /\ owner' = "feed"
    BY <1>7 DEF Closes, Owner, queueVars
  <2> QED
    BY <1>1, <2>1 DEF PixelsAreCounted
<1>8. CASE FeedStep /\ UNCHANGED childVars
  <2>1. UNCHANGED <<writer, textured, written, captured, dropped, owner>>
    BY <1>8 DEF childVars
  <2>2. textured
    BY <1>8, FeedLeaves DEF ChildInv, VideoInv, FeedIsThere
  <2> QED
    BY <1>1, <1>8, <2>1, <2>2, FeedLeaves DEF PixelsAreCounted
<1>9. CASE TransformMoves /\ UNCHANGED childVars
  <2>1. UNCHANGED <<readable, writer, senders, textured, video, written, captured, dropped, owner>>
    BY <1>9 DEF childVars, TransformMoves, TransformAsks, TransformFinishes, TransformChangesType, Transform, queueVars
  <2> QED
    BY <1>1, <2>1 DEF PixelsAreCounted
<1> QED
  BY <1>3, <1>4, <1>5, <1>6, <1>7, <1>8, <1>9, EncoderSteps

LEMMA OwnerStep ==
    ASSUME ChildInv, EncoderNext
    PROVE  ChildTyped' /\ OwnerHasWaited'
<1>1. ChildTyped /\ OwnerHasWaited
  BY DEF ChildInv
<1>2. ASSUME UNCHANGED <<child, writer, tracks, owner, result>>, closing' \in {"no", "finish", "drop"}
      PROVE  ChildTyped' /\ OwnerHasWaited'
  BY <1>1, <1>2 DEF ChildTyped, OwnerHasWaited, Writing
<1>3. CASE SubmitsVideo
  BY <1>1, <1>2, <1>3 DEF SubmitsVideo, ChildTyped
<1>4. CASE (FeedStep \/ TransformMoves) /\ UNCHANGED childVars
  BY <1>1, <1>2, <1>4 DEF childVars, ChildTyped
<1>5. ASSUME NEW how \in {"finish", "drop"}, Closes(how) PROVE ChildTyped' /\ OwnerHasWaited'
  <2>1. owner = "open" /\ owner' = "feed" /\ closing' = how /\ UNCHANGED <<child, writer, tracks, result>>
    BY <1>5 DEF Closes, Owner
  <2> QED
    BY <1>1, <2>1 DEF ChildTyped, OwnerHasWaited, Writing
<1>6. CASE VideoWrites
  <2>1. writer = "running" /\ writer' \in {"running", "ended", "failed"} /\ UNCHANGED <<child, tracks, owner, result, closing>>
    BY <1>6 DEF VideoWrites, EndsWriter
  <2> QED
    BY <1>1, <2>1 DEF ChildTyped, OwnerHasWaited, Writing
<1>7. CASE DropsSenders
  <2>1. owner = "inputs" /\ owner' = "child" /\ UNCHANGED <<child, writer, result, closing>>
    BY <1>7 DEF DropsSenders, Owner
  <2> QED
    BY <1>1, <2>1 DEF ChildTyped, OwnerHasWaited
<1>8. ASSUME NEW t \in DOMAIN tracks, SubmitsAudio(t) \/ Dials(t) \/ AudioWrites(t)
      PROVE  ChildTyped' /\ OwnerHasWaited'
  <2>1. /\ Writing(tracks[t]) /\ UNCHANGED <<child, writer, owner, result, closing>>
        /\ DOMAIN tracks' = DOMAIN tracks
    BY <1>8 DEF SubmitsAudio, Dials, AudioWrites, Child, Writing
  <2>2. owner # "done" /\ result = "none"
    BY <1>1, <2>1 DEF OwnerHasWaited
  <2> QED
    BY <1>1, <2>1, <2>2 DEF ChildTyped, OwnerHasWaited
<1>9. CASE ChildFails \/ ChildStopsReading \/ ChildFinishes
  <2>1. /\ UNCHANGED <<writer, tracks, owner, result, closing>> /\ child.state # "exited"
        /\ \/ child' = [child EXCEPT !.state = "exited", !.status = "failed"]
           \/ child' = [child EXCEPT !.state = "stuck"]
           \/ child' = [child EXCEPT !.state = "exited", !.status = "ok"]
    BY <1>9 DEF ChildFails, ChildStopsReading, ChildFinishes, Child
  <2>2. owner \notin {"video", "audio", "done"} /\ ~ child.killed /\ result = "none"
    BY <1>1, <2>1 DEF OwnerHasWaited, ChildTyped
  <2>3. child' \in [state : {"running", "stuck", "exited"}, status : {"none", "ok", "failed"}, killed : BOOLEAN]
        /\ child'.killed = child.killed
    BY <1>1, <2>1 DEF ChildTyped
  <2> QED
    BY <1>1, <2>1, <2>2, <2>3 DEF ChildTyped, OwnerHasWaited, Writing
<1>10. CASE FeedJoined
  <2>1. owner = "feed" /\ owner' = "inputs" /\ UNCHANGED <<child, writer, tracks, result, closing>>
    BY <1>10 DEF FeedJoined, Owner
  <2> QED
    BY <1>1, <2>1 DEF ChildTyped, OwnerHasWaited, Writing
<1>11. CASE ChildReaped
  <2>1. /\ owner = "child" /\ owner' = "video" /\ UNCHANGED <<writer, tracks, result, closing>>
        /\ \/ child.state = "exited" /\ child' = child
           \/ child' = [state |-> "exited", status |-> "failed", killed |-> TRUE]
    BY <1>11 DEF ChildReaped, Owner
  <2>2. /\ child' \in [state : {"running", "stuck", "exited"}, status : {"none", "ok", "failed"}, killed : BOOLEAN]
        /\ child'.state = "exited" /\ (child'.killed => child'.status = "failed") /\ result = "none"
    <3>1. result = "none"
      BY <1>1, <2>1 DEF OwnerHasWaited
    <3>2. CASE child.state = "exited" /\ child' = child
      <4>1. child.killed => child.status = "failed"
        BY <1>1 DEF OwnerHasWaited
      <4> QED
        BY <1>1, <3>1, <3>2, <4>1 DEF ChildTyped
    <3>3. CASE child' = [state |-> "exited", status |-> "failed", killed |-> TRUE]
      BY <3>1, <3>3
    <3> QED
      BY <2>1, <3>2, <3>3
  <2> QED
    BY <1>1, <2>1, <2>2 DEF ChildTyped, OwnerHasWaited, Writing
<1>12. CASE VideoJoined
  <2>1. owner = "video" /\ owner' = "audio" /\ writer # "running" /\ UNCHANGED <<child, writer, tracks, result, closing>>
    BY <1>12 DEF VideoJoined, Owner
  <2> QED
    BY <1>1, <2>1 DEF ChildTyped, OwnerHasWaited, Writing
<1>13. CASE AudioJoined
  <2>1. /\ owner = "audio" /\ owner' = "done" /\ \A t \in DOMAIN tracks : ~ Writing(tracks[t])
        /\ UNCHANGED <<child, writer, tracks, closing>>
        /\ result' = IF closing = "finish" THEN Verdict ELSE "none"
    BY <1>13 DEF AudioJoined, Owner
  <2>2. /\ result' \in {"none", "ok", "deadline", "status", "writer"}
        /\ result' = "ok" => ~ Deadline /\ child.status = "ok" /\ ~ Failed
    BY <2>1 DEF Verdict
  <2>3. result' = "ok" => writer = "ended" /\ \A t \in DOMAIN tracks : tracks[t].writer = "ended"
    <3>1. \A t \in DOMAIN tracks : tracks[t].writer \in {"accepting", "running", "ended", "failed", "deadline"}
      BY DEF ChildInv, TracksInv, RightTrack, TrackRecord
    <3> QED
      BY <1>1, <2>1, <2>2, <3>1 DEF ChildTyped, OwnerHasWaited, Writing, Deadline, Failed
  <2> QED
    BY <1>1, <2>1, <2>2, <2>3 DEF ChildTyped, OwnerHasWaited, Writing
<1> QED
  BY <1>3, <1>4, <1>5, <1>6, <1>7, <1>8, <1>9, <1>10, <1>11, <1>12, <1>13, EncoderSteps DEF Aside

(* The length of a piece more or less.                                      *)
LEMMA SameSequence ==
    ASSUME NEW S, NEW s \in Seq(S), NEW t \in Seq(S), Len(s) = Len(t), \A i \in 1..Len(s) : s[i] = t[i]
    PROVE  s = t
OBVIOUS

LEMMA UnitIs ==
    ASSUME NEW p
    PROVE  \A u : u \in Units(p) <=> \E k \in DOMAIN p : u \in {k} \X (1..p[k].length)
BY Zenon DEF Units

LEMMA UnitsAreFinite ==
    ASSUME NEW p \in Seq(Piece)
    PROVE  IsFiniteSet(Units(p)) /\ Length(p) \in Nat
<1> DEFINE all == (1..Len(p)) \X (1..Blocks)
           U == Units(p)
<1>1. IsFiniteSet(all)
  <2>1. IsFiniteSet(1..Len(p)) /\ IsFiniteSet(1..Blocks)
    BY ChildAssumption, FS_Interval
  <2> QED
    BY <2>1, FS_Product
<1>2. U \in SUBSET all
  <2>1. \A k \in 1..Len(p) : p[k].length \in 1..Blocks
    <3>1. \A k \in 1..Len(p) : p[k] \in Piece
      OBVIOUS
    <3>2. \A x \in Piece : x.length \in 1..Blocks
      BY DEF Piece
    <3> QED
      BY <3>1, <3>2
  <2>2. DOMAIN p = 1..Len(p)
    OBVIOUS
  <2>3. \A k \in 1..Len(p) : 1..p[k].length \subseteq 1..Blocks
    BY <2>1, ChildAssumption
  <2>4. \A k \in 1..Len(p) : {k} \X (1..p[k].length) \subseteq all
    BY <2>3
  <2> HIDE DEF all
  <2>5. \A u \in Units(p) : u \in all
    BY <2>2, <2>4, UnitIs, Zenon
  <2> QED
    BY <2>5
<1> HIDE DEF all, U
<1>3. IsFiniteSet(U) /\ Cardinality(U) \in Nat
  BY <1>1, <1>2, FS_Subset, FS_CardinalityType
<1> QED
  BY <1>3 DEF U, Length

LEMMA LengthNothing == Length(<<>>) = 0
<1>1. Units(<<>>) = {}
  BY DEF Units
<1> QED
  BY <1>1, FS_EmptySet DEF Length

LEMMA LengthAppend ==
    ASSUME NEW p \in Seq(Piece), NEW x \in Piece
    PROVE  Length(Append(p, x)) = Length(p) + x.length
<1> DEFINE a == Append(p, x)
           new == {Len(p) + 1} \X (1..x.length)
           U == Units(p)
<1>1. /\ a \in Seq(Piece) /\ Len(p) \in Nat /\ Len(a) = Len(p) + 1 /\ a[Len(p) + 1] = x
      /\ \A i \in 1..Len(p) : a[i] = p[i]
  BY AppendIs
<1>2. DOMAIN a = (1..Len(p)) \cup {Len(p) + 1} /\ DOMAIN p = 1..Len(p)
  BY <1>1
<1> HIDE DEF a
<1>3. Units(a) = U \cup new
  <2>1. \A u : u \in Units(a) <=> \E k \in DOMAIN a : u \in {k} \X (1..a[k].length)
    BY UnitIs
  <2>2. \A u : u \in U <=> \E k \in DOMAIN p : u \in {k} \X (1..p[k].length)
    BY UnitIs
  <2>3. \A k \in DOMAIN p : k \in DOMAIN a /\ a[k] = p[k]
    BY <1>1, <1>2
  <2>4. Len(p) + 1 \in DOMAIN a /\ \A k \in DOMAIN a : k \in DOMAIN p \/ k = Len(p) + 1
    BY <1>2
  <2> HIDE DEF U
  <2>5. \A u : u \in Units(a) <=> u \in U \/ u \in new
    BY <1>1, <2>1, <2>2, <2>3, <2>4, Zenon
  <2> QED
    BY <2>5, Zenon
<1>4. U \cap new = {}
  <2>1. Len(p) + 1 \notin DOMAIN p
    BY <1>1, <1>2
  <2>2. \A u \in U : \E k \in DOMAIN p : u \in {k} \X (1..p[k].length)
    BY UnitIs
  <2>3. \A u \in U : u[1] \in DOMAIN p
    BY <2>2
  <2>4. \A u \in new : u[1] = Len(p) + 1
    OBVIOUS
  <2> HIDE DEF U, new
  <2> QED
    BY <2>1, <2>3, <2>4
<1>5. IsFiniteSet(new) /\ Cardinality(new) = x.length
  <2>1. x.length \in Nat /\ x.length >= 1
    BY ChildAssumption DEF Piece
  <2>2. IsFiniteSet(1..x.length) /\ Cardinality(1..x.length) = x.length
    <3> DEFINE n == x.length
    <3>1. n \in Int /\ n >= 1
      BY <2>1
    <3> HIDE DEF n
    <3>2. IsFiniteSet(1..n) /\ Cardinality(1..n) = IF 1 > n THEN 0 ELSE n - 1 + 1
      BY <3>1, FS_Interval
    <3>3. n - 1 + 1 = n
      BY <3>1
    <3> QED
      BY <3>1, <3>2, <3>3 DEF n
  <2>3. IsFiniteSet({Len(p) + 1}) /\ Cardinality({Len(p) + 1}) = 1
    BY FS_Singleton
  <2>4. IsFiniteSet(new) /\ Cardinality(new) = 1 * x.length
    <3> DEFINE one == {Len(p) + 1}
               many == 1..x.length
    <3>1. IsFiniteSet(one) /\ IsFiniteSet(many)
      BY <2>2, <2>3
    <3> HIDE DEF one, many
    <3>2. IsFiniteSet(one \X many) /\ Cardinality(one \X many) = Cardinality(one) * Cardinality(many)
      BY <3>1, FS_Product
    <3> QED
      BY <2>2, <2>3, <3>2 DEF one, many
  <2> QED
    BY <2>1, <2>4
<1>6. IsFiniteSet(U) /\ Cardinality(U) \in Nat
  BY UnitsAreFinite DEF Length
<1> HIDE DEF U, new
<1>7. Cardinality(U \cup new) = Cardinality(U) + Cardinality(new) - Cardinality({})
  BY <1>4, <1>5, <1>6, FS_Union
<1>8. Cardinality({}) = 0 /\ x.length \in Nat
  BY FS_EmptySet, ChildAssumption DEF Piece
<1>9. Cardinality(U \cup new) = Cardinality(U) + x.length
  BY <1>5, <1>6, <1>7, <1>8
<1> QED
  BY <1>3, <1>9 DEF Length, U, a

LEMMA BehindIs ==
    ASSUME NEW S, NEW s \in Seq(S), NEW t \in Seq(S), NEW x \in S
    PROVE  s \o Append(t, x) = Append(s \o t, x)
<1> DEFINE l == s \o Append(t, x)
           r == Append(s \o t, x)
           a == Append(t, x)
           c == s \o t
<1>1. a \in Seq(S) /\ Len(a) = Len(t) + 1 /\ a[Len(t) + 1] = x /\ \A i \in 1..Len(t) : a[i] = t[i]
  BY AppendIs
<1>2. /\ c \in Seq(S) /\ Len(c) = Len(s) + Len(t) /\ Len(s) \in Nat /\ Len(t) \in Nat
      /\ \A i \in 1..Len(s) : c[i] = s[i]
      /\ \A i \in 1..Len(t) : c[Len(s) + i] = t[i]
  BY Concatenation
<1> HIDE DEF a, c
<1>3. /\ s \o a \in Seq(S) /\ Len(s \o a) = Len(s) + Len(a)
      /\ \A i \in 1..Len(s) : (s \o a)[i] = s[i]
      /\ \A i \in 1..Len(a) : (s \o a)[Len(s) + i] = a[i]
  <2>1. a \in Seq(S)
    BY <1>1
  <2> QED
    BY <2>1, Concatenation
<1>4. /\ Append(c, x) \in Seq(S) /\ Len(Append(c, x)) = Len(c) + 1 /\ Append(c, x)[Len(c) + 1] = x
      /\ \A i \in 1..Len(c) : Append(c, x)[i] = c[i]
  BY <1>2, AppendIs
<1>5. ASSUME NEW i \in 1..Len(s \o a) PROVE (s \o a)[i] = Append(c, x)[i]
  <2>1. CASE i \in 1..Len(s)
    BY <1>2, <1>3, <1>4, <2>1
  <2>2. CASE i \notin 1..Len(s)
    <3> DEFINE j == i - Len(s)
    <3>1. j \in 1..(Len(t) + 1) /\ i = Len(s) + j
      BY <1>1, <1>2, <1>3, <2>2
    <3> HIDE DEF j
    <3>2. (s \o a)[i] = a[j]
      BY <1>1, <1>3, <3>1
    <3>3. CASE j = Len(t) + 1
      <4>1. i = Len(c) + 1
        BY <1>2, <3>1, <3>3
      <4> QED
        BY <1>1, <1>4, <3>2, <3>3, <4>1
    <3>4. CASE j \in 1..Len(t)
      <4>1. i \in 1..Len(c) /\ c[i] = t[j] /\ a[j] = t[j]
        BY <1>1, <1>2, <3>1, <3>4
      <4> QED
        BY <1>4, <3>2, <4>1
    <3> QED
      BY <1>2, <3>1, <3>3, <3>4
  <2> QED
    BY <2>1, <2>2
<1>6. Len(s \o a) = Len(Append(c, x))
  BY <1>1, <1>2, <1>3, <1>4
<1>7. s \o a = Append(c, x)
  BY <1>3, <1>4, <1>5, <1>6, SameSequence
<1> QED
  BY <1>7 DEF a, c

(* What moves from the front of one to the end of the other moves nowhere.  *)
LEMMA HeadMoves ==
    ASSUME NEW S, NEW s \in Seq(S), NEW t \in Seq(S), t # <<>>
    PROVE  Append(s, Head(t)) \o Tail(t) = s \o t
<1> DEFINE a == Append(s, Head(t))
           b == Tail(t)
           c == s \o t
<1>1. /\ b \in Seq(S) /\ Len(t) \in Nat /\ Len(t) >= 1 /\ Len(b) = Len(t) - 1 /\ Head(t) = t[1] /\ Head(t) \in S
      /\ \A i \in 1..(Len(t) - 1) : b[i] = t[i + 1] /\ i + 1 \in 1..Len(t)
  BY TailIs
<1>2. /\ a \in Seq(S) /\ Len(s) \in Nat /\ Len(a) = Len(s) + 1 /\ a[Len(s) + 1] = t[1]
      /\ \A i \in 1..Len(s) : a[i] = s[i]
  BY <1>1, AppendIs
<1>3. /\ c \in Seq(S) /\ Len(c) = Len(s) + Len(t)
      /\ \A i \in 1..Len(s) : c[i] = s[i]
      /\ \A i \in 1..Len(t) : c[Len(s) + i] = t[i]
  BY Concatenation
<1> HIDE DEF a, b, c
<1>4. /\ a \o b \in Seq(S) /\ Len(a \o b) = Len(a) + Len(b)
      /\ \A i \in 1..Len(a) : (a \o b)[i] = a[i]
      /\ \A i \in 1..Len(b) : (a \o b)[Len(a) + i] = b[i]
  <2>1. a \in Seq(S) /\ b \in Seq(S)
    BY <1>1, <1>2
  <2> QED
    BY <2>1, Concatenation
<1>5. ASSUME NEW i \in 1..Len(a \o b) PROVE (a \o b)[i] = c[i]
  <2>1. CASE i \in 1..Len(s)
    BY <1>2, <1>3, <1>4, <2>1
  <2>2. CASE i = Len(s) + 1
    BY <1>1, <1>2, <1>3, <1>4, <2>2
  <2>3. CASE i > Len(s) + 1
    <3> DEFINE j == i - (Len(s) + 1)
    <3>1. j \in 1..Len(b) /\ i = Len(a) + j /\ i = Len(s) + (j + 1) /\ j \in 1..(Len(t) - 1)
      BY <1>1, <1>2, <1>4, <2>3
    <3> HIDE DEF j
    <3>2. (a \o b)[i] = b[j] /\ b[j] = t[j + 1] /\ j + 1 \in 1..Len(t)
      BY <1>1, <1>4, <3>1
    <3> QED
      BY <1>3, <3>1, <3>2
  <2> QED
    BY <1>2, <2>1, <2>2, <2>3
<1>6. Len(a \o b) = Len(c)
  BY <1>1, <1>2, <1>3, <1>4
<1>7. a \o b = c
  BY <1>3, <1>4, <1>5, <1>6, SameSequence
<1> QED
  BY <1>7 DEF a, b, c

LEMMA PrefixIs ==
    ASSUME NEW p \in Seq(Piece), NEW x \in Piece
    PROVE  /\ \A k \in 1..Len(p) : SubSeq(Append(p, x), 1, k) = SubSeq(p, 1, k)
           /\ SubSeq(Append(p, x), 1, Len(p) + 1) = Append(p, x)
<1> DEFINE a == Append(p, x)
<1>1. /\ a \in Seq(Piece) /\ Len(p) \in Nat /\ Len(a) = Len(p) + 1
      /\ \A i \in 1..Len(p) : a[i] = p[i]
  BY AppendIs
<1> HIDE DEF a
<1>2. ASSUME NEW k \in 1..Len(p) PROVE SubSeq(a, 1, k) = SubSeq(p, 1, k)
  <2>1. SubSeq(a, 1, k) \in Seq(Piece) /\ Len(SubSeq(a, 1, k)) = k /\ \A i \in 1..k : SubSeq(a, 1, k)[i] = a[i]
    BY <1>1
  <2>2. SubSeq(p, 1, k) \in Seq(Piece) /\ Len(SubSeq(p, 1, k)) = k /\ \A i \in 1..k : SubSeq(p, 1, k)[i] = p[i]
    OBVIOUS
  <2>3. \A i \in 1..k : i \in 1..Len(p)
    BY <1>1
  <2> QED
    BY <1>1, <2>1, <2>2, <2>3, SameSequence
<1>3. SubSeq(a, 1, Len(p) + 1) = a
  <2> DEFINE n == Len(p) + 1
  <2>1. n \in Nat /\ Len(a) = n
    BY <1>1
  <2> HIDE DEF n
  <2>2. SubSeq(a, 1, n) \in Seq(Piece) /\ Len(SubSeq(a, 1, n)) = n /\ \A i \in 1..n : SubSeq(a, 1, n)[i] = a[i]
    BY <1>1, <2>1
  <2>3. SubSeq(a, 1, n) = a
    BY <1>1, <2>1, <2>2, SameSequence
  <2> QED
    BY <2>3 DEF n
<1> QED
  BY <1>2, <1>3 DEF a

LEMMA TimelineAppend ==
    ASSUME NEW p \in Seq(Piece), OnTimeline(p), NEW x \in Piece,
           x.block # Silence => Length(p) + x.length = x.block
    PROVE  OnTimeline(Append(p, x))
<1> DEFINE a == Append(p, x)
<1>1. /\ a \in Seq(Piece) /\ Len(p) \in Nat /\ Len(a) = Len(p) + 1 /\ a[Len(p) + 1] = x
      /\ \A i \in 1..Len(p) : a[i] = p[i]
  BY AppendIs
<1>2. /\ \A k \in 1..Len(p) : SubSeq(a, 1, k) = SubSeq(p, 1, k)
      /\ SubSeq(a, 1, Len(p) + 1) = a /\ Length(a) = Length(p) + x.length
  BY PrefixIs, LengthAppend
<1> HIDE DEF a
<1>3. ASSUME NEW k \in 1..Len(a), a[k].block # Silence PROVE Length(SubSeq(a, 1, k)) = a[k].block
  <2>1. CASE k \in 1..Len(p)
    BY <1>1, <1>2, <1>3, <2>1 DEF OnTimeline
  <2>2. CASE k = Len(p) + 1
    BY <1>1, <1>2, <1>3, <2>2
  <2> QED
    BY <1>1, <2>1, <2>2
<1> QED
  BY <1>3 DEF OnTimeline, a

LEMMA TimelinePrefix ==
    ASSUME NEW p \in Seq(Piece), NEW q \in Seq(Piece), OnTimeline(p \o q)
    PROVE  OnTimeline(p)
<1> DEFINE c == p \o q
<1>1. /\ c \in Seq(Piece) /\ Len(c) = Len(p) + Len(q) /\ Len(p) \in Nat /\ Len(q) \in Nat
      /\ \A i \in 1..Len(p) : c[i] = p[i]
  BY Concatenation
<1> HIDE DEF c
<1>2. ASSUME NEW k \in 1..Len(p) PROVE SubSeq(c, 1, k) = SubSeq(p, 1, k)
  <2>1. k \in 0..Len(c) /\ \A i \in 1..k : i \in 1..Len(p)
    BY <1>1
  <2>2. SubSeq(c, 1, k) \in Seq(Piece) /\ Len(SubSeq(c, 1, k)) = k /\ \A i \in 1..k : SubSeq(c, 1, k)[i] = c[i]
    BY <1>1, <2>1
  <2>3. SubSeq(p, 1, k) \in Seq(Piece) /\ Len(SubSeq(p, 1, k)) = k /\ \A i \in 1..k : SubSeq(p, 1, k)[i] = p[i]
    OBVIOUS
  <2> QED
    BY <1>1, <2>1, <2>2, <2>3, SameSequence
<1>3. OnTimeline(c)
  BY DEF c
<1>4. \A k \in 1..Len(p) : k \in 1..Len(c)
  BY <1>1
<1> QED
  BY <1>1, <1>2, <1>3, <1>4 DEF OnTimeline

(* A track is given a block, and its writer takes a piece.                  *)
LEMMA TrackIs ==
    ASSUME NEW track, RightTrack(track)
    PROVE  /\ track \in TrackRecord /\ track.queue \in Seq(Piece) /\ track.written \in Seq(Piece)
           /\ Len(track.queue) \in Nat /\ Len(track.queue) <= AudioDepth /\ AudioDepth \in Nat /\ Blocks \in Nat
           /\ track.owed \in Nat /\ track.dropped \in Nat /\ track.submitted \in 0..Blocks
           /\ track.owed <= track.submitted /\ track.dropped <= track.submitted
           /\ track.written \o track.queue \in Seq(Piece) /\ Length(track.written \o track.queue) \in Nat
<1>1. /\ track \in TrackRecord /\ track.queue \in Seq(Piece) /\ track.written \in Seq(Piece)
      /\ track.owed \in 0..Blocks /\ track.dropped \in 0..Blocks /\ track.submitted \in 0..Blocks
  BY DEF RightTrack, TrackRecord
<1>2. track.written \o track.queue \in Seq(Piece)
  BY <1>1, Concatenation
<1>3. Length(track.written \o track.queue) \in Nat
  BY <1>2, UnitsAreFinite
<1>4. /\ Len(track.queue) <= AudioDepth /\ track.owed <= track.submitted /\ track.dropped <= track.submitted
      /\ AudioDepth \in Nat /\ Blocks \in Nat
  BY ChildAssumption DEF RightTrack
<1> QED
  BY <1>1, <1>2, <1>3, <1>4

LEMMA TrackGrows ==
    ASSUME NEW track, RightTrack(track), Writing(track), track.submitted < Blocks,
           NEW queue \in Seq(Piece), NEW owed \in Nat, NEW dropped_ \in Nat,
           Len(queue) <= AudioDepth, owed <= track.submitted + 1, dropped_ <= track.submitted + 1,
           OnTimeline(track.written \o queue), Length(track.written \o queue) + owed = track.submitted + 1
    PROVE  RightTrack([track EXCEPT !.queue = queue, !.owed = owed, !.dropped = dropped_,
                                    !.submitted = track.submitted + 1])
<1> DEFINE n == track.submitted + 1
           e == [track EXCEPT !.queue = queue, !.owed = owed, !.dropped = dropped_, !.submitted = n]
<1>1. owed \in 0..Blocks /\ dropped_ \in 0..Blocks /\ n \in 0..Blocks /\ track \in TrackRecord
  BY TrackIs
<1> HIDE DEF n
<1>2. /\ e.queue = queue /\ e.owed = owed /\ e.dropped = dropped_ /\ e.submitted = n
      /\ e.written = track.written /\ e.writer = track.writer
  BY <1>1 DEF TrackRecord
<1>3. e \in TrackRecord
  BY <1>1 DEF TrackRecord
<1> HIDE DEF e
<1>4. e.writer # "ended"
  BY <1>2 DEF Writing
<1>5. RightTrack(e)
  BY <1>2, <1>3, <1>4 DEF RightTrack, n
<1> QED
  BY <1>5 DEF e, n

(* The block fits, behind what was paid.                                    *)
LEMMA TrackTakes ==
    ASSUME NEW track, RightTrack(track), Writing(track), track.submitted < Blocks,
           NEW queue \in Seq(Piece), Len(queue) < AudioDepth, OnTimeline(track.written \o queue),
           Length(track.written \o queue) = track.submitted
    PROVE  RightTrack([track EXCEPT !.queue = Append(queue, Data(track.submitted + 1)), !.owed = 0,
                                    !.dropped = track.dropped, !.submitted = track.submitted + 1])
<1> DEFINE n == track.submitted + 1
           d == Data(n)
           q == Append(queue, d)
           w == track.written
<1>1. /\ n \in 1..Blocks /\ w \in Seq(Piece) /\ track.submitted = n - 1 /\ track.dropped \in Nat /\ n \in Nat
      /\ track.dropped <= track.submitted /\ AudioDepth \in Nat /\ Blocks \in Nat /\ w \o queue \in Seq(Piece)
  BY TrackIs, Concatenation
<1> HIDE DEF n
<1>2. d \in Piece /\ d.block = n /\ d.length = 1
  BY <1>1 DEF Data, Piece
<1> HIDE DEF d, w
<1>3. q \in Seq(Piece) /\ Len(queue) \in Nat /\ Len(q) = Len(queue) + 1
  BY <1>2, AppendIs
<1>4. w \o q = Append(w \o queue, d)
  BY <1>1, <1>2, BehindIs
<1> DEFINE p == w \o queue
<1>5. p \in Seq(Piece) /\ OnTimeline(p) /\ Length(p) = n - 1
  BY <1>1 DEF w
<1> HIDE DEF p
<1>6. Length(Append(p, d)) = n
  <2>1. Length(Append(p, d)) = Length(p) + d.length
    BY <1>2, <1>5, LengthAppend
  <2> QED
    BY <1>1, <1>2, <1>5, <2>1
<1>7. OnTimeline(Append(p, d))
  <2>1. Length(p) + d.length = d.block
    BY <1>1, <1>2, <1>5
  <2> QED
    BY <1>2, <1>5, <2>1, TimelineAppend
<1>8. OnTimeline(w \o q) /\ Length(w \o q) = n
  BY <1>4, <1>6, <1>7 DEF p
<1> HIDE DEF q
<1>9. /\ Len(q) <= AudioDepth /\ 0 \in Nat /\ 0 <= track.submitted + 1 /\ track.dropped <= track.submitted + 1
      /\ OnTimeline(track.written \o q) /\ Length(track.written \o q) + 0 = track.submitted + 1
  BY <1>1, <1>3, <1>8 DEF w, n
<1>10. RightTrack([track EXCEPT !.queue = q, !.owed = 0, !.dropped = track.dropped, !.submitted = track.submitted + 1])
  BY <1>1, <1>3, <1>9, TrackGrows
<1> QED
  BY <1>10 DEF q, d, n

(* The block does not fit, and is owed.                                     *)
LEMMA TrackOwes ==
    ASSUME NEW track, RightTrack(track), Writing(track), track.submitted < Blocks,
           NEW queue \in Seq(Piece), Len(queue) <= AudioDepth, NEW owed \in Nat, OnTimeline(track.written \o queue),
           Length(track.written \o queue) + owed = track.submitted
    PROVE  RightTrack([track EXCEPT !.queue = queue, !.owed = owed + 1,
                                    !.dropped = track.dropped + 1, !.submitted = track.submitted + 1])
<1>1. /\ track.submitted \in Nat /\ track.dropped \in Nat /\ track.dropped <= track.submitted /\ AudioDepth \in Nat
      /\ track.written \o queue \in Seq(Piece)
  BY TrackIs, Concatenation
<1>2. Length(track.written \o queue) \in Nat
  BY <1>1, UnitsAreFinite
<1>3. /\ owed + 1 \in Nat /\ track.dropped + 1 \in Nat /\ owed + 1 <= track.submitted + 1
      /\ track.dropped + 1 <= track.submitted + 1
      /\ Length(track.written \o queue) + (owed + 1) = track.submitted + 1
  BY <1>1, <1>2
<1> QED
  BY <1>3, TrackGrows

(* What was owed is paid, in one piece.                                     *)
LEMMA TrackPays ==
    ASSUME NEW track, RightTrack(track), Writing(track), track.owed > 0, Len(track.queue) < AudioDepth
    PROVE  LET queue == Append(track.queue, Quiet(track.owed)) IN
              /\ queue \in Seq(Piece) /\ Len(queue) = Len(track.queue) + 1
              /\ OnTimeline(track.written \o queue)
              /\ Length(track.written \o queue) = track.submitted
<1> DEFINE x == Quiet(track.owed)
           q == Append(track.queue, x)
           p == track.written \o track.queue
<1>1. /\ track.owed \in 1..Blocks /\ track.queue \in Seq(Piece) /\ track.written \in Seq(Piece)
      /\ p \in Seq(Piece)
  BY TrackIs
<1>2. OnTimeline(p) /\ Length(p) + track.owed = track.submitted
  BY DEF RightTrack, Writing
<1>3. x \in Piece /\ x.block = Silence /\ x.length = track.owed
  BY <1>1, ChildAssumption DEF Quiet, Piece, Silence
<1> HIDE DEF x
<1>4. q \in Seq(Piece) /\ Len(q) = Len(track.queue) + 1
  BY <1>1, <1>3, AppendIs
<1>5. track.written \o q = Append(p, x)
  <2> DEFINE w == track.written
             b == track.queue
  <2>1. w \in Seq(Piece) /\ b \in Seq(Piece) /\ x \in Piece
    BY <1>1, <1>3
  <2> HIDE DEF w, b
  <2>2. w \o Append(b, x) = Append(w \o b, x)
    BY <2>1, BehindIs
  <2> QED
    BY <2>2 DEF w, b
<1> HIDE DEF p
<1>6. Length(Append(p, x)) = track.submitted /\ OnTimeline(Append(p, x))
  BY <1>1, <1>2, <1>3, LengthAppend, TimelineAppend
<1> QED
  BY <1>4, <1>5, <1>6 DEF x

LEMMA EnqueuedIsRight ==
    ASSUME NEW track, RightTrack(track), Writing(track), track.submitted < Blocks
    PROVE  RightTrack(Enqueued(track, track.submitted + 1))
<1> DEFINE n == track.submitted + 1
           queue == track.queue
           room == AudioDepth - Len(queue)
           x == Quiet(track.owed)
           e(q, o, d) == [track EXCEPT !.queue = q, !.owed = o, !.dropped = d, !.submitted = n]
<1>1. /\ queue \in Seq(Piece) /\ Len(queue) \in Nat /\ Len(queue) <= AudioDepth /\ AudioDepth \in Nat
      /\ track.owed \in Nat /\ track.dropped \in Nat /\ track.submitted \in Nat
  BY TrackIs
<1>2. DOMAIN track = {"queue", "owed", "dropped", "submitted", "open", "writer", "written"}
  BY TrackIs DEF TrackRecord
<1>3. OnTimeline(track.written \o queue) /\ Length(track.written \o queue) + track.owed = track.submitted
  BY DEF RightTrack, Writing
<1>4. /\ \A q \in Seq(Piece) : q \o <<>> = q
      /\ \A q \in Seq(Piece), y \in Piece : q \o <<y>> = Append(q, y)
      /\ Len(<<>>) = 0 /\ \A y : Len(<<y>>) = 1
      /\ \A i \in Nat : i + 1 - 0 = i + 1 /\ i + 1 - 1 = i
  OBVIOUS
<1>5. Data(n) \in Piece /\ (track.owed > 0 => x \in Piece)
  BY TrackIs, ChildAssumption DEF Data, Quiet, Piece, Silence
<1>6. CASE track.owed > 0 /\ room > 0
  <2> DEFINE q1 == Append(queue, x)
  <2>1. /\ q1 \in Seq(Piece) /\ Len(q1) = Len(queue) + 1 /\ OnTimeline(track.written \o q1)
        /\ Length(track.written \o q1) = track.submitted
    BY <1>1, <1>6, TrackPays
  <2>2. queue \o <<x>> = q1
    BY <1>1, <1>4, <1>5, <1>6
  <2>3. CASE room > 1
    <3>1. Enqueued(track, n) = e(queue \o <<x>> \o <<Data(n)>>, 0 + 1 - Len(<<Data(n)>>),
                                 track.dropped + 1 - Len(<<Data(n)>>))
      BY <1>2, <1>4, <1>6, <2>3 DEF Enqueued
    <3>2. queue \o <<x>> \o <<Data(n)>> = Append(q1, Data(n))
      BY <1>4, <1>5, <2>1, <2>2
    <3>3. 0 + 1 - Len(<<Data(n)>>) = 0 /\ track.dropped + 1 - Len(<<Data(n)>>) = track.dropped
      BY <1>1, <1>4
    <3>4. Len(q1) < AudioDepth
      BY <1>1, <2>1, <2>3
    <3> HIDE DEF q1, x
    <3>5. RightTrack([track EXCEPT !.queue = Append(q1, Data(track.submitted + 1)), !.owed = 0,
                                   !.dropped = track.dropped, !.submitted = track.submitted + 1])
      BY <2>1, <3>4, TrackTakes
    <3> QED
      BY <3>1, <3>2, <3>3, <3>5
  <2>4. CASE ~ (room > 1)
    <3>1. Enqueued(track, n) = e(queue \o <<x>> \o <<>>, 0 + 1 - Len(<<>>), track.dropped + 1 - Len(<<>>))
      BY <1>2, <1>4, <1>6, <2>4 DEF Enqueued
    <3>2. queue \o <<x>> \o <<>> = q1
      BY <1>4, <2>1, <2>2
    <3>3. 0 + 1 - Len(<<>>) = 0 + 1 /\ track.dropped + 1 - Len(<<>>) = track.dropped + 1
      BY <1>1, <1>4
    <3>4. Len(q1) <= AudioDepth /\ Length(track.written \o q1) + 0 = track.submitted /\ 0 \in Nat
      BY <1>1, <1>6, <2>1
    <3> HIDE DEF q1, x
    <3>5. RightTrack([track EXCEPT !.queue = q1, !.owed = 0 + 1,
                                   !.dropped = track.dropped + 1, !.submitted = track.submitted + 1])
      BY <2>1, <3>4, TrackOwes
    <3> QED
      BY <3>1, <3>2, <3>3, <3>5
  <2> QED
    BY <2>3, <2>4
<1>7. CASE track.owed = 0 /\ room > 0
  <2>1. Enqueued(track, n) = e(queue \o <<>> \o <<Data(n)>>, track.owed + 1 - Len(<<Data(n)>>),
                               track.dropped + 1 - Len(<<Data(n)>>))
    BY <1>2, <1>4, <1>7 DEF Enqueued
  <2>2. queue \o <<>> \o <<Data(n)>> = Append(queue, Data(n))
    BY <1>1, <1>4, <1>5
  <2>3. track.owed + 1 - Len(<<Data(n)>>) = 0 /\ track.dropped + 1 - Len(<<Data(n)>>) = track.dropped
    BY <1>1, <1>4, <1>7
  <2>4. Len(queue) < AudioDepth /\ Length(track.written \o queue) = track.submitted
    <3>1. Length(track.written \o queue) \in Nat
      BY TrackIs
    <3> QED
      BY <1>1, <1>3, <1>7, <3>1
  <2>5. RightTrack([track EXCEPT !.queue = Append(queue, Data(track.submitted + 1)), !.owed = 0,
                                 !.dropped = track.dropped, !.submitted = track.submitted + 1])
    <3> HIDE DEF queue
    <3> QED
      BY <1>1, <1>3, <2>4, TrackTakes
  <2> QED
    BY <2>1, <2>2, <2>3, <2>5
<1>8. CASE ~ (room > 0)
  <2>1. Enqueued(track, n) = e(queue \o <<>> \o <<>>, track.owed + 1 - Len(<<>>), track.dropped + 1 - Len(<<>>))
    BY <1>1, <1>2, <1>4, <1>8 DEF Enqueued
  <2>2. queue \o <<>> \o <<>> = queue
    BY <1>1, <1>4
  <2>3. track.owed + 1 - Len(<<>>) = track.owed + 1 /\ track.dropped + 1 - Len(<<>>) = track.dropped + 1
    BY <1>1, <1>4
  <2>4. RightTrack([track EXCEPT !.queue = queue, !.owed = track.owed + 1,
                                 !.dropped = track.dropped + 1, !.submitted = track.submitted + 1])
    <3> HIDE DEF queue
    <3> QED
      BY <1>1, <1>3, TrackOwes
  <2> QED
    BY <2>1, <2>2, <2>3, <2>4
<1> QED
  BY <1>1, <1>6, <1>7, <1>8

(* A piece moves from the queue to the child.                               *)
LEMMA WrittenIsRight ==
    ASSUME NEW track, RightTrack(track), track.queue # <<>>, track.writer = "running"
    PROVE  RightTrack([track EXCEPT !.queue = Tail(track.queue), !.written = Append(track.written, Head(track.queue))])
<1> DEFINE q == Tail(track.queue)
           w == Append(track.written, Head(track.queue))
           e == [track EXCEPT !.queue = q, !.written = w]
<1>1. /\ track \in TrackRecord /\ track.queue \in Seq(Piece) /\ track.written \in Seq(Piece)
      /\ Len(track.queue) <= AudioDepth /\ AudioDepth \in Nat
  BY TrackIs
<1>2. /\ q \in Seq(Piece) /\ Len(q) = Len(track.queue) - 1 /\ Len(track.queue) \in Nat /\ Head(track.queue) \in Piece
  <2> DEFINE b == track.queue
  <2>1. b \in Seq(Piece) /\ b # <<>>
    BY <1>1
  <2> HIDE DEF b
  <2>2. Tail(b) \in Seq(Piece) /\ Len(b) \in Nat /\ Len(Tail(b)) = Len(b) - 1 /\ Head(b) \in Piece
    BY <2>1, TailIs
  <2> QED
    BY <2>2 DEF b
<1>3. w \in Seq(Piece)
  BY <1>1, <1>2
<1>4. w \o q = track.written \o track.queue
  <2> DEFINE b == track.queue
             v == track.written
  <2>1. b \in Seq(Piece) /\ b # <<>> /\ v \in Seq(Piece)
    BY <1>1
  <2> HIDE DEF b, v
  <2>2. Append(v, Head(b)) \o Tail(b) = v \o b
    BY <2>1, HeadMoves
  <2> QED
    BY <2>2 DEF b, v
<1>5. Len(q) <= AudioDepth
  BY <1>1, <1>2
<1> HIDE DEF q, w
<1>6. /\ e.queue = q /\ e.written = w /\ e.owed = track.owed /\ e.dropped = track.dropped
      /\ e.submitted = track.submitted /\ e.writer = track.writer
  BY <1>1 DEF TrackRecord
<1>7. e \in TrackRecord
  BY <1>1, <1>2, <1>3 DEF TrackRecord
<1> HIDE DEF e
<1>8. RightTrack(e)
  BY <1>4, <1>5, <1>6, <1>7 DEF RightTrack
<1> QED
  BY <1>8 DEF e, q, w

(* The writer stops short: what it had not written is lost.                 *)
LEMMA CutShortIsRight ==
    ASSUME NEW track, RightTrack(track), NEW how \in {"failed", "deadline"}
    PROVE  RightTrack([track EXCEPT !.queue = <<>>, !.writer = how])
<1> DEFINE e == [track EXCEPT !.queue = <<>>, !.writer = how]
<1>1. track \in TrackRecord /\ track.queue \in Seq(Piece) /\ track.written \in Seq(Piece) /\ AudioDepth \in Nat
  BY TrackIs
<1>2. OnTimeline(track.written)
  <2> DEFINE b == track.queue
             v == track.written
  <2>1. b \in Seq(Piece) /\ v \in Seq(Piece) /\ OnTimeline(v \o b)
    BY <1>1 DEF RightTrack
  <2> HIDE DEF b, v
  <2>2. OnTimeline(v)
    BY <2>1, TimelinePrefix
  <2> QED
    BY <2>2 DEF v
<1>3. track.written \o <<>> = track.written
  BY <1>1
<1>4. <<>> \in Seq(Piece) /\ Len(<<>>) <= AudioDepth
  BY <1>1
<1>5. /\ e.queue = <<>> /\ e.written = track.written /\ e.owed = track.owed /\ e.dropped = track.dropped
      /\ e.submitted = track.submitted /\ e.writer = how
  BY <1>1 DEF TrackRecord
<1>6. e \in TrackRecord
  BY <1>1, <1>4 DEF TrackRecord
<1> HIDE DEF e
<1>7. RightTrack(e)
  BY <1>2, <1>3, <1>4, <1>5, <1>6 DEF RightTrack
<1> QED
  BY <1>7 DEF e

(* The writer is connected, has ended, or the owner drops its end.          *)
LEMMA AsItWasIsRight ==
    ASSUME NEW track, RightTrack(track)
    PROVE  /\ track.writer = "accepting" => RightTrack([track EXCEPT !.writer = "running"])
           /\ track.writer = "running" /\ track.queue = <<>> => RightTrack([track EXCEPT !.writer = "ended"])
           /\ RightTrack([track EXCEPT !.open = FALSE])
<1>1. track \in TrackRecord
  BY TrackIs
<1>2. ASSUME NEW e \in TrackRecord, e.queue = track.queue, e.written = track.written, e.owed = track.owed,
             e.dropped = track.dropped, e.submitted = track.submitted,
             \/ e.writer = track.writer
             \/ track.writer \in {"accepting", "running"} /\ e.writer = "running"
             \/ track.writer = "running" /\ e.writer = "ended" /\ track.queue = <<>>
      PROVE  RightTrack(e)
  BY <1>2 DEF RightTrack
<1>3. ASSUME track.writer = "accepting" PROVE RightTrack([track EXCEPT !.writer = "running"])
  <2> DEFINE e == [track EXCEPT !.writer = "running"]
  <2>1. /\ e \in TrackRecord /\ e.queue = track.queue /\ e.written = track.written /\ e.owed = track.owed
        /\ e.dropped = track.dropped /\ e.submitted = track.submitted /\ e.writer = "running"
    BY <1>1 DEF TrackRecord
  <2> HIDE DEF e
  <2>2. RightTrack(e)
    BY <1>2, <1>3, <2>1
  <2> QED
    BY <2>2 DEF e
<1>4. ASSUME track.writer = "running", track.queue = <<>> PROVE RightTrack([track EXCEPT !.writer = "ended"])
  <2> DEFINE e == [track EXCEPT !.writer = "ended"]
  <2>1. /\ e \in TrackRecord /\ e.queue = track.queue /\ e.written = track.written /\ e.owed = track.owed
        /\ e.dropped = track.dropped /\ e.submitted = track.submitted /\ e.writer = "ended"
    BY <1>1 DEF TrackRecord
  <2> HIDE DEF e
  <2>2. RightTrack(e)
    BY <1>2, <1>4, <2>1
  <2> QED
    BY <2>2 DEF e
<1>5. RightTrack([track EXCEPT !.open = FALSE])
  <2> DEFINE e == [track EXCEPT !.open = FALSE]
  <2>1. /\ e \in TrackRecord /\ e.queue = track.queue /\ e.written = track.written /\ e.owed = track.owed
        /\ e.dropped = track.dropped /\ e.submitted = track.submitted /\ e.writer = track.writer
    BY <1>1 DEF TrackRecord
  <2> HIDE DEF e
  <2>2. RightTrack(e)
    BY <1>2, <2>1
  <2> QED
    BY <2>2 DEF e
<1> QED
  BY <1>3, <1>4, <1>5

LEMMA TracksStep ==
    ASSUME TracksInv, EncoderNext
    PROVE  TracksInv'
<1>1. DOMAIN tracks \subseteq Track /\ \A t \in DOMAIN tracks : RightTrack(tracks[t])
  BY DEF TracksInv
<1>2. ASSUME NEW t \in DOMAIN tracks, NEW r, RightTrack(r), tracks' = [tracks EXCEPT ![t] = r] PROVE TracksInv'
  <2>1. DOMAIN tracks' = DOMAIN tracks /\ \A u \in DOMAIN tracks : tracks'[u] = IF u = t THEN r ELSE tracks[u]
    BY <1>2
  <2>2. \A u \in DOMAIN tracks' : RightTrack(tracks'[u])
    BY <1>1, <1>2, <2>1
  <2> QED
    BY <1>1, <2>1, <2>2 DEF TracksInv, RightTrack, OnTimeline
<1>3. ASSUME tracks' = tracks PROVE TracksInv'
  BY <1>1, <1>3 DEF TracksInv
<1>4. ASSUME NEW t \in DOMAIN tracks, SubmitsAudio(t) PROVE TracksInv'
  <2>1. /\ tracks' = [tracks EXCEPT ![t] = Enqueued(tracks[t], tracks[t].submitted + 1)]
        /\ Writing(tracks[t]) /\ tracks[t].submitted < Blocks
    BY <1>4 DEF SubmitsAudio
  <2>2. RightTrack(Enqueued(tracks[t], tracks[t].submitted + 1))
    BY <1>1, <2>1, EnqueuedIsRight
  <2> QED
    BY <1>2, <2>1, <2>2
<1>5. ASSUME NEW t \in DOMAIN tracks, Dials(t) PROVE TracksInv'
  <2>1. tracks[t].writer = "accepting" /\ tracks' = [tracks EXCEPT ![t] = [tracks[t] EXCEPT !.writer = "running"]]
    BY <1>5 DEF Dials
  <2> QED
    BY <1>1, <1>2, <2>1, AsItWasIsRight
<1>6. ASSUME NEW t \in DOMAIN tracks, AudioWrites(t) PROVE TracksInv'
  <2> DEFINE track == tracks[t]
  <2>1. RightTrack(track)
    BY <1>1
  <2>2. \/ /\ track.writer = "running" /\ track.queue # <<>>
           /\ tracks' = [tracks EXCEPT ![t] = [track EXCEPT !.queue = Tail(track.queue),
                                                            !.written = Append(track.written, Head(track.queue))]]
        \/ tracks' = [tracks EXCEPT ![t] = [track EXCEPT !.queue = <<>>, !.writer = "failed"]]
        \/ /\ track.writer = "running" /\ track.queue = <<>>
           /\ tracks' = [tracks EXCEPT ![t] = [track EXCEPT !.writer = "ended"]]
        \/ tracks' = [tracks EXCEPT ![t] = [track EXCEPT !.queue = <<>>, !.writer = "deadline"]]
    <3>1. DOMAIN track = {"queue", "owed", "dropped", "submitted", "open", "writer", "written"}
      BY <2>1, TrackIs DEF TrackRecord
    <3> QED
      BY <1>6, <3>1 DEF AudioWrites
  <2> HIDE DEF track
  <2>3. CASE /\ track.writer = "running" /\ track.queue # <<>>
             /\ tracks' = [tracks EXCEPT ![t] = [track EXCEPT !.queue = Tail(track.queue),
                                                              !.written = Append(track.written, Head(track.queue))]]
    BY <1>2, <2>1, <2>3, WrittenIsRight
  <2>4. CASE tracks' = [tracks EXCEPT ![t] = [track EXCEPT !.queue = <<>>, !.writer = "failed"]]
    BY <1>2, <2>1, <2>4, CutShortIsRight
  <2>5. CASE /\ track.writer = "running" /\ track.queue = <<>>
             /\ tracks' = [tracks EXCEPT ![t] = [track EXCEPT !.writer = "ended"]]
    BY <1>2, <2>1, <2>5, AsItWasIsRight
  <2>6. CASE tracks' = [tracks EXCEPT ![t] = [track EXCEPT !.queue = <<>>, !.writer = "deadline"]]
    BY <1>2, <2>1, <2>6, CutShortIsRight
  <2> QED
    BY <2>2, <2>3, <2>4, <2>5, <2>6
<1>7. CASE DropsSenders
  <2>1. tracks' = [t \in DOMAIN tracks |-> [tracks[t] EXCEPT !.open = FALSE]]
    BY <1>7 DEF DropsSenders
  <2>2. DOMAIN tracks' = DOMAIN tracks /\ \A t \in DOMAIN tracks : RightTrack(tracks'[t])
    BY <1>1, <2>1, AsItWasIsRight
  <2> QED
    BY <1>1, <2>2 DEF TracksInv, RightTrack, OnTimeline
<1>8. CASE SubmitsVideo \/ VideoWrites \/ ((FeedStep \/ TransformMoves) /\ UNCHANGED childVars)
  BY <1>3, <1>8 DEF SubmitsVideo, VideoWrites, childVars
<1>9. ASSUME NEW how \in {"finish", "drop"}, Closes(how) PROVE TracksInv'
  BY <1>3, <1>9 DEF Closes
<1>10. CASE Aside
  <2>1. CASE ChildFails \/ ChildStopsReading \/ ChildFinishes \/ FeedJoined \/ ChildReaped \/ VideoJoined \/ AudioJoined
    <3>1. tracks' = tracks
      BY <2>1 DEF ChildFails, ChildStopsReading, ChildFinishes, FeedJoined, ChildReaped, VideoJoined, AudioJoined
    <3> QED
      BY <1>3, <3>1
  <2>2. ASSUME NEW t \in DOMAIN tracks, SubmitsAudio(t) \/ Dials(t) \/ AudioWrites(t) PROVE TracksInv'
    BY <1>4, <1>5, <1>6, <2>2
  <2> QED
    BY <1>10, <2>1, <2>2 DEF Aside
<1> QED
  BY <1>7, <1>8, <1>9, <1>10, EncoderSteps

LEMMA ChildStep ==
    ASSUME ChildInv, EncoderNext
    PROVE  ChildInv'
<1>1. VideoInv /\ TracksInv
  BY DEF ChildInv
<1> QED
  BY <1>1, VideoStep, TracksStep, PixelsStep, OwnerStep DEF ChildInv

LEMMA ChildUnchanged ==
    ASSUME ChildInv, UNCHANGED encoderVars
    PROVE  ChildInv'
<1>1. UNCHANGED <<textures, handed, feed, texture, transform, events, pairing, units, misread, unencoded, hwFaults,
                  video, senders, readable, textured, writer, written, captured, dropped>>
  BY DEF encoderVars, hwVars, queueVars, childVars
<1>2. UNCHANGED <<tracks, child, owner, closing, result>>
  BY DEF encoderVars, childVars
<1>3. VideoInv'
  BY <1>1, VideoKept DEF ChildInv, VideoInv, VideoTyped, HardwareTypes
<1>4. TracksInv'
  BY <1>2 DEF ChildInv, TracksInv
<1>5. PixelsAreCounted'
  BY <1>1, <1>2 DEF ChildInv, PixelsAreCounted
<1>6. ChildTyped' /\ OwnerHasWaited'
  BY <1>1, <1>2 DEF ChildInv, ChildTyped, OwnerHasWaited, Writing
<1> QED
  BY <1>3, <1>4, <1>5, <1>6 DEF ChildInv

LEMMA ChildStart ==
    ASSUME NEW hardware \in BOOLEAN, NEW inputs, EncoderInit(hardware, inputs)
    PROVE  ChildInv
<1>1. /\ textures = <<>> /\ events = <<>> /\ pairing = <<>> /\ units = <<>> /\ video = <<>> /\ written = <<>>
      /\ transform = NoTransform /\ texture = Header /\ textured = hardware /\ captured = 0 /\ dropped = 0
      /\ feed = IF hardware THEN "receiving" ELSE "absent"
      /\ senders = {"pump"} \cup IF hardware THEN {"feed"} ELSE {}
      /\ handed = hardware /\ misread = FALSE /\ readable = TRUE /\ unencoded = 0 /\ hwFaults = TransformFaults
  BY DEF EncoderInit, HardwareInit
<1>2. /\ child = [state |-> "running", status |-> "none", killed |-> FALSE] /\ writer = "running"
      /\ owner = "open" /\ closing = "no" /\ result = "none" /\ DOMAIN tracks = inputs /\ inputs \subseteq Track
      /\ \A t \in inputs : tracks[t] = NewTrack
  BY DEF EncoderInit, Track
<1>3. /\ Frames \in Nat /\ TransformFaults \in Nat /\ Blocks \in Nat /\ AudioDepth \in Nat /\ QUEUE_DEPTH \in Nat
      /\ VideoDepth \in Nat /\ Slots \in Nat /\ RENEGOTIATION_ATTEMPTS \in Nat
  BY HardwareAssumption, ChildAssumption
<1>4. /\ <<>> \in Seq(Frame) /\ <<>> \in Seq(Chunk) /\ <<>> \in Seq(Piece) /\ <<>> \in Seq({"need", "output"})
      /\ Len(<<>>) = 0 /\ <<>> \o <<>> = <<>>
  OBVIOUS
<1>5. transform \in TransformRecord /\ transform.open = FALSE /\ transform.inside = <<>> /\ transform.finished = 0
      /\ transform.asked = 0
  BY <1>1, <1>3, <1>4 DEF TransformRecord, NoTransform
<1>6. HardwareTypes
  <2>1. textures \in Seq(Frame) /\ Len(textures) <= QUEUE_DEPTH /\ events \in Seq({"need", "output"}) /\ pairing \in Seq(Frame)
    BY <1>1, <1>3, <1>4
  <2>2. units \in Seq(Chunk) /\ video \in Seq(Chunk) /\ Len(video) <= VideoDepth
    BY <1>1, <1>3, <1>4
  <2>3. handed \in BOOLEAN /\ misread \in BOOLEAN /\ readable \in BOOLEAN /\ texture \in Frame \cup {Header}
    BY <1>1
  <2>4. feed \in {"absent", "receiving", "ended"} \cup Busy /\ senders \subseteq {"pump", "feed"}
    BY <1>1
  <2>5. unencoded \in Nat /\ hwFaults \in 0..TransformFaults
    BY <1>1, <1>3
  <2> QED
    BY <1>5, <2>1, <2>2, <2>3, <2>4, <2>5 DEF HardwareTypes, TransformRecord
<1>7. VideoTyped
  BY <1>1, <1>3, <1>4, <1>6 DEF VideoTyped
<1>8. FeedIsThere
  BY <1>1, <1>5 DEF FeedIsThere, Busy
<1>9. FramesAreCounted
  <2>1. Needs(<<>>) = {}
    BY DEF Needs
  <2>2. Cardinality(Needs(events)) = 0
    BY <1>1, <2>1, FS_EmptySet
  <2>3. InHand = 0
    BY <1>1 DEF InHand
  <2> QED
    BY <1>1, <1>4, <1>5, <2>2, <2>3 DEF FramesAreCounted
<1>10. TimesArePaired
  BY <1>1, <1>5, TimelyNothing DEF TimesArePaired
<1>11. RightTrack(NewTrack)
  <2>1. OnTimeline(<<>>) /\ Length(<<>>) = 0
    BY LengthNothing DEF OnTimeline
  <2>2. NewTrack \in TrackRecord
    BY <1>3, <1>4 DEF NewTrack, TrackRecord
  <2> QED
    BY <1>3, <1>4, <2>1, <2>2 DEF RightTrack, NewTrack
<1>12. TracksInv
  BY <1>2, <1>11 DEF TracksInv
<1>13. ChildTyped
  BY <1>2 DEF ChildTyped
<1>14. PixelsAreCounted
  BY <1>1, <1>2, <1>4 DEF PixelsAreCounted
<1>15. OwnerHasWaited
  BY <1>2 DEF OwnerHasWaited
<1> QED
  BY <1>7, <1>8, <1>9, <1>10, <1>12, <1>13, <1>14, <1>15 DEF ChildInv, VideoInv

(* What the invariant says of the media and of finish.                      *)
LEMMA StepsAre == Range(Steps) = {"open", "feed", "inputs", "child", "video", "audio", "done"}
<1>1. Len(Steps) = 7 /\ DOMAIN Steps = 1..7 /\ 1..7 = {1, 2, 3, 4, 5, 6, 7}
  BY DEF Steps
<1>2. /\ Steps[1] = "open" /\ Steps[2] = "feed" /\ Steps[3] = "inputs" /\ Steps[4] = "child"
      /\ Steps[5] = "video" /\ Steps[6] = "audio" /\ Steps[7] = "done"
  BY DEF Steps
<1> QED
  BY <1>1, <1>2 DEF Range

LEMMA ChildIsTyped == ASSUME ChildInv PROVE EncoderTypes
<1>1. \A t \in DOMAIN tracks : RightTrack(tracks[t]) /\ t \in Track
  BY DEF ChildInv, TracksInv
<1>2. HardwareTypes /\ textured \in BOOLEAN /\ written \in Seq(Chunk) /\ captured \in 0..Frames /\ dropped \in 0..Frames
  BY HardwareAssumption DEF ChildInv, VideoInv, VideoTyped
<1>3. \A t \in DOMAIN tracks : tracks[t] \in TrackRecord /\ Len(tracks[t].queue) <= AudioDepth
  BY <1>1 DEF RightTrack
<1>4. ChildTypes
  BY <1>1, <1>2, <1>3, StepsAre DEF ChildInv, ChildTyped, ChildTypes, TrackRecord
<1> QED
  BY <1>2, <1>4 DEF EncoderTypes

LEMMA MediaIsRight == ASSUME ChildInv PROVE MediaIsOnItsTimeline
<1>1. TimesAreTheirOwn
  <2> SUFFICES ASSUME ~ misread, NEW c \in Range(video) \cup Range(written) \cup Range(units), c.frame # Header
               PROVE  c.captured_at = c.frame
    BY DEF TimesAreTheirOwn
  <2>1. Timely(video) /\ Timely(written) /\ Timely(units)
    BY DEF ChildInv, VideoInv, TimesArePaired
  <2>2. video \in Seq(Chunk) /\ written \in Seq(Chunk) /\ units \in Seq(Chunk)
    BY DEF ChildInv, VideoInv, VideoTyped, HardwareTypes
  <2>3. ASSUME NEW s \in Seq(Chunk), Timely(s), c \in Range(s) PROVE c.captured_at = c.frame
    <3>1. PICK i \in 1..Len(s) : c = s[i]
      BY <2>3 DEF Range
    <3> QED
      BY <2>3, <3>1 DEF Timely
  <2> QED
    BY <2>1, <2>2, <2>3
<1>2. TrackIsOnTheTimeline
  <2> SUFFICES ASSUME NEW t \in DOMAIN tracks
               PROVE  LET pieces == tracks[t].written \o tracks[t].queue IN
                         /\ \A k \in DOMAIN pieces :
                               pieces[k].block # Silence => Length(SubSeq(pieces, 1, k)) = pieces[k].block
                         /\ Writing(tracks[t]) => Length(pieces) + tracks[t].owed = tracks[t].submitted
    BY DEF TrackIsOnTheTimeline
  <2> DEFINE pieces == tracks[t].written \o tracks[t].queue
  <2>1. RightTrack(tracks[t])
    BY DEF ChildInv, TracksInv
  <2>2. pieces \in Seq(Piece)
    BY <2>1, TrackIs
  <2>3. OnTimeline(pieces) /\ (Writing(tracks[t]) => Length(pieces) + tracks[t].owed = tracks[t].submitted)
    BY <2>1 DEF RightTrack, Writing
  <2> HIDE DEF pieces
  <2>4. DOMAIN pieces = 1..Len(pieces)
    BY <2>2
  <2>5. /\ \A k \in DOMAIN pieces : pieces[k].block # Silence => Length(SubSeq(pieces, 1, k)) = pieces[k].block
        /\ Writing(tracks[t]) => Length(pieces) + tracks[t].owed = tracks[t].submitted
    BY <2>3, <2>4 DEF OnTimeline
  <2> QED
    BY <2>5 DEF pieces
<1> QED
  BY <1>1, <1>2, ChildIsTyped DEF MediaIsOnItsTimeline

LEMMA FinishIsTrue == ASSUME ChildInv PROVE FinishTellsTheTruth
<1> SUFFICES ASSUME result = "ok"
             PROVE  /\ child.status = "ok" /\ ~ child.killed /\ writer = "ended"
                    /\ \A t \in DOMAIN tracks :
                          /\ tracks[t].writer = "ended"
                          /\ Length(tracks[t].written) + tracks[t].owed = tracks[t].submitted
                    /\ ~ textured => Len(written) + dropped = captured
  BY DEF FinishTellsTheTruth
<1>1. /\ child.status = "ok" /\ ~ child.killed /\ writer = "ended" /\ \A t \in DOMAIN tracks : tracks[t].writer = "ended"
  BY DEF ChildInv, OwnerHasWaited
<1>2. ASSUME NEW t \in DOMAIN tracks PROVE Length(tracks[t].written) + tracks[t].owed = tracks[t].submitted
  <2>1. RightTrack(tracks[t])
    BY DEF ChildInv, TracksInv
  <2>2. /\ tracks[t].queue = <<>>
        /\ Length(tracks[t].written \o tracks[t].queue) + tracks[t].owed = tracks[t].submitted
    BY <1>1, <2>1 DEF RightTrack
  <2>3. tracks[t].written \o <<>> = tracks[t].written
    <3>1. tracks[t].written \in Seq(Piece)
      BY <2>1, TrackIs
    <3> QED
      BY <3>1
  <2> QED
    BY <2>2, <2>3
<1>3. ~ textured => Len(written) + dropped = captured
  <2>1. ~ textured => video = <<>> /\ Len(written) + Len(video) + dropped = captured
    BY <1>1 DEF ChildInv, PixelsAreCounted
  <2>2. written \in Seq(Chunk) /\ dropped \in Nat
    BY HardwareAssumption DEF ChildInv, VideoInv, VideoTyped
  <2>3. Len(<<>>) = 0 /\ Len(written) \in Nat
    BY <2>2
  <2> QED
    BY <2>1, <2>2, <2>3
<1> QED
  BY <1>1, <1>2, <1>3

LEMMA ShellIsAsTold == ShellInv => HotkeysAreAsTold
BY DEF ShellInv, HotkeysAreAsTold

-----------------------------------------------------------------------------
(* The parts together.                                                      *)

LEMMA EverythingStarts == MCInit => IInv
<1> SUFFICES ASSUME MCInit PROVE IInv
  OBVIOUS
<1>1. ChildInv
  <2>1. \E hardware \in BOOLEAN, inputs \in {{"game"}, Track, {}} : EncoderInit(hardware, inputs)
    BY DEF MCInit
  <2> QED
    BY <2>1, ChildStart
<1> QED
  BY <1>1, StartsRight, ShellStart, SetupStart DEF MCInit, IInv

LEMMA EverythingStays == IInv /\ [MCNext]_<<startVars, encoderVars, shellVars, setupVars, part>> => IInv'
<1> SUFFICES ASSUME IInv, [MCNext]_<<startVars, encoderVars, shellVars, setupVars, part>> PROVE IInv'
  OBVIOUS
<1>1. part' = part /\ [StartNext]_startVars /\ [ShellNext]_shellVars /\ [SetupNext]_setupVars
      /\ (EncoderNext \/ UNCHANGED encoderVars)
  BY DEF MCNext
<1>2. StartInv' /\ ShellInv' /\ SetupInv'
  BY <1>1, StartStaysRight, ShellStep, SetupStep DEF IInv
<1>3. ChildInv'
  BY <1>1, ChildStep, ChildUnchanged DEF IInv
<1> QED
  BY <1>1, <1>2, <1>3 DEF IInv

LEMMA EverythingHolds == MCSpec => []IInv
BY EverythingStarts, EverythingStays, PTL DEF MCSpec

(* A start that fails, whatever step failed, gives the connection to the    *)
(* index back and leaves no row open and, once a row was tried, no          *)
(* directory (StoreGuard, the error paths of begin_recording).              *)
THEOREM FailedStartsLeaveNothing == MCSpec => []AFailedStartLeavesNothing
<1>1. IInv => AFailedStartLeavesNothing
  BY StartLeavesNothing DEF IInv
<1> QED
  BY <1>1, EverythingHolds, PTL

(* What a running recording claims is delivered, and every transform it and *)
(* the panels open is the first of the machine's that can be opened as      *)
(* asked, whoever else opens one meanwhile (begin_recording, select_usable, *)
(* decide_rate, MftEncoder::open).                                          *)
THEOREM StartsKeepTheirPromise == MCSpec => []RecordingsStartAsPromised
<1>1. IInv => RecordingsStartAsPromised
  BY StartKeepsItsPromise, SetupIsAsAsked DEF IInv, RecordingsStartAsPromised
<1> QED
  BY <1>1, EverythingHolds, PTL

(* A frame reaches the child with the time it was captured at and a block   *)
(* of sound at the place its number says, for queues of every depth and     *)
(* transforms of any size, whatever was dropped, refused or asked again     *)
(* (FramePairing, enqueue_audio, hand_over).                                *)
THEOREM MediaStaysOnItsTimeline == MCSpec => []MediaIsOnItsTimeline
<1>1. IInv => MediaIsOnItsTimeline
  BY MediaIsRight DEF IInv
<1> QED
  BY <1>1, EverythingHolds, PTL

(* A finish that says Ok has written what was submitted and not counted as  *)
(* dropped or owed, every writer has ended and the child succeeded by       *)
(* itself (FfmpegEncoder::finish).                                          *)
THEOREM FinishIsToldTruly == MCSpec => []FinishTellsTheTruth
<1>1. IInv => FinishTellsTheTruth
  BY FinishIsTrue DEF IInv
<1> QED
  BY <1>1, EverythingHolds, PTL

(* What the window says of the chords is so, however many there are and in  *)
(* whichever order others take and leave them (listen_all).                 *)
THEOREM ChordsAreAsTold == MCSpec => []HotkeysAreAsTold
<1>1. IInv => HotkeysAreAsTold
  BY ShellIsAsTold DEF IInv
<1> QED
  BY <1>1, EverythingHolds, PTL

-----------------------------------------------------------------------------
(* The replay ring.                                                          *)

(* Where the next fragment to be admitted starts. *)
NextStart == IF batch = <<>> THEN encoded ELSE Head(batch).start_ms

(* The fragments a chunk completed follow each other up to the encoder. *)
BatchFollows ==
    \A k \in DOMAIN batch :
        /\ batch[k].duration_ms <= batch[k].length
        /\ batch[k].duration_ms = 0 \/ batch[k].duration_ms + Rounding >= batch[k].length
        /\ batch[k].start_ms + batch[k].length
              = IF k = Len(batch) THEN encoded ELSE batch[k + 1].start_ms

(* Every held fragment but the newest is closed and meets its successor. *)
Chained ==
    /\ \A i \in DOMAIN segments : segments[i].start_ms <= segments[i].end_ms
    /\ \A i \in DOMAIN segments :
          i < Len(segments) =>
             /\ is_closed(segments[i])
             /\ segments[i + 1].start_ms <= segments[i].end_ms + Rounding
             /\ segments[i + 1].start_ms <= segments[i].start_ms + SegmentMs
             /\ segments[i + 1].at = segments[i].at + segments[i].size
    /\ \A i, j \in DOMAIN segments :
          i < j => /\ segments[i].end_ms <= segments[j].start_ms
                   /\ segments[i].at + segments[i].size <= segments[j].at

(* The newest fragment meets the one the reader admits next. *)
NewestFollows ==
    reader # "ended" =>
        IF segments = <<>> THEN NextStart = 0
        ELSE /\ Newest.start_ms < NextStart
             /\ Newest.end_ms <= NextStart
             /\ NextStart <= Newest.start_ms + SegmentMs
             /\ is_closed(Newest) => NextStart <= Newest.end_ms + Rounding

(* What eviction has taken: nothing, or a fragment more than the cap older *)
(* than the newest one (the byte cap apart).                               *)
FrontBound ==
    segments # <<>> =>
        /\ evicted = 0 => Oldest.start_ms = 0
        /\ evicted > 0 /\ ~byteEvicted
              => Newest.start_ms + SegmentMs > Oldest.start_ms + CapMs

ReaderShape ==
    /\ poisoned => failure /\ reader = "ended"
    /\ reader = "admit" => batch # <<>>
    /\ reader \in {"evict", "ended"} => batch = <<>>

ClipProps == ClipIsWhole /\ ClipReachesPostRoll /\ PreRollSurvivesPostRoll

RingInv ==
    /\ TypeOK
    /\ HoldsTheNewest
    /\ BytesAreExact
    /\ UnderCaps
    /\ BatchFollows
    /\ Chained
    /\ NewestFollows
    /\ FrontBound
    /\ ReaderShape
    /\ ClipProps

-----------------------------------------------------------------------------
(* What the record types say of every held segment and waiting fragment.    *)
LEMMA SegmentFields ==
    ASSUME segments \in Seq(Segment), NEW i \in 1..Len(segments)
    PROVE  /\ segments[i] \in Segment
           /\ segments[i].seq \in Nat
           /\ segments[i].start_ms \in Nat
           /\ segments[i].end_ms \in Nat
           /\ segments[i].at \in Nat
           /\ segments[i].size \in Nat
<1>1. segments[i] \in Segment
  OBVIOUS
<1>2. segments[i].size \in Sizes
  BY <1>1 DEF Segment
<1>3. segments[i].size \in Nat
  BY <1>2, RingAssumption
<1>4. QED
  BY <1>1, <1>3 DEF Segment

LEMMA HeadIsFirst ==
    ASSUME NEW S, NEW s \in Seq(S), Len(s) >= 1
    PROVE  s # <<>> /\ Head(s) = s[1]
OBVIOUS

LEMMA FragmentFields ==
    ASSUME NEW f \in Fragment
    PROVE  /\ f.start_ms \in Nat
           /\ f.duration_ms \in Nat
           /\ f.length \in Nat
           /\ 1 <= f.length
           /\ f.length <= SegmentMs
           /\ f.size \in Nat
           /\ f.size \in Sizes
<1>1. /\ f.start_ms \in Nat
      /\ f.duration_ms \in Nat
      /\ f.length \in 1..SegmentMs
      /\ f.size \in Sizes
  BY DEF Fragment
<1>2. f.size \in Nat
  BY <1>1, RingAssumption
<1>3. QED
  BY <1>1, <1>2, RingAssumption

(* What an admitted fragment does to the sequence: the newest segment may   *)
(* get an end, every other one is as it was, and one is added.              *)
Admitted(new, e, begin) ==
    /\ new \in Seq(Segment)
    /\ Len(new) = Len(segments) + 1
    /\ new[Len(segments) + 1] = e
    /\ \A i \in 1..Len(segments) :
          /\ new[i].seq = segments[i].seq
          /\ new[i].start_ms = segments[i].start_ms
          /\ new[i].size = segments[i].size
          /\ new[i].at = segments[i].at
          /\ new[i].end_ms = IF i = Len(segments) /\ ~is_closed(segments[i])
                             THEN begin ELSE segments[i].end_ms

LEMMA AdmitShape ==
    ASSUME segments \in Seq(Segment), NEW e \in Segment, NEW begin \in Nat
    PROVE  Admitted(Append(CloseNewest(begin), e), e, begin)
<1> DEFINE old == CloseNewest(begin)
           n == Len(segments)
<1>1. /\ old \in Seq(Segment)
      /\ Len(old) = n
      /\ \A i \in 1..n :
            /\ old[i].seq = segments[i].seq
            /\ old[i].start_ms = segments[i].start_ms
            /\ old[i].size = segments[i].size
            /\ old[i].at = segments[i].at
            /\ old[i].end_ms = IF i = n /\ ~is_closed(segments[i])
                               THEN begin ELSE segments[i].end_ms
  <2>1. CASE segments = <<>> \/ is_closed(Newest)
    BY <2>1 DEF CloseNewest, Newest
  <2>2. CASE ~(segments = <<>> \/ is_closed(Newest))
    <3>1. n \in 1..n
      BY <2>2
    <3>2. old = [segments EXCEPT ![n] = [segments[n] EXCEPT !.end_ms = begin]]
      BY <2>2 DEF CloseNewest
    <3>0. segments[n] \in Segment
      BY <3>1
    <3>3. [segments[n] EXCEPT !.end_ms = begin] \in Segment
      BY <3>0 DEF Segment
    <3>4. /\ old \in Seq(Segment)
          /\ Len(old) = n
          /\ \A i \in 1..n : old[i] = IF i = n
                                      THEN [segments[n] EXCEPT !.end_ms = begin]
                                      ELSE segments[i]
      BY <3>1, <3>2, <3>3, ExceptSeq
    <3>5. \A i \in 1..n : segments[i] \in Segment
      OBVIOUS
    <3>6. QED
      BY <2>2, <3>1, <3>4, <3>5 DEF Newest, Segment
  <2>3. QED
    BY <2>1, <2>2
<1>2. /\ Append(old, e) \in Seq(Segment)
      /\ Len(Append(old, e)) = n + 1
      /\ \A i \in 1..n : Append(old, e)[i] = old[i]
      /\ Append(old, e)[n + 1] = e
  BY <1>1, AppendProperties
<1>3. QED
  BY <1>1, <1>2 DEF Admitted

(* What an eviction does to the sequence: every position moves down by one. *)
LEMMA EvictShape ==
    ASSUME segments \in Seq(Segment), Len(segments) > 1
    PROVE  /\ Tail(segments) \in Seq(Segment)
           /\ Tail(segments) # <<>>
           /\ Len(Tail(segments)) = Len(segments) - 1
           /\ \A i \in 1..Len(segments) - 1 : Tail(segments)[i] = segments[i + 1]
<1>1. segments # <<>>
  OBVIOUS
<1>2. QED
  BY <1>1, HeadTailProperties

-----------------------------------------------------------------------------
LEMMA InitRingInv == Init => RingInv
<1> SUFFICES ASSUME Init PROVE RingInv
  OBVIOUS
<1>1. TypeOK
  <2>1. NoClip \in Clip
    BY RingAssumption DEF NoClip, Clip
  <2>2. segments \in Seq(Segment) /\ batch \in Seq(Fragment)
    BY EmptySeq DEF Init
  <2>3. QED
    BY <2>1, <2>2 DEF Init, TypeOK
<1>2. HoldsTheNewest /\ BytesAreExact /\ UnderCaps
  BY DEF Init, HoldsTheNewest, BytesAreExact, UnderCaps
<1>3. BatchFollows /\ Chained /\ NewestFollows /\ FrontBound
  BY DEF Init, BatchFollows, Chained, NewestFollows, FrontBound, NextStart
<1>4. ReaderShape /\ ClipProps
  BY DEF Init, ReaderShape, ClipProps, ClipIsWhole, ClipReachesPostRoll,
         PreRollSurvivesPostRoll, NoClip
<1>5. QED
  BY <1>1, <1>2, <1>3, <1>4 DEF RingInv

(* The part of RingInv that talks about the held fragments is untouched by a   *)
(* step that leaves the ring, the reader's hold on it and the batch alone.  *)
LEMMA ClipStep ==
    ASSUME RingInv, UNCHANGED <<ringVars, readerVars>>,
           clip' \in Clip,
           ClipProps'
    PROVE  RingInv'
BY DEF RingInv, TypeOK, HoldsTheNewest, BytesAreExact, UnderCaps, BatchFollows, Chained,
       NewestFollows, FrontBound, ReaderShape, NextStart, Unlocked, Newest, Oldest,
       OverTime, OverBytes, is_closed, ringVars, readerVars

(* A step that leaves the ring and the clip alone keeps what is said of     *)
(* them alone.                                                              *)
LEMMA RingUnchanged ==
    ASSUME RingInv, UNCHANGED ringVars
    PROVE  (HoldsTheNewest /\ BytesAreExact /\ Chained /\ FrontBound)'
BY DEF RingInv, HoldsTheNewest, BytesAreExact, Chained, FrontBound, Newest, Oldest, is_closed,
       ringVars

LEMMA ClipUnchanged ==
    ASSUME RingInv, UNCHANGED clip, byteEvicted' = FALSE => byteEvicted = FALSE,
           byteEvicted' \in BOOLEAN
    PROVE  ClipProps'
BY DEF RingInv, TypeOK, ClipProps, ClipIsWhole, ClipReachesPostRoll, PreRollSurvivesPostRoll

-----------------------------------------------------------------------------
(* The steps of the reader that move it, its batch or the stream.  The ring *)
(* and the clip are not touched; what is left to show is how the batch and  *)
(* the newest fragment still line up.                                       *)
LEMMA ReadHeaderStep == RingInv /\ ReadHeader => RingInv'
<1> SUFFICES ASSUME RingInv, ReadHeader PROVE RingInv'
  OBVIOUS
<1>1. (HoldsTheNewest /\ BytesAreExact /\ Chained /\ FrontBound /\ ClipProps)'
  BY RingUnchanged, ClipUnchanged DEF ReadHeader, ringVars, RingInv, TypeOK
<1>2. (TypeOK /\ UnderCaps /\ BatchFollows /\ NewestFollows /\ ReaderShape)'
  BY DEF ReadHeader, ringVars, RingInv, TypeOK, UnderCaps, BatchFollows, NewestFollows,
         ReaderShape, Unlocked, OverTime, OverBytes, Newest, Oldest, NextStart, is_closed
<1>3. QED
  BY <1>1, <1>2 DEF RingInv

LEMMA FragmentCompletesStep == RingInv /\ FragmentCompletes => RingInv'
<1> SUFFICES ASSUME RingInv, FragmentCompletes PROVE RingInv'
  OBVIOUS
<1>1. (HoldsTheNewest /\ BytesAreExact /\ Chained /\ FrontBound /\ ClipProps)'
  BY RingUnchanged, ClipUnchanged DEF FragmentCompletes, ringVars, RingInv, TypeOK
<1>2. PICK length \in 1..SegmentMs, duration \in 0..SegmentMs, size \in Sizes :
         LET f == [start_ms |-> encoded, length |-> length,
                   duration_ms |-> duration, size |-> size]
         IN  /\ NextFragments(f)
             /\ batch' = Append(batch, f)
             /\ encoded' = encoded + length
  BY DEF FragmentCompletes
<1> DEFINE f == [start_ms |-> encoded, length |-> length,
                 duration_ms |-> duration, size |-> size]
<1>3. f \in Fragment /\ encoded \in Nat /\ batch \in Seq(Fragment)
  BY DEF RingInv, TypeOK, Fragment
<1>4. /\ batch' \in Seq(Fragment)
      /\ Len(batch') = Len(batch) + 1
      /\ \A i \in 1..Len(batch) : batch'[i] = batch[i]
      /\ batch'[Len(batch) + 1] = f
      /\ batch' # <<>>
  BY <1>2, <1>3, AppendProperties
<1>5. TypeOK'
  BY <1>2, <1>3, <1>4, RingAssumption DEF FragmentCompletes, ringVars, RingInv, TypeOK
<1>6. UnderCaps' /\ ReaderShape'
  BY <1>4 DEF FragmentCompletes, ringVars, RingInv, UnderCaps, ReaderShape, Unlocked, OverTime,
              OverBytes, Newest, Oldest
<1>7. BatchFollows'
  <2> SUFFICES ASSUME NEW k \in DOMAIN batch'
               PROVE  /\ batch'[k].duration_ms <= batch'[k].length
                      /\ \/ batch'[k].duration_ms = 0
                         \/ batch'[k].duration_ms + Rounding >= batch'[k].length
                      /\ batch'[k].start_ms + batch'[k].length
                            = IF k = Len(batch') THEN encoded' ELSE batch'[k + 1].start_ms
    BY DEF BatchFollows
  <2>1. CASE k = Len(batch) + 1
    BY <2>1, <1>2, <1>4 DEF NextFragments
  <2>2. CASE k \in 1..Len(batch)
    BY <2>2, <1>2, <1>3, <1>4 DEF RingInv, BatchFollows
  <2>3. QED
    BY <2>1, <2>2, <1>3, <1>4
<1>8. NextStart' = NextStart
  BY <1>2, <1>3, <1>4 DEF NextStart
<1>9. NewestFollows'
  BY <1>8 DEF FragmentCompletes, ringVars, RingInv, NewestFollows, Newest, is_closed
<1>10. QED
  BY <1>1, <1>5, <1>6, <1>7, <1>9 DEF RingInv

LEMMA ReadChunkStep == RingInv /\ ReadChunk => RingInv'
<1> SUFFICES ASSUME RingInv, ReadChunk PROVE RingInv'
  OBVIOUS
<1>1. (HoldsTheNewest /\ BytesAreExact /\ Chained /\ FrontBound /\ ClipProps)'
  BY RingUnchanged, ClipUnchanged DEF ReadChunk, ringVars, RingInv, TypeOK
<1>2. (TypeOK /\ UnderCaps /\ BatchFollows /\ NewestFollows /\ ReaderShape)'
  BY DEF ReadChunk, ringVars, RingInv, TypeOK, UnderCaps, BatchFollows, NewestFollows,
         ReaderShape, Unlocked, OverTime, OverBytes, Newest, Oldest, NextStart, is_closed
<1>3. QED
  BY <1>1, <1>2 DEF RingInv

LEMMA PushReturnsStep == RingInv /\ PushReturns => RingInv'
<1> SUFFICES ASSUME RingInv, PushReturns PROVE RingInv'
  OBVIOUS
<1>1. (HoldsTheNewest /\ BytesAreExact /\ Chained /\ FrontBound /\ ClipProps)'
  BY RingUnchanged, ClipUnchanged DEF PushReturns, ringVars, RingInv, TypeOK
<1>2. (TypeOK /\ UnderCaps /\ BatchFollows /\ NewestFollows /\ ReaderShape)'
  BY DEF PushReturns, ringVars, RingInv, TypeOK, UnderCaps, BatchFollows, NewestFollows,
         ReaderShape, Unlocked, OverTime, OverBytes, Newest, Oldest, NextStart, is_closed
<1>3. QED
  BY <1>1, <1>2 DEF RingInv

(* However the reader ends, it ends with no batch and admits nothing more.  *)
LEMMA ReaderEndsStep == RingInv /\ (StreamEnds \/ ReadFails \/ ReaderPanics) => RingInv'
<1> SUFFICES ASSUME RingInv, StreamEnds \/ ReadFails \/ ReaderPanics PROVE RingInv'
  OBVIOUS
<1>1. /\ UNCHANGED <<ringVars, header, encoded, clip>>
      /\ reader' = "ended"
      /\ batch' = <<>>
  BY DEF StreamEnds, ReadFails, ReaderPanics
<1>2. (HoldsTheNewest /\ BytesAreExact /\ Chained /\ FrontBound /\ ClipProps)'
  BY <1>1, RingUnchanged, ClipUnchanged DEF ringVars, RingInv, TypeOK
<1>3. failure' \in BOOLEAN /\ poisoned' \in BOOLEAN /\ (poisoned' => failure')
  <2>1. CASE StreamEnds \/ ReadFails
    <3>1. failure \in BOOLEAN /\ poisoned \in BOOLEAN /\ (poisoned => failure)
      BY DEF RingInv, TypeOK, ReaderShape
    <3>2. poisoned' = poisoned /\ (failure' = failure \/ failure' = TRUE)
      BY <2>1 DEF StreamEnds, ReadFails
    <3>3. QED
      BY <3>1, <3>2, Zenon
  <2>2. CASE ReaderPanics
    BY <2>2 DEF ReaderPanics, Unlocked
  <2>3. QED
    BY <2>1, <2>2
<1>4. (TypeOK /\ BatchFollows /\ NewestFollows /\ ReaderShape)'
  BY <1>1, <1>3, EmptySeq DEF ringVars, RingInv, TypeOK, BatchFollows, NewestFollows, ReaderShape
<1>5. UnderCaps'
  <2>1. CASE Unlocked /\ ~poisoned
    BY <1>1, <2>1 DEF RingInv, UnderCaps, Unlocked, OverTime, OverBytes, Newest, Oldest, ringVars
  <2>2. CASE poisoned
    BY <2>2 DEF StreamEnds, ReadFails, ReaderPanics, RingInv, ReaderShape
  <2>3. CASE ~Unlocked
    BY <2>3 DEF StreamEnds, ReadFails, ReaderPanics, Unlocked, UnderCaps
  <2>4. QED
    BY <2>1, <2>2, <2>3
<1>6. QED
  BY <1>2, <1>4, <1>5 DEF RingInv

-----------------------------------------------------------------------------
(* A fragment is admitted: it goes where the newest one said it would.      *)
LEMMA AdmitFragmentStep == RingInv /\ AdmitFragment => RingInv'
<1> SUFFICES ASSUME RingInv, AdmitFragment PROVE RingInv'
  OBVIOUS
<1> DEFINE f == Head(batch)
           n == Len(segments)
           e == [seq |-> next_seq, start_ms |-> f.start_ms,
                 end_ms |-> f.start_ms + f.duration_ms, size |-> f.size,
                 at |-> IF segments = <<>> THEN 0 ELSE Newest.at + Newest.size]
<1>1. /\ segments \in Seq(Segment) /\ batch \in Seq(Fragment) /\ batch # <<>>
      /\ f = batch[1] /\ 1 \in DOMAIN batch /\ f \in Fragment
      /\ n \in Nat /\ next_seq \in Nat /\ bytes \in Nat
      /\ segments # <<>> => 1 \in 1..n /\ n \in 1..n /\ Newest \in Segment
  <2>1. segments \in Seq(Segment) /\ batch \in Seq(Fragment) /\ batch # <<>>
        /\ next_seq \in Nat /\ bytes \in Nat
    BY DEF AdmitFragment, RingInv, TypeOK
  <2>2. f = batch[1] /\ 1 \in DOMAIN batch /\ f \in Fragment
    BY <2>1
  <2>3. n \in Nat /\ (segments # <<>> => 1 \in 1..n /\ n \in 1..n)
    BY <2>1
  <2>4. segments # <<>> => Newest \in Segment
    BY <2>1, <2>3, SegmentFields DEF Newest
  <2>5. QED
    BY <2>1, <2>2, <2>3, <2>4
<1>2. /\ f.start_ms \in Nat /\ f.duration_ms \in Nat /\ f.size \in Nat /\ f.length \in Nat
      /\ f.length >= 1 /\ f.length <= SegmentMs /\ f.duration_ms <= f.length
      /\ f.duration_ms = 0 \/ f.duration_ms + Rounding >= f.length
      /\ f.size \in Sizes
  BY <1>1, FragmentFields DEF RingInv, BatchFollows
<1>3. e \in Segment
  <2>1. segments # <<>> => Newest.at + Newest.size \in Nat
    BY <1>1, SegmentFields DEF Newest
  <2>2. QED
    BY <2>1, <1>1, <1>2 DEF Segment
<1> HIDE DEF f, n, e
<1>4. /\ segments' = Append(CloseNewest(f.start_ms), e)
      /\ bytes' = bytes + f.size
      /\ next_seq' = next_seq + 1
      /\ batch' = Tail(batch)
      /\ reader' = IF Tail(batch) = <<>> THEN "evict" ELSE "admit"
      /\ reader = "admit"
      /\ UNCHANGED <<evicted, byteEvicted, header, encoded, failure, poisoned, clip>>
  BY DEF AdmitFragment, f, e
<1>5. /\ e.seq = next_seq
      /\ e.start_ms = f.start_ms
      /\ e.end_ms = f.start_ms + f.duration_ms
      /\ e.size = f.size
      /\ segments = <<>> => e.at = 0
      /\ segments # <<>> => e.at = Newest.at + Newest.size
  BY DEF e
<1>6. /\ segments' \in Seq(Segment)
      /\ Len(segments') = n + 1
      /\ segments'[n + 1] = e
      /\ \A i \in 1..n :
            /\ segments'[i].seq = segments[i].seq
            /\ segments'[i].start_ms = segments[i].start_ms
            /\ segments'[i].size = segments[i].size
            /\ segments'[i].at = segments[i].at
            /\ segments'[i].end_ms = IF i = n /\ ~is_closed(segments[i])
                                     THEN f.start_ms ELSE segments[i].end_ms
  <2>1. segments \in Seq(Segment) /\ f.start_ms \in Nat
    BY <1>1, <1>2
  <2>2. Admitted(Append(CloseNewest(f.start_ms), e), e, f.start_ms)
    BY <2>1, <1>3, AdmitShape
  <2>3. Admitted(segments', e, f.start_ms)
    BY <2>2, <1>4
  <2>4. QED
    BY <2>3 DEF Admitted, n
<1>7. /\ DOMAIN segments = 1..n
      /\ DOMAIN segments' = 1..n + 1
      /\ n = Len(segments)
      /\ segments = <<>> <=> n = 0
      /\ Len(segments') = n + 1
      /\ segments' # <<>>
      /\ segments # <<>> => Newest = segments[n] /\ Oldest = segments[1]
  BY <1>1, <1>6 DEF Newest, Oldest, n
<1>8. /\ Tail(batch) \in Seq(Fragment)
      /\ Len(Tail(batch)) = Len(batch) - 1
      /\ \A k \in 1..Len(batch) - 1 : Tail(batch)[k] = batch[k + 1]
      /\ Len(batch) \in Nat /\ Len(batch) >= 1
  BY <1>1, HeadTailProperties
<1>9. TypeOK'
  BY <1>1, <1>2, <1>4, <1>6, <1>8, SMTT(20) DEF RingInv, TypeOK
<1>10. HoldsTheNewest'
  <2>1. /\ evicted \in Nat
        /\ evicted + n = next_seq
        /\ \A i \in 1..n : segments[i].seq = evicted + i - 1
    BY <1>1, <1>7 DEF RingInv, TypeOK, HoldsTheNewest
  <2>2. \A i \in 1..n + 1 : segments'[i].seq = evicted + i - 1
    <3> SUFFICES ASSUME NEW i \in 1..n + 1 PROVE segments'[i].seq = evicted + i - 1
      OBVIOUS
    <3>1. CASE i = n + 1
      <4>1. segments'[i] = e /\ e.seq = next_seq
        BY <3>1, <1>5, <1>6
      <4>2. QED
        BY <4>1, <3>1, <2>1, <1>1
    <3>2. CASE i \in 1..n
      BY <3>2, <2>1, <1>6
    <3>3. QED
      BY <3>1, <3>2, <1>1
  <2>3. QED
    <3>1. evicted' = evicted /\ next_seq' = next_seq + 1
      BY <1>4
    <3>2. evicted' + Len(segments') = next_seq'
      BY <3>1, <2>1, <1>1, <1>6
    <3>3. \A i \in DOMAIN segments' : segments'[i].seq = evicted' + i - 1
      BY <3>1, <2>2, <1>7
    <3>4. QED
      BY <3>2, <3>3, <1>7 DEF HoldsTheNewest
<1>11. BytesAreExact'
  <2>1. CASE segments = <<>>
    <3>1. n = 0 /\ segments'[1] = e /\ e.at = 0 /\ bytes = 0
      BY <2>1, <1>5, <1>6, <1>7 DEF RingInv, BytesAreExact
    <3>2. QED
      BY <3>1, <1>2, <1>4, <1>5, <1>6, <1>7 DEF BytesAreExact, Newest, Oldest
  <2>2. CASE segments # <<>>
    <3>1. segments'[1].at = segments[1].at
      BY <2>2, <1>1, <1>6
    <3>2. Newest.at \in Nat /\ Newest.size \in Nat /\ segments[1].at \in Nat
      BY <2>2, <1>1, <1>7, SegmentFields
    <3>3. bytes = Newest.at + Newest.size - segments[1].at
      BY <2>2, <1>7 DEF RingInv, BytesAreExact
    <3>4. QED
      <4>1. e.at = Newest.at + Newest.size /\ bytes' = bytes + f.size /\ e.size = f.size
        BY <2>2, <1>4, <1>5
      <4>2. bytes' = e.at + e.size - segments'[1].at
        BY <4>1, <3>1, <3>2, <3>3, <1>2
      <4>3. QED
        BY <4>2, <1>6, <1>7 DEF BytesAreExact, Newest, Oldest
  <2>3. QED
    BY <2>1, <2>2
<1>12. UnderCaps' /\ ReaderShape'
  BY <1>4 DEF RingInv, ReaderShape, UnderCaps, Unlocked
<1>13. BatchFollows'
  BY <1>1, <1>4, <1>8 DEF RingInv, BatchFollows
<1>14. NextStart = f.start_ms /\ NextStart' = f.start_ms + f.length
  <2>1. NextStart = f.start_ms
    BY <1>1 DEF NextStart, f
  <2>2. f.start_ms + f.length = IF 1 = Len(batch) THEN encoded ELSE batch[1 + 1].start_ms
    BY <1>1 DEF RingInv, BatchFollows
  <2>3. CASE Len(batch) = 1
    <3>1. Len(Tail(batch)) = 0
      BY <2>3, <1>8
    <3>2. Tail(batch) = <<>>
      BY <3>1, <1>8, EmptySeq
    <3>3. QED
      BY <2>1, <2>2, <2>3, <3>2, <1>4 DEF NextStart
  <2>4. CASE Len(batch) >= 2
    <3>1. Len(Tail(batch)) >= 1 /\ Tail(batch)[1] = batch[2]
      BY <2>4, <1>8
    <3>2. Tail(batch) # <<>> /\ Head(Tail(batch)) = batch[2]
      BY <3>1, <1>8, HeadIsFirst
    <3>3. QED
      BY <2>1, <2>2, <2>4, <3>2, <1>4 DEF NextStart
  <2>5. QED
    BY <2>1, <2>3, <2>4, <1>8
<1>15. NewestFollows'
  <2>1. /\ e.start_ms < NextStart'
        /\ e.end_ms <= NextStart'
        /\ NextStart' <= e.start_ms + SegmentMs
        /\ e.end_ms > e.start_ms => NextStart' <= e.end_ms + Rounding
    BY <1>2, <1>5, <1>14, RingAssumption
  <2>2. QED
    BY <2>1, <1>6, <1>7 DEF NewestFollows, is_closed, Newest
<1>16. segments # <<>> => /\ Newest.start_ms < f.start_ms
                          /\ Newest.end_ms <= f.start_ms
                          /\ f.start_ms <= Newest.start_ms + SegmentMs
                          /\ is_closed(Newest) => f.start_ms <= Newest.end_ms + Rounding
  BY <1>4, <1>14 DEF RingInv, NewestFollows
<1>17. FrontBound'
  <2>1. CASE segments = <<>>
    <3>1. evicted = 0 /\ f.start_ms = 0
      BY <2>1, <1>1, <1>4, <1>7, <1>14 DEF RingInv, TypeOK, HoldsTheNewest, NewestFollows
    <3>2. QED
      BY <2>1, <3>1, <1>4, <1>5, <1>6, <1>7 DEF FrontBound, Newest, Oldest
  <2>2. CASE segments # <<>>
    <3>1. segments'[1].start_ms = segments[1].start_ms /\ segments[1].start_ms \in Nat
      BY <2>2, <1>1, <1>6, <1>7, SegmentFields
    <3>2. Newest.start_ms \in Nat
      BY <2>2, <1>1, <1>7, SegmentFields
    <3>3. CapMs \in Nat /\ SegmentMs \in Nat
      BY RingAssumption DEF CapMs
    <3>4. QED
      <4>1. /\ evicted = 0 => segments[1].start_ms = 0
            /\ evicted > 0 /\ ~byteEvicted
                  => Newest.start_ms + SegmentMs > segments[1].start_ms + CapMs
        BY <2>2, <1>7 DEF RingInv, FrontBound
      <4>2. /\ evicted = 0 => segments'[1].start_ms = 0
            /\ evicted > 0 /\ ~byteEvicted
                  => e.start_ms + SegmentMs > segments'[1].start_ms + CapMs
        BY <4>1, <2>2, <3>1, <3>2, <3>3, <1>2, <1>5, <1>16
      <4>3. QED
        BY <4>2, <1>4, <1>6, <1>7 DEF FrontBound, Newest, Oldest
  <2>3. QED
    BY <2>1, <2>2
<1>18. Chained'
  <2>1. \A i \in 1..n : /\ segments[i].start_ms \in Nat /\ segments[i].end_ms \in Nat
                        /\ segments[i].at \in Nat /\ segments[i].size \in Nat
    BY <1>1, <1>7, SegmentFields
  <2>2. /\ \A i \in 1..n : segments[i].start_ms <= segments[i].end_ms
        /\ \A i \in 1..n : i < n =>
             /\ is_closed(segments[i])
             /\ segments[i + 1].start_ms <= segments[i].end_ms + Rounding
             /\ segments[i + 1].start_ms <= segments[i].start_ms + SegmentMs
             /\ segments[i + 1].at = segments[i].at + segments[i].size
        /\ \A i, j \in 1..n :
             i < j => /\ segments[i].end_ms <= segments[j].start_ms
                      /\ segments[i].at + segments[i].size <= segments[j].at
    BY <1>7 DEF RingInv, Chained
  <2>3. \A i \in 1..n : /\ segments[i].end_ms <= f.start_ms
                        /\ segments[i].start_ms < f.start_ms
                        /\ segments[i].at + segments[i].size <= e.at
    <3> SUFFICES ASSUME NEW i \in 1..n
                 PROVE  /\ segments[i].end_ms <= f.start_ms
                        /\ segments[i].start_ms < f.start_ms
                        /\ segments[i].at + segments[i].size <= e.at
      OBVIOUS
    <3>1. segments # <<>> /\ Newest = segments[n] /\ n \in 1..n
      BY <1>1, <1>7
    <3>2. CASE i = n
      BY <3>1, <3>2, <1>5, <1>16, <2>1
    <3>3. CASE i < n
      <4>1. /\ segments[i].start_ms <= segments[i].end_ms
            /\ segments[i].end_ms <= segments[n].start_ms
            /\ segments[i].at + segments[i].size <= segments[n].at
        BY <3>1, <3>3, <2>2
      <4>2. segments[n].start_ms < f.start_ms /\ e.at = segments[n].at + segments[n].size
        BY <3>1, <1>5, <1>16
      <4>3. /\ segments[i].start_ms \in Nat /\ segments[i].end_ms \in Nat
            /\ segments[i].at \in Nat /\ segments[i].size \in Nat
            /\ segments[n].start_ms \in Nat /\ segments[n].at \in Nat
            /\ segments[n].size \in Nat
        BY <3>1, <2>1
      <4>4. QED
        BY <4>1, <4>2, <4>3, <1>2
    <3>4. QED
      BY <3>2, <3>3, <1>1
  <2>4. ASSUME NEW i \in 1..n + 1
        PROVE  segments'[i].start_ms <= segments'[i].end_ms
    <3>1. CASE i = n + 1
      BY <3>1, <1>2, <1>5, <1>6
    <3>2. CASE i \in 1..n
      BY <3>2, <1>2, <1>6, <2>1, <2>2, <2>3
    <3>3. QED
      BY <3>1, <3>2, <1>1
  <2>5. ASSUME NEW i \in 1..n + 1, i < n + 1
        PROVE  /\ is_closed(segments'[i])
               /\ segments'[i + 1].start_ms <= segments'[i].end_ms + Rounding
               /\ segments'[i + 1].start_ms <= segments'[i].start_ms + SegmentMs
               /\ segments'[i + 1].at = segments'[i].at + segments'[i].size
    <3>1. i \in 1..n
      BY <2>5, <1>1
    <3>2. CASE i = n
      <4>1. segments # <<>> /\ Newest = segments[n] /\ segments'[i + 1] = e
        BY <3>1, <3>2, <1>1, <1>6, <1>7
      <4>2. CASE is_closed(segments[n])
        BY <3>1, <3>2, <4>1, <4>2, <1>5, <1>6, <1>16, <2>1 DEF is_closed
      <4>3. CASE ~is_closed(segments[n])
        <5>1. segments'[i].end_ms = f.start_ms /\ segments'[i].start_ms = segments[i].start_ms
              /\ segments'[i].at = segments[i].at /\ segments'[i].size = segments[i].size
          BY <3>1, <3>2, <4>3, <1>6
        <5>2. QED
          BY <3>1, <3>2, <4>1, <5>1, <1>2, <1>5, <1>16, <2>1, <2>3, RingAssumption
             DEF is_closed
      <4>4. QED
        BY <4>2, <4>3
    <3>3. CASE i < n
      <4>1. i + 1 \in 1..n
        BY <3>1, <3>3, <1>1
      <4>2. QED
        BY <3>1, <3>3, <4>1, <1>6, <2>2 DEF is_closed
    <3>4. QED
      BY <3>1, <3>2, <3>3, <1>1
  <2>6. ASSUME NEW i \in 1..n + 1, NEW j \in 1..n + 1, i < j
        PROVE  /\ segments'[i].end_ms <= segments'[j].start_ms
               /\ segments'[i].at + segments'[i].size <= segments'[j].at
    <3>1. i \in 1..n
      BY <2>6, <1>1
    <3>2. CASE j = n + 1
      BY <3>1, <3>2, <1>2, <1>5, <1>6, <2>1, <2>3
    <3>3. CASE j \in 1..n
      <4>1. i < n
        BY <2>6, <3>1, <3>3, <1>1
      <4>2. QED
        BY <2>6, <3>1, <3>3, <4>1, <1>6, <2>2
    <3>4. QED
      BY <3>2, <3>3, <1>1
  <2>7. QED
    BY <2>4, <2>5, <2>6, <1>6, <1>7 DEF Chained
<1>19. ClipProps'
  BY <1>4, <1>9, ClipUnchanged DEF TypeOK
<1>20. QED
  BY <1>9, <1>10, <1>11, <1>12, <1>13, <1>15, <1>17, <1>18, <1>19 DEF RingInv

-----------------------------------------------------------------------------
(* The oldest fragment goes: the positions move down by one and the rest of *)
(* the chain is as it was.                                                  *)
LEMMA EvictOldestStep == RingInv /\ EvictOldest => RingInv'
<1> SUFFICES ASSUME RingInv, EvictOldest PROVE RingInv'
  OBVIOUS
<1> DEFINE n == Len(segments)
<1>1. /\ segments \in Seq(Segment)
      /\ n \in Nat
      /\ n > 1
      /\ DOMAIN segments = 1..n
      /\ evicted \in Nat
      /\ bytes \in Nat
      /\ segments # <<>>
      /\ evicted + n = next_seq
      /\ Newest = segments[n]
      /\ Oldest = segments[1]
  BY DEF EvictOldest, RingInv, TypeOK, HoldsTheNewest, Newest, Oldest
<1>2. /\ segments' \in Seq(Segment)
      /\ segments' # <<>>
      /\ Len(segments') = n - 1
      /\ DOMAIN segments' = 1..n - 1
      /\ \A i \in 1..n - 1 : segments'[i] = segments[i + 1]
      /\ segments'[n - 1] = segments[n]
      /\ segments'[1] = segments[2]
  BY <1>1, EvictShape DEF EvictOldest
<1>3. /\ bytes' = bytes - segments[1].size
      /\ evicted' = evicted + 1
      /\ byteEvicted' = (byteEvicted \/ ~OverTime)
      /\ UNCHANGED <<next_seq, readerVars, clip>>
  BY <1>1 DEF EvictOldest
<1> HIDE DEF n
<1>4. \A i \in 1..n : /\ segments[i].start_ms \in Nat /\ segments[i].end_ms \in Nat
                      /\ segments[i].at \in Nat /\ segments[i].size \in Nat
  BY <1>1, SegmentFields DEF n
<1>5. /\ \A i \in 1..n : segments[i].start_ms <= segments[i].end_ms
      /\ \A i \in 1..n : i < n =>
           /\ is_closed(segments[i])
           /\ segments[i + 1].start_ms <= segments[i].end_ms + Rounding
           /\ segments[i + 1].start_ms <= segments[i].start_ms + SegmentMs
           /\ segments[i + 1].at = segments[i].at + segments[i].size
      /\ \A i, j \in 1..n :
           i < j => /\ segments[i].end_ms <= segments[j].start_ms
                    /\ segments[i].at + segments[i].size <= segments[j].at
  BY <1>1 DEF RingInv, Chained, n
<1>6. bytes' = segments[n].at + segments[n].size - segments[2].at /\ bytes' \in Nat
  <2>1. bytes = segments[n].at + segments[n].size - segments[1].at
    BY <1>1 DEF RingInv, BytesAreExact
  <2>2. segments[1 + 1].at = segments[1].at + segments[1].size
    BY <1>1, <1>5
  <2>3. segments[2].at <= segments[n].at
    <3>1. CASE n = 2
      BY <3>1, <1>1, <1>4
    <3>2. CASE n > 2
      <4>1. 2 \in 1..n /\ n \in 1..n
        BY <3>2, <1>1
      <4>2. segments[2].at + segments[2].size <= segments[n].at
        BY <3>2, <4>1, <1>5
      <4>3. QED
        BY <4>1, <4>2, <1>4
    <3>3. QED
      BY <3>1, <3>2, <1>1
  <2>4. /\ segments[1].at \in Nat /\ segments[1].size \in Nat
        /\ segments[2].at \in Nat
        /\ segments[n].at \in Nat /\ segments[n].size \in Nat
    BY <1>1, <1>4
  <2>5. QED
    BY <2>1, <2>2, <2>3, <2>4, <1>3
<1>7. TypeOK'
  <2>1. byteEvicted' \in BOOLEAN
    BY <1>3
  <2>2. QED
    BY <2>1, <1>1, <1>2, <1>3, <1>6 DEF RingInv, TypeOK, readerVars
<1>8. HoldsTheNewest'
  <2>1. evicted' + Len(segments') = next_seq'
    BY <1>1, <1>2, <1>3
  <2>2. \A i \in 1..n : segments[i].seq = evicted + i - 1
    BY <1>1 DEF RingInv, HoldsTheNewest, n
  <2>3. \A i \in 1..n - 1 : segments'[i].seq = evicted' + i - 1
    BY <2>2, <1>1, <1>2, <1>3
  <2>4. QED
    BY <2>1, <2>3, <1>2 DEF HoldsTheNewest
<1>9. BytesAreExact'
  BY <1>2, <1>6 DEF BytesAreExact, Newest, Oldest
<1>10. UNCHANGED <<header, encoded, batch, reader, failure, poisoned, clip>>
  BY <1>3 DEF readerVars
<1>11. UnderCaps' /\ ReaderShape' /\ BatchFollows'
  BY <1>10 DEF EvictOldest, RingInv, UnderCaps, ReaderShape, BatchFollows, Unlocked
<1>12. Chained'
  <2>1. \A i \in 1..n - 1 : i + 1 \in 1..n /\ segments'[i] = segments[i + 1]
    BY <1>1, <1>2
  <2>2. \A i \in 1..n - 1 : segments'[i].start_ms <= segments'[i].end_ms
    BY <2>1, <1>5
  <2>3. ASSUME NEW i \in 1..n - 1, i < n - 1
        PROVE  /\ is_closed(segments'[i])
               /\ segments'[i + 1].start_ms <= segments'[i].end_ms + Rounding
               /\ segments'[i + 1].start_ms <= segments'[i].start_ms + SegmentMs
               /\ segments'[i + 1].at = segments'[i].at + segments'[i].size
    <3>1. i + 1 \in 1..n /\ i + 1 < n /\ i + 1 \in 1..n - 1
      BY <2>3, <1>1
    <3>2. QED
      BY <3>1, <2>1, <1>5
  <2>4. ASSUME NEW i \in 1..n - 1, NEW j \in 1..n - 1, i < j
        PROVE  /\ segments'[i].end_ms <= segments'[j].start_ms
               /\ segments'[i].at + segments'[i].size <= segments'[j].at
    <3>1. i + 1 \in 1..n /\ j + 1 \in 1..n /\ i + 1 < j + 1
      BY <2>4, <1>1
    <3>2. QED
      BY <3>1, <2>1, <1>5
  <2>5. QED
    BY <2>2, <2>3, <2>4, <1>2 DEF Chained
<1>13. NewestFollows'
  <2>1. NextStart' = NextStart
    BY <1>10 DEF NextStart
  <2>2. QED
    BY <2>1, <1>1, <1>2, <1>10 DEF RingInv, NewestFollows, Newest
<1>14. FrontBound'
  <2>1. segments[1 + 1].start_ms <= segments[1].start_ms + SegmentMs
    BY <1>1, <1>5
  <2>2. /\ segments[1].start_ms \in Nat /\ segments[2].start_ms \in Nat
        /\ segments[n].start_ms \in Nat
    BY <1>1, <1>4
  <2>3. CapMs \in Nat /\ SegmentMs \in Nat
    BY RingAssumption DEF CapMs
  <2>4. OverTime => segments[n].start_ms + SegmentMs > segments[2].start_ms + CapMs
    BY <2>1, <2>2, <2>3, <1>1 DEF OverTime
  <2>5. evicted' > 0
    BY <1>1, <1>3
  <2>6. byteEvicted' = (byteEvicted \/ ~OverTime)
    BY <1>3
  <2>7. ~byteEvicted' => OverTime
    BY <2>6, Zenon
  <2>8. QED
    BY <2>4, <2>5, <2>7, <1>2 DEF FrontBound, Newest, Oldest
<1>15. ClipProps'
  <2>1. byteEvicted' = (byteEvicted \/ ~OverTime)
    BY <1>3
  <2>2. byteEvicted \in BOOLEAN
    BY DEF RingInv, TypeOK
  <2>3. byteEvicted' \in BOOLEAN /\ (byteEvicted' = FALSE => byteEvicted = FALSE)
    BY <2>1, <2>2, Zenon
  <2>4. QED
    BY <2>3, <1>10, ClipUnchanged
<1>16. QED
  BY <1>7, <1>8, <1>9, <1>11, <1>12, <1>13, <1>14, <1>15 DEF RingInv

-----------------------------------------------------------------------------
(* The engine's steps.  A trigger and a refusal cut nothing.                *)
LEMMA TakeTriggerStep == RingInv /\ TakeTrigger => RingInv'
<1> SUFFICES ASSUME RingInv, TakeTrigger PROVE RingInv'
  OBVIOUS
<1>1. PICK w \in Windows :
         clip' = [NoClip EXCEPT !.phase = "waiting", !.trigger = span_ms,
                                !.pre = w[1], !.post = w[2]]
  BY DEF TakeTrigger
<1>2. span_ms \in Nat
  <2>1. CASE segments = <<>>
    BY <2>1 DEF span_ms
  <2>2. CASE segments # <<>>
    BY <2>2, SegmentFields DEF RingInv, TypeOK, span_ms, Newest
  <2>3. QED
    BY <2>1, <2>2
<1>3. w[1] \in 0..MaxPreMs /\ w[2] \in 0..MaxPostMs
  BY RingAssumption
<1>4. clip' \in Clip /\ clip'.phase = "waiting"
  BY <1>1, <1>2, <1>3 DEF NoClip, Clip
<1>5. UNCHANGED <<ringVars, readerVars>>
  BY DEF TakeTrigger
<1>6. ClipProps'
  BY <1>4 DEF ClipProps, ClipIsWhole, ClipReachesPostRoll, PreRollSurvivesPostRoll
<1>7. QED
  BY <1>4, <1>5, <1>6, ClipStep

LEMMA ClipRefusedStep == RingInv /\ ClipRefused => RingInv'
<1> SUFFICES ASSUME RingInv, ClipRefused PROVE RingInv'
  OBVIOUS
<1>1. clip \in Clip
  BY DEF RingInv, TypeOK
<1>2. clip' \in Clip /\ clip'.phase = "refused"
  BY <1>1 DEF ClipRefused, Clip
<1>3. UNCHANGED <<ringVars, readerVars>>
  BY DEF ClipRefused
<1>4. ClipProps'
  BY <1>2 DEF ClipProps, ClipIsWhole, ClipReachesPostRoll, PreRollSurvivesPostRoll
<1>5. QED
  BY <1>2, <1>3, <1>4, ClipStep

(* A clip is cut.  Everything in the window between its first and its last  *)
(* fragment is in it; what lies beyond the last one starts after the        *)
(* post-roll; and what lies before the first one either ended before the    *)
(* window did or was evicted for being more than the cap older than the     *)
(* newest, which is a whole segment before the pre-roll.                    *)
LEMMA CutClipStep == RingInv /\ CutClip => RingInv'
<1> SUFFICES ASSUME RingInv, CutClip PROVE RingInv'
  OBVIOUS
<1> DEFINE n == Len(segments)
<1>1. PICK i \in Selected, j \in Selected :
         /\ \A k \in Selected : i <= k /\ k <= j
         /\ clip' = [clip EXCEPT !.phase = "cut",
                                 !.from = segments[i].start_ms,
                                 !.to = segments[j].end_ms,
                                 !.first = segments[i].seq,
                                 !.last = segments[j].seq,
                                 !.whole = i..j \subseteq Selected,
                                 !.newest = Newest.start_ms,
                                 !.truncated = TruncatedFront(i)]
  BY DEF CutClip
<1>2. /\ segments \in Seq(Segment)
      /\ n \in Nat
      /\ DOMAIN segments = 1..n
      /\ i \in 1..n /\ j \in 1..n /\ i <= j
      /\ n \in 1..n
      /\ segments # <<>>
      /\ Newest = segments[n] /\ Oldest = segments[1]
      /\ clip \in Clip
      /\ evicted \in Nat
      /\ ~failure /\ PostRollHeld
      /\ UNCHANGED <<ringVars, readerVars>>
  <2>1. segments \in Seq(Segment) /\ clip \in Clip /\ evicted \in Nat
    BY DEF RingInv, TypeOK
  <2>2. n \in Nat /\ DOMAIN segments = 1..n
    BY <2>1
  <2>3. i \in 1..n /\ j \in 1..n /\ i <= j
    BY <2>2, <1>1 DEF Selected
  <2>4. n \in 1..n /\ segments # <<>>
    BY <2>2, <2>3
  <2>5. QED
    BY <2>1, <2>2, <2>3, <2>4 DEF CutClip, Newest, Oldest
<1> HIDE DEF n
<1>3. \A k \in 1..n : /\ segments[k].start_ms \in Nat /\ segments[k].end_ms \in Nat
                      /\ segments[k].seq \in Nat
  BY <1>2, SegmentFields DEF n
<1>4. /\ \A k \in 1..n : k < n =>
           /\ is_closed(segments[k])
           /\ segments[k + 1].start_ms <= segments[k].end_ms + Rounding
           /\ segments[k + 1].start_ms <= segments[k].start_ms + SegmentMs
      /\ \A k, l \in 1..n : k < l => segments[k].end_ms <= segments[l].start_ms
  BY <1>2 DEF RingInv, Chained, n
<1>5. /\ clip.trigger \in Nat /\ clip.pre \in 0..MaxPreMs /\ clip.post \in 0..MaxPostMs
      /\ WantStart \in Nat /\ WantEnd \in Nat
      /\ WantEnd = clip.trigger + clip.post
      /\ WantStart = IF clip.trigger < clip.pre THEN 0 ELSE clip.trigger - clip.pre
  BY <1>2, RingAssumption DEF Clip, WantStart, WantEnd
<1>6. /\ clip' \in Clip
      /\ clip'.phase = "cut"
      /\ clip'.trigger = clip.trigger /\ clip'.pre = clip.pre /\ clip'.post = clip.post
      /\ clip'.from = segments[i].start_ms
      /\ clip'.to = segments[j].end_ms
      /\ clip'.whole = (i..j \subseteq Selected)
      /\ clip'.newest = segments[n].start_ms
  <2> DEFINE from == segments[i].start_ms
             to == segments[j].end_ms
             first == segments[i].seq
             last == segments[j].seq
             whole == i..j \subseteq Selected
             newest == Newest.start_ms
             truncated == TruncatedFront(i)
  <2>1. whole \in BOOLEAN /\ truncated \in BOOLEAN
    BY DEF TruncatedFront
  <2>2. /\ from \in Nat /\ to \in Nat /\ first \in Nat /\ last \in Nat /\ newest \in Nat
        /\ clip \in Clip
    BY <1>2, <1>3
  <2>3. clip' = [clip EXCEPT !.phase = "cut", !.from = from, !.to = to, !.first = first,
                             !.last = last, !.whole = whole, !.newest = newest,
                             !.truncated = truncated]
    BY <1>1
  <2> HIDE DEF from, to, first, last, whole, newest, truncated
  <2>4. /\ clip' \in Clip
        /\ clip'.phase = "cut"
        /\ clip'.trigger = clip.trigger /\ clip'.pre = clip.pre /\ clip'.post = clip.post
        /\ clip'.from = from
        /\ clip'.to = to
        /\ clip'.whole = whole
        /\ clip'.newest = newest
    BY <2>1, <2>2, <2>3 DEF Clip
  <2>5. QED
    BY <2>4, <1>2 DEF from, to, whole, newest
<1>7. \A k \in 1..n : k \in Selected <=> /\ segments[k].end_ms > segments[k].start_ms
                                        /\ segments[k].start_ms < WantEnd
                                        /\ segments[k].end_ms > WantStart
  BY <1>2 DEF Selected, is_closed, Overlaps
<1>8. i..j \subseteq Selected
  <2> SUFFICES ASSUME NEW k \in i..j PROVE k \in Selected
    OBVIOUS
  <2>1. k \in 1..n
    BY <1>2
  <2>2. CASE k = i \/ k = j
    BY <2>2, <1>1
  <2>3. CASE i < k /\ k < j
    <3>1. segments[i].end_ms <= segments[k].start_ms /\ segments[k].end_ms <= segments[j].start_ms
      BY <2>1, <2>3, <1>2, <1>4
    <3>2. segments[k].end_ms > segments[k].start_ms
      BY <2>1, <2>3, <1>2, <1>4 DEF is_closed
    <3>3. QED
      BY <2>1, <3>1, <3>2, <1>2, <1>3, <1>5, <1>7, SMTT(20)
  <2>4. QED
    BY <2>1, <2>2, <2>3, <1>2
<1>9. ClipIsWhole'
  <2>1. segments[i].start_ms < segments[j].end_ms
    <3>1. CASE i = j
      BY <3>1, <1>2, <1>7
    <3>2. CASE i < j
      <4>1. segments[i].end_ms <= segments[j].start_ms
        BY <3>2, <1>2, <1>4
      <4>2. QED
        BY <4>1, <1>2, <1>3, <1>7
    <3>3. QED
      BY <3>1, <3>2, <1>2
  <2>2. clip'.whole
    BY <1>6, <1>8, Zenon
  <2>3. QED
    BY <2>1, <2>2, <1>6 DEF ClipIsWhole
<1>10. segments[j].end_ms + Rounding >= WantEnd
  <2>1. segments[n].end_ms >= WantEnd
    <3>1. ~poisoned
      BY <1>2 DEF RingInv, ReaderShape
    <3>2. QED
      BY <3>1, <1>2 DEF PostRollHeld, ReadSpan, span_ms
  <2>2. CASE j = n
    BY <2>1, <2>2, <1>2, <1>3, <1>5, RingAssumption
  <2>3. CASE j < n
    <3>1. j + 1 \in 1..n /\ j + 1 \notin Selected
      BY <2>3, <1>1, <1>2
    <3>2. /\ segments[j].end_ms <= segments[j + 1].start_ms
          /\ segments[j + 1].start_ms <= segments[j].end_ms + Rounding
      BY <2>3, <3>1, <1>2, <1>4
    <3>3. segments[j].end_ms > WantStart
      BY <1>2, <1>7
    <3>4. segments[j + 1].start_ms >= WantEnd
      <4>1. CASE j + 1 = n
        <5>1. ~ /\ segments[n].end_ms > segments[n].start_ms
                /\ segments[n].start_ms < WantEnd
                /\ segments[n].end_ms > WantStart
          BY <4>1, <3>1, <1>7
        <5>2. segments[n].start_ms > WantStart
          BY <4>1, <3>2, <3>3, <1>2, <1>3, <1>5
        <5>3. segments[n].start_ms >= WantEnd
          BY <5>1, <5>2, <2>1, <1>2, <1>3, <1>5
        <5>4. QED
          BY <4>1, <5>3
      <4>2. CASE j + 1 < n
        <5>1. segments[j + 1].end_ms > segments[j + 1].start_ms
          BY <4>2, <3>1, <1>4 DEF is_closed
        <5>2. QED
          BY <5>1, <3>1, <3>2, <3>3, <1>2, <1>3, <1>5, <1>7
      <4>3. QED
        BY <4>1, <4>2, <3>1, <1>2
    <3>5. QED
      BY <3>1, <3>2, <3>4, <1>2, <1>3, <1>5, RingAssumption
  <2>4. QED
    BY <2>2, <2>3, <1>2
<1>11. ClipReachesPostRoll'
  BY <1>5, <1>6, <1>10 DEF ClipReachesPostRoll
<1>12. ASSUME ~byteEvicted, segments[n].start_ms <= WantEnd
       PROVE  clip.trigger < clip.pre \/ segments[i].start_ms <= WantStart + Rounding
  <2>1. CASE i = 1
    <3>1. CASE evicted = 0
      BY <2>1, <3>1, <1>2, <1>5, RingAssumption DEF RingInv, FrontBound
    <3>2. CASE evicted > 0
      <4>1. segments[n].start_ms + SegmentMs > segments[1].start_ms + CapMs
        BY <3>2, <1>2, <1>12 DEF RingInv, FrontBound
      <4>2. segments[n].start_ms > segments[1].start_ms + MaxPreMs + MaxPostMs
        BY <4>1, <1>2, <1>3, RingAssumption DEF CapMs
      <4>3. clip.pre <= MaxPreMs /\ clip.post <= MaxPostMs /\ clip.pre \in Nat
            /\ clip.post \in Nat
        BY <1>5, RingAssumption
      <4>4. 1 \in 1..n
        BY <1>2
      <4>5. segments[1].start_ms + clip.pre < clip.trigger
        <5>1. segments[n].start_ms <= clip.trigger + clip.post
          BY <1>5, <1>12
        <5>2. /\ segments[n].start_ms \in Nat /\ segments[1].start_ms \in Nat
              /\ clip.trigger \in Nat /\ MaxPreMs \in Nat /\ MaxPostMs \in Nat
          BY <4>4, <1>2, <1>3, <1>5, RingAssumption
        <5>3. QED
          BY <5>1, <5>2, <4>2, <4>3
      <4>6. QED
        BY <2>1, <4>3, <4>4, <4>5, <1>3, <1>5, RingAssumption
    <3>3. QED
      BY <3>1, <3>2, <1>2
  <2>2. CASE i > 1
    <3>1. i - 1 \in 1..n /\ i - 1 < n /\ (i - 1) + 1 = i /\ i - 1 \notin Selected
      BY <2>2, <1>1, <1>2
    <3>2. /\ segments[i - 1].end_ms > segments[i - 1].start_ms
          /\ segments[i].start_ms <= segments[i - 1].end_ms + Rounding
          /\ segments[i - 1].end_ms <= segments[i].start_ms
      <4>1. segments[(i - 1) + 1].start_ms <= segments[i - 1].end_ms + Rounding
        BY <3>1, <1>4
      <4>2. QED
        BY <2>2, <3>1, <4>1, <1>2, <1>4 DEF is_closed
    <3>3. segments[i].start_ms < WantEnd
      BY <1>2, <1>7
    <3>4. segments[i - 1].end_ms <= WantStart
      BY <3>1, <3>2, <3>3, <1>2, <1>3, <1>5, <1>7, SMTT(20)
    <3>5. QED
      BY <3>1, <3>2, <3>4, <1>2, <1>3, <1>5, RingAssumption, SMTT(20)
  <2>3. QED
    BY <2>1, <2>2, <1>2
<1>13. PreRollSurvivesPostRoll'
  <2>1. byteEvicted' = byteEvicted
    BY <1>2 DEF ringVars
  <2>2. QED
    BY <2>1, <1>5, <1>6, <1>12 DEF PreRollSurvivesPostRoll
<1>14. QED
  BY <1>2, <1>6, <1>9, <1>11, <1>13, ClipStep DEF ClipProps

-----------------------------------------------------------------------------
LEMMA NextIInv == RingInv /\ [Next]_vars => RingInv'
<1> SUFFICES ASSUME RingInv, [Next]_vars PROVE RingInv'
  OBVIOUS
<1>1. CASE ReadHeader
  BY <1>1, ReadHeaderStep
<1>2. CASE FragmentCompletes
  BY <1>2, FragmentCompletesStep
<1>3. CASE StreamEnds \/ Faults
  BY <1>3, ReaderEndsStep DEF Faults
<1>4. CASE Reader
  BY <1>4, ReadChunkStep, AdmitFragmentStep, EvictOldestStep, PushReturnsStep DEF Reader
<1>5. CASE Engine
  BY <1>5, TakeTriggerStep, CutClipStep, ClipRefusedStep DEF Engine
<1>6. CASE UNCHANGED vars
  <2>1. /\ UNCHANGED <<ringVars, readerVars>>
        /\ clip' = clip
    BY <1>6 DEF vars
  <2>2. ClipProps' /\ clip' \in Clip
    BY <2>1, ClipUnchanged DEF ringVars, RingInv, TypeOK
  <2>3. QED
    BY <2>1, <2>2, ClipStep
<1>7. QED
  BY <1>1, <1>2, <1>3, <1>4, <1>5, <1>6 DEF Next

LEMMA Invariance == Spec => []RingInv
BY InitRingInv, NextIInv, PTL DEF Spec

(* The variables of the ring, its reader and the clip request keep their    *)
(* types: in particular the byte count never goes below zero.               *)
THEOREM RingTypes == Spec => []TypeOK
<1>1. RingInv => TypeOK
  BY DEF RingInv
<1>2. QED
  BY <1>1, Invariance, PTL

(* The ring always holds the newest fragments of the stream, none missing,  *)
(* and is never emptied (MemoryRingBuffer::push, enforce_caps).             *)
THEOREM RingHoldsTheNewest == Spec => []HoldsTheNewest
<1>1. RingInv => HoldsTheNewest
  BY DEF RingInv
<1>2. QED
  BY <1>1, Invariance, PTL

(* The kept byte count is what the held fragments add up to.                *)
THEOREM RingBytesAreExact == Spec => []BytesAreExact
<1>1. RingInv => BytesAreExact
  BY DEF RingInv
<1>2. QED
  BY <1>1, Invariance, PTL

(* Whoever takes the lock finds both caps met, or a single fragment, and    *)
(* the byte count they are measured by is what is held.                     *)
THEOREM RingWithinCaps == Spec => []WithinCaps
<1>1. RingInv => WithinCaps
  BY DEF RingInv, WithinCaps
<1>2. QED
  BY <1>1, Invariance, PTL

(* A clip has no hole in it (MemoryRingBuffer::window).                     *)
THEOREM ClipsAreWhole == Spec => []ClipIsWhole
<1>1. RingInv => ClipIsWhole
  BY DEF RingInv, ClipProps
<1>2. QED
  BY <1>1, Invariance, PTL

(* A clip reaches the end of the post-roll it waited for.                   *)
THEOREM ClipsReachPostRoll == Spec => []ClipReachesPostRoll
<1>1. RingInv => ClipReachesPostRoll
  BY DEF RingInv, ClipProps
<1>2. QED
  BY <1>1, Invariance, PTL

(* A duration cap of the window plus one segment keeps a clip's whole       *)
(* pre-roll through its post-roll wait.                                     *)
THEOREM PreRollIsKept == Spec => []PreRollSurvivesPostRoll
<1>1. RingInv => PreRollSurvivesPostRoll
  BY DEF RingInv, ClipProps
<1>2. QED
  BY <1>1, Invariance, PTL

(* A clip is what was asked for, in all three respects.                     *)
THEOREM ClipsAreAsAsked == Spec => []ClipIsAsAsked
<1>1. ClipIsWhole /\ ClipReachesPostRoll /\ PreRollSurvivesPostRoll => ClipIsAsAsked
  BY DEF ClipIsAsAsked
<1>2. QED
  BY <1>1, ClipsAreWhole, ClipsReachPostRoll, PreRollIsKept, PTL
=============================================================================
