--------------------------- MODULE RecorderStart ---------------------------
(* Starting a recording (recorder/src/lib.rs, start_inner and               *)
(* Prepared::begin_recording): one handshake of many steps, each of which   *)
(* can fail, on the recorder's only connection to its index. A recorder     *)
(* without a game watcher starts once; a games-mode recorder repeats the    *)
(* handshake for every game with what its own start resolved.               *)
EXTENDS EncoderChoice

CONSTANTS Options,     \* the configurations to start with
          MaxStarts,   \* bound: handshakes
          MaxFaults    \* bound: steps of them that fail

ASSUME StartAssumption ==
    /\ {MaxStarts, MaxFaults} \subseteq Nat
    /\ Options \subseteq [mode : {"buffer", "session"}, save : BOOLEAN, mic : BOOLEAN, audio : BOOLEAN,
                          adapt : BOOLEAN, games : BOOLEAN, fps : Nat, zero_copy : {"auto", "yes", "no"},
                          opens : BOOLEAN, vendor : {"auto"} \cup Vendors, codec : Codecs]

VARIABLES opt,         \* the configuration
          at,          \* the step the handshake stands at
          start,       \* which handshake this is
          vendor,      \* the vendor resolved, once per recorder
          store,       \* who holds the connection
          dev,         \* the sources of this recording
          encode,      \* the encoder's configuration, then what its child was told
          pacer,       \* the rate frames are taken at
          dirs,        \* directories of sessions
          rows,        \* the sessions rows, by handshake
          status,      \* what is shown: running, game, error
          failedAt,    \* by handshake: the step it failed at
          startFaults
startVars == <<choiceVars, probe, opt, at, start, vendor, store, dev, encode, pacer, dirs, rows, status, failedAt, startFaults>>

Starts == 1..MaxStarts
NoDevices == [mic |-> "none", capture |-> "none", audio |-> "none"]
NoEncoder == [fps |-> 0, video |-> "RawPixels", mic |-> FALSE, audio |-> FALSE, output |-> "Segmented", spawned |-> FALSE]
Microphone == opt.mic
Full == opt.mode = "session"
SaveSession == opt.save /\ ~Full
OwnDir == Full \/ SaveSession

(* --- failing ------------------------------------------------------------ *)
Faulty == startFaults < MaxFaults /\ startFaults' = startFaults + 1

(* Mutant of StoreGuardDrop: a start that failed keeps the connection.      *)
StoreGuardDropLoses == IF store = "guard" THEN "lost" ELSE store

(* StoreGuard: the connection goes back when the recording did not take it. *)
StoreGuardDrop == IF store = "guard" THEN "slot" ELSE store

(* An error leaves the function: what it built is dropped - a source stops, *)
(* the encoder's child is ended - and the rest stays as it is. A recorder   *)
(* without games goes with its failed start, and the next one opens its own *)
(* connection and resolves its encoder anew.                                *)
Fails ==
    /\ at' = "idle" /\ failedAt' = [failedAt EXCEPT ![start] = at]
    /\ dev' = NoDevices /\ encode' = NoEncoder /\ pacer' = 0 /\ probe' = IdleProbe
    /\ store' = IF opt.games THEN StoreGuardDrop ELSE "slot"
    /\ vendor' = IF opt.games THEN vendor ELSE NoVendor
    /\ UNCHANGED <<opt, start, choiceVars>>

Refused == Fails /\ UNCHANGED <<dirs, rows, status, startFaults>>
BreaksHere == Faulty /\ Fails /\ UNCHANGED <<dirs, rows, status>>

(* --- before the handshake ----------------------------------------------- *)
(* start_inner: the index is opened, the storage policy and the recovery    *)
(* run (modelled elsewhere) and the encoder is resolved, before anything    *)
(* touches the display. A games-mode recorder does this once.               *)
resolve_encoder ==
    /\ at = "idle" /\ vendor = NoVendor /\ start < MaxStarts /\ store = "slot"
    /\ \E results \in smoke_test_cached :
         LET picked == select_vendor(opt.vendor, opt.codec, results)
         IN  /\ vendor' = picked.vendor /\ smokeResults' = picked.cache
             /\ start' = IF picked.vendor = NoVendor THEN start + 1 ELSE start
             /\ failedAt' = IF picked.vendor = NoVendor THEN [failedAt EXCEPT ![start + 1] = "resolve"] ELSE failedAt
    /\ UNCHANGED <<advertised, works, probe, opt, at, store, dev, encode, pacer, dirs, rows, status, startFaults>>

(* Prepared::begin takes the connection; create_session_dir claims a        *)
(* directory no other recording has, and only then is the last error of the *)
(* recorder forgotten.                                                      *)
Begin ==
    /\ at = "idle" /\ vendor # NoVendor /\ start < MaxStarts /\ store = "slot"
    /\ start' = start + 1 /\ store' = "guard" /\ at' = "dir"
    /\ UNCHANGED <<choiceVars, probe, opt, vendor, dev, encode, pacer, dirs, rows, status, failedAt, startFaults>>

create_session_dir ==
    /\ at = "dir"
    /\ \/ BreaksHere
       \/ /\ dirs' = IF OwnDir THEN dirs \cup {start} ELSE dirs
          /\ status' = [status EXCEPT !.error = 0] /\ at' = "mic"
          /\ UNCHANGED <<choiceVars, probe, opt, start, vendor, store, dev, encode, pacer, rows, failedAt, startFaults>>

(* --- the sources are made ----------------------------------------------- *)
build_microphone ==
    /\ at = "mic"
    /\ \/ Microphone /\ BreaksHere
       \/ Microphone /\ ~opt.audio /\ Refused
       \/ /\ Microphone => opt.audio
          /\ dev' = [dev EXCEPT !.mic = IF Microphone THEN "made" ELSE "none"] /\ at' = "sources"
          /\ UNCHANGED <<choiceVars, probe, opt, start, vendor, store, encode, pacer, dirs, rows, status, failedAt, startFaults>>

(* Making the capture backend opens a session on the display.               *)
build_sources ==
    /\ at = "sources"
    /\ \/ BreaksHere
       \/ /\ dev' = [dev EXCEPT !.capture = "made", !.audio = IF opt.audio THEN "made" ELSE "none"] /\ at' = "config"
          /\ UNCHANGED <<choiceVars, probe, opt, start, vendor, store, encode, pacer, dirs, rows, status, failedAt, startFaults>>

(* --- the encoder's configuration and its rate --------------------------- *)
Openable == vendor # NoVendor /\ opt.opens
ZeroCopy == CASE opt.zero_copy = "yes" -> TRUE [] opt.zero_copy = "no" -> FALSE [] OTHER -> Openable

(* An explicit zero_copy this machine cannot honour is an error.            *)
CannotHonour == opt.zero_copy = "yes" /\ ~Openable

build_encode_config ==
    /\ at = "config"
    /\ \/ CannotHonour /\ Refused
       \/ BreaksHere
       \/ /\ ~CannotHonour
          /\ encode' = [NoEncoder EXCEPT !.fps = opt.fps, !.audio = opt.audio, !.mic = Microphone,
                                         !.video = IF ZeroCopy THEN "EncodedBitstream" ELSE "RawPixels"]
          /\ at' = "rate"
          /\ UNCHANGED <<choiceVars, probe, opt, start, vendor, store, dev, pacer, dirs, rows, status, failedAt, startFaults>>

Measure ==
    /\ at = "rate" /\ opt.adapt /\ probe.at = "idle"
    /\ ProbeStarts(encode.video)
    /\ UNCHANGED <<choiceVars, opt, at, start, vendor, store, dev, encode, pacer, dirs, rows, status, failedAt, startFaults>>

Probing ==
    /\ at = "rate" /\ ProbeStep
    /\ UNCHANGED <<choiceVars, opt, at, start, vendor, store, dev, encode, pacer, dirs, rows, status, failedAt, startFaults>>

DecideRate ==
    /\ at = "rate" /\ (opt.adapt => probe.at = "done")
    /\ encode' = [encode EXCEPT !.fps = IF opt.adapt THEN decide_rate(opt.fps, TRUE, probe.rate)
                                        ELSE decide(opt.fps, FALSE, Unmeasured)]
    /\ at' = "encoder"
    /\ UNCHANGED <<choiceVars, probe, opt, start, vendor, store, dev, pacer, dirs, rows, status, failedAt, startFaults>>

(* A buffer's encoder comes before its ring, which reads the child's output *)
(* pipe; a session's ring comes first, for it says which number the child's *)
(* first segment has. Every step of either can fail.                        *)
spawn_encoder ==
    /\ at = "encoder"
    /\ \/ BreaksHere
       \/ /\ encode' = [encode EXCEPT !.spawned = TRUE, !.output = IF Full THEN "Segmented" ELSE "FragmentedStream"]
          /\ at' = "row"
          /\ UNCHANGED <<choiceVars, probe, opt, start, vendor, store, dev, pacer, dirs, rows, status, failedAt, startFaults>>

(* --- the row, and the sources are started ------------------------------- *)
RemoveOwnDir == dirs' = IF OwnDir THEN dirs \ {start} ELSE dirs

start_session ==
    /\ at = "row"
    /\ \/ Faulty /\ Fails /\ RemoveOwnDir /\ UNCHANGED <<rows, status>>
       \/ /\ rows' = [rows EXCEPT ![start] = "open"] /\ at' = "start_mic"
          /\ UNCHANGED <<choiceVars, probe, opt, start, vendor, store, dev, encode, pacer, dirs, status, failedAt, startFaults>>

(* A source that does not start: all are stopped, the row is closed, and    *)
(* the directory made for the recording goes. The store may refuse the      *)
(* closing, which nobody hears of.                                          *)
SourcesFail ==
    /\ Faulty /\ Fails /\ RemoveOwnDir /\ UNCHANGED status
    /\ rows' = [rows EXCEPT ![start] = "ended"]

(* Each audio backend is waited for until it delivers (AudioWorker).        *)
Starts1(step, source, next) ==
    /\ at = step
    /\ \/ dev[source] # "none" /\ SourcesFail
       \/ /\ dev' = [dev EXCEPT ![source] = IF @ = "none" THEN "none" ELSE "delivering"] /\ at' = next
          /\ UNCHANGED <<choiceVars, probe, opt, start, vendor, store, encode, pacer, dirs, rows, status, failedAt, startFaults>>
StartMicrophone == Starts1("start_mic", "mic", "start_capture")
StartCapture == Starts1("start_capture", "capture", "start_audio")
StartAudio == Starts1("start_audio", "audio", "engine")

(* --- the engine --------------------------------------------------------- *)
(* Mutant of PacerRate: the pacer takes the rate from the configuration.    *)
PacerRateAsked == opt.fps

(* The pacer's rate is read back from the child that was spawned.           *)
PacerRate == encode.fps

SpawnEngine ==
    /\ at = "engine" /\ pacer' = PacerRate
    /\ store' = "engine" /\ at' = "recording" /\ status' = [status EXCEPT !.running = start]
    /\ UNCHANGED <<choiceVars, probe, opt, start, vendor, dev, encode, dirs, rows, failedAt, startFaults>>

(* The thread cannot be spawned: the engine is taken back out of its slot,  *)
(* and with it the connection. Its row stays open.                          *)
ThreadFails ==
    /\ at = "engine" /\ Faulty /\ at' = "idle" /\ store' = "slot"
    /\ vendor' = IF opt.games THEN vendor ELSE NoVendor
    /\ failedAt' = [failedAt EXCEPT ![start] = "thread"] /\ status' = [status EXCEPT !.running = 0]
    /\ dev' = NoDevices /\ encode' = NoEncoder /\ pacer' = 0 /\ probe' = IdleProbe
    /\ UNCHANGED <<choiceVars, opt, start, dirs, rows>>

(* The recording is over (RecorderEngine, SessionLifecycle): the thread     *)
(* hands the connection back. A recorder without games is then done with    *)
(* its vendor: the next one resolves again.                                 *)
RecordingEnds ==
    /\ at = "recording" /\ at' = "idle" /\ store' = "slot"
    /\ rows' = [rows EXCEPT ![start] = "ended"]
    /\ \E error \in {status.error, start} : status' = [running |-> 0, error |-> error]
    /\ vendor' = IF opt.games THEN vendor ELSE NoVendor
    /\ dev' = NoDevices /\ encode' = NoEncoder /\ pacer' = 0 /\ probe' = IdleProbe
    /\ UNCHANGED <<choiceVars, opt, start, dirs, failedAt, startFaults>>

StartInit ==
    /\ ChoiceInit /\ probe = IdleProbe /\ opt \in Options /\ at = "idle" /\ start = 0
    /\ vendor = NoVendor /\ store = "slot" /\ dev = NoDevices /\ encode = NoEncoder /\ pacer = 0
    /\ dirs = {} /\ rows = [k \in Starts |-> "none"] /\ status = [running |-> 0, error |-> 0]
    /\ failedAt = [k \in Starts |-> "nowhere"] /\ startFaults = 0

Handshake ==
    \/ create_session_dir \/ build_microphone \/ build_sources \/ build_encode_config
    \/ Measure \/ Probing \/ DecideRate \/ spawn_encoder \/ start_session
    \/ StartMicrophone \/ StartCapture \/ StartAudio \/ SpawnEngine
StartNext == resolve_encoder \/ Begin \/ Handshake \/ ThreadFails \/ RecordingEnds

(* --- properties --------------------------------------------------------- *)
(* A failed start gives the connection to the index back, whatever step     *)
(* failed: a recorder between two recordings always has it. It leaves no    *)
(* row open and, once a row was tried, no directory: what is left behind is *)
(* the row of a recording whose thread could not be spawned                 *)
(* (StoreGuard, the error paths of begin_recording).                        *)
AFailedStartLeavesNothing ==
    /\ at = "idle" => store = "slot" /\ status.running = 0
    /\ \A k \in Starts :
         /\ rows[k] = "open" => (k = start /\ at # "idle") \/ failedAt[k] = "thread"
         /\ rows[k] = "none" /\ failedAt[k] = "row" => k \notin dirs
         /\ failedAt[k] \in {"start_mic", "start_capture", "start_audio"} => k \notin dirs

(* The encoder a recorder uses encoded a frame on this machine, and no      *)
(* candidate before it did.                                                 *)
PickIsUsable ==
    vendor # NoVendor =>
        LET candidates == candidates_for(opt.vendor)
            encoder(v) == hw_encoder_name(opt.codec, v)
            passed(v) == encoder(v) \in advertised /\ Cached(encoder(v)) /\ smokeResults[encoder(v)]
        IN  /\ passed(vendor)
            /\ \A i \in 1..Len(candidates) :
                  candidates[i] # vendor /\ passed(candidates[i]) =>
                      \E j \in 1..(i - 1) : candidates[j] = vendor

(* One rate, for the pacer and the child, never above what was asked for    *)
(* nor above what a probe that finished measured.                           *)
OneRate ==
    at = "recording" =>
        /\ encode.spawned /\ pacer = encode.fps /\ pacer \in 1..AtLeastOne(opt.fps)
        /\ opt.adapt /\ probe.rate \in Nat => pacer <= AtLeastOne(probe.rate)
        /\ probe.rate \in Nat => probe.child \in {"none", "succeeded"}

(* What a running recording claims is delivered: every track it declares is *)
(* fed, textures are handed over only to an encoder that opened for them,   *)
(* its encoder passed its test, and it runs at one rate. The display is not *)
(* touched before the voice that was asked for is there                     *)
(* (begin_recording, build_encode_config, select_usable, decide_rate).      *)
ARecordingIsAsPromised ==
    /\ PickIsUsable /\ OneRate
    /\ dev.capture # "none" /\ opt.mic => dev.mic # "none"
    /\ dev.capture = "delivering" /\ opt.mic => dev.mic = "delivering"
    /\ encode.spawned =>
         /\ encode.mic = opt.mic /\ encode.audio = opt.audio /\ (encode.mic => encode.audio)
         /\ encode.video = "EncodedBitstream" => opt.opens
    /\ at = "recording" =>
         /\ status.running = start /\ status.error # start /\ rows[start] = "open" /\ (OwnDir => start \in dirs)
         /\ encode.mic => dev.mic = "delivering"
         /\ encode.audio => dev.audio = "delivering"
=============================================================================
