---------------------------- MODULE AudioDevice ----------------------------
(* What a WASAPI backend takes from Windows and gives back (wasapi.rs,      *)
(* wasapi_mic.rs): the COM apartment of the thread that starts it, the      *)
(* objects it opens call by call, any of which may fail, the activation     *)
(* that may answer after nobody waits for it, and the watch for a converter *)
(* that delivers only silence.  Where the sound is placed, and when a lost  *)
(* device is tried again, is AudioSource's.                                 *)
EXTENDS Integers, Sequences, SequencesExt, FiniteSets

CONSTANTS Threads,      \* threads the backend may be called on
          Periods,      \* the device periods an endpoint may report
          MAX_BUFFER,   \* MAX_BUFFER_HNS
          ORDINARY,     \* the buffer for a device that reports no period
          THRESHOLD,    \* CONVERTED_SILENCE_THRESHOLD, in blocks
          MaxFailures,  \* bound: platform calls that fail, streams that are lost
          MaxStarts,    \* bound: starts
          MaxStrays     \* bound: calls from a thread that did not start it

ASSUME AudioDeviceAssumption ==
    /\ Threads # {} /\ "nobody" \notin Threads /\ Periods \subseteq Nat
    /\ {MAX_BUFFER, ORDINARY, THRESHOLD} \subseteq Nat \ {0} /\ ORDINARY <= MAX_BUFFER
    /\ {MaxFailures, MaxStarts, MaxStrays} \subseteq Nat

VARIABLES backend, com, others, held, opening, stream, watch, late, spent
deviceVars == <<backend, com, others, held, opening, stream, watch, late, spent>>

Nobody == "nobody"
NotOpening == [path |-> "none", step |-> 0, by |-> Nobody, first |-> FALSE]
NoStream == [fits |-> TRUE, converting |-> FALSE, heard |-> <<>>, warnings |-> 0]
NoWatch == [converting |-> FALSE, warned |-> FALSE, audible |-> FALSE, run |-> 0]

(* The calls of an open, in their order.                                    *)
Path(p) ==
    CASE p = "factory" -> <<"enumerator">>
      [] p = "process" -> <<"activation", "client", "event", "initialize", "bind", "service", "start", "anchor">>
      [] p = "endpoint" -> <<"device", "client", "format", "period", "event", "initialize", "bind",
                             "service", "start", "anchor">>
      [] p = "microphone" -> <<"enumerator", "device", "client", "format", "event", "period", "initialize",
                               "bind", "service", "start", "anchor">>
Step == Path(opening.path)[opening.step]
Taken == {"enumerator", "device", "client", "format", "event", "service", "start"}
(* A loopback keeps its enumerator for the reopening, a microphone its device. *)
Kept == {"client", "event", "service", "start"}
        \cup IF backend.kind = "loopback" THEN {"enumerator"} ELSE {"device"}

BufferFor(default, minimum) ==
    LET d == IF default > 0 THEN default ELSE ORDINARY
        raised == IF d < minimum THEN minimum ELSE d
    IN  IF raised > MAX_BUFFER THEN MAX_BUFFER ELSE raised

(* --- the apartment ------------------------------------------------------ *)
ApartmentOf(t) == IF com[t].mode = "single" THEN "changed"
                  ELSE IF com[t].count = 0 THEN "ok" ELSE "already"

(* Whoever initialises first decides; a second time counts as well (S_FALSE), *)
(* and that one is never given back.                                          *)
Entered(t) == IF ApartmentOf(t) = "changed" THEN com ELSE [com EXCEPT ![t].count = @ + 1]

(* An owner is the thread that started it; before a start there is none.    *)
IsHere(t) == backend.apartment \in {t, Nobody}

(* Mutant of LeavesApartment: given back on whatever thread it is asked.    *)
LeavesAnyApartment(b, t) ==
    /\ com' = IF b.owned THEN [com EXCEPT ![t].count = @ - 1] ELSE com
    /\ backend' = [b EXCEPT !.owned = FALSE]

(* Only on the thread that took it: on another one it leaks, and is named.  *)
LeavesApartment(b, t) ==
    /\ com' = IF b.owned /\ IsHere(t) THEN [com EXCEPT ![t].count = @ - 1] ELSE com
    /\ backend' = [b EXCEPT !.owned = FALSE]

DeviceInit ==
    /\ \E k \in {"loopback", "microphone"}, finder, supported \in BOOLEAN :
          /\ k = "microphone" => ~finder /\ ~supported
          /\ backend = [kind |-> k, finder |-> finder, supported |-> supported, started |-> FALSE,
                        game |-> "none", owned |-> FALSE, apartment |-> Nobody, generation |-> 0,
                        watched |-> 0, gone |-> FALSE]
    /\ com \in [Threads -> {[count |-> 0, mode |-> "multi"], [count |-> 1, mode |-> "multi"],
                            [count |-> 1, mode |-> "single"]}]
    /\ others = [t \in Threads |-> com[t].count]
    /\ held = {} /\ opening = NotOpening /\ watch = NoWatch /\ late = 0
    /\ stream = NoStream
    /\ spent = [failures |-> 0, starts |-> 0, strays |-> 0]

(* The game's own stream fails once a start, which is bound enough.         *)
Fails ==
    IF opening.path = "process" THEN spent' = spent
    ELSE spent.failures < MaxFailures /\ spent' = [spent EXCEPT !.failures = @ + 1]
Idle == opening = NotOpening /\ ~backend.gone

(* --- start -------------------------------------------------------------- *)
OpensGame(b) == b.game = "wanted"

Starts(t) ==
    /\ Idle /\ ~backend.started /\ spent.starts < MaxStarts
    /\ spent' = [spent EXCEPT !.starts = @ + 1]
    /\ com' = Entered(t)
    /\ others' = [others EXCEPT ![t] = @ + IF ApartmentOf(t) = "already" THEN 1 ELSE 0]
    /\ backend' = [backend EXCEPT !.owned = ApartmentOf(t) = "ok", !.apartment = t, !.finder = FALSE,
                                  !.game = IF backend.finder /\ backend.supported THEN "wanted" ELSE "none"]
    /\ opening' = [path |-> IF backend.kind = "loopback" THEN "factory" ELSE "microphone",
                   step |-> 1, by |-> t, first |-> TRUE]
    /\ UNCHANGED <<held, stream, watch, late>>

(* CoInitializeEx fails.                                                    *)
StartRefused ==
    /\ Idle /\ ~backend.started /\ spent.starts < MaxStarts
    /\ spent.failures < MaxFailures
    /\ spent' = [spent EXCEPT !.starts = @ + 1, !.failures = @ + 1]
    /\ UNCHANGED <<backend, com, others, held, opening, stream, watch, late>>

(* --- the calls of an open ----------------------------------------------- *)
Looks(running) == [opening EXCEPT !.step = 1,
                                  !.path = IF OpensGame(backend) /\ running THEN "process" ELSE "endpoint"]

(* A microphone gets its watch here, a loopback when it is next read.       *)
StreamOpened(kept) ==
    /\ opening' = NotOpening /\ held' = kept
    /\ backend' = [backend EXCEPT !.started = TRUE, !.generation = IF opening.first THEN 1 ELSE @ + 1,
                                  !.watched = IF opening.first THEN 0 ELSE @]
    /\ watch' = IF backend.kind = "loopback" THEN watch ELSE [NoWatch EXCEPT !.converting = stream.converting]
    /\ UNCHANGED <<com, stream>>

CallReturns ==
    /\ opening # NotOpening /\ Step \notin {"activation", "format", "period"}
    /\ LET got == held \cup ({Step} \cap Taken)
           last == opening.step = Len(Path(opening.path))
       IN  IF opening.path = "factory"
           THEN /\ held' = got /\ \E running \in BOOLEAN : opening' = Looks(running)
                /\ UNCHANGED <<backend, com, watch, stream>>
           ELSE IF last THEN StreamOpened(got \cap Kept)
           ELSE /\ held' = got /\ opening' = [opening EXCEPT !.step = @ + 1]
                /\ UNCHANGED <<backend, com, watch, stream>>
    /\ UNCHANGED <<others, late, spent>>

(* The endpoint's own format decides only whether the engine converts.      *)
FormatRead(converting) ==
    /\ opening # NotOpening /\ Step = "format"
    /\ held' = held \cup {"format"} /\ stream' = [stream EXCEPT !.converting = converting]
    /\ opening' = [opening EXCEPT !.step = @ + 1]
    /\ UNCHANGED <<backend, com, others, watch, late, spent>>

PeriodRead(default, minimum) ==
    /\ opening # NotOpening /\ Step = "period"
    /\ backend.kind = "loopback" => minimum <= MAX_BUFFER
    /\ LET asked == IF backend.kind = "loopback" THEN BufferFor(default, minimum)
                    ELSE IF default > 0 THEN default ELSE ORDINARY
       IN  stream' = [stream EXCEPT !.fits = minimum <= asked /\ asked <= MAX_BUFFER]
    /\ opening' = [opening EXCEPT !.step = @ + 1]
    /\ UNCHANGED <<backend, com, others, held, watch, late, spent>>

ActivationCompletes ==
    /\ opening # NotOpening /\ Step = "activation"
    /\ opening' = [opening EXCEPT !.step = @ + 1]
    /\ UNCHANGED <<backend, com, others, held, stream, watch, late, spent>>

(* Whatever was opened so far is dropped.  A game that cannot be captured   *)
(* alone is left for the whole output; the first open failing gives the     *)
(* apartment back; a reopening is tried again later.                        *)
OpenFails ==
    /\ opening # NotOpening /\ stream' = NoStream
    /\ IF opening.path = "process"
       THEN /\ opening' = [opening EXCEPT !.path = "endpoint", !.step = 1] /\ held' = held \cap {"enumerator"}
            /\ backend' = [backend EXCEPT !.game = "refused"] /\ com' = com
       ELSE /\ opening' = NotOpening /\ held' = IF opening.first THEN {} ELSE held \cap {"enumerator"}
            /\ IF opening.first THEN LeavesApartment(backend, opening.by) ELSE UNCHANGED <<backend, com>>

CallFails == Fails /\ OpenFails /\ UNCHANGED <<others, watch, late>>

(* A period nothing can be recorded with.                                   *)
PeriodRefused(minimum) ==
    /\ opening # NotOpening /\ Step = "period" /\ backend.kind = "loopback" /\ minimum > MAX_BUFFER
    /\ OpenFails /\ Fails /\ UNCHANGED <<others, watch, late>>

(* ACTIVATION_TIMEOUT: the operation goes on, and nobody hears its end.     *)
ActivationTimesOut ==
    /\ opening # NotOpening /\ Step = "activation"
    /\ late' = late + 1 /\ OpenFails /\ Fails /\ UNCHANGED <<others, watch>>

ActivationCompletesLate ==
    late > 0 /\ late' = late - 1 /\ UNCHANGED <<backend, com, others, held, opening, stream, watch, spent>>

(* --- next_buffer -------------------------------------------------------- *)
Streaming == "start" \in held

Watched == IF backend.kind = "loopback" /\ Streaming /\ backend.generation # backend.watched
           THEN [NoWatch EXCEPT !.converting = stream.converting] ELSE watch

(* The run is not counted past the threshold.                               *)
Observed(w, silent) ==
    LET run == IF ~silent THEN 0 ELSE IF w.run < THRESHOLD THEN w.run + 1 ELSE w.run
        warns == silent /\ w.converting /\ ~w.audible /\ ~w.warned /\ run >= THRESHOLD
    IN  [w EXCEPT !.audible = @ \/ ~silent, !.run = run, !.warned = @ \/ warns]

(* A block of sound, of silence, or of padding, which is no evidence.       *)
HandsOn(t, block) ==
    /\ Idle /\ backend.started /\ IsHere(t)
    /\ LET w == Watched
           seen == IF block = "padding" THEN w ELSE Observed(w, block = "silence")
       IN  /\ watch' = seen
           /\ stream' = [stream EXCEPT
                 !.warnings = @ + IF Streaming /\ seen.warned /\ ~w.warned THEN 1 ELSE 0,
                 !.heard = IF block = "padding" \/ Len(@) = THRESHOLD \/ ~Streaming THEN @ ELSE Append(@, block)]
    /\ backend' = [backend EXCEPT !.watched = IF backend.kind = "loopback" /\ Streaming THEN backend.generation ELSE @]
    /\ UNCHANGED <<com, others, held, opening, late, spent>>

(* The device goes, or another one is wanted: dropped before the new open.  *)
Loses(t) ==
    /\ Idle /\ backend.started /\ backend.kind = "loopback" /\ IsHere(t) /\ Streaming
    /\ Fails /\ held' = {"enumerator"} /\ stream' = NoStream
    /\ UNCHANGED <<backend, com, others, opening, watch, late>>

Reopens(t) ==
    /\ Idle /\ backend.started /\ backend.kind = "loopback" /\ IsHere(t) /\ ~Streaming
    /\ \E running \in BOOLEAN : opening' = [Looks(running) EXCEPT !.by = t]
    /\ UNCHANGED <<backend, com, others, held, stream, watch, late, spent>>

(* --- stop and drop ------------------------------------------------------ *)
Strays(t) == IF IsHere(t) THEN spent' = spent
             ELSE spent.strays < MaxStrays /\ spent' = [spent EXCEPT !.strays = @ + 1]

(* The stream is dropped first, then the apartment it lives in.             *)
LetsGo(t, dropped) ==
    /\ Idle /\ Strays(t)
    /\ held' = {} /\ stream' = NoStream
    /\ LeavesApartment([backend EXCEPT !.started = FALSE, !.gone = dropped], t)
    /\ UNCHANGED <<others, opening, watch, late>>

Stops(t) == backend.started /\ LetsGo(t, FALSE)
Drops(t) == LetsGo(t, TRUE)

DeviceNext ==
    \/ StartRefused \/ CallReturns \/ CallFails
    \/ ActivationCompletes \/ ActivationTimesOut \/ ActivationCompletesLate
    \/ \E converting \in BOOLEAN : FormatRead(converting)
    \/ \E default, minimum \in Periods : PeriodRead(default, minimum)
    \/ \E minimum \in Periods : PeriodRefused(minimum)
    \/ \E t \in Threads :
          \/ Starts(t) \/ Loses(t) \/ Reopens(t) \/ Stops(t) \/ Drops(t)
          \/ \E block \in {"sound", "silence", "padding"} : HandsOn(t, block)

(* --- properties --------------------------------------------------------- *)
(* What the backend opened is there exactly while it is started or being    *)
(* opened, never without the apartment it lives in, and what it took for it *)
(* is given back once, on the thread that took it: no call ever ends an     *)
(* apartment somebody else holds, and only a call from a strange thread     *)
(* leaves one behind (wasapi.rs: release_com, start, stop, Drop).           *)
ApartmentIsGivenBack ==
    /\ held # {} => com[backend.apartment].count > 0 /\ (backend.started \/ opening # NotOpening)
    /\ Idle /\ Streaming => held = Kept
    /\ \A t \in Threads :
          LET mine == IF backend.owned /\ backend.apartment = t THEN 1 ELSE 0
          IN  /\ com[t].count >= others[t] + mine
              /\ spent.strays = 0 => com[t].count = others[t] + mine

(* A stream is called suspicious exactly when the engine converts for it    *)
(* and all it has delivered, for the whole threshold, was silence; and once *)
(* (lib.rs: ConvertedSilenceWatch).  A loopback is asked for a buffer its   *)
(* endpoint can fill and the capture can wait for (buffer_duration_for).    *)
SuspicionIsEarned ==
    /\ Idle /\ Streaming => stream.warnings =
          IF stream.converting /\ Len(stream.heard) = THRESHOLD /\ \A i \in 1..THRESHOLD : stream.heard[i] = "silence"
          THEN 1 ELSE 0
    /\ backend.kind = "loopback" /\ Streaming => stream.fits
=============================================================================
