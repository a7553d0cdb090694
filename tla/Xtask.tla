------------------------------- MODULE Xtask --------------------------------
(* The two tools beside the program.                                         *)
(*                                                                           *)
(* `cargo xtask sidecars` (xtask/src/sidecars.rs), the binaries the program  *)
(* ships and their pins: `record` downloads each archive, hashes it and      *)
(* rewrites sidecars.toml; `fetch` downloads one, checks it against its pin  *)
(* and only then extracts what the manifest allows.  One command at a time,  *)
(* killed anywhere; an archive is its version, a hash says which version it  *)
(* is of, and what a URL serves changes.  MaxFailures bounds the steps that  *)
(* fail and the kills.                                                       *)
(*                                                                           *)
(* `cargo xtask verify` (xtask/src/verify.rs), the acceptance harness: seven *)
(* steps that each add rows to one report, a step's failure being a row      *)
(* rather than the end, around two runs of the CLI as a child that is        *)
(* watched, budgeted and killed.  What a step measures is Odd (out of its    *)
(* bounds, missing, failed) or as it should be; at most MaxOdd measurements  *)
(* of one run are odd.  A child that hangs or fails is not counted.          *)
EXTENDS Naturals, Sequences, FiniteSets

CONSTANTS Targets, Host,        \* the manifest's entries; the target of this machine
          Binaries,             \* what the manifest allows, in its order
          Versions,             \* the archives that were ever served
          Contents,             \* [Versions -> {"whole", "unsafe", "lacks", "expands"}]
          MaxCommands, MaxReleases, MaxFailures

(* A manifest that allows nothing is refused; a version is not a word below. *)
ASSUME SidecarAssumption ==
    /\ {MaxCommands, MaxReleases, MaxFailures} \subseteq Nat /\ Len(Binaries) \in Nat \ {0}
    /\ Versions \cap {"none", "cut", "RECORD_ME"} = {}

VARIABLES
    manifest,      \* the pin of each target; no target in it when it is torn
    url,           \* what each archive_url serves
    archive,       \* the downloaded file of each target, under target/
    installed,     \* binaries/: the version each file is of
    partial,       \* its .part sibling
    command,       \* the running command and where it is
    ended,         \* how the last one ended
    everPinned, commands, releases, failures
sidecarVars == <<manifest, url, archive, installed, partial, command, ended,
                 everPinned, commands, releases, failures>>

UNRECORDED == "RECORD_ME"
Allowed == 1..Len(Binaries)
NothingRuns == [at |-> "idle", kind |-> "none", todo |-> <<>>, updates |-> {}, file |-> 1]
Nothing == [kind |-> "none", how |-> "none", targets |-> {}]

SidecarInit ==
    /\ url \in [Targets -> Versions]
    /\ manifest \in [Targets -> Versions \cup {UNRECORDED}]
    /\ archive = [t \in Targets |-> "none"]
    /\ installed = [f \in Allowed |-> "none"] /\ partial = [f \in Allowed |-> "none"]
    /\ command = NothingRuns /\ ended = Nothing
    /\ everPinned = {manifest[t] : t \in Targets}
    /\ commands = 0 /\ releases = 0 /\ failures = 0

TornManifest == <<>>
torn == manifest = TornManifest
target == Head(command.todo)

AStepFails == failures < MaxFailures /\ failures' = failures + 1
CommandEnds(how, targets) ==
    /\ ended' = [kind |-> command.kind, how |-> how, targets |-> targets]
    /\ command' = NothingRuns
CommandGoes(at) == command' = [command EXCEPT !.at = at] /\ UNCHANGED ended

Release(t) ==
    /\ releases < MaxReleases /\ releases' = releases + 1
    /\ \E v \in Versions \ {url[t]} : url' = [url EXCEPT ![t] = v]
    /\ UNCHANGED <<manifest, archive, installed, partial, command, ended, everPinned, commands, failures>>

(* Every selected entry, in the manifest's order, or the one asked for.      *)
Starts(kind, todo) ==
    /\ command = NothingRuns /\ commands < MaxCommands /\ commands' = commands + 1
    /\ command' = [NothingRuns EXCEPT !.at = IF torn THEN "refused" ELSE "download", !.kind = kind, !.todo = todo]
    /\ ended' = Nothing
    /\ UNCHANGED <<manifest, url, archive, installed, partial, everPinned, releases, failures>>
record_pins == \/ \E t \in Targets : Starts("record", <<t>>)
               \/ \E t, u \in Targets : t # u /\ Starts("record", <<t, u>>)
fetch(t) == Starts("fetch", <<t>>)

(* A manifest that does not parse, and a pin nobody recorded.                *)
Refuses ==
    /\ \/ command.at = "refused"
       \/ command.at = "download" /\ command.kind = "fetch" /\ manifest[target] = UNRECORDED
    /\ CommandEnds("failed", {})
    /\ UNCHANGED <<manifest, url, archive, installed, partial, everPinned, commands, releases, failures>>

(* curl writes the file in place: a failure, and a success that was cut      *)
(* short, leave a part of it there.                                          *)
download ==
    /\ command.at = "download"
    /\ command.kind = "fetch" => manifest[target] # UNRECORDED
    /\ \/ archive' = [archive EXCEPT ![target] = url[target]] /\ CommandGoes("read") /\ UNCHANGED failures
       \/ AStepFails /\ archive' = [archive EXCEPT ![target] = "cut"] /\ CommandGoes("read")
       \/ AStepFails /\ archive' \in {archive, [archive EXCEPT ![target] = "cut"]} /\ CommandEnds("failed", {})
    /\ UNCHANGED <<manifest, url, installed, partial, everPinned, commands, releases>>

(* Does the archive open; does every entry's name stay below its directory;  *)
(* and is each allowed path in it exactly once?                              *)
open_archive(v) == v # "cut"
validate_entry_path(v) == Contents[v] # "unsafe"
scan(v) == open_archive(v) /\ validate_entry_path(v) /\ Contents[v] # "lacks"

(* record hashes the file and makes sure that the pin could be fetched.      *)
RecordsHash ==
    /\ command.at = "read" /\ command.kind = "record"
    /\ IF scan(archive[target])
         THEN /\ command' = [command EXCEPT !.updates = @ \cup {<<target, archive[target]>>},
                                            !.todo = Tail(@),
                                            !.at = IF Len(command.todo) = 1 THEN "write" ELSE "download"]
              /\ UNCHANGED ended
         ELSE CommandEnds("failed", {})
    /\ UNCHANGED <<manifest, url, archive, installed, partial, everPinned, commands, releases, failures>>

rewrite_sha256(pins, updates) ==
    [t \in Targets |-> IF \E v \in Versions : <<t, v>> \in updates
                         THEN CHOOSE v \in Versions : <<t, v>> \in updates ELSE pins[t]]
Updated == {u[1] : u \in command.updates}

(* All the hashes at once, after the last download; the file is rewritten in *)
(* place, so a write that fails leaves a part of it.                         *)
RecordWrites ==
    /\ command.at = "write"
    /\ \/ /\ manifest' = rewrite_sha256(manifest, command.updates)
          /\ everPinned' = everPinned \cup {u[2] : u \in command.updates}
          /\ CommandEnds("ok", Updated) /\ UNCHANGED failures
       \/ AStepFails /\ manifest' = TornManifest /\ CommandEnds("failed", {}) /\ UNCHANGED everPinned
    /\ UNCHANGED <<url, archive, installed, partial, commands, releases>>

(* Mutant of verify_sha256: any archive that can be extracted is.            *)
verify_sha256Unhashed ==
    /\ command.at = "read" /\ command.kind = "fetch"
    /\ IF scan(archive[target]) THEN CommandGoes("copy") ELSE CommandEnds("failed", {})
    /\ UNCHANGED <<manifest, url, archive, installed, partial, everPinned, commands, releases, failures>>

(* Nothing is written unless the whole archive is the one that was pinned.   *)
verify_sha256 ==
    /\ command.at = "read" /\ command.kind = "fetch"
    /\ IF archive[target] = manifest[target] /\ scan(archive[target])
         THEN CommandGoes("copy") ELSE CommandEnds("failed", {})
    /\ UNCHANGED <<manifest, url, archive, installed, partial, everPinned, commands, releases, failures>>

(* One entry into its .part, which a failure removes.  An entry that expands *)
(* past the ceiling fails; the files before it are in place already.         *)
write_entry_to_disk ==
    /\ command.at = "copy"
    /\ LET f == command.file IN
       \/ /\ ~(Contents[archive[target]] = "expands" /\ f = Len(Binaries))
          /\ partial' = [partial EXCEPT ![f] = archive[target]] /\ CommandGoes("remove") /\ UNCHANGED failures
       \/ /\ \/ Contents[archive[target]] = "expands" /\ f = Len(Binaries) /\ UNCHANGED failures
             \/ AStepFails
          /\ partial' = [partial EXCEPT ![f] = "none"] /\ CommandEnds("failed", {})
    /\ UNCHANGED <<manifest, url, archive, installed, everPinned, commands, releases>>

(* A rename over a file fails on Windows: the old copy goes first.           *)
RemovesOld ==
    /\ command.at = "remove"
    /\ \/ installed' = [installed EXCEPT ![command.file] = "none"] /\ CommandGoes("rename") /\ UNCHANGED failures
       \/ AStepFails /\ CommandEnds("failed", {}) /\ UNCHANGED installed
    /\ UNCHANGED <<manifest, url, archive, partial, everPinned, commands, releases>>

RenamesIntoPlace ==
    /\ command.at = "rename"
    /\ LET f == command.file IN
       \/ /\ installed' = [installed EXCEPT ![f] = partial[f]]
          /\ partial' = [partial EXCEPT ![f] = "none"]
          /\ command' = [command EXCEPT !.file = @ + 1, !.at = IF f = Len(Binaries) THEN "check" ELSE "copy"]
          /\ UNCHANGED <<ended, failures>>
       \/ AStepFails /\ CommandEnds("failed", {}) /\ UNCHANGED <<installed, partial>>
    /\ UNCHANGED <<manifest, url, archive, everPinned, commands, releases>>

(* What this machine can run is asked for its version, within a budget.      *)
first_line_of_version ==
    /\ command.at = "check"
    /\ \/ CommandEnds("ok", {target}) /\ UNCHANGED failures
       \/ target = Host /\ AStepFails /\ CommandEnds("failed", {})
    /\ UNCHANGED <<manifest, url, archive, installed, partial, everPinned, commands, releases>>

(* Ctrl+C: what was being written is left as it is.                          *)
Killed ==
    /\ command # NothingRuns /\ AStepFails /\ CommandEnds("killed", {})
    /\ archive' = IF command.at = "download" THEN [archive EXCEPT ![target] = "cut"] ELSE archive
    /\ manifest' = IF command.at = "write" THEN TornManifest ELSE manifest
    /\ partial' = IF command.at = "copy" THEN [partial EXCEPT ![command.file] = "cut"] ELSE partial
    /\ UNCHANGED <<url, installed, everPinned, commands, releases>>

SidecarNext ==
    \/ \E t \in Targets : Release(t) \/ fetch(t)
    \/ record_pins \/ Refuses \/ download \/ RecordsHash \/ RecordWrites
    \/ verify_sha256 \/ write_entry_to_disk \/ RemovesOld \/ RenamesIntoPlace
    \/ first_line_of_version \/ Killed

(***************************************************************************)
(* Properties                                                                *)
(***************************************************************************)
(* What is in binaries/ is whole and came out of an archive that somebody    *)
(* had pinned, whatever was served, cut short or killed on the way.          *)
BinariesWerePinned ==
    \A f \in Allowed : installed[f] # "none" => installed[f] \in everPinned \cap Versions

(* A command that says it is done has done all of it: a fetch leaves every   *)
(* binary of its pin, none of an earlier one; a record leaves each pin as    *)
(* the hash of an archive the next fetch can extract from.                   *)
DoneMeansDone ==
    ended.how = "ok" /\ ~torn =>
        /\ ended.kind = "fetch" =>
              \A t \in ended.targets, f \in Allowed : installed[f] = manifest[t]
        /\ ended.kind = "record" =>
              \A t \in ended.targets : manifest[t] = archive[t] /\ scan(manifest[t])

PinsAreKept == BinariesWerePinned /\ DoneMeansDone

-----------------------------------------------------------------------------
(* The acceptance harness.                                                   *)

CONSTANTS Options,   \* what the command line asked for
          Probes,    \* what an encoder probe may find: [Vendors -> States]
          MaxOdd

ASSUME AcceptanceAssumption == MaxOdd \in Nat

VARIABLES opts, pc, rows, have, probe, child, run, clip, report, exit, odd
acceptanceVars == <<opts, pc, rows, have, probe, child, run, clip, report, exit, odd>>

Row(id, outcome) == [id |-> id, outcome |-> outcome]
Check(id, bad) == Row(id, IF id \in bad THEN "Fail" ELSE "Pass")
NotPerformed(id) == Row(id, "NotPerformed")
hardware_path == opts.windows /\ ~opts.dev
HardwareCheck(id, bad) == IF hardware_path THEN Check(id, bad) ELSE NotPerformed(id)
Judged(id, ok) == Row(id, IF ok THEN "Pass" ELSE "Fail")

(* A step adds its rows, `bad` being what it found odd.                      *)
AddsRows(bad, new, next) ==
    /\ odd' = odd + Cardinality(bad) /\ odd' <= MaxOdd
    /\ rows' = rows \o new
    /\ pc' = next
record_step_error(bad, step, next) == AddsRows(bad, <<Row(step, "Fail")>>, next)

NoRun == [for |-> "none", said |-> {}, next |-> 1, code |-> "none"]

AcceptanceInit ==
    /\ opts \in Options /\ pc = "parse" /\ rows = <<>> /\ have = {}
    /\ probe = <<>> /\ child = "none" /\ run = NoRun /\ clip = "none"
    /\ report = "none" /\ exit = "none" /\ odd = 0

parse_options ==
    /\ pc = "parse"
    /\ IF opts.parses THEN pc' = "sandbox" /\ UNCHANGED exit
                      ELSE pc' = "done" /\ exit' = "refused"
    /\ UNCHANGED <<opts, rows, have, probe, child, run, clip, report, odd>>

(* What cannot be removed may hold the clip of an earlier run.               *)
reset_sandbox ==
    /\ pc = "sandbox"
    /\ \E bad \in SUBSET {"sandbox"} :
          /\ AddsRows(bad, <<Check("sandbox", bad)>>, "environment")
          /\ clip' \in (IF bad = {} THEN {"none"} ELSE {"none", "stale"})
    /\ UNCHANGED <<opts, have, probe, child, run, report, exit>>

environment ==
    /\ pc = "environment"
    /\ \E bad \in SUBSET {"toolchain", "ffmpeg"} :
          /\ AddsRows(bad, <<Check("toolchain", bad), Check("ffmpeg", bad)>>, "build")
          /\ have' = have \cup ({"ffmpeg"} \ bad)
    /\ UNCHANGED <<opts, probe, child, run, clip, report, exit>>

(* A build that fails is reported by itself and again as its step's error;   *)
(* with --no-build a binary that is there has no row.                        *)
build_cli ==
    /\ pc = "build"
    /\ \/ /\ opts.cli = "missing" /\ record_step_error({}, "build", "probe")
          /\ UNCHANGED have
       \/ /\ opts.cli = "given" /\ AddsRows({}, <<Row("build", "Pass")>>, "probe")
          /\ have' = have \cup {"cli"}
       \/ /\ opts.cli = "none" /\ opts.noBuild
          /\ \/ AddsRows({}, <<>>, "probe") /\ have' = have \cup {"cli"}
             \/ record_step_error({"target"}, "build", "probe") /\ UNCHANGED have
       \/ /\ opts.cli = "none" /\ ~opts.noBuild
          /\ \/ AddsRows({}, <<Row("build", "Pass")>>, "probe") /\ have' = have \cup {"cli"}
             \/ record_step_error({"cargo"}, "build", "probe") /\ UNCHANGED have
             \/ /\ AddsRows({"build"}, <<Row("build", "Fail"), Row("build", "Fail")>>, "probe")
                /\ UNCHANGED have
    /\ UNCHANGED <<opts, probe, child, run, clip, report, exit>>

(* Which vendor the last step forces: one advertised but failing before one  *)
(* the build does not carry; none when all of them work.                     *)
unusable_h264_vendor(p) ==
    LET of(state) == {v \in DOMAIN p : p[v] = state}
    IN  IF of("Fails") # {} THEN of("Fails") ELSE of("NotAdvertised")

probe_encoders ==
    /\ pc = "probe"
    /\ \/ /\ "ffmpeg" \notin have /\ record_step_error({}, "encoder_probe", "buffer")
          /\ UNCHANGED probe
       \/ /\ "ffmpeg" \in have /\ record_step_error({"ffmpeg"}, "encoder_probe", "buffer")
          /\ UNCHANGED probe
       \/ /\ "ffmpeg" \in have /\ probe' \in Probes
          /\ AddsRows({}, <<IF hardware_path
                          THEN Judged("encoder_probe", \E v \in DOMAIN probe' : probe'[v] = "Works")
                          ELSE NotPerformed("encoder_probe")>>, "buffer")
    /\ UNCHANGED <<opts, have, child, run, clip, report, exit>>

(***************************************************************************)
(* Running the CLI: the lines it logs, in order, and how it ends.  Odd: a    *)
(* line it leaves out, a forced vendor that runs after all.                  *)
(***************************************************************************)
Lines == [buffer     |-> <<"buffering", "geometry", "wgc", "status", "wasapi",
                           "trigger", "drift", "wrote">>,
          criterion7 |-> <<"named", "reason">>]

run_cli(what, step, after) ==
    \/ /\ "cli" \notin have /\ record_step_error({}, step, after) /\ UNCHANGED <<child, run>>
    \/ /\ "cli" \in have /\ record_step_error({"spawn"}, step, after) /\ UNCHANGED <<child, run>>
    \/ /\ "cli" \in have /\ AddsRows({}, <<>>, "running")
       /\ child' = "up" /\ run' = [NoRun EXCEPT !.for = what]

buffer_run ==
    /\ pc = "buffer" /\ run_cli("buffer", "buffer_run", "clip")
    /\ UNCHANGED <<opts, have, probe, clip, report, exit>>

CliLogs ==
    /\ child = "up" /\ run.next <= Len(Lines[run.for])
    /\ LET line == Lines[run.for][run.next] IN
       \/ /\ run' = [run EXCEPT !.next = @ + 1, !.said = @ \cup {line}]
          /\ clip' = (IF line = "wrote" THEN "mine" ELSE clip)
          /\ UNCHANGED odd
       \/ /\ odd < MaxOdd /\ odd' = odd + 1
          /\ run' = [run EXCEPT !.next = @ + 1] /\ UNCHANGED clip
    /\ UNCHANGED <<opts, pc, rows, have, probe, child, report, exit>>

CliEnds ==
    /\ child = "up" /\ child' = "over"
    /\ \/ run' = [run EXCEPT !.code = "error"] /\ UNCHANGED odd
       \/ /\ run.next > Len(Lines[run.for]) /\ run' = [run EXCEPT !.code = "zero"]
          /\ odd' = odd + (IF run.for = "criterion7" THEN 1 ELSE 0) /\ odd' <= MaxOdd
    /\ UNCHANGED <<opts, pc, rows, have, probe, clip, report, exit>>

(* The end is noticed, or the budget is over first and the child is killed   *)
(* and waited for; a wait that fails kills it and fails the step.            *)
Watch ==
    /\ pc = "running"
    /\ \/ child \in {"over", "up"} /\ child' = "gone"
          /\ pc' = (IF run.for = "buffer" THEN "process" ELSE "refusal")
          /\ UNCHANGED <<rows, odd>>
       \/ /\ child' = "killed"
          /\ IF run.for = "buffer"
               THEN record_step_error({"wait"}, "buffer_run", "clip")
               ELSE record_step_error({"wait"}, "criterion7_startup_failure", "report")
    /\ UNCHANGED <<opts, have, probe, run, clip, report, exit>>

(***************************************************************************)
(* Judging the run of the buffer.                                            *)
(***************************************************************************)
ProcessRows ==
    /\ pc = "process"
    /\ AddsRows({}, <<Judged("run_exit", run.code = "zero"),
                  Judged("startup", "buffering" \in run.said),
                  IF hardware_path THEN Judged("capture_started", {"geometry", "wgc"} \subseteq run.said)
                                   ELSE NotPerformed("capture_started")>>,
            IF "status" \in run.said THEN "status" ELSE "no_status")
    /\ UNCHANGED <<opts, have, probe, child, run, clip, report, exit>>

NoStatusRows ==
    /\ pc = "no_status"
    /\ AddsRows({}, <<Row("frames_flowing", "Fail"), NotPerformed("media_vs_real_time")>>, "cost")
    /\ UNCHANGED <<opts, have, probe, child, run, clip, report, exit>>

(* What the last status line says of the frames, then of their rate, then of *)
(* media time, which is judged by nothing unless enough lines are stamped.   *)
FrameRows(bad) == <<Check("frames_flowing", bad)>>
RateRows(bad) ==
    <<HardwareCheck("frame_rate", bad), HardwareCheck("configured_rate_reached", bad),
      HardwareCheck("dropped", bad), HardwareCheck("skipped_readback_skip", bad)>>
MediaTimeRow(bad) ==
    IF "stamps" \in bad THEN <<NotPerformed("media_vs_real_time")>>
                        ELSE <<HardwareCheck("media_vs_real_time", bad)>>
StatusRows ==
    /\ pc = "status"
    /\ \E bad \in SUBSET {"frames_flowing", "frame_rate", "configured_rate_reached", "dropped",
                          "skipped_readback_skip", "media_vs_real_time", "stamps"} :
          AddsRows(bad, FrameRows(bad) \o RateRows(bad) \o MediaTimeRow(bad), "ring")
    /\ UNCHANGED <<opts, have, probe, child, run, clip, report, exit>>

(* A ring that never reached its cap proves nothing about eviction.          *)
RingRows ==
    /\ pc = "ring"
    /\ \E bad \in SUBSET {"ram_cap", "eviction"}, filled \in BOOLEAN :
          AddsRows(bad, <<Check("ram_cap", bad),
                      IF filled \/ "eviction" \in bad THEN Check("eviction", bad)
                                                      ELSE NotPerformed("eviction")>>, "endpoint")
    /\ UNCHANGED <<opts, have, probe, child, run, clip, report, exit>>

EndpointRows ==
    /\ pc = "endpoint"
    /\ \E special \in BOOLEAN :   \* a converting endpoint that stayed silent
          LET wasapi == IF "wasapi" \in run.said
                          THEN IF special THEN Row("wasapi_autoconversion", "Pass")
                                          ELSE NotPerformed("wasapi_autoconversion")
                          ELSE IF hardware_path THEN Row("wasapi_autoconversion", "Fail")
                                                ELSE NotPerformed("wasapi_autoconversion")
          IN  AddsRows({}, <<wasapi, IF special THEN Row("silence_detector", "Pass")
                                            ELSE NotPerformed("silence_detector")>>, "cost")
    /\ UNCHANGED <<opts, have, probe, child, run, clip, report, exit>>

cpu_and_rss ==
    /\ pc = "cost"
    /\ \E bad \in SUBSET {"cpu", "rss", "samples"} :
          AddsRows(bad, IF "samples" \in bad
                          THEN <<NotPerformed("cpu"), NotPerformed("rss")>>
                          ELSE <<HardwareCheck("cpu", bad), HardwareCheck("rss", bad)>>, "clip")
    /\ have' = have \cup {"run"}
    /\ UNCHANGED <<opts, probe, child, run, clip, report, exit>>

(***************************************************************************)
(* Judging the clip.                                                         *)
(***************************************************************************)
(* A clip may be on disk although its line never came.                       *)
newest_clip == {clip} \cup (IF "trigger" \in run.said THEN {"mine"} ELSE {})

clip_checks ==
    /\ pc = "clip"
    /\ have' = (IF "ffmpeg" \in have THEN have \ {"run"} ELSE have)
    /\ \/ /\ ~({"ffmpeg", "run"} \subseteq have)
          /\ record_step_error({}, "clip_probe", "criterion7") /\ UNCHANGED clip
       \/ /\ {"ffmpeg", "run"} \subseteq have
          /\ record_step_error({"clips_dir"}, "clip_probe", "criterion7") /\ UNCHANGED clip
       \/ /\ {"ffmpeg", "run"} \subseteq have /\ clip' \in newest_clip
          /\ \/ clip' = "none" /\ AddsRows({}, <<Row("clip_written", "Fail")>>, "criterion7")
             \/ /\ clip' # "none" /\ ~({"trigger", "wrote"} \subseteq run.said)
                /\ AddsRows({}, <<Row("clip_written", "Fail")>>, "clip_media")
             \/ /\ clip' # "none" /\ {"trigger", "wrote"} \subseteq run.said
                /\ \E bad \in SUBSET {"clip_trigger_to_write", "stamps"} :
                      AddsRows(bad, <<Row("clip_written", "Pass"),
                                  IF "stamps" \in bad THEN NotPerformed("clip_trigger_to_write")
                                        ELSE Check("clip_trigger_to_write", bad)>>, "clip_media")
    /\ UNCHANGED <<opts, probe, child, run, report, exit>>

ClipMediaRows ==
    /\ pc = "clip_media"
    /\ \/ record_step_error({"ffprobe"}, "clip_probe", "criterion7")
       \/ \E bad \in SUBSET {"clip_duration", "clip_streams"} :
             AddsRows(bad, <<Check("clip_duration", bad), Check("clip_streams", bad)>>, "clip_codec")
    /\ UNCHANGED <<opts, have, probe, child, run, clip, report, exit>>

ClipCodecRows ==
    /\ pc = "clip_codec"
    /\ \/ "wrote" \notin run.said /\ AddsRows({}, <<NotPerformed("clip_stream_copy")>>, "clip_content")
       \/ /\ "wrote" \in run.said
          /\ \E bad \in SUBSET {"clip_stream_copy", "clip_hardware_encoder", "slow"} :
                AddsRows(bad, <<IF "slow" \in bad /\ "clip_stream_copy" \notin bad
                                  THEN NotPerformed("clip_stream_copy")
                                  ELSE Check("clip_stream_copy", bad),
                                HardwareCheck("clip_hardware_encoder", bad)>>, "clip_content")
    /\ UNCHANGED <<opts, have, probe, child, run, clip, report, exit>>

ClipContentRows ==
    /\ pc = "clip_content"
    /\ \E bad \in SUBSET {"clip_av_drift", "clip_audio_not_silent", "clip_not_black", "unreadable"} :
          AddsRows(bad, <<IF "drift" \in run.said THEN Check("clip_av_drift", bad)
                                              ELSE NotPerformed("clip_av_drift"),
                      IF "unreadable" \in bad THEN NotPerformed("clip_audio_not_silent")
                                               ELSE HardwareCheck("clip_audio_not_silent", bad),
                      IF "unreadable" \in bad THEN NotPerformed("clip_not_black")
                                               ELSE Check("clip_not_black", bad)>>, "criterion7")
    /\ UNCHANGED <<opts, have, probe, child, run, clip, report, exit>>

(***************************************************************************)
(* A vendor that must be refused, and the report.                            *)
(***************************************************************************)
criterion_seven ==
    /\ pc = "criterion7"
    /\ \/ /\ probe = <<>> /\ record_step_error({}, "criterion7_startup_failure", "report")
          /\ UNCHANGED <<child, run>>
       \/ /\ probe # <<>> /\ unusable_h264_vendor(probe) = {}
          /\ AddsRows({}, <<NotPerformed("criterion7_startup_failure")>>, "report")
          /\ UNCHANGED <<child, run>>
       \/ /\ probe # <<>> /\ unusable_h264_vendor(probe) # {}
          /\ run_cli("criterion7", "criterion7_startup_failure", "report")
    /\ UNCHANGED <<opts, have, probe, clip, report, exit>>

RefusalRow ==
    /\ pc = "refusal"
    /\ \E bad \in SUBSET {"captured"} :
          AddsRows(bad, <<Judged("criterion7_startup_failure",
                             run.code = "error" /\ {"named", "reason"} \subseteq run.said
                             /\ bad = {})>>, "report")
    /\ UNCHANGED <<opts, have, probe, child, run, clip, report, exit>>

Tally == [o \in {"Pass", "Fail", "NotPerformed"} |->
             Cardinality({i \in DOMAIN rows : rows[i].outcome = o})]
run_failed == Tally["Fail"] > 0 \/ (opts.strict /\ Tally["NotPerformed"] > 0)

(* --clean-work removes the work directory, and a report that is inside it.  *)
write_report ==
    /\ pc = "report" /\ pc' = "done"
    /\ \/ /\ odd < MaxOdd /\ odd' = odd + 1 /\ exit' = "error" /\ UNCHANGED report
       \/ /\ exit' = (IF run_failed THEN "failed" ELSE "ok")
          /\ report' = (IF opts.clean /\ opts.inside THEN "removed" ELSE "written")
          /\ UNCHANGED odd
    /\ UNCHANGED <<opts, rows, have, probe, child, run, clip>>

AcceptanceNext ==
    \/ parse_options \/ reset_sandbox \/ environment \/ build_cli \/ probe_encoders
    \/ buffer_run \/ CliLogs \/ CliEnds \/ Watch
    \/ ProcessRows \/ NoStatusRows \/ StatusRows \/ RingRows \/ EndpointRows \/ cpu_and_rss
    \/ clip_checks \/ ClipMediaRows \/ ClipCodecRows \/ ClipContentRows
    \/ criterion_seven \/ RefusalRow \/ write_report

(***************************************************************************)
(* Properties                                                                *)
(***************************************************************************)
AllChecks ==
    {"sandbox", "toolchain", "ffmpeg", "build", "encoder_probe", "run_exit", "startup",
     "capture_started", "frames_flowing", "frame_rate", "configured_rate_reached", "dropped",
     "skipped_readback_skip", "media_vs_real_time", "ram_cap", "eviction", "wasapi_autoconversion",
     "silence_detector", "cpu", "rss", "clip_written", "clip_trigger_to_write", "clip_duration",
     "clip_streams", "clip_stream_copy", "clip_hardware_encoder", "clip_av_drift",
     "clip_audio_not_silent", "clip_not_black", "criterion7_startup_failure"}
Unreported == IF opts.noBuild /\ opts.cli = "none" THEN {"build"} ELSE {}

(* The verdict is earned: a run that exits with zero has exactly one row for *)
(* every check, none of them failed, whatever step was cut short on the way; *)
(* with --strict all of them passed; and the clip it judged is its own, not  *)
(* one an earlier run left.                                                  *)
VerdictIsEarned ==
    exit = "ok" =>
        /\ \A id \in AllChecks \ Unreported : Cardinality({i \in DOMAIN rows : rows[i].id = id}) = 1
        /\ \A i \in DOMAIN rows : rows[i].id \in AllChecks /\ rows[i].outcome # "Fail"
        /\ opts.strict => \A i \in DOMAIN rows : rows[i].outcome = "Pass"
        /\ clip = "mine"

(* The report a run names is there, and no run leaves its child: but for a   *)
(* report put in the directory that --clean-work removes.                    *)
ReportStands ==
    pc = "done" => /\ child # "up"
                   /\ exit \in {"ok", "failed"} => report = "written" \/ (opts.clean /\ opts.inside)

AcceptanceIsEarned == VerdictIsEarned /\ ReportStands
=============================================================================
