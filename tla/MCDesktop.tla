----------------------------- MODULE MCDesktop -----------------------------
(***************************************************************************)
(* What the program keeps from run to run and the shell around it, one     *)
(* part at a time: the library's clips, the schema of its index and the    *)
(* matches of a session; config.toml with two commands in flight; the data *)
(* directory of the old name; two launches of the shell, one of which      *)
(* stays; two threads that start and stop recordings while a game's        *)
(* configuration is installed; and the two tools beside it, which pin what *)
(* it ships and accept it.                                                 *)
(***************************************************************************)
EXTENDS ClipLibrary, LibrarySchema, MatchSplit, Settings, DesktopLaunch,
        RecorderHost, Xtask
VARIABLE part

With(k, value) == [Example EXCEPT !.v[k] = value]
Files ==
    {[Example EXCEPT !.exists = FALSE], [Example EXCEPT !.layout = Unstamped],
     [Example EXCEPT !.layout = Newer], [Example EXCEPT !.layout = Malformed],
     [Example EXCEPT !.inlined = TRUE], With("fps", "odd"), With("fps", "mistyped"),
     With("clips_dir", "absent"), With("output_size", "refused"), With("zero_copy", "a"),
     With("watch", "inline"), With("gsi_port", "refused"), Example}
PanelEdits ==
    {[clips_dir |-> "a", fps |-> "b"], [clips_dir |-> "nowhere"], [mic |-> "a"],
     [output_size |-> "a"], [fps |-> "odd"]}
EncoderPanelEdits ==
    {[fps |-> "a", output_size |-> "example", zero_copy |-> "a"],
     [fps |-> "b", output_size |-> "a", zero_copy |-> "absent"],
     [fps |-> "b", output_size |-> "a", zero_copy |-> "a"]}
Typed == {<<"fps", "odd">>, <<"output_size", "refused">>, <<"clips_dir", "nowhere">>}

(* The tables of v1, then the columns of each later step.                   *)
PiecesAdded == <<2, 2, 1, 1, 2>>

ArchiveContents == [old |-> "whole", new |-> "whole", bad |-> "unsafe", bare |-> "lacks",
                    big |-> "expands"]
FfmpegAndFfprobe == <<"ffmpeg", "ffprobe">>
CommandLines ==
    LET cl == [parses |-> TRUE, windows |-> TRUE, dev |-> FALSE, cli |-> "none", noBuild |-> FALSE,
               strict |-> FALSE, clean |-> FALSE, inside |-> FALSE]
    IN  {cl, [cl EXCEPT !.parses = FALSE], [cl EXCEPT !.strict = TRUE],
         [cl EXCEPT !.windows = FALSE, !.noBuild = TRUE], [cl EXCEPT !.dev = TRUE, !.cli = "given"],
         [cl EXCEPT !.cli = "missing"], [cl EXCEPT !.clean = TRUE, !.inside = TRUE, !.strict = TRUE]}
ProbesFound == {[nvenc |-> "Works", amf |-> "Works"], [nvenc |-> "Works", amf |-> "Fails"],
                [nvenc |-> "NotAdvertised", amf |-> "Fails"]}

Parts == {"clips", "schema", "matches", "settings", "legacy", "launch", "host",
          "pins", "acceptance"}
desktopVars == <<settingsVars, legacyVars, launchVars, hostVars>>
indexVars == <<libraryVars, schemaVars, matchVars>>
toolVars == <<sidecarVars, acceptanceVars>>

MCInit ==
    /\ part \in Parts
    /\ LibraryInit /\ MatchInit
    /\ SchemaInit /\ (part # "schema" => version = 0 /\ has = {})
    /\ SettingsInit /\ (part # "settings" => file = Example)
    /\ LegacyInit /\ (part # "legacy" => legacy = {} /\ \A e \in Entries : data[e] = "none")
    /\ LaunchInit /\ (part # "launch" => entry = "none" /\ ~enabled /\ ~sharedLog.full /\ chord = "free")
    /\ HostInit /\ (part # "host" => ~ephemeral /\ ~badPolicy)
    /\ SidecarInit /\ \A t \in (IF part = "pins" THEN {"linux"} ELSE Targets) : url[t] = "old" /\ manifest[t] = "old"
    /\ AcceptanceInit /\ (part # "acceptance" => ~opts.parses)

TheIndex ==
    \/ part = "clips" /\ LibraryNext /\ UNCHANGED <<schemaVars, matchVars>>
    \/ part = "schema" /\ SchemaNext /\ UNCHANGED <<libraryVars, matchVars>>
    \/ part = "matches" /\ MatchNext /\ UNCHANGED <<libraryVars, schemaVars>>
Desktop ==
    \/ /\ part = "settings" /\ SettingsNext
       /\ UNCHANGED <<legacyVars, launchVars, hostVars>>
    \/ /\ part = "legacy" /\ LegacyNext
       /\ UNCHANGED <<settingsVars, launchVars, hostVars>>
    \/ /\ part = "launch" /\ LaunchNext
       /\ UNCHANGED <<settingsVars, legacyVars, hostVars>>
    \/ /\ part = "host" /\ HostNext
       /\ UNCHANGED <<settingsVars, legacyVars, launchVars>>
Tools ==
    \/ part = "pins" /\ SidecarNext /\ UNCHANGED acceptanceVars
    \/ part = "acceptance" /\ AcceptanceNext /\ UNCHANGED sidecarVars
MCNext ==
    /\ \/ TheIndex /\ UNCHANGED <<desktopVars, toolVars>>
       \/ Desktop /\ UNCHANGED <<indexVars, toolVars>>
       \/ Tools /\ UNCHANGED <<indexVars, desktopVars>>
    /\ UNCHANGED part
MCSpec == MCInit /\ [][MCNext]_<<indexVars, desktopVars, toolVars, part>>

(* A launch does what it says to what it finds: a library of an earlier     *)
(* version, the directory of the old name, the Run key's entry, another     *)
(* launch; and loses nothing there.                                         *)
LaunchesAreAsTold == VersionTellsTheTruth /\ NothingOldIsLost /\ LaunchesAreOne

(* What the tools say is done is done: binaries are those that were pinned,  *)
(* and a verdict covers every check.                                         *)
ToolsTellTheTruth == PinsAreKept /\ AcceptanceIsEarned
=============================================================================
