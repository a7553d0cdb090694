----------------------------- MODULE Settings ------------------------------
(***************************************************************************)
(* config.toml of the desktop shell: what its readers make of it           *)
(* (crates/recorder/src/config_schema.rs, config.rs, and src-tauri's       *)
(* config.rs), and its writers, the settings panel and the encoder panel   *)
(* (commands/settings.rs, commands/encoder.rs), while its user edits it by *)
(* hand and the program may end between any two steps of a write.          *)
(*                                                                         *)
(* A key is what tells the readers apart: "absent", "example" (the value   *)
(* the compiled-in example has), "a" and "b" (values a panel writes),      *)
(* "nowhere" (a directory that cannot be made),                            *)
(* "odd" (the engine takes it, no panel would write it), "refused" (of the *)
(* right type, and the engine's own parser refuses it), "mistyped", and    *)
(* for the watch list "inline" (an array instead of [[games.watch]]).      *)
(***************************************************************************)
EXTENDS Integers, Functions

CONSTANTS
    Calls,            \* commands that may be in flight at once
    InitialFiles,     \* what the user may find or have written
    SettingsEdits,    \* what the settings panel may send
    EncoderEdits,     \* what the encoder panel may send
    HandEdits,        \* what the user may type: <<key, value>>
    MaxApplies, MaxHand  \* bounds: commands sent, and saves by hand

VARIABLES
    file,       \* config.toml
    writeLock,       \* WRITE_LOCK: the command that holds it
    call,       \* the commands
    dirs,       \* clips directories that have been made
    shell,      \* the running shell's clips directory
    written,    \* what a panel last put into each key, or ByHand (history)
    stale,      \* the file was saved by hand since its text was read (history)
    applies, hands

settingsVars == <<file, writeLock, call, dirs, shell, written, stale, applies, hands>>

EncodeKeys == {"fps", "output_size", "zero_copy"}
SettingsKeys == {"clips_dir", "fps", "output_size", "mic"}
Keys == SettingsKeys \cup EncodeKeys \cup {"watch", "gsi_port"}

NoOne == "nobody"
ByHand == "user"

TornText == -2
Malformed == -1
Unstamped == 0
CURRENT == 1
Newer == 2

----------------------------------------------------------------------------
(* The text and its layout.                                                 *)

\* The compiled-in example, with every key but the ones it leaves to the engine.
Example == [exists |-> TRUE, layout |-> CURRENT, inlined |-> FALSE,
            v |-> [k \in Keys |-> IF k = "zero_copy" THEN "absent" ELSE "example"]]

text_or_example(f) == IF f.exists THEN f ELSE Example

\* declared_version: absent is the first; a newer one, one that is no positive
\* number and text that is no TOML are refused.
schema_check(text) == text.layout \in {Unstamped, CURRENT}

migrate_to_current(text) == [text EXCEPT !.layout = CURRENT]

\* What a file may hold, and what a panel and the user may send; the encoder panel
\* sends its three keys at once (commands/encoder.rs).
Values == {"absent", "example", "a", "b", "nowhere", "odd", "refused", "mistyped", "inline"}
Texts == [exists : BOOLEAN, layout : Int, inlined : BOOLEAN, v : [Keys -> Values]]

ASSUME SettingsAssumption ==
    /\ NoOne \notin Calls /\ {MaxApplies, MaxHand} \subseteq Nat
    /\ InitialFiles \subseteq Texts /\ HandEdits \subseteq Keys \X Values
    /\ \A edits \in SettingsEdits : DOMAIN edits \subseteq SettingsKeys /\ \A k \in DOMAIN edits : edits[k] \in Values
    /\ \A edits \in EncoderEdits : DOMAIN edits = EncodeKeys /\ \A k \in DOMAIN edits : edits[k] \in Values

----------------------------------------------------------------------------
(* What a start reads.                                                      *)

storage_loads(f) == LET text == text_or_example(f)
                    IN  schema_check(text) /\ text.v["clips_dir"] # "mistyped"

\* RecordingConfig: the keys serde requires, of the types they have.
recording_loads(f) ==
    LET v == text_or_example(f).v
    IN  /\ storage_loads(f) /\ v["clips_dir"] # "absent"
        /\ {v["fps"], v["output_size"]} \cap {"absent", "mistyped"} = {}
        /\ v["zero_copy"] # "mistyped"

\* EngineOptionsConfig, with validate_gsi_port.
engine_options_load(f) ==
    LET text == text_or_example(f)
    IN  /\ schema_check(text)
        /\ text.v["mic"] # "mistyped" /\ text.v["watch"] # "mistyped"
        /\ text.v["gsi_port"] \notin {"refused", "mistyped"}

sized(v) == v["output_size"] \in {"a", "b"}

\* A recording starts: the sections load, the size parses, and no texture path
\* is asked to scale.
StartWorks(f) ==
    LET v == text_or_example(f).v
    IN  /\ recording_loads(f) /\ engine_options_load(f)
        /\ v["output_size"] # "refused"
        /\ ~(v["zero_copy"] = "a" /\ sized(v))

\* The clips directory a launch uses: the example's when the section cannot be
\* read (StorageConfig::load_or_example).
load_or_example(f) ==
    LET dir == text_or_example(f).v["clips_dir"]
    IN  IF storage_loads(f) /\ dir # "absent" THEN dir ELSE "example"

\* A directory nothing can be created in.
CannotMake(dir) == dir = "nowhere"

\* One that cannot be made is replaced by the default, with a warning (open_state).
opened(f) == LET dir == load_or_example(f) IN IF CannotMake(dir) THEN "example" ELSE dir

----------------------------------------------------------------------------
(* What the panels read.                                                    *)

typed(text, keys) == \A k \in keys : text.v[k] # "mistyped"
validate_output_size(size) == size # "refused"
\* The watch list has to be tables here; the engine takes an inline array too.
read_watch_titles(text) == text.v["watch"] \notin {"mistyped", "inline"}

\* A key the file leaves out shows the example's value; a mistyped one is an
\* error.
read_effective_settings(f) ==
    LET text == text_or_example(f)
    IN  /\ schema_check(text) /\ typed(text, SettingsKeys)
        /\ validate_output_size(text.v["output_size"])
        /\ read_watch_titles(text)

\* The encoder panel's reader walks the document without the schema's check.
read_encoder_settings(f) ==
    LET text == text_or_example(f)
    IN  /\ text.layout # TornText /\ typed(text, EncodeKeys)
        /\ validate_output_size(text.v["output_size"])

panel_reads(kind, f) ==
    IF kind = "encoder" THEN read_encoder_settings(f) ELSE read_effective_settings(f)

----------------------------------------------------------------------------
(* Applying edits.                                                          *)

NoCommand == [at |-> "idle", kind |-> "none", edits |-> <<>>, doc |-> Example]

SettingsInit ==
    /\ file \in InitialFiles
    /\ writeLock = NoOne /\ call = [c \in Calls |-> NoCommand]
    /\ shell = opened(file) /\ dirs = {shell}
    /\ written = [k \in Keys |-> ByHand] /\ stale = FALSE
    /\ applies = 0 /\ hands = 0

\* The panel's own policy on one key.
validate_edit(k, value) ==
    /\ k = "fps" => value # "odd"
    /\ k = "output_size" => validate_output_size(value)

\* What the encoder panel refuses before it takes the lock.
validate(edits) ==
    /\ \A k \in DOMAIN edits : validate_edit(k, edits[k])
    /\ ~(edits["zero_copy"] = "a" /\ sized(edits))

Sends(c, kind, edits, at) ==
    /\ call[c].at = "idle" /\ applies < MaxApplies
    /\ applies' = applies + 1
    /\ call' = [call EXCEPT ![c] = [at |-> at, kind |-> kind, edits |-> edits, doc |-> Example]]
    /\ UNCHANGED <<file, writeLock, dirs, shell, written, stale, hands>>

update_settings(c) ==
    \E edits \in SettingsEdits :
       Sends(c, "settings", edits, IF "clips_dir" \in DOMAIN edits THEN "prepare" ELSE "lock")

update_encoder_settings(c) ==
    \E edits \in EncoderEdits : validate(edits) /\ Sends(c, "encoder", edits, "lock")

CallGoes(c, at) == call' = [call EXCEPT ![c].at = at]
CallEnds(c) == call' = [call EXCEPT ![c] = NoCommand]

\* The directory comes first: one that cannot be made never reaches the file.
prepare_clips_dir(c) ==
    /\ call[c].at = "prepare"
    /\ LET dir == call[c].edits["clips_dir"]
       IN  IF CannotMake(dir)
           THEN CallEnds(c) /\ UNCHANGED dirs
           ELSE CallGoes(c, "lock") /\ dirs' = dirs \cup {dir}
    /\ UNCHANGED <<file, writeLock, shell, written, stale, applies, hands>>

\* Mutant of settings_write_lock: nobody waits for it.
settings_write_lock_free(c) ==
    /\ call[c].at = "lock"
    /\ CallGoes(c, "read") /\ writeLock' = c
    /\ UNCHANGED <<file, dirs, shell, written, stale, applies, hands>>

\* The settings panel reads the values of before under the lock; one it cannot
\* read ends the command.
settings_write_lock(c) ==
    /\ call[c].at = "lock" /\ writeLock = NoOne
    /\ IF call[c].kind = "settings" /\ ~read_effective_settings(file)
       THEN CallEnds(c) /\ UNCHANGED writeLock
       ELSE CallGoes(c, "read") /\ writeLock' = c
    /\ UNCHANGED <<file, dirs, shell, written, stale, applies, hands>>

edited(text, edits) ==
    [migrate_to_current(text) EXCEPT
        !.v = [k \in Keys |-> IF k \in DOMAIN edits THEN edits[k] ELSE text.v[k]]]

\* An edit of a section that is no [table] is refused.
writable(text, edits) == ~(text.inlined /\ DOMAIN edits \cap EncodeKeys # {})

Refuse(c) == CallEnds(c) /\ writeLock' = NoOne

\* write_settings_locked: every edit is checked before anything is read, and the
\* whole document is made before anything is written.
BuildDocument(c) ==
    /\ call[c].at = "read"
    /\ LET text == text_or_example(file)
           edits == call[c].edits
       IN  IF /\ \A k \in DOMAIN edits : validate_edit(k, edits[k])
              /\ schema_check(text) /\ writable(text, edits)
           THEN /\ call' = [call EXCEPT ![c].at = "write", ![c].doc = edited(text, edits)]
                /\ stale' = FALSE /\ UNCHANGED writeLock
           ELSE Refuse(c) /\ UNCHANGED stale
    /\ UNCHANGED <<file, dirs, shell, written, applies, hands>>

\* Mutant of CreateTemporary: the file itself is opened for writing.
CreateTemporaryInPlace(c) ==
    /\ call[c].at = "write"
    /\ CallGoes(c, "rename")
    /\ file' = [file EXCEPT !.exists = TRUE, !.layout = TornText]
    /\ UNCHANGED <<writeLock, dirs, shell, written, stale, applies, hands>>

\* The text goes to a file of this write's own, and is flushed.
CreateTemporary(c) ==
    /\ call[c].at = "write"
    /\ CallGoes(c, "rename")
    /\ UNCHANGED <<file, writeLock, dirs, shell, written, stale, applies, hands>>

could_not_write(c) ==
    /\ call[c].at \in {"write", "rename"}
    /\ Refuse(c)
    /\ UNCHANGED <<file, dirs, shell, written, stale, applies, hands>>

Rename(c) ==
    /\ call[c].at = "rename"
    /\ file' = call[c].doc
    /\ written' = [k \in Keys |-> IF k \in DOMAIN call[c].edits THEN call[c].edits[k] ELSE written[k]]
    /\ CallGoes(c, "back")
    /\ UNCHANGED <<writeLock, dirs, shell, stale, applies, hands>>

\* The answer is what the file now says, read before the lock is given up.
ReadBack(c) ==
    /\ call[c].at = "back"
    /\ writeLock' = NoOne
    /\ IF panel_reads(call[c].kind, file) /\ "clips_dir" \in DOMAIN call[c].edits
       THEN CallGoes(c, "commit") ELSE CallEnds(c)
    /\ UNCHANGED <<file, dirs, shell, written, stale, applies, hands>>

\* The running shell moves to the directory, with the lock given up.
commit_clips_dir(c) ==
    /\ call[c].at = "commit"
    /\ shell' = call[c].edits["clips_dir"]
    /\ CallEnds(c)
    /\ UNCHANGED <<file, writeLock, dirs, written, stale, applies, hands>>

----------------------------------------------------------------------------
(* The user, and the program's end.                                         *)

\* A text editor takes no lock.
HandSave ==
    /\ hands < MaxHand
    /\ hands' = hands + 1 /\ stale' = TRUE
    /\ \E e \in HandEdits :
          /\ file' = [text_or_example(file) EXCEPT !.v[e[1]] = e[2]]
          /\ written' = [written EXCEPT ![e[1]] = ByHand]
    /\ UNCHANGED <<writeLock, call, dirs, shell, applies>>

\* The program ends, whatever it was doing, and is started again.
Relaunch ==
    /\ writeLock' = NoOne /\ call' = [c \in Calls |-> NoCommand]
    /\ shell' = opened(file) /\ dirs' = dirs \cup {opened(file)}
    /\ UNCHANGED <<file, written, stale, applies, hands>>

SettingsNext ==
    \/ HandSave \/ Relaunch
    \/ \E c \in Calls :
          \/ update_settings(c) \/ update_encoder_settings(c) \/ prepare_clips_dir(c)
          \/ settings_write_lock(c) \/ BuildDocument(c) \/ CreateTemporary(c)
          \/ could_not_write(c) \/ Rename(c) \/ ReadBack(c) \/ commit_clips_dir(c)

----------------------------------------------------------------------------
(* Properties.                                                              *)

\* A file a recording starts with is one both panels can show, so that they can
\* change it: no reader is stricter than a start.  An inline watch list is the
\* exception the code makes.
PanelsShowWhatStarts ==
    StartWorks(file) /\ text_or_example(file).v["watch"] # "inline" =>
        read_effective_settings(file) /\ read_encoder_settings(file)

\* What a panel was told is stored stays, through commands in flight, a failed
\* write and the program's end, until a later command or the user changes it;
\* and a clips directory a panel stored can be used by the next launch
\* (settings_write_lock, prepare_clips_dir).
EditsStay ==
    /\ \A k \in Keys : written[k] # ByHand => file.v[k] = written[k]
    /\ written["clips_dir"] # ByHand => written["clips_dir"] \in dirs

\* What a panel says of the file is so, when it is read and when it was written.
PanelsTellTheTruth == PanelsShowWhatStarts /\ EditsStay

\* A write changes the keys it was sent and stamps the layout, in one step and in
\* a file whose layout this build reads; it changes nothing else unless the user
\* saved the file while it ran (write_settings_locked).
PanelsKeepTheFile ==
    [][file' = file \/ hands' # hands \/
       \E c \in Calls :
          LET edits == call[c].edits
              text == text_or_example(file)
          IN  /\ call[c].at = "rename" /\ file'.layout = CURRENT
              /\ ~stale => /\ schema_check(text)
                           /\ \A k \in Keys \ DOMAIN edits : file'.v[k] = text.v[k]
      ]_settingsVars
=============================================================================
