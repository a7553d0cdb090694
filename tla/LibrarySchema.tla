--------------------------- MODULE LibrarySchema ----------------------------
(* Opening the database (store/src/lib.rs: migrate): every process that     *)
(* opens the library brings its schema up to this build's version, piece by *)
(* piece, the version stamped last.  Two processes may do it at once, each  *)
(* on a connection of its own, any call may fail, and either process may    *)
(* die between two.                                                         *)
(*                                                                          *)
(* SQLite, as the code uses it (no write-ahead log): the v1 tables are      *)
(* statements of their own; each later step is a deferred transaction,      *)
(* which holds a read lock from its first look at the tables and asks for   *)
(* the one write lock when it first writes.  A transaction that reads and   *)
(* finds the write lock taken is refused at once; a commit waits for those  *)
(* that read.                                                               *)
EXTENDS Integers, FiniteSets

CONSTANTS Openers, SCHEMA_VERSION, MaxDeaths,
          Pieces          \* how many tables or columns each step adds
ASSUME SchemaAssumption ==
    /\ SCHEMA_VERSION \in Nat \ {0} /\ MaxDeaths \in Nat
    /\ Pieces \in [1..SCHEMA_VERSION -> Nat \ {0}]

VARIABLES
    version,  \* PRAGMA user_version
    has,      \* the tables and columns that are there: <<step, piece>>
    backups,  \* the backups beside the file: [from, has]
    opener,   \* where each process is: what it read, the piece it is at
    deaths
schemaVars == <<version, has, backups, opener, deaths>>

Steps == 1..SCHEMA_VERSION
PiecesOf(k) == {<<k, i>> : i \in 1..Pieces[k]}
Closed == [at |-> "closed", read |-> 0, step |-> 1, piece |-> 1, looked |-> FALSE, adds |-> {}]

(* A database of an older build, of this one, of a newer one, or none; a    *)
(* hand-edited file may already have columns its version does not claim.    *)
SchemaInit ==
    /\ version \in 0..(SCHEMA_VERSION + 1)
    /\ LET claimed == UNION {PiecesOf(k) : k \in {j \in Steps : j <= version}}
           next == IF version + 1 \in Steps THEN PiecesOf(version + 1) ELSE {}
       IN  has \in {claimed \cup more : more \in SUBSET next}
    /\ backups = {} /\ opener = [p \in Openers |-> Closed] /\ deaths = 0

ReadsVersion(p) ==
    /\ opener[p].at = "closed"
    /\ opener' = [opener EXCEPT ![p] =
                     [Closed EXCEPT !.read = version,
                                    !.at = IF version > SCHEMA_VERSION THEN "refused"
                                           ELSE IF version = SCHEMA_VERSION THEN "open" ELSE "backup"]]
    /\ UNCHANGED <<version, has, backups, deaths>>

(* The old copy of that version goes, a database that has the clips table,  *)
(* the last of v1, is copied.  A copy that cannot be written ends it here.  *)
(* (The two newest copies are kept; one upgrade makes one.)                 *)
BacksUp(p, ok) ==
    LET populated == <<1, Pieces[1]>> \in has
    IN  /\ opener[p].at = "backup"
        /\ ~ok => populated
        /\ backups' = IF populated
                      THEN {b \in backups : b.from # opener[p].read}
                           \cup IF ok THEN {[from |-> opener[p].read, has |-> has]} ELSE {}
                      ELSE backups
        /\ opener' = [opener EXCEPT ![p] = IF ok THEN [@ EXCEPT !.at = "upgrade"]
                                           ELSE [Closed EXCEPT !.at = "failed"]]
        /\ UNCHANGED <<version, has, deaths>>

(* --- the locks ---------------------------------------------------------- *)
Writes(p) == opener[p].at = "writes"

(* Mutant of Reads: a look at the tables outside the transaction that       *)
(* writes holds nothing afterwards.                                         *)
ReadsOnceItWrites(p) == FALSE

Reads(p) == opener[p].at = "reads"
Unread(p) == \A q \in Openers \ {p} : ~Reads(q)
Unlocked(p) == \A q \in Openers \ {p} : ~Writes(q)

(* --- one piece after the other ------------------------------------------ *)
Upgrading(p) == opener[p].at \in {"upgrade", "reads", "writes"} /\ opener[p].step \in Steps
Piece(p) == <<opener[p].step, opener[p].piece>>
Left(p) == opener[p].piece <= Pieces[opener[p].step]

(* CREATE TABLE IF NOT EXISTS, committed at once.                           *)
Creates(p) ==
    /\ Upgrading(p) /\ opener[p].step = 1 /\ Left(p)
    /\ Piece(p) \notin has => Unlocked(p) /\ Unread(p)
    /\ has' = has \cup {Piece(p)}
    /\ opener' = [opener EXCEPT ![p].piece = @ + 1]
    /\ UNCHANGED <<version, backups, deaths>>

(* column_exists: the transaction reads from here on.                       *)
Looks(p) ==
    LET o == opener[p]
        at == IF Writes(p) THEN "writes" ELSE "reads"
    IN  /\ Upgrading(p) /\ o.step > 1 /\ Left(p) /\ ~o.looked
        /\ opener' = [opener EXCEPT ![p] = IF Piece(p) \in has
                                           THEN [o EXCEPT !.at = at, !.piece = o.piece + 1]
                                           ELSE [o EXCEPT !.at = at, !.looked = TRUE]]
        /\ UNCHANGED <<version, has, backups, deaths>>

(* ALTER TABLE ADD COLUMN, of a column that was not there at the look.      *)
Alters(p) ==
    LET o == opener[p]
    IN  /\ Upgrading(p) /\ o.looked
        /\ opener' = [opener EXCEPT ![p] =
                         IF Piece(p) \in has THEN [Closed EXCEPT !.at = "duplicate"]
                         ELSE IF ~Unlocked(p) THEN [Closed EXCEPT !.at = "failed"]
                         ELSE [o EXCEPT !.at = "writes", !.piece = o.piece + 1, !.looked = FALSE,
                                        !.adds = o.adds \cup {Piece(p)}]]
        /\ UNCHANGED <<version, has, backups, deaths>>

(* The last step also fills in the games of the clips, so it always writes. *)
FillsIn(p) ==
    /\ Upgrading(p) /\ opener[p].step = SCHEMA_VERSION /\ opener[p].step > 1 /\ ~Left(p) /\ Reads(p)
    /\ opener' = [opener EXCEPT ![p] = IF Unlocked(p) THEN [@ EXCEPT !.at = "writes"]
                                       ELSE [Closed EXCEPT !.at = "failed"]]
    /\ UNCHANGED <<version, has, backups, deaths>>

(* A step is done, and the next is the first the database has not had.      *)
Commits(p) ==
    LET o == opener[p]
        next == IF o.step = 1 /\ o.read > 1 THEN o.read + 1 ELSE o.step + 1
    IN  /\ Upgrading(p) /\ ~Left(p)
        /\ o.step = SCHEMA_VERSION /\ o.step > 1 => Writes(p)
        /\ Writes(p) => Unread(p)
        /\ has' = has \cup o.adds
        /\ opener' = [opener EXCEPT ![p] = [o EXCEPT !.at = "upgrade", !.step = next, !.piece = 1,
                                                      !.looked = FALSE, !.adds = {}]]
        /\ UNCHANGED <<version, backups, deaths>>

Stamps(p) ==
    /\ opener[p].at = "upgrade" /\ opener[p].step > SCHEMA_VERSION /\ Unlocked(p) /\ Unread(p)
    /\ version' = SCHEMA_VERSION /\ opener' = [opener EXCEPT ![p] = [Closed EXCEPT !.at = "open"]]
    /\ UNCHANGED <<has, backups, deaths>>

(* Any call may fail, of itself or because the lock it waited for did not   *)
(* come free in time; what its transaction had done is undone.              *)
GivesUp(p) ==
    /\ opener[p].at \in {"closed", "upgrade", "reads", "writes"}
    /\ opener' = [opener EXCEPT ![p] = [Closed EXCEPT !.at = "failed"]]
    /\ UNCHANGED <<version, has, backups, deaths>>

(* The process dies, and the library is opened again.                       *)
OpenerDies(p) ==
    /\ opener[p].at \in {"backup", "upgrade", "reads", "writes", "failed"} /\ deaths < MaxDeaths
    /\ opener' = [opener EXCEPT ![p] = Closed] /\ deaths' = deaths + 1
    /\ UNCHANGED <<version, has, backups>>

SchemaNext ==
    \E p \in Openers :
        \/ ReadsVersion(p) \/ Creates(p) \/ Looks(p) \/ Alters(p) \/ FillsIn(p) \/ Commits(p)
        \/ Stamps(p) \/ GivesUp(p) \/ OpenerDies(p)
        \/ \E ok \in BOOLEAN : BacksUp(p, ok)

(* The version never claims what the tables lack, wherever an upgrade       *)
(* failed or was cut off; a library that is open has every table and column *)
(* of this build, and one of a newer build is not touched.  An upgrade may  *)
(* be refused beside another one, but none dies on a column that another    *)
(* process, an earlier attempt or a hand edit added (lib.rs: migrate,       *)
(* add_session_columns).                                                    *)
VersionTellsTheTruth ==
    /\ \A k \in Steps : version >= k => PiecesOf(k) \subseteq has
    /\ \A p \in Openers : /\ opener[p].at = "open" => version = SCHEMA_VERSION
                          /\ opener[p].at = "refused" => version > SCHEMA_VERSION
                          /\ version > SCHEMA_VERSION => opener[p].at \in {"closed", "refused", "failed"}
                          /\ opener[p].at # "duplicate"

----------------------------------------------------------------------------
(***************************************************************************)
(* Adopting the data directory of the name before the rename               *)
(* (src-tauri/src/config.rs, migrate_legacy_data_dir): at a start, entry   *)
(* by entry, into a directory that may hold entries of its own.            *)
(***************************************************************************)

CONSTANTS
    Entries,        \* what the two directories may hold
    Index, Config,  \* the entries that say a directory has been used
    MaxLaunches     \* bound: starts

ASSUME LegacyAssumption == {Index, Config} \subseteq Entries /\ MaxLaunches \in Nat

VARIABLES
    legacy,    \* the entries of the old directory
    data,      \* the entries of the new one: "old", "own" or "none"
    pass,      \* what this start has still to look at, once it moves
    launches,
    before     \* both directories as they were found (history)

legacyVars == <<legacy, data, pass, launches, before>>

LegacyInit ==
    /\ legacy \in SUBSET Entries
    /\ data \in [Entries -> {"own", "none"}]
    /\ pass = {} /\ launches = 0
    /\ before = [legacy |-> legacy, data |-> data]

\* A directory with an index or a configuration has been used, and is not
\* merged with another.
used == data[Index] # "none" \/ data[Config] # "none"

AppStarts ==
    /\ launches < MaxLaunches
    /\ launches' = launches + 1
    /\ pass' = IF legacy # {} /\ ~used THEN legacy ELSE {}
    /\ UNCHANGED <<legacy, data, before>>

taken(e) == data[e] # "none"

\* An entry whose destination exists is left where it is.
LeaveEntry(e) ==
    /\ e \in pass /\ taken(e)
    /\ pass' = pass \ {e}
    /\ UNCHANGED <<legacy, data, launches, before>>

MoveEntry(e) ==
    /\ e \in pass /\ ~taken(e)
    /\ pass' = pass \ {e}
    /\ legacy' = legacy \ {e}
    /\ data' = [data EXCEPT ![e] = "old"]
    /\ UNCHANGED <<launches, before>>

\* A rename that fails, a file in use, leaves the entry and goes on.
MoveFails(e) ==
    /\ e \in pass /\ ~taken(e)
    /\ pass' = pass \ {e}
    /\ UNCHANGED <<legacy, data, launches, before>>

LegacyNext == AppStarts \/ \E e \in Entries : LeaveEntry(e) \/ MoveEntry(e) \/ MoveFails(e)

\* However many starts it takes, whichever moves fail and wherever a start is
\* cut off: every entry of the old directory is in one of the two and in one
\* only, nothing of the new one's own is touched, and a directory that had been
\* used has been given nothing (migrate_legacy_data_dir).
NothingOldIsLost ==
    /\ \A e \in before.legacy : e \in legacy <=> data[e] # "old"
    /\ \A e \in Entries : before.data[e] = "own" => data[e] = "own"
    /\ before.data[Index] = "own" \/ before.data[Config] = "own" =>
          legacy = before.legacy
=============================================================================
