---------------------------- MODULE ClipLibrary ----------------------------
(* The clip library (store/src/lib.rs: clips, clip_tags and events;         *)
(* store/src/cleanup.rs: the storage policy; recorder/src/index.rs; the     *)
(* desktop's commands/clips.rs).  The recorder indexes what it spliced and  *)
(* runs the policy; the desktop's commands, one at a time under the store's *)
(* lock, trim, mark and delete; both use one database and one disk, and the *)
(* process may die between any two steps.                                   *)
(*                                                                         *)
(* A file is named by the clip it was cut from and a copy number, 0 for the *)
(* clip itself, and is worth a number of its own, so that a name that is    *)
(* used again, and an id SQLite gives again, are told from the first.       *)
EXTENDS Integers, Sequences, FiniteSets, FiniteSetsExt, SequencesExt

CONSTANTS
    MaxSaves,   \* bound: clips the recorder saves
    MaxWrites,  \* bound: clip files written, trims included
    MaxNow,     \* bound: how far the wall clock is followed
    Cap,        \* storage.max_total_bytes
    MaxAge,     \* storage.max_age_days
    MaxFaults   \* bound: crashes and failing steps

ASSUME LibraryAssumption ==
    {MaxSaves, MaxWrites, MaxNow, Cap, MaxAge, MaxFaults} \subseteq Nat

VARIABLES
    clips,   \* the rows: id -> [name, worth, created, favourite]
    tags,    \* the clips that have a row in clip_tags
    marks,   \* the events rows: [clip, worth], clip 0 when NULL
    disk,    \* the clips directory: name -> what the file is worth
    thumbs,  \* the thumbnail cache: [clip, worth], worth 0 when it is torn
    engine,  \* the recorder's thread
    desk,    \* the desktop's command
    now, saves, writes, faults
libraryVars == <<clips, tags, marks, disk, thumbs, engine, desk, now, saves, writes, faults>>
storeVars == <<clips, tags, marks>>
clock == <<now, saves, writes, faults>>

Idle == [at |-> "idle", clip |-> 0, name |-> <<0, 0>>, worth |-> 0, plan |-> <<>>]

LibraryInit ==
    /\ clips = <<>> /\ tags = {} /\ marks = {} /\ disk = <<>> /\ thumbs = {}
    /\ engine = Idle /\ desk = Idle
    /\ now = 0 /\ saves = 0 /\ writes = 0 /\ faults = 0

Fails == faults < MaxFaults /\ faults' = faults + 1
OnDisk(i) == clips[i].name \in DOMAIN disk
Named(name) == {i \in DOMAIN clips : clips[i].name = name}
Size(worth) == 1 + (worth % 2)
Without(f, S) == [x \in DOMAIN f \ S |-> f[x]]

(* --- the storage policy: one plan, computed from the rows --------------- *)
Bytes(rows, S) == MapThenSumSet(LAMBDA i : Size(rows[i].worth), S)
Older(rows, i, j) == \/ rows[i].created < rows[j].created
                     \/ (rows[i].created = rows[j].created /\ i < j)
ByAge(rows, S) == \* the oldest first: Older is a strict order of the rows
    CHOOSE s \in [1..Cardinality(S) -> S] :
        ToSet(s) = S /\ \A j \in DOMAIN s : \A i \in 1..(j - 1) : Older(rows, s[i], s[j])
Oldest(rows) == ByAge(rows, DOMAIN rows)
TooOld(rows, at) == {i \in DOMAIN rows : ~rows[i].favourite /\ at - rows[i].created > MaxAge}
Favourites(rows) == {i \in DOMAIN rows : rows[i].favourite}
OverCap(rows) == IF Bytes(rows, Favourites(rows)) > Cap THEN Bytes(rows, Favourites(rows)) - Cap ELSE 0

(* One row of the size rule's walk: it stops at the cap, skips favourites   *)
(* and takes no clip the age rule took.                                     *)
SizeRule(rows, acc, i) ==
    IF acc.left <= Cap \/ rows[i].favourite \/ i \in acc.marked THEN acc
    ELSE [marked |-> acc.marked \cup {i}, left |-> acc.left - Size(rows[i].worth)]

Plan(rows, at) ==
    LET old == TooOld(rows, at)
        aged == [marked |-> old, left |-> Bytes(rows, DOMAIN rows \ old)]
        sized == IF OverCap(rows) > 0 THEN aged
                 ELSE FoldLeft(LAMBDA acc, i : SizeRule(rows, acc, i), aged, Oldest(rows))
    IN [deletions |-> ByAge(rows, sized.marked), bytes_after |-> sized.left,
        cap_met |-> OverCap(rows) = 0]

(* --- rows --------------------------------------------------------------- *)
(* INTEGER PRIMARY KEY: one more than the largest there is.                 *)
NextId == 1 + Max({0} \cup DOMAIN clips)

InsertClip(name) ==
    clips' = [i \in DOMAIN clips \cup {NextId} |->
                 IF i = NextId THEN [name |-> name, worth |-> disk[name], created |-> now, favourite |-> FALSE]
                 ELSE clips[i]]

(* One transaction: events lose their link, the tags go, the row goes.      *)
DeleteRow(i) ==
    /\ clips' = Without(clips, {i})
    /\ marks' = {IF m.clip = i THEN [m EXCEPT !.clip = 0] ELSE m : m \in marks}
    /\ tags' = tags \ {i}

(* The foreign key on clip_id: an event cannot name a clip that is not there.*)
InsertEvent(i, worth) == marks' = IF i \in DOMAIN clips \cup {0} THEN marks \cup {[clip |-> i, worth |-> worth]} ELSE marks
StoreFavourite(i, fav) == clips' = [clips EXCEPT ![i].favourite = fav]
ReplaceTags(S, tagged) == tags' = IF tagged THEN tags \cup (S \cap DOMAIN clips) ELSE tags \ S

Unlinked(name) == disk' = Without(disk, {name})

(* --- the recorder: a spliced clip, its row, its event ------------------- *)
(* The splice and its chapters: the chapters go to a copy that replaces the *)
(* file only when it is whole, so the file is the clip with or without.     *)
SavesClip ==
    /\ engine.at = "idle" /\ saves < MaxSaves /\ writes < MaxWrites
    /\ saves' = saves + 1 /\ writes' = writes + 1
    /\ disk' = [n \in DOMAIN disk \cup {<<saves + 1, 0>>} |-> IF n = <<saves + 1, 0>> THEN writes + 1 ELSE disk[n]]
    /\ engine' = [Idle EXCEPT !.at = "index", !.name = <<saves + 1, 0>>, !.worth = writes + 1]
    /\ UNCHANGED <<storeVars, thumbs, desk, now, faults>>

IndexesClip ==
    /\ engine.at = "index"
    /\ \/ /\ InsertClip(engine.name) /\ UNCHANGED faults
          /\ engine' = [engine EXCEPT !.at = "event", !.clip = NextId]
       \/ Fails /\ engine' = [engine EXCEPT !.at = "event"] /\ UNCHANGED clips
    /\ UNCHANGED <<tags, marks, disk, thumbs, desk, now, saves, writes>>

(* The event that asked for it names the clip, or none if it has no row; a  *)
(* row that has gone meanwhile fails the foreign key, and the event is lost.*)
IndexesEvent ==
    /\ engine.at = "event" /\ engine' = Idle
    /\ InsertEvent(engine.clip, engine.worth)
    /\ UNCHANGED <<clips, tags, disk, thumbs, desk, clock>>

(* --- the recorder: a pass of the storage policy ------------------------- *)
PlansCleanup ==
    /\ engine.at = "idle" /\ Plan(clips, now).deletions # <<>>
    /\ engine' = [Idle EXCEPT !.at = "delete", !.plan = Plan(clips, now).deletions]
    /\ UNCHANGED <<storeVars, disk, thumbs, desk, clock>>

(* Mutant of CleansRow: the file goes before its row.                       *)
CleansFileFirst ==
    /\ engine.at = "delete" /\ engine.plan # <<>>
    /\ engine' = [engine EXCEPT !.plan = Tail(@)]
    /\ IF Head(engine.plan) \in DOMAIN clips THEN Unlinked(clips[Head(engine.plan)].name) ELSE UNCHANGED disk
    /\ UNCHANGED <<storeVars, thumbs, desk, clock>>

CleansRow ==
    /\ engine.at = "delete" /\ engine.plan # <<>>
    /\ LET i == Head(engine.plan) IN
       \/ /\ i \in DOMAIN clips /\ DeleteRow(i) /\ UNCHANGED faults
          /\ engine' = [engine EXCEPT !.at = "unlink", !.plan = Tail(@), !.name = clips[i].name]
       \/ /\ i \notin DOMAIN clips /\ UNCHANGED <<storeVars, faults>> /\ engine' = [engine EXCEPT !.plan = Tail(@)]
       \/ Fails /\ UNCHANGED storeVars /\ engine' = [engine EXCEPT !.plan = Tail(@)]
    /\ UNCHANGED <<disk, thumbs, desk, now, saves, writes>>

(* The path the delete handed back; a failed unlink leaves an orphan.       *)
CleansFile ==
    /\ engine.at = "unlink" /\ engine' = [engine EXCEPT !.at = "delete"]
    /\ (Unlinked(engine.name) /\ UNCHANGED faults) \/ (Fails /\ UNCHANGED disk)
    /\ UNCHANGED <<storeVars, thumbs, desk, now, saves, writes>>

EndsCleanup ==
    engine.at = "delete" /\ engine.plan = <<>> /\ engine' = Idle
    /\ UNCHANGED <<storeVars, disk, thumbs, desk, clock>>

(* --- the desktop's commands --------------------------------------------- *)
SetsFavourite(i, fav) ==
    /\ desk.at = "idle" /\ i \in DOMAIN clips
    /\ StoreFavourite(i, fav)
    /\ UNCHANGED <<tags, marks, disk, thumbs, engine, desk, clock>>

SetsTag(i, tagged) ==
    /\ desk.at = "idle" /\ i \in DOMAIN clips
    /\ ReplaceTags({i}, tagged)
    /\ UNCHANGED <<clips, marks, disk, thumbs, engine, desk, clock>>

(* The row, then the cached frames of that id, then the file.               *)
DeletesClip(i) ==
    /\ desk.at = "idle" /\ i \in DOMAIN clips
    /\ DeleteRow(i)
    /\ desk' = [Idle EXCEPT !.at = "frames", !.clip = i, !.name = clips[i].name]
    /\ UNCHANGED <<disk, thumbs, engine, clock>>

DeletesFrames ==
    /\ desk.at = "frames" /\ desk' = [desk EXCEPT !.at = "unlink"]
    /\ (thumbs' = {t \in thumbs : t.clip # desk.clip} /\ UNCHANGED faults) \/ (Fails /\ UNCHANGED thumbs)
    /\ UNCHANGED <<storeVars, disk, engine, now, saves, writes>>

DeletesFile ==
    /\ desk.at = "unlink" /\ desk' = Idle
    /\ (Unlinked(desk.name) /\ UNCHANGED faults) \/ (Fails /\ UNCHANGED disk)
    /\ UNCHANGED <<storeVars, thumbs, engine, now, saves, writes>>

Copies(name) == {<<name[1], k>> : k \in 1..2}
(* free_output_path: the first name no file holds.                          *)
FreeName(name) == {n \in Copies(name) \ DOMAIN disk : \A m \in Copies(name) \ DOMAIN disk : n[2] <= m[2]}

(* The cut reads the parent's file and writes a name no file holds.         *)
Trims(i) ==
    /\ desk.at = "idle" /\ i \in DOMAIN clips /\ OnDisk(i) /\ writes < MaxWrites
    /\ \E name \in FreeName(clips[i].name) :
          /\ disk' = [n \in DOMAIN disk \cup {name} |-> IF n = name THEN writes + 1 ELSE disk[n]]
          /\ desk' = [Idle EXCEPT !.at = "index", !.clip = i, !.name = name]
    /\ writes' = writes + 1 /\ UNCHANGED <<storeVars, thumbs, engine, now, saves, faults>>

(* Reading the new file back or inserting its row (its path is UNIQUE)      *)
(* fails: the file stays.                                                   *)
IndexesTrim ==
    /\ desk.at = "index"
    /\ \/ /\ Named(desk.name) = {} /\ InsertClip(desk.name) /\ UNCHANGED faults
          /\ desk' = [desk EXCEPT !.at = "inherit", !.plan = IF desk.clip \in tags THEN <<NextId>> ELSE <<>>]
       \/ Fails /\ desk' = Idle /\ UNCHANGED clips
    /\ UNCHANGED <<tags, marks, disk, thumbs, engine, now, saves, writes>>

InheritsTags ==
    /\ desk.at = "inherit" /\ desk' = Idle
    /\ ReplaceTags(ToSet(desk.plan), TRUE)
    /\ UNCHANGED <<clips, marks, disk, thumbs, engine, clock>>

Cached(i) == \E t \in thumbs : t.clip = i

(* A frame of the clip's file, once: a later request finds it in the cache. *)
MakesThumbnail(i) ==
    /\ desk.at = "idle" /\ i \in DOMAIN clips /\ OnDisk(i) /\ ~Cached(i)
    /\ \/ thumbs' = thumbs \cup {[clip |-> i, worth |-> disk[clips[i].name]]} /\ UNCHANGED faults
       \/ Fails /\ thumbs' = thumbs \cup {[clip |-> i, worth |-> 0]}
    /\ UNCHANGED <<storeVars, disk, engine, desk, now, saves, writes>>

(* --- the environment ---------------------------------------------------- *)
LibraryCrashes ==
    /\ engine # Idle \/ desk # Idle
    /\ Fails /\ engine' = Idle /\ desk' = Idle
    /\ UNCHANGED <<storeVars, disk, thumbs, now, saves, writes>>

LibraryAges == now < MaxNow /\ now' = now + 1
               /\ UNCHANGED <<storeVars, disk, thumbs, engine, desk, saves, writes, faults>>

LibraryNext ==
    \/ SavesClip \/ IndexesClip \/ IndexesEvent
    \/ PlansCleanup \/ CleansRow \/ CleansFile \/ EndsCleanup
    \/ DeletesFrames \/ DeletesFile \/ IndexesTrim \/ InheritsTags
    \/ \E i \in DOMAIN clips :
          \/ \E b \in BOOLEAN : SetsFavourite(i, b) \/ SetsTag(i, b)
          \/ DeletesClip(i) \/ Trims(i) \/ MakesThumbnail(i)
    \/ LibraryCrashes \/ LibraryAges

(* --- properties --------------------------------------------------------- *)
(* A plan deletes every clip past its age and, oldest first, no more of the *)
(* others than the cap needs; it never names a favourite, it says the cap   *)
(* is met exactly when what remains is within it, and when the favourites   *)
(* alone exceed the cap no clip is deleted for the cap's sake (cleanup.rs:  *)
(* plan_cleanup; the walk is compared with the rule it implements).         *)
PlanIsTheRule ==
    LET p == Plan(clips, now)
        taken == ToSet(p.deletions)
        forCap == taken \ TooOld(clips, now)
        others == DOMAIN clips \ (TooOld(clips, now) \cup Favourites(clips))
    IN /\ TooOld(clips, now) \subseteq taken /\ taken \cap Favourites(clips) = {}
       /\ p.bytes_after = Bytes(clips, DOMAIN clips \ taken) /\ (p.cap_met <=> p.bytes_after <= Cap)
       /\ \A i \in forCap : \A j \in others \ taken : Older(clips, i, j)
       /\ \A i \in forCap : (\A j \in forCap : j = i \/ Older(clips, j, i)) => p.bytes_after + Size(clips[i].worth) > Cap

(* Whatever the program deletes, and wherever it dies, a row of the library *)
(* names the file it was made for: the row goes first, a new file never     *)
(* takes a name that is in use (cleanup.rs: execute_cleanup; clips.rs:      *)
(* delete_clip, free_output_path).                                          *)
RowNamesItsFile == \A i \in DOMAIN clips : clips[i].name \in DOMAIN disk /\ disk[clips[i].name] = clips[i].worth

(* SQLite gives the id of the newest clip again once it is deleted: an id   *)
(* that has no row has no tags and no events either, so the clip that is    *)
(* given it next begins bare (lib.rs: delete_clip_returning_path,           *)
(* set_clip_tags, insert_event).                                            *)
LinksNameAClip == tags \cup {m.clip : m \in marks} \subseteq DOMAIN clips \cup {0}

(* What the index says of the clips is so: which may go, which file each is, *)
(* and what belongs to it.                                                  *)
LibraryIsTrue == PlanIsTheRule /\ RowNamesItsFile /\ LinksNameAClip
=============================================================================
