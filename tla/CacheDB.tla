------------------------------ MODULE CacheDB ------------------------------
(***************************************************************************)
(* The shared-file protocol of cachedb (src/cachedb/cachedb.c): how        *)
(* sessions of several processes open one database file, add records to a  *)
(* private temporary file and, on close, build a complete new database     *)
(* beside the old one and rename it over the old one, unless the base file *)
(* was replaced meanwhile.                                                 *)
(*                                                                         *)
(* One element of Procs is one open handle; two handles of one process     *)
(* behave like handles of two processes.  Every action is one system call, *)
(* or a run of code between two system calls that others can see.  The     *)
(* file system is modelled by inodes: the name of the database and the     *)
(* names of the temporary files link to inodes, an open stream pins one,   *)
(* and an inode nobody links or pins may be handed out again.              *)
(*                                                                         *)
(* A record is abstracted to its key; records, offsets and values are the  *)
(* subject of CacheDBRec.                                                  *)
(***************************************************************************)
EXTENDS Naturals, FiniteSets

CONSTANTS
    Procs,        \* sessions, one per open handle
    Keys,         \* record keys
    Inodes,       \* inode numbers of the file system
    None,         \* no inode
    MaxClock,     \* bound: seconds the clock may advance to
    MaxGen,       \* bound: database files ever created
    MaxFaults,    \* bound: crashes and failed writes
    ShortCopies   \* TRUE: a stream copy may end early (lines 324, 327)

ASSUME ConstantsOK ==
    /\ None \notin Inodes
    /\ MaxClock \in Nat
    /\ MaxGen \in Nat
    /\ MaxFaults \in Nat
    /\ ShortCopies \in BOOLEAN

VARIABLES
    \* the file system
    path,      \* inode the database name links to, or None
    temps,     \* inodes linked under a .cachedb_tmp_ name
    disk,      \* contents of each inode in use
    now,       \* clock, in the seconds that st_mtime counts
    \* one session: cachedb_t and the program counter of its owner
    pc,
    mode,      \* db->mode; "wc" is a 'w' that fell through to 'c'
    fp,        \* inode of base_file.fp, or None
    sb,        \* base_file.sb: st_ino and st_mtime
    index,     \* keys of the base records in index_list
    adds,      \* keys of the records added to tmp_file
    new,       \* inode of the file new_tmpname, or None
    \* history, read by no action
    gen,       \* number of database files created so far
    base,      \* generation of the file sb describes, 0 if there was none
    openedAt,  \* clock when sb was taken
    faults     \* crashes and failed writes so far

fsVars   == <<path, temps, disk, now>>
sesVars  == <<pc, mode, fp, sb, index, adds, new, base, openedAt>>
vars     == <<path, temps, disk, now, pc, mode, fp, sb, index, adds, new,
              gen, base, openedAt, faults>>

Modes == {"r", "w", "c", "wc"}
PCs   == {"idle", "stat", "open", "build", "copied", "check", "swap", "drop",
          "failed", "clear"}
\* part: only begun, or filled by copies that were complete or ended early
File  == [gen : Nat, mtime : Nat, keys : SUBSET Keys, part : {"begun", "whole", "short"}]
NoFile == [gen |-> 0, mtime |-> 0, keys |-> {}, part |-> "begun"]  \* inode not in use
\* Faulty variant of NoStat: the block is not zero-filled.
UnclearedStat == [ino |-> 0, mtime |-> 1]

NoStat == [ino |-> None, mtime |-> 0]  \* the zero-filled stat block of ecalloc

TypeOK ==
    /\ path \in Inodes \cup {None}
    /\ temps \subseteq Inodes
    /\ disk \in [Inodes -> File]
    /\ now \in Nat
    /\ pc \in [Procs -> PCs]
    /\ mode \in [Procs -> Modes]
    /\ fp \in [Procs -> Inodes \cup {None}]
    /\ sb \in [Procs -> [ino : Inodes \cup {None}, mtime : Nat]]
    /\ index \in [Procs -> SUBSET Keys]
    /\ adds \in [Procs -> SUBSET Keys]
    /\ new \in [Procs -> Inodes \cup {None}]
    /\ gen \in Nat
    /\ base \in [Procs -> Nat]
    /\ openedAt \in [Procs -> Nat]
    /\ faults \in Nat

-----------------------------------------------------------------------------
(* Inodes in use: linked by a name or pinned by an open stream.            *)
Live == ({path} \cup temps \cup {fp[p] : p \in Procs}) \ {None}

(* The kernel reclaims what the step leaves neither linked nor pinned.     *)
DiskBecomes(d) == disk' = [i \in Inodes |-> IF i \in Live' THEN d[i] ELSE NoFile]

PathGen == IF path = None THEN 0 ELSE disk[path].gen

(* The session's control block goes away (cachedb_db_dtor).                *)
Release(p, nextPc) ==
    /\ pc' = [pc EXCEPT ![p] = nextPc]
    /\ mode' = [mode EXCEPT ![p] = "r"]
    /\ fp' = [fp EXCEPT ![p] = None]
    /\ sb' = [sb EXCEPT ![p] = NoStat]
    /\ index' = [index EXCEPT ![p] = {}]
    /\ adds' = [adds EXCEPT ![p] = {}]
    /\ new' = [new EXCEPT ![p] = None]
    /\ base' = [base EXCEPT ![p] = 0]
    /\ openedAt' = [openedAt EXCEPT ![p] = 0]

(* A step of the close protocol that only moves on.                        *)
Goto(p, nextPc) == pc' = [pc EXCEPT ![p] = nextPc]

(* A close without additions writes nothing, so no database is empty.     *)
Init ==
    /\ now = 0
    /\ temps = {}
    /\ \/ /\ path = None
          /\ disk = [i \in Inodes |-> NoFile]
          /\ gen = 0
       \/ \E ino \in Inodes, ks \in SUBSET Keys \ {{}} :
             /\ path = ino
             /\ disk = [i \in Inodes |->
                           IF i = ino
                           THEN [gen |-> 1, mtime |-> 0, keys |-> ks, part |-> "whole"]
                           ELSE NoFile]
             /\ gen = 1
    /\ pc = [p \in Procs |-> "idle"]
    /\ mode = [p \in Procs |-> "r"]
    /\ fp = [p \in Procs |-> None]
    /\ sb = [p \in Procs |-> NoStat]
    /\ index = [p \in Procs |-> {}]
    /\ adds = [p \in Procs |-> {}]
    /\ new = [p \in Procs |-> None]
    /\ base = [p \in Procs |-> 0]
    /\ openedAt = [p \in Procs |-> 0]
    /\ faults = 0

-----------------------------------------------------------------------------
(* _cachedb_open, 'r' or 'w', the file exists: open, fstat and index load. *)
(* One step, because the stream pins an inode whose contents never change  *)
(* once it is published (SnapshotStable).  An index that does not agree    *)
(* with the file length is fatal, so a truncated file cannot be opened.    *)
OpenBase(p, m) ==
    /\ pc[p] = "idle"
    /\ m \in {"r", "w"}
    /\ path # None
    /\ disk[path].part = "whole"
    /\ Goto(p, "open")
    /\ mode' = [mode EXCEPT ![p] = m]
    /\ fp' = [fp EXCEPT ![p] = path]
    /\ sb' = [sb EXCEPT ![p] = [ino |-> path, mtime |-> disk[path].mtime]]
    /\ index' = [index EXCEPT ![p] = disk[path].keys]
    /\ base' = [base EXCEPT ![p] = disk[path].gen]
    /\ openedAt' = [openedAt EXCEPT ![p] = now]
    /\ UNCHANGED <<path, temps, disk, now, adds, new, gen, faults>>

(* _cachedb_open without a stream: mode 'c' never tries to open the base,  *)
(* and 'w' falls through to 'c' when the open fails.  Mode 'r' reports the *)
(* failure as a warning and goes on too.                                   *)
OpenMissing(p, m) ==
    /\ pc[p] = "idle"
    /\ \/ m = "c"
       \/ m \in {"r", "wc"} /\ path = None
    /\ Goto(p, "stat")
    /\ mode' = [mode EXCEPT ![p] = m]
    /\ UNCHANGED <<path, temps, disk, now, fp, sb, index, adds, new, gen, base,
                   openedAt, faults>>

\* Faulty variant of StatBase: the stat is skipped, as is the open.
StatBaseSkipped(p) ==
    /\ pc[p] = "stat"
    /\ Goto(p, "open")
    /\ base' = [base EXCEPT ![p] = PathGen]
    /\ openedAt' = [openedAt EXCEPT ![p] = now]
    /\ UNCHANGED <<path, temps, disk, now, mode, fp, sb, index, adds, new, gen, faults>>

(* The rest of that open: stat by name, a forced length of 0, empty index. *)
StatBase(p) ==
    /\ pc[p] = "stat"
    /\ Goto(p, "open")
    /\ sb' = [sb EXCEPT ![p] = IF path = None THEN NoStat
                               ELSE [ino |-> path, mtime |-> disk[path].mtime]]
    /\ base' = [base EXCEPT ![p] = PathGen]
    /\ openedAt' = [openedAt EXCEPT ![p] = now]
    /\ UNCHANGED <<path, temps, disk, now, mode, fp, index, adds, new, gen, faults>>

(* _cachedb_add: refused in mode 'r' and for a key the index already has.  *)
Add(p, k) ==
    /\ pc[p] = "open"
    /\ mode[p] # "r"
    /\ k \notin index[p] \cup adds[p]
    /\ adds' = [adds EXCEPT ![p] = @ \cup {k}]
    /\ UNCHANGED <<path, temps, disk, now, pc, mode, fp, sb, index, new, gen,
                   base, openedAt, faults>>

(* _cachedb_close with nothing to commit, or with force_mode 'r' as the    *)
(* request shutdown does for every handle still open, also after a fatal   *)
(* error in a close.                                                       *)
CloseDiscard(p) ==
    /\ pc[p] \in {"open", "failed"}
    /\ Release(p, "idle")
    /\ UNCHANGED <<path, temps, now, gen, faults>>
    /\ DiskBecomes(disk)

-----------------------------------------------------------------------------
(* _cachedb_close of a session with additions, one action per step.        *)

\* Faulty variant of CreateNew: the index written has the additions only.
CreateNewWithoutBase(p, i) ==
    /\ pc[p] = "open" /\ mode[p] # "r" /\ adds[p] # {} /\ i \notin Live
    /\ gen < MaxGen
    /\ gen' = gen + 1
    /\ temps' = temps \cup {i}
    /\ new' = [new EXCEPT ![p] = i]
    /\ Goto(p, "build")
    /\ UNCHANGED <<path, now, mode, fp, sb, index, adds, base, openedAt, faults>>
    /\ DiskBecomes([disk EXCEPT ![i] =
           [gen |-> gen + 1, mtime |-> now, keys |-> adds[p], part |-> "begun"]])

(* Create the new file beside the database, write the header and index.    *)
CreateNew(p, i) ==
    /\ pc[p] = "open"
    /\ mode[p] # "r"
    /\ adds[p] # {}
    /\ i \notin Live
    /\ gen < MaxGen
    /\ gen' = gen + 1
    /\ temps' = temps \cup {i}
    /\ new' = [new EXCEPT ![p] = i]
    /\ Goto(p, "build")
    /\ UNCHANGED <<path, now, mode, fp, sb, index, adds, base, openedAt, faults>>
    /\ DiskBecomes([disk EXCEPT ![i] =
           [gen |-> gen + 1, mtime |-> now, keys |-> index[p] \cup adds[p],
            part |-> "begun"]])

\* Faulty variant of WriteFails: the failed write goes unnoticed.
WriteFailsUnnoticed(p) ==
    /\ pc[p] = "build" /\ faults < MaxFaults
    /\ faults' = faults + 1
    /\ Goto(p, "copied")
    /\ UNCHANGED <<path, temps, disk, now, mode, fp, sb, index, adds, new, gen,
                   base, openedAt>>

(* A write of header or index fails: fatal, and the new file stays behind. *)
WriteFails(p) ==
    /\ pc[p] = "build"
    /\ faults < MaxFaults
    /\ faults' = faults + 1
    /\ Goto(p, "failed")
    /\ new' = [new EXCEPT ![p] = None]
    /\ UNCHANGED <<path, temps, disk, now, mode, fp, sb, index, adds, gen, base,
                   openedAt>>

(* Append the old records and the additions.  The results of the stream    *)
(* copies are ignored: a short copy goes unnoticed.                        *)
CopyRecords(p) ==
    /\ pc[p] = "build"
    /\ \E w \in {"whole", "short"} :
          /\ w = "whole" \/ ShortCopies
          /\ disk' = [disk EXCEPT ![new[p]] = [@ EXCEPT !.part = w, !.mtime = now]]
    /\ Goto(p, "copied")
    /\ UNCHANGED <<path, temps, now, mode, fp, sb, index, adds, new, gen, base,
                   openedAt, faults>>

(* Close the temporary stream and the base stream, which unpins its inode. *)
CloseStreams(p) ==
    /\ pc[p] = "copied"
    /\ Goto(p, "check")
    /\ fp' = [fp EXCEPT ![p] = None]
    /\ UNCHANGED <<path, temps, now, mode, sb, index, adds, new, gen, base,
                   openedAt, faults>>
    /\ DiskBecomes(disk)

\* Faulty variant of SameFile: the inode alone decides.
SameInode(p) == path # None /\ sb[p].ino = path

(* base_ok: the file of that name now against the stat block of the open.  *)
(* Only a base opened as a stream (mode 'w') has a recorded size > 0.      *)
SameFile(p) ==
    /\ path # None
    /\ sb[p].ino = path
    /\ sb[p].mtime = disk[path].mtime
BaseOk(p) == IF mode[p] = "w" THEN SameFile(p) ELSE path = None \/ SameFile(p)

CheckBase(p) ==
    /\ pc[p] = "check"
    /\ Goto(p, IF BaseOk(p) THEN "swap" ELSE "drop")
    /\ UNCHANGED <<path, temps, disk, now, mode, fp, sb, index, adds, new, gen,
                   base, openedAt, faults>>

\* Faulty variant of Swap: the new contents are copied over the old file.
SwapInPlace(p) ==
    /\ pc[p] = "swap"
    /\ path' = IF path = None THEN new[p] ELSE path
    /\ temps' = temps \ {new[p]}
    /\ Release(p, "idle")
    /\ UNCHANGED <<now, gen, faults>>
    /\ DiskBecomes(IF path = None THEN disk ELSE [disk EXCEPT ![path] = disk[new[p]]])

(* rename(new_tmpname, base_file.name), then the destructor.               *)
Swap(p) ==
    /\ pc[p] = "swap"
    /\ path' = new[p]
    /\ temps' = temps \ {new[p]}
    /\ Release(p, "idle")
    /\ UNCHANGED <<now, gen, faults>>
    /\ DiskBecomes(disk)

\* Faulty variant of Drop: the new file is not removed.
DropNoUnlink(p) ==
    /\ pc[p] = "drop"
    /\ Release(p, "idle")
    /\ UNCHANGED <<path, temps, now, gen, faults>>
    /\ DiskBecomes(disk)

(* unlink(new_tmpname), then the destructor.                               *)
Drop(p) ==
    /\ pc[p] = "drop"
    /\ temps' = temps \ {new[p]}
    /\ Release(p, "idle")
    /\ UNCHANGED <<path, now, gen, faults>>
    /\ DiskBecomes(disk)

-----------------------------------------------------------------------------
(* lpc_cache_clear closes its session with 'r' and then removes the        *)
(* database by name, whatever file has that name by then.                  *)
ClearClose(p) ==
    /\ pc[p] = "open"
    /\ Release(p, "clear")
    /\ UNCHANGED <<path, temps, now, gen, faults>>
    /\ DiskBecomes(disk)

ClearRemove(p) ==
    /\ pc[p] = "clear"
    /\ Goto(p, "idle")
    /\ path' = None
    /\ UNCHANGED <<temps, now, mode, fp, sb, index, adds, new, gen, base,
                   openedAt, faults>>
    /\ DiskBecomes(disk)

(* The process dies; the kernel closes its streams, names stay.            *)
Crash(p) ==
    /\ pc[p] # "idle"
    /\ faults < MaxFaults
    /\ faults' = faults + 1
    /\ Release(p, "idle")
    /\ UNCHANGED <<path, temps, now, gen>>
    /\ DiskBecomes(disk)

Tick ==
    /\ now < MaxClock
    /\ now' = now + 1
    /\ UNCHANGED <<path, temps, disk, gen, faults>>
    /\ UNCHANGED sesVars

-----------------------------------------------------------------------------
(* The steps of a close already begun.                                     *)
CloseStep(p) ==
    \/ CopyRecords(p)
    \/ CloseStreams(p)
    \/ CheckBase(p)
    \/ Swap(p)
    \/ Drop(p)

Step(p) ==
    \/ \E m \in Modes : OpenBase(p, m) \/ OpenMissing(p, m)
    \/ StatBase(p)
    \/ \E k \in Keys : Add(p, k)
    \/ CloseDiscard(p)
    \/ \E i \in Inodes : CreateNew(p, i)
    \/ WriteFails(p)
    \/ CloseStep(p)
    \/ ClearClose(p)
    \/ ClearRemove(p)
    \/ Crash(p)

Next == Tick \/ \E p \in Procs : Step(p)

Spec == Init /\ [][Next]_vars

(* A close that has begun is straight-line code: unless its process dies,  *)
(* it runs on.  Nothing obliges a script to open, add or close.            *)
FairSpec == Spec /\ \A p \in Procs : WF_vars(CloseStep(p))

-----------------------------------------------------------------------------
(***************************************************************************)
(* Correctness.                                                            *)
(***************************************************************************)

\* A reader keeps the database it opened: as long as a session holds its base
\* stream, the file behind it is complete and is still the version whose index
\* the session loaded, whatever commits, removals and inode reuse happen.
SnapshotStable ==
    \A p \in Procs : fp[p] # None =>
        /\ disk[fp[p]].part = "whole"
        /\ disk[fp[p]].gen = base[p]
        /\ disk[fp[p]].keys = index[p]

\* Whatever crashes, failed writes and racing closes happen, the rename publishes
\* no file whose header, index or records are still to be written: what has the
\* database name is complete, or it was filled by a copy that itself ended early.
PublishedWhole == path # None => disk[path].part # "begun"

\* Claimed of the commit (cachedb.c:44-49, transactionally consistent): the rename
\* publishes nothing but complete databases.
PublishesOnlyWhole == path # None => disk[path].part = "whole"

\* The base stat block was taken in a later second than the base's mtime.
Settled(p) == openedAt[p] > sb[p].mtime

\* The inode and mtime comparison is a sound test for "not replaced since the
\* open", although the stream that pinned the inode is closed before the check
\* and st_mtime counts seconds, provided the base was at least a second old at
\* the open: if the check would pass, no other version would be overwritten.
CheckSound ==
    \A p \in Procs : pc[p] = "check" /\ BaseOk(p) /\ Settled(p) =>
        path = None \/ PathGen = base[p]

\* The check never discards additions for nothing: if it would fail, then the
\* database has been created, replaced or removed since the open.
DiscardJustified ==
    \A p \in Procs : pc[p] = "check" /\ ~BaseOk(p) => PathGen # base[p]

\* Disk usage: the temporary files in the directory are those of closes in
\* progress, and at most one left behind per crash or failed write.
Building == {p \in Procs : new[p] # None}
TempsAccounted == Cardinality(temps) <= Cardinality(Building) + faults

\* The abstract store: its contents are the file under the database name, if it
\* is complete; a session's view lasts from the end of its open to its close.
Viewing  == {"open", "build", "copied", "check", "swap"}
StoreNow == IF path # None /\ disk[path].part = "whole" THEN disk[path].keys ELSE None
ViewNow  == [p \in Procs |-> IF pc[p] \in Viewing THEN index[p] ELSE None]
AddedNow == [p \in Procs |-> IF pc[p] \in Viewing THEN adds[p] ELSE {}]
Store    == INSTANCE SnapshotStore
                WITH store <- StoreNow, view <- ViewNow, added <- AddedNow,
                     Torn <- ShortCopies

\* cachedb implements the snapshot store: every change of the database is the
\* atomic replacement by one session's snapshot plus additions, or a removal, or,
\* where a copy may end early, a commit that leaves no database to be read.
ImplementsStore == Store!Spec

\* Losing a race means somebody won it: a close that starts on the current
\* database comes to its rename, which then lands, or finds this database replaced
\* or removed by another session while it works, unless a process died or a write
\* failed.
SomeCommitLands ==
    \A p \in Procs :
        (pc[p] = "build" /\ PathGen = base[p]) ~>
            \/ pc[p] = "swap"
            \/ pc[p] # "idle" /\ PathGen # base[p]
            \/ faults > 0

\* The claim of cachedb.c:49-51 and of tests/cachedb_test1.phpt: a commit is
\* aborted if the file has already been replaced by some other process.
FirstCommitterWins ==
    [][\A p \in Procs : pc[p] = "swap" /\ pc'[p] = "idle" /\ path' = new[p] =>
          path = None \/ PathGen = base[p]]_vars

\* The same claim at the moment of the check, where no time passes between the
\* comparison and the decision.
PassedCheckMeansUnreplaced ==
    \A p \in Procs : pc[p] = "check" /\ mode[p] = "w" /\ BaseOk(p) =>
        PathGen = base[p]

\* The claim of cachedb.c:24-26 (the only method of deletion is to open the
\* database in create mode): a session opened with 'w' and found unreplaced at
\* the check commits everything the database holds.
WriteModeKeepsRecords ==
    \A p \in Procs :
        pc[p] = "check" /\ mode[p] \in {"w", "wc"} /\ path # None
          /\ Settled(p) /\ BaseOk(p) =>
        disk[path].keys \subseteq index[p] \cup adds[p]

\* The claim of cachedb.c:184 (mode r: the DB must exist).
ReadNeedsDatabase ==
    \A p \in Procs : pc[p] = "open" /\ mode[p] = "r" => fp[p] # None

=============================================================================
