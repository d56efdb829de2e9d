--------------------------- MODULE CacheDB_proofs ---------------------------
(***************************************************************************)
(* Proofs about the shared-file protocol, for any number of sessions,      *)
(* keys, inodes, any clock and any number of crashes.                      *)
(***************************************************************************)
EXTENDS CacheDB, FiniteSetTheorems, TLAPS

Closing == {"build", "copied", "check", "swap", "drop"}
Taken   == {"open", "failed"} \cup Closing  \* the stat block has been taken

(***************************************************************************)
(* The inductive invariant.                                                *)
(***************************************************************************)

\* A session owns a temporary file exactly while it closes, and no two share.
Owning ==
    /\ \A p \in Procs : new[p] # None <=> pc[p] \in Closing
    /\ \A p \in Procs : new[p] # None => new[p] \in temps
    /\ \A p, q \in Procs : p # q /\ new[p] # None => new[p] # new[q]

\* Files being built are neither published nor read.
Apart ==
    /\ path \notin temps
    /\ \A p \in Procs : fp[p] \notin temps

\* An inode has contents exactly while it is linked or pinned.
InUse == \A i \in Inodes : disk[i] # NoFile <=> i \in Live

\* Generations identify files, and only published ones are bases.
Gens ==
    /\ \A i \in Inodes : disk[i] # NoFile => disk[i].gen \in 1..gen
    /\ \A i, j \in Inodes :
          disk[i] # NoFile /\ disk[j] # NoFile /\ disk[i].gen = disk[j].gen => i = j
    /\ \A p \in Procs : base[p] \in 0..gen
    /\ \A p \in Procs : \A i \in temps : disk[i].gen # base[p]

\* The stat block of a session describes its base version...
Described ==
    /\ \A p \in Procs : \A i \in Inodes :
          disk[i] # NoFile /\ disk[i].gen = base[p] =>
              sb[p] = [ino |-> i, mtime |-> disk[i].mtime]
    /\ \A p \in Procs : base[p] = 0 => sb[p] = NoStat
    /\ \A p \in Procs : pc[p] \in Taken /\ mode[p] = "w" => base[p] # 0

\* ... and whatever else came to live in that inode was written after the open.
Reused ==
    /\ \A p \in Procs : openedAt[p] <= now
    /\ \A p \in Procs : \A i \in Inodes :
          sb[p].ino = i /\ disk[i] # NoFile /\ disk[i].gen # base[p] =>
              disk[i].mtime >= openedAt[p]

\* Before the stat block is taken a session holds nothing.
Blank ==
    \A p \in Procs : pc[p] \in {"idle", "stat", "clear"} =>
        fp[p] = None /\ index[p] = {} /\ adds[p] = {} /\ mode[p] # "w"

IInv ==
    /\ TypeOK
    /\ Owning
    /\ Apart
    /\ InUse
    /\ Gens
    /\ Described
    /\ Reused
    /\ Blank
    /\ SnapshotStable

-----------------------------------------------------------------------------
(* The opens.                                                              *)

\* An open of an existing database keeps the invariant: the stream pins the
\* inode whose contents the session has loaded.
LEMMA OpenBaseKeeps ==
  ASSUME IInv, NEW p \in Procs, NEW m \in Modes, OpenBase(p, m)
  PROVE  IInv'
<1> USE ConstantsOK DEF IInv, OpenBase, Goto
<1>1. path \in Inodes /\ disk[path] \in File
  BY DEF TypeOK, InUse, Live
<1>2. Live' = Live
  BY <1>1 DEF Live, Apart, Blank, TypeOK
<1>3. TypeOK'
  BY <1>1 DEF TypeOK, File, PCs
<1>4. Owning' /\ Apart' /\ Blank'
  BY DEF Owning, Apart, Closing, Blank, TypeOK
<1>5. InUse'
  BY <1>2 DEF InUse
<1>6. Gens' /\ Described' /\ Reused'
  BY <1>1 DEF Gens, Described, Reused, InUse, Live, Apart, Taken, Closing,
              NoStat, TypeOK, File
<1>7. SnapshotStable'
  BY <1>1 DEF SnapshotStable, TypeOK
<1> QED  BY <1>3, <1>4, <1>5, <1>6, <1>7

\* An open without a stream keeps the invariant: the stat block is that of the
\* file under the name, whose generation the session remembers.
LEMMA StatBaseKeeps ==
  ASSUME IInv, NEW p \in Procs, StatBase(p)
  PROVE  IInv'
<1> USE ConstantsOK DEF IInv, StatBase, Goto
<1>1. path # None => path \in Inodes /\ disk[path] \in File
  BY DEF TypeOK, InUse, Live
<1>2. TypeOK'
  BY <1>1 DEF TypeOK, File, PCs, NoStat, PathGen
<1>3. Owning' /\ Apart' /\ Blank' /\ InUse'
  BY DEF Owning, Apart, Closing, Blank, TypeOK, InUse, Live
<1>4. SnapshotStable'
  BY DEF SnapshotStable, Blank, TypeOK
<1>5. \/ path = None /\ base'[p] = 0 /\ sb'[p] = NoStat
      \/ /\ path # None
         /\ base'[p] = disk[path].gen
         /\ sb'[p] = [ino |-> path, mtime |-> disk[path].mtime]
         /\ disk[path] # NoFile
  BY <1>1 DEF TypeOK, PathGen, InUse, Live
<1>6. Gens'
  <2>1. \A i \in temps : disk[i] # NoFile /\ i # path
    BY DEF InUse, Live, Apart, TypeOK
  <2> QED  BY <1>1, <1>5, <2>1 DEF Gens, TypeOK
<1>7. Described'
  BY <1>1, <1>5 DEF Described, Gens, Blank, Taken, Closing, TypeOK
<1>8. Reused'
  BY <1>1, <1>5 DEF Reused, Gens, NoStat, TypeOK
<1> QED  BY <1>2, <1>3, <1>4, <1>6, <1>7, <1>8

-----------------------------------------------------------------------------
(* The steps of a close that write the new file.                           *)

\* The creation of the new file keeps the invariant: its inode was neither linked
\* nor pinned, so no other session holds it.
LEMMA CreateNewKeeps ==
  ASSUME IInv, NEW p \in Procs, NEW i \in Inodes, CreateNew(p, i)
  PROVE  IInv'
<1> DEFINE f == [gen |-> gen + 1, mtime |-> now, keys |-> index[p] \cup adds[p],
                 part |-> "begun"]
<1> USE ConstantsOK DEF IInv, CreateNew, Goto
<1>1. f \in File /\ f # NoFile
  BY DEF TypeOK, File, NoFile
<1>2. Live' = Live \cup {i} /\ disk[i] = NoFile
  BY DEF Live, InUse, TypeOK
<1>3. disk' = [disk EXCEPT ![i] = f]
  BY <1>2 DEF DiskBecomes, InUse, TypeOK
<1> HIDE DEF f
<1>4. TypeOK'
  BY <1>1, <1>3 DEF TypeOK, PCs
<1>5. Owning'
  BY DEF Owning, Closing, Live, TypeOK
<1>6. Apart' /\ Blank'
  BY DEF Apart, Blank, Live, TypeOK
<1>7. InUse'
  BY <1>1, <1>2, <1>3 DEF InUse, TypeOK
<1>8. f.gen = gen + 1 /\ f.mtime = now
  BY DEF f
<1>9. Gens'
  BY <1>2, <1>3, <1>8 DEF Gens, TypeOK, File
<1>10. Described' /\ Reused'
  BY <1>2, <1>3, <1>8 DEF Described, Reused, Gens, Taken, Closing, TypeOK, File
<1>11. SnapshotStable'
  BY <1>2, <1>3 DEF SnapshotStable, Live, TypeOK
<1> QED  BY <1>4, <1>5, <1>6, <1>7, <1>9, <1>10, <1>11

\* The copy of the records keeps the invariant: the new file is still private to
\* the session.
LEMMA CopyRecordsKeeps ==
  ASSUME IInv, NEW p \in Procs, CopyRecords(p)
  PROVE  IInv'
<1> USE ConstantsOK DEF IInv, CopyRecords, Goto
<1>1. new[p] \in temps /\ new[p] \in Inodes /\ disk[new[p]] \in File
  BY DEF Owning, Closing, InUse, Live, TypeOK
<1>2. PICK w \in {"whole", "short"} :
         disk' = [disk EXCEPT ![new[p]] = [@ EXCEPT !.part = w, !.mtime = now]]
  OBVIOUS
<1> DEFINE f == [disk[new[p]] EXCEPT !.part = w, !.mtime = now]
<1>3. /\ disk' = [disk EXCEPT ![new[p]] = f]
      /\ f \in File
      /\ f.gen = disk[new[p]].gen
      /\ f.mtime = now
  BY <1>1, <1>2 DEF TypeOK, File
<1> HIDE DEF f
<1>4. disk[new[p]] # NoFile /\ f # NoFile
  BY <1>1, <1>3 DEF InUse, Gens, NoFile, Live, TypeOK
<1>5. TypeOK'
  BY <1>1, <1>3 DEF TypeOK, PCs
<1>6. Owning' /\ Apart' /\ Blank'
  BY DEF Owning, Closing, Apart, Blank, TypeOK
<1>7. InUse'
  BY <1>1, <1>3, <1>4 DEF InUse, Live, TypeOK
<1>8. Gens'
  BY <1>1, <1>3, <1>4 DEF Gens, TypeOK
<1>9. Described' /\ Reused'
  BY <1>1, <1>3, <1>4 DEF Gens, Described, Reused, Taken, Closing, TypeOK
<1>10. SnapshotStable'
  BY <1>1, <1>3 DEF SnapshotStable, Apart, TypeOK
<1> QED  BY <1>5, <1>6, <1>7, <1>8, <1>9, <1>10

-----------------------------------------------------------------------------
(* The other steps of a session only move on, or give things up.           *)

\* An inode that is not in use has the type of a file.
LEMMA NoFileIsFile == NoFile \in File
BY DEF NoFile, File

\* The steps that write no file keep the invariant.
LEMMA QuietStepKeeps ==
  ASSUME IInv, NEW p \in Procs,
         \/ \E m \in Modes : OpenMissing(p, m)
         \/ \E k \in Keys : Add(p, k)
         \/ CloseDiscard(p) \/ WriteFails(p) \/ CloseStreams(p) \/ CheckBase(p)
         \/ Swap(p) \/ Drop(p) \/ ClearClose(p) \/ ClearRemove(p) \/ Crash(p)
  PROVE  IInv'
<1> USE ConstantsOK, NoFileIsFile, SMTT(60)
    DEF IInv, TypeOK, PCs, Modes, Owning, Closing, Apart, Live, InUse, Gens, Described, Reused, Blank, SnapshotStable, Taken, NoStat
<1>1. ASSUME NEW m \in Modes, OpenMissing(p, m)  PROVE IInv'
  BY <1>1 DEF OpenMissing, Goto
<1>2. ASSUME NEW k \in Keys, Add(p, k)  PROVE IInv'
  BY <1>2 DEF Add
<1>3. CASE CloseDiscard(p)
  BY <1>3 DEF CloseDiscard, Release, DiskBecomes
<1>4. CASE WriteFails(p)
  BY <1>4 DEF WriteFails, Goto
<1>5. CASE CloseStreams(p)
  BY <1>5 DEF CloseStreams, DiskBecomes, Goto
<1>6. CASE CheckBase(p)
  BY <1>6 DEF CheckBase, Goto
<1>7. CASE Swap(p)
  BY <1>7 DEF Swap, Release, DiskBecomes
<1>8. CASE Drop(p)
  BY <1>8 DEF Drop, Release, DiskBecomes
<1>9. CASE ClearClose(p)
  BY <1>9 DEF ClearClose, Release, DiskBecomes
<1>10. CASE ClearRemove(p)
  BY <1>10 DEF ClearRemove, DiskBecomes, Goto
<1>11. CASE Crash(p)
  BY <1>11 DEF Crash, Release, DiskBecomes
<1> HIDE DEF IInv, TypeOK, PCs, Modes, Owning, Closing, Apart, Live, InUse, Gens, Described, Reused,
             Blank, SnapshotStable, Taken, NoStat
<1> QED
  BY <1>1, <1>2, <1>3, <1>4, <1>5, <1>6, <1>7, <1>8, <1>9, <1>10, <1>11

\* Every step of a session keeps the invariant.
LEMMA StepKeeps ==
  ASSUME IInv, NEW p \in Procs, Step(p)
  PROVE  IInv'
BY OpenBaseKeeps, StatBaseKeeps, CreateNewKeeps, CopyRecordsKeeps, QuietStepKeeps
   DEF Step, CloseStep

\* The invariant of the protocol holds in every reachable state.
THEOREM Invariance == Spec => []IInv
<1>1. Init => IInv
  <2> SUFFICES ASSUME Init  PROVE IInv
    OBVIOUS
  <2> USE ConstantsOK DEF Init
  <2>1. CASE path = None /\ gen = 0 /\ disk = [i \in Inodes |-> NoFile]
    BY <2>1, NoFileIsFile DEF IInv, TypeOK, PCs, Modes, Owning, Closing, Apart, Live,
       InUse, Gens, Described, Reused, Blank, SnapshotStable, Taken, NoStat
  <2>2. ASSUME NEW ino \in Inodes, NEW ks \in SUBSET Keys, path = ino, gen = 1,
               disk = [i \in Inodes |->
                          IF i = ino
                          THEN [gen |-> 1, mtime |-> 0, keys |-> ks, part |-> "whole"]
                          ELSE NoFile]
        PROVE  IInv
    <3>1. disk[ino] \in File /\ disk[ino].gen = 1 /\ disk[ino] # NoFile
      BY <2>2 DEF File, NoFile
    <3>2. \A i \in Inodes : i # ino => disk[i] = NoFile
      BY <2>2
    <3>3. disk \in [Inodes -> File]
      BY <2>2, <3>1, <3>2, NoFileIsFile
    <3> QED
      BY <2>2, <3>1, <3>2, <3>3 DEF IInv, TypeOK, PCs, Modes, Owning, Closing, Apart,
         Live, InUse, Gens, Described, Reused, Blank, SnapshotStable, Taken, NoStat
  <2> QED  BY <2>1, <2>2
<1>2. IInv /\ [Next]_vars => IInv'
  <2> SUFFICES ASSUME IInv, [Next]_vars  PROVE IInv'
    OBVIOUS
  <2>1. CASE Tick
    BY <2>1 DEF Tick, sesVars, IInv, TypeOK, Owning, Apart, Live, InUse, Gens, Described,
                Reused, Blank, SnapshotStable
  <2>2. ASSUME NEW p \in Procs, Step(p)  PROVE IInv'
    BY <2>2, StepKeeps
  <2>3. CASE UNCHANGED vars
    BY <2>3 DEF vars, IInv, TypeOK, Owning, Apart, Live, InUse, Gens, Described, Reused,
                Blank, SnapshotStable
  <2> QED  BY <2>1, <2>2, <2>3 DEF Next
<1> QED  BY <1>1, <1>2, PTL DEF Spec

-----------------------------------------------------------------------------
\* Every variable keeps its type.
THEOREM TypeCorrect == Spec => []TypeOK
BY Invariance, PTL DEF IInv

\* A session that holds its base stream goes on reading the version it opened.
THEOREM ReadersKeepTheirSnapshot == Spec => []SnapshotStable
BY Invariance, PTL DEF IInv

\* With a base at least a second old at the open, the inode and mtime check
\* passes only if no other version would be overwritten: an inode that was
\* handed out again is stamped no earlier than the open.
THEOREM CheckIsSound == Spec => []CheckSound
<1>1. IInv => CheckSound
  <2> SUFFICES ASSUME IInv, NEW p \in Procs, pc[p] = "check", BaseOk(p), Settled(p),
                      path # None
               PROVE  PathGen = base[p]
    BY DEF CheckSound
  <2>1. path \in Inodes /\ disk[path] # NoFile /\ disk[path] \in File
    BY DEF IInv, TypeOK, InUse, Live
  <2>2. SameFile(p)
    BY DEF BaseOk
  <2>3. ~(disk[path].mtime >= openedAt[p])
    BY <2>1, <2>2 DEF SameFile, Settled, IInv, TypeOK, File
  <2> QED  BY <2>1, <2>2, <2>3 DEF SameFile, PathGen, IInv, Reused
<1> QED  BY <1>1, Invariance, PTL

\* The check fails only if the database was created, replaced or removed.
THEOREM DiscardIsJustified == Spec => []DiscardJustified
<1>1. IInv => DiscardJustified
  <2> SUFFICES ASSUME IInv, NEW p \in Procs, pc[p] = "check", PathGen = base[p]
               PROVE  BaseOk(p)
    BY DEF DiscardJustified
  <2>1. CASE path = None
    BY <2>1 DEF PathGen, BaseOk, IInv, Described, Taken, Closing
  <2>2. CASE path # None
    <3>1. path \in Inodes /\ disk[path] # NoFile
      BY <2>2 DEF IInv, TypeOK, InUse, Live
    <3>2. sb[p] = [ino |-> path, mtime |-> disk[path].mtime]
      BY <2>2, <3>1 DEF PathGen, IInv, Described
    <3> QED  BY <2>2, <3>2 DEF BaseOk, SameFile
  <2> QED  BY <2>1, <2>2
<1> QED  BY <1>1, Invariance, PTL

-----------------------------------------------------------------------------
(***************************************************************************)
(* What a close has built so far; this needs IInv, which keeps every other *)
(* session away from the file.                                             *)
(***************************************************************************)
Built ==
    /\ \A p \in Procs : pc[p] \in Closing \ {"drop"} =>
          /\ adds[p] # {}
          /\ disk[new[p]].keys = index[p] \cup adds[p]
    /\ \A p \in Procs : pc[p] \in Closing \ {"build"} => disk[new[p]].part # "begun"
    /\ PublishedWhole

\* Copies end early only where ShortCopies lets them.
ShortAllowed == \A i \in Inodes : disk[i].part = "short" => ShortCopies

\* What a close has built and not yet published stays as complete as its copies
\* left it, and so does what is published.
LEMMA BuiltKept ==
  ASSUME IInv, Built, [Next]_vars
  PROVE  Built'
<1> USE ConstantsOK DEF IInv, TypeOK, Owning, Closing, Apart, Live, InUse, Built,
        PublishedWhole
<1>1. CASE Tick
  BY <1>1 DEF Tick, sesVars
<1>2. CASE UNCHANGED vars
  BY <1>2 DEF vars
<1>3. ASSUME NEW p \in Procs, NEW at \in {"open", "stat"}, pc' = [pc EXCEPT ![p] = at],
             UNCHANGED <<path, disk, adds, new>>,
             \A q \in Procs : q # p => index'[q] = index[q]
      PROVE  Built'
  <2>2. \A q \in Procs : pc'[q] \in Closing => pc'[q] = pc[q] /\ q # p
    BY <1>3
  <2>3. \A q \in Procs : pc'[q] \in Closing \ {"drop"} =>
            adds'[q] # {} /\ disk'[new'[q]].keys = index'[q] \cup adds'[q]
    BY <1>3, <2>2
  <2>4. \A q \in Procs : pc'[q] \in Closing \ {"build"} => disk'[new'[q]].part # "begun"
    BY <1>3, <2>2
  <2> QED  BY <1>3, <2>3, <2>4
<1>4. ASSUME NEW p \in Procs, NEW m \in Modes,
             OpenBase(p, m) \/ OpenMissing(p, m) \/ StatBase(p)
      PROVE  Built'
  <2>1. /\ \E at \in {"open", "stat"} : pc' = [pc EXCEPT ![p] = at]
        /\ UNCHANGED <<path, disk, adds, new>>
        /\ \A q \in Procs : q # p => index'[q] = index[q]
    BY <1>4 DEF OpenBase, OpenMissing, StatBase, Goto
  <2> QED  BY <1>3, <2>1
<1>5. ASSUME NEW p \in Procs, NEW k \in Keys, Add(p, k)  PROVE Built'
  BY <1>5 DEF Add
<1>6. ASSUME NEW p \in Procs, NEW i \in Inodes, CreateNew(p, i)  PROVE Built'
  BY <1>6 DEF CreateNew, DiskBecomes, Goto
<1>7. ASSUME NEW p \in Procs, CopyRecords(p)  PROVE Built'
  BY <1>7 DEF CopyRecords, Goto, File
<1>8. ASSUME NEW p \in Procs, WriteFails(p) \/ CheckBase(p)  PROVE Built'
  BY SMTT(30), <1>8 DEF WriteFails, CheckBase, Goto
<1>9. ASSUME NEW p \in Procs, CloseStreams(p)  PROVE Built'
  BY <1>9 DEF CloseStreams, DiskBecomes, Goto
<1>10. ASSUME NEW p \in Procs,
              CloseDiscard(p) \/ ClearClose(p) \/ Crash(p)
       PROVE  Built'
  <2>1. CASE CloseDiscard(p)  BY <2>1 DEF CloseDiscard, Release, DiskBecomes
  <2>2. CASE ClearClose(p)    BY <2>2 DEF ClearClose, Release, DiskBecomes
  <2>3. CASE Crash(p)         BY <2>3 DEF Crash, Release, DiskBecomes
  <2> QED  BY <1>10, <2>1, <2>2, <2>3
<1>11. ASSUME NEW p \in Procs, Swap(p)  PROVE Built'
  BY <1>11 DEF Swap, Release, DiskBecomes
<1>12. ASSUME NEW p \in Procs, Drop(p)  PROVE Built'
  BY <1>12 DEF Drop, Release, DiskBecomes
<1>13. ASSUME NEW p \in Procs, ClearRemove(p)  PROVE Built'
  BY <1>13 DEF ClearRemove, DiskBecomes, Goto
<1> QED
  BY <1>1, <1>2, <1>4, <1>5, <1>6, <1>7, <1>8, <1>9, <1>10, <1>11, <1>12, <1>13
  DEF Modes, Next, Step, CloseStep

\* Only the copy of the records fills a file, and the kernel clears others.
LEMMA ShortKept ==
  ASSUME IInv, ShortAllowed, [Next]_vars
  PROVE  ShortAllowed'
<1> USE DEF ShortAllowed
<1>1. ASSUME NEW d, DiskBecomes(d), \A i \in Inodes : d[i].part = "short" => ShortCopies
      PROVE  ShortAllowed'
  BY <1>1 DEF DiskBecomes, NoFile
<1>2. CASE UNCHANGED disk
  BY <1>2
<1>3. ASSUME NEW p \in Procs, NEW i \in Inodes, CreateNew(p, i)  PROVE ShortAllowed'
  <2> DEFINE f == [gen |-> gen + 1, mtime |-> now, keys |-> index[p] \cup adds[p],
                   part |-> "begun"]
             d == [disk EXCEPT ![i] = f]
  <2>1. DiskBecomes(d)
    BY <1>3 DEF CreateNew
  <2>2. \A x \in Inodes : d[x] = IF x = i THEN f ELSE disk[x]
    BY DEF IInv, TypeOK
  <2>3. f.part = "begun"
    OBVIOUS
  <2>4. \A x \in Inodes : d[x].part = "short" => ShortCopies
    <3> HIDE DEF d, f
    <3> QED  BY <2>2, <2>3
  <2> HIDE DEF d
  <2> QED  BY <1>1, <2>1, <2>4
<1>4. ASSUME NEW p \in Procs, CopyRecords(p)  PROVE ShortAllowed'
  <2>1. PICK w \in {"whole", "short"} :
           /\ w = "whole" \/ ShortCopies
           /\ disk' = [disk EXCEPT ![new[p]] = [@ EXCEPT !.part = w, !.mtime = now]]
    BY <1>4 DEF CopyRecords
  <2>2. \A x \in Inodes : disk'[x].part = IF x = new[p] THEN w ELSE disk[x].part
    <3> DEFINE f == [disk[new[p]] EXCEPT !.part = w, !.mtime = now]
    <3>1. new[p] \in Inodes /\ disk[new[p]] \in File
      BY <1>4 DEF CopyRecords, IInv, TypeOK, Owning, Closing, InUse, Live
    <3>2. f.part = w
      BY <3>1 DEF File
    <3>3. disk' = [disk EXCEPT ![new[p]] = f]
      BY <2>1
    <3> HIDE DEF f
    <3> QED  BY <3>1, <3>2, <3>3 DEF IInv, TypeOK
  <2> QED  BY <2>1, <2>2
<1>5. ASSUME NEW p \in Procs,
             \/ CloseDiscard(p) \/ CloseStreams(p) \/ Swap(p) \/ Drop(p)
             \/ ClearClose(p) \/ ClearRemove(p) \/ Crash(p)
      PROVE  ShortAllowed'
  <2>1. DiskBecomes(disk)
    BY <1>5 DEF CloseDiscard, CloseStreams, Swap, Drop, ClearClose, ClearRemove, Crash
  <2> QED  BY <1>1, <2>1
<1>6. ASSUME NEW p \in Procs,
             \/ \E m \in Modes : OpenBase(p, m) \/ OpenMissing(p, m)
             \/ \E k \in Keys : Add(p, k)
             \/ StatBase(p) \/ WriteFails(p) \/ CheckBase(p)
      PROVE  UNCHANGED disk
  BY <1>6 DEF OpenBase, OpenMissing, Add, StatBase, WriteFails, CheckBase
<1>7. Tick \/ UNCHANGED vars => UNCHANGED disk
  BY DEF Tick, vars
<1> QED  BY <1>2, <1>3, <1>4, <1>5, <1>6, <1>7 DEF Next, Step, CloseStep

\* So that holds in every reachable state.
LEMMA BuiltAlways == Spec => [](Built /\ ShortAllowed)
<1>1. Init => Built /\ ShortAllowed
  <2>1. Init => Built
    BY ConstantsOK DEF Init, Built, Closing, PublishedWhole
  <2>2. Init => ShortAllowed
    BY DEF Init, ShortAllowed, NoFile
  <2> QED  BY <2>1, <2>2
<1>2. IInv /\ Built /\ ShortAllowed /\ [Next]_vars => (Built /\ ShortAllowed)'
  BY BuiltKept, ShortKept
<1> QED  BY <1>1, <1>2, Invariance, PTL DEF Spec

\* No crash, failed write or race publishes a file that is still to be written: the
\* database name leads to a complete database, or to one whose own copies ended
\* early, which only happens where ShortCopies lets them.
THEOREM PublishedIsWhole ==
  Spec => [](PublishedWhole /\ (~ShortCopies => PublishesOnlyWhole))
<1>1. IInv /\ Built /\ ShortAllowed => PublishedWhole /\ (~ShortCopies => PublishesOnlyWhole)
  <2> SUFFICES ASSUME IInv, Built, ShortAllowed, ~ShortCopies, path # None
               PROVE  disk[path].part = "whole"
    BY DEF Built, PublishesOnlyWhole
  <2>1. path \in Inodes /\ disk[path] \in File
    BY DEF IInv, TypeOK
  <2> QED  BY <2>1 DEF Built, ShortAllowed, PublishedWhole, File
<1> QED  BY <1>1, Invariance, BuiltAlways, PTL

-----------------------------------------------------------------------------
(***************************************************************************)
(* cachedb implements the snapshot store.  A step of a session is one step *)
(* of the store or leaves it alone:                                        *)
(*    OpenBase, StatBase                            Open                   *)
(*    Add                                           Add                    *)
(*    Swap                                          Commit, or Spoil       *)
(*    CloseDiscard, WriteFails, a failed CheckBase,                        *)
(*    ClearClose, Crash                             Abandon                *)
(*    ClearRemove                                   Remove                 *)
(***************************************************************************)

\* Every step is a step of the abstract store, or changes nothing it knows of.
LEMMA StepImplements ==
  ASSUME IInv, Built, ShortAllowed, None \notin SUBSET Keys, NEW p \in Procs, Step(p)
  PROVE  [Store!Next]_Store!storeVars
<1> USE ConstantsOK DEF Viewing
<1>0. /\ pc \in [Procs -> PCs] /\ index \in [Procs -> SUBSET Keys]
      /\ adds \in [Procs -> SUBSET Keys] /\ disk \in [Inodes -> File]
      /\ path \in Inodes \cup {None}
      /\ \A i \in Inodes : disk[i].part = "short" => ShortCopies
      /\ \A q \in Procs : index[q] # None
      /\ pc[p] = "idle" => adds[p] = {} /\ index[p] = {}
      /\ pc[p] = "stat" => adds[p] = {} /\ index[p] = {}
  BY DEF IInv, TypeOK, Built, ShortAllowed, Blank
<1>1. ASSUME NEW m \in Modes, OpenBase(p, m)  PROVE Store!Open(p)
  <2>1. StoreNow' = StoreNow /\ StoreNow = disk[path].keys /\ StoreNow # None
    BY <1>0, <1>1 DEF OpenBase, StoreNow, File
  <2>2. ViewNow[p] = None /\ ViewNow' = [ViewNow EXCEPT ![p] = disk[path].keys]
    BY <1>0, <1>1 DEF OpenBase, Goto, ViewNow
  <2>3. AddedNow' = AddedNow
    BY <1>0, <1>1 DEF OpenBase, Goto, AddedNow
  <2> QED  BY <2>1, <2>2, <2>3 DEF Store!Open, Store!Contents
<1>2. ASSUME StatBase(p)  PROVE Store!Open(p)
  <2>1. StoreNow' = StoreNow
    BY <1>2 DEF StatBase, StoreNow
  <2>2. ViewNow[p] = None /\ ViewNow' = [ViewNow EXCEPT ![p] = {}]
    BY <1>0, <1>2 DEF StatBase, Goto, ViewNow
  <2>3. AddedNow' = AddedNow
    BY <1>0, <1>2 DEF StatBase, Goto, AddedNow
  <2> QED  BY <2>1, <2>2, <2>3 DEF Store!Open
<1>3. ASSUME NEW k \in Keys, Add(p, k)  PROVE Store!Add(p, k)
  <2>1. StoreNow' = StoreNow
    BY <1>3 DEF Add, StoreNow
  <2>2. ViewNow[p] = index[p] /\ index[p] # None /\ ViewNow' = ViewNow
    BY <1>0, <1>3 DEF Add, ViewNow
  <2>3. AddedNow[p] = adds[p] /\ AddedNow' = [AddedNow EXCEPT ![p] = @ \cup {k}]
    BY <1>0, <1>3 DEF Add, AddedNow
  <2> QED  BY <1>3, <2>1, <2>2, <2>3 DEF Store!Add, Add
<1>4. ASSUME Swap(p)  PROVE Store!Commit(p) \/ Store!Spoil(p)
  <2>1. /\ new[p] \in Inodes /\ disk'[new[p]] = disk[new[p]]
        /\ path' = new[p] /\ disk[new[p]].keys = index[p] \cup adds[p]
        /\ adds[p] # {} /\ disk[new[p]].part # "begun" /\ new[p] # None
    BY <1>0, <1>4
    DEF Swap, DiskBecomes, Live, IInv, TypeOK, Owning, Built, Closing
  <2>2. \/ StoreNow' = index[p] \cup adds[p]
        \/ ShortCopies /\ StoreNow' = None
    BY <1>0, <2>1 DEF StoreNow, File
  <2>3. ViewNow[p] = index[p] /\ ViewNow' = [ViewNow EXCEPT ![p] = None]
    BY <1>0, <1>4 DEF Swap, Release, ViewNow
  <2>4. AddedNow[p] = adds[p] /\ AddedNow' = [AddedNow EXCEPT ![p] = {}]
    BY <1>0, <1>4 DEF Swap, Release, AddedNow
  <2> QED  BY <1>0, <2>1, <2>2, <2>3, <2>4 DEF Store!Commit, Store!Spoil, Store!Finish
<1>5. ASSUME StoreNow' = StoreNow, pc'[p] \notin Viewing,
             \A q \in Procs \ {p} :
                 pc'[q] = pc[q] /\ index'[q] = index[q] /\ adds'[q] = adds[q]
      PROVE  Store!Abandon(p) \/ UNCHANGED Store!storeVars
  <2>1. ViewNow' = [ViewNow EXCEPT ![p] = None]
    BY <1>5 DEF ViewNow
  <2>2. AddedNow' = [AddedNow EXCEPT ![p] = {}]
    BY <1>5 DEF AddedNow
  <2>3. CASE pc[p] \in Viewing
    <3>1. ViewNow[p] # None
      BY <1>0, <2>3 DEF ViewNow
    <3> QED  BY <1>5, <2>1, <2>2, <3>1 DEF Store!Abandon, Store!Finish
  <2>4. CASE pc[p] \notin Viewing
    <3>1. ViewNow' = ViewNow /\ AddedNow' = AddedNow
      BY <2>1, <2>2, <2>4 DEF ViewNow, AddedNow
    <3> QED  BY <1>5, <3>1 DEF Store!storeVars
  <2> QED  BY <2>3, <2>4
<1>6. ASSUME CloseDiscard(p) \/ WriteFails(p) \/ Drop(p) \/ ClearClose(p) \/ Crash(p)
      PROVE  Store!Abandon(p) \/ UNCHANGED Store!storeVars
  <2>1. /\ pc'[p] \notin Viewing
        /\ \A q \in Procs \ {p} :
              pc'[q] = pc[q] /\ index'[q] = index[q] /\ adds'[q] = adds[q]
    BY <1>0, <1>6
    DEF CloseDiscard, WriteFails, Drop, ClearClose, Crash, Release, Goto, IInv, TypeOK
  <2>2. path' = path /\ (path # None => disk'[path] = disk[path])
    <3>1. path # None => path \in Inodes /\ path \in Live'
      BY <1>0, <1>6 DEF CloseDiscard, WriteFails, Drop, ClearClose, Crash, Live
    <3> QED
      BY <1>6, <3>1 DEF CloseDiscard, WriteFails, Drop, ClearClose, Crash, DiskBecomes
  <2> QED  BY <1>5, <2>1, <2>2 DEF StoreNow
<1>7. ASSUME CheckBase(p)  PROVE Store!Abandon(p) \/ UNCHANGED Store!storeVars
  <2>1. StoreNow' = StoreNow
    BY <1>7 DEF CheckBase, StoreNow
  <2>2. CASE BaseOk(p)
    <3>1. ViewNow' = ViewNow /\ AddedNow' = AddedNow
      BY <1>0, <1>7, <2>2 DEF CheckBase, Goto, ViewNow, AddedNow
    <3> QED  BY <2>1, <3>1 DEF Store!storeVars
  <2>3. CASE ~BaseOk(p)
    BY <1>0, <1>5, <1>7, <2>1, <2>3 DEF CheckBase, Goto
  <2> QED  BY <2>2, <2>3
<1>8. ASSUME ClearRemove(p)  PROVE Store!Remove
  <2>1. StoreNow' = None
    BY <1>8 DEF ClearRemove, StoreNow
  <2>2. ViewNow' = ViewNow /\ AddedNow' = AddedNow
    BY <1>0, <1>8 DEF ClearRemove, Goto, ViewNow, AddedNow
  <2> QED  BY <2>1, <2>2 DEF Store!Remove
<1>9. ASSUME \/ \E m \in Modes : OpenMissing(p, m)
             \/ \E i \in Inodes : CreateNew(p, i)
             \/ CopyRecords(p) \/ CloseStreams(p)
      PROVE  UNCHANGED Store!storeVars
  <2>1. ViewNow' = ViewNow /\ AddedNow' = AddedNow
    <3>1. PICK at : /\ pc' = [pc EXCEPT ![p] = at] /\ index' = index /\ adds' = adds
                    /\ at \in Viewing <=> pc[p] \in Viewing
      BY <1>9 DEF OpenMissing, CreateNew, CopyRecords, CloseStreams, Goto, Viewing
    <3> QED  BY <1>0, <3>1 DEF ViewNow, AddedNow
  <2>2. path' = path /\ (path # None => disk'[path] = disk[path])
    <3>1. path # None => path \in Inodes /\ path \in Live /\ path \notin temps
      BY <1>0 DEF IInv, Apart, Live
    <3>2. CASE \/ \E m \in Modes : OpenMissing(p, m)
               \/ CloseStreams(p)
      BY <3>1, <3>2 DEF OpenMissing, CloseStreams, DiskBecomes, Live
    <3>3. ASSUME NEW i \in Inodes, CreateNew(p, i)
          PROVE  path' = path /\ (path # None => disk'[path] = disk[path])
      BY <1>0, <3>1, <3>3 DEF CreateNew, DiskBecomes, Live
    <3>4. CASE CopyRecords(p)
      <4>1. new[p] \in temps
        BY <3>4 DEF CopyRecords, IInv, Owning, Closing
      <4> QED  BY <1>0, <3>1, <3>4, <4>1 DEF CopyRecords
    <3> QED  BY <1>9, <3>2, <3>3, <3>4
  <2> QED  BY <2>1, <2>2 DEF StoreNow, Store!storeVars
<1>10. Store!Next \/ UNCHANGED Store!storeVars
  <2>1. Store!Open(p) \/ Store!Commit(p) \/ Store!Spoil(p) \/ Store!Abandon(p) \/ Store!Remove
          \/ (\E k \in Keys : Store!Add(p, k)) \/ UNCHANGED Store!storeVars
    BY <1>1, <1>2, <1>3, <1>4, <1>6, <1>7, <1>8, <1>9 DEF Step, CloseStep
  <2> QED  BY <2>1 DEF Store!Next
<1> QED  BY <1>10

\* cachedb implements the atomic snapshot store, where short copies are its torn
\* commits, if the marker for "no database" is not itself a set of keys.
THEOREM ImplementsSnapshotStore ==
  ASSUME None \notin SUBSET Keys
  PROVE  Spec => ImplementsStore
<1>1. Init => Store!Init
  <2> SUFFICES ASSUME Init  PROVE Store!Init
    OBVIOUS
  <2>1. ViewNow = [p \in Procs |-> None] /\ AddedNow = [p \in Procs |-> {}]
    BY DEF Init, ViewNow, AddedNow, Viewing
  <2>2. StoreNow \in {None} \cup SUBSET Keys
    BY ConstantsOK DEF Init, StoreNow
  <2> QED  BY <2>1, <2>2 DEF Store!Init
<1>2. IInv /\ Built /\ ShortAllowed /\ [Next]_vars => [Store!Next]_Store!storeVars
  <2> SUFFICES ASSUME IInv, Built, ShortAllowed, [Next]_vars
               PROVE  [Store!Next]_Store!storeVars
    OBVIOUS
  <2>1. CASE Tick \/ UNCHANGED vars
    <3>1. StoreNow' = StoreNow /\ ViewNow' = ViewNow /\ AddedNow' = AddedNow
      BY <2>1 DEF Tick, vars, sesVars, StoreNow, ViewNow, AddedNow
    <3> QED  BY <3>1 DEF Store!storeVars
  <2>2. ASSUME NEW p \in Procs, Step(p)  PROVE [Store!Next]_Store!storeVars
    BY <2>2, StepImplements
  <2> QED  BY <2>1, <2>2 DEF Next
<1> QED  BY <1>1, <1>2, Invariance, BuiltAlways, PTL
         DEF Spec, ImplementsStore, Store!Spec


-----------------------------------------------------------------------------
(* Disk usage.                                                             *)

\* The temporary files nobody will rename or remove any more.
Owned   == {new[p] : p \in Building}
Orphans == temps \ Owned

OrphansPaid == IsFiniteSet(temps) /\ Cardinality(Orphans) <= faults

\* Any step makes at most one orphan, and only a crash or a failed write does.
LEMMA OrphansMade ==
  ASSUME IInv, [Next]_vars
  PROVE  /\ \E i : temps' \subseteq temps \cup {i}
         /\ \/ Orphans' \subseteq Orphans /\ faults' = faults
            \/ faults' = faults + 1 /\ \E i : Orphans' \subseteq Orphans \cup {i}
<1>1. CASE UNCHANGED <<temps, new>> /\ faults' = faults
  BY <1>1 DEF Orphans, Owned, Building
<1>2. ASSUME NEW p \in Procs, NEW i \in Inodes, CreateNew(p, i)
      PROVE  temps' \subseteq temps \cup {i} /\ Orphans' \subseteq Orphans /\ faults' = faults
  <2>1. /\ temps' = temps \cup {i} /\ faults' = faults /\ new[p] = None
        /\ new' = [new EXCEPT ![p] = i] /\ new \in [Procs -> Inodes \cup {None}] /\ i # None
    BY <1>2, ConstantsOK DEF CreateNew, IInv, TypeOK, Owning, Closing
  <2>2. i \in Owned' /\ Owned \subseteq Owned'
    BY <2>1 DEF Owned, Building
  <2> QED  BY <2>1, <2>2 DEF Orphans
<1>3. ASSUME NEW p \in Procs, Swap(p) \/ Drop(p)
      PROVE  temps' \subseteq temps /\ Orphans' \subseteq Orphans /\ faults' = faults
  <2>1. /\ temps' = temps \ {new[p]} /\ faults' = faults
        /\ new' = [new EXCEPT ![p] = None] /\ new \in [Procs -> Inodes \cup {None}]
    BY <1>3 DEF Swap, Drop, Release, IInv, TypeOK
  <2>2. Owned \ {new[p]} \subseteq Owned'
    BY <2>1 DEF Owned, Building
  <2> QED  BY <2>1, <2>2 DEF Orphans
<1>4. ASSUME NEW p \in Procs, CloseDiscard(p) \/ ClearClose(p)
      PROVE  UNCHANGED <<temps, new>> /\ faults' = faults
  <2>1. new[p] = None /\ new \in [Procs -> Inodes \cup {None}]
    BY <1>4 DEF CloseDiscard, ClearClose, IInv, TypeOK, Owning, Closing
  <2>2. new' = [new EXCEPT ![p] = None] /\ temps' = temps /\ faults' = faults
    BY <1>4 DEF CloseDiscard, ClearClose, Release
  <2> QED  BY <2>1, <2>2
<1>5. ASSUME NEW p \in Procs, WriteFails(p) \/ Crash(p)
      PROVE  temps' = temps /\ faults' = faults + 1 /\ Orphans' \subseteq Orphans \cup {new[p]}
  <2>1. /\ temps' = temps /\ faults' = faults + 1
        /\ new' = [new EXCEPT ![p] = None] /\ new \in [Procs -> Inodes \cup {None}]
    BY <1>5 DEF WriteFails, Crash, Release, IInv, TypeOK
  <2>2. Owned \ {new[p]} \subseteq Owned'
    BY <2>1 DEF Owned, Building
  <2> QED  BY <2>1, <2>2 DEF Orphans
<1>6. ASSUME NEW p \in Procs, CopyRecords(p) \/ CloseStreams(p) \/ CheckBase(p)
                              \/ StatBase(p) \/ ClearRemove(p)
      PROVE  UNCHANGED <<temps, new>> /\ faults' = faults
  BY <1>6 DEF CopyRecords, CloseStreams, CheckBase, StatBase, ClearRemove
<1>7. ASSUME NEW p \in Procs, NEW m \in Modes, OpenBase(p, m) \/ OpenMissing(p, m)
      PROVE  UNCHANGED <<temps, new>> /\ faults' = faults
  BY <1>7 DEF OpenBase, OpenMissing
<1>8. ASSUME NEW p \in Procs, NEW k \in Keys, Add(p, k)
      PROVE  UNCHANGED <<temps, new>> /\ faults' = faults
  BY <1>8 DEF Add
<1>9. Tick \/ UNCHANGED vars => UNCHANGED <<temps, new>> /\ faults' = faults
  BY DEF Tick, vars, sesVars
<1> QED  BY <1>1, <1>2, <1>3, <1>4, <1>5, <1>6, <1>7, <1>8, <1>9 DEF Next, Step, CloseStep

\* The temporary files in the directory are those of closes in progress, and at most one
\* left behind per crash or failed write, however many sessions there are.
THEOREM TempsAreAccounted == Spec => []TempsAccounted
<1>1. Init => OrphansPaid
  <2> SUFFICES ASSUME Init PROVE OrphansPaid
    OBVIOUS
  <2>1. temps = {} /\ Orphans = {} /\ faults = 0
    BY DEF Init, Orphans
  <2> QED  BY <2>1, FS_EmptySet DEF OrphansPaid
<1>2. IInv /\ OrphansPaid /\ [Next]_vars => OrphansPaid'
  <2> SUFFICES ASSUME IInv, OrphansPaid, [Next]_vars PROVE OrphansPaid'
    OBVIOUS
  <2>1. IsFiniteSet(temps')
    <3>1. PICK i : temps' \subseteq temps \cup {i}
      BY OrphansMade
    <3>2. IsFiniteSet(temps \cup {i})
      BY FS_AddElement DEF OrphansPaid
    <3> QED  BY <3>1, <3>2, FS_Subset
  <2>2. IsFiniteSet(Orphans) /\ Cardinality(Orphans) \in Nat /\ Cardinality(Orphans) <= faults
        /\ faults \in Nat
    <3>1. IsFiniteSet(Orphans)
      BY FS_Subset DEF OrphansPaid, Orphans
    <3> QED  BY <3>1, FS_CardinalityType DEF OrphansPaid, IInv, TypeOK
  <2>3. CASE Orphans' \subseteq Orphans /\ faults' = faults
    <3>1. Cardinality(Orphans') <= Cardinality(Orphans) /\ Cardinality(Orphans') \in Nat
      BY <2>2, <2>3, FS_Subset, FS_CardinalityType
    <3> QED  BY <2>1, <2>2, <2>3, <3>1 DEF OrphansPaid
  <2>4. ASSUME faults' = faults + 1, NEW i, Orphans' \subseteq Orphans \cup {i}
        PROVE  OrphansPaid'
    <3>1. IsFiniteSet(Orphans \cup {i}) /\ Cardinality(Orphans \cup {i}) <= Cardinality(Orphans) + 1
      BY <2>2, FS_AddElement
    <3>2. /\ Cardinality(Orphans') <= Cardinality(Orphans \cup {i})
          /\ Cardinality(Orphans') \in Nat /\ Cardinality(Orphans \cup {i}) \in Nat
      BY <2>4, <3>1, FS_Subset, FS_CardinalityType
    <3> QED  BY <2>1, <2>2, <2>4, <3>1, <3>2 DEF OrphansPaid
  <2> QED  BY <2>3, <2>4, OrphansMade
<1>3. IInv /\ OrphansPaid => TempsAccounted
  <2> SUFFICES ASSUME IInv, OrphansPaid PROVE TempsAccounted
    OBVIOUS
  <2> DEFINE f == [p \in Building |-> new[p]]
  <2>1. f \in Injection(Building, temps)
    BY DEF Injection, IsInjective, Building, IInv, Owning
  <2>2. f \in Surjection(Building, Owned)
    BY DEF Surjection, Owned
  <2> HIDE DEF f
  <2>3. IsFiniteSet(Building)
    BY <2>1, FS_Injection DEF OrphansPaid
  <2>4. IsFiniteSet(Owned) /\ Cardinality(Owned) <= Cardinality(Building)
    BY <2>2, <2>3, FS_Surjection
  <2>5. IsFiniteSet(Orphans)
    BY FS_Subset DEF OrphansPaid, Orphans
  <2>6. /\ IsFiniteSet(Orphans \cup Owned)
        /\ Cardinality(Orphans \cup Owned) =
             Cardinality(Orphans) + Cardinality(Owned) - Cardinality(Orphans \cap Owned)
    BY <2>4, <2>5, FS_Union
  <2>7. temps \subseteq Orphans \cup Owned /\ Orphans \cap Owned = {}
    BY DEF Orphans
  <2>8. Cardinality(temps) <= Cardinality(Orphans \cup Owned)
    BY <2>6, <2>7, FS_Subset
  <2>9. /\ Cardinality(temps) \in Nat /\ Cardinality(Orphans) \in Nat /\ Cardinality(Owned) \in Nat
        /\ Cardinality(Building) \in Nat /\ Cardinality(Orphans \cap Owned) = 0
    BY <2>3, <2>4, <2>5, <2>7, FS_CardinalityType, FS_EmptySet DEF OrphansPaid
  <2>10. Cardinality(temps) <= Cardinality(Orphans) + Cardinality(Owned)
    BY <2>6, <2>8, <2>9
  <2>11. Cardinality(Orphans) <= faults /\ faults \in Nat
    BY DEF OrphansPaid, IInv, TypeOK
  <2> QED  BY <2>4, <2>9, <2>10, <2>11 DEF TempsAccounted
<1> QED  BY <1>1, <1>2, <1>3, Invariance, PTL DEF Spec
=============================================================================
