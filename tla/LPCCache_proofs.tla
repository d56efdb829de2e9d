-------------------------- MODULE LPCCache_proofs --------------------------
(***************************************************************************)
(* Proofs about the opcode cache, for any number of processes and files,   *)
(* any lpc.file_update_protection and any clock: a cached compile is never *)
(* stale while its modification time matches.                              *)
(***************************************************************************)
EXTENDS LPCCache, TLAPS

(***************************************************************************)
(* The inductive invariant.                                                *)
(***************************************************************************)

\* Nothing is stamped with a time to come, and a compiled file that is cached
\* was last changed before the present second.
Clock ==
    /\ \A f \in Files : src[f].mtime <= now
    /\ \A p \in Procs : start[p] <= now
    /\ \A r \in AllRecords : r.file # Ctx => r.mtime < now

\* What a request holds at each point of its life.
Phase ==
    \A p \in Procs :
        /\ enabled[p] => /\ pc[p] \in {"run", "fixed", "stop", "crashed"}
                         /\ SameContext(p)
        /\ pc[p] = "fixed" => enabled[p] /\ buf[p] \in [file : Files, ver : 0..MaxVer]
        /\ pc[p] = "context" => added[p] = {}
        /\ view[p] = None => added[p] = {}
        /\ pc[p] \in {"idle", "stat"} => main[p].ver = 0

\* A file that was read and not changed since the request began still has the
\* version that was read.
ReadInTime ==
    \A p \in Procs : pc[p] = "fixed" =>
        (src[buf[p].file].mtime < start[p] => src[buf[p].file].ver = buf[p].ver)

\* The same of the script and the version its stat found.
MainSeen ==
    \A p \in Procs :
        /\ main[p].ver <= src[Main].ver
        /\ pc[p] \notin {"idle", "stat"} /\ src[Main].mtime < start[p] =>
              src[Main] = main[p]

\* The compiled script and the context record of one database agree.
Agree(S) ==
    \A c, r \in S : c.file = Ctx /\ r.file \in {Ctx, Main} => c.mtime = r.mtime
Coherent ==
    /\ store # None => Agree(store)
    /\ \A p \in Procs : Agree(Snapshot(p))

\* A compiled script as old as the one a request found is not an older version.
NotOlder ==
    \A r \in AllRecords, p \in Procs :
        r.file = Main /\ r.mtime = main[p].mtime => r.ver >= main[p].ver

IInv ==
    /\ TypeOK
    /\ Clock
    /\ Phase
    /\ ReadInTime
    /\ MainSeen
    /\ Coherent
    /\ NotOlder
    /\ TimeIdentifiesVersion

-----------------------------------------------------------------------------
(* Which records a step leaves in use.                                     *)

\* The records in use are those of the database and of the open sessions.
LEMMA InUse ==
  ASSUME NEW r
  PROVE  r \in AllRecords <=> \/ store # None /\ r \in store
                             \/ \E p \in Procs : r \in Snapshot(p)
BY DEF AllRecords

\* A step that changes no source file and uses no new record keeps what is
\* known of the records.
LEMMA RecordsKept ==
  ASSUME IInv, TypeOK', now' >= now, src' = src,
         \A r : r \in AllRecords' => r \in AllRecords
  PROVE  /\ \A r \in AllRecords' : r.file # Ctx => r.mtime < now'
         /\ TimeIdentifiesVersion'
<1>1. \A r \in AllRecords' : r \in AllRecords /\ r \in Records
  BY InUse DEF IInv, TypeOK, Snapshot
<1> QED  BY <1>1 DEF IInv, TypeOK, Clock, TimeIdentifiesVersion, Records

\* So does a step that uses one new record, of a file that was compiled in the
\* version it has, and that was last changed before the present second.
LEMMA RecordAdded ==
  ASSUME IInv, TypeOK', now' = now, src' = src, NEW a \in Records,
         \A r : r \in AllRecords' => r \in AllRecords \/ r = a,
         a.file # Ctx => /\ a.mtime < now
                         /\ src[a.file].mtime = a.mtime => src[a.file].ver = a.ver
  PROVE  /\ \A r \in AllRecords' : r.file # Ctx => r.mtime < now'
         /\ TimeIdentifiesVersion'
BY DEF IInv, TypeOK, Clock, TimeIdentifiesVersion

-----------------------------------------------------------------------------
(* The steps of a request.                                                 *)

\* Steps that neither touch the cache nor the sources keep the invariant.
QuietStep(p) ==
    \/ LoadUnchecked(p) \/ (\E f \in Files : Fixup(p, f)) \/ LoadChecked(p)
    \/ CompileOnly(p) \/ CompileFatal(p) \/ IncludeOnce(p)
    \/ AskClear(p) \/ EndScript(p)

LEMMA QuietKeeps ==
  ASSUME IInv, NEW p \in Procs, QuietStep(p)
  PROVE  IInv'
<1> USE ConstantsOK DEF IInv, cacheVars, reqVars, Goto, Note, Disable
<1>1. TypeOK'
  <2>1. CASE LoadUnchecked(p) \/ LoadChecked(p)
    <3>1. PICK r \in Index(p) : buf' = [buf EXCEPT ![p] = [file |-> r.file, ver |-> r.ver]]
      BY <2>1 DEF LoadUnchecked, LoadChecked
    <3>2. r \in Records /\ r.file \in Files
      BY DEF Index, Snapshot, TypeOK, Records
    <3>3. buf' \in [Procs -> [file : Files, ver : 0..MaxVer] \cup {None}]
      BY <3>1, <3>2 DEF TypeOK, Records
    <3> QED  BY <2>1, <3>3 DEF LoadUnchecked, LoadChecked, TypeOK, PCs
  <2>2. CASE \E f \in Files : Fixup(p, f)
    BY <2>2 DEF Fixup, TypeOK, Stamp, PCs
  <2>3. CASE CompileOnly(p) \/ CompileFatal(p) \/ IncludeOnce(p)
    BY <2>3 DEF CompileOnly, CompileFatal, IncludeOnce, TypeOK, PCs
  <2>4. CASE AskClear(p) \/ EndScript(p)
    <3>1. noted[p] \cup {"call"} \in SUBSET Notes /\ noted[p] \cup {"error"} \in SUBSET Notes
      BY DEF TypeOK, Notes
    <3>2. noted' \in [Procs -> SUBSET Notes]
      BY <2>4, <3>1 DEF AskClear, EndScript, TypeOK
    <3> QED  BY <2>4, <3>2 DEF AskClear, EndScript, TypeOK, PCs
  <2> QED  BY <2>1, <2>2, <2>3, <2>4 DEF QuietStep
<1>2. UNCHANGED <<now, src, store, view, added, start, main>>
  BY DEF QuietStep, LoadUnchecked, Fixup, LoadChecked, CompileOnly, CompileFatal,
         IncludeOnce, AskClear, EndScript
<1>3. AllRecords' = AllRecords /\ \A q \in Procs : Snapshot(q)' = Snapshot(q)
  BY <1>2 DEF AllRecords, Snapshot
<1>4. Clock' /\ TimeIdentifiesVersion'
  BY <1>1, <1>2, <1>3, RecordsKept DEF Clock, TypeOK
<1>5. Coherent' /\ NotOlder'
  BY <1>2, <1>3 DEF Coherent, NotOlder
<1>6. pc[p] \notin {"idle", "stat", "open", "context"} /\ \A q \in Procs \ {p} : pc'[q] = pc[q]
  BY DEF QuietStep, LoadUnchecked, Fixup, LoadChecked, CompileOnly, CompileFatal,
         IncludeOnce, AskClear, EndScript, TypeOK
<1>7. pc'[p] \in {"run", "fixed", "stop", "crashed"}
  BY DEF QuietStep, LoadUnchecked, Fixup, LoadChecked, CompileOnly, CompileFatal,
         IncludeOnce, AskClear, EndScript, TypeOK
<1>8. MainSeen'
  BY <1>2, <1>6 DEF MainSeen
<1>9. \A q \in Procs : SameContext(q)' = SameContext(q)
  BY <1>2, <1>3 DEF SameContext
<1>10. Phase' /\ ReadInTime'
  <2>1. CASE \E f \in Files : Fixup(p, f)
    BY <2>1, <1>2, <1>9 DEF Fixup, Phase, ReadInTime, TypeOK, Stamp
  <2>2. CASE ~ \E f \in Files : Fixup(p, f)
    <3>1. pc'[p] # "fixed" /\ \A q \in Procs \ {p} : buf'[q] = buf[q]
      BY <2>2 DEF QuietStep, LoadUnchecked, LoadChecked, CompileOnly, CompileFatal,
                  IncludeOnce, AskClear, EndScript, TypeOK
    <3>2. \A q \in Procs : enabled'[q] => enabled[q]
      BY <2>2 DEF QuietStep, LoadUnchecked, LoadChecked, CompileOnly, CompileFatal,
                  IncludeOnce, AskClear, EndScript, TypeOK
    <3>3. \A q \in Procs \ {p} : enabled'[q] = enabled[q]
      BY <2>2 DEF QuietStep, LoadUnchecked, LoadChecked, CompileOnly, CompileFatal,
                  IncludeOnce, AskClear, EndScript, TypeOK
    <3> QED  BY <3>1, <3>2, <3>3, <1>2, <1>6, <1>7, <1>9 DEF Phase, ReadInTime
  <2> QED  BY <2>1, <2>2
<1> QED  BY <1>1, <1>4, <1>5, <1>8, <1>10

\* The start of a request keeps the invariant.
LEMMA BeginKeeps ==
  ASSUME IInv, NEW p \in Procs, Begin(p)
  PROVE  IInv'
<1> USE ConstantsOK DEF IInv, Begin, cacheVars, Goto
<1>1. TypeOK'
  <2>1. PICK ns \in SUBSET (ClearWays \cap {"cookie"}) : noted' = [noted EXCEPT ![p] = ns]
    OBVIOUS
  <2>2. ns \in SUBSET Notes
    BY DEF Notes
  <2>3. noted' \in [Procs -> SUBSET Notes]
    BY <2>1, <2>2 DEF TypeOK
  <2> QED  BY <2>3 DEF TypeOK, PCs
<1>2. AllRecords' = AllRecords /\ \A q \in Procs : Snapshot(q)' = Snapshot(q)
  BY DEF AllRecords, Snapshot
<1>3. \A q \in Procs : SameContext(q)' = SameContext(q)
  BY <1>2 DEF SameContext
<1>4. Clock' /\ TimeIdentifiesVersion'
  BY <1>1, <1>2, RecordsKept DEF Clock, TypeOK
<1>5. Coherent' /\ NotOlder' /\ Phase' /\ ReadInTime' /\ MainSeen'
  BY <1>2, <1>3 DEF Coherent, NotOlder, Phase, ReadInTime, MainSeen, TypeOK
<1> QED  BY <1>1, <1>4, <1>5

\* The stat of the script keeps the invariant: whatever compiled script carries
\* the time it finds also has the version it finds.
LEMMA StatMainKeeps ==
  ASSUME IInv, NEW p \in Procs, StatMain(p)
  PROVE  IInv'
<1> USE ConstantsOK DEF IInv, StatMain, cacheVars, Goto
<1>0. Main \in Files
  BY DEF Files
<1>1. TypeOK'
  BY <1>0 DEF TypeOK, PCs
<1>2. AllRecords' = AllRecords /\ \A q \in Procs : Snapshot(q)' = Snapshot(q)
  BY DEF AllRecords, Snapshot
<1>3. \A q \in Procs \ {p} : SameContext(q)' = SameContext(q)
  BY <1>2 DEF SameContext, TypeOK
<1>4. Clock' /\ TimeIdentifiesVersion'
  BY <1>1, <1>2, RecordsKept DEF Clock, TypeOK
<1>5. Coherent' /\ Phase' /\ ReadInTime'
  BY <1>2, <1>3 DEF Coherent, Phase, ReadInTime, TypeOK
<1>6. MainSeen'
  BY <1>0 DEF MainSeen, TypeOK, Stamp
<1>7. NotOlder'
  <2>1. \A r \in AllRecords : r \in Records
    BY InUse DEF TypeOK, Snapshot
  <2>2. \A r \in AllRecords :
           r.file = Main /\ r.mtime = src[Main].mtime => r.ver = src[Main].ver
    BY DEF TimeIdentifiesVersion, Files
  <2> QED  BY <1>0, <1>2, <2>1, <2>2 DEF NotOlder, TypeOK, Stamp, Records
<1> QED  BY <1>1, <1>4, <1>5, <1>6, <1>7

\* The open of the cache keeps the invariant.
LEMMA OpenCacheKeeps ==
  ASSUME IInv, NEW p \in Procs, OpenCache(p)
  PROVE  IInv'
<1> USE ConstantsOK DEF IInv, OpenCache, reqVars, Goto, DB!Open, DB!Contents
<1>1. /\ added[p] = {}
      /\ view'[p] = {} \/ (store # None /\ view'[p] = store)
      /\ \A q \in Procs \ {p} : view'[q] = view[q]
  BY DEF Phase, TypeOK
<1>2. TypeOK'
  BY DEF TypeOK, PCs
<1>3. /\ Snapshot(p)' = {} \/ (store # None /\ Snapshot(p)' = store)
      /\ \A q \in Procs \ {p} : Snapshot(q)' = Snapshot(q)
  BY <1>1 DEF Snapshot
<1>4. \A r : r \in AllRecords' => r \in AllRecords
  BY <1>3 DEF AllRecords
<1>5. \A q \in Procs \ {p} : SameContext(q)' = SameContext(q)
  BY <1>3 DEF SameContext
<1>6. Clock' /\ TimeIdentifiesVersion'
  BY <1>2, <1>4, RecordsKept DEF Clock, TypeOK
<1>7. Coherent'
  BY <1>3 DEF Coherent, Agree
<1>8. Phase'
  BY <1>1, <1>5 DEF Phase, TypeOK
<1>9. NotOlder' /\ ReadInTime' /\ MainSeen'
  BY <1>4 DEF NotOlder, ReadInTime, MainSeen, TypeOK
<1> QED  BY <1>2, <1>6, <1>7, <1>8, <1>9

\* Accepting the cache keeps the invariant.
LEMMA AcceptContextKeeps ==
  ASSUME IInv, NEW p \in Procs, AcceptContext(p)
  PROVE  IInv'
<1> USE ConstantsOK DEF IInv, AcceptContext, cacheVars, reqVars, Goto
<1>1. TypeOK'
  BY DEF TypeOK, PCs
<1>2. AllRecords' = AllRecords /\ \A q \in Procs : Snapshot(q)' = Snapshot(q)
  BY DEF AllRecords, Snapshot
<1>3. \A q \in Procs : SameContext(q)' = SameContext(q)
  BY <1>2 DEF SameContext
<1>4. Clock' /\ TimeIdentifiesVersion'
  BY <1>1, <1>2, RecordsKept DEF Clock, TypeOK
<1>5. Coherent' /\ NotOlder' /\ ReadInTime' /\ MainSeen'
  BY <1>2 DEF Coherent, NotOlder, ReadInTime, MainSeen, TypeOK
<1>6. Phase'
  BY <1>3 DEF Phase, TypeOK
<1> QED  BY <1>1, <1>4, <1>5, <1>6

\* Creating the context record of a new cache keeps the invariant.
LEMMA NewContextKeeps ==
  ASSUME IInv, NEW p \in Procs, NewContext(p)
  PROVE  IInv'
<1> DEFINE a == [file |-> Ctx, mtime |-> main[p].mtime, ver |-> 0]
<1> USE ConstantsOK DEF IInv, NewContext, reqVars, Goto, DB!Add
<1>1. a \in Records /\ a.file = Ctx /\ a.mtime = main[p].mtime
  BY DEF TypeOK, Records, Stamp
<1>2. added[p] = {} /\ added' = [added EXCEPT ![p] = {a}] /\ view[p] # None
  BY DEF Phase, TypeOK
<1> HIDE DEF a
<1>3. TypeOK'
  BY <1>1, <1>2 DEF TypeOK, PCs
<1>4. Snapshot(p)' = {a} /\ \A q \in Procs \ {p} : Snapshot(q)' = Snapshot(q)
  BY <1>2 DEF Snapshot, TypeOK
<1>5. \A r : r \in AllRecords' => r \in AllRecords \/ r = a
  BY <1>4 DEF AllRecords
<1>6. \A q \in Procs \ {p} : SameContext(q)' = SameContext(q)
  BY <1>4 DEF SameContext
<1>7. SameContext(p)'
  BY <1>1, <1>4 DEF SameContext
<1>8. Clock' /\ TimeIdentifiesVersion'
  BY <1>1, <1>3, <1>5, RecordAdded DEF Clock, TypeOK
<1>9. Coherent'
  BY <1>4 DEF Coherent, Agree
<1>10. Phase'
  BY <1>2, <1>6, <1>7 DEF Phase, TypeOK
<1>11. NotOlder' /\ ReadInTime' /\ MainSeen'
  BY <1>1, <1>5 DEF NotOlder, ReadInTime, MainSeen, TypeOK, Files
<1> QED  BY <1>3, <1>8, <1>9, <1>10, <1>11

\* The end of a session without a commit keeps the invariant, wherever the
\* request goes on from there, provided it is disabled.
LEMMA AbandonKeeps ==
  ASSUME IInv, NEW p \in Procs, DB!Abandon(p), TypeOK', UNCHANGED <<now, src, start>>,
         enabled'[p] = FALSE, pc'[p] \in {"idle", "unlink", "crashed"},
         \/ main' = main /\ pc[p] \notin {"idle", "stat"} /\ pc'[p] # "idle"
         \/ main' = [main EXCEPT ![p] = [mtime |-> 0, ver |-> 0]] /\ pc'[p] = "idle",
         \A q \in Procs \ {p} : enabled'[q] = enabled[q] /\ pc'[q] = pc[q] /\ buf'[q] = buf[q]
  PROVE  IInv'
<1> USE ConstantsOK DEF IInv, DB!Abandon, DB!Finish
<1>1. Snapshot(p)' = {} /\ \A q \in Procs \ {p} : Snapshot(q)' = Snapshot(q)
  BY DEF Snapshot, TypeOK
<1>2. \A r : r \in AllRecords' => r \in AllRecords
  BY <1>1 DEF AllRecords
<1>3. \A q \in Procs \ {p} : main'[q] = main[q] /\ SameContext(q)' = SameContext(q)
  BY <1>1 DEF SameContext, TypeOK
<1>4. Clock' /\ TimeIdentifiesVersion'
  BY <1>2, RecordsKept DEF Clock, TypeOK
<1>5. Coherent'
  BY <1>1 DEF Coherent, Agree
<1>6. Phase' /\ ReadInTime'
  BY <1>3 DEF Phase, ReadInTime, TypeOK
<1>7. MainSeen'
  BY <1>3 DEF MainSeen, TypeOK, Stamp, Files
<1>8. NotOlder'
  <2>1. \A r \in AllRecords : r \in Records
    BY InUse DEF TypeOK, Snapshot
  <2> QED  BY <1>2, <1>3, <2>1 DEF NotOlder, TypeOK, Records
<1> QED  BY <1>4, <1>5, <1>6, <1>7, <1>8

\* So do the steps that end a session that way.
LEMMA DropKeeps ==
  ASSUME IInv, NEW p \in Procs,
         \/ RejectContext(p) \/ ClearStale(p) \/ DiscardCache(p)
         \/ CompileParseError(p) /\ pc'[p] = "crashed"
  PROVE  IInv'
<1> USE ConstantsOK DEF reqVars, Goto, Note, Disable, Reset
<1>1. CASE RejectContext(p)
  <2>1. noted[p] \cup {"mismatch"} \in SUBSET Notes
    BY DEF IInv, TypeOK, Notes
  <2>2. noted' \in [Procs -> SUBSET Notes]
    BY <1>1, <2>1 DEF RejectContext, IInv, TypeOK
  <2>3. TypeOK'
    BY <1>1, <2>2 DEF RejectContext, IInv, TypeOK, PCs, DB!Abandon, DB!Finish
  <2> QED  BY <1>1, <2>3, AbandonKeeps DEF RejectContext, IInv, TypeOK, Phase
<1>2. CASE ClearStale(p)
  <2>1. TypeOK'
    BY <1>2 DEF ClearStale, IInv, TypeOK, PCs, DB!Abandon, DB!Finish
  <2> QED  BY <1>2, <2>1, AbandonKeeps DEF ClearStale, IInv, TypeOK
<1>3. CASE CompileParseError(p) /\ pc'[p] = "crashed"
  <2>1. DB!Abandon(p)
    BY <1>3 DEF CompileParseError, IInv, TypeOK
  <2>2. TypeOK'
    BY <1>3, <2>1 DEF CompileParseError, IInv, TypeOK, PCs, DB!Abandon, DB!Finish
  <2> QED  BY <1>3, <2>1, <2>2, AbandonKeeps DEF CompileParseError, IInv, TypeOK
<1>4. CASE DiscardCache(p)
  <2>1. TypeOK'
    BY <1>4 DEF DiscardCache, IInv, TypeOK, PCs, DB!Abandon, DB!Finish, Notes, Stamp
  <2> QED  BY <1>4, <2>1, AbandonKeeps DEF DiscardCache, IInv, TypeOK
<1> QED  BY <1>1, <1>2, <1>3, <1>4

\* A parse error on the plain path keeps the invariant.
LEMMA ParseErrorKeeps ==
  ASSUME IInv, NEW p \in Procs, CompileParseError(p), pc'[p] # "crashed"
  PROVE  IInv'
<1> USE ConstantsOK DEF IInv, CompileParseError, cacheVars, reqVars, Goto, Disable
<1>1. UNCHANGED cacheVars /\ pc' = [pc EXCEPT ![p] = "run"]
  BY DEF TypeOK
<1>2. TypeOK'
  BY <1>1 DEF TypeOK, PCs
<1>3. AllRecords' = AllRecords /\ \A q \in Procs : Snapshot(q)' = Snapshot(q)
  BY <1>1 DEF AllRecords, Snapshot
<1>4. \A q \in Procs : SameContext(q)' = SameContext(q)
  BY <1>3 DEF SameContext
<1>5. Clock' /\ TimeIdentifiesVersion'
  BY <1>2, <1>3, RecordsKept DEF Clock, TypeOK
<1>6. Coherent' /\ NotOlder' /\ Phase' /\ ReadInTime' /\ MainSeen'
  BY <1>1, <1>3, <1>4 DEF Coherent, NotOlder, Phase, ReadInTime, MainSeen, TypeOK
<1> QED  BY <1>2, <1>5, <1>6

\* The removal of the database keeps the invariant.
LEMMA UnlinkKeeps ==
  ASSUME IInv, NEW p \in Procs, Unlink(p)
  PROVE  IInv'
<1> USE ConstantsOK DEF IInv, Unlink, reqVars, Goto, DB!Remove
<1>1. TypeOK'
  BY DEF TypeOK, PCs
<1>2. \A q \in Procs : Snapshot(q)' = Snapshot(q)
  BY DEF Snapshot
<1>3. \A r : r \in AllRecords' => r \in AllRecords
  BY <1>2 DEF AllRecords
<1>4. \A q \in Procs : SameContext(q)' = SameContext(q)
  BY <1>2 DEF SameContext
<1>5. Clock' /\ TimeIdentifiesVersion'
  BY <1>1, <1>3, RecordsKept DEF Clock, TypeOK
<1>6. Coherent' /\ NotOlder' /\ Phase' /\ ReadInTime' /\ MainSeen'
  BY <1>2, <1>3, <1>4 DEF Coherent, NotOlder, Phase, ReadInTime, MainSeen, TypeOK
<1> QED  BY <1>1, <1>5, <1>6

\* A commit keeps the invariant: the new database is the session's snapshot.
LEMMA CommitCacheKeeps ==
  ASSUME IInv, NEW p \in Procs, CommitCache(p)
  PROVE  IInv'
<1> USE ConstantsOK DEF IInv, CommitCache, Reset, Goto, Disable, DB!Commit, DB!Finish
<1>1. view[p] \cup added[p] \in SUBSET Records /\ store' = Snapshot(p)
  BY DEF TypeOK, Snapshot
<1>2. TypeOK'
  BY <1>1 DEF TypeOK, PCs, Notes, Stamp
<1>3. Snapshot(p)' = {} /\ \A q \in Procs \ {p} : Snapshot(q)' = Snapshot(q)
  BY DEF Snapshot, TypeOK
<1>4. \A r : r \in AllRecords' => r \in AllRecords
  BY <1>1, <1>3 DEF AllRecords
<1>5. \A q \in Procs \ {p} : main'[q] = main[q] /\ SameContext(q)' = SameContext(q)
  BY <1>3 DEF SameContext, TypeOK
<1>6. Clock' /\ TimeIdentifiesVersion'
  BY <1>2, <1>4, RecordsKept DEF Clock, TypeOK
<1>7. Coherent'
  BY <1>1, <1>3 DEF Coherent, Agree
<1>8. Phase' /\ ReadInTime'
  BY <1>5 DEF Phase, ReadInTime, TypeOK
<1>9. MainSeen'
  BY <1>5 DEF MainSeen, TypeOK, Stamp, Files
<1>10. NotOlder'
  <2>1. \A r \in AllRecords : r \in Records
    BY InUse DEF TypeOK, Snapshot
  <2> QED  BY <1>4, <1>5, <2>1 DEF NotOlder, TypeOK, Records
<1> QED  BY <1>2, <1>6, <1>7, <1>8, <1>9, <1>10

\* The end of a request that holds no session keeps the invariant.
LEMMA NoCacheKeeps ==
  ASSUME IInv, NEW p \in Procs, NoCache(p)
  PROVE  IInv'
<1> USE ConstantsOK DEF IInv, NoCache, Reset, Goto, Disable, cacheVars
<1>1. TypeOK'
  BY DEF TypeOK, PCs, Notes, Stamp
<1>2. \A q \in Procs : Snapshot(q)' = Snapshot(q)
  BY DEF Snapshot
<1>3. AllRecords' = AllRecords
  BY <1>2 DEF AllRecords
<1>4. \A q \in Procs \ {p} : main'[q] = main[q] /\ SameContext(q)' = SameContext(q)
  BY <1>2 DEF SameContext, TypeOK
<1>5. Clock' /\ TimeIdentifiesVersion'
  BY <1>1, <1>3, RecordsKept DEF Clock, TypeOK
<1>6. Coherent' /\ Phase' /\ ReadInTime'
  BY <1>2, <1>4 DEF Coherent, Phase, ReadInTime, TypeOK
<1>7. MainSeen'
  BY <1>4 DEF MainSeen, TypeOK, Stamp, Files
<1>8. NotOlder'
  <2>1. \A r \in AllRecords : r \in Records
    BY InUse DEF TypeOK, Snapshot
  <2> QED  BY <1>3, <1>4, <2>1 DEF NotOlder, TypeOK, Records
<1> QED  BY <1>1, <1>5, <1>6, <1>7, <1>8

\* The heart of the matter: the compile that is added was made from the version
\* the file still has, because a file that was old enough at the start of the
\* request has not been changed since, neither before nor after it was read.
LEMMA CompileAndAddKeeps ==
  ASSUME IInv, NEW p \in Procs, CompileAndAdd(p)
  PROVE  IInv'
<1> DEFINE f == buf[p].file
<1> DEFINE a == [file |-> f, mtime |-> src[f].mtime, ver |-> buf[p].ver]
<1> USE ConstantsOK DEF IInv, CompileAndAdd, reqVars, Goto, DB!Add
<1>1. buf[p] \in [file : Files, ver : 0..MaxVer] /\ f \in Files
  BY DEF Phase
<1>2. src[f].mtime < start[p] /\ start[p] <= now
  BY <1>1 DEF OldEnough, Clock, TypeOK, Stamp
<1>3. src[f].ver = buf[p].ver
  BY <1>2 DEF ReadInTime
<1>4. a \in Records /\ a.file = f /\ a.mtime = src[f].mtime /\ a.ver = src[f].ver
  BY <1>1, <1>3 DEF TypeOK, Records, Stamp
<1>5. a.file # Ctx /\ a.mtime < now
  BY <1>1, <1>2, <1>4 DEF TypeOK, Stamp
<1>6. view[p] # None /\ added' = [added EXCEPT ![p] = @ \cup {a}]
  OBVIOUS
<1>7. a.file = Main => a.mtime = main[p].mtime
  BY <1>2, <1>4 DEF MainSeen
<1> HIDE DEF a, f
<1>8. TypeOK'
  BY <1>4, <1>6 DEF TypeOK, PCs
<1>9. Snapshot(p)' = Snapshot(p) \cup {a} /\ \A q \in Procs \ {p} : Snapshot(q)' = Snapshot(q)
  BY <1>6 DEF Snapshot, TypeOK
<1>10. \A r : r \in AllRecords' => r \in AllRecords \/ r = a
  BY <1>9 DEF AllRecords
<1>11. \A q \in Procs : SameContext(q) => SameContext(q)'
  BY <1>9 DEF SameContext
<1>12. Clock' /\ TimeIdentifiesVersion'
  BY <1>4, <1>5, <1>8, <1>10, RecordAdded DEF Clock, TypeOK
<1>13. Coherent'
  <2>1. \A c \in Snapshot(p) : c.file = Ctx => c.mtime = main[p].mtime
    BY DEF Coherent, Agree, Phase, SameContext
  <2>2. Agree(Snapshot(p))'
    BY <1>5, <1>7, <1>9, <2>1 DEF Coherent, Agree
  <2> QED  BY <1>9, <2>2 DEF Coherent, Agree
<1>14. Phase' /\ ReadInTime' /\ MainSeen'
  BY <1>6, <1>11 DEF Phase, ReadInTime, MainSeen, TypeOK
<1>15. NotOlder'
  BY <1>4, <1>10 DEF NotOlder, MainSeen, TypeOK
<1> QED  BY <1>8, <1>12, <1>13, <1>14, <1>15

\* The steps of the world keep the invariant: an edit stamps the present second,
\* which no cached compile carries.
LEMMA WorldKeeps ==
  ASSUME IInv, Tick \/ \E f \in Files : Edit(f)
  PROVE  IInv'
<1> USE ConstantsOK DEF IInv, cacheVars, reqVars
<1>1. UNCHANGED <<store, view, added, pc, start, main, enabled, buf>>
  BY DEF Tick, Edit
<1>2. AllRecords' = AllRecords /\ \A q \in Procs : Snapshot(q)' = Snapshot(q)
  BY <1>1 DEF AllRecords, Snapshot
<1>3. \A q \in Procs : SameContext(q)' = SameContext(q)
  BY <1>1, <1>2 DEF SameContext
<1>4. Coherent' /\ NotOlder' /\ Phase'
  BY <1>1, <1>2, <1>3 DEF Coherent, NotOlder, Phase
<1>5. CASE Tick
  <2>1. TypeOK'
    BY <1>5 DEF Tick, TypeOK
  <2>2. Clock' /\ TimeIdentifiesVersion'
    BY <1>2, <1>5, <2>1, RecordsKept DEF Clock, Tick, TypeOK, Stamp
  <2>3. ReadInTime' /\ MainSeen'
    BY <1>5 DEF Tick, ReadInTime, MainSeen
  <2> QED  BY <1>4, <2>1, <2>2, <2>3
<1>6. ASSUME NEW f \in Files, Edit(f) PROVE IInv'
  <2> USE <1>6 DEF Edit
  <2>1. src[f].ver + 1 \in 0..MaxVer /\ src[f].ver < src[f].ver + 1
    BY DEF TypeOK, Stamp
  <2>2. /\ src'[f] = [mtime |-> now, ver |-> src[f].ver + 1]
        /\ \A g \in Files \ {f} : src'[g] = src[g]
    BY DEF TypeOK
  <2>3. TypeOK'
    <3>1. [mtime |-> now, ver |-> src[f].ver + 1] \in Stamp
      BY <2>1 DEF TypeOK, Stamp
    <3> QED  BY <3>1 DEF TypeOK
  <2>4. \A r \in AllRecords : r \in Records
    BY InUse DEF TypeOK, Snapshot
  <2>5. Clock'
    BY <1>2, <2>2, <2>3 DEF Clock, TypeOK
  <2>6. TimeIdentifiesVersion'
    BY <1>2, <2>2, <2>4 DEF TimeIdentifiesVersion, Clock, TypeOK, Records
  <2>7. ReadInTime'
    BY <2>2 DEF ReadInTime, Clock, Phase, TypeOK
  <2>8. MainSeen'
    BY <2>1, <2>2 DEF MainSeen, Clock, TypeOK, Stamp, Files
  <2> QED  BY <1>4, <2>3, <2>5, <2>6, <2>7, <2>8
<1> QED  BY <1>5, <1>6

-----------------------------------------------------------------------------
\* Every reachable state satisfies the inductive invariant.
THEOREM Invariance == Spec => []IInv
<1>1. Init => IInv
  <2> SUFFICES ASSUME Init PROVE IInv
    OBVIOUS
  <2> USE ConstantsOK DEF Init
  <2>1. TypeOK
    BY DEF TypeOK, Stamp, PCs
  <2>2. AllRecords = {} /\ \A p \in Procs : Snapshot(p) = {}
    BY DEF AllRecords, Snapshot
  <2>3. Clock /\ Phase /\ ReadInTime /\ MainSeen
    BY <2>2 DEF Clock, Phase, ReadInTime, MainSeen, Files
  <2>4. Coherent /\ NotOlder /\ TimeIdentifiesVersion
    BY <2>2 DEF Coherent, Agree, NotOlder, TimeIdentifiesVersion
  <2> QED  BY <2>1, <2>3, <2>4 DEF IInv
<1>2. IInv /\ [Next]_vars => IInv'
  <2> SUFFICES ASSUME IInv, [Next]_vars PROVE IInv'
    OBVIOUS
  <2>1. CASE UNCHANGED vars
    <3>1. UNCHANGED <<now, src, store, view, added, pc, start, main, enabled, cache, buf, noted>>
      BY <2>1 DEF vars
    <3>2. AllRecords' = AllRecords /\ \A q \in Procs : Snapshot(q)' = Snapshot(q)
      BY <3>1 DEF AllRecords, Snapshot
    <3>3. \A q \in Procs : SameContext(q)' = SameContext(q)
      BY <3>1, <3>2 DEF SameContext
    <3> QED  BY <3>1, <3>2, <3>3 DEF IInv, TypeOK, Clock, Phase, ReadInTime, MainSeen,
                 Coherent, NotOlder, TimeIdentifiesVersion
  <2>2. CASE Tick \/ \E f \in Files : Edit(f)
    BY <2>2, WorldKeeps
  <2>3. ASSUME NEW p \in Procs, Request(p) PROVE IInv'
    BY <2>3, BeginKeeps, StatMainKeeps, OpenCacheKeeps, NewContextKeeps,
       AcceptContextKeeps, DropKeeps, UnlinkKeeps, QuietKeeps, CompileAndAddKeeps,
       ParseErrorKeeps, CommitCacheKeeps, NoCacheKeeps
       DEF Request, QuietStep
  <2> QED  BY <2>1, <2>2, <2>3 DEF Next
<1> QED  BY <1>1, <1>2, PTL DEF Spec

\* The variables keep their types.
THEOREM TypeCorrect == Spec => []TypeOK
<1>1. IInv => TypeOK  BY DEF IInv
<1> QED  BY <1>1, Invariance, PTL

\* A cached compile is never stale while its modification time matches.
THEOREM TimeIdentifies == Spec => []TimeIdentifiesVersion
<1>1. IInv => TimeIdentifiesVersion  BY DEF IInv
<1> QED  BY <1>1, Invariance, PTL

\* The compiled script of a validated cache is at least as new as the script the
\* request was started for, without a further stat.
THEOREM MainStaysCurrent == Spec => []MainIsCurrent
<1>1. ASSUME IInv PROVE MainIsCurrent
  <2> SUFFICES ASSUME NEW p \in Procs, enabled[p], NEW r \in Index(p), r.file = Main
               PROVE  r.ver >= main[p].ver
    BY DEF MainIsCurrent
  <2>1. r \in Snapshot(p) /\ r \in AllRecords
    BY DEF Index, AllRecords
  <2>2. PICK c \in Snapshot(p) : c.file = Ctx /\ c.mtime = main[p].mtime
    BY <1>1 DEF IInv, Phase, SameContext
  <2>3. r.mtime = main[p].mtime
    BY <1>1, <2>1, <2>2 DEF IInv, Coherent, Agree
  <2> QED  BY <1>1, <2>1, <2>3 DEF IInv, NotOlder
<1> QED  BY <1>1, Invariance, PTL

\* What a load that passed the stat check executes is what the file contains.
THEOREM CheckedLoads == Spec => CheckedLoadIsFresh
<1>1. ASSUME IInv PROVE \A p \in Procs : LoadChecked(p) => buf'[p].ver = src[buf'[p].file].ver
  <2> SUFFICES ASSUME NEW p \in Procs, LoadChecked(p)
               PROVE  buf'[p].ver = src[buf'[p].file].ver
    OBVIOUS
  <2>1. PICK r \in Index(p) : /\ Matches(p, r)
                             /\ buf' = [buf EXCEPT ![p] = [file |-> r.file, ver |-> r.ver]]
    BY DEF LoadChecked
  <2>2. r \in AllRecords /\ r.file # Ctx
    BY DEF Index, AllRecords
  <2>3. src[r.file].ver = r.ver
    BY <1>1, <2>1, <2>2 DEF IInv, TimeIdentifiesVersion, Matches
  <2> QED  BY <1>1, <2>1, <2>3 DEF IInv, TypeOK
<1> QED  BY <1>1, Invariance, PTL DEF CheckedLoadIsFresh

=============================================================================
