----------------------------- MODULE LPCCache -----------------------------
(***************************************************************************)
(* One opcode cache of lpc and the requests that use it (src/lpc/          *)
(* lpc_request.c, lpc_cache.c, lpc_copy_source.c, php_lpc.c): a request    *)
(* opens the cache of its script, validates it against the script, loads   *)
(* compiled files from it or compiles and adds them, and commits the       *)
(* additions when it ends, while the source files are being edited.        *)
(*                                                                         *)
(* The cache file is a cachedb database.  It is used here through what     *)
(* cachedb promises (SnapshotStore, which CacheDB implements): the         *)
(* variables store, view and added belong to it, and every action that     *)
(* calls cachedb is conjoined with the store's action.  A commit that      *)
(* loses its race is Abandon.                                              *)
(*                                                                         *)
(* What a compile produces is identified with the version of the source it *)
(* read; a modification time counts seconds, so versions may share one.    *)
(* Edits may leave the size of a file unchanged, which makes the size the  *)
(* code also records useless; the models do without it.                    *)
(***************************************************************************)
EXTENDS Naturals, FiniteSets

CONSTANTS
    Procs,        \* requests, one at a time per process
    Main,         \* the requested script
    Mods,         \* the files it includes
    Ctx,          \* key of the context record, "_ context _"
    None,
    Protect,      \* lpc.file_update_protection
    StatChoices,  \* outcomes of the lpc.stat_percentage draw: {FALSE} for 0,
                  \* {TRUE} for 100, BOOLEAN in between
    ClearWays,    \* subset of {"cookie", "call"}: ways to ask for a clear
    MaxTime,      \* bound: seconds the clock may advance to
    MaxEdits,     \* bound: edits of each file, a function of the file
    MaxVer        \* the greatest of these bounds

Files == Mods \cup {Main}

ASSUME ConstantsOK ==
    /\ Main \notin Mods
    /\ Ctx \notin Files
    /\ Protect \in Nat
    /\ MaxTime \in Nat
    /\ MaxVer \in Nat
    /\ MaxEdits \in [Files -> 0..MaxVer]
    /\ StatChoices \subseteq BOOLEAN
    /\ ClearWays \subseteq {"cookie", "call"}

VARIABLES
    now, src,            \* the clock, and [mtime, ver] of each source file
    store, view, added,  \* cachedb: the database, and each session's part
    pc,
    start,    \* LPCG(sapi_request_time)
    main,     \* request_mtime, with the version stat found, as a history
    enabled,  \* LPCG(enabled)
    cache,    \* LPCG(lpc_cache) # NULL
    buf,      \* the file last read or loaded, and the version of it
    noted     \* history: what happened to the request, of Notes

cacheVars == <<store, view, added>>
reqVars   == <<start, main, noted>>
vars == <<now, src, store, view, added, pc, start, main, enabled, cache, buf,
          noted>>

Stamp   == [mtime : 0..MaxTime, ver : 0..MaxVer]
Records == [file : Files \cup {Ctx}, mtime : 0..MaxTime, ver : 0..MaxVer]
PCs     == {"idle", "stat", "open", "context", "run", "fixed", "unlink", "stop",
            "crashed"}
Notes   == {"cookie", "call", "mismatch", "error"}

DB == INSTANCE SnapshotStore WITH Keys <- Records, Torn <- FALSE

TypeOK ==
    /\ now \in 0..MaxTime
    /\ src \in [Files -> Stamp]
    /\ store \in {None} \cup SUBSET Records
    /\ view \in [Procs -> {None} \cup SUBSET Records]
    /\ added \in [Procs -> SUBSET Records]
    /\ pc \in [Procs -> PCs]
    /\ start \in [Procs -> 0..MaxTime]
    /\ main \in [Procs -> Stamp]
    /\ enabled \in [Procs -> BOOLEAN]
    /\ cache \in [Procs -> BOOLEAN]
    /\ buf \in [Procs -> [file : Files, ver : 0..MaxVer] \cup {None}]
    /\ noted \in [Procs -> SUBSET Notes]

-----------------------------------------------------------------------------
Snapshot(p) == IF view[p] = None THEN {} ELSE view[p] \cup added[p]

\* Faulty variant of Index: the context record is not held back.
WholeIndex(p) == Snapshot(p)

(* cache->index: the records of files, those added by this request too.    *)
Index(p) == {r \in Snapshot(p) : r.file # Ctx}

Goto(p, nextPc) == pc' = [pc EXCEPT ![p] = nextPc]
Note(p, what)   == noted' = [noted EXCEPT ![p] = @ \cup {what}]
Disable(p)      == enabled' = [enabled EXCEPT ![p] = FALSE]

Init ==
    /\ now = 0
    /\ src = [f \in Files |-> [mtime |-> 0, ver |-> 0]]
    /\ store = None
    /\ view = [p \in Procs |-> None]
    /\ added = [p \in Procs |-> {}]
    /\ pc = [p \in Procs |-> "idle"]
    /\ start = [p \in Procs |-> 0]
    /\ main = [p \in Procs |-> [mtime |-> 0, ver |-> 0]]
    /\ enabled = [p \in Procs |-> FALSE]
    /\ cache = [p \in Procs |-> FALSE]
    /\ buf = [p \in Procs |-> None]
    /\ noted = [p \in Procs |-> {}]

-----------------------------------------------------------------------------
(* Request start.                                                          *)

(* MINIT of a new process takes the time; a process that serves several    *)
(* requests keeps the time of its own start.                               *)
Begin(p) ==
    /\ pc[p] = "idle"
    /\ Goto(p, "stat")
    /\ \E t \in {now, start[p]} : start' = [start EXCEPT ![p] = t]
    /\ \E ns \in SUBSET (ClearWays \cap {"cookie"}) : noted' = [noted EXCEPT ![p] = ns]
    /\ UNCHANGED <<now, src, main, enabled, cache, buf>>
    /\ UNCHANGED cacheVars

(* lpc_request_init: stat the script; return early if lpc is disabled here. *)
StatMain(p) ==
    /\ pc[p] = "stat"
    /\ main' = [main EXCEPT ![p] = src[Main]]
    /\ \E next \in {"open", "run"} : Goto(p, next)
    /\ UNCHANGED <<now, src, start, enabled, cache, buf, noted>>
    /\ UNCHANGED cacheVars

OpenCache(p) ==
    /\ pc[p] = "open"
    /\ DB!Open(p)
    /\ Goto(p, "context")
    /\ UNCHANGED <<now, src, enabled, cache, buf>>
    /\ UNCHANGED reqVars

(* lpc_cache_create, new cache: its first record is the context record.    *)
NewContext(p) ==
    /\ pc[p] = "context"
    /\ view[p] = {}
    /\ DB!Add(p, [file |-> Ctx, mtime |-> main[p].mtime, ver |-> 0])
    /\ Goto(p, "run")
    /\ enabled' = [enabled EXCEPT ![p] = TRUE]
    /\ cache' = [cache EXCEPT ![p] = TRUE]
    /\ UNCHANGED <<now, src, buf>>
    /\ UNCHANGED reqVars

\* Faulty variant of SameContext: the time of the script is not compared.
AnyContext(p) == \E r \in Snapshot(p) : r.file = Ctx

(* The context record agrees with the script; clear_flag_set is never set. *)
SameContext(p) ==
    \E r \in Snapshot(p) : r.file = Ctx /\ r.mtime = main[p].mtime

AcceptContext(p) ==
    /\ pc[p] = "context"
    /\ view[p] # {}
    /\ SameContext(p)
    /\ Goto(p, "run")
    /\ enabled' = [enabled EXCEPT ![p] = TRUE]
    /\ cache' = [cache EXCEPT ![p] = TRUE]
    /\ UNCHANGED <<now, src, buf>>
    /\ UNCHANGED cacheVars
    /\ UNCHANGED reqVars

(* lpc_cache_clear first closes its session, then removes the database by  *)
(* name (Unlink); lpc_cache_destroy leaves no cache structure behind.      *)
RejectContext(p) ==
    /\ pc[p] = "context"
    /\ view[p] # {}
    /\ ~SameContext(p)
    /\ DB!Abandon(p)
    /\ Note(p, "mismatch")
    /\ Goto(p, "unlink")
    /\ UNCHANGED <<now, src, start, main, enabled, cache, buf>>

Unlink(p) ==
    /\ pc[p] = "unlink"
    /\ DB!Remove
    /\ Goto(p, "run")
    /\ UNCHANGED <<now, src, enabled, cache, buf>>
    /\ UNCHANGED reqVars

-----------------------------------------------------------------------------
(* lpc_compile_file, one file at a time.  What is compiled without the     *)
(* cache, and what is executed, changes no state unless it fails.          *)

(* lpc_cache_make_key: a hit that is not drawn for a stat is loaded.  The  *)
(* script comes as an open stream (php-cgi), which is never stat'ed.       *)
LoadUnchecked(p) ==
    /\ pc[p] = "run"
    /\ enabled[p]
    /\ \E r \in Index(p) :
          /\ FALSE \in StatChoices \/ r.file = Main
          /\ buf' = [buf EXCEPT ![p] = [file |-> r.file, ver |-> r.ver]]
    /\ UNCHANGED <<now, src, pc, enabled, cache>>
    /\ UNCHANGED cacheVars
    /\ UNCHANGED reqVars

(* Otherwise zend_stream_fixup reads the file before stat looks at it.  The *)
(* one goes by the include path and the other by the current directory;    *)
(* names are taken to be absolute here, as those of resolved includes are. *)
Fixup(p, f) ==
    /\ pc[p] = "run"
    /\ enabled[p]
    /\ TRUE \in StatChoices \/ \A r \in Index(p) : r.file # f
    /\ buf' = [buf EXCEPT ![p] = [file |-> f, ver |-> src[f].ver]]
    /\ Goto(p, "fixed")
    /\ UNCHANGED <<now, src, enabled, cache>>
    /\ UNCHANGED cacheVars
    /\ UNCHANGED reqVars

IndexHas(p, f) == \E r \in Index(p) : r.file = f

\* Faulty variant of Matches: the modification time is not compared.
SameName(p, r) == r.file = buf[p].file

Matches(p, r)  == r.file = buf[p].file /\ r.mtime = src[r.file].mtime

(* The stat agrees with the index: load the cached compile.                *)
LoadChecked(p) ==
    /\ pc[p] = "fixed"
    /\ \E r \in Index(p) :
          /\ Matches(p, r)
          /\ buf' = [buf EXCEPT ![p] = [file |-> r.file, ver |-> r.ver]]
    /\ Goto(p, "run")
    /\ UNCHANGED <<now, src, enabled, cache>>
    /\ UNCHANGED cacheVars
    /\ UNCHANGED reqVars

(* It does not: clear the cache and compile what the fixup has read.       *)
ClearStale(p) ==
    /\ pc[p] = "fixed"
    /\ IndexHas(p, buf[p].file)
    /\ ~ \E r \in Index(p) : Matches(p, r)
    /\ DB!Abandon(p)
    /\ Disable(p)
    /\ Goto(p, "unlink")
    /\ UNCHANGED <<now, src, cache, buf>>
    /\ UNCHANGED reqVars

\* Faulty variant of OldEnough: a file of the very second will do.
OldEnoughNow(p, m) == start[p] >= m + Protect

(* A miss is cached if the file is old enough when the request starts.     *)
OldEnough(p, m) == start[p] > m + Protect

(* stat, compile, copy and insert: nothing of it is visible to others.     *)
CompileAndAdd(p) ==
    /\ pc[p] = "fixed"
    /\ ~IndexHas(p, buf[p].file)
    /\ LET m == src[buf[p].file].mtime
       IN  /\ OldEnough(p, m)
           /\ DB!Add(p, [file |-> buf[p].file, mtime |-> m, ver |-> buf[p].ver])
    /\ Goto(p, "run")
    /\ UNCHANGED <<now, src, enabled, cache, buf>>
    /\ UNCHANGED reqVars

CompileOnly(p) ==
    /\ pc[p] = "fixed"
    /\ ~IndexHas(p, buf[p].file)
    /\ ~OldEnough(p, src[buf[p].file].mtime)
    /\ Goto(p, "run")
    /\ UNCHANGED <<now, src, enabled, cache, buf>>
    /\ UNCHANGED cacheVars
    /\ UNCHANGED reqVars

(* safe_old_compile_file turns lpc off when a compile fails.  A fatal      *)
(* error bails out to the end of the request.                              *)
CompileFatal(p) ==
    /\ \/ pc[p] = "fixed" /\ ~IndexHas(p, buf[p].file)
       \/ pc[p] = "run" /\ ~enabled[p]
    /\ Disable(p)
    /\ Goto(p, "stop")
    /\ UNCHANGED <<now, src, cache, buf>>
    /\ UNCHANGED cacheVars
    /\ UNCHANGED reqVars

(* A parse error comes back as NULL: on the plain path the including       *)
(* script goes on, on the caching path the NULL is dereferenced.           *)
CompileParseError(p) ==
    /\ pc[p] = "fixed"
    /\ ~IndexHas(p, buf[p].file)
    /\ Disable(p)
    /\ IF OldEnough(p, src[buf[p].file].mtime)
       THEN Goto(p, "crashed") /\ DB!Abandon(p)
       ELSE Goto(p, "run") /\ UNCHANGED cacheVars
    /\ UNCHANGED <<now, src, cache, buf>>
    /\ UNCHANGED reqVars

(* lpc_include_or_eval_handler looks at the index of the cache whenever an *)
(* include_once is executed, also if there is no cache structure.          *)
IncludeOnce(p) ==
    /\ pc[p] = "run"
    /\ ~cache[p]
    /\ Goto(p, "crashed")
    /\ UNCHANGED <<now, src, enabled, cache, buf>>
    /\ UNCHANGED cacheVars
    /\ UNCHANGED reqVars

(* The PHP function lpc_clear_cache sets a flag that nothing reads.        *)
AskClear(p) ==
    /\ pc[p] = "run"
    /\ "call" \in ClearWays
    /\ Note(p, "call")
    /\ UNCHANGED <<now, src, pc, start, main, enabled, cache, buf>>
    /\ UNCHANGED cacheVars

-----------------------------------------------------------------------------
(* Request end.                                                            *)

(* The script ends, or a runtime error bails out of it: enabled stays.     *)
EndScript(p) ==
    /\ pc[p] = "run"
    /\ Goto(p, "stop")
    /\ Note(p, "error") \/ UNCHANGED noted
    /\ buf' = [buf EXCEPT ![p] = None]
    /\ UNCHANGED <<now, src, start, main, enabled, cache>>
    /\ UNCHANGED cacheVars

Reset(p) ==
    /\ Goto(p, "idle")
    /\ Disable(p)
    /\ cache' = [cache EXCEPT ![p] = FALSE]
    /\ buf' = [buf EXCEPT ![p] = None]
    /\ main' = [main EXCEPT ![p] = [mtime |-> 0, ver |-> 0]]
    /\ noted' = [noted EXCEPT ![p] = {}]
    /\ UNCHANGED <<now, src, start>>

(* lpc_cache_destroy: close in the mode of the open, or 'r' if disabled.   *)
CommitCache(p) ==
    /\ pc[p] = "stop"
    /\ view[p] # None
    /\ enabled[p]
    /\ DB!Commit(p)
    /\ Reset(p)

(* Disabled, nothing added, or another session replaced the database.      *)
DiscardCache(p) ==
    /\ pc[p] = "stop"
    /\ view[p] # None
    /\ DB!Abandon(p)
    /\ Reset(p)

NoCache(p) ==
    /\ pc[p] \in {"stop", "crashed"}
    /\ view[p] = None
    /\ Reset(p)
    /\ UNCHANGED cacheVars

-----------------------------------------------------------------------------
(* The world: time passes, and files are edited, which stamps them.        *)
Tick ==
    /\ now < MaxTime
    /\ now' = now + 1
    /\ UNCHANGED <<src, pc, enabled, cache, buf>>
    /\ UNCHANGED cacheVars
    /\ UNCHANGED reqVars

Edit(f) ==
    /\ src[f].ver < MaxEdits[f]
    /\ src' = [src EXCEPT ![f] = [mtime |-> now, ver |-> @.ver + 1]]
    /\ UNCHANGED <<now, pc, enabled, cache, buf>>
    /\ UNCHANGED cacheVars
    /\ UNCHANGED reqVars

Request(p) ==
    \/ Begin(p)
    \/ StatMain(p)
    \/ OpenCache(p)
    \/ NewContext(p)
    \/ AcceptContext(p)
    \/ RejectContext(p)
    \/ Unlink(p)
    \/ LoadUnchecked(p)
    \/ \E f \in Files : Fixup(p, f)
    \/ LoadChecked(p)
    \/ ClearStale(p)
    \/ CompileAndAdd(p)
    \/ CompileOnly(p)
    \/ CompileFatal(p)
    \/ CompileParseError(p)
    \/ IncludeOnce(p)
    \/ AskClear(p)
    \/ EndScript(p)
    \/ CommitCache(p)
    \/ DiscardCache(p)
    \/ NoCache(p)

Next ==
    \/ Tick
    \/ \E f \in Files : Edit(f)
    \/ \E p \in Procs : Request(p)

Spec == Init /\ [][Next]_vars

-----------------------------------------------------------------------------
(***************************************************************************)
(* Correctness.                                                            *)
(***************************************************************************)

\* Every record that is stored, in use or about to be committed.
AllRecords ==
    (IF store = None THEN {} ELSE store) \cup UNION {Snapshot(p) : p \in Procs}

\* The freshness invariant of the cache.  The modification time of a cached
\* file identifies the version that was compiled, now and after any later edit:
\* although a file is read before it is stat'ed, may be edited in between, and
\* two versions may carry the same second, no cached compile is stale while the
\* recorded time still equals the file's.
TimeIdentifiesVersion ==
    \A r \in AllRecords : r.file # Ctx =>
        (src[r.file].mtime = r.mtime => src[r.file].ver = r.ver)

\* Why lpc.stat never needs to look at the requested script itself
\* (lpc_cache.c:390-395): the compiled script in a cache that was validated is
\* never older than the version the request's own stat found when it began.
MainIsCurrent ==
    \A p \in Procs : enabled[p] =>
        \A r \in Index(p) : r.file = Main => r.ver >= main[p].ver

\* A load that the stat check let through executes the version that is in the
\* file at that moment.
CheckedLoadIsFresh ==
    [][\A p \in Procs : LoadChecked(p) => buf'[p].ver = src[buf'[p].file].ver]_vars

\* The claim of lpc_cache.h:48-51: updates are only committed on (successful)
\* completion of a request and discarded on error.
ErrorDiscardsUpdates ==
    [][\A p \in Procs : CommitCache(p) => "error" \notin noted[p]]_vars

\* The claim of lpc_cache.h:67-77 about lpc.clear_cookie and lpc.clear_parameter:
\* a request that carries them does not accept the cache it finds.
ClearCookieInvalidates ==
    [][\A p \in Procs : AcceptContext(p) => "cookie" \notin noted[p]]_vars

\* The claim of lpc.h:172-173 about force_cache_delete, set by the PHP function
\* lpc_clear_cache: the database is deleted and further loading disabled.
ClearCallDisables ==
    [][\A p \in Procs : "call" \in noted[p] => ~LoadUnchecked(p)]_vars

\* The claim of lpc_cache.c:186-187: after a mismatch caching is turned off for
\* the remainder of the request, which therefore runs on without the cache.
UncachedRequestRuns ==
    \A p \in Procs : "mismatch" \in noted[p] => pc[p] # "crashed"

\* The claim of lpc_copy_source.c:40-42: compile errors are wrapped so that lpc
\* can clean up after them; the process survives.
CompileErrorsSurvive ==
    [][\A p \in Procs : pc[p] = "fixed" => pc'[p] # "crashed"]_vars

=============================================================================
