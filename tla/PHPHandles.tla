---------------------------- MODULE PHPHandles ----------------------------
(***************************************************************************)
(* The functions scripts call cachedb with (src/cachedb/php_cachedb.c): a  *)
(* table of handles for each request, the control blocks they point to,    *)
(* and the shutdown that closes what the script left open.                 *)
(*                                                                         *)
(* Each process runs one request after another.  A session of the store is *)
(* a control block of a process; a freed block may be the next one the     *)
(* engine's allocator returns.  A fatal error ends a call and not the      *)
(* request: registered shutdown functions still run with the same table,   *)
(* so a call after a fatal error is a call like any other.                 *)
(*                                                                         *)
(* An open may run code of the script before it returns: an error handler, *)
(* for the warning of the stream open, or what a callback of unserialize   *)
(* does while the index is read.  That code may call any function again.   *)
(* Code that an add, a fetch or a close calls back acts as if it had run   *)
(* before the call, as these look the handle up first and change the table *)
(* last; it must not close the handle of the call it is called from.       *)
(***************************************************************************)
EXTENDS Naturals, Sequences

CONSTANTS
    Procs,
    Blocks,         \* addresses ecalloc may return for a control block
    Keys,
    None,
    MAX_DB_FILES,   \* slots of the table
    MaxOpening      \* bound: opens in progress in a process

ASSUME ConstantsOK ==
    /\ MAX_DB_FILES \in Nat
    /\ MaxOpening \in Nat
    /\ None \notin Blocks
    /\ \A ks \in SUBSET Keys : ks # None
    /\ \A h \in 0..MAX_DB_FILES : h # None

Handles == 0..(MAX_DB_FILES - 1)

VARIABLES
    req,     \* "off", "on" or "closing" (the shutdown of the module)
    db,      \* the table: block of each handle, or None for NULL
    heap,    \* blocks allocated in the process
    mode,    \* db->mode of each allocated block
    opening, \* opens that have not returned, the innermost last: the slot each
             \* has found free, and its block
    closed,  \* handle whose block was freed and whose slot is not yet NULL
    at,      \* slot the shutdown has reached
    nested,  \* history: an open was called from within an open, in this request
    cut,     \* history: a time limit has struck in the middle of a close
    \* the cachedb files, by session
    store, view, added

storeVars == <<store, view, added>>
tableVars == <<db, heap, mode, opening, closed>>
history   == <<nested, cut>>
vars == <<req, tableVars, at, history, storeVars>>

Sessions == Procs \X Blocks
DB == INSTANCE SnapshotStore WITH Procs <- Sessions, Torn <- FALSE

NoTable == [h \in Handles |-> None]
Open(p) == {h \in Handles : db[p][h] # None}
Newest(p) == opening[p][Len(opening[p])]

Init ==
    /\ DB!Init
    /\ req = [p \in Procs |-> "off"]
    /\ db = [p \in Procs |-> NoTable]
    /\ heap = [p \in Procs |-> {}]
    /\ mode = [s \in Sessions |-> "r"]
    /\ opening = [p \in Procs |-> <<>>]
    /\ closed = [p \in Procs |-> None]
    /\ at = [p \in Procs |-> 0]
    /\ nested = [p \in Procs |-> FALSE]
    /\ cut = [p \in Procs |-> FALSE]

(* Code of the script runs in p, between two statements of its own.        *)
Running(p) == req[p] = "on" /\ closed[p] = None

-----------------------------------------------------------------------------
(* PHP_RINIT: every slot becomes NULL.                                     *)
RInit(p) ==
    /\ req[p] = "off"
    /\ req' = [req EXCEPT ![p] = "on"]
    /\ db' = [db EXCEPT ![p] = NoTable]
    /\ nested' = [nested EXCEPT ![p] = FALSE]
    /\ cut' = [cut EXCEPT ![p] = FALSE]
    /\ UNCHANGED <<heap, mode, opening, closed, at, storeVars>>

(* The search takes the first slot that is NULL; with none the call fails. *)
FirstFree(p, h) ==
    /\ h \in Handles \ Open(p)
    /\ \A i \in Handles : i < h => i \in Open(p)

(* cachedb_open up to where code of the script may run: the slot is found  *)
(* and still NULL, the stream is open.  Mode c reads nothing; r and w read *)
(* what is there.                                                          *)
CallOpen(p, b, m) ==
    /\ Running(p)
    /\ Len(opening[p]) < MaxOpening
    /\ b \notin heap[p]
    /\ \E h \in Handles :
          /\ FirstFree(p, h)
          /\ opening' = [opening EXCEPT ![p] = Append(@, [slot |-> h, block |-> b])]
    /\ heap' = [heap EXCEPT ![p] = @ \cup {b}]
    /\ mode' = [mode EXCEPT ![<<p, b>>] = m]
    /\ DB!Open(<<p, b>>)
    /\ m = "c" => view'[<<p, b>>] = {}
    /\ nested' = [nested EXCEPT ![p] = @ \/ opening[p] # <<>>]
    /\ UNCHANGED <<req, db, closed, at, cut>>

(* The index is loaded, and the slot found at the start is set.            *)
OpenReturns(p) ==
    /\ Running(p) /\ opening[p] # <<>>
    /\ db' = [db EXCEPT ![p][Newest(p).slot] = Newest(p).block]
    /\ opening' = [opening EXCEPT ![p] = SubSeq(@, 1, Len(@) - 1)]
    /\ UNCHANGED <<req, heap, mode, closed, at, history, storeVars>>

\* Faulty variant of OpenFails: the slot is set before the index is loaded.
OpenFailsSet(p) ==
    /\ Running(p) /\ opening[p] # <<>>
    /\ db' = [db EXCEPT ![p][Newest(p).slot] = Newest(p).block]
    /\ heap' = [heap EXCEPT ![p] = @ \ {Newest(p).block}]
    /\ DB!Abandon(<<p, Newest(p).block>>)
    /\ opening' = [opening EXCEPT ![p] = <<>>]
    /\ UNCHANGED <<req, mode, closed, at, history>>

(* A fatal error raised inside the innermost open: its block is freed      *)
(* before (corrupt index) or stays allocated (unknown mode), and no slot   *)
(* knows of it.  The error ends the opens around it too.                   *)
OpenFails(p) ==
    /\ Running(p) /\ opening[p] # <<>>
    /\ heap' \in {heap, [heap EXCEPT ![p] = @ \ {Newest(p).block}]}
    /\ DB!Abandon(<<p, Newest(p).block>>)
    /\ opening' = [opening EXCEPT ![p] = <<>>]
    /\ UNCHANGED <<req, db, mode, closed, at, history>>

(* The script ends, by exit or an error, in code an open has called: the   *)
(* opens do not return, and what they have opened stays open without a slot. *)
Bailout(p) ==
    /\ Running(p) /\ opening[p] # <<>>
    /\ opening' = [opening EXCEPT ![p] = <<>>]
    /\ UNCHANGED <<req, db, heap, mode, closed, at, history, storeVars>>

(* CHECK_HANDLE: anything but the number of a slot that is set is refused. *)
CallAdd(p, h, k) ==
    /\ Running(p)
    /\ h \in Open(p)
    /\ mode[<<p, db[p][h]>>] # "r"
    /\ DB!Add(<<p, db[p][h]>>, k)
    /\ UNCHANGED <<req, tableVars, at, history>>

(* cachedb_close2 of the block b: it commits, if there are additions, the  *)
(* mode given is not 'r' and the base was not replaced; and frees b.       *)
Close2(p, b, force) ==
    /\ \/ force # "r" /\ mode[<<p, b>>] # "r" /\ DB!Commit(<<p, b>>)
       \/ DB!Abandon(<<p, b>>)
    /\ heap' = [heap EXCEPT ![p] = @ \ {b}]
    /\ mode' = [mode EXCEPT ![<<p, b>>] = "r"]

(* cachedb_close: the slot becomes NULL after the block was freed.  A      *)
(* write that fails is fatal inside close2 and leaves block and slot.      *)
CallClose(p, h, force) ==
    /\ Running(p)
    /\ h \in Open(p)
    /\ Close2(p, db[p][h], force)
    /\ closed' = [closed EXCEPT ![p] = h]
    /\ UNCHANGED <<req, db, opening, at, history>>

\* Faulty variant of ClearSlot: the default handle is cleared.
ClearFirst(p) ==
    /\ req[p] = "on" /\ closed[p] # None
    /\ db' = [db EXCEPT ![p][0] = None]
    /\ closed' = [closed EXCEPT ![p] = None]
    /\ UNCHANGED <<req, heap, mode, opening, at, history, storeVars>>

ClearSlot(p) ==
    /\ req[p] = "on" /\ closed[p] # None
    /\ db' = [db EXCEPT ![p][closed[p]] = None]
    /\ closed' = [closed EXCEPT ![p] = None]
    /\ UNCHANGED <<req, heap, mode, opening, at, history, storeVars>>

(* The signal of the time limit strikes before the slot is reset.          *)
TimeLimit(p) ==
    /\ req[p] = "on" /\ closed[p] # None
    /\ closed' = [closed EXCEPT ![p] = None]
    /\ opening' = [opening EXCEPT ![p] = <<>>]
    /\ cut' = [cut EXCEPT ![p] = TRUE]
    /\ UNCHANGED <<req, db, heap, mode, at, nested, storeVars>>

-----------------------------------------------------------------------------
(* The script has ended, or was ended; the engine calls PHP_RSHUTDOWN.     *)
EndScript(p) ==
    /\ Running(p) /\ opening[p] = <<>>
    /\ req' = [req EXCEPT ![p] = "closing"]
    /\ at' = [at EXCEPT ![p] = 0]
    /\ UNCHANGED <<tableVars, history, storeVars>>

\* Faulty variant of ShutdownSlot: what the script added is committed.
ShutdownSlotCommits(p) ==
    /\ req[p] = "closing" /\ at[p] \in Open(p)
    /\ Close2(p, db[p][at[p]], "*")
    /\ db' = [db EXCEPT ![p][at[p]] = None]
    /\ at' = [at EXCEPT ![p] = @ + 1]
    /\ UNCHANGED <<req, opening, closed, history>>

(* One iteration of the loop, of a slot that is set.                       *)
ShutdownSlot(p) ==
    /\ req[p] = "closing"
    /\ at[p] \in Open(p)
    /\ Close2(p, db[p][at[p]], "r")
    /\ db' = [db EXCEPT ![p][at[p]] = None]
    /\ at' = [at EXCEPT ![p] = @ + 1]
    /\ UNCHANGED <<req, opening, closed, history>>

ShutdownEmpty(p) ==
    /\ req[p] = "closing"
    /\ at[p] \in Handles \ Open(p)
    /\ at' = [at EXCEPT ![p] = @ + 1]
    /\ UNCHANGED <<req, tableVars, history, storeVars>>

(* After the modules the engine closes the streams that are still open and *)
(* its memory manager drops the whole heap.                                *)
DropProcess(p) ==
    /\ req' = [req EXCEPT ![p] = "off"]
    /\ heap' = [heap EXCEPT ![p] = {}]
    /\ view' = [s \in Sessions |-> IF s[1] = p THEN None ELSE view[s]]
    /\ added' = [s \in Sessions |-> IF s[1] = p THEN {} ELSE added[s]]
    /\ at' = [at EXCEPT ![p] = 0]
    /\ UNCHANGED <<store, mode, closed, history>>

ShutdownDone(p) ==
    /\ req[p] = "closing"
    /\ at[p] = MAX_DB_FILES
    /\ DropProcess(p)
    /\ UNCHANGED <<db, opening>>

(* A slot leads to a block that was freed, and is used again, by a call or *)
(* by the shutdown.  Of what that may do the process dies here, or nothing *)
(* happens: what a corrupted heap leads to is not followed further.        *)
StaleUse(p) ==
    /\ \E h \in Open(p) :
          /\ view[<<p, db[p][h]>>] = None
          /\ Running(p) \/ (req[p] = "closing" /\ at[p] = h)
    /\ DropProcess(p)
    /\ db' = [db EXCEPT ![p] = NoTable]
    /\ opening' = [opening EXCEPT ![p] = <<>>]

StalePassed(p) ==
    /\ req[p] = "closing"
    /\ at[p] \in Open(p) /\ view[<<p, db[p][at[p]]>>] = None
    /\ db' = [db EXCEPT ![p][at[p]] = None]
    /\ at' = [at EXCEPT ![p] = @ + 1]
    /\ UNCHANGED <<req, heap, mode, opening, closed, history, storeVars>>

Call(p) ==
    \/ \E b \in Blocks, m \in {"r", "w", "c"} : CallOpen(p, b, m)
    \/ OpenReturns(p)
    \/ OpenFails(p)
    \/ Bailout(p)
    \/ \E h \in Handles :
          \/ \E k \in Keys : CallAdd(p, h, k)
          \/ \E force \in {"r", "*"} : CallClose(p, h, force)
    \/ ClearSlot(p)
    \/ TimeLimit(p)

Shutdown(p) ==
    \/ EndScript(p)
    \/ ShutdownSlot(p)
    \/ ShutdownEmpty(p)
    \/ ShutdownDone(p)
    \/ StaleUse(p)
    \/ StalePassed(p)

Next == \E p \in Procs : RInit(p) \/ Call(p) \/ Shutdown(p)

Spec == Init /\ [][Next]_vars

-----------------------------------------------------------------------------
TypeOK ==
    /\ req \in [Procs -> {"off", "on", "closing"}]
    /\ db \in [Procs -> [Handles -> Blocks \cup {None}]]
    /\ heap \in [Procs -> SUBSET Blocks]
    /\ mode \in [Sessions -> {"r", "w", "c"}]
    /\ opening \in [Procs -> Seq([slot : Handles, block : Blocks])]
    /\ closed \in [Procs -> Handles \cup {None}]
    /\ at \in [Procs -> 0..MAX_DB_FILES]
    /\ nested \in [Procs -> BOOLEAN] /\ cut \in [Procs -> BOOLEAN]

\* Slots whose block a call may still use: all but the one being cleared.
Owned(p) == {h \in Handles : db[p][h] # None /\ h # closed[p]}

\* Handles the script holds lead to different allocated blocks, each with an open
\* session, and to none that an open in progress is filling.  This survives opens
\* called from within opens; a time limit in the middle of a close undoes it for
\* the request.
NoneDangles(p) ==
    \A h \in Owned(p) :
        /\ db[p][h] \in heap[p]
        /\ view[<<p, db[p][h]>>] # None
        /\ \A i \in Owned(p) : db[p][i] = db[p][h] => i = h
        /\ \A i \in DOMAIN opening[p] : opening[p][i].block # db[p][h]

\* What has been added is within reach of the script: its session has a handle.
\* An open that returns sets the slot it found free when it was called, though an
\* open called from within it may have filled the slot since, and its session,
\* with what was added to it, is lost.
NoneLost(p) ==
    \A b \in Blocks : added[<<p, b>>] # {} => \E h \in Owned(p) : db[p][h] = b

\* No handle dangles, none is shared and none with additions is lost, but for the
\* two ways above that the code does not guard against (php_cachedb.c:232 and 354);
\* and neither reaches beyond its request.
SlotsOwnBlocks ==
    \A p \in Procs :
        /\ cut[p] \/ NoneDangles(p)
        /\ cut[p] \/ nested[p] \/ NoneLost(p)
        /\ req[p] = "off" => Open(p) = {} /\ \A b \in Blocks : view[<<p, b>>] = None

\* The claim of php_cachedb.c:184, that the shutdown closes any open database.
ShutdownClosesAll ==
    \A p \in Procs : req[p] = "closing" /\ at[p] = MAX_DB_FILES =>
        \A b \in Blocks : view[<<p, b>>] = None

\* The claim of php_cachedb.c:184-188 in full, a time limit included: what the
\* shutdown closes are open databases.
ShutdownClosesOpen ==
    \A p \in Procs : req[p] = "closing" =>
        \A h \in Open(p) : view[<<p, db[p][h]>>] # None

\* php_cachedb.c:184-188: pending additions are dumped, the penalty of not doing
\* an explicit close.  No step of a request in its shutdown changes the store,
\* whatever mode its handles have and however many of them share the database.
ShutdownCommitsNothing ==
    [][\A p \in Procs : req[p] = "closing" /\ (db[p] # db'[p] \/ req'[p] # "closing")
          => UNCHANGED store]_vars

\* What a script sees of its handles: a session from its open, under the number
\* that the open will return, to its close.
Pending(x) == opening[x[1]] # <<>> /\ Newest(x[1]).slot = x[2]
Held(x) == Pending(x) \/ (db[x[1]][x[2]] # None /\ closed[x[1]] # x[2])
Session(x) == <<x[1], IF Pending(x) THEN Newest(x[1]).block ELSE db[x[1]][x[2]]>>
HandleView  == [x \in Procs \X Handles |-> IF Held(x) THEN view[Session(x)] ELSE None]
HandleAdded == [x \in Procs \X Handles |-> IF Held(x) THEN added[Session(x)] ELSE {}]
ByHandle == INSTANCE SnapshotStore
                WITH Procs <- Procs \X Handles, view <- HandleView, added <- HandleAdded,
                     Torn <- FALSE

\* A request that opens within an open, or that is cut short in a close, has only
\* its own handles to lose.
Astray(p) ==
    /\ nested'[p] \/ cut'[p]
    /\ \A x \in (Procs \ {p}) \X Handles :
          HandleView'[x] = HandleView[x] /\ HandleAdded'[x] = HandleAdded[x]

\* A handle number is as good as a session of its own: through the table, with
\* slots and blocks reused in any order, and with calls from within an open, each
\* call acts on the one session that was opened under that number, and on no
\* other, until the script opens a database within the open of another or a time
\* limit cuts a close short, and then in all other processes still.
HandlesAreSessions ==
    /\ ByHandle!Init
    /\ [][ByHandle!Next \/ \E p \in Procs : Astray(p)]_ByHandle!storeVars

=============================================================================
