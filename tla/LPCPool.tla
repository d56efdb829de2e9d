------------------------------ MODULE LPCPool ------------------------------
(***************************************************************************)
(* The serial pool of lpc (src/lpc/lpc_pool.c) and the two operations that *)
(* use it (src/lpc/lpc_copy_source.c): lpc_compile_file copies a compiled  *)
(* file out to the pool, enlarging the storage and starting again whenever *)
(* the pool overflows, serialises it and inserts the record in the cache;  *)
(* or it reads a record back and copies it in.                             *)
(*                                                                         *)
(* There is one pool, one storage buffer and one vector of interned        *)
(* strings, all global.  The storage comes from malloc, so what is not     *)
(* freed outlives the request.  Sizes are counted in cells; one cell holds *)
(* the overflow marker at the end of the storage.  What a file needs is    *)
(* its Shape; only comparisons of these sizes with the storage matter.     *)
(***************************************************************************)
EXTENDS Naturals, Sequences, FiniteSets, FiniteSetsExt

CONSTANTS
    Files,
    Block,      \* addresses malloc returns
    None,
    Reuse,      \* lpc.reuse_serial_buffer
    Quantum,    \* lpc.storage_quantum
    Shape,      \* what each file takes, see ShapeOK
    Failures,   \* subset of {"compile", "build", "serialize", "insert",
                \* "fetch", "copy"}: the steps that may end in a fatal error
    Handler,    \* a user error handler that includes files is installed
    MaxOps,     \* bound: includes per request
    MaxReqs     \* bound: requests

OutOfPool == "emalloc"    \* stands for the address of an emalloc'ed vector

ShapeOK(s) ==
    /\ s.build \in Nat \ {0}    \* the copied hierarchy, with the pool header
    /\ s.tags \in Nat \ {0}     \* the relocation vector before encoding
    /\ s.vecs \in 1..s.tags     \* the encoded vector and the interned strings
    /\ s.excess \in Nat         \* how far compressed data runs ahead of its input
    /\ s.comp \in Nat \ {0}     \* the compressed record
    /\ s.slack \in Nat          \* room an in-place expansion needs, 428-440
    /\ s.interns \in Nat        \* pointers to the interned strings

ASSUME PoolConstants ==
    /\ Quantum \in Nat \ {0}
    /\ IsFiniteSet(Files)
    /\ \A f \in Files : ShapeOK(Shape[f])
    /\ None \notin Block \cup Files
    /\ OutOfPool \notin Block
    /\ Reuse \in BOOLEAN
    /\ Handler \in BOOLEAN
    /\ Failures \subseteq {"compile", "build", "serialize", "insert", "fetch", "copy"}
    /\ MaxOps \in Nat
    /\ MaxReqs \in Nat

VARIABLES
    heap,     \* blocks malloc'ed and not freed
    holds,    \* what each block contains
    buffer,   \* LPCG(pool_buffer)
    size,     \* LPCG(pool_buffer_size)
    pool,     \* LPCG(serial_pool): its type and storage
    interns,  \* LPCG(interns): whose strings, and the block the vector is in
    exec,     \* LPCG(exec_pools) is not empty
    frames,   \* the calls of lpc_compile_file in progress, outermost first
    cached,   \* files with a record in the cache
    phase,    \* of the request; "disabled" after a compile error
    ops, reqs,
    interrupted, \* history: a copy-in whose strings lie in the storage died or
                 \* was re-entered
    wild      \* history: free or efree was given something it does not own

memVars == <<heap, holds, buffer, size>>
vars == <<heap, holds, buffer, size, pool, interns, exec, frames, cached, phase,
          ops, reqs, interrupted, wild>>

-----------------------------------------------------------------------------
Rec(f)   == Shape[f].build + Shape[f].vecs
Quanta(n) == Quantum * ((n + Quantum - 1) \div Quantum)
Larger(m, n) == IF m > n THEN m ELSE n

\* What a read-only pool of f is given, rounded up with the marker.
ReadSize(f) == Quanta(Larger(Shape[f].comp, Rec(f)) + Shape[f].slack + 1)

\* An allocation of rounded_size >= available overflows; the last cell of
\* the storage is the marker, which is never available.
BuildFits(f, sz) == Shape[f].build < sz - 1
VecsFit(f, sz)   == LET available == sz - 1 - Shape[f].build
                    IN  Shape[f].tags <= available /\ Shape[f].vecs < available
PackFits(f, sz)  == Shape[f].excess < sz - 1 - Rec(f)
CopyFits(f, sz)  == BuildFits(f, sz) /\ VecsFit(f, sz) /\ PackFits(f, sz)

Junk     == [file |-> None, form |-> "junk"]
NoPool   == [type |-> "none", storage |-> None]
NoStrings == [file |-> None, block |-> None]

Content  == [file : Files \cup {None}, form : {"junk", "pool", "torn", "record"}]
Frame    == [file : Files, pc : {"storage", "build", "serialize", "catch", "insert",
                                 "book", "fetch", "copy"},
             block : Block \cup {None}, request : {0, Quantum}]

TypeOK ==
    /\ heap \subseteq Block
    /\ holds \in [Block -> Content]
    /\ buffer \in Block \cup {None}
    /\ size \in Nat
    /\ pool \in [type : {"none", "serial", "ro"}, storage : Block \cup {None}]
    /\ interns \in [file : Files \cup {None}, block : Block \cup {None, OutOfPool}]
    /\ exec \in BOOLEAN
    /\ frames \in Seq(Frame)
    /\ cached \subseteq Files
    /\ phase \in {"off", "on", "disabled"}
    /\ ops \in 0..MaxOps
    /\ reqs \in 0..MaxReqs
    /\ interrupted \in BOOLEAN
    /\ wild \in BOOLEAN

Init ==
    /\ heap = {}
    /\ holds = [b \in Block |-> Junk]
    /\ buffer = None
    /\ size = 0
    /\ pool = NoPool
    /\ interns = NoStrings
    /\ exec = FALSE
    /\ frames = <<>>
    /\ cached \in SUBSET Files
    /\ phase = "off"
    /\ ops = 0
    /\ reqs = 0
    /\ interrupted = FALSE
    /\ wild = FALSE

-----------------------------------------------------------------------------
(* Frames *)
Top     == frames[Len(frames)]
At(pc)  == phase = "on" /\ frames # <<>> /\ Top.pc = pc
Goto(pc) == frames' = [frames EXCEPT ![Len(frames)].pc = pc]
Return  == frames' = SubSeq(frames, 1, Len(frames) - 1)

\* A copy-in that ends or is re-entered here leaves LPCG(interns) pointing into
\* the storage.
Stranded == At("copy") /\ interns.block \in Block

\* A fatal error abandons every call in progress, just as it stands.  Functions
\* registered for the shutdown still run, and may include files.
Bailout == frames' = <<>>

-----------------------------------------------------------------------------
(* Storage *)

\* malloc into pool_buffer: the old pointer is overwritten, not freed.
Malloc(n) ==
    \E b \in Block \ heap :
        /\ heap' = heap \cup {b}
        /\ buffer' = b
        /\ holds' = [holds EXCEPT ![b] = Junk]
        /\ size' = n

\* Faulty variant of Realloc: the result is not stored.
ReallocLost(n) ==
    \E b \in (Block \ heap) \cup {buffer} :
        /\ heap' = (heap \ {buffer}) \cup {b}
        /\ holds' = [holds EXCEPT ![b] = holds[buffer]]
        /\ size' = n
        /\ UNCHANGED buffer

Realloc(n) ==
    \E b \in (Block \ heap) \cup {buffer} :
        /\ heap' = (heap \ {buffer}) \cup {b}
        /\ buffer' = b
        /\ holds' = [holds EXCEPT ![b] = holds[buffer]]
        /\ size' = n

\* lpc_pool_storage once it has worked out the storage_size, of either kind.
PoolStorage(n) ==
    \/ (~Reuse \/ buffer = None) /\ Malloc(n)
    \/ Reuse /\ buffer # None /\ n > size /\ Realloc(n)
    \/ Reuse /\ buffer # None /\ n <= size /\ UNCHANGED memVars

\* Faulty variant of DestroyPool: the vector is freed wherever it lies.
DestroyPoolFreesAll ==
    /\ wild' = (wild \/ interns.block \in Block)
    /\ interns' = NoStrings
    /\ pool' = NoPool
    /\ UNCHANGED memVars

\* lpc_pool_destroy on the serial pool.  The interns vector is efree'd
\* unless it lies within pool_buffer_size of the pool's storage.
DestroyPool ==
    /\ wild' = \/ wild
               \/ interns.block \in Block /\ interns.block # pool.storage
               \/ ~Reuse /\ pool.storage \in Block \ heap
    /\ interns' = NoStrings
    /\ IF pool.storage # None /\ ~Reuse
       THEN heap' = heap \ {pool.storage} /\ buffer' = None
       ELSE UNCHANGED <<heap, buffer>>
    /\ pool' = NoPool
    /\ UNCHANGED <<holds, size>>

-----------------------------------------------------------------------------
(* The request *)
RequestInit ==
    /\ phase = "off" /\ reqs < MaxReqs
    /\ reqs' = reqs + 1 /\ ops' = 0 /\ phase' = "on"
    /\ LET n == Quanta(Max({1} \cup {Shape[f].comp : f \in cached}))
       IN  IF Reuse THEN Malloc(n)
           ELSE size' = n /\ UNCHANGED <<heap, holds, buffer>>
    /\ exec' = FALSE
    /\ UNCHANGED <<pool, interns, frames, cached, interrupted, wild>>

\* A file is included: at the top level of a request, or by the user's error
\* handler while classes are being installed from the cache.
Include(f) ==
    /\ phase = "on" /\ ops < MaxOps
    /\ \/ frames = <<>>
       \/ Handler /\ At("copy") /\ Len(frames) = 1
    /\ ops' = ops + 1
    /\ frames' = Append(frames, [file |-> f, block |-> None, request |-> 0,
                    pc |-> IF f \in cached THEN "book" ELSE "storage"])
    /\ interrupted' = (interrupted \/ Stranded)
    /\ UNCHANGED <<memVars, pool, interns, exec, cached, phase, reqs, wild>>

\* Faulty variant of PoolShutdown: the buffer outlives the request.
ShutdownKeepsBuffer ==
    /\ exec' = FALSE
    /\ UNCHANGED <<wild, interns, heap, buffer>>

\* lpc_pool_shutdown: the exec pools go first, and destroying one of them
\* also releases the interns, though the storage of an exec pool is NULL.
PoolShutdown ==
    /\ exec' = FALSE
    /\ IF exec
       THEN wild' = (wild \/ interns.block \in Block) /\ interns' = NoStrings
       ELSE UNCHANGED <<wild, interns>>
    /\ IF Reuse /\ buffer # None
       THEN heap' = heap \ {buffer} /\ buffer' = None
       ELSE UNCHANGED <<heap, buffer>>

RequestShutdown ==
    /\ phase \in {"on", "disabled"} /\ frames = <<>>
    /\ phase' = "off"
    /\ PoolShutdown
    /\ UNCHANGED <<holds, size, pool, frames, cached, ops, reqs, interrupted>>

-----------------------------------------------------------------------------
(* Copy-out: compile, copy to the pool, serialise, insert *)

\* safe_old_compile_file: a compile error turns lpc off for the rest of the
\* request, and shuts the pools down at once.
CompileError ==
    /\ "compile" \in Failures
    /\ At("storage") /\ Top.request = 0
    /\ Bailout
    /\ phase' = "disabled"
    /\ PoolShutdown
    /\ UNCHANGED <<holds, size, pool, cached, ops, reqs, interrupted>>

\* Faulty variant of Book: a retry doubles the storage.
BookDouble ==
    /\ At("storage")
    /\ PoolStorage(IF Top.request > 0 THEN size + size ELSE Quantum)
    /\ Goto("build")
    /\ UNCHANGED <<pool, interns, exec, cached, phase, ops, reqs, interrupted, wild>>

Book ==
    /\ At("storage")
    /\ PoolStorage(IF Top.request > 0 THEN Quanta(size + Top.request) ELSE Quantum)
    /\ Goto("build")
    /\ UNCHANGED <<pool, interns, exec, cached, phase, ops, reqs, interrupted, wild>>

\* build_cache_entry: create the serial pool and copy the hierarchy to it.
Build ==
    /\ At("build")
    /\ pool' = [type |-> "serial", storage |-> buffer]
    /\ LET fits == BuildFits(Top.file, size)
       IN  /\ holds' = [holds EXCEPT ![buffer] =
                  [file |-> Top.file, form |-> IF fits THEN "pool" ELSE "torn"]]
           /\ Goto(IF fits THEN "serialize" ELSE "catch")
    /\ UNCHANGED <<heap, buffer, size, interns, exec, cached, phase, ops, reqs,
                   interrupted, wild>>

\* Faulty variant of Serialize: the compression does not check for overflow.
SerializeUnchecked ==
    /\ At("serialize")
    /\ LET vecs == VecsFit(Top.file, size)
       IN  /\ pool' = [pool EXCEPT !.storage = IF vecs THEN None ELSE @]
           /\ holds' = [holds EXCEPT ![buffer].form =
                  IF vecs /\ PackFits(Top.file, size) THEN "record" ELSE "torn"]
           /\ Goto(IF vecs THEN "insert" ELSE "catch")
    /\ UNCHANGED <<heap, buffer, size, interns, exec, cached, phase, ops, reqs,
                   interrupted, wild>>

\* lpc_pool_serialize, cut short by either of its overflows: a vector does
\* not fit, or the compressed bytes overtake those still to be read.  By
\* then the pool has been detached from its storage.
Serialize ==
    /\ At("serialize")
    /\ LET f == Top.file
           vecs == VecsFit(f, size)
           whole == vecs /\ PackFits(f, size)
       IN  /\ pool' = [pool EXCEPT !.storage = IF vecs THEN None ELSE @]
           /\ holds' = [holds EXCEPT ![buffer].form =
                            IF whole THEN "record" ELSE "torn"]
           /\ Goto(IF whole THEN "insert" ELSE "catch")
    /\ UNCHANGED <<heap, buffer, size, interns, exec, cached, phase, ops, reqs,
                   interrupted, wild>>

\* Faulty variants of Catch: the request is forgotten, or adds up.
CatchForgets ==
    /\ At("catch")
    /\ DestroyPool
    /\ frames' = [frames EXCEPT ![Len(frames)].request = 0,
                                ![Len(frames)].pc = "storage"]
    /\ UNCHANGED <<exec, cached, phase, ops, reqs, interrupted>>

CatchAddsUp ==
    /\ At("catch")
    /\ DestroyPool
    /\ frames' = [frames EXCEPT ![Len(frames)].request = @ + Quantum,
                                ![Len(frames)].pc = "storage"]
    /\ UNCHANGED <<exec, cached, phase, ops, reqs, interrupted>>

\* lpc_catch: ask for one quantum more than now and start again.
Catch ==
    /\ At("catch")
    /\ DestroyPool
    /\ frames' = [frames EXCEPT ![Len(frames)].request = Quantum,
                                ![Len(frames)].pc = "storage"]
    /\ UNCHANGED <<exec, cached, phase, ops, reqs, interrupted>>

Insert ==
    /\ At("insert")
    /\ cached' = cached \cup {Top.file}
    /\ DestroyPool
    /\ Return
    /\ UNCHANGED <<exec, phase, ops, reqs, interrupted>>

-----------------------------------------------------------------------------
(* Copy-in: read the record, copy it to an exec pool *)
BookRead ==
    /\ At("book")
    /\ PoolStorage(ReadSize(Top.file))
    /\ Goto("fetch")
    /\ UNCHANGED <<pool, interns, exec, cached, phase, ops, reqs, interrupted, wild>>

\* cachedb_fetch, the read-only pool, and the exec pool, which takes a copy
\* of the interned strings and points the vector at it.
Fetch ==
    /\ At("fetch")
    /\ holds' = [holds EXCEPT ![buffer] = [file |-> Top.file, form |-> "pool"]]
    /\ pool' = [type |-> "ro", storage |-> buffer]
    /\ LET n == Shape[Top.file].interns
       IN  interns' =
             IF n = 0 THEN NoStrings
             ELSE [file |-> Top.file,
                   block |-> IF n < size - Rec(Top.file) THEN buffer ELSE OutOfPool]
    /\ exec' = TRUE
    /\ frames' = [frames EXCEPT ![Len(frames)].pc = "copy",
                                ![Len(frames)].block = buffer]
    /\ UNCHANGED <<heap, buffer, size, cached, phase, ops, reqs, interrupted, wild>>

\* The rest of lpc_compile_file: the copy is complete, the pool is released.
\* (When an include by the error handler has taken the pool over, the copy
\* reads what is not its own; ReadsOwnRecord is about that.)
CopyIn ==
    /\ At("copy")
    /\ DestroyPool
    /\ Return
    /\ UNCHANGED <<exec, cached, phase, ops, reqs, interrupted>>

\* Fatal errors, which zend_bailout out of all calls: memory_limit while copying
\* out; a pointer that cannot be relocated; a cachedb write error; a read or CRC
\* error; memory_limit or a redeclared function while copying in.
Fatal(pc) ==
    /\ pc \in Failures /\ At(pc)
    /\ Bailout
    /\ interrupted' = (interrupted \/ Stranded)
    /\ UNCHANGED <<memVars, pool, interns, exec, cached, phase, ops, reqs, wild>>

Step == Book \/ Build \/ Serialize \/ Catch \/ Insert \/ BookRead \/ Fetch \/ CopyIn

Next ==
    \/ RequestInit
    \/ \E f \in Files : Include(f)
    \/ RequestShutdown
    \/ CompileError
    \/ Step
    \/ \E pc \in Failures : Fatal(pc)

Spec == Init /\ [][Next]_vars

\* lpc_compile_file is a plain call: once entered, it runs.
FairSpec == Spec /\ WF_vars(Step)

-----------------------------------------------------------------------------
\* The storage in use is storage that is allocated: the buffer, and the pool
\* from its creation to its destruction, never point to a freed block.  (After
\* a fatal error serial_pool keeps a stale pointer until the next creation.)
StorageLive ==
    /\ buffer # None => buffer \in heap
    /\ frames # <<>> /\ Top.pc \in {"serialize", "catch", "insert", "copy"}
         /\ pool.storage # None
       => pool.storage \in heap

\* Nothing malloc'ed is lost: no block is live but the buffer, and none at
\* all once the request is over (lpc_pool.c:118, 769-773).
StorageFreed ==
    /\ heap \subseteq {buffer}
    /\ phase = "off" => heap = {}

\* What is inserted in the cache is the whole record of that file, however
\* many times the copy overflowed on the way.
RecordsWhole ==
    At("insert") => holds[buffer] = [file |-> Top.file, form |-> "record"]

\* Claimed: while a record is being copied in, the pool, its storage and the
\* interned strings are those of that record, there being only one serial pool
\* at any time (TECHNOTES.txt:427).  An include by an error handler takes it over.
ReadsOwnRecord ==
    At("copy") =>
        /\ pool = [type |-> "ro", storage |-> Top.block]
        /\ Top.block \in heap
        /\ holds[Top.block] = [file |-> Top.file, form |-> "pool"]
        /\ Shape[Top.file].interns > 0 => interns.file = Top.file

\* Claimed: the strings are freed only where they lie outside the pool
\* (lpc_pool.c:752), so nothing but a live allocation is given to free or efree.
NoWildFree == ~wild

\* That fails in one way only: free or efree is given what is not an allocation
\* of its own after a copy-in whose strings lie in the storage was cut short by a
\* fatal error, or re-entered by an error handler; overflows, retries, bailouts
\* elsewhere and copy-ins whose strings are emalloc'ed never lead to it.
WildIfInterrupted == wild => interrupted

\* The least storage that f can be copied out to.
CopySize(f) == LET s == Shape[f]
               IN  Quanta(Max({s.build + s.tags + 1, s.build + s.vecs + 2,
                               Rec(f) + s.excess + 2}))

\* The retries stop as soon as the file fits: the buffer never grows past
\* what the largest file needs.
GrowthBounded ==
    size <= Max({Quantum} \cup {CopySize(f) : f \in Files}
                          \cup {ReadSize(f) : f \in Files}
                          \cup {Quanta(Shape[f].comp) : f \in Files})

\* The buffer a request starts with can hold every file in the cache
\* (TECHNOTES.txt:430-431).
BufferHoldsLargest ==
    [][phase = "off" /\ phase' = "on" => \A f \in cached : Rec(f) <= size']_vars

\* Every include comes to an end: overflow is not retried for ever.
IncludesEnd == (frames # <<>>) ~> (frames = <<>>)
=============================================================================
