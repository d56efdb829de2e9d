# A verification of cachedb and lpc in TLA+

The repository holds two extensions for PHP 5.2 and 5.3. **cachedb** stores
records under string keys in one file. **lpc** is an opcode cache that keeps the
compiled files of a script in a cachedb database, and is meant for hosts where
every request runs in a process of its own and shared memory is not available.
This directory models both, checks the models with TLC and proves the most
important results with TLAPS.

Line numbers refer to `src/cachedb/cachedb.c` and `src/lpc/*.c` unless a path is
given.

## 1. The system

### 1.1 Components

| Component | Where | State | Operations |
|---|---|---|---|
| cachedb, shared file | cachedb.c 170-275, 280-400 | the database file and its name, temporary files, per handle: mode, base stream, stat block | open r/w/c, add, close, close with `r` |
| cachedb, records | cachedb.c 280-335, 400-527, 560-790 | index list and hash, offsets, two streams with cached positions, last find | exists (find), fetch, add, info, load of the index, commit |
| cachedb, PHP functions | php_cachedb.c | table of ten handles | open, exists, fetch, add, info, close; start and end of a request |
| lpc, request and cache | lpc_request.c, lpc_cache.c, php_lpc.c | request context, the cache structure, index of the cached files, `enabled` | start and end of a request, open and validate, make key, retrieve, insert, clear |
| lpc, serial pool | lpc_pool.c, lpc_copy_source.c | one buffer for the process, the serial pool, the interned strings, the list of exec pools | storage, create, serialise, unload, destroy, shutdown, overflow and retry |
| lpc, relocation | lpc_pool.c 770-1010 | tags, relocation vector | make the vector, relocate out and in |
| lpc, compression | lpc_pool.c 1015-1197 | the storage, compressed in place | compress, uncompress |
| lpc, include handler | lpc_cache.c 475-548 | the instruction itself, while it executes | INCLUDE_OR_EVAL |
| lpc, classes and functions | lpc_copy_class.c, lpc_copy_function.c, lpc_copy_source.c | the class and function tables of the engine | collect after a compile, install on a load |
| lpc, op arrays | lpc_copy_op_array.c | none beyond the pools | deep copies out and in |
| lpc, hash tables | lpc_hashtable.c | none beyond the pools | deep copies |
| lpc, dispatch table | lpc_op_table.h, lpc_generate_op_table.php | none | generated data |
| lpc, utilities | lpc.c | none | sizes, paths, filters, cache names |
| debugging, INI, phpinfo | lpc_debug.c, php_lpc.c | settings | text output |

### 1.2 How they interact

PHP scripts call cachedb through a handle table. lpc calls it directly: it opens
one database per request in mode `w`, finds and fetches records during the
request, adds the files it had to compile, and closes at the end, which commits.
Several processes do that to one file and share nothing but the file system.

Within a request the engine calls lpc back: `lpc_compile_file` for each file
that is included, `lpc_include_or_eval_handler` for each include instruction.
A compile that is to be cached is copied out to the serial pool, made
position independent (relocation), compressed and added. A hit goes the other
way: fetch, expand, relocate, copy to an exec pool, install functions and classes.
Copy-in calls the engine again (inheritance), which may call a user's error handler,
which may include a file: lpc is re-entered with the one pool in use. cachedb is
re-entered too: an add serialises a value, a fetch restores one, and the `__sleep` and
`__wakeup` of an object may call any function of cachedb, for the same handle. An open may
raise a warning, whose handler may open another database before the slot of the first is set.

Three kinds of exit cut across all that: an overflow of the pool is a `longjmp`
to the retry loop of `lpc_compile_file`; a fatal error is a `longjmp` out of
everything to the end of the request, which still runs its shutdown; a crash
ends the process and leaves what is in the file system.

### 1.3 What is hard

* **Concurrency**: open, stat, copy, stat, rename are system calls of one
  process between which others run. The identity of the base file is judged from
  an inode number and a time in seconds (353-356).
* **Time**: a source is read before it is stat'ed (lpc_cache.c 418), edits happen at
  any moment, and modification times count seconds.
* **Failure**: writes fail, copies end early, processes die, requests bail out.
* **Retry**: an overflow leaves half a pool and torn contents behind.
* **Memory**: vectors and records are rewritten in place, reader before writer.
* **Order**: classes are declared in another order than when they were compiled.
* **Place**: what was resolved, bound or addressed in one process, directory or
  setting is used in another: jump targets, handlers, include names, parent classes.
* **Re-entry**: scripts run in the middle of an open, an add, a fetch, a copy-in and an include.

`PROJECT.json` lists each of these hazards at its line ("hazards").

### 1.4 What makes each component correct

* Shared file: readers keep the version they opened; a partial file is never
  published; the check of the base neither misses a replacement (within what
  seconds can tell) nor discards for nothing; temporary files are accounted for;
  seen from outside every change is one atomic change of a simple store.
* Records: offsets in memory match the bytes on disk, whatever order of
  operations; what was stored is what is fetched; what was added is committed.
* Cache: a stale compile is never executed where the stat check is in force, and
  the script itself is current without one.
* Pool: storage in use is allocated, everything allocated is released, records
  are whole after any number of overflows, and the retries end.
* Relocation and compression: what is read back is what was written.
* Handles: each handle is a session of its own, closed once; a request that dies
  commits nothing; what goes wrong in one request is over with it.
* Include handler and path resolution: `_once` means once, and an include loads the file
  the engine would load.
* Classes: a request declares with lpc what it would declare without, member by member.
* Op arrays: what is loaded runs like what was compiled, in any process, and creates
  the autoglobals that the copy has noted.

## 2. The modules

| Module | Models | Composes |
|---|---|---|
| `SnapshotStore` | what cachedb promises: a store that is replaced as a whole | |
| `CacheDB` | the protocol of the shared file; implements `SnapshotStore` | `Store == INSTANCE SnapshotStore` |
| `CacheDB_proofs` | invariants and refinement, proved | extends `CacheDB` |
| `CacheDBRec` | records, offsets and streams of one session after another | |
| `CacheDBRec_proofs` | offsets, positions and what is fetched, proved | extends `CacheDBRec` |
| `LPCCache` | requests, validation, retrieval and commit | `DB == INSTANCE SnapshotStore` |
| `LPCCache_proofs` | freshness, proved | extends `LPCCache` |
| `LPCPool` | the serial pool, overflow and retry, bailout, re-entry | |
| `LPCPool_proofs` | storage, records and frees; the vector and what it restores; the compression, proved | extends `LPCPool`, `LPCReloc`, `LPCRle` |
| `LPCReloc` | the relocation vector | |
| `LPCRle` | run-length compression in place | |
| `LPCInclude` | the include handler and the resolution of names | |
| `LPCInclude_proofs` | what is rewritten, executed once and found, proved | extends `LPCInclude` |
| `LPCClasses` | storing and installing classes and functions, beside the compiler | |
| `LPCClasses_proofs` | transparency as a simulation, proved | extends `LPCClasses` |
| `LPCOpArray` | the copies of op arrays out and in | |
| `LPCOpArray_proofs` | loads, refusals and the autoglobals that are created, proved | extends `LPCOpArray` |
| `PHPHandles` | the functions of cachedb and the table of handles | `DB == INSTANCE SnapshotStore` |
| `PHPHandles_proofs` | slots, shutdown and refinement, proved | extends `PHPHandles` |
| `MC...` | model values, sample inputs and symmetry for TLC | extend one module each |

`SnapshotStore` is the seam. `CacheDB` is shown to implement it, by TLC on a small
instance and by proof for every instance, and `LPCCache` uses cachedb through it:
each action of `LPCCache` that calls cachedb is conjoined with an action of the
store (`DB!Open`, `DB!Add`, `DB!Commit`, `DB!Abandon`, `DB!Remove`). So what is shown of
`LPCCache` holds over everything cachedb may do, a commit that loses its race
(`DB!Abandon`) and a removal by another process included. `PHPHandles` uses it in the same
way, with a session for each control block of each process, and is itself shown, by the run and
by proof, to implement it with a session for each handle, as long as opens do not nest and no time
limit strikes inside a close (`HandlesAreSessions`).
The store also has a torn commit (`Spoil`), which only `CacheDB` has a use for: the commit of a copy that ended early.

Definitions named "Faulty variant of" are not part of a specification: each is the
mistake that one of the properties would catch, and PROJECT.json ("mutants") pairs
them.

### CacheDB

One element of `Procs` is one open handle. `disk`, `path` and `temps` are the file
system: the contents of inodes, the inode under the database name, and those
under temporary names. An open stream pins its inode (`fp`), and one neither linked nor pinned
may be used again. `pc`, `mode`, `sb`, `index`, `adds` and `new` are `cachedb_t` and the place
its owner has reached. `gen`, `base` and `openedAt` are history.

`OpenBase` is an open that finds the file: the stat block is that of the stream
(252), so the whole is one step. A file is begun, short or whole (`part`): a copy that ends early
leaves it short, and an open refuses it. `OpenMissing` and `StatBase` are an open that
has no stream; there the stat goes by name (259) and others may act in between.
`Add` is an addition to the private temporary file. `CreateNew`, `CopyRecords`, `CloseStreams`,
`CheckBase`, `Swap` and `Drop` are the system calls of a commit (300-370);
`CloseDiscard` is a close without additions or with `r`; `WriteFails` is a
failed write, after which the handle is left to the shutdown. `ClearClose` and `ClearRemove`
are lpc_cache_clear (`lpc_cache.c` 272-280). `Crash` kills the process anywhere.

### CacheDBRec

One session after another works on one file. A record is a run of cells that
know the record and the place they belong to, so that a read from a wrong
position or of a wrong length yields visibly wrong contents. `base.pos` and
`tmp.pos` are the true positions of the streams and `next` the positions the code
believes in (`next_pos`). The fetch does not seek when they agree.
A fetch and an add are two steps each, with the serialisation between them, and `calls`
is the stack of those in progress: what `__sleep` and `__wakeup` may call meanwhile on the
same handle is the constant `Nested`. `BeginFetch` and `EndFetch` follow 437-460, `BeginAdd`
and `EndAdd` 470-520, `Close` 280-400.

### PHPHandles

`db` is the table of a process, `heap` its control blocks, `mode` their modes. The memory of a
block that is freed may be the next one allocated, so a slot that keeps the address of a freed
block would be the handle of another database. `opening` is the stack of opens that have not
returned: `CallOpen` finds the slot (231) and opens the stream, then an error handler or a callback of
unserialize may call anything, opens included, and `OpenReturns` sets the slot it had found.
`OpenFails` is a fatal error inside the innermost open, `Bailout` the end of the script there.
`CallAdd`, `CallClose` and `ClearSlot` follow php_cachedb.c 205-368; `TimeLimit` strikes between the
two parts of a close, and what is then done with the freed block is `StaleUse`, where the process
dies, or `StalePassed`, where nothing happens. `RInit`, `ShutdownSlot` and `ShutdownDone` follow
165-205, and `DropProcess` is what the engine does for every module afterwards: streams are closed, the heap is
dropped. A fatal error ends a call and not the request, since registered
shutdown functions still run with the table.

### LPCCache

`now` and `src` are the clock and the source files: a modification time in seconds and a version
that no program can see. A record is identified with the version that was
compiled. `Begin`, `StatMain`, `OpenCache`, and one of `NewContext`, `AcceptContext`,
`RejectContext` start a request. For each file, `LoadUnchecked` is a hit without stat, `Fixup` reads the source and
is followed by the stat and one of `LoadChecked`, `ClearStale`, `CompileAndAdd`,
`CompileOnly`, `CompileFatal` and `CompileParseError`. `Edit` may come between the reading and the stat. `EndScript`, `CommitCache`,
`DiscardCache` and `NoCache` end it.

### LPCPool

`frames` are the calls of `lpc_compile_file` in progress. `Book` to `Insert` are
the copy-out with its retry (`Catch`), `BookRead`, `Fetch` and `CopyIn` the copy-in.
`holds` says what each block contains: a whole or torn pool or record, or junk. Sizes are
counted in cells; what a file needs is its `Shape`. `CompileError` ends a compile, `Fatal` any later
step, and an error handler may include a file in the middle of a copy-in. `interrupted` and `wild` are
history: a copy-in whose strings lie in the storage was left, and something was freed that was not
allocated.

### LPCReloc, LPCRle

Both follow the code byte by byte, over storage that shrinks with the radix: a byte
of the relocation vector carries `Radix` values (128 in the code) and a run of the
compression is at most `RunMax` long (15 in the code), and a compressed record is read to the start of
a word. With 2 and 3, the long encodings and the full
blocks occur in small records. `LPCReloc` writes the byte vector over the front of the
entries it encodes. `LPCRle` reads and writes one memory. Its names differ from those of the
code (`rd`, `wr`, `runAt`, `zleft`, `nleft` for `p`, `q`, `s`, `i`, `j`), so that one module can prove
things about it and the other two parts of `lpc_pool.c`.

### LPCInclude, LPCClasses, LPCOpArray

`LPCInclude` has a stack of files in execution (`frames`), each with its copy of the include
instructions of its code: the name, resolved or as written, and whether the variant is `_once`
at the moment. Instructions of functions belong to the script and are shared by all calls; a file
may call the function it is included from.
The index is keyed by names as they are given, the list of included files holds files.
`Where` (by include path or working directory) and `Beside` (in the directory of a file) say
what a name stands for; `LpcFinds` and `EngineFinds` are the two ways to look. The script may
change its settings, call functions, and be abandoned anywhere, after which its shutdown
functions run.

`LPCClasses` runs two requests in lockstep, one with lpc and one without, over the same
files, and compares what they declare. A class has a table of members, each known by the
statement that declared it, and fields for its magic methods. `CopyOut` leaves out what was
inherited when the compiler bound the class (`IsLocal`), `CopyIn` sets the fields anew, of the
methods whose names it recognises (`Matched`), and
`Bind` inherits from the parent of this request. Classes and functions within a condition lie in the tables
under mangled names until their statement is executed (`Mangle`, `Keys`); a load adds a mangled class unless it is
there, and has a fatal error for a mangled function that is there. What a compile and an installation make of an
environment, class by class, are the functions `Compiled` and `Installed` of the number of
classes done. The engine is modelled as far as lpc relies on it and marked external in the map.

`LPCOpArray` copies the op arrays and classes of a file opcode by opcode, with addresses as
numbers: `src` is the file as compiled, `pool` the copy, `run` what a later request of another
process has. The pool may overflow at any opcode, and the copy starts again from a source that
the first try may have changed. `recording` says whether the compiling request had
`auto_globals_jit` on, and `Remembered` what its flags hold at the end of an op array. `OpTable` gives the flags of opcodes the copies act on
(lpc_op_table.h).

## 3. The runs

| Run | Instance | What it shows |
|---|---|---|
| `cachedb` | 2 sessions, 2 keys, 3 inodes, 3 generations, 2 clock values, copies that end early; 580 000 states | the safety of the shared file and the refinement of `SnapshotStore` |
| `cachedb_live` | 2 sessions, 1 key, 3 generations, a crash or failed write, copies that end early; 550 000 states | of racing commits one lands; a fault costs a temporary file, never the database |
| `records` | 3 keys, 3 kinds of values, 3 records, both formats, adds nested two deep; 730 000 states | offsets, positions, fetches and commits |
| `lpc` | 1 request at a time, script and include edited twice each, 4 clock values; 890 000 states | freshness over a long history, with clears |
| `pool_reuse` | 3 files, 2 requests of up to 3 includes, 2 blocks, a failure at any step, includes from an error handler; 190 000 states | storage, records, retries and frees with the default buffer |
| `reloc` | all 255 sets of pointers in 8 words, 2 addresses | relocation with up to three bytes a delta |
| `rle` | all records of up to 6 bytes over 3 values, 144 long ones, 4 gaps; 62 000 states | compression and expansion in place |
| `include_once` | 4 files in 2 directories, 8 instructions (2 in functions, called again by what they include and at the shutdown), 3 ambiguous names, 2 settings, nesting of 4, any index; 57 000 states | a file the name means, and not twice; what is met rewritten |
| `classes` | 6 files, 4 classes with members, 3 magic methods, a function, some within conditions, 3 requests; 320 000 states | transparency |
| `op_arrays` | every script of 2 opcodes and a return, with a function and a class or without, 2 processes, 2 addresses, 1 overflow, both kinds of autoglobals and settings; 770 000 states | what is loaded runs like what was compiled, and which autoglobals it creates |
| `handles` | 1 process, 2 handles, 3 blocks, 1 key, opens two deep, time limits; 130 000 states | each handle its own session, and no commit at the shutdown |
| `reloc_long` | 10 words, where a delta may take four bytes | a finding, see section 6 |

Further configurations that pass: `MCLPCCache_Include` (two requests at a time and an include
edited once; freshness under interleaving, 790 000 states) and `MCLPCPool_NoReuse` (the pool
without `lpc.reuse_serial_buffer`, with includes from error handlers and fatal errors
everywhere, 1 040 000 states). Each module has a type invariant; where a run does not list it, add
`INVARIANT TypeOK` to the configuration (it is named `RelocTypeOK` in `LPCReloc` and `RleTypeOK`
in `LPCRle`).

Why these bounds are enough. In `CacheDB` the interesting events need a base, a
replacement of it, and a third file in the inode of the first: three generations and
three inodes. They need two sessions, one of which may open any number of times
while the other is in the middle of its close, and a clock that ticks once,
between the two. Faults are in `cachedb_live`, with one key. What is proved (section 5) holds without bounds. In `LPCCache` the events
are a compile, an edit in the same second or a later one, and another compile, which three values of
the clock allow. In `LPCPool` one file fits a quantum, one
overflows in the copy, one in the vectors and again in the compression; three includes
let the buffer be reused after growing, or after a copy-in was interrupted in either way. `MaxOps` and `MaxReqs` bound the includes and requests.
In `LPCReloc` and `LPCRle` the radix and the run length are scaled, so that every
length of an encoding occurs. In `LPCRle` the quantum has to be scaled with them. With a quantum of
16 bytes and runs of 3 the expansion in place fails for records of the run, with 24 it succeeds. What
suffices for every record is the assumption `RleRoom`: 124 bytes in the run, 5528 in the code, which
insists on 32768 (lpc_request.c 130).
In `LPCClasses` a chain of three classes, two variants of its base with other members and files
that require each other give each order of declaration the code distinguishes; one of them declares a
function and a class within conditions, which shows at its second inclusion. In `LPCInclude`
the names are absolute ones, one on the include path that a file beside the script hides from
a naive search, one that stands for another file in either directory, and two computed ones the settings decide
about, one of them for a plain include; a file is nested deep enough to be included by what it included, and calls the
function that includes it. In `CacheDBRec` a nested add may
itself be interrupted. In `PHPHandles` one handle may be closed and its block reused by another
while another open is in progress within a third.

`CHECK_DEADLOCK FALSE` is in every configuration: the clock, the edits, the
includes and the generations are bounded, and the algorithms of `LPCReloc` and
`LPCRle` end. Nothing in this system waits for anything.

### Fairness

`CacheDB!FairSpec` has weak fairness of `CloseStep(p)`: a close that has begun is
straight-line code. Nothing obliges a script to open, add or close. `LPCPool!FairSpec` has weak fairness of
`Step`: `lpc_compile_file` is a plain call. A retry loop is fair code and still need not
end; that it does (`IncludesEnd`) is a result. Both properties are checked by TLC only.

## 4. Properties

Each is stated in a comment beside its definition. Those worth a second look:

* `CheckSound` (CacheDB) — the comparison of inode and mtime is made after the stream
  that pinned the inode is closed, so the inode may have been handed out
  again. It is sound only for a base that was at least a second old when it was opened
  (`Settled`), because a file created later has a later mtime. Without
  that condition TLC finds the exception (`PassedCheckMeansUnreplaced`, section 6).
* `DiscardJustified` and `SomeCommitLands` — the check has no false alarms, so a race has
  a winner.
* `ImplementsStore` — refinement. `StoreNow` is the file under the name, a session's view
  lasts from the end of its open to the rename or unlink, and the rename is the commit. A copy that has ended early
  is noticed by nobody before the next open, which is the store's torn commit; whatever else happens, the
  file under the name is whole (`PublishedWhole`).
* `OffsetsTile` (CacheDBRec) — offsets in memory are computed while adding and are
  recomputed while loading; both must describe the bytes that are there.
* `TimeIdentifiesVersion` (LPCCache) — `lpc.file_update_protection` makes a
  comparison of seconds sound even at 0, since a file must be strictly older than the
  start of the request that compiles it. A long-running process keeps its first start time, which
  is only safer.
* `MainIsCurrent` — why `lpc_cache_make_key` need not stat the script (390-395).
* `RecordsWhole`, `GrowthBounded`, `IncludesEnd` (LPCPool) — three sides of the retry loop.
* `WildIfInterrupted` (LPCPool) — the vector of strings outlives the pool it points into if a copy-in dies
  or is re-entered, and the next pool to be destroyed frees by it. The property says that nothing else does.
* `RoundTrip` (LPCRle) — the compression writes into the bytes it has read, up to
  the marker at the end and the checksum at the start.
* `Transparent` and `BoundToCurrent` (LPCClasses) — compared with the compiler, and with respect to the
  class of this request and not the one of the compile: the members of a bound class are
  its own and what its present parent has, so the filters of the copy-out must leave out
  exactly what was inherited from another parent.
* `NoFatalOfItsOwn` (LPCClasses) — with its three exceptions: an installation that failed, a class that a
  compile now would have bound earlier, and a function within a condition that is loaded again.
* `FetchReturnsStored` (CacheDBRec) — whatever a `__sleep` adds in the middle of an add.
* `SlotsOwnBlocks` (PHPHandles) — a slot that outlives its block becomes a second handle of
  another database, closed twice; the order of the statements in `cachedb_close` and the
  fatal errors within decide. An open nested in an open may fill the slot the outer one has found: the
  outer one then overwrites it, and the session of the inner one is lost, but still no handle dangles. A time limit
  within a close does leave one that dangles. The property says how far each goes, and that the next request
  starts clean. `HandlesAreSessions` says the same of what is read and written.
* `LoadsWhatNameMeans` (LPCInclude) — a name is resolved by one execution, at the compile, and
  used by others, so settings and directories differ. Which file is loaded differs from the engine's only for a name
  that leads to several files, and only if it was resolved before or is a key of the index.
* `RewrittenOnlyInside`, `MetRewrittenInside` (LPCInclude) — every instruction that can still be executed reads
  `_once` again unless its own include is in progress; so the one that meets it rewritten is a
  recursive call, or a shutdown function that the script was abandoned in.
* `AutoglobalsArmed` (LPCOpArray) — the `&=` of line 328 makes an op array forget the autoglobals it has noted
  at each one that has no flag bit. The property says exactly what is remembered, over copies that are started
  again, and that a load creates just that, in any request; JitNamesArmed and OtherNamesArmed are the claims it
  falls short of.
* `LoadedRunsAlike` (LPCOpArray) — pointers are moved four times: on the copy-out, on the way to the
  file, on the way back and on the copy-in.

## 5. The proofs

TLAPS proves for all constants that satisfy the named assumptions
(`ConstantsOK`):

`CacheDB_proofs`

* `TypeCorrect`, `ReadersKeepTheirSnapshot` (SnapshotStable), `CheckIsSound`, `DiscardIsJustified`:
  consequences of `Invariance == Spec => []IInv`. The properties are not
  inductive: that a reader's file stays what it was needs that no session writes to
  an inode others read (`Apart`), that an inode is reused only when nobody links or
  pins it (`InUse`), and that the generations name files (`Gens`). `CheckIsSound` needs that whatever
  came to live in a session's base inode was written after the open (`Reused`).
* `PublishedIsWhole` (PublishedWhole) — a file past its copies is whole, or short if a copy ended early
  (`Built`, `ShortAllowed`); the theorem adds that with complete copies only whole files are published.
* `TempsAreAccounted` (TempsAccounted) — the invariant counts: no more temporary files are without a session
  than faults have happened (`OrphansPaid`). No assumption.
* `ImplementsSnapshotStore` (ImplementsStore) — assumes that the value `None` is no set of
  keys. Copies may end early: their commit is the torn one of the store. Initial states map to initial states; `StepImplements` has one case per
  action, most of them stutters.

`LPCCache_proofs`

* `Invariance` rests on `Clock` (what is cached was last changed before the present
  second), `ReadInTime` (a file that was read during a request and bears an older time has
  not changed since), `Coherent` (the context record and the compiled script of a database
  agree) and `NotOlder`. From it `TypeCorrect`, `TimeIdentifies`
  (TimeIdentifiesVersion), `MainStaysCurrent` (MainIsCurrent) and `CheckedLoads` (CheckedLoadIsFresh).
  No assumption ties the number of requests, files or edits.

`CacheDBRec_proofs` — for any keys, values, sessions and depth, under `Regular`: sessions have the format
of the database, and a method that is called back fetches nothing. `MCCacheDBRec_Mixed` and
`MCCacheDBRec_Nested` show what happens otherwise; what `__sleep` looks up or adds does no harm.

* `Invariance` rests on `Lies` (the records lie one after the other, as the running sums of their lengths
  say, to the end of the data: in the file, and in the base followed by the temporary file), `Placed` (the
  offsets in memory are these sums, counted behind the header), `Positions` (outside a call the
  streams stand where `next_pos` says; in an add, at the end of the temporary file; in a fetch, behind the
  record) and `Additions` (what was added shows in `next_pos`). The offsets alone are not
  inductive: a fetch that believes to be in place reads from where the stream is.
* `NoReadFails` (NoReadError), `OffsetsTileStreams` (OffsetsTile) and `FetchReturns` (FetchReturnsStored)
  follow from it, with `LiesInOne`: a record is never cut by the border of the two streams.
* `CommitsAdditions` (AdditionsCommitted) — assumes that no value has length 0, as
  `MCCacheDBRec_Empty` shows to be needed.

`PHPHandles_proofs` — for any processes, slots, blocks, keys and nesting of opens.

* `Invariance` rests on `Owning` (the slots a call may use and the opens in progress
  have different blocks, each with an open session), `Clearing` (a slot whose
  block is gone is that of a close in progress) and `Passed` (the shutdown leaves empty what it has passed,
  so the end of the request finds nothing open); of a request that a time limit has cut short it
  says only what the shutdown needs. Unless opens nest, the slot of the one in progress is free. Each action is proved for the process that
  takes it; `OthersKeep` settles the others once. From it `TypeCorrect`, `SlotsOwn`
  (SlotsOwnBlocks) and `ShutdownLosesAdditions` (ShutdownCommitsNothing). No assumption.
* `ImplementsSessions` (HandlesAreSessions) — with the slots as sessions, an open, add, close or
  shutdown of a slot is one step of the store, everything else none, until the request nests opens or is
  cut short; the other processes never notice. `OtherSlots` is the heart of it:
  a change of the session behind one slot is seen through no other.

`LPCPool_proofs` — for any files, shapes, blocks, failures and bounds, `Reuse` and `Handler` of either
value unless the theorem says so. Of the sizes nothing is used but that a copy fits or does not,
except by the last theorem.

* `Invariance` rests on `TopOK` (the storage of the pool is the buffer or nothing, and the
  copy in the buffer is as whole as the step that is due), `StackOK` (only a call that is installing classes has
  another above it), `AloneOK` and `StringsOK` (the interned strings are released before the next call).
* `StorageStaysLive` (StorageLive) and `InsertsWholeRecords` (RecordsWhole): no assumption.
* `ReusedStorageIsFreed` (StorageFreed): assumes `Reuse`, as `MCLPCPool_Leak` shows to be needed.
* `FreesOnlyLive` (WildIfInterrupted): no assumption. Until a copy-in is interrupted the strings belong to the
  pool on top, or to none.
* `BufferBounded` (GrowthBounded) — the buffer is a number of quanta, and a copy that overflowed did not
  fit in it (`GInv`), so it grows towards the need of a file and not past the greatest, of finitely
  many `Files`.

The relocation vector, in the second part of `LPCPool_proofs` — for any pool, pointers, addresses and
radix. The definitions of `LPCReloc` carry its name where those of `LPCPool` would clash.

* `RelocInvariance`: tags are words of the pool, the deltas are the differences of the sorted tags, and after
  `p - 1` entries at most four bytes for each are written. `VectorsApart` (UnreadKept) follows: a vector
  of words holds its own encoding.
* `Restores` (PointersRestored) — a second invariant, `Restoring`, says which words the walk has passed,
  what they hold, and that the bytes ahead encode the deltas ahead. It assumes
  `Words <= Radix^3`, in the code a pool of 2097152 words: the fourth byte of a delta is
  stepped over by three (lpc_pool.c 983), which the run `reloc_long` shows.

The compression, in the third part of `LPCPool_proofs` — for any records, gaps, `RunMax` and `Guard`, with
a quantum that has `RleRoom`.

* `RleInvariance` speaks of cuts: places in the compressed record at which a block ends, each with
  the place in the record it stands for (`Cuts`); from each the next is reached by a block (`BlockBetween`).
  It is a set and not a function of the bytes, as decoding is recursive. `Light` bounds how much
  longer what lies behind a cut may be than what it stands for: one byte for each full block, and a run of zeros
  makes up for it (`Less`). The lemma `Emitted` says what a block adds, once for the three places that write one.
* `OverflowIsTight` (OverflowOnlyWhenTight) follows from `LightAt(0, 0, ...)`, which holds of a record being
  written even where the writer has passed the reader.
* `RecordsSurvive` (RoundTrip) — while expanding, the writer has to stay behind the reader at each cut
  ahead. `Room` shows that the buffer `lpc_pool_storage` provides is large enough, though the record is
  moved down to the start of a word: the term `c / RunMax` of its size pays for the growth and the rest of the word,
  or else the record is short and the cut near its start, and the quantum does.

`LPCInclude_proofs` — for any files, names, settings, code and depth.

* `Invariance` rests on `IndexOK` and `FramesOK` (index and frames hold code as their file says, with
  names a site may have been given), `ShutdownApart`, and `Rewriting`: an instruction that reads plain and is
  `_once` in its source is so because of exactly one frame that rewrote it and has not returned.
* `RewritesOnlyInside` (RewrittenOnlyInside) and `MeetsRewrittenInside` (MetRewrittenInside): no assumption. The
  second follows from the first: a plain `_once` instruction that is executed has its own frame below.
* `OnceOutsideFunctions`, `ExecutesOnce` (ExecutedOnce) — a file that functions do not include is executed at
  most once, for any names; `MCLPCInclude_Claims` shows the assumption to be needed. `OneStepMeansOnce` says
  that the rewriting is the only thing that executes a file twice, functions included.
* `LoadsWhatIsMeant` (LoadsWhatNameMeans): no assumption. `MInv` is the argument: a name is resolved
  to a file it leads to, the file of an entry of the index is one that the key leads to, and code in execution has the
  names of its source but for those that were resolved.

`LPCOpArray_proofs` — for any files, processes, addresses and countdown.

* `Invariance` rests on `PoolOK` and `Progress` (the copy is that of the opcodes before the place the loops
  have got to, and complete when stored), `TagsOK` (tagged are the jumps copied, and nothing of
  an earlier try) and `LoadOK` (units are copied in from the last to the first).
* `LoadsAlike` (LoadedRunsAlike): no assumption.
* `RefusesOnlyLarge` (NoFalseCircular) — assumes files without class members, as
  `MCLPCOpArray_Claims` shows to be needed. `ClassesThatFit` is what holds with them: nothing is refused
  if the members fit what the opcode before them left of the countdown.
* `LoadingArms` (AutoglobalsArmed): no assumption. While a unit is copied its flags hold what is remembered of the
  opcodes copied so far (`Recorded`), and `RememberedAfter` says what one more opcode makes of that.

`LPCClasses_proofs` — for any files, classes, members, depth and number of requests.

* `Invariance` says of each of the two requests that every class in its tables is what its statement and
  its parent make it (`ClassOK`), of a stored record that it holds each class as declared (`RowOK`).
  `TypeCorrect` (TypeOK) and `BoundNow` (BoundToCurrent) follow.
* `GoesAlong` is the simulation, `AInv`: while no installation has failed, what is declared with
  lpc is declared without it and is the same; a class that only the compiler has declared is
  one a file in execution has yet to declare (`Pending`); and if no class was left to its instruction by
  lpc alone, none differ (`OnTime`). Or else (`Astray`) the request without lpc is bound for a fatal error. Equal tables alone are not inductive: the compiler may bind a
  class early that lpc leaves to the instruction.
* `FatalAsWithout` (NoFatalOfItsOwn) and `LoadsTheSame` (Transparent): no assumption. The fields of
  magic methods are the same as far as the copy-in finds them; `MagicMethodsKept` in `MCLPCClasses_Claims` shows the
  one it does not find.

Induction over data: the induction theorems of the library take an operator, which the installed
provers cannot instantiate. `OneByOne` and `LeastNatural` state the principle for a set
of numbers instead, from the well-foundedness of `<`, and carry the induction over the
classes of a file, the running sums of a database and the maximum of a set of sizes.

Only model-checked: the liveness properties `SomeCommitLands` and `IncludesEnd` (fairness is out
of the prover's reach), and the type invariants of `CacheDBRec`, `LPCPool`, `LPCReloc` and
`LPCRle`, of which the proofs use only the parts they need.

## 6. Where the code and its documentation disagree

One is a run, with a finding in PROJECT.json. The others have configurations of their
own, which are not part of the regular runs: `tlc -config <cfg> <module>` shows the counterexample.
Where a configuration (`..._Claims`) lists several properties, each of them fails: keep one at
a time to see its counterexample.

| Configuration | Property | What happens | What is said |
|---|---|---|---|
| `MCLPCReloc_Long` (run) | NoRelocationError | a four byte delta is passed with `p += 3` (lpc_pool.c 983) | lpc_pool.c 855-856 |
| `MCCacheDB_Claims` | FirstCommitterWins | the check (347) and the rename (365) are two calls; a commit in between is lost | cachedb.c 49-51, tests/cachedb_test1.phpt 56 |
| | PassedCheckMeansUnreplaced | a reused inode within a second passes the check (353-356) | cachedb.c 49-51 |
| | WriteModeKeepsRecords | `w` on a missing file becomes `c` (238); its stat may find the file another process made meanwhile, and its commit drops those records | cachedb.c 24-26 |
| | ReadNeedsDatabase | `r` on a missing file succeeds, empty (223-229) | cachedb.c 184 |
| `MCCacheDB_ShortCopy` | PublishesOnlyWhole | results of the copies are ignored (324, 327) | cachedb.c 44-45 |
| `MCCacheDBRec_Empty` | AdditionsCommitted | additions of no bytes are not committed (291) | cachedb.c 44 |
| `MCCacheDBRec_Mixed` | FetchReturnsStored | a read that fails leaves a stale position (453) | cachedb.c 36-38 |
| `MCCacheDBRec_Nested` | FetchReturnsStored | a `__wakeup` that looks up or fetches another key moves `last_find` and the stream of the fetch it interrupts, which then records a wrong position (453); in a `__sleep` a fetch moves the temporary stream after the seek to its end (493) | cachedb.c 36-38 |
| `MCPHPHandles_Claims` | ShutdownClosesAll | a database opened within the open of another is overwritten in its slot (232), and one whose open a bailout ended has none; the shutdown does not close them | php_cachedb.c 184 |
| | ShutdownClosesOpen | a time limit between the close and the reset of the slot (354-356) leaves a handle of a freed block, which the shutdown closes again | php_cachedb.c 184-188 |
| `MCLPCCache_Claims` | ErrorDiscardsUpdates | a fatal runtime error still commits (lpc_cache.c 264) | lpc_cache.h 48-51 |
| | ClearCookieInvalidates | clear_flag_set is never set (lpc_request.c 138) | lpc_cache.h 67-77 |
| | ClearCallDisables | nothing reads force_cache_delete (php_lpc.c 272) | lpc.h 172-173 |
| | UncachedRequestRuns | the include handler uses a cache that is gone (lpc_cache.c 531) | lpc_cache.c 186-187 |
| | CompileErrorsSurvive | the compiler's NULL is dereferenced (lpc_copy_source.c 131) | lpc_copy_source.c 41-42 |
| `MCLPCPool_Leak` | StorageFreed | without reuse each storage is lost (lpc_pool.c 732) | lpc_pool.c 769 |
| `MCLPCPool_Handler` | ReadsOwnRecord | an include from an error handler takes the pool over (lpc_copy_class.c 132) | TECHNOTES.txt 427-428 |
| `MCLPCPool_Fatal` | NoWildFree | the shutdown after a failed copy-in frees inside the buffer (lpc_pool.c 754-755) | lpc_pool.c 752 |
| `MCLPCPool_Sizing` | BufferHoldsLargest | the buffer is sized by compressed lengths (lpc_cache.c 168-170) | TECHNOTES.txt 430-431 |
| `MCLPCInclude_Claims` | RewrittenForOneStep | a recursive call meets the rewritten instruction (lpc_cache.c 534) | lpc_cache.c 480-481 |
| | RewrittenOnlyUnloaded | unresolved names are looked up among resolved ones (lpc_cache.c 532) | TECHNOTES.txt 547 |
| | ExecutedOnce | a file is executed twice after the one or the other; a shutdown function that a bailout left rewritten does it too | lpc_cache.c 480-481 |
| | IncludesSameFile | a bare name is looked up beside the including file and the script, and not beside the file that holds it (lpc.c 294-304); files that a computed name stands for in turn share one entry of the index (lpc_cache.c 448) | TECHNOTES.txt 558-562 |
| `MCLPCClasses_Claims` | FailedInstallRemoved | the unwinding finds no class (lpc_copy_class.c 149) | lpc_copy_class.c 98-99 |
| | FailedInstallRecompiled | a failed installation goes unnoticed (lpc_copy_source.c 264) | lpc_copy_class.c 95 |
| | MagicMethodsKept | the field of `__unset` is set for "nset" = "unset" (lpc_copy_class.c 542), and those of names in another case not at all | lpc_copy_class.c 508-512 |
| `MCLPCOpArray_Claims` | NoFalseCircular | the countdown is reset for each opcode, and for the members of classes never (lpc_copy_op_array.c 116, 244) | lpc_copy_op_array.c 109-113 |
| | JitNamesArmed, OtherNamesArmed | `&=` for `\|=` forgets what an op array uses (328), and nothing is noted with `auto_globals_jit` off | lpc_copy_op_array.c 309-313 |

One that a run describes: a function within a condition is stored under its mangled name, and loading it a
second time in a request, by a plain include, is a fatal error with lpc only (lpc_copy_function.c
112-115); a mangled class is skipped there (lpc_copy_class.c 108-115), and the compiler replaces either.
`NoFatalOfItsOwn` names this case (`again`).

Smaller ones, that no model shows: the comment at lpc_copy_op_array.c 248 says that names
relative to the current directory are not resolved, and lpc.c 280 resolves them; `return;` in
lpc.c 276 leaves the result of a function undefined; php_cachedb.c 335 gives `cachedb_close` a
mode first, the code takes the handle first; `lpc_generate_op_table.php` would not generate the entries
of lpc_op_table.h for includes.

The regular runs contain most of these cases, and their properties say what holds in them. Out of them stay
two formats in one database, a nested fetch and empty values (`MCCacheDBRec_Mixed`, `_Nested`, `_Empty`), a pool
without reuse (`MCLPCPool_Leak`), class members and long literals beyond the countdown (`MCLPCOpArray_Claims`), and
files meant to be included once that a function includes, which `ExecutedOnce` is not about. The hazards in PROJECT.json say where.

## 7. Not modelled, and why

* In the copies of op arrays (`lpc_copy_op_array.c`): fields that are copied as they are, the walk of
  a zval by its type, and the branches for other versions of the engine. In `LPCOpArray` a constant is
  the number of zvals it takes.
* Hash tables (`lpc_hashtable.c`): a copy of the engine's lists, bucket by bucket. What is done with
  the pointers both tag is in `LPCReloc`.
* `lpc.c`, filters, cache names: string functions; which files are cached is
  nondeterministic in `LPCCache` (`CompileOnly`, `StatMain`). Two scripts that are given one cache name
  find each other's context record and remove the cache in turn (lpc_cache.c 149-154): `RejectContext`.
* What a nested close does to the call it interrupts (`CacheDBRec`): the block in use is freed, and
  what follows reads freed memory.
* What follows the use of freed memory, after a wild free (`LPCPool`) or of a handle that dangles (`PHPHandles`):
  the process dies, or nothing happens.
* A compile error shuts the pools down, which frees the strings of code that was loaded from the cache while shutdown
  functions may still run it: the strings of executive pools are below the level of `LPCPool`. So is the
  order of several executive pools, of which a creation returns the first in the list (lpc_pool.c 561).
* Code that an add, a fetch or a close calls back (`PHPHandles`) acts as if it had run before the call; that it
  closes the handle of that call is left out.
* Relative names of scripts (`LPCCache`): the stream is opened by the include path, while the stat takes the name relative
  to the current directory (lpc_cache.c 418-419). The model takes both for one file.
* A database whose copy ended early: opening it is a fatal error (cachedb.c 276, 586), and `LPCCache` and `PHPHandles`
  instantiate the store without it (`Torn <- FALSE`).
* The size of a source file, recorded beside its mtime: edits may leave it unchanged.
* zlib, serialisation, CRC: known by their inverse only.
* The script that generates the opcode table, debugging and text output.

## 8. Plan

Done: all modules of section 2, and a proof of each safety property the runs check.

Next, in this order:

1. A per-request setting of `lpc.reuse_serial_buffer` in `LPCPool`, which joins
   the two configurations of it.
2. A compile interrupted by an error handler that includes a file, in `LPCClasses`.
