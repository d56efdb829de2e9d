---------------------------- MODULE LPCOpArray ----------------------------
(***************************************************************************)
(* The deep copy of a compiled file (src/lpc/lpc_copy_op_array.c and       *)
(* lpc_hashtable.c): out of the memory of the request that compiled it,    *)
(* one opcode at a time, into a serial pool that may overflow at any of    *)
(* them, and from the pool into the memory of the requests that load it.   *)
(*                                                                         *)
(* A file is a sequence of units in the order they are copied out: the op  *)
(* array of the script, those of its functions, and the member tables of   *)
(* its classes.  A constant is abstracted to the number of zvals it takes  *)
(* and, where it is a name, to the name.  Addresses are numbers; each      *)
(* memory has a base, and opcode i of unit u is at base + Stride * u + i.  *)
(***************************************************************************)
EXTENDS Integers, Sequences, SequencesExt, FiniteSets

CONSTANTS
    Files,       \* the compiled files: sequences of units
    Procs,       \* processes; their opcode handlers are at different places
    Bases,       \* addresses memory may be allocated at
    Countdown,   \* LPC_COPIED_ZVALS_COUNTDOWN, 1000
    JitNames,    \* autoglobals with a flag bit: _GET, _SERVER, ...
    OtherNames,  \* autoglobals of other extensions
    JitSettings, \* values auto_globals_jit may have, request by request
    MaxTries,    \* bound: overflows of the pool
    None

Stride == 8   \* more than the opcodes of any unit

\* The names of constants: of an include, of an autoglobal, or none.
Names  == {"", "relative", "absolute"} \cup JitNames \cup OtherNames
Source == [kind : {"code", "members"}, table : Seq(Nat),
           code : Seq([code : STRING, zvals : Nat, name : Names, jmp : Nat])]

ASSUME OpArrayConstants ==
    /\ Countdown \in Nat /\ MaxTries \in Nat
    /\ JitSettings \subseteq BOOLEAN
    /\ JitNames \cap (OtherNames \cup {"HAS_JUMPS", "UNKNOWN_GLOBAL"}) = {}
    /\ \A b, c \in Bases : b \in Nat /\ (b < c => b + 100 < c)
    /\ \A f \in Files :
          /\ f \in Seq(Source)
          /\ \A u \in 1..Len(f) :
                Len(f[u].code) < Stride /\ (f[u].kind = "members" => f[u].code = <<>>)

VARIABLES
    src,      \* the compiled file, as the compiling request executes it
    pool,     \* units copied to the pool
    tags,     \* <<unit, opcode>> of the pointers tagged
    at,       \* <<unit, opcode>> to be copied next
    left,     \* LPCG(copied_zvals)
    flags,    \* lpc_opflags_t of the op array being copied
    mem,      \* bases: [src, pool, exec]
    run,      \* units in the memory of the request that loads the file
    proc,     \* the process of this request
    jit,      \* PG(auto_globals_jit) of this request
    recording, \* history: that of the request that compiled the file
    armed,    \* autoglobals this request has created
    tries,    \* overflows so far
    pc

vars == <<src, pool, tags, at, left, flags, mem, run, proc, jit, recording, armed, tries, pc>>

Table(p, code) == <<p, code>>   \* zend_opcode_handlers of the process
Addr(base, u, i) == base + Stride * u + i

\* Faulty variant of OpTable: what lpc_generate_op_table.php would write.
OpTableGenerated(code) ==
    CASE code \in {"JMP", "GOTO"}    -> {"JMP_OP1"}
      [] code \in {"JMPZ", "JMPNZ"}  -> {"JMP_OP2"}
      [] code = "FETCH_R"            -> {"FETCH_IN"}
      [] code = "FETCH_RW"           -> {"FETCH_OUT"}
      [] OTHER                       -> {}

(* opcode_table: what the copies have to do for an opcode.                 *)
OpTable(code) ==
    CASE code \in {"JMP", "GOTO"}    -> {"JMP_OP1"}
      [] code \in {"JMPZ", "JMPNZ"}  -> {"JMP_OP2"}
      [] code = "FETCH_R"            -> {"FETCH_IN", "FETCH_OUT"}
      [] code = "FETCH_RW"           -> {"FETCH_OUT"}
      [] code = "INCLUDE_OR_EVAL"    -> {"INCLUDE"}
      [] OTHER                       -> {}

Jumps(o) == OpTable(o.code) \cap {"JMP_OP1", "JMP_OP2"} # {}

(* The compiler leaves absolute addresses in jumps and the handlers of its *)
(* own process in every opcode; a use of an autoglobal creates it.         *)
Compiled(f, p, base) ==
    [u \in 1..Len(f) |->
        [f[u] EXCEPT !.code = [i \in 1..Len(@) |->
            [code |-> @[i].code, zvals |-> @[i].zvals, name |-> @[i].name,
             handler |-> Table(p, @[i].code),
             jmp |-> IF Jumps(@[i]) THEN Addr(base, u, @[i].jmp) ELSE 0]]]]

Init ==
    \E f \in Files, p \in Procs, b \in Bases, c \in Bases :
        /\ b # c
        /\ src = Compiled(f, p, b)
        /\ mem = [src |-> b, pool |-> c, exec |-> 0]
        /\ proc = p
        /\ pool = <<>> /\ tags = {} /\ run = <<>>
        /\ at = <<1, 0>>
        /\ left \in {0, Countdown}
        /\ flags = {} /\ armed = {} /\ tries = 0
        /\ jit \in JitSettings /\ recording = jit
        /\ pc = "out"

Unit == src[at[1]]

Zvals(table) == FoldLeft(LAMBDA n, z : n + z, 0, table)

-----------------------------------------------------------------------------
\* Faulty variant of CopyZvals: the counter is tested after it was decreased.
CopyZvalsEarly(from, n) ==
    IF n >= from THEN left' = 0 /\ pc' = "circular" ELSE left' = from - n /\ pc' = "out"

(* copy_zval_out, for n zvals: each takes one from the countdown, and the  *)
(* one that finds it at zero is a fatal error.                             *)
CopyZvals(from, n) ==
    IF n > from THEN left' = 0 /\ pc' = "circular"
    ELSE left' = from - n /\ pc' = "out"

(* lpc_copy_op_array up to the opcodes: the static variables, as a table   *)
(* in list order with its used fields only; flags start from the source.   *)
CopyHead ==
    /\ pc = "out" /\ at[1] <= Len(src) /\ at[2] = 0
    /\ Unit.kind = "code"
    /\ IF Unit.table = <<>> THEN UNCHANGED left /\ pc' = "out"
       ELSE CopyZvals(Countdown, Zvals(Unit.table))
    /\ pool' = Append(pool, [kind |-> "code", table |-> Unit.table, code |-> <<>>,
                             flags |-> {}])
    /\ flags' = {}
    /\ at' = [at EXCEPT ![2] = 1]
    /\ UNCHANGED <<src, tags, mem, run, proc, jit, recording, armed, tries>>

(* lpc_resolve_path of a constant name in an include; a name it cannot     *)
(* resolve, or an absolute one, stays what it is.                          *)
Resolve(name) == IF name = "relative" THEN "absolute" ELSE name

(* The flag bits.  An autoglobal that is known only to its extension is    *)
(* recorded by  flags &= LPC_FLAG_UNKNOWN_GLOBAL.                          *)
FlagsAfter(o) ==
    IF Jumps(o) THEN flags \cup {"HAS_JUMPS"}
    ELSE IF "FETCH_OUT" \in OpTable(o.code) /\ jit
         THEN IF o.name \in JitNames THEN flags \cup {o.name}
              ELSE IF o.name \in OtherNames THEN flags \cap {"UNKNOWN_GLOBAL"}
              ELSE flags
    ELSE flags

\* Faulty variant of OpcodeOut: the constant is copied before it is resolved.
OpcodeOutUnresolved(o, u, i) ==
    [code |-> o.code, zvals |-> o.zvals, name |-> o.name,
     handler |-> IF o.handler = Table(proc, o.code) THEN None ELSE o.handler,
     jmp |-> IF Jumps(o) THEN o.jmp - Addr(mem.src, u, 0) + Addr(mem.pool, u, 0) ELSE 0]

(* One opcode in the pool: jumps into the copied opcodes, and no handler   *)
(* if it is the one the table of any process will give.                    *)
OpcodeOut(o, u, i) ==
    [code |-> o.code, zvals |-> o.zvals,
     name |-> IF "INCLUDE" \in OpTable(o.code) THEN Resolve(o.name) ELSE o.name,
     handler |-> IF o.handler = Table(proc, o.code) THEN None ELSE o.handler,
     jmp |-> IF Jumps(o) THEN o.jmp - Addr(mem.src, u, 0) + Addr(mem.pool, u, 0) ELSE 0]

(* copy_opcodes_out, one iteration: resolve the name of an include in the  *)
(* source itself, copy the constants, rebase and tag a jump.               *)
CopyOpcode ==
    /\ pc = "out" /\ at[1] <= Len(src)
    /\ at[2] \in 1..Len(Unit.code)
    /\ LET u == at[1]
           i == at[2]
           o == Unit.code[i]
       IN  /\ CopyZvals(Countdown, o.zvals)
           /\ src' = IF "INCLUDE" \in OpTable(o.code)
                     THEN [src EXCEPT ![u].code[i].name = Resolve(@)] ELSE src
           /\ pool' = [pool EXCEPT ![u].code = Append(@, OpcodeOut(o, u, i))]
           /\ tags' = IF Jumps(o) THEN tags \cup {at} ELSE tags
           /\ flags' = FlagsAfter(o)
    /\ at' = [at EXCEPT ![2] = @ + 1]
    /\ UNCHANGED <<mem, run, proc, jit, recording, armed, tries>>

(* After the last opcode the flags go to the reserved field of the copy.   *)
CopyTail ==
    /\ pc = "out" /\ at[1] <= Len(src)
    /\ Unit.kind = "code" /\ at[2] = Len(Unit.code) + 1
    /\ pool' = [pool EXCEPT ![at[1]].flags = flags]
    /\ at' = <<at[1] + 1, 0>>
    /\ UNCHANGED <<src, tags, left, flags, mem, run, proc, jit, recording, armed, tries, pc>>

(* lpc_copy_hashtable over the values of a class: properties, statics and  *)
(* constants.  Nothing resets the countdown there.                         *)
CopyMembers ==
    /\ pc = "out" /\ at[1] <= Len(src)
    /\ Unit.kind = "members"
    /\ CopyZvals(left, Zvals(Unit.table))
    /\ pool' = Append(pool, [kind |-> "members", table |-> Unit.table, code |-> <<>>,
                             flags |-> {}])
    /\ at' = <<at[1] + 1, 0>>
    /\ UNCHANGED <<src, tags, flags, mem, run, proc, jit, recording, armed, tries>>

(* Any allocation may overflow the pool; the copy starts again, with what  *)
(* it changed in the source and the countdown as they are.                 *)
Overflow ==
    /\ pc = "out" /\ at # <<1, 0>>
    /\ tries < MaxTries
    /\ tries' = tries + 1
    /\ pool' = <<>> /\ tags' = {} /\ at' = <<1, 0>>
    /\ \E b \in Bases \ {mem.src} : mem' = [mem EXCEPT !.pool = b]
    /\ UNCHANGED <<src, left, flags, run, proc, jit, recording, armed, pc>>

(* Serialise, relocating what is tagged to base 0, and insert (LPCReloc).  *)
Shift(o, by) == [o EXCEPT !.jmp = @ + by]
Moved(ops, by) ==
    [u \in 1..Len(ops) |-> [ops[u] EXCEPT !.code = [i \in 1..Len(@) |->
        IF <<u, i>> \in tags THEN Shift(@[i], by) ELSE @[i]]]]

Store ==
    /\ pc = "out" /\ at[1] > Len(src)
    /\ pool' = Moved(pool, -mem.pool)
    /\ mem' = [mem EXCEPT !.pool = 0]
    /\ pc' = "stored"
    /\ UNCHANGED <<src, tags, at, left, flags, run, proc, jit, recording, armed, tries>>

-----------------------------------------------------------------------------
(* A request that loads the file, its pool relocated to a base of its own. *)
BeginLoad ==
    /\ pc \in {"stored", "loaded"}
    /\ \E p \in Procs, b, c \in Bases :
          /\ b # c
          /\ proc' = p
          /\ mem' = [mem EXCEPT !.pool = b, !.exec = c]
          /\ pool' = Moved(pool, b - mem.pool)
    /\ jit' \in JitSettings
    /\ run' = [u \in 1..Len(pool) |-> None]
    /\ armed' = {}
    /\ at' = <<Len(pool), 0>>
    /\ pc' = "in"
    /\ UNCHANGED <<src, tags, left, flags, tries, recording>>

(* zend_is_auto_global creates an autoglobal that waits for its first use. *)
AutoGlobals(un) ==
    (un.flags \cap JitNames) \cup
    (IF "UNKNOWN_GLOBAL" \in un.flags /\ jit
     THEN {un.code[i].name : i \in {j \in 1..Len(un.code) :
             "FETCH_IN" \in OpTable(un.code[j].code)}} \cap OtherNames
     ELSE {})

OpcodeIn(o, u) ==
    [o EXCEPT !.handler = IF @ = None THEN Table(proc, o.code) ELSE @,
              !.jmp = IF Jumps(o) THEN @ - Addr(mem.pool, u, 0) + Addr(mem.exec, u, 0)
                      ELSE @]

(* The copy-in of one unit; cached_compile takes classes first, then       *)
(* functions, and the op array of the script last.                         *)
CopyIn ==
    /\ pc = "in" /\ at[1] > 0
    /\ LET u == at[1]
       IN  /\ run' = [run EXCEPT ![u] = [pool[u] EXCEPT
                   !.code = [i \in 1..Len(@) |-> OpcodeIn(@[i], u)]]]
           /\ armed' = armed \cup AutoGlobals(pool[u])
    /\ at' = <<at[1] - 1, 0>>
    /\ pc' = IF at[1] = 1 THEN "loaded" ELSE "in"
    /\ UNCHANGED <<src, pool, tags, left, flags, mem, proc, jit, recording, tries>>

Next ==
    \/ CopyHead
    \/ CopyOpcode
    \/ CopyTail
    \/ CopyMembers
    \/ Overflow
    \/ Store
    \/ BeginLoad
    \/ CopyIn

Spec == Init /\ [][Next]_vars

-----------------------------------------------------------------------------
\* What is loaded, in any process and at any address, does what the compiling
\* request's own copy does: same tables and constants (an include name as it was
\* resolved there), every jump to the same opcode, every handler this process's,
\* whatever overflows restarted the copy.
LoadedRunsAlike ==
    pc = "loaded" =>
        /\ Len(run) = Len(src)
        /\ \A u \in 1..Len(src) :
              /\ run[u].kind = src[u].kind /\ run[u].table = src[u].table
              /\ Len(run[u].code) = Len(src[u].code)
              /\ \A i \in 1..Len(src[u].code) :
                    LET o == src[u].code[i]
                        r == run[u].code[i]
                    IN  /\ r.code = o.code /\ r.zvals = o.zvals /\ r.name = o.name
                        /\ r.handler = Table(proc, r.code)
                        /\ Jumps(o) => r.jmp - mem.exec = o.jmp - mem.src

\* The variables a compiled file fetches by name, and whether the autoglobals among
\* them exist.
Fetches == {"FETCH_R", "FETCH_RW"}
UsedNames(n) == UNION {{n[u].code[i].name :
    i \in {j \in 1..Len(n[u].code) : n[u].code[j].code \in Fetches}} : u \in 1..Len(n)}
KnownArmed(names) == pc = "loaded" /\ jit => UsedNames(src) \cap names \subseteq armed

\* What is remembered of an op array: the autoglobals with a flag bit that it fetches
\* after the last that is known to its extension only, whose &= forgets the others.
Remembered(n) ==
    {n.code[i].name : i \in {i \in 1..Len(n.code) :
        /\ n.code[i].code \in Fetches
        /\ \A j \in i..Len(n.code) :
              n.code[j].code \in Fetches => n.code[j].name \notin OtherNames}} \cap JitNames

\* Loading a file creates just the autoglobals that are remembered of its op arrays,
\* in any request, if auto_globals_jit was on in the request that compiled it, and
\* none if not.
AutoglobalsArmed ==
    pc = "loaded" =>
        armed = IF recording THEN UNION {Remembered(src[u]) : u \in 1..Len(src)} ELSE {}

\* lpc_copy_op_array.c:308-314: loading an op array that refers to an autoglobal
\* must trigger its creation, as the compiler would have done.  It fails for each
\* kind: those with a flag bit, of a file compiled with auto_globals_jit off, or that
\* names one without; and those without.
JitNamesArmed    == KnownArmed(JitNames)
OtherNamesArmed  == KnownArmed(OtherNames)

\* lpc_copy_op_array.c:110-115: the countdown is a maximum per zend_op, to detect
\* cycles.  No file is refused for one unless an opcode or a table exceeds it.
Exceeds(f) == \E u \in 1..Len(f) :
    \/ Zvals(f[u].table) > Countdown
    \/ \E i \in 1..Len(f[u].code) : f[u].code[i].zvals > Countdown
NoFalseCircular == pc = "circular" => Exceeds(src)

=============================================================================
