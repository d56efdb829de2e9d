------------------------- MODULE LPCOpArray_proofs -------------------------
(***************************************************************************)
(* Proofs about the deep copy, for any compiled files, processes and       *)
(* addresses.                                                              *)
(***************************************************************************)
EXTENDS LPCOpArray, SequenceTheorems, TLAPS

Flags == {"HAS_JUMPS", "UNKNOWN_GLOBAL"} \cup JitNames
Opcode == [code : STRING, zvals : Nat, name : Names,
           handler : {None} \cup (Procs \X STRING), jmp : Int]
Compile == [kind : {"code", "members"}, table : Seq(Nat), code : Seq(Opcode)]
Copy    == [kind : {"code", "members"}, table : Seq(Nat), code : Seq(Opcode),
            flags : SUBSET Flags]

TypeOK ==
    /\ src \in Seq(Compile) /\ pool \in Seq(Copy)
    /\ at \in Nat \X Nat /\ flags \subseteq Flags
    /\ mem \in [src : Int, pool : Int, exec : Int]
    /\ run \in Seq({None} \cup Copy)
    /\ proc \in Procs /\ jit \in JitSettings /\ armed \subseteq JitNames \cup OtherNames
    /\ pc \in {"out", "circular", "stored", "in", "loaded"}

\* The source has the handlers of its process; member tables have no opcodes.
SourceOK ==
    /\ \A u \in 1..Len(src) : src[u].kind = "members" => src[u].code = <<>>
    /\ pc = "out" => \A u \in 1..Len(src) : \A i \in 1..Len(src[u].code) :
                        src[u].code[i].handler = Table(proc, src[u].code[i].code)

\* c is the copy of o, for code at base; as it is in the pool, or in memory to execute.
CopyOf(c, o, base) ==
    /\ c.code = o.code /\ c.zvals = o.zvals /\ c.name = o.name
    /\ c.jmp = IF Jumps(o) THEN o.jmp - mem.src + base ELSE 0
PoolOK ==
    \A u \in 1..Len(pool) :
        /\ u <= Len(src) /\ pool[u].kind = src[u].kind /\ pool[u].table = src[u].table
        /\ Len(pool[u].code) <= Len(src[u].code)
        /\ \A i \in 1..Len(pool[u].code) :
              /\ CopyOf(pool[u].code[i], src[u].code[i], mem.pool)
              /\ pool[u].code[i].handler = None

\* How far the copy has got.
Whole(u) == Len(pool[u].code) = Len(src[u].code)
Progress ==
    /\ pc = "out" =>
        /\ at[1] \in 1..(Len(src) + 1)
        /\ Len(pool) = IF at[2] = 0 THEN at[1] - 1 ELSE at[1]
        /\ \A u \in 1..Len(pool) : u < at[1] => Whole(u)
        /\ at[2] # 0 => /\ at[1] <= Len(src) /\ src[at[1]].kind = "code"
                        /\ Len(pool[at[1]].code) = at[2] - 1
    /\ pc \in {"stored", "in", "loaded"} =>
        Len(pool) = Len(src) /\ \A u \in 1..Len(pool) : Whole(u)

\* What is tagged is the jumps that have been copied.
TagsOK ==
    /\ \A x \in tags : \E u \in 1..Len(pool) : \E i \in 1..Len(pool[u].code) : x = <<u, i>>
    /\ \A u \in 1..Len(pool) : \A i \in 1..Len(pool[u].code) :
          <<u, i>> \in tags <=> Jumps(src[u].code[i])

\* The units that a request has copied in.
Ran(u) ==
    /\ run[u].kind = src[u].kind /\ run[u].table = src[u].table
    /\ Len(run[u].code) = Len(src[u].code)
    /\ \A i \in 1..Len(src[u].code) :
          /\ CopyOf(run[u].code[i], src[u].code[i], mem.exec)
          /\ run[u].code[i].handler = Table(proc, src[u].code[i].code)
LoadOK ==
    pc \in {"in", "loaded"} =>
        /\ at[2] = 0 /\ at[1] <= Len(src) /\ Len(run) = Len(src)
        /\ pc = "loaded" => at[1] = 0
        /\ \A u \in 1..Len(src) : u > at[1] => Ran(u)

IInv ==
    /\ TypeOK
    /\ SourceOK
    /\ PoolOK
    /\ Progress
    /\ TagsOK
    /\ LoadOK

-----------------------------------------------------------------------------
LEMMA SeqOfFunction ==
  ASSUME NEW S, NEW n \in Nat, NEW F \in [1..n -> S]
  PROVE  F \in Seq(S) /\ Len(F) = n
OBVIOUS

\* A sequence with one element replaced.
LEMMA SeqExcept ==
  ASSUME NEW S, NEW q \in Seq(S), NEW u \in 1..Len(q), NEW r \in S
  PROVE  /\ [q EXCEPT ![u] = r] \in Seq(S) /\ Len([q EXCEPT ![u] = r]) = Len(q)
         /\ \A v \in 1..Len(q) : [q EXCEPT ![u] = r][v] = IF v = u THEN r ELSE q[v]
OBVIOUS

\* The source is file f as process p has compiled it.
FromFile(f, p) ==
    /\ src \in Seq(Compile) /\ Len(src) = Len(f)
    /\ \A u \in 1..Len(f) :
          /\ src[u].kind = f[u].kind /\ src[u].table = f[u].table
          /\ Len(src[u].code) = Len(f[u].code)
          /\ f[u].kind = "members" => src[u].code = <<>>
          /\ \A i \in 1..Len(f[u].code) :
                /\ src[u].code[i].code = f[u].code[i].code /\ src[u].code[i].name = f[u].code[i].name
                /\ src[u].code[i].zvals = f[u].code[i].zvals
                /\ src[u].code[i].handler = Table(p, src[u].code[i].code)

LEMMA CompiledFile ==
  ASSUME NEW f \in Files, NEW p \in Procs, NEW b \in Bases, src = Compiled(f, p, b)
  PROVE  FromFile(f, p)
<1>2. f \in Seq(Source)
      /\ \A u \in 1..Len(f) : f[u].kind = "members" => f[u].code = <<>>
  BY OpArrayConstants
<1> DEFINE op(u, i) ==
      [code |-> f[u].code[i].code, zvals |-> f[u].code[i].zvals, name |-> f[u].code[i].name,
       handler |-> Table(p, f[u].code[i].code),
       jmp |-> IF Jumps(f[u].code[i]) THEN Addr(b, u, f[u].code[i].jmp) ELSE 0]
           code(u) == [i \in 1..Len(f[u].code) |-> op(u, i)]
           unit(u) == [f[u] EXCEPT !.code = code(u)]
<1>3. Len(src) = Len(f) /\ \A u \in 1..Len(f) : src[u] = unit(u)
  BY <1>2 DEF Compiled
<1>4. ASSUME NEW u \in 1..Len(f)
      PROVE  /\ src[u] \in Compile /\ src[u].kind = f[u].kind /\ src[u].table = f[u].table
             /\ Len(src[u].code) = Len(f[u].code)
             /\ \A i \in 1..Len(f[u].code) :
                   /\ src[u].code[i].code = f[u].code[i].code
                   /\ src[u].code[i].name = f[u].code[i].name
                   /\ src[u].code[i].zvals = f[u].code[i].zvals
                   /\ src[u].code[i].handler = Table(p, src[u].code[i].code)
             /\ f[u].kind = "members" => src[u].code = <<>>
  <2> DEFINE SourceOp == [code : STRING, zvals : Nat, name : Names, jmp : Nat]
  <2>0. f[u] \in Source
    BY <1>2
  <2>1. f[u] \in [kind : {"code", "members"}, table : Seq(Nat), code : Seq(SourceOp)]
    BY <2>0 DEF Source
  <2>2. ASSUME NEW i \in 1..Len(f[u].code) PROVE op(u, i) \in Opcode
    <3>1. f[u].code[i] \in SourceOp
      <4> HIDE DEF SourceOp
      <4> QED  BY <2>1
    <3>2. b \in Int /\ u \in Int /\ p \in Procs
      BY OpArrayConstants
    <3>3. Addr(b, u, f[u].code[i].jmp) \in Int
      BY <3>1, <3>2 DEF Addr, Stride
    <3>4. Table(p, f[u].code[i].code) \in Procs \X STRING
      BY <3>1, <3>2 DEF Table
    <3> QED  BY <3>1, <3>3, <3>4 DEF Opcode
  <2> HIDE DEF op
  <2>3. code(u) \in Seq(Opcode) /\ Len(code(u)) = Len(f[u].code)
    <3>1. Len(f[u].code) \in Nat
      BY <2>1
    <3>2. code(u) \in [1..Len(f[u].code) -> Opcode]
      BY <2>2
    <3> HIDE DEF code
    <3> QED  BY <3>1, <3>2, SeqOfFunction
  <2>4. src[u] = unit(u)
    BY <1>3
  <2>5. f[u].kind = "members" => code(u) = <<>>
    <3>1. f[u].kind = "members" => Len(code(u)) = 0
      BY <1>2, <2>3
    <3> HIDE DEF code
    <3> QED  BY <2>3, <3>1
  <2>6. \A i \in 1..Len(f[u].code) : code(u)[i] = op(u, i)
    OBVIOUS
  <2>7. \A i \in 1..Len(f[u].code) :
           /\ op(u, i).code = f[u].code[i].code /\ op(u, i).name = f[u].code[i].name
           /\ op(u, i).zvals = f[u].code[i].zvals
           /\ op(u, i).handler = Table(p, op(u, i).code)
    BY DEF op
  <2> HIDE DEF code
  <2>8. src[u] \in Compile /\ src[u].kind = f[u].kind /\ src[u].table = f[u].table
        /\ src[u].code = code(u)
    BY <2>1, <2>3, <2>4 DEF Compile
  <2> QED  BY <2>3, <2>5, <2>6, <2>7, <2>8
<1>5. src \in Seq(Compile)
  <2>1. Len(f) \in Nat /\ src = [u \in 1..Len(f) |-> unit(u)]
    BY <1>2 DEF Compiled
  <2>2. src \in [1..Len(f) -> Compile]
    BY <1>4, <2>1
  <2> QED  BY <2>1, <2>2, SeqOfFunction
<1> HIDE DEF op, unit
<1> QED  BY <1>3, <1>4, <1>5 DEF FromFile

LEMMA Initially == Init => IInv
<1> SUFFICES ASSUME Init PROVE IInv
  OBVIOUS
<1>1. PICK f \in Files, p \in Procs, b \in Bases, c \in Bases :
        /\ src = Compiled(f, p, b)
        /\ mem = [src |-> b, pool |-> c, exec |-> 0] /\ proc = p
        /\ pool = <<>> /\ tags = {} /\ run = <<>> /\ at = <<1, 0>>
        /\ flags = {} /\ armed = {} /\ jit \in JitSettings /\ pc = "out"
  BY DEF Init
<1>2. FromFile(f, p)
  BY <1>1, CompiledFile
<1>3. src \in Seq(Compile) /\ Len(src) = Len(f)
  BY <1>2 DEF FromFile
<1>4. SourceOK
  <2>1. ASSUME NEW u \in 1..Len(src)
        PROVE  /\ src[u].kind = "members" => src[u].code = <<>>
               /\ \A i \in 1..Len(src[u].code) :
                     src[u].code[i].handler = Table(p, src[u].code[i].code)
    <3>1. u \in 1..Len(f) /\ Len(src[u].code) = Len(f[u].code)
      BY <1>2, <1>3, <2>1 DEF FromFile
    <3> QED  BY <1>2, <3>1 DEF FromFile
  <2> QED  BY <1>1, <2>1 DEF SourceOK
<1>5. TypeOK
  BY <1>1, <1>3, OpArrayConstants DEF TypeOK
<1>6. PoolOK /\ Progress /\ TagsOK /\ LoadOK
  BY <1>1, <1>3 DEF PoolOK, Progress, TagsOK, LoadOK
<1> QED  BY <1>4, <1>5, <1>6 DEF IInv

-----------------------------------------------------------------------------
(* The copy to the pool.                                                   *)

\* What the units are.
LEMMA UnitFacts ==
  ASSUME TypeOK
  PROVE  /\ Len(src) \in Nat /\ Len(pool) \in Nat
         /\ \A u \in 1..Len(src) :
               /\ src[u] \in Compile /\ Len(src[u].code) \in Nat
               /\ src[u].code \in Seq(Opcode)
               /\ \A i \in 1..Len(src[u].code) : src[u].code[i] \in Opcode
         /\ \A u \in 1..Len(pool) :
               /\ pool[u] \in Copy /\ Len(pool[u].code) \in Nat
               /\ pool[u].code \in Seq(Opcode)
               /\ \A i \in 1..Len(pool[u].code) : pool[u].code[i] \in Opcode
<1>1. Len(src) \in Nat /\ Len(pool) \in Nat
  BY DEF TypeOK
<1>2. ASSUME NEW u \in 1..Len(src) PROVE src[u] \in Compile /\ src[u].code \in Seq(Opcode)
  <2>1. src[u] \in Compile
    BY DEF TypeOK
  <2> QED  BY <2>1 DEF Compile
<1>3. ASSUME NEW u \in 1..Len(pool) PROVE pool[u] \in Copy /\ pool[u].code \in Seq(Opcode)
  <2>1. pool[u] \in Copy
    BY DEF TypeOK
  <2> QED  BY <2>1 DEF Copy
<1> QED  BY <1>1, <1>2, <1>3

\* A unit that comes to the pool, with no opcodes yet.
LEMMA HeadKeeps ==
  ASSUME IInv, pc = "out", at[1] <= Len(src),
         pool' = Append(pool, [kind |-> Unit.kind, table |-> Unit.table, code |-> <<>>,
                               flags |-> {}]),
         at[2] = 0,
         IF Unit.kind = "code" THEN at' = [at EXCEPT ![2] = 1] ELSE at' = <<at[1] + 1, 0>>,
         UNCHANGED <<src, tags, mem, run, proc, jit, armed>>,
         pc' \in {"out", "circular"}, flags' \subseteq Flags
  PROVE  IInv'
<1>0. TypeOK /\ SourceOK /\ PoolOK /\ Progress /\ TagsOK
  BY DEF IInv
<1> DEFINE new == [kind |-> Unit.kind, table |-> Unit.table, code |-> <<>>, flags |-> {}]
<1>1. /\ at[1] \in 1..Len(src) /\ Len(pool) = at[1] - 1 /\ at[1] \in Nat /\ at = <<at[1], 0>>
      /\ at' = IF Unit.kind = "code" THEN <<at[1], 1>> ELSE <<at[1] + 1, 0>>
  BY <1>0 DEF Progress, TypeOK
<1>2. Unit \in Compile /\ Unit.kind \in {"code", "members"} /\ Unit.table \in Seq(Nat)
      /\ (Unit.kind = "members" => Unit.code = <<>>)
  <2>1. Unit \in Compile
    BY <1>0, <1>1, UnitFacts DEF Unit
  <2> QED  BY <1>0, <1>1, <2>1 DEF Compile, SourceOK, Unit
<1>3. new \in Copy /\ new.code = <<>> /\ Len(new.code) = 0 /\ new.kind = Unit.kind /\ new.table = Unit.table
  BY <1>2 DEF Copy
<1>4. /\ pool' \in Seq(Copy) /\ Len(pool') = at[1] /\ pool'[at[1]] = new
      /\ \A u \in 1..Len(pool) : pool'[u] = pool[u]
  <2> HIDE DEF new
  <2>1. pool' = Append(pool, new)
    BY DEF new
  <2> QED  BY SMTT(30), <1>0, <1>1, <1>3, <2>1 DEF TypeOK
<1> HIDE DEF new
<1>5. \A u \in 1..Len(pool') : u = at[1] \/ u \in 1..Len(pool)
  BY <1>1, <1>4
<1>6. TypeOK'
  BY <1>0, <1>1, <1>4 DEF TypeOK
<1>7. SourceOK'
  BY <1>0 DEF SourceOK
<1>8. PoolOK'
  <2> SUFFICES ASSUME NEW u \in 1..Len(pool')
               PROVE  /\ u <= Len(src) /\ pool'[u].kind = src[u].kind /\ pool'[u].table = src[u].table
                      /\ Len(pool'[u].code) <= Len(src[u].code)
                      /\ \A i \in 1..Len(pool'[u].code) :
                            /\ CopyOf(pool'[u].code[i], src[u].code[i], mem.pool)
                            /\ pool'[u].code[i].handler = None
    BY DEF PoolOK, CopyOf
  <2>1. CASE u = at[1]
    <3>1. Len(src[u].code) \in Nat
      BY <1>0, <1>1, <2>1, UnitFacts
    <3> QED  BY <1>1, <1>3, <1>4, <2>1, <3>1 DEF Unit
  <2>2. CASE u \in 1..Len(pool)
    BY <1>0, <1>4, <2>2 DEF PoolOK
  <2> QED  BY <1>5, <2>1, <2>2
<1>9. Progress'
  <2>1. \A u \in 1..Len(pool') : u < at'[1] => Whole(u)'
    <3> SUFFICES ASSUME NEW u \in 1..Len(pool'), u < at'[1] PROVE Len(pool'[u].code) = Len(src[u].code)
      BY DEF Whole
    <3>1. CASE u = at[1]
      BY <1>1, <1>2, <1>3, <1>4, <3>1 DEF Unit
    <3>2. CASE u \in 1..Len(pool)
      <4>1. Whole(u)
        BY <1>0, <1>1, <3>2 DEF Progress
      <4> QED  BY <1>4, <3>2, <4>1 DEF Whole
    <3> QED  BY <1>5, <3>1, <3>2
  <2> QED  BY <1>1, <1>2, <1>3, <1>4, <2>1 DEF Progress, Unit
<1>10. TagsOK'
  <2>1. \A u \in 1..Len(pool') : \A i \in 1..Len(pool'[u].code) :
           u \in 1..Len(pool) /\ i \in 1..Len(pool[u].code)
    BY <1>3, <1>4, <1>5
  <2>2. 1..Len(pool) \subseteq 1..Len(pool')
    BY <1>1, <1>4
  <2> QED  BY <1>0, <1>4, <2>1, <2>2 DEF TagsOK
<1>11. LoadOK'
  BY DEF LoadOK
<1> QED  BY <1>6, <1>7, <1>8, <1>9, <1>10, <1>11 DEF IInv

\* The source, but for the name of one opcode.
Renamed(u, i, n) ==
    /\ src' \in Seq(Compile) /\ Len(src') = Len(src)
    /\ \A v \in 1..Len(src) :
          /\ src'[v].kind = src[v].kind /\ src'[v].table = src[v].table
          /\ Len(src'[v].code) = Len(src[v].code)
          /\ src[v].code = <<>> => src'[v].code = <<>>
          /\ \A j \in 1..Len(src[v].code) :
                LET o == src[v].code[j]
                    r == src'[v].code[j]
                IN  /\ r.code = o.code /\ r.zvals = o.zvals /\ r.handler = o.handler /\ r.jmp = o.jmp
                    /\ r.name = IF v = u /\ j = i THEN n ELSE o.name

LEMMA SourceRenamed ==
  ASSUME TypeOK, NEW u \in 1..Len(src), NEW i \in 1..Len(src[u].code), NEW n \in Names,
         src' = [src EXCEPT ![u].code[i].name = n]
  PROVE  Renamed(u, i, n)
<1> DEFINE o == [src[u].code[i] EXCEPT !.name = n]
           c == [src[u].code EXCEPT ![i] = o]
           r == [src[u] EXCEPT !.code = c]
<1>1. src \in Seq(Compile) /\ src[u] \in Compile /\ src[u].code \in Seq(Opcode) /\ src[u].code[i] \in Opcode
  BY UnitFacts DEF TypeOK
<1>2. o \in Opcode /\ o.code = src[u].code[i].code /\ o.zvals = src[u].code[i].zvals
      /\ o.handler = src[u].code[i].handler /\ o.jmp = src[u].code[i].jmp /\ o.name = n
  BY <1>1 DEF Opcode
<1>3. /\ c \in Seq(Opcode) /\ Len(c) = Len(src[u].code)
      /\ \A j \in 1..Len(src[u].code) : c[j] = IF j = i THEN o ELSE src[u].code[j]
  <2> HIDE DEF o
  <2> QED  BY <1>1, <1>2
<1>4. r \in Compile /\ r.kind = src[u].kind /\ r.table = src[u].table /\ r.code = c
  <2> HIDE DEF c
  <2> QED  BY <1>1, <1>3 DEF Compile
<1>5. /\ src' \in Seq(Compile) /\ Len(src') = Len(src)
      /\ \A v \in 1..Len(src) : src'[v] = IF v = u THEN r ELSE src[v]
  <2>1. src' = [src EXCEPT ![u] = r]
    OBVIOUS
  <2> HIDE DEF r
  <2>2. /\ [src EXCEPT ![u] = r] \in Seq(Compile) /\ Len([src EXCEPT ![u] = r]) = Len(src)
        /\ \A v \in 1..Len(src) : [src EXCEPT ![u] = r][v] = IF v = u THEN r ELSE src[v]
    BY <1>1, <1>4, SeqExcept
  <2> QED  BY <2>1, <2>2, Zenon
<1> HIDE DEF o, c, r
<1>6. src[u].code # <<>>
  BY <1>1
<1>7. ASSUME NEW v \in 1..Len(src), NEW j \in 1..Len(src[v].code)
      PROVE  LET p == src[v].code[j]
                 q == src'[v].code[j]
             IN  /\ q.code = p.code /\ q.zvals = p.zvals /\ q.handler = p.handler /\ q.jmp = p.jmp
                 /\ q.name = IF v = u /\ j = i THEN n ELSE p.name
  <2>1. CASE v = u /\ j = i
    BY <1>2, <1>3, <1>4, <1>5, <2>1
  <2>2. CASE v = u /\ j # i
    BY <1>3, <1>4, <1>5, <2>2
  <2>3. CASE v # u
    BY <1>5, <2>3
  <2> QED  BY <2>1, <2>2, <2>3
<1>8. ASSUME NEW v \in 1..Len(src)
      PROVE  /\ src'[v].kind = src[v].kind /\ src'[v].table = src[v].table
             /\ Len(src'[v].code) = Len(src[v].code)
             /\ src[v].code = <<>> => src'[v].code = <<>>
  <2>1. CASE v = u
    BY <1>3, <1>4, <1>5, <1>6, <2>1
  <2>2. CASE v # u
    BY <1>5, <2>2
  <2> QED  BY <2>1, <2>2
<1> QED  BY <1>5, <1>7, <1>8 DEF Renamed

\* One opcode more in the pool.
LEMMA PoolAppended ==
  ASSUME TypeOK, NEW u \in 1..Len(pool), NEW c \in Opcode,
         pool' = [pool EXCEPT ![u].code = Append(@, c)]
  PROVE  /\ pool' \in Seq(Copy) /\ Len(pool') = Len(pool)
         /\ \A v \in 1..Len(pool) :
               /\ pool'[v].kind = pool[v].kind /\ pool'[v].table = pool[v].table
               /\ pool'[v].flags = pool[v].flags
               /\ Len(pool'[v].code) = IF v = u THEN Len(pool[v].code) + 1 ELSE Len(pool[v].code)
               /\ \A j \in 1..Len(pool[v].code) : pool'[v].code[j] = pool[v].code[j]
         /\ pool'[u].code[Len(pool[u].code) + 1] = c
<1> DEFINE k == Append(pool[u].code, c)
           r == [pool[u] EXCEPT !.code = k]
<1>1. pool \in Seq(Copy) /\ pool[u] \in Copy /\ pool[u].code \in Seq(Opcode)
  BY UnitFacts DEF TypeOK
<1>2. k \in Seq(Opcode) /\ Len(k) = Len(pool[u].code) + 1 /\ k[Len(pool[u].code) + 1] = c
      /\ \A j \in 1..Len(pool[u].code) : k[j] = pool[u].code[j]
  BY <1>1
<1>3. r \in Copy /\ r.kind = pool[u].kind /\ r.table = pool[u].table /\ r.flags = pool[u].flags /\ r.code = k
  <2> HIDE DEF k
  <2> QED  BY <1>1, <1>2 DEF Copy
<1>4. /\ pool' \in Seq(Copy) /\ Len(pool') = Len(pool)
      /\ \A v \in 1..Len(pool) : pool'[v] = IF v = u THEN r ELSE pool[v]
  <2>1. pool' = [pool EXCEPT ![u] = r]
    OBVIOUS
  <2> HIDE DEF r
  <2>2. /\ [pool EXCEPT ![u] = r] \in Seq(Copy) /\ Len([pool EXCEPT ![u] = r]) = Len(pool)
        /\ \A v \in 1..Len(pool) : [pool EXCEPT ![u] = r][v] = IF v = u THEN r ELSE pool[v]
    BY <1>1, <1>3, SeqExcept
  <2> QED  BY <2>1, <2>2, Zenon
<1> HIDE DEF k, r
<1> QED  BY <1>2, <1>3, <1>4

\* What an iteration of copy_opcodes_out does: opcode i of unit u, o, has the name n in
\* the source from now on, and c is its copy.
Copied(u, i, o, n, c) ==
    /\ pc = "out" /\ pc' \in {"out", "circular"} /\ u \in Nat /\ i \in Nat
    /\ i \in 1..Len(src[u].code) /\ o = src[u].code[i] /\ src[u].kind = "code"
    /\ at = <<u, i>> /\ at' = <<u, i + 1>>
    /\ Len(pool) = u /\ Len(pool[u].code) = i - 1
    /\ \A v \in 1..Len(pool) : v < u => Whole(v)
    /\ o \in Opcode /\ o.handler = Table(proc, o.code)
    /\ n = IF "INCLUDE" \in OpTable(o.code) THEN Resolve(o.name) ELSE o.name
    /\ c.code = o.code /\ c.zvals = o.zvals /\ c.name = n /\ c.handler = None
    /\ c.jmp = IF Jumps(o) THEN o.jmp - mem.src + mem.pool ELSE 0
    /\ Renamed(u, i, n)
    /\ pool' \in Seq(Copy) /\ Len(pool') = Len(pool) /\ pool'[u].code[i] = c
    /\ \A v \in 1..Len(pool) :
          /\ pool'[v].kind = pool[v].kind /\ pool'[v].table = pool[v].table
          /\ pool'[v].flags = pool[v].flags
          /\ Len(pool'[v].code) = IF v = u THEN Len(pool[v].code) + 1 ELSE Len(pool[v].code)
          /\ \A j \in 1..Len(pool[v].code) : pool'[v].code[j] = pool[v].code[j]
    /\ tags' = IF Jumps(o) THEN tags \cup {at} ELSE tags
    /\ flags' = FlagsAfter(o)
    /\ UNCHANGED <<mem, run, proc, jit, armed>>

LEMMA OpcodeCopied ==
  ASSUME IInv, CopyOpcode
  PROVE  \E u \in 1..Len(src) : \E i \in Nat, n \in Names, c \in Opcode :
            Copied(u, i, src[u].code[i], n, c)
<1>0. TypeOK /\ SourceOK /\ PoolOK /\ Progress /\ TagsOK
  BY DEF IInv
<1> DEFINE u == at[1]
           i == at[2]
           o == src[u].code[i]
           c == OpcodeOut(o, u, i)
           n == IF "INCLUDE" \in OpTable(o.code) THEN Resolve(o.name) ELSE o.name
<1>1. /\ pc = "out" /\ u \in 1..Len(src) /\ i \in 1..Len(src[u].code) /\ at = <<u, i>>
      /\ src' = IF "INCLUDE" \in OpTable(o.code)
                THEN [src EXCEPT ![u].code[i].name = Resolve(@)] ELSE src
      /\ pool' = [pool EXCEPT ![u].code = Append(@, c)]
      /\ tags' = IF Jumps(o) THEN tags \cup {at} ELSE tags
      /\ flags' = FlagsAfter(o)
      /\ at' = [at EXCEPT ![2] = @ + 1]
      /\ UNCHANGED <<mem, run, proc, jit, armed>>
  BY <1>0 DEF CopyOpcode, Unit, TypeOK, Progress
<1>2. /\ u \in Nat /\ i \in Nat /\ Len(pool) = u /\ src[u].kind = "code"
      /\ Len(pool[u].code) = i - 1 /\ \A v \in 1..Len(pool) : v < u => Whole(v)
  <2>1. i # 0
    BY <1>1
  <2>2. at[2] # 0 /\ at[1] = u /\ at[2] = i /\ u \in Nat /\ i \in Nat
    BY <1>0, <1>1, <2>1 DEF TypeOK
  <2> HIDE DEF u, i, o, c, n
  <2> QED  BY <1>0, <1>1, <2>2 DEF Progress
<1>3. pc' \in {"out", "circular"}
  BY DEF CopyOpcode, CopyZvals
<1>4. at' = <<u, i + 1>> /\ at' \in Nat \X Nat /\ at'[1] = u /\ at'[2] = i + 1
  <2> HIDE DEF u, i
  <2> QED  BY <1>1, <1>2
<1>5. o \in Opcode /\ o.name \in Names /\ n \in Names /\ o.handler = Table(proc, o.code)
  <2>1. o \in Opcode
    BY <1>0, <1>1, UnitFacts
  <2>2. o.name \in Names
    BY <2>1 DEF Opcode
  <2>3. n \in Names
    <3> HIDE DEF o
    <3> QED  BY <2>2 DEF Resolve, Names
  <2> QED  BY <1>0, <1>1, <2>1, <2>2, <2>3 DEF SourceOK
<1>6. /\ c \in Opcode /\ c.code = o.code /\ c.zvals = o.zvals /\ c.name = n /\ c.handler = None
      /\ c.jmp = IF Jumps(o) THEN o.jmp - mem.src + mem.pool ELSE 0
  <2> HIDE DEF u, i, o
  <2>1. mem.src \in Int /\ mem.pool \in Int
    BY <1>0 DEF TypeOK
  <2>2. o.jmp \in Int /\ o.code \in STRING /\ o.zvals \in Nat
    BY <1>5 DEF Opcode
  <2>3. o.jmp - Addr(mem.src, u, 0) + Addr(mem.pool, u, 0) = o.jmp - mem.src + mem.pool
    BY <1>2, <2>1, <2>2 DEF Addr, Stride
  <2>4. c = [code |-> o.code, zvals |-> o.zvals, name |-> n, handler |-> None,
             jmp |-> IF Jumps(o) THEN o.jmp - mem.src + mem.pool ELSE 0]
    BY <1>5, <2>3 DEF OpcodeOut
  <2> HIDE DEF n, c
  <2> QED  BY <1>5, <2>1, <2>2, <2>4 DEF Opcode
<1>7. Renamed(u, i, n)
  <2>1. CASE "INCLUDE" \in OpTable(o.code)
    <3>1. src' = [src EXCEPT ![u].code[i].name = n]
      BY <1>1, <2>1
    <3> HIDE DEF n, u, i, o
    <3> QED  BY <1>0, <1>1, <1>5, <3>1, SourceRenamed
  <2>2. CASE "INCLUDE" \notin OpTable(o.code)
    <3>1. src' = src /\ n = src[u].code[i].name
      BY <1>1, <2>2
    <3> HIDE DEF n, u, i, o
    <3> QED  BY <1>0, <3>1 DEF Renamed, TypeOK
  <2> QED  BY <2>1, <2>2
<1> HIDE DEF c, n
<1>8. /\ pool' \in Seq(Copy) /\ Len(pool') = Len(pool)
      /\ \A v \in 1..Len(pool) :
            /\ pool'[v].kind = pool[v].kind /\ pool'[v].table = pool[v].table
            /\ pool'[v].flags = pool[v].flags
            /\ Len(pool'[v].code) = IF v = u THEN Len(pool[v].code) + 1 ELSE Len(pool[v].code)
            /\ \A j \in 1..Len(pool[v].code) : pool'[v].code[j] = pool[v].code[j]
      /\ pool'[u].code[i] = c
  <2> HIDE DEF u, i, o
  <2>1. u \in 1..Len(pool) /\ Len(pool[u].code) + 1 = i
    BY <1>1, <1>2
  <2>2. pool' = [pool EXCEPT ![u].code = Append(@, c)]
    BY <1>1
  <2>3. /\ pool' \in Seq(Copy) /\ Len(pool') = Len(pool)
        /\ \A v \in 1..Len(pool) :
              /\ pool'[v].kind = pool[v].kind /\ pool'[v].table = pool[v].table
              /\ pool'[v].flags = pool[v].flags
              /\ Len(pool'[v].code) = IF v = u THEN Len(pool[v].code) + 1 ELSE Len(pool[v].code)
              /\ \A j \in 1..Len(pool[v].code) : pool'[v].code[j] = pool[v].code[j]
        /\ pool'[u].code[Len(pool[u].code) + 1] = c
    BY <1>0, <1>6, <2>1, <2>2, PoolAppended, Zenon
  <2> QED  BY <2>1, <2>3
<1> HIDE DEF u, i, o
<1>9. Copied(u, i, o, n, c)
  <2>1. o = src[u].code[i]
    BY DEF o
  <2>2. n = IF "INCLUDE" \in OpTable(o.code) THEN Resolve(o.name) ELSE o.name
    BY DEF n
  <2> HIDE DEF u, i, o
  <2> QED  BY <1>1, <1>2, <1>3, <1>4, <1>5, <1>6, <1>7, <1>8, <2>1, <2>2, Zenon DEF Copied
<1> HIDE DEF u, i
<1> QED  BY <1>1, <1>2, <1>5, <1>6, <1>9 DEF o

LEMMA OpcodeKeeps ==
  ASSUME IInv, CopyOpcode
  PROVE  IInv'
<1>0. TypeOK /\ SourceOK /\ PoolOK /\ Progress /\ TagsOK
  BY DEF IInv
<1>a. PICK u \in 1..Len(src) : \E i \in Nat, n \in Names, c \in Opcode :
               Copied(u, i, src[u].code[i], n, c)
  BY OpcodeCopied
<1>b. PICK i \in Nat, n \in Names, c \in Opcode : Copied(u, i, src[u].code[i], n, c)
  BY <1>a
<1> DEFINE o == src[u].code[i]
<1>c. Copied(u, i, o, n, c)
  BY <1>b
<1> HIDE DEF o
<1>1. /\ u \in 1..Len(src) /\ i \in 1..Len(src[u].code) /\ at = <<u, i>> /\ o = src[u].code[i]
      /\ tags' = IF Jumps(o) THEN tags \cup {at} ELSE tags
      /\ flags' = FlagsAfter(o) /\ UNCHANGED <<mem, run, proc, jit, armed>>
  BY <1>c DEF Copied
<1>2. /\ u \in Nat /\ i \in Nat /\ Len(pool) = u /\ src[u].kind = "code"
      /\ Len(pool[u].code) = i - 1 /\ \A v \in 1..Len(pool) : v < u => Whole(v)
  BY <1>c DEF Copied
<1>3. pc = "out" /\ pc' \in {"out", "circular"}
  BY <1>c DEF Copied
<1>4. at' = <<u, i + 1>> /\ at' \in Nat \X Nat /\ at'[1] = u /\ at'[2] = i + 1
  <2>1. at' = <<u, i + 1>>
    BY <1>c DEF Copied
  <2> QED  BY <1>2, <2>1
<1>6. /\ c \in Opcode /\ c.code = o.code /\ c.zvals = o.zvals /\ c.name = n /\ c.handler = None
      /\ c.jmp = IF Jumps(o) THEN o.jmp - mem.src + mem.pool ELSE 0
  BY <1>c DEF Copied
<1>7. Renamed(u, i, n)
  BY <1>c DEF Copied
<1>8. /\ pool' \in Seq(Copy) /\ Len(pool') = Len(pool)
      /\ \A v \in 1..Len(pool) :
            /\ pool'[v].kind = pool[v].kind /\ pool'[v].table = pool[v].table
            /\ Len(pool'[v].code) = IF v = u THEN Len(pool[v].code) + 1 ELSE Len(pool[v].code)
            /\ \A j \in 1..Len(pool[v].code) : pool'[v].code[j] = pool[v].code[j]
      /\ pool'[u].code[i] = c
  BY <1>c DEF Copied
<1>9. \A v \in 1..Len(pool) : Len(pool[v].code) \in Nat /\ v \in 1..Len(src)
                              /\ Len(src[v].code) \in Nat
  BY <1>0, <1>1, <1>2, UnitFacts
<1>10. ASSUME NEW v \in 1..Len(pool), NEW j \in 1..Len(pool'[v].code)
       PROVE  \/ v = u /\ j = i
              \/ j \in 1..Len(pool[v].code) /\ ~(v = u /\ j = i)
  BY <1>2, <1>8, <1>9
<1>11. TypeOK'
  <2>1. flags' \subseteq Flags
    BY <1>0, <1>1 DEF FlagsAfter, TypeOK, Flags
  <2> QED  BY <1>0, <1>1, <1>3, <1>4, <1>7, <1>8, <2>1 DEF TypeOK, Renamed
<1>12. SourceOK'
  <2>1. ASSUME NEW v \in 1..Len(src') , src'[v].kind = "members" PROVE src'[v].code = <<>>
    BY <1>0, <1>7, <2>1 DEF SourceOK, Renamed
  <2>2. ASSUME NEW v \in 1..Len(src'), NEW j \in 1..Len(src'[v].code)
        PROVE  src'[v].code[j].handler = Table(proc', src'[v].code[j].code)
    <3>1. v \in 1..Len(src) /\ j \in 1..Len(src[v].code)
      BY <1>7, <2>2 DEF Renamed
    <3>2. src[v].code[j].handler = Table(proc, src[v].code[j].code)
      BY <1>0, <1>3, <3>1 DEF SourceOK
    <3>3. src'[v].code[j].handler = src[v].code[j].handler /\ src'[v].code[j].code = src[v].code[j].code
      BY <1>7, <3>1 DEF Renamed
    <3> QED  BY <1>1, <3>2, <3>3
  <2> QED  BY <2>1, <2>2 DEF SourceOK
<1>13. PoolOK'
  <2>1. ASSUME NEW v \in 1..Len(pool)
        PROVE  /\ v <= Len(src') /\ pool'[v].kind = src'[v].kind /\ pool'[v].table = src'[v].table
               /\ Len(pool'[v].code) <= Len(src'[v].code)
    <3>1. /\ v <= Len(src) /\ pool[v].kind = src[v].kind /\ pool[v].table = src[v].table
          /\ Len(pool[v].code) <= Len(src[v].code)
      BY <1>0 DEF PoolOK
    <3>2. Len(pool'[v].code) <= Len(src[v].code)
      <4>1. CASE v = u
        <5>1. Len(pool[u].code) + 1 = i /\ i <= Len(src[u].code)
          BY <1>1, <1>2
        <5> QED  BY <1>8, <4>1, <5>1
      <4>2. CASE v # u
        BY <1>8, <3>1, <4>2
      <4> QED  BY <4>1, <4>2
    <3> QED  BY <1>7, <1>8, <1>9, <3>1, <3>2 DEF Renamed
  <2>2. ASSUME NEW v \in 1..Len(pool), NEW j \in 1..Len(pool'[v].code)
        PROVE  CopyOf(pool[v].code[j], src[v].code[j], mem.pool)' /\ pool'[v].code[j].handler = None
    <3>1. CASE v = u /\ j = i
      <4>1. /\ src'[v].code[j].code = o.code /\ src'[v].code[j].zvals = o.zvals
            /\ src'[v].code[j].name = n /\ src'[v].code[j].jmp = o.jmp
        BY <1>1, <1>7, <3>1 DEF Renamed, o
      <4> QED  BY <1>1, <1>6, <1>8, <3>1, <4>1 DEF CopyOf, Jumps
    <3>2. CASE j \in 1..Len(pool[v].code) /\ ~(v = u /\ j = i)
      <4>1. CopyOf(pool[v].code[j], src[v].code[j], mem.pool) /\ pool[v].code[j].handler = None
            /\ Len(pool[v].code) <= Len(src[v].code)
        BY <1>0, <3>2 DEF PoolOK
      <4>2. j \in 1..Len(src[v].code)
        BY <1>9, <3>2, <4>1
      <4>3. /\ src'[v].code[j].code = src[v].code[j].code /\ src'[v].code[j].zvals = src[v].code[j].zvals
            /\ src'[v].code[j].name = src[v].code[j].name /\ src'[v].code[j].jmp = src[v].code[j].jmp
        BY <1>7, <1>9, <3>2, <4>2 DEF Renamed
      <4> QED  BY <1>1, <1>8, <3>2, <4>1, <4>3 DEF CopyOf, Jumps
    <3> QED  BY <1>10, <3>1, <3>2
  <2> QED  BY <1>8, <2>1, <2>2 DEF PoolOK
<1>14. Progress'
  <2>1. \A v \in 1..Len(pool') : v < u => Whole(v)'
    <3> SUFFICES ASSUME NEW v \in 1..Len(pool'), v < u PROVE Len(pool'[v].code) = Len(src'[v].code)
      BY DEF Whole
    <3>1. v \in 1..Len(pool) /\ Len(pool[v].code) = Len(src[v].code)
      BY <1>2, <1>8 DEF Whole
    <3>2. v # u
      BY <1>2
    <3>3. Len(pool'[v].code) = Len(pool[v].code)
      BY <1>8, <3>1, <3>2
    <3>4. Len(src'[v].code) = Len(src[v].code)
      BY <1>7, <1>9, <3>1 DEF Renamed
    <3> QED  BY <3>1, <3>3, <3>4
  <2>2. Len(src') = Len(src) /\ src'[u].kind = "code" /\ Len(pool'[u].code) = i
    <3>1. u \in 1..Len(pool) /\ Len(pool'[u].code) = Len(pool[u].code) + 1
      BY <1>1, <1>2, <1>8
    <3> QED  BY <1>1, <1>2, <1>7, <3>1 DEF Renamed
  <2> QED  BY <1>1, <1>2, <1>3, <1>4, <1>8, <2>1, <2>2 DEF Progress
<1>15. TagsOK'
  <2>1. ASSUME NEW x \in tags' PROVE \E v \in 1..Len(pool') : \E j \in 1..Len(pool'[v].code) : x = <<v, j>>
    <3>1. CASE x \in tags
      <4>1. PICK v \in 1..Len(pool) : \E j \in 1..Len(pool[v].code) : x = <<v, j>>
        BY <1>0, <3>1 DEF TagsOK
      <4>2. PICK j \in 1..Len(pool[v].code) : x = <<v, j>>
        BY <4>1
      <4>3. j \in 1..Len(pool'[v].code)
        BY <1>8, <1>9, <4>2
      <4> QED  BY <1>8, <4>2, <4>3
    <3>2. CASE x = at
      <4>1. u \in 1..Len(pool') /\ i \in 1..Len(pool'[u].code)
        BY <1>1, <1>2, <1>8
      <4> QED  BY <1>1, <3>2, <4>1
    <3> QED  BY <1>1, <3>1, <3>2
  <2>2. ASSUME NEW v \in 1..Len(pool), NEW j \in 1..Len(pool'[v].code)
        PROVE  <<v, j>> \in tags' <=> Jumps(src'[v].code[j])
    <3>1. CASE v = u /\ j = i
      <4>1. <<u, i>> \notin tags
        <5> SUFFICES ASSUME <<u, i>> \in tags PROVE FALSE
          OBVIOUS
        <5>1. \E w \in 1..Len(pool) : \E k \in 1..Len(pool[w].code) : <<u, i>> = <<w, k>>
          BY <1>0 DEF TagsOK
        <5> QED  BY <1>2, <5>1
      <4>2. src'[v].code[j].code = o.code
        BY <1>1, <1>7, <3>1 DEF Renamed, o
      <4> QED  BY <1>1, <3>1, <4>1, <4>2 DEF Jumps
    <3>2. CASE j \in 1..Len(pool[v].code) /\ ~(v = u /\ j = i)
      <4>1. (<<v, j>> \in tags <=> Jumps(src[v].code[j])) /\ Len(pool[v].code) <= Len(src[v].code)
        BY <1>0, <3>2 DEF TagsOK, PoolOK
      <4>2. j \in 1..Len(src[v].code)
        BY <1>9, <3>2, <4>1
      <4>3. src'[v].code[j].code = src[v].code[j].code
        BY <1>7, <1>9, <4>2 DEF Renamed
      <4>4. <<v, j>> # at
        BY <1>1, <3>2
      <4> QED  BY <1>1, <4>1, <4>3, <4>4 DEF Jumps
    <3> QED  BY <1>10, <3>1, <3>2
  <2> QED  BY <1>8, <2>1, <2>2 DEF TagsOK
<1>16. LoadOK'
  BY <1>3 DEF LoadOK
<1> QED  BY <1>11, <1>12, <1>13, <1>14, <1>15, <1>16 DEF IInv

LEMMA HeadsKeep ==
  ASSUME IInv, CopyHead \/ CopyMembers
  PROVE  IInv'
<1>1. at \in Nat \X Nat /\ flags \subseteq Flags
  BY DEF IInv, TypeOK
<1>2. CASE CopyHead
  <2>1. pc' \in {"out", "circular"} /\ flags' = {} /\ Unit.kind = "code"
    BY <1>2 DEF CopyHead, CopyZvals
  <2>2. pool' = Append(pool, [kind |-> Unit.kind, table |-> Unit.table, code |-> <<>>, flags |-> {}])
    BY <1>2, <2>1 DEF CopyHead
  <2>3. /\ pc = "out" /\ at[1] <= Len(src) /\ at[2] = 0 /\ at' = [at EXCEPT ![2] = 1]
        /\ UNCHANGED <<src, tags, mem, run, proc, jit, armed>>
    BY <1>2 DEF CopyHead
  <2> QED  BY <2>1, <2>2, <2>3, HeadKeeps
<1>3. CASE CopyMembers
  <2>1. pc' \in {"out", "circular"} /\ flags' = flags /\ Unit.kind = "members"
    BY <1>3 DEF CopyMembers, CopyZvals
  <2>2. pool' = Append(pool, [kind |-> Unit.kind, table |-> Unit.table, code |-> <<>>, flags |-> {}])
    BY <1>3, <2>1 DEF CopyMembers
  <2>3. /\ pc = "out" /\ at[1] <= Len(src) /\ at' = <<at[1] + 1, 0>>
        /\ UNCHANGED <<src, tags, mem, run, proc, jit, armed>>
    BY <1>3 DEF CopyMembers
  <2>4. at[2] = 0
    BY <2>1, <2>3 DEF IInv, Progress, Unit
  <2> QED  BY <1>1, <2>1, <2>2, <2>3, <2>4, HeadKeeps
<1> QED  BY <1>2, <1>3

LEMMA TailKeeps ==
  ASSUME IInv, CopyTail
  PROVE  IInv'
<1>0. TypeOK /\ SourceOK /\ PoolOK /\ Progress /\ TagsOK
  BY DEF IInv
<1> DEFINE u == at[1]
           r == [pool[u] EXCEPT !.flags = flags]
<1>1. /\ pc = "out" /\ u \in 1..Len(src) /\ u \in Nat /\ at[2] \in Nat
      /\ at[2] = Len(src[u].code) + 1 /\ Len(src[u].code) \in Nat
      /\ pool' = [pool EXCEPT ![u] = r] /\ at' = <<u + 1, 0>>
      /\ UNCHANGED <<src, tags, flags, mem, run, proc, jit, armed, pc>>
  BY SMTT(30), <1>0, UnitFacts DEF CopyTail, Unit, TypeOK, Progress
<1>2. Len(pool) = u /\ Len(pool[u].code) = Len(src[u].code) /\ \A v \in 1..Len(pool) : v < u => Whole(v)
  <2>1. at[2] # 0 /\ at[1] = u
    BY <1>1
  <2> HIDE DEF u, r
  <2> QED  BY <1>0, <1>1, <2>1 DEF Progress
<1> HIDE DEF u
<1>3. r \in Copy /\ r.kind = pool[u].kind /\ r.table = pool[u].table /\ r.code = pool[u].code
  <2>1. pool[u] \in Copy /\ flags \in SUBSET Flags
    BY <1>0, <1>1, <1>2, UnitFacts DEF TypeOK
  <2> QED  BY <2>1 DEF Copy
<1> HIDE DEF r
<1>4. /\ pool' \in Seq(Copy) /\ Len(pool') = Len(pool)
      /\ \A v \in 1..Len(pool) : pool'[v] = IF v = u THEN r ELSE pool[v]
  <2>1. /\ [pool EXCEPT ![u] = r] \in Seq(Copy) /\ Len([pool EXCEPT ![u] = r]) = Len(pool)
        /\ \A v \in 1..Len(pool) : [pool EXCEPT ![u] = r][v] = IF v = u THEN r ELSE pool[v]
    BY <1>0, <1>1, <1>2, <1>3, SeqExcept DEF TypeOK
  <2> QED  BY <1>1, <2>1, Zenon
<1>5. \A v \in 1..Len(pool) : pool'[v].kind = pool[v].kind /\ pool'[v].table = pool[v].table
                              /\ pool'[v].code = pool[v].code
  BY <1>3, <1>4
<1>6. TypeOK'
  BY SMTT(30), <1>0, <1>1, <1>4 DEF TypeOK
<1>7. SourceOK'
  BY <1>0, <1>1 DEF SourceOK
<1>8. PoolOK' /\ TagsOK'
  <2>1. PoolOK'
    <3>1. \A c, o : CopyOf(c, o, mem.pool)' <=> CopyOf(c, o, mem.pool)
      BY <1>1 DEF CopyOf
    <3> QED  BY SMTT(30), <1>0, <1>1, <1>4, <1>5, <3>1 DEF PoolOK
  <2>2. TagsOK'
    BY <1>0, <1>1, <1>4, <1>5 DEF TagsOK
  <2> QED  BY <2>1, <2>2
<1>9. Progress'
  <2>1. \A v \in 1..Len(pool') : Whole(v)'
    BY <1>1, <1>2, <1>4, <1>5 DEF Whole
  <2> QED  BY <1>1, <1>2, <1>4, <2>1 DEF Progress
<1>10. LoadOK'
  BY <1>1 DEF LoadOK
<1> QED  BY <1>6, <1>7, <1>8, <1>9, <1>10 DEF IInv

LEMMA OverflowKeeps ==
  ASSUME IInv, Overflow
  PROVE  IInv'
<1>1. TypeOK /\ SourceOK
  BY DEF IInv
<1>2. /\ pool' = <<>> /\ tags' = {} /\ at' = <<1, 0>> /\ pc = "out"
      /\ UNCHANGED <<src, left, flags, run, proc, jit, armed, pc>>
  BY DEF Overflow
<1>3. mem' \in [src : Int, pool : Int, exec : Int]
  <2>1. PICK b \in Bases : mem' = [mem EXCEPT !.pool = b]
    BY DEF Overflow
  <2> QED  BY SMTT(30), <1>1, <2>1, OpArrayConstants DEF TypeOK
<1>4. TypeOK' /\ SourceOK'
  BY SMTT(30), <1>1, <1>2, <1>3 DEF TypeOK, SourceOK
<1>5. PoolOK' /\ Progress' /\ TagsOK' /\ LoadOK'
  BY <1>1, <1>2 DEF PoolOK, Progress, TagsOK, LoadOK, TypeOK
<1> QED  BY <1>4, <1>5 DEF IInv

\* The pool at another address.
LEMMA PoolMoved ==
  ASSUME TypeOK, NEW by \in Int, pool' = Moved(pool, by)
  PROVE  /\ pool' \in Seq(Copy) /\ Len(pool') = Len(pool)
         /\ \A u \in 1..Len(pool) :
               /\ pool'[u].kind = pool[u].kind /\ pool'[u].table = pool[u].table
               /\ pool'[u].flags = pool[u].flags /\ Len(pool'[u].code) = Len(pool[u].code)
               /\ \A i \in 1..Len(pool[u].code) :
                     LET c == pool[u].code[i]
                         d == pool'[u].code[i]
                     IN  /\ d.code = c.code /\ d.zvals = c.zvals /\ d.name = c.name
                         /\ d.handler = c.handler
                         /\ d.jmp = IF <<u, i>> \in tags THEN c.jmp + by ELSE c.jmp
<1> DEFINE op(u, i) == IF <<u, i>> \in tags THEN Shift(pool[u].code[i], by) ELSE pool[u].code[i]
           code(u) == [i \in 1..Len(pool[u].code) |-> op(u, i)]
           unit(u) == [pool[u] EXCEPT !.code = code(u)]
<1>1. pool' = [u \in 1..Len(pool) |-> unit(u)]
  BY DEF Moved
<1>2. ASSUME NEW u \in 1..Len(pool), NEW i \in 1..Len(pool[u].code)
      PROVE  /\ op(u, i) \in Opcode
             /\ op(u, i).code = pool[u].code[i].code /\ op(u, i).zvals = pool[u].code[i].zvals
             /\ op(u, i).name = pool[u].code[i].name /\ op(u, i).handler = pool[u].code[i].handler
             /\ op(u, i).jmp = IF <<u, i>> \in tags THEN pool[u].code[i].jmp + by ELSE pool[u].code[i].jmp
  <2>1. pool[u].code[i] \in Opcode
    BY UnitFacts
  <2> QED  BY SMTT(30), <2>1 DEF Opcode, Shift
<1> HIDE DEF op
<1>3. ASSUME NEW u \in 1..Len(pool)
      PROVE  /\ unit(u) \in Copy /\ unit(u).code = code(u) /\ unit(u).kind = pool[u].kind
             /\ unit(u).table = pool[u].table /\ unit(u).flags = pool[u].flags
             /\ Len(code(u)) = Len(pool[u].code)
  <2>1. Len(pool[u].code) \in Nat /\ pool[u] \in Copy
    BY UnitFacts
  <2>2. code(u) \in [1..Len(pool[u].code) -> Opcode]
    BY <1>2
  <2> HIDE DEF code
  <2>3. code(u) \in Seq(Opcode) /\ Len(code(u)) = Len(pool[u].code)
    BY <2>1, <2>2, SeqOfFunction
  <2> QED  BY <2>1, <2>3 DEF Copy
<1>4. pool' \in Seq(Copy) /\ Len(pool') = Len(pool) /\ \A u \in 1..Len(pool) : pool'[u] = unit(u)
  <2>1. Len(pool) \in Nat
    BY UnitFacts
  <2>2. pool' \in [1..Len(pool) -> Copy]
    BY <1>1, <1>3
  <2>3. pool' \in Seq(Copy) /\ Len(pool') = Len(pool)
    BY <2>1, <2>2, SeqOfFunction
  <2> HIDE DEF unit
  <2> QED  BY <1>1, <2>3
<1>5. \A u \in 1..Len(pool) : \A i \in 1..Len(pool[u].code) : code(u)[i] = op(u, i)
  OBVIOUS
<1> HIDE DEF unit, code
<1>6. ASSUME NEW u \in 1..Len(pool)
      PROVE  /\ pool'[u].kind = pool[u].kind /\ pool'[u].table = pool[u].table
             /\ pool'[u].flags = pool[u].flags /\ Len(pool'[u].code) = Len(pool[u].code)
             /\ \A i \in 1..Len(pool[u].code) : pool'[u].code[i] = op(u, i)
  BY <1>3, <1>4, <1>5
<1> QED  BY SMTT(30), <1>2, <1>4, <1>6

LEMMA MoveKeeps ==
  ASSUME IInv, NEW b \in Int, pool' = Moved(pool, b - mem.pool),
         mem'.pool = b, mem'.src = mem.src, UNCHANGED <<src, tags>>,
         pc = "out" => at[1] > Len(src), pc # "circular", pc' \in {"stored", "in"},
         pc' = "stored" => pc = "out"
  PROVE  pool' \in Seq(Copy) /\ Len(pool') = Len(pool) /\ SourceOK' /\ PoolOK' /\ Progress' /\ TagsOK'
<1>0. TypeOK /\ SourceOK /\ PoolOK /\ Progress /\ TagsOK
  BY DEF IInv
<1>1. Len(pool) = Len(src) /\ \A u \in 1..Len(pool) : Whole(u)
  <2>1. CASE pc = "out"
    <3>1. at[1] = Len(src) + 1 /\ at[2] = 0 /\ Len(src) \in Nat
      BY <1>0, <2>1, UnitFacts DEF Progress
    <3> QED  BY <1>0, <2>1, <3>1 DEF Progress
  <2>2. CASE pc # "out"
    BY <1>0, <2>2 DEF Progress, TypeOK
  <2> QED  BY <2>1, <2>2
<1> DEFINE by == b - mem.pool
<1>2. by \in Int /\ mem.src \in Int /\ mem.pool \in Int /\ mem'.pool = b /\ mem'.src = mem.src
  BY <1>0 DEF TypeOK
<1>3. /\ pool' \in Seq(Copy) /\ Len(pool') = Len(pool)
      /\ \A u \in 1..Len(pool) :
            /\ pool'[u].kind = pool[u].kind /\ pool'[u].table = pool[u].table
            /\ Len(pool'[u].code) = Len(pool[u].code)
            /\ \A i \in 1..Len(pool[u].code) :
                  LET c == pool[u].code[i]
                      d == pool'[u].code[i]
                  IN  /\ d.code = c.code /\ d.zvals = c.zvals /\ d.name = c.name
                      /\ d.handler = c.handler
                      /\ d.jmp = IF <<u, i>> \in tags THEN c.jmp + by ELSE c.jmp
  BY <1>0, <1>2, PoolMoved
<1>4. SourceOK'
  BY <1>0 DEF SourceOK
<1>5. PoolOK'
  <2>1. ASSUME NEW u \in 1..Len(pool), NEW i \in 1..Len(pool[u].code)
        PROVE  CopyOf(pool[u].code[i], src[u].code[i], mem.pool)' /\ pool'[u].code[i].handler = None
    <3>1. CopyOf(pool[u].code[i], src[u].code[i], mem.pool) /\ pool[u].code[i].handler = None
          /\ (<<u, i>> \in tags <=> Jumps(src[u].code[i])) /\ Len(pool[u].code) = Len(src[u].code)
      BY <1>0, <1>1 DEF PoolOK, TagsOK, Whole
    <3>2. src[u].code[i].jmp \in Int
      <4>1. src[u].code[i] \in Opcode
        BY <1>0, <1>1, <3>1, UnitFacts
      <4> QED  BY <4>1 DEF Opcode
    <3>3. pool'[u].code[i].jmp = IF Jumps(src[u].code[i]) THEN src[u].code[i].jmp - mem.src + b ELSE 0
      <4>1. CASE Jumps(src[u].code[i])
        <5>1. pool'[u].code[i].jmp = pool[u].code[i].jmp + by
          BY <1>3, <3>1, <4>1
        <5>2. pool[u].code[i].jmp = src[u].code[i].jmp - mem.src + mem.pool
          BY <3>1, <4>1 DEF CopyOf
        <5> QED  BY <1>2, <3>2, <4>1, <5>1, <5>2
      <4>2. CASE ~Jumps(src[u].code[i])
        BY <1>3, <3>1, <4>2 DEF CopyOf
      <4> QED  BY <4>1, <4>2
    <3> QED  BY <1>2, <1>3, <3>1, <3>3 DEF CopyOf, Jumps
  <2> QED  BY SMTT(30), <1>0, <1>3, <2>1 DEF PoolOK
<1>6. Progress'
  BY SMTT(30), <1>1, <1>3 DEF Progress, Whole
<1>7. TagsOK'
  <2>1. tags' = tags /\ src' = src /\ Len(pool') = Len(pool)
        /\ \A u \in 1..Len(pool) : Len(pool'[u].code) = Len(pool[u].code)
    BY <1>3
  <2>2. \A x \in tags' : \E u \in 1..Len(pool') : \E i \in 1..Len(pool'[u].code) : x = <<u, i>>
    BY <1>0, <2>1 DEF TagsOK
  <2>3. \A u \in 1..Len(pool') : \A i \in 1..Len(pool'[u].code) :
           <<u, i>> \in tags' <=> Jumps(src'[u].code[i])
    BY <1>0, <2>1 DEF TagsOK
  <2> QED  BY <2>2, <2>3 DEF TagsOK
<1> QED  BY <1>3, <1>4, <1>5, <1>6, <1>7

LEMMA StoreKeeps ==
  ASSUME IInv, Store
  PROVE  IInv'
<1>1. TypeOK
  BY DEF IInv
<1>2. /\ pc = "out" /\ at[1] > Len(src) /\ pc' = "stored" /\ mem' = [mem EXCEPT !.pool = 0]
      /\ UNCHANGED <<src, tags, at, flags, run, proc, jit, armed>>
  BY DEF Store
<1>3. mem.pool \in Int /\ mem'.pool = 0 /\ mem'.src = mem.src
      /\ mem' \in [src : Int, pool : Int, exec : Int]
  BY SMTT(30), <1>1, <1>2 DEF TypeOK
<1>4. pool' = Moved(pool, 0 - mem.pool)
  <2>1. -mem.pool = 0 - mem.pool
    BY <1>3
  <2> QED  BY <2>1 DEF Store
<1>5. pool' \in Seq(Copy) /\ SourceOK' /\ PoolOK' /\ Progress' /\ TagsOK'
  BY <1>2, <1>3, <1>4, MoveKeeps
<1>6. TypeOK'
  BY <1>1, <1>2, <1>3, <1>5 DEF TypeOK
<1>7. LoadOK'
  BY <1>2 DEF LoadOK
<1> QED  BY <1>5, <1>6, <1>7 DEF IInv

LEMMA BeginLoadKeeps ==
  ASSUME IInv, BeginLoad
  PROVE  IInv'
<1>1. TypeOK /\ Progress /\ pc \in {"stored", "loaded"}
  BY DEF IInv, BeginLoad
<1>2. PICK p \in Procs, b \in Bases, c \in Bases :
        /\ proc' = p /\ mem' = [mem EXCEPT !.pool = b, !.exec = c]
        /\ pool' = Moved(pool, b - mem.pool)
  BY DEF BeginLoad
<1>3. b \in Int /\ c \in Int
  BY OpArrayConstants
<1>4. /\ pc' = "in" /\ run' = [u \in 1..Len(pool) |-> None] /\ armed' = {} /\ at' = <<Len(pool), 0>>
      /\ jit' \in JitSettings /\ UNCHANGED <<src, tags, flags>>
  BY DEF BeginLoad
<1>6. mem'.pool = b /\ mem'.src = mem.src /\ mem' \in [src : Int, pool : Int, exec : Int]
  BY <1>1, <1>2, <1>3 DEF TypeOK
<1>5. pool' \in Seq(Copy) /\ SourceOK' /\ PoolOK' /\ Progress' /\ TagsOK'
  BY <1>1, <1>2, <1>3, <1>4, <1>6, MoveKeeps
<1>7. run' \in Seq({None} \cup Copy) /\ Len(run') = Len(pool) /\ Len(pool) \in Nat /\ Len(pool) = Len(src)
  <2>1. Len(pool) \in Nat /\ run' \in [1..Len(pool) -> {None} \cup Copy]
    BY <1>1, <1>4, UnitFacts
  <2> QED  BY <1>1, <2>1, SeqOfFunction DEF Progress
<1>8. TypeOK'
  BY <1>1, <1>2, <1>4, <1>5, <1>6, <1>7 DEF TypeOK
<1>9. LoadOK'
  BY <1>4, <1>7 DEF LoadOK
<1> QED  BY <1>5, <1>8, <1>9 DEF IInv

LEMMA CopyInKeeps ==
  ASSUME IInv, CopyIn
  PROVE  IInv'
<1>0. TypeOK /\ SourceOK /\ PoolOK /\ Progress /\ TagsOK /\ LoadOK
  BY DEF IInv
<1> DEFINE u == at[1]
           op(i) == OpcodeIn(pool[u].code[i], u)
           code == [i \in 1..Len(pool[u].code) |-> op(i)]
           unit == [pool[u] EXCEPT !.code = code]
<1>1. /\ pc = "in" /\ u > 0 /\ run' = [run EXCEPT ![u] = unit]
      /\ armed' = armed \cup AutoGlobals(pool[u])
      /\ at' = <<u - 1, 0>> /\ pc' = IF u = 1 THEN "loaded" ELSE "in"
      /\ UNCHANGED <<src, pool, tags, left, flags, mem, proc, jit, tries>>
  BY DEF CopyIn
<1>2. u \in Nat /\ u \in 1..Len(src) /\ Len(run) = Len(src) /\ Len(pool) = Len(src)
      /\ \A v \in 1..Len(pool) : Whole(v)
  <2>1. u \in Nat /\ u <= Len(src) /\ Len(run) = Len(src)
    BY <1>0, <1>1 DEF TypeOK, LoadOK
  <2>2. Len(pool) = Len(src) /\ \A v \in 1..Len(pool) : Whole(v)
    BY <1>0, <1>1 DEF Progress
  <2>3. Len(src) \in Nat
    BY <1>0, UnitFacts
  <2> HIDE DEF u
  <2> QED  BY <1>1, <2>1, <2>2, <2>3
<1>3. pool[u] \in Copy /\ Len(pool[u].code) \in Nat /\ Len(pool[u].code) = Len(src[u].code)
      /\ mem.src \in Int /\ mem.pool \in Int /\ mem.exec \in Int
  <2>1. Whole(u) /\ u \in 1..Len(pool)
    BY <1>2
  <2> HIDE DEF u
  <2> QED  BY <1>0, <2>1, UnitFacts DEF Whole, TypeOK
<1> HIDE DEF u
<1>4. ASSUME NEW i \in 1..Len(src[u].code)
      PROVE  /\ op(i) \in Opcode /\ CopyOf(op(i), src[u].code[i], mem.exec)
             /\ op(i).handler = Table(proc, src[u].code[i].code)
  <2> DEFINE o == src[u].code[i]
             p == pool[u].code[i]
  <2>1. p \in Opcode /\ o \in Opcode /\ CopyOf(p, o, mem.pool) /\ p.handler = None
    BY <1>0, <1>2, <1>3, UnitFacts DEF PoolOK
  <2>2. o.jmp \in Int /\ p.code = o.code /\ o.code \in STRING /\ p.zvals = o.zvals /\ p.name = o.name
        /\ p.jmp = IF Jumps(o) THEN o.jmp - mem.src + mem.pool ELSE 0
    BY <2>1 DEF CopyOf, Opcode
  <2>3. Jumps(p) = Jumps(o)
    BY <2>2 DEF Jumps
  <2>4. op(i) = [p EXCEPT !.handler = Table(proc, o.code),
                          !.jmp = IF Jumps(o) THEN p.jmp - Addr(mem.pool, u, 0) + Addr(mem.exec, u, 0)
                                  ELSE p.jmp]
    BY <2>1, <2>2, <2>3 DEF OpcodeIn
  <2>5. (IF Jumps(o) THEN p.jmp - Addr(mem.pool, u, 0) + Addr(mem.exec, u, 0) ELSE p.jmp)
          = IF Jumps(o) THEN o.jmp - mem.src + mem.exec ELSE 0
    <3> HIDE DEF o, p
    <3> QED  BY SMTT(30), <1>2, <1>3, <2>2 DEF Addr, Stride
  <2>6. Table(proc, o.code) \in Procs \X STRING
    BY <1>0, <2>2 DEF Table, TypeOK
  <2>7. op(i) = [p EXCEPT !.handler = Table(proc, o.code),
                          !.jmp = IF Jumps(o) THEN o.jmp - mem.src + mem.exec ELSE 0]
    BY <2>4, <2>5
  <2> DEFINE jmp == IF Jumps(o) THEN o.jmp - mem.src + mem.exec ELSE 0
  <2>9. jmp \in Int
    BY <1>3, <2>2
  <2> HIDE DEF o, p, op, jmp
  <2>10. op(i) = [p EXCEPT !.handler = Table(proc, o.code), !.jmp = jmp]
    BY <2>7 DEF jmp
  <2>11. /\ op(i) \in Opcode /\ op(i).code = p.code /\ op(i).zvals = p.zvals /\ op(i).name = p.name
         /\ op(i).handler = Table(proc, o.code) /\ op(i).jmp = jmp
    BY <2>1, <2>6, <2>9, <2>10 DEF Opcode
  <2>8. op(i) \in Opcode /\ op(i).code = p.code /\ op(i).zvals = p.zvals /\ op(i).name = p.name
        /\ op(i).handler = Table(proc, o.code)
        /\ op(i).jmp = IF Jumps(o) THEN o.jmp - mem.src + mem.exec ELSE 0
    BY <2>11 DEF jmp
  <2> QED  BY <2>2, <2>8 DEF CopyOf, o
<1> HIDE DEF op
<1>5. code \in Seq(Opcode) /\ Len(code) = Len(src[u].code)
      /\ \A i \in 1..Len(src[u].code) : code[i] = op(i)
  <2>1. code \in [1..Len(src[u].code) -> Opcode] /\ Len(src[u].code) \in Nat
    BY <1>3, <1>4
  <2>2. \A i \in 1..Len(src[u].code) : code[i] = op(i)
    BY <1>3
  <2> HIDE DEF code
  <2> QED  BY <2>1, <2>2, SeqOfFunction
<1> HIDE DEF code
<1>6. unit \in Copy /\ unit.code = code /\ unit.kind = src[u].kind /\ unit.table = src[u].table
  <2>1. pool[u].kind = src[u].kind /\ pool[u].table = src[u].table
    BY <1>0, <1>2 DEF PoolOK
  <2> QED  BY <1>3, <1>5, <2>1 DEF Copy
<1> HIDE DEF unit
<1>7. /\ run' \in Seq({None} \cup Copy) /\ Len(run') = Len(run)
      /\ \A v \in 1..Len(run) : run'[v] = IF v = u THEN unit ELSE run[v]
  <2>1. /\ [run EXCEPT ![u] = unit] \in Seq({None} \cup Copy)
        /\ Len([run EXCEPT ![u] = unit]) = Len(run)
        /\ \A v \in 1..Len(run) : [run EXCEPT ![u] = unit][v] = IF v = u THEN unit ELSE run[v]
    BY <1>0, <1>2, <1>6, SeqExcept DEF TypeOK
  <2> QED  BY <1>1, <2>1, Zenon
<1>8. TypeOK'
  <2>1. AutoGlobals(pool[u]) \subseteq JitNames \cup OtherNames
    BY DEF AutoGlobals
  <2>2. at' \in Nat \X Nat
    BY <1>1, <1>2
  <2>3. armed' \subseteq JitNames \cup OtherNames
    BY <1>0, <1>1, <2>1 DEF TypeOK
  <2> QED  BY <1>0, <1>1, <1>7, <2>2, <2>3 DEF TypeOK
<1>9. SourceOK' /\ TagsOK' /\ PoolOK' /\ Progress'
  <2>1. SourceOK'
    BY <1>0, <1>1 DEF SourceOK
  <2>2. TagsOK'
    BY <1>0, <1>1 DEF TagsOK
  <2>3. PoolOK'
    BY <1>0, <1>1 DEF PoolOK, CopyOf
  <2>4. Progress'
    BY <1>1, <1>2 DEF Progress, Whole
  <2> QED  BY <2>1, <2>2, <2>3, <2>4
<1>10. LoadOK'
  <2>1. ASSUME NEW v \in 1..Len(src), v = u PROVE Ran(v)'
    <3>1. run'[v] = unit
      BY <1>2, <1>7, <2>1
    <3>2. \A i \in 1..Len(src[u].code) : run'[v].code[i] = op(i)
      BY <1>5, <1>6, <3>1
    <3>3. \A i \in 1..Len(src[u].code) :
             /\ CopyOf(run'[v].code[i], src[v].code[i], mem.exec)
             /\ run'[v].code[i].handler = Table(proc, src[u].code[i].code)
      BY <1>4, <2>1, <3>2
    <3> QED  BY <1>1, <1>5, <1>6, <2>1, <3>1, <3>3 DEF Ran, CopyOf
  <2>2. ASSUME NEW v \in 1..Len(src), v > u PROVE Ran(v)'
    <3>1. Ran(v)
      BY <1>0, <1>1, <2>2 DEF LoadOK, u
    <3>2. run'[v] = run[v]
      BY <1>2, <1>7, <2>2
    <3> QED  BY <1>1, <3>1, <3>2 DEF Ran, CopyOf
  <2>3. \A v \in 1..Len(src) : v > u - 1 => v = u \/ v > u
    BY <1>2
  <2> QED  BY <1>1, <1>2, <1>7, <2>1, <2>2, <2>3 DEF LoadOK
<1> QED  BY <1>8, <1>9, <1>10 DEF IInv

\* The invariant is inductive: source, copy and load have their shapes at every step, a
\* copy stands where its loops have got to with just the pointers of what it has done
\* tagged, and what is loaded is the copy moved to its new address.
THEOREM Invariance == Spec => []IInv
<1>1. ASSUME IInv, UNCHANGED vars PROVE IInv'
  <2>1. TypeOK' /\ SourceOK' /\ Progress' /\ TagsOK'
    BY <1>1 DEF IInv, TypeOK, SourceOK, Progress, Whole, TagsOK, vars
  <2>2. \A c, o, b : CopyOf(c, o, b)' <=> CopyOf(c, o, b)
    BY <1>1 DEF CopyOf, vars
  <2>3. PoolOK' /\ LoadOK'
    BY <1>1, <2>2 DEF IInv, PoolOK, LoadOK, Ran, CopyOf, vars
  <2> QED  BY <2>1, <2>3 DEF IInv
<1>2. IInv /\ [Next]_vars => IInv'
  BY <1>1, HeadsKeep, OpcodeKeeps, TailKeeps, OverflowKeeps, StoreKeeps, BeginLoadKeeps, CopyInKeeps
     DEF Next
<1> QED  BY <1>2, Initially, PTL DEF Spec

\* What a request loads does what the compiling request's copy does, in any process and
\* at any address, however often the copy overflowed.
THEOREM LoadsAlike == Spec => []LoadedRunsAlike
<1>1. ASSUME IInv, pc = "loaded" PROVE LoadedRunsAlike
  <2>1. Len(run) = Len(src) /\ \A u \in 1..Len(src) : Ran(u)
    BY <1>1, UnitFacts DEF IInv, LoadOK
  <2>2. ASSUME NEW u \in 1..Len(src), NEW i \in 1..Len(src[u].code)
        PROVE  LET o == src[u].code[i]
                   r == run[u].code[i]
               IN  /\ r.code = o.code /\ r.zvals = o.zvals /\ r.name = o.name
                   /\ r.handler = Table(proc, r.code)
                   /\ Jumps(o) => r.jmp - mem.exec = o.jmp - mem.src
    <3>1. /\ CopyOf(run[u].code[i], src[u].code[i], mem.exec)
          /\ run[u].code[i].handler = Table(proc, src[u].code[i].code)
      BY <2>1 DEF Ran
    <3>2. src[u].code[i].jmp \in Int /\ mem.exec \in Int /\ mem.src \in Int
      <4>1. src[u].code[i] \in Opcode
        BY <1>1, UnitFacts DEF IInv
      <4> QED  BY <1>1, <4>1 DEF Opcode, IInv, TypeOK
    <3> QED  BY <3>1, <3>2 DEF CopyOf
  <2> QED  BY <2>1, <2>2 DEF LoadedRunsAlike, Ran
<1>2. IInv => LoadedRunsAlike
  BY <1>1 DEF LoadedRunsAlike
<1> QED  BY <1>2, Invariance, PTL

-----------------------------------------------------------------------------
(* What a copy leaves of the source.                                       *)

\* The source has the tables, opcodes and constants it had, but for names of includes.
SourceKept ==
    /\ Len(src') = Len(src)
    /\ \A u \in 1..Len(src) :
          /\ src'[u].kind = src[u].kind /\ src'[u].table = src[u].table
          /\ Len(src'[u].code) = Len(src[u].code)
          /\ \A i \in 1..Len(src[u].code) :
                LET o == src[u].code[i]
                    r == src'[u].code[i]
                IN  /\ r.code = o.code /\ r.zvals = o.zvals
                    /\ o.code \in Fetches => r.name = o.name

LEMMA StepKeepsSource ==
  ASSUME IInv, [Next]_vars
  PROVE  SourceKept
<1>1. CASE CopyOpcode
  <2>1. PICK u \in 1..Len(src) : \E i \in Nat, n \in Names, c \in Opcode :
                 Copied(u, i, src[u].code[i], n, c)
    BY <1>1, OpcodeCopied
  <2>2. PICK i \in Nat, n \in Names, c \in Opcode : Copied(u, i, src[u].code[i], n, c)
    BY <2>1
  <2>3. Renamed(u, i, n) /\ i \in 1..Len(src[u].code)
        /\ n = IF "INCLUDE" \in OpTable(src[u].code[i].code) THEN Resolve(src[u].code[i].name)
               ELSE src[u].code[i].name
    BY <2>2 DEF Copied
  <2>4. src[u].code[i].code \in Fetches => n = src[u].code[i].name
    BY <2>3 DEF Fetches, OpTable
  <2>5. ASSUME NEW v \in 1..Len(src), NEW j \in 1..Len(src[v].code), src[v].code[j].code \in Fetches
        PROVE  src'[v].code[j].name = src[v].code[j].name
    BY <2>3, <2>4, <2>5 DEF Renamed
  <2> QED  BY <2>3, <2>5 DEF Renamed, SourceKept
<1>2. CASE ~CopyOpcode
  <2>1. src' = src
    BY <1>2 DEF Next, CopyHead, CopyTail, CopyMembers, Overflow, Store, BeginLoad, CopyIn, vars
  <2> QED  BY <2>1 DEF SourceKept
<1> QED  BY <1>1, <1>2

-----------------------------------------------------------------------------
(* Refused for a cycle.                                                    *)

CodeOnly == \A f \in Files : \A u \in 1..Len(f) : f[u].kind = "code"

CInv ==
    /\ \A u \in 1..Len(src) : src[u].kind = "code"
    /\ NoFalseCircular

LEMMA ExceedsKept ==
  ASSUME IInv, SourceKept, Exceeds(src)
  PROVE  Exceeds(src')
<1>1. PICK u \in 1..Len(src) : \/ Zvals(src[u].table) > Countdown
                              \/ \E i \in 1..Len(src[u].code) : src[u].code[i].zvals > Countdown
  BY DEF Exceeds
<1>2. u \in 1..Len(src') /\ src'[u].table = src[u].table /\ Len(src'[u].code) = Len(src[u].code)
  BY DEF SourceKept
<1>3. CASE Zvals(src[u].table) > Countdown
  BY <1>2, <1>3 DEF Exceeds
<1>4. CASE \E i \in 1..Len(src[u].code) : src[u].code[i].zvals > Countdown
  <2>1. PICK i \in 1..Len(src[u].code) : src[u].code[i].zvals > Countdown
    BY <1>4
  <2>2. i \in 1..Len(src'[u].code) /\ src'[u].code[i].zvals > Countdown
    BY <1>2, <2>1 DEF SourceKept
  <2> QED  BY <1>2, <2>2 DEF Exceeds
<1> QED  BY <1>1, <1>3, <1>4

LEMMA CountsKeep ==
  ASSUME IInv, CInv, [Next]_vars
  PROVE  CInv'
<1>1. SourceKept
  BY StepKeepsSource
<1>2. (\A u \in 1..Len(src) : src[u].kind = "code")'
  BY <1>1 DEF CInv, SourceKept
<1>3. ASSUME pc' = "circular" PROVE Exceeds(src)
  <2>1. CASE CopyHead
    <3>1. Zvals(src[at[1]].table) > Countdown
      BY <1>3, <2>1 DEF CopyHead, CopyZvals, Unit
    <3>2. at[1] \in 1..Len(src)
      BY <2>1 DEF CopyHead, IInv, Progress, TypeOK
    <3> QED  BY <3>1, <3>2 DEF Exceeds
  <2>2. CASE CopyOpcode
    <3>1. src[at[1]].code[at[2]].zvals > Countdown /\ at[2] \in 1..Len(src[at[1]].code)
      BY <1>3, <2>2 DEF CopyOpcode, CopyZvals, Unit
    <3>2. at[1] \in 1..Len(src)
      BY <2>2 DEF CopyOpcode, IInv, Progress, TypeOK
    <3> QED  BY <3>1, <3>2 DEF Exceeds
  <2>3. CASE CopyMembers
    <3>1. at[1] \in 1..Len(src) /\ src[at[1]].kind = "members"
      BY <2>3 DEF CopyMembers, IInv, Progress, TypeOK, Unit
    <3> QED  BY <3>1 DEF CInv
  <2>4. CASE CopyTail \/ Overflow \/ UNCHANGED vars
    <3>1. pc = "circular"
      BY <1>3, <2>4 DEF CopyTail, Overflow, vars
    <3> QED  BY <3>1 DEF CInv, NoFalseCircular
  <2>5. CASE Store \/ BeginLoad \/ CopyIn
    BY <1>3, <2>5 DEF Store, BeginLoad, CopyIn
  <2> QED  BY <2>1, <2>2, <2>3, <2>4, <2>5 DEF Next
<1>4. NoFalseCircular'
  BY <1>1, <1>3, ExceedsKept DEF NoFalseCircular
<1> QED  BY <1>2, <1>4 DEF CInv

\* A file with no class members is refused as circular only if an opcode or a table does
\* exceed the countdown, however often its copy started again.
THEOREM RefusesOnlyLarge ==
  ASSUME CodeOnly
  PROVE  Spec => []NoFalseCircular
<1>1. Init => CInv
  <2> SUFFICES ASSUME Init PROVE CInv
    OBVIOUS
  <2>1. PICK f \in Files, p \in Procs, b \in Bases : src = Compiled(f, p, b)
    BY DEF Init
  <2>2. FromFile(f, p)
    BY <2>1, CompiledFile
  <2>3. \A u \in 1..Len(src) : src[u].kind = "code"
    BY <2>2 DEF FromFile, CodeOnly
  <2>4. pc # "circular"
    BY DEF Init
  <2> QED  BY <2>3, <2>4 DEF CInv, NoFalseCircular
<1>2. CInv => NoFalseCircular
  BY DEF CInv
<1> QED  BY <1>1, <1>2, Invariance, CountsKeep, PTL DEF Spec

-----------------------------------------------------------------------------
(* The autoglobals a loaded file refers to.                                *)

\* F has the bits of what is remembered of the copied unit, and no others.
Recorded(n, F) ==
    /\ F \cap JitNames = IF recording THEN Remembered(n) ELSE {}
    /\ "UNKNOWN_GLOBAL" \notin F

\* Only the units copied so far count, and of those loaded what has been copied in.
GInv ==
    /\ pc = "out" => jit = recording
    /\ pc = "out" => \A u \in 1..Len(pool) :
          Recorded(pool[u], IF u = at[1] THEN flags ELSE pool[u].flags)
    /\ pc \in {"stored", "in", "loaded"} => \A u \in 1..Len(pool) : Recorded(pool[u], pool[u].flags)
    /\ pc \in {"in", "loaded"} =>
          armed = UNION {pool[u].flags \cap JitNames : u \in {v \in 1..Len(pool) : v > at[1]}}

\* What is remembered depends on the opcodes and their names only.
LEMMA SameRemembered ==
  ASSUME NEW n, NEW m, Len(n.code) = Len(m.code),
         \A i \in 1..Len(n.code) : n.code[i].code = m.code[i].code,
         \A i \in 1..Len(n.code) : n.code[i].name = m.code[i].name
  PROVE  Remembered(n) = Remembered(m)
<1> DEFINE Final(q) == {i \in 1..Len(q.code) :
              /\ q.code[i].code \in Fetches
              /\ \A j \in i..Len(q.code) :
                    q.code[j].code \in Fetches => q.code[j].name \notin OtherNames}
<1>1. \A i \in 1..Len(n.code) : \A j \in i..Len(n.code) : j \in 1..Len(n.code)
  OBVIOUS
<1>2. Final(n) = Final(m)
  BY <1>1
<1>3. {n.code[i].name : i \in Final(n)} = {m.code[i].name : i \in Final(m)}
  BY <1>2
<1> QED  BY <1>3 DEF Remembered

LEMMA HeadsRecord ==
  ASSUME IInv, GInv, CopyHead \/ CopyMembers
  PROVE  GInv'
<1>1. TypeOK /\ Progress
  BY DEF IInv
<1> DEFINE u == at[1]
<1>2. /\ pc = "out" /\ u \in 1..Len(src) /\ at[2] = 0
  BY SMTT(30), <1>1 DEF CopyHead, CopyMembers, Progress, TypeOK, Unit
<1>3. Len(pool) = u - 1 /\ u \in Nat
  BY <1>1, <1>2 DEF Progress
<1>4. PICK k \in {"code", "members"} :
        pool' = Append(pool, [kind |-> k, table |-> Unit.table, code |-> <<>>, flags |-> {}])
  BY DEF CopyHead, CopyMembers
<1> DEFINE new == [kind |-> k, table |-> Unit.table, code |-> <<>>, flags |-> {}]
<1>5. new.code = <<>> /\ new \in Copy
  <2>1. Unit.table \in Seq(Nat)
    BY <1>1, <1>2, UnitFacts DEF Unit, Compile
  <2> QED  BY <2>1 DEF Copy
<1> HIDE DEF new
<1>6. Len(pool') = u /\ pool'[u] = new /\ \A v \in 1..Len(pool) : pool'[v] = pool[v]
  <2>1. pool' = Append(pool, new)
    BY <1>4 DEF new
  <2> HIDE DEF u
  <2> QED  BY <1>1, <1>3, <1>5, <2>1 DEF TypeOK
<1>7. Recorded(new, {})
  <2>1. Remembered(new) = {}
    BY <1>5 DEF Remembered
  <2> QED  BY <2>1 DEF Recorded
<1>11. UNCHANGED <<jit, recording>> /\ pool'[u].flags = {} /\ (at'[1] = u => flags' = {})
  <2>1. new.flags = {}
    BY DEF new
  <2>2. CASE CopyHead
    BY <1>6, <2>1, <2>2 DEF CopyHead
  <2>3. CASE CopyMembers
    BY <1>1, <1>6, <2>1, <2>3 DEF CopyMembers, TypeOK
  <2> QED  BY <2>2, <2>3
<1>8. ASSUME NEW v \in 1..Len(pool) PROVE Recorded(pool[v], pool[v].flags) /\ v # u /\ v # u + 1
  BY <1>2, <1>3 DEF GInv
<1>9. at'[1] \in {u, u + 1} /\ pc' \in {"out", "circular"}
  <2>1. CASE CopyHead
    BY <1>1, <2>1 DEF CopyHead, CopyZvals, TypeOK
  <2>2. CASE CopyMembers
    BY <2>2 DEF CopyMembers, CopyZvals
  <2> QED  BY <2>1, <2>2
<1> HIDE DEF u
<1>10. ASSUME NEW v \in 1..Len(pool')
       PROVE  Recorded(pool[v], IF v = at[1] THEN flags ELSE pool[v].flags)'
  <2>1. CASE v = u
    <3>1. (IF v = at[1] THEN flags ELSE pool[v].flags)' = {}
      BY <1>11, <2>1
    <3>2. pool'[v] = new /\ recording' = recording
      BY <1>6, <1>11, <2>1
    <3> QED  BY <1>7, <3>1, <3>2 DEF Recorded, Remembered
  <2>2. CASE v \in 1..Len(pool)
    <3>1. Recorded(pool[v], pool[v].flags) /\ pool'[v] = pool[v] /\ v # at'[1]
      BY <1>6, <1>8, <1>9, <2>2
    <3> QED  BY <1>11, <3>1 DEF Recorded, Remembered
  <2> QED  BY <1>3, <1>6, <2>1, <2>2
<1> QED  BY <1>2, <1>9, <1>10, <1>11 DEF GInv

\* A unit with one more opcode, and what is then remembered of it.
Longer(n, m, o) ==
    /\ Len(n.code) \in Nat /\ Len(m.code) = Len(n.code) + 1
    /\ m.code[Len(n.code) + 1] = o
    /\ \A i \in 1..Len(n.code) : m.code[i] = n.code[i]

RememberedThen(n, m, o) ==
    Remembered(m) = IF o.code \notin Fetches THEN Remembered(n)
                    ELSE IF o.name \in OtherNames THEN {}
                    ELSE Remembered(n) \cup ({o.name} \cap JitNames)

\* What is remembered of a unit changes with an opcode as the code changes the flags.
LEMMA RememberedAfter ==
  ASSUME NEW n, NEW m, NEW o, Longer(n, m, o)
  PROVE  RememberedThen(n, m, o)
<1> DEFINE k == Len(n.code)
<1>a. /\ k \in Nat /\ Len(m.code) = k + 1 /\ o = m.code[k + 1] /\ Len(n.code) = k
      /\ \A i \in 1..k : m.code[i] = n.code[i]
  BY DEF Longer
<1> HIDE DEF k
<1> SUFFICES Remembered(m) = IF o.code \notin Fetches THEN Remembered(n)
                             ELSE IF o.name \in OtherNames THEN {}
                             ELSE Remembered(n) \cup ({o.name} \cap JitNames)
  BY DEF RememberedThen
<1> DEFINE Final(q) == {i \in 1..Len(q.code) :
              /\ q.code[i].code \in Fetches
              /\ \A j \in i..Len(q.code) :
                    q.code[j].code \in Fetches => q.code[j].name \notin OtherNames}
<1>0. 1..(k + 1) = (1..k) \cup {k + 1} /\ k + 1 \notin 1..k
  BY <1>a
<1>1. ASSUME NEW i \in 1..k
      PROVE  i \in Final(m) <=> i \in Final(n) /\ (o.code \in Fetches => o.name \notin OtherNames)
  <2>1. i..(k + 1) = (i..k) \cup {k + 1} /\ i..k \subseteq 1..k /\ k + 1 \notin i..k
    BY <1>a
  <2> QED  BY <1>0, <1>a, <2>1
<1>2. k + 1 \in Final(m) <=> o.code \in Fetches /\ o.name \notin OtherNames
  <2>1. (k + 1)..(k + 1) = {k + 1}
    BY <1>a
  <2> QED  BY <1>0, <1>a, <2>1
<1>3. Remembered(m) = {m.code[i].name : i \in Final(m)} \cap JitNames
      /\ Remembered(n) = {n.code[i].name : i \in Final(n)} \cap JitNames
      /\ Final(m) \subseteq (1..k) \cup {k + 1} /\ Final(n) \subseteq 1..k
  BY <1>0, <1>a DEF Remembered
<1> HIDE DEF Final
<1>4. CASE o.code \notin Fetches
  <2>1. Final(m) = Final(n)
    BY <1>1, <1>2, <1>3, <1>4
  <2>2. {m.code[i].name : i \in Final(m)} = {n.code[i].name : i \in Final(n)}
    BY <1>3, <1>a, <2>1
  <2> QED  BY <1>3, <1>4, <2>2
<1>5. CASE o.code \in Fetches /\ o.name \in OtherNames
  <2>1. Final(m) = {}
    BY <1>1, <1>2, <1>3, <1>5
  <2> QED  BY <1>3, <1>5, <2>1
<1>6. CASE o.code \in Fetches /\ o.name \notin OtherNames
  <2>1. Final(m) = Final(n) \cup {k + 1}
    BY <1>1, <1>2, <1>3, <1>6
  <2>2. {m.code[i].name : i \in Final(m)} = {n.code[i].name : i \in Final(n)} \cup {o.name}
    BY <1>3, <1>a, <2>1
  <2> QED  BY <1>3, <1>6, <2>2
<1> QED  BY <1>4, <1>5, <1>6

LEMMA OpcodeRecords ==
  ASSUME IInv, GInv, CopyOpcode
  PROVE  GInv'
<1>1. PICK u \in 1..Len(src) : \E i \in Nat, n \in Names, c \in Opcode :
               Copied(u, i, src[u].code[i], n, c)
  BY OpcodeCopied
<1>2. PICK i \in Nat, n \in Names, c \in Opcode : Copied(u, i, src[u].code[i], n, c)
  BY <1>1
<1> DEFINE o == src[u].code[i]
<1>3. /\ pc = "out" /\ pc' \in {"out", "circular"} /\ u \in Nat
      /\ i \in 1..Len(src[u].code) /\ at = <<u, i>> /\ at' = <<u, i + 1>>
      /\ Len(pool) = u /\ Len(pool[u].code) = i - 1
      /\ n = IF "INCLUDE" \in OpTable(o.code) THEN Resolve(o.name) ELSE o.name
      /\ c.code = o.code /\ c.name = n
  BY <1>2 DEF Copied
<1>4. /\ Len(pool') = Len(pool) /\ pool'[u].code[i] = c
      /\ \A v \in 1..Len(pool) :
            /\ pool'[v].flags = pool[v].flags
            /\ Len(pool'[v].code) = IF v = u THEN Len(pool[v].code) + 1 ELSE Len(pool[v].code)
            /\ \A j \in 1..Len(pool[v].code) : pool'[v].code[j] = pool[v].code[j]
      /\ flags' = FlagsAfter(o)
  BY <1>2 DEF Copied
<1>5. o.code \in Fetches => ~Jumps(o) /\ "FETCH_OUT" \in OpTable(o.code) /\ n = o.name
  BY <1>3 DEF Fetches, OpTable, Jumps
<1>6. jit = recording /\ UNCHANGED <<jit, recording>> /\ jit \in BOOLEAN
  BY <1>3, OpArrayConstants DEF GInv, CopyOpcode, IInv, TypeOK
<1>7. Recorded(pool[u], flags)
  BY <1>3 DEF GInv
<1>8. Recorded(pool'[u], flags')
  <2>1. "FETCH_OUT" \in OpTable(o.code) <=> o.code \in Fetches
    BY DEF OpTable, Fetches
  <2>2. Remembered(pool'[u]) =
            IF o.code \notin Fetches THEN Remembered(pool[u])
            ELSE IF o.name \in OtherNames THEN {}
            ELSE Remembered(pool[u]) \cup ({o.name} \cap JitNames)
    <3>1. Longer(pool[u], pool'[u], c)
      <4>1. /\ i - 1 \in Nat /\ (i - 1) + 1 = i /\ u \in 1..Len(pool)
            /\ Len(pool[u].code) = i - 1
        BY <1>3
      <4>2. Len(pool'[u].code) = Len(pool[u].code) + 1
        BY <1>4, <4>1
      <4> QED  BY <1>4, <4>1, <4>2 DEF Longer
    <3>2. RememberedThen(pool[u], pool'[u], c)
      <4>1. PICK q, m : q = pool[u] /\ m = pool'[u]
        OBVIOUS
      <4>2. RememberedThen(q, m, c)
        BY <3>1, <4>1, RememberedAfter
      <4> QED  BY <4>1, <4>2
    <3>3. Remembered(pool'[u]) =
            IF c.code \notin Fetches THEN Remembered(pool[u])
            ELSE IF c.name \in OtherNames THEN {}
            ELSE Remembered(pool[u]) \cup ({c.name} \cap JitNames)
      BY <3>2 DEF RememberedThen
    <3> QED  BY <1>3, <1>5, <3>3
  <2> HIDE DEF o
  <2>3. JitNames \cap (OtherNames \cup {"HAS_JUMPS", "UNKNOWN_GLOBAL"}) = {}
    BY OpArrayConstants
  <2>4. "UNKNOWN_GLOBAL" \notin flags'
    BY <1>4, <1>7, <2>3 DEF FlagsAfter, Recorded
  <2>5. flags \cap JitNames = IF recording THEN Remembered(pool[u]) ELSE {}
    BY <1>7 DEF Recorded
  <2>6. flags' \cap JitNames = IF recording THEN Remembered(pool'[u]) ELSE {}
    <3>1. CASE o.code \notin Fetches \/ ~recording
      <4>1. flags' \cap JitNames = flags \cap JitNames
        BY <1>4, <1>5, <1>6, <2>1, <2>3, <3>1 DEF FlagsAfter
      <4> QED  BY <2>2, <2>5, <3>1, <4>1
    <3>2. CASE o.code \in Fetches /\ recording /\ o.name \in OtherNames
      <4>1. flags' = flags \cap {"UNKNOWN_GLOBAL"}
        BY <1>4, <1>5, <1>6, <2>1, <2>3, <3>2 DEF FlagsAfter
      <4> QED  BY <2>2, <2>3, <3>2, <4>1
    <3>3. CASE o.code \in Fetches /\ recording /\ o.name \notin OtherNames
      <4>1. flags' = IF o.name \in JitNames THEN flags \cup {o.name} ELSE flags
        BY <1>4, <1>5, <1>6, <2>1, <3>3 DEF FlagsAfter
      <4> QED  BY <2>2, <2>5, <3>3, <4>1
    <3> QED  BY <3>1, <3>2, <3>3
  <2> QED  BY <1>6, <2>4, <2>6 DEF Recorded
<1> HIDE DEF o
<1>9. \A v \in 1..Len(pool) : v # u => Recorded(pool[v], pool[v].flags)
  BY <1>3 DEF GInv
<1>10. ASSUME NEW v \in 1..Len(pool), v # u PROVE Recorded(pool'[v], pool'[v].flags)
  <2>1. Remembered(pool'[v]) = Remembered(pool[v])
    <3>1. Len(pool'[v].code) = Len(pool[v].code)
          /\ \A j \in 1..Len(pool'[v].code) : pool'[v].code[j] = pool[v].code[j]
      BY <1>4, <1>10
    <3> QED  BY <3>1, SameRemembered
  <2> QED  BY <1>4, <1>9, <1>10, <2>1 DEF Recorded
<1>11. at'[1] = u
  BY <1>3
<1>12. \A v \in 1..Len(pool') : Recorded(pool[v], IF v = at[1] THEN flags ELSE pool[v].flags)'
  <2> SUFFICES ASSUME NEW v \in 1..Len(pool')
               PROVE  Recorded(pool[v], IF v = at[1] THEN flags ELSE pool[v].flags)'
    OBVIOUS
  <2>1. v \in 1..Len(pool)
    BY <1>4
  <2>2. CASE v = u
    BY <1>6, <1>8, <1>11, <2>2 DEF Recorded
  <2>3. CASE v # u
    BY <1>6, <1>10, <1>11, <2>1, <2>3 DEF Recorded
  <2> QED  BY <2>2, <2>3
<1> QED  BY <1>3, <1>6, <1>12 DEF GInv

LEMMA TailRecords ==
  ASSUME IInv, GInv, CopyTail
  PROVE  GInv'
<1>1. TypeOK /\ Progress
  BY DEF IInv
<1> DEFINE u == at[1]
           r == [pool[u] EXCEPT !.flags = flags]
<1>2. /\ pc = "out" /\ pc' = "out" /\ u \in 1..Len(src) /\ u \in Nat
      /\ at[2] = Len(src[u].code) + 1 /\ Len(src[u].code) \in Nat
      /\ pool' = [pool EXCEPT ![u] = r] /\ at' = <<u + 1, 0>>
  BY <1>1, UnitFacts DEF CopyTail, Unit, TypeOK, Progress
<1>3. Len(pool) = u
  <2>1. at[2] # 0 /\ at[1] = u
    BY <1>2
  <2> HIDE DEF u, r
  <2> QED  BY <1>1, <1>2, <2>1 DEF Progress
<1> HIDE DEF u
<1>4. r \in Copy /\ r.code = pool[u].code /\ r.flags = flags
  <2>1. pool[u] \in Copy /\ flags \in SUBSET Flags
    BY <1>1, <1>2, <1>3, UnitFacts DEF TypeOK
  <2> QED  BY <2>1 DEF Copy
<1> HIDE DEF r
<1>5. Len(pool') = Len(pool) /\ \A v \in 1..Len(pool) : pool'[v] = IF v = u THEN r ELSE pool[v]
  <2>1. /\ Len([pool EXCEPT ![u] = r]) = Len(pool)
        /\ \A v \in 1..Len(pool) : [pool EXCEPT ![u] = r][v] = IF v = u THEN r ELSE pool[v]
    BY <1>1, <1>2, <1>3, <1>4, SeqExcept DEF TypeOK
  <2> QED  BY <1>2, <2>1, Zenon
<1>6. \A v \in 1..Len(pool) : Recorded(pool[v], IF v = u THEN flags ELSE pool[v].flags)
  BY <1>2 DEF GInv, u
<1>7. ASSUME NEW v \in 1..Len(pool) PROVE Recorded(pool'[v], pool'[v].flags) /\ v # at'[1]
  <2>1. CASE v = u
    <3>1. Recorded(pool[u], flags) /\ pool'[u] = r
      BY <1>5, <1>6, <2>1
    <3>2. Remembered(r) = Remembered(pool[u])
      BY <1>4 DEF Remembered
    <3> QED  BY <1>2, <1>3, <1>4, <2>1, <3>1, <3>2 DEF Recorded
  <2>2. CASE v # u
    BY <1>2, <1>3, <1>5, <1>6, <2>2
  <2> QED  BY <2>1, <2>2
<1>9. UNCHANGED <<jit, recording>>
  BY DEF CopyTail
<1>8. \A v \in 1..Len(pool') : Recorded(pool[v], IF v = at[1] THEN flags ELSE pool[v].flags)'
  BY <1>5, <1>7, <1>9 DEF Recorded
<1> QED  BY <1>2, <1>8, <1>9 DEF GInv

LEMMA MovesRecord ==
  ASSUME IInv, GInv, Store \/ BeginLoad
  PROVE  GInv'
<1>1. TypeOK /\ Progress
  BY DEF IInv
<1>2. \E by \in Int : pool' = Moved(pool, by)
  <2>1. mem.pool \in Int
    BY <1>1 DEF TypeOK
  <2>2. CASE Store
    BY <2>1, <2>2 DEF Store
  <2>3. CASE BeginLoad
    <3>1. PICK b \in Bases : pool' = Moved(pool, b - mem.pool)
      BY <2>3 DEF BeginLoad
    <3> QED  BY <2>1, <3>1, OpArrayConstants
  <2> QED  BY <2>2, <2>3
<1>3. PICK by \in Int : pool' = Moved(pool, by)
  BY <1>2
<1>4. /\ Len(pool') = Len(pool)
      /\ \A u \in 1..Len(pool) :
            /\ pool'[u].flags = pool[u].flags /\ Len(pool'[u].code) = Len(pool[u].code)
            /\ \A i \in 1..Len(pool[u].code) :
                  /\ pool'[u].code[i].code = pool[u].code[i].code
                  /\ pool'[u].code[i].name = pool[u].code[i].name
  BY <1>1, <1>3, PoolMoved
<1>5. Len(pool) \in Nat /\ Len(src) \in Nat /\ at[1] \in Nat
  BY <1>1, UnitFacts DEF TypeOK
<1>6. \A u \in 1..Len(pool) : Recorded(pool[u], pool[u].flags)
  <2>1. CASE Store
    <3>1. pc = "out" /\ at[1] > Len(src)
      BY <2>1 DEF Store
    <3>2. \A u \in 1..Len(pool) : u # at[1]
      BY <1>1, <1>5, <3>1 DEF Progress
    <3> QED  BY <3>1, <3>2 DEF GInv
  <2>2. CASE BeginLoad
    BY <2>2 DEF BeginLoad, GInv
  <2> QED  BY <2>1, <2>2
<1>7. ASSUME NEW u \in 1..Len(pool) PROVE Recorded(pool'[u], pool'[u].flags)
  <2>1. Remembered(pool'[u]) = Remembered(pool[u])
    BY <1>4, SameRemembered
  <2> QED  BY <1>4, <1>6, <2>1 DEF Recorded
<1>11. UNCHANGED recording
  BY DEF Store, BeginLoad
<1>8. \A u \in 1..Len(pool') : Recorded(pool[u], pool[u].flags)'
  BY <1>4, <1>7, <1>11 DEF Recorded
<1>9. pc' = "in" => armed' = {} /\ \A u \in 1..Len(pool') : ~(u > at'[1])
  <2>1. pc' = "stored" \/ (armed' = {} /\ at' = <<Len(pool), 0>>)
    BY Zenon DEF Store, BeginLoad
  <2> QED  BY <1>4, <1>5, <2>1
<1>10. pc' \in {"stored", "in"}
  BY DEF Store, BeginLoad
<1> QED  BY <1>8, <1>9, <1>10 DEF GInv

LEMMA CopyInArms ==
  ASSUME IInv, GInv, CopyIn
  PROVE  GInv'
<1>1. /\ pc = "in" /\ at[1] \in Nat /\ at[1] > 0 /\ at' = <<at[1] - 1, 0>>
      /\ armed' = armed \cup AutoGlobals(pool[at[1]]) /\ pool' = pool
      /\ pc' \in {"in", "loaded"}
  BY DEF CopyIn, IInv, TypeOK
<1>2. at[1] \in 1..Len(pool) /\ Len(pool) \in Nat
  BY <1>1, UnitFacts DEF IInv, TypeOK, LoadOK, Progress
<1>3. AutoGlobals(pool[at[1]]) = pool[at[1]].flags \cap JitNames
  BY <1>1, <1>2 DEF AutoGlobals, GInv, Recorded
<1>4. armed' = UNION {pool[u].flags \cap JitNames : u \in {v \in 1..Len(pool) : v > at'[1]}}
  <2>1. {v \in 1..Len(pool) : v > at'[1]} = {v \in 1..Len(pool) : v > at[1]} \cup {at[1]}
    BY <1>1, <1>2
  <2>2. armed = UNION {pool[u].flags \cap JitNames : u \in {v \in 1..Len(pool) : v > at[1]}}
    BY <1>1 DEF GInv
  <2> QED  BY <1>1, <1>3, <2>1, <2>2
<1>5. UNCHANGED recording
  BY DEF CopyIn
<1>6. \A u \in 1..Len(pool') : Recorded(pool[u], pool[u].flags)'
  BY <1>1, <1>5 DEF GInv, Recorded
<1> QED  BY <1>1, <1>4, <1>6 DEF GInv

\* A request that loads a file gets the autoglobals that are remembered of its op arrays,
\* and no others: those it fetches by a name with a flag bit, and with no name of another
\* extension after it, if the file was compiled with auto_globals_jit.
THEOREM LoadingArms == Spec => []AutoglobalsArmed
<1>1. Init => GInv
  <2> SUFFICES ASSUME Init PROVE GInv
    OBVIOUS
  <2>1. pc = "out" /\ pool = <<>> /\ jit = recording
    BY DEF Init
  <2> QED  BY <2>1 DEF GInv
<1>2. IInv /\ GInv /\ [Next]_vars => GInv'
  <2> SUFFICES ASSUME IInv, GInv, [Next]_vars PROVE GInv'
    OBVIOUS
  <2>1. CASE Overflow
    <3>1. pc = "out" /\ pc' = "out" /\ pool' = <<>> /\ UNCHANGED <<jit, recording>>
      BY <2>1 DEF Overflow
    <3> QED  BY <3>1 DEF GInv
  <2>2. CASE UNCHANGED vars
    BY <2>2 DEF vars, GInv, Recorded
  <2> QED  BY <2>1, <2>2, HeadsRecord, OpcodeRecords, TailRecords, MovesRecord, CopyInArms
           DEF Next
<1>3. IInv /\ GInv => AutoglobalsArmed
  <2> SUFFICES ASSUME IInv, GInv, pc = "loaded"
               PROVE  armed = IF recording THEN UNION {Remembered(src[u]) : u \in 1..Len(src)} ELSE {}
    BY DEF AutoglobalsArmed
  <2>1. Len(pool) = Len(src) /\ at[1] = 0 /\ Len(src) \in Nat
    BY UnitFacts DEF IInv, Progress, LoadOK
  <2>2. ASSUME NEW u \in 1..Len(src)
        PROVE  pool[u].flags \cap JitNames = IF recording THEN Remembered(src[u]) ELSE {}
    <3>1. Len(pool[u].code) = Len(src[u].code)
      BY <2>1 DEF IInv, Progress, Whole
    <3>2. \A i \in 1..Len(pool[u].code) : CopyOf(pool[u].code[i], src[u].code[i], mem.pool)
      BY <2>1, <3>1 DEF IInv, PoolOK
    <3>3. Remembered(pool[u]) = Remembered(src[u])
      BY <3>1, <3>2, SameRemembered DEF CopyOf
    <3> QED  BY <2>1, <3>3 DEF GInv, Recorded
  <2>3. {v \in 1..Len(pool) : v > at[1]} = 1..Len(src)
    BY <2>1
  <2>4. armed = UNION {pool[u].flags \cap JitNames : u \in 1..Len(src)}
    BY <2>3 DEF GInv
  <2> QED  BY <2>2, <2>4
<1> QED  BY <1>1, <1>2, <1>3, Invariance, PTL DEF Spec

-----------------------------------------------------------------------------
(* Files with classes: when the countdown that nothing resets is enough.   *)

\* M bounds what is spent of the countdown when a unit has been copied: by the last
\* opcode of an op array, and by all the members up to the next op array.
Spends(s, M) ==
    /\ M \in [1..Len(s) -> Nat]
    /\ 1 \in 1..Len(s) => s[1].kind = "code"
    /\ \A u \in 1..Len(s) :
          /\ s[u].kind = "code" =>
                /\ Len(s[u].code) > 0 /\ s[u].code[Len(s[u].code)].zvals <= M[u]
                /\ s[u].table # <<>> => ~(Zvals(s[u].table) > Countdown)
                /\ \A i \in 1..Len(s[u].code) : s[u].code[i].zvals <= Countdown
          /\ s[u].kind = "members" =>
                /\ Zvals(s[u].table) \in Nat
                /\ M[u - 1] + Zvals(s[u].table) <= M[u] /\ M[u] <= Countdown

Budget(M) ==
    /\ pc # "circular"
    /\ pc = "out" =>
        /\ at[2] = 0 /\ at[1] > 1 => left \in Int /\ left >= Countdown - M[at[1] - 1]
        /\ at[2] # 0 /\ at[2] = Len(src[at[1]].code) + 1 =>
              left = Countdown - src[at[1]].code[at[2] - 1].zvals

LEMMA SpendsOfFile ==
  ASSUME NEW f \in Files, NEW p \in Procs, FromFile(f, p), NEW M, Spends(f, M)
  PROVE  Spends(src, M)
<1>1. Len(src) = Len(f)
  BY DEF FromFile
<1>2. M \in [1..Len(src) -> Nat] /\ (1 \in 1..Len(src) => src[1].kind = "code")
  BY <1>1 DEF Spends, FromFile
<1>3. ASSUME NEW u \in 1..Len(f)
      PROVE  /\ src[u].kind = f[u].kind /\ src[u].table = f[u].table
             /\ Len(src[u].code) = Len(f[u].code)
             /\ \A i \in 1..Len(f[u].code) : src[u].code[i].zvals = f[u].code[i].zvals
  BY DEF FromFile
<1>4. \A u \in 1..Len(f) : Len(f[u].code) \in Nat
  <2> SUFFICES ASSUME NEW u \in 1..Len(f) PROVE Len(f[u].code) \in Nat
    OBVIOUS
  <2>1. src[u] \in Compile
    BY <1>1 DEF FromFile
  <2>2. src[u].code \in Seq(Opcode)
    BY <2>1 DEF Compile
  <2> QED  BY <1>3, <2>2
<1>5. ASSUME NEW u \in 1..Len(f), f[u].kind = "code"
      PROVE  /\ Len(src[u].code) > 0 /\ src[u].code[Len(src[u].code)].zvals <= M[u]
             /\ src[u].table # <<>> => ~(Zvals(src[u].table) > Countdown)
             /\ \A i \in 1..Len(src[u].code) : src[u].code[i].zvals <= Countdown
  <2>1. Len(f[u].code) \in 1..Len(f[u].code)
    BY <1>4, <1>5 DEF Spends
  <2> QED  BY <1>3, <1>5, <2>1 DEF Spends
<1>6. ASSUME NEW u \in 1..Len(f), f[u].kind = "members"
      PROVE  /\ Zvals(src[u].table) \in Nat
             /\ M[u - 1] + Zvals(src[u].table) <= M[u] /\ M[u] <= Countdown
  BY <1>3, <1>6 DEF Spends
<1> QED  BY <1>1, <1>2, <1>3, <1>5, <1>6 DEF Spends

LEMMA SpendsKept ==
  ASSUME IInv, SourceKept, NEW M, Spends(src, M)
  PROVE  Spends(src', M)
<1>1. Len(src') = Len(src)
  BY DEF SourceKept
<1>2. M \in [1..Len(src') -> Nat] /\ (1 \in 1..Len(src') => src'[1].kind = "code")
  BY <1>1 DEF Spends, SourceKept
<1>3. ASSUME NEW u \in 1..Len(src)
      PROVE  /\ src'[u].kind = src[u].kind /\ src'[u].table = src[u].table
             /\ Len(src'[u].code) = Len(src[u].code) /\ Len(src[u].code) \in Nat
             /\ \A i \in 1..Len(src[u].code) : src'[u].code[i].zvals = src[u].code[i].zvals
  BY UnitFacts DEF IInv, SourceKept
<1>4. ASSUME NEW u \in 1..Len(src), src[u].kind = "code"
      PROVE  /\ Len(src'[u].code) > 0 /\ src'[u].code[Len(src'[u].code)].zvals <= M[u]
             /\ src'[u].table # <<>> => ~(Zvals(src'[u].table) > Countdown)
             /\ \A i \in 1..Len(src'[u].code) : src'[u].code[i].zvals <= Countdown
  <2>1. Len(src[u].code) \in 1..Len(src[u].code)
    BY <1>3, <1>4 DEF Spends
  <2> QED  BY <1>3, <1>4, <2>1 DEF Spends
<1>5. ASSUME NEW u \in 1..Len(src), src[u].kind = "members"
      PROVE  /\ Zvals(src'[u].table) \in Nat
             /\ M[u - 1] + Zvals(src'[u].table) <= M[u] /\ M[u] <= Countdown
  BY <1>3, <1>5 DEF Spends
<1> QED  BY <1>1, <1>2, <1>3, <1>4, <1>5 DEF Spends

LEMMA BudgetKept ==
  ASSUME IInv, [Next]_vars, NEW M, Spends(src, M), Budget(M)
  PROVE  Budget(M)'
<1>1. TypeOK /\ Progress /\ Len(src) \in Nat /\ at \in Nat \X Nat /\ Countdown \in Nat
  BY UnitFacts, OpArrayConstants DEF IInv, TypeOK
<1>2. M \in [1..Len(src) -> Nat]
  BY DEF Spends
<1>3. CASE CopyHead
  <2>1. at[1] \in 1..Len(src) /\ src[at[1]].kind = "code" /\ src' = src /\ at' = <<at[1], 1>> /\ pc = "out"
    BY <1>1, <1>3 DEF CopyHead, Progress, Unit
  <2>2. Len(src[at[1]].code) \in Nat /\ Len(src[at[1]].code) > 0
        /\ (src[at[1]].table # <<>> => ~(Zvals(src[at[1]].table) > Countdown))
    <3>1. src[at[1]].table # <<>> => ~(Zvals(src[at[1]].table) > Countdown)
      BY <2>1 DEF Spends
    <3>2. Len(src[at[1]].code) \in Nat /\ Len(src[at[1]].code) > 0
      BY <1>1, <2>1, UnitFacts DEF Spends
    <3> QED  BY <3>1, <3>2
  <2>3. pc' = "out"
    BY <1>3, <2>2 DEF CopyHead, CopyZvals, Unit
  <2>4. at'[1] = at[1] /\ at'[2] = 1
    BY <2>1
  <2> QED  BY <2>1, <2>2, <2>3, <2>4 DEF Budget
<1>4. CASE CopyOpcode
  <2>1. PICK u \in 1..Len(src) : \E i \in Nat, n \in Names, c \in Opcode :
                 Copied(u, i, src[u].code[i], n, c)
    BY <1>4, OpcodeCopied
  <2>2. PICK i \in Nat, n \in Names, c \in Opcode : Copied(u, i, src[u].code[i], n, c)
    BY <2>1
  <2>3. i \in 1..Len(src[u].code) /\ at = <<u, i>> /\ at' = <<u, i + 1>> /\ src[u].kind = "code"
    BY <2>2 DEF Copied
  <2>4. src[u].code[i].zvals \in Nat /\ src[u].code[i].zvals <= Countdown
    <3>1. src[u].code[i] \in Opcode
      BY <2>2 DEF Copied
    <3> QED  BY <2>3, <3>1 DEF Opcode, Spends
  <2>5. pc' = "out" /\ left' = Countdown - src[u].code[i].zvals
    <3>1. CopyZvals(Countdown, src[u].code[i].zvals)
      BY <1>4, <2>3 DEF CopyOpcode, Unit
    <3> QED  BY <1>1, <2>4, <3>1 DEF CopyZvals
  <2>6. src'[u].code[i].zvals = src[u].code[i].zvals
    BY <2>3, StepKeepsSource DEF SourceKept
  <2>7. at'[1] = u /\ at'[2] = i + 1 /\ at'[2] - 1 = i /\ at'[2] # 0
    BY <2>3
  <2> QED  BY <2>5, <2>6, <2>7 DEF Budget
<1>5. CASE CopyTail
  <2>1. /\ pc = "out" /\ pc' = "out" /\ at[1] \in 1..Len(src) /\ src[at[1]].kind = "code"
        /\ at[2] = Len(src[at[1]].code) + 1 /\ at' = <<at[1] + 1, 0>> /\ left' = left
    BY <1>1, <1>5 DEF CopyTail, Progress, Unit
  <2>2. Len(src[at[1]].code) \in Nat /\ Len(src[at[1]].code) > 0
    BY <1>1, <2>1, UnitFacts DEF Spends
  <2>3. at[2] # 0 /\ at[2] - 1 = Len(src[at[1]].code)
    BY <2>1, <2>2
  <2>4. left = Countdown - src[at[1]].code[at[2] - 1].zvals
    BY <2>1, <2>3 DEF Budget
  <2>5. src[at[1]].code[at[2] - 1].zvals \in Nat
    <3>1. src[at[1]].code[at[2] - 1] \in Opcode
      BY <1>1, <2>1, <2>2, <2>3, UnitFacts
    <3> QED  BY <3>1 DEF Opcode
  <2>6. src[at[1]].code[at[2] - 1].zvals <= M[at[1]] /\ M[at[1]] \in Nat
    BY <1>2, <2>1, <2>3 DEF Spends
  <2>7. at'[1] - 1 = at[1] /\ at'[2] = 0
    BY <1>1, <2>1
  <2>8. left' \in Int /\ left' >= Countdown - M[at[1]]
    <3> DEFINE z == src[at[1]].code[at[2] - 1].zvals
               m == M[at[1]]
    <3>1. z \in Nat /\ m \in Nat /\ z <= m /\ left' = Countdown - z
      BY <2>1, <2>4, <2>5, <2>6
    <3> HIDE DEF z
    <3> QED  BY <1>1, <3>1
  <2> QED  BY <2>1, <2>7, <2>8 DEF Budget
<1>6. CASE CopyMembers
  <2> DEFINE u == at[1]
             n == Zvals(src[u].table)
  <2>1. /\ pc = "out" /\ u \in 1..Len(src) /\ src[u].kind = "members" /\ at[2] = 0
        /\ at' = <<u + 1, 0>>
    BY <1>1, <1>6 DEF CopyMembers, Progress, Unit
  <2>2. u # 1 /\ n \in Nat /\ M[u - 1] + n <= M[u] /\ M[u] <= Countdown
    <3>1. "code" # "members"
      OBVIOUS
    <3> QED  BY <2>1, <3>1 DEF Spends
  <2>3. M[u] \in Nat /\ M[u - 1] \in Nat /\ u > 1 /\ u \in Nat
    BY <1>1, <1>2, <2>1, <2>2
  <2>4. left \in Int /\ left >= Countdown - M[u - 1]
    BY <2>1, <2>3 DEF Budget
  <2>5. CopyZvals(left, n)
    BY <1>6 DEF CopyMembers, Unit
  <2> HIDE DEF n, u
  <2>6. pc' = "out" /\ left' = left - n
    BY SMTT(30), <1>1, <2>2, <2>3, <2>4, <2>5 DEF CopyZvals
  <2>7. left' \in Int /\ left' >= Countdown - M[u]
    BY SMTT(30), <1>1, <2>2, <2>3, <2>4, <2>6
  <2>8. at'[1] - 1 = u /\ at'[2] = 0
    BY <2>1, <2>3
  <2> QED  BY <2>6, <2>7, <2>8 DEF Budget
<1>7. CASE Overflow
  BY <1>7 DEF Overflow, Budget
<1>8. CASE Store \/ BeginLoad \/ CopyIn
  BY <1>8 DEF Store, BeginLoad, CopyIn, Budget
<1>9. CASE UNCHANGED vars
  BY <1>9 DEF vars, Budget
<1> QED  BY <1>3, <1>4, <1>5, <1>6, <1>7, <1>8, <1>9 DEF Next

\* No file is refused as circular whose opcodes fit the countdown one by one, and whose
\* class members up to the next op array fit what the last opcode before them left of it.
THEOREM ClassesThatFit ==
  ASSUME \A f \in Files : \E M : Spends(f, M)
  PROVE  Spec => [](pc # "circular")
<1> DEFINE LInv == \E M \in [1..Len(src) -> Nat] : Spends(src, M) /\ Budget(M)
<1>1. Init => LInv
  <2> SUFFICES ASSUME Init PROVE LInv
    OBVIOUS
  <2>1. PICK f \in Files, p \in Procs, b \in Bases : src = Compiled(f, p, b)
    BY DEF Init
  <2>2. FromFile(f, p)
    BY <2>1, CompiledFile
  <2>3. PICK M : Spends(f, M)
    OBVIOUS
  <2>4. Spends(src, M)
    BY <2>2, <2>3, SpendsOfFile
  <2>5. Budget(M)
    BY DEF Init, Budget
  <2>6. M \in [1..Len(src) -> Nat]
    BY <2>4 DEF Spends
  <2> QED  BY <2>4, <2>5, <2>6
<1>2. IInv /\ LInv /\ [Next]_vars => LInv'
  <2> SUFFICES ASSUME IInv, LInv, [Next]_vars PROVE LInv'
    OBVIOUS
  <2>1. PICK M \in [1..Len(src) -> Nat] : Spends(src, M) /\ Budget(M)
    OBVIOUS
  <2>2. Spends(src', M)
    BY <2>1, StepKeepsSource, SpendsKept
  <2>3. Budget(M)'
    BY <2>1, BudgetKept
  <2>4. M \in [1..Len(src') -> Nat]
    BY <2>2 DEF Spends
  <2> QED  BY <2>2, <2>3, <2>4
<1>3. LInv => pc # "circular"
  BY DEF Budget
<1> HIDE DEF LInv
<1> QED  BY <1>1, <1>2, <1>3, Invariance, PTL DEF Spec
=============================================================================
