------------------------- MODULE LPCClasses_proofs -------------------------
(***************************************************************************)
(* Proofs about the installation of classes and functions from the cache,  *)
(* for any files, classes, members and requests.                           *)
(***************************************************************************)
EXTENDS LPCClasses, SequenceTheorems, WellFoundedInduction, TLAPS

\* The numbers up to L, one by one.
LEMMA OneByOne ==
  ASSUME NEW L \in Nat, NEW S, 0 \in S, \A k \in 1..L : k - 1 \in S => k \in S
  PROVE  \A k \in 0..L : k \in S
<1> SUFFICES ASSUME NEW n \in 0..L, n \notin S PROVE FALSE
  OBVIOUS
<1> DEFINE T == {k \in 0..L : k \notin S}
           R == OpToRel(<, Nat)
<1>1. IsWellFoundedOn(R, Nat)
  BY NatLessThanWellFounded
<1>7. T \subseteq Nat /\ T # {}
  OBVIOUS
<1>2. \A x, y \in Nat : <<x, y>> \in R <=> x < y
  BY DEF OpToRel
<1> HIDE DEF R, T
<1>3. PICK x \in T : \A y \in T : ~(<<y, x>> \in R)
  BY <1>1, <1>7, WFMin
<1>4. x \in 1..L /\ x \notin S
  BY DEF T
<1>5. x - 1 \in 0..L /\ x - 1 < x /\ x - 1 \in Nat /\ x \in Nat
  BY <1>4
<1>6. x - 1 \notin T
  BY <1>2, <1>3, <1>5
<1> QED  BY <1>4, <1>5, <1>6 DEF T

-----------------------------------------------------------------------------
(* The classes of a file, one by one.                                      *)

LEMMA Bodies ==
  ASSUME NEW f \in Files
  PROVE  /\ Len(Body[f]) \in Nat
         /\ ClassesOf(f) \subseteq 1..Len(Body[f])
         /\ \A i \in ClassesOf(f) :
               /\ Body[f][i].name \in Classes /\ Body[f][i].parent \in Classes \cup {None}
               /\ Body[f][i].cond \in BOOLEAN /\ Body[f][i].own \subseteq Members
               /\ <<f, i>> \in Ids
<1>1. Body[f] \in Seq(Statement)
  BY ClassConstants
<1>2. Len(Body[f]) \in Nat /\ \A i \in 1..Len(Body[f]) : Body[f][i] \in Statement
  BY <1>1
<1>3. ClassesOf(f) \subseteq 1..Len(Body[f])
  BY DEF ClassesOf, Statements
<1>4. ASSUME NEW i \in ClassesOf(f)
      PROVE  /\ Body[f][i].name \in Classes /\ Body[f][i].parent \in Classes \cup {None}
             /\ Body[f][i].cond \in BOOLEAN /\ Body[f][i].own \subseteq Members
             /\ <<f, i>> \in Ids
  <2>1. Body[f][i] \in Statement /\ Body[f][i].op = "class"
    BY <1>2 DEF ClassesOf, Statements
  <2>2. Body[f][i] \in [op : {"class"}, name : Classes, parent : Classes \cup {None},
                        cond : BOOLEAN, own : SUBSET Members]
    BY <2>1 DEF Statement
  <2>3. <<f, i>> \in Ids
    BY DEF Ids, ClassesOf
  <2> QED  BY <2>2, <2>3
<1> QED  BY <1>2, <1>3, <1>4

\* How the compiler goes through a file.
CompileStep(r, f, k) == IF k \in ClassesOf(f) THEN CompileClass(r, f, k) ELSE r

LEMMA CompiledSteps ==
  ASSUME NEW e, NEW f \in Files
  PROVE  /\ Compiled(e, f)[0] = [e |-> e, bound |-> {}]
         /\ \A k \in 1..Len(Body[f]) :
               Compiled(e, f)[k] = CompileStep(Compiled(e, f)[k - 1], f, k)
<1> DEFINE L == Len(Body[f])
           b == [e |-> e, bound |-> {}]
           S == {n \in 0..L : \E g : g = [k \in 0..n |-> IF k = 0 THEN b ELSE CompileStep(g[k-1], f, k)]}
<1>1. L \in Nat
  BY Bodies
<1>2. 0 \in S
  <2> DEFINE h == [k \in 0..0 |-> b]
  <2> HIDE DEF b
  <2>1. h = [k \in 0..0 |-> IF k = 0 THEN b ELSE CompileStep(h[k-1], f, k)]
    OBVIOUS
  <2>2. 0 \in 0..L
    BY <1>1
  <2> HIDE DEF h
  <2> QED  BY <2>1, <2>2
<1>3. ASSUME NEW n \in 1..L, n - 1 \in S PROVE n \in S
  <2>1. PICK g : g = [k \in 0..(n-1) |-> IF k = 0 THEN b ELSE CompileStep(g[k-1], f, k)]
    BY <1>3
  <2> DEFINE h == [k \in 0..n |-> IF k < n THEN g[k] ELSE CompileStep(g[n-1], f, n)]
  <2> HIDE DEF b
  <2>2. ASSUME NEW k \in 0..n PROVE h[k] = IF k = 0 THEN b ELSE CompileStep(h[k-1], f, k)
    <3>1. CASE k = 0
      BY <1>1, <2>1, <3>1
    <3>2. CASE k > 0 /\ k < n
      <4>1. k - 1 \in 0..n /\ k - 1 < n /\ k \in 0..(n-1)
        BY <1>1, <3>2
      <4> QED  BY <2>1, <3>2, <4>1
    <3>3. CASE k = n
      <4>1. n - 1 \in 0..n /\ n - 1 < n /\ n # 0
        BY <1>1
      <4> QED  BY <3>3, <4>1
    <3> QED  BY <1>1, <3>1, <3>2, <3>3
  <2>3. h = [k \in 0..n |-> h[k]]
    OBVIOUS
  <2> HIDE DEF h
  <2>4. h = [k \in 0..n |-> IF k = 0 THEN b ELSE CompileStep(h[k-1], f, k)]
    BY <2>2, <2>3
  <2>5. n \in 0..L
    BY <1>1
  <2> QED  BY <2>4, <2>5
<1>4. L \in S
  <2> HIDE DEF S
  <2>1. \A n \in 1..L : n - 1 \in S => n \in S
    BY <1>3
  <2>2. \A n \in 0..L : n \in S
    BY <1>1, <1>2, <2>1, OneByOne
  <2> QED  BY <1>1, <2>2
<1>5. PICK g : g = [k \in 0..L |-> IF k = 0 THEN b ELSE CompileStep(g[k-1], f, k)]
  BY <1>4
<1>6. Compiled(e, f) = CHOOSE x : x = [k \in 0..L |-> IF k = 0 THEN b ELSE CompileStep(x[k-1], f, k)]
  BY DEF Compiled, CompileStep
<1> DEFINE c == Compiled(e, f)
<1>7. c = [k \in 0..L |-> IF k = 0 THEN b ELSE CompileStep(c[k-1], f, k)]
  <2> HIDE DEF b
  <2> QED  BY <1>5, <1>6
<1> HIDE DEF c, b
<1>8. c[0] = b /\ \A k \in 1..L : c[k] = CompileStep(c[k-1], f, k)
  <2>1. 0 \in 0..L /\ \A k \in 1..L : k \in 0..L /\ k # 0
    BY <1>1
  <2> QED  BY <1>7, <2>1
<1> QED  BY <1>8 DEF c, b

\* How the installation goes through the classes of a record.
InstallStep(r, f, k) == IF k \in ClassesOf(f) THEN InstallClass(r, f, k) ELSE r

LEMMA InstalledSteps ==
  ASSUME NEW e, NEW f \in Files
  PROVE  /\ Installed(e, f)[0] = [e |-> e, ok |-> TRUE]
         /\ \A k \in 1..Len(Body[f]) :
               Installed(e, f)[k] = InstallStep(Installed(e, f)[k - 1], f, k)
<1> DEFINE L == Len(Body[f])
           b == [e |-> e, ok |-> TRUE]
           S == {n \in 0..L : \E g : g = [k \in 0..n |-> IF k = 0 THEN b ELSE InstallStep(g[k-1], f, k)]}
<1>1. L \in Nat
  BY Bodies
<1>2. 0 \in S
  <2> DEFINE h == [k \in 0..0 |-> b]
  <2> HIDE DEF b
  <2>1. h = [k \in 0..0 |-> IF k = 0 THEN b ELSE InstallStep(h[k-1], f, k)]
    OBVIOUS
  <2>2. 0 \in 0..L
    BY <1>1
  <2> HIDE DEF h
  <2> QED  BY <2>1, <2>2
<1>3. ASSUME NEW n \in 1..L, n - 1 \in S PROVE n \in S
  <2>1. PICK g : g = [k \in 0..(n-1) |-> IF k = 0 THEN b ELSE InstallStep(g[k-1], f, k)]
    BY <1>3
  <2> DEFINE h == [k \in 0..n |-> IF k < n THEN g[k] ELSE InstallStep(g[n-1], f, n)]
  <2> HIDE DEF b
  <2>2. ASSUME NEW k \in 0..n PROVE h[k] = IF k = 0 THEN b ELSE InstallStep(h[k-1], f, k)
    <3>1. CASE k = 0
      BY <1>1, <2>1, <3>1
    <3>2. CASE k > 0 /\ k < n
      <4>1. k - 1 \in 0..n /\ k - 1 < n /\ k \in 0..(n-1)
        BY <1>1, <3>2
      <4> QED  BY <2>1, <3>2, <4>1
    <3>3. CASE k = n
      <4>1. n - 1 \in 0..n /\ n - 1 < n /\ n # 0
        BY <1>1
      <4> QED  BY <3>3, <4>1
    <3> QED  BY <1>1, <3>1, <3>2, <3>3
  <2>3. h = [k \in 0..n |-> h[k]]
    OBVIOUS
  <2> HIDE DEF h
  <2>4. h = [k \in 0..n |-> IF k = 0 THEN b ELSE InstallStep(h[k-1], f, k)]
    BY <2>2, <2>3
  <2>5. n \in 0..L
    BY <1>1
  <2> QED  BY <2>4, <2>5
<1>4. L \in S
  <2> HIDE DEF S
  <2>1. \A n \in 1..L : n - 1 \in S => n \in S
    BY <1>3
  <2>2. \A n \in 0..L : n \in S
    BY <1>1, <1>2, <2>1, OneByOne
  <2> QED  BY <1>1, <2>2
<1>5. PICK g : g = [k \in 0..L |-> IF k = 0 THEN b ELSE InstallStep(g[k-1], f, k)]
  BY <1>4
<1>6. Installed(e, f) = CHOOSE x : x = [k \in 0..L |-> IF k = 0 THEN b ELSE InstallStep(x[k-1], f, k)]
  BY DEF Installed, InstallStep
<1> DEFINE c == Installed(e, f)
<1>7. c = [k \in 0..L |-> IF k = 0 THEN b ELSE InstallStep(c[k-1], f, k)]
  <2> HIDE DEF b
  <2> QED  BY <1>5, <1>6
<1> HIDE DEF c, b
<1>8. c[0] = b /\ \A k \in 1..L : c[k] = InstallStep(c[k-1], f, k)
  <2>1. 0 \in 0..L /\ \A k \in 1..L : k \in 0..L /\ k # 0
    BY <1>1
  <2> QED  BY <1>7, <2>1
<1> QED  BY <1>8 DEF c, b

-----------------------------------------------------------------------------
(* The tables of a request.                                                *)

Env == [classes : [Classes -> Decl \cup {None}], mangled : SUBSET [id : Ids, entry : Entry],
        funcs : SUBSET Functions, fatal : BOOLEAN]

\* The fields of the magic methods that the copy-in finds are the same.
Fields(c, d) == \A m \in Matched : c.slots[m] = d.slots[m]

\* A class is what its statement declares, and for the rest what its parent is; the
\* members in its table are of classes that are there, and none of its parent's is
\* its own.  Of the fields of magic methods that holds as far as the copy-in finds
\* them.
FromParent(d, p, n, f, i) ==
    /\ d.id = <<f, i>> /\ Body[f][i].name = n /\ d.parent = Body[f][i].parent
    /\ d.parent = None => /\ d.base = None /\ d.entry.table = Declared(f, i).table
                          /\ Fields(d.entry, Declared(f, i))
    /\ d.parent # None => /\ d.parent # n /\ p.id = d.base
                          /\ d.entry.table = Inherit(Declared(f, i), p.entry).table
                          /\ Fields(d.entry, Inherit(Declared(f, i), p.entry))
                          /\ \A m \in Members : p.entry.table[m] # d.id

ClassIs(e, n, f, i) ==
    LET d == e.classes[n]
    IN  /\ FromParent(d, e.classes[d.parent], n, f, i)
        /\ d.parent # None => Has(e, d.parent)
        /\ \A m \in Members : d.entry.table[m] # None =>
              \E k \in Classes : Has(e, k) /\ e.classes[k].id = d.entry.table[m]

ClassOK(e, n) == \E f \in Files : \E i \in ClassesOf(f) : ClassIs(e, n, f, i)

\* A mangled name holds what its statement declares; so do the fields for the magic
\* methods that the copy-in finds.
MangledOK(m) ==
    \E f \in Files : \E i \in ClassesOf(f) :
        /\ m.id = <<f, i>> /\ m.entry.table = Declared(f, i).table
        /\ Fields(m.entry, Declared(f, i))

Sound(e) ==
    /\ e \in Env
    /\ \A n \in Classes : Has(e, n) => ClassOK(e, n)
    /\ \A m \in e.mangled : MangledOK(m)

LEMMA DeclaredIs ==
  ASSUME NEW f \in Files, NEW i \in ClassesOf(f)
  PROVE  /\ Declared(f, i) \in Entry
         /\ Declared(f, i).table = [m \in Members |-> IF m \in Body[f][i].own THEN <<f, i>> ELSE None]
         /\ Declared(f, i).slots = [m \in Magic |-> IF m \in Body[f][i].own THEN <<f, i>> ELSE None]
BY Bodies DEF Declared, Entry, Table

LEMMA InheritIs ==
  ASSUME NEW c \in Entry, NEW d \in Entry
  PROVE  /\ Inherit(c, d) \in Entry
         /\ Inherit(c, d).table = [m \in Members |-> IF c.table[m] = None THEN d.table[m] ELSE c.table[m]]
         /\ Inherit(c, d).slots = [m \in Magic |-> IF c.slots[m] = None THEN d.slots[m] ELSE c.slots[m]]
BY DEF Inherit, Entry, Table

LEMMA InheritFields ==
  ASSUME NEW c \in Entry, NEW d \in Entry, Fields(c, d),
         NEW p \in Entry, NEW q \in Entry, Fields(p, q)
  PROVE  Fields(Inherit(c, p), Inherit(d, q))
<1>1. Matched \subseteq Magic
  BY ClassConstants
<1>2. /\ Inherit(c, p).slots = [m \in Magic |-> IF c.slots[m] = None THEN p.slots[m] ELSE c.slots[m]]
      /\ Inherit(d, q).slots = [m \in Magic |-> IF d.slots[m] = None THEN q.slots[m] ELSE d.slots[m]]
  BY InheritIs
<1> QED  BY <1>1, <1>2 DEF Fields

\* What is read back of a stored class has the table that was stored, and the fields of
\* those magic methods that are found.
LEMMA CopyInIs ==
  ASSUME NEW c \in [bound : BOOLEAN, table : Table]
  PROVE  /\ CopyIn(c) \in Entry /\ CopyIn(c).table = c.table
         /\ \A f \in Files : \A i \in ClassesOf(f) :
               c.table = Declared(f, i).table => Fields(CopyIn(c), Declared(f, i))
<1>1. Magic \subseteq Members /\ Matched \subseteq Magic
  BY ClassConstants
<1>2. CopyIn(c) \in Entry /\ CopyIn(c).table = c.table
      /\ CopyIn(c).slots = [m \in Magic |-> IF m \in Matched THEN c.table[m] ELSE None]
  BY <1>1 DEF CopyIn, Entry, Table
<1>3. ASSUME NEW f \in Files, NEW i \in ClassesOf(f), c.table = Declared(f, i).table
      PROVE  Fields(CopyIn(c), Declared(f, i))
  <2> DEFINE D == Declared(f, i)
  <2>1. D.table = [m \in Members |-> IF m \in Body[f][i].own THEN <<f, i>> ELSE None]
        /\ D.slots = [m \in Magic |-> IF m \in Body[f][i].own THEN <<f, i>> ELSE None]
    BY DeclaredIs
  <2> HIDE DEF D
  <2>2. \A m \in Matched : D.table[m] = D.slots[m] /\ CopyIn(c).slots[m] = c.table[m]
    BY <1>1, <1>2, <2>1
  <2> QED  BY <1>3, <2>2 DEF Fields, D
<1> QED  BY <1>2, <1>3

\* The class a declaration puts under its name.
LEMMA BindIs ==
  ASSUME NEW e \in Env, NEW f \in Files, NEW i \in ClassesOf(f), NEW c \in Entry,
         CanInherit(e, f, i)
  PROVE  \E d \in Decl :
            LET p == Body[f][i].parent
                b == Bind(e, f, i, c)
            IN  /\ b \in Env /\ b.classes = [e.classes EXCEPT ![Body[f][i].name] = d]
                /\ b.mangled = e.mangled /\ b.funcs = e.funcs /\ b.fatal = e.fatal
                /\ d.id = <<f, i>> /\ d.parent = p
                /\ p = None => d.entry = c /\ d.base = None
                /\ p # None => /\ e.classes[p] \in Decl /\ d.base = e.classes[p].id
                               /\ d.entry = Inherit(c, e.classes[p].entry)
<1> DEFINE p == Body[f][i].parent
           n == Body[f][i].name
           d0 == [id |-> <<f, i>>, parent |-> p, base |-> None, entry |-> c]
           d == IF p = None THEN d0
                ELSE [d0 EXCEPT !.base = e.classes[p].id, !.entry = Inherit(c, e.classes[p].entry)]
<1>1. n \in Classes /\ p \in Classes \cup {None} /\ <<f, i>> \in Ids
  BY Bodies
<1>2. p # None => e.classes[p] \in Decl
  BY <1>1 DEF CanInherit, Has, Env
<1>3. p # None => e.classes[p].id \in Ids /\ Inherit(c, e.classes[p].entry) \in Entry
  BY <1>2, InheritIs DEF Decl
<1>4. /\ d \in Decl /\ d.id = <<f, i>> /\ d.parent = p
      /\ p = None => d.entry = c /\ d.base = None
      /\ p # None => d.base = e.classes[p].id /\ d.entry = Inherit(c, e.classes[p].entry)
  BY <1>1, <1>3 DEF Decl
<1>5. Bind(e, f, i, c) = [e EXCEPT !.classes[n] = d]
  BY DEF Bind
<1> HIDE DEF d, n, p
<1>6. /\ [e EXCEPT !.classes[n] = d] \in Env
      /\ [e EXCEPT !.classes[n] = d].classes = [e.classes EXCEPT ![n] = d]
      /\ [e EXCEPT !.classes[n] = d].mangled = e.mangled
      /\ [e EXCEPT !.classes[n] = d].funcs = e.funcs
      /\ [e EXCEPT !.classes[n] = d].fatal = e.fatal
  BY <1>1, <1>4 DEF Env
<1> QED  BY <1>2, <1>4, <1>5, <1>6 DEF n, p

\* What a declaration keeps of the tables.
Keeps(e, x) ==
    /\ \A n \in Classes : Has(e, n) => x.classes[n] = e.classes[n]
    /\ e.mangled \subseteq x.mangled

LEMMA KeepsHas ==
  ASSUME NEW e, NEW x, Keeps(e, x)
  PROVE  \A n \in Classes : Has(e, n) => Has(x, n)
BY DEF Keeps, Has

LEMMA ClassIsKept ==
  ASSUME NEW e, NEW x, NEW n \in Classes, Has(e, n),
         \A k \in Classes : Has(e, k) => Has(x, k) /\ x.classes[k] = e.classes[k],
         NEW f \in Files, NEW i \in ClassesOf(f), ClassIs(e, n, f, i)
  PROVE  ClassIs(x, n, f, i)
<1> DEFINE d == e.classes[n]
<1>1. x.classes[n] = d
  OBVIOUS
<1>2. d.parent = Body[f][i].parent
  BY DEF ClassIs, FromParent
<1>3. d.parent \in Classes \cup {None}
  BY <1>2, Bodies
<1>4. d.parent # None => Has(e, d.parent)
  BY DEF ClassIs
<1>5. d.parent # None => Has(x, d.parent) /\ x.classes[d.parent] = e.classes[d.parent]
  BY <1>3, <1>4
<1>6. \A m \in Members : d.entry.table[m] # None =>
         \E k \in Classes : Has(x, k) /\ x.classes[k].id = d.entry.table[m]
  BY DEF ClassIs
<1>7. FromParent(d, e.classes[d.parent], n, f, i)
  BY DEF ClassIs
<1>8. FromParent(x.classes[n], x.classes[x.classes[n].parent], n, f, i)
  <2>1. CASE d.parent = None
    <3>1. \A p : FromParent(d, e.classes[d.parent], n, f, i) => FromParent(d, p, n, f, i)
      BY <2>1 DEF FromParent
    <3> QED  BY <1>1, <1>7, <3>1
  <2>2. CASE d.parent # None
    BY <1>1, <1>5, <1>7, <2>2
  <2> QED  BY <2>1, <2>2
<1> QED  BY <1>1, <1>5, <1>6, <1>8 DEF ClassIs

\* A class declared from what its statement declares, under a name that is free, is
\* as it should be, and so are the others still.
LEMMA BindKeepsSound ==
  ASSUME NEW e, Sound(e), NEW f \in Files, NEW i \in ClassesOf(f), NEW c \in Entry,
         c.table = Declared(f, i).table, Fields(c, Declared(f, i)),
         CanInherit(e, f, i), ~Has(e, Body[f][i].name)
  PROVE  LET b == Bind(e, f, i, c)
             n == Body[f][i].name
         IN  /\ Sound(b) /\ Keeps(e, b) /\ b.mangled = e.mangled
             /\ b.funcs = e.funcs /\ b.fatal = e.fatal
             /\ Has(b, n) /\ b.classes[n].id = <<f, i>>
             /\ \A k \in Classes : k # n => b.classes[k] = e.classes[k]
<1> DEFINE b == Bind(e, f, i, c)
           n == Body[f][i].name
           p == Body[f][i].parent
<1>1. e \in Env /\ n \in Classes /\ p \in Classes \cup {None} /\ <<f, i>> \in Ids
  BY Bodies DEF Sound
<1>2. PICK d \in Decl :
         /\ b \in Env /\ b.classes = [e.classes EXCEPT ![n] = d]
         /\ b.mangled = e.mangled /\ b.funcs = e.funcs /\ b.fatal = e.fatal
         /\ d.id = <<f, i>> /\ d.parent = p
         /\ p = None => d.entry = c /\ d.base = None
         /\ p # None => /\ e.classes[p] \in Decl /\ d.base = e.classes[p].id
                        /\ d.entry = Inherit(c, e.classes[p].entry)
  BY <1>1, BindIs
<1>3. d # None /\ ~Has(e, n) /\ (p # None => Has(e, p) /\ p # n)
  BY NoneIsNone DEF CanInherit
<1> HIDE DEF b, n, p
<1>4. /\ b.classes[n] = d /\ Has(b, n)
      /\ \A k \in Classes : k # n => b.classes[k] = e.classes[k]
      /\ \A k \in Classes : Has(e, k) => Has(b, k) /\ b.classes[k] = e.classes[k]
  BY <1>1, <1>2, <1>3 DEF Has, Env
<1>5. ASSUME NEW k \in Classes, Has(e, k) PROVE ClassOK(b, k)
  <2>1. PICK g, j : g \in Files /\ j \in ClassesOf(g) /\ ClassIs(e, k, g, j)
    BY <1>5 DEF Sound, ClassOK
  <2>2. ClassIs(b, k, g, j)
    BY <1>4, <1>5, <2>1, ClassIsKept
  <2> QED  BY <2>1, <2>2 DEF ClassOK
<1>6. ASSUME p # None
      PROVE  /\ \A m \in Members : e.classes[p].entry.table[m] # <<f, i>>
             /\ \A m \in Members : e.classes[p].entry.table[m] # None =>
                   \E k \in Classes : Has(e, k) /\ e.classes[k].id = e.classes[p].entry.table[m]
  <2>1. PICK g, j : g \in Files /\ j \in ClassesOf(g) /\ ClassIs(e, p, g, j)
    BY <1>1, <1>3, <1>6 DEF Sound, ClassOK
  <2>2. \A m \in Members : e.classes[p].entry.table[m] # None =>
           \E k \in Classes : Has(e, k) /\ e.classes[k].id = e.classes[p].entry.table[m]
    BY <2>1 DEF ClassIs
  <2>3. ASSUME NEW k \in Classes, Has(e, k), e.classes[k].id = <<f, i>> PROVE FALSE
    <3>1. PICK g2, j2 : g2 \in Files /\ j2 \in ClassesOf(g2) /\ ClassIs(e, k, g2, j2)
      BY <2>3 DEF Sound, ClassOK
    <3>3. e.classes[k].id = <<g2, j2>> /\ Body[g2][j2].name = k
      BY <3>1 DEF ClassIs, FromParent
    <3>2. g2 = f /\ j2 = i /\ Body[g2][j2].name = k
      BY <2>3, <3>3
    <3> QED  BY <1>3, <2>3, <3>2 DEF n
  <2>4. <<f, i>> # None
    BY <1>1, NoneIsNone
  <2> QED  BY <2>2, <2>3, <2>4
<1> DEFINE D == Declared(f, i)
<1>11. D \in Entry /\ D.table = [m \in Members |-> IF m \in Body[f][i].own THEN <<f, i>> ELSE None]
  BY DeclaredIs
<1> HIDE DEF D
<1>7. D \in Entry /\ \A m \in Members : D.table[m] \in {<<f, i>>, None}
  BY <1>11
<1>8. ClassIs(b, n, f, i)
  <2>1. CASE p = None
    <3>1. \A m \in Members : d.entry.table[m] # None => d.entry.table[m] = <<f, i>>
      BY <1>2, <1>7, <2>1 DEF D
    <3>2. \A m \in Members : d.entry.table[m] # None =>
             \E k \in Classes : Has(b, k) /\ b.classes[k].id = d.entry.table[m]
      BY <1>1, <1>2, <1>4, <3>1
    <3> QED  BY <1>2, <1>4, <2>1, <3>2 DEF ClassIs, FromParent, n, p
  <2>2. CASE p # None
    <3> DEFINE q == e.classes[p].entry
    <3>1. q \in Entry /\ b.classes[p] = e.classes[p] /\ Has(b, p) /\ p \in Classes /\ p # n
      BY <1>1, <1>2, <1>3, <1>4, <2>2 DEF Decl
    <3> HIDE DEF q
    <3>9. Inherit(c, q).table = [m \in Members |-> IF c.table[m] = None THEN q.table[m] ELSE c.table[m]]
      BY <3>1, InheritIs
    <3>10. Inherit(D, q).table = [m \in Members |-> IF D.table[m] = None THEN q.table[m] ELSE D.table[m]]
      BY <1>7, <3>1, InheritIs
    <3>11. d.entry = Inherit(c, q)
      BY <1>2, <2>2 DEF q
    <3>2. /\ d.entry.table = [m \in Members |-> IF c.table[m] = None THEN q.table[m] ELSE c.table[m]]
          /\ Inherit(D, q).table = [m \in Members |-> IF D.table[m] = None THEN q.table[m] ELSE D.table[m]]
      BY <3>9, <3>10, <3>11
    <3>12. Fields(c, D) /\ Fields(q, q)
      BY DEF D, Fields
    <3>13. Fields(Inherit(c, q), Inherit(D, q))
      BY <1>7, <3>1, <3>12, InheritFields
    <3>14. d.entry.table = Inherit(D, q).table
      BY <3>2 DEF D
    <3>3. d.entry.table = Inherit(D, q).table /\ Fields(d.entry, Inherit(D, q))
      BY <3>11, <3>13, <3>14
    <3>4. ASSUME NEW m \in Members, d.entry.table[m] # None
          PROVE  \E k \in Classes : Has(b, k) /\ b.classes[k].id = d.entry.table[m]
      <4>1. d.entry.table[m] = <<f, i>> \/ d.entry.table[m] = q.table[m]
        BY <1>7, <3>2, <3>4 DEF D
      <4>2. CASE d.entry.table[m] = <<f, i>>
        BY <1>1, <1>2, <1>4, <4>2
      <4>3. CASE d.entry.table[m] = q.table[m]
        BY <1>4, <1>6, <2>2, <3>4, <4>3 DEF q
      <4> QED  BY <4>1, <4>2, <4>3
    <3>5. b.classes[p].id = d.base /\ b.classes[p].entry = q
      BY <1>2, <2>2, <3>1 DEF q
    <3>6. \A m \in Members : b.classes[p].entry.table[m] # d.id
      BY <1>2, <1>6, <2>2, <3>1
    <3>7. d.id = <<f, i>> /\ n = Body[f][i].name /\ d.parent = Body[f][i].parent /\ d.parent = p
      BY <1>2 DEF n, p
    <3>8. b.classes[d.parent] = b.classes[p]
      BY <3>7
    <3> QED  BY <1>4, <2>2, <3>1, <3>3, <3>4, <3>5, <3>6, <3>7, <3>8 DEF ClassIs, FromParent, D
  <2> QED  BY <2>1, <2>2
<1>9. \A k \in Classes : Has(b, k) => ClassOK(b, k)
  BY <1>3, <1>4, <1>5, <1>8 DEF ClassOK, Has
<1>10. Sound(b)
  BY <1>2, <1>9 DEF Sound
<1> QED  BY <1>2, <1>4, <1>10 DEF Keeps, b, n

\* What only changes the rest of the tables.
LEMMA SoundByClasses ==
  ASSUME NEW e, Sound(e), NEW x \in Env, x.classes = e.classes,
         \A m \in x.mangled : MangledOK(m)
  PROVE  Sound(x) /\ \A n \in Classes : Has(x, n) <=> Has(e, n)
<1>1. \A n \in Classes : Has(x, n) <=> Has(e, n)
  BY DEF Has
<1>2. ASSUME NEW n \in Classes, Has(x, n) PROVE ClassOK(x, n)
  <2>1. PICK f, i : f \in Files /\ i \in ClassesOf(f) /\ ClassIs(e, n, f, i)
    BY <1>1, <1>2 DEF Sound, ClassOK
  <2>2. ClassIs(x, n, f, i)
    BY <1>1, <1>2, <2>1, ClassIsKept
  <2> QED  BY <2>1, <2>2 DEF ClassOK
<1> QED  BY <1>1, <1>2 DEF Sound

LEMMA FatalKeepsSound ==
  ASSUME NEW e, Sound(e)
  PROVE  /\ Sound(Fatal(e)) /\ Fatal(e).fatal = TRUE /\ Fatal(e).classes = e.classes
         /\ Fatal(e).mangled = e.mangled /\ Fatal(e).funcs = e.funcs
<1>1. e \in Env
  BY DEF Sound
<1>2. /\ Fatal(e) \in Env /\ Fatal(e).fatal = TRUE /\ Fatal(e).classes = e.classes
      /\ Fatal(e).mangled = e.mangled /\ Fatal(e).funcs = e.funcs
  BY <1>1 DEF Fatal, Env
<1> HIDE DEF Fatal
<1>3. \A m \in Fatal(e).mangled : MangledOK(m)
  BY <1>2 DEF Sound
<1> QED  BY <1>2, <1>3, SoundByClasses

\* A file that declares a function that is there is an error.
LEMMA AddFuncsKeepsSound ==
  ASSUME NEW e, Sound(e), e.fatal = FALSE, NEW f \in Files
  PROVE  LET x == AddFuncs(e, f)
         IN  /\ Sound(x) /\ x.classes = e.classes /\ x.mangled = e.mangled
             /\ x.fatal = (e.funcs \cap Funcs[f] # {})
             /\ ~x.fatal => x.funcs = e.funcs \cup Funcs[f]
<1>1. e \in Env
  BY DEF Sound
<1>2. CASE e.funcs \cap Funcs[f] # {}
  BY <1>2, FatalKeepsSound DEF AddFuncs
<1>3. CASE e.funcs \cap Funcs[f] = {}
  <2> DEFINE x == [e EXCEPT !.funcs = @ \cup Funcs[f]]
  <2>1. AddFuncs(e, f) = x
    BY <1>3 DEF AddFuncs
  <2>2. e.funcs \cup Funcs[f] \subseteq Functions
    BY <1>1, ClassConstants DEF Env
  <2>3. /\ x \in Env /\ x.classes = e.classes /\ x.mangled = e.mangled
        /\ x.fatal = e.fatal /\ x.funcs = e.funcs \cup Funcs[f]
    BY <1>1, <2>2 DEF Env
  <2> HIDE DEF x
  <2>4. \A m \in x.mangled : MangledOK(m)
    BY <2>3 DEF Sound
  <2>5. Sound(x)
    BY <2>3, <2>4, SoundByClasses
  <2> QED  BY <1>3, <2>1, <2>3, <2>5
<1> QED  BY <1>2, <1>3

LEMMA MangleKeepsSound ==
  ASSUME NEW e, Sound(e), NEW f \in Files, NEW i \in ClassesOf(f), NEW c \in Entry,
         c.table = Declared(f, i).table, Fields(c, Declared(f, i))
  PROVE  LET x == Mangle(e, f, i, c)
         IN  /\ Sound(x) /\ x.classes = e.classes /\ e.mangled \subseteq x.mangled
             /\ IsMangled(x, f, i) /\ x.funcs = e.funcs /\ x.fatal = e.fatal
<1>1. e \in Env
  BY DEF Sound
<1>2. CASE IsMangled(e, f, i)
  BY <1>2 DEF Mangle
<1>3. CASE ~IsMangled(e, f, i)
  <2> DEFINE r == [id |-> <<f, i>>, entry |-> c]
             x == [e EXCEPT !.mangled = @ \cup {r}]
  <2>1. Mangle(e, f, i, c) = x
    BY <1>3 DEF Mangle
  <2>2. r \in [id : Ids, entry : Entry] /\ r.id = <<f, i>> /\ r.entry = c
    BY Bodies
  <2>3. MangledOK(r)
    BY <2>2 DEF MangledOK
  <2> HIDE DEF r
  <2>4. /\ x \in Env /\ x.classes = e.classes /\ x.mangled = e.mangled \cup {r}
        /\ x.fatal = e.fatal /\ x.funcs = e.funcs
    BY <1>1, <2>2 DEF Env
  <2> HIDE DEF x
  <2>5. \A m \in x.mangled : MangledOK(m)
    BY <2>3, <2>4 DEF Sound
  <2>6. Sound(x)
    BY <2>4, <2>5, SoundByClasses
  <2>7. IsMangled(x, f, i)
    BY <2>2, <2>4 DEF IsMangled
  <2> QED  BY <2>1, <2>4, <2>6, <2>7
<1> QED  BY <1>2, <1>3

\* The instruction that declares a class.
CanDeclare(e, f, i) == CanInherit(e, f, i) /\ ~Has(e, Body[f][i].name) /\ IsMangled(e, f, i)

LEMMA DeclareKeepsSound ==
  ASSUME NEW e, Sound(e), e.fatal = FALSE, NEW f \in Files, NEW i \in ClassesOf(f)
  PROVE  LET x == Declare(e, f, i)
             n == Body[f][i].name
         IN  /\ Sound(x) /\ x.mangled = e.mangled /\ x.funcs = e.funcs /\ Keeps(e, x)
             /\ x.fatal \in BOOLEAN /\ (x.fatal <=> ~CanDeclare(e, f, i))
             /\ ~x.fatal => /\ Has(x, n) /\ x.classes[n].id = <<f, i>>
                            /\ \A k \in Classes : k # n => x.classes[k] = e.classes[k]
<1>1. CASE ~CanDeclare(e, f, i)
  <2>1. Declare(e, f, i) = Fatal(e)
    BY <1>1 DEF Declare, CanDeclare
  <2> QED  BY <1>1, <2>1, FatalKeepsSound DEF Keeps
<1>2. CASE CanDeclare(e, f, i)
  <2> DEFINE m == CHOOSE r \in e.mangled : r.id = <<f, i>>
  <2>1. m \in e.mangled /\ m.id = <<f, i>>
    BY <1>2 DEF CanDeclare, IsMangled
  <2>2. Declare(e, f, i) = Bind(e, f, i, m.entry)
    BY <1>2 DEF Declare, CanDeclare
  <2> HIDE DEF m
  <2>3. m.entry \in Entry
    BY <2>1 DEF Sound, Env
  <2>4. MangledOK(m)
    BY <2>1 DEF Sound
  <2>5. PICK g, j : g \in Files /\ j \in ClassesOf(g) /\ m.id = <<g, j>>
                    /\ m.entry.table = Declared(g, j).table
                    /\ Fields(m.entry, Declared(g, j))
    BY <2>4 DEF MangledOK
  <2>6. g = f /\ j = i
    BY <2>1, <2>5
  <2>7. m.entry.table = Declared(f, i).table /\ Fields(m.entry, Declared(f, i))
    BY <2>5, <2>6
  <2>8. CanInherit(e, f, i) /\ ~Has(e, Body[f][i].name)
    BY <1>2 DEF CanDeclare
  <2> DEFINE x == Declare(e, f, i)
  <2>9. /\ Sound(x) /\ Keeps(e, x) /\ x.mangled = e.mangled
        /\ x.funcs = e.funcs /\ x.fatal = e.fatal
        /\ Has(x, Body[f][i].name) /\ x.classes[Body[f][i].name].id = <<f, i>>
        /\ \A k \in Classes : k # Body[f][i].name => x.classes[k] = e.classes[k]
    <3>1. PICK c : c = m.entry
      OBVIOUS
    <3>2. c \in Entry /\ c.table = Declared(f, i).table /\ Fields(c, Declared(f, i))
      BY <2>3, <2>7, <3>1
    <3>3. LET b == Bind(e, f, i, c)
              n == Body[f][i].name
          IN  /\ Sound(b) /\ Keeps(e, b) /\ b.mangled = e.mangled
              /\ b.funcs = e.funcs /\ b.fatal = e.fatal
              /\ Has(b, n) /\ b.classes[n].id = <<f, i>>
              /\ \A k \in Classes : k # n => b.classes[k] = e.classes[k]
      BY <2>8, <3>2, BindKeepsSound
    <3>4. x = Bind(e, f, i, c)
      BY <2>2, <3>1
    <3> HIDE DEF x
    <3> QED  BY <3>3, <3>4
  <2> HIDE DEF x
  <2> QED  BY <1>2, <2>9 DEF x
<1> QED  BY <1>1, <1>2

-----------------------------------------------------------------------------
(* The classes of a file as the compiler declares them.                    *)

\* What one class does to the tables: it is left under its mangled name, or bound.
Leaves(e, x) == x.classes = e.classes /\ e.mangled \subseteq x.mangled /\ x.funcs = e.funcs

Binds(e, x, f, i) ==
    LET n == Body[f][i].name
    IN  /\ CanInherit(e, f, i) /\ ~Has(e, n)
        /\ Has(x, n) /\ x.classes[n].id = <<f, i>>
        /\ \A k \in Classes : k # n => x.classes[k] = e.classes[k]
        /\ x.mangled = e.mangled /\ x.funcs = e.funcs

Compiling(f) == [e : Env, bound : SUBSET ClassesOf(f)]

CompileLeaves(r, s, f, i) ==
    /\ ~r.e.fatal /\ ~s.e.fatal /\ s.bound = r.bound
    /\ Body[f][i].cond \/ ~CanInherit(r.e, f, i) \/ Taken(r.e, f, i)
    /\ Leaves(r.e, s.e) /\ IsMangled(s.e, f, i)

CompileFails(r, s, f, i) ==
    /\ ~r.e.fatal /\ s.e.fatal /\ s.bound = r.bound
    /\ ~Body[f][i].cond /\ CanInherit(r.e, f, i) /\ ~Taken(r.e, f, i)
    /\ Has(r.e, Body[f][i].name)
    /\ Leaves(r.e, s.e)

CompileBinds(r, s, f, i) ==
    /\ ~r.e.fatal /\ ~s.e.fatal /\ s.bound = r.bound \cup {i}
    /\ ~Body[f][i].cond
    /\ Binds(r.e, s.e, f, i)

LEMMA CompileClassIs ==
  ASSUME NEW f \in Files, NEW i \in ClassesOf(f), NEW r \in Compiling(f), Sound(r.e)
  PROVE  LET s == CompileClass(r, f, i)
         IN  /\ s \in Compiling(f) /\ Sound(s.e)
             /\ \/ r.e.fatal /\ s = r
                \/ CompileLeaves(r, s, f, i)
                \/ CompileFails(r, s, f, i)
                \/ CompileBinds(r, s, f, i)
<1> DEFINE s == CompileClass(r, f, i)
           D == Declared(f, i)
           n == Body[f][i].name
<1>1. D \in Entry
  BY DeclaredIs
<1>2. r.e \in Env /\ r.e.fatal \in BOOLEAN /\ r.bound \subseteq ClassesOf(f)
  BY DEF Compiling, Env
<1>3. CASE r.e.fatal
  BY <1>3 DEF CompileClass
<1>4. CASE ~r.e.fatal /\ (Body[f][i].cond \/ ~CanInherit(r.e, f, i) \/ Taken(r.e, f, i))
  <2> DEFINE x == Mangle(r.e, f, i, D)
  <2>1. s = [r EXCEPT !.e = x]
    BY <1>4 DEF CompileClass
  <2>2. /\ Sound(x) /\ x.classes = r.e.classes /\ r.e.mangled \subseteq x.mangled
        /\ IsMangled(x, f, i) /\ x.funcs = r.e.funcs /\ x.fatal = r.e.fatal
    <3>1. PICK e : e = r.e
      OBVIOUS
    <3>2. Fields(D, Declared(f, i)) /\ D.table = Declared(f, i).table
      BY DEF Fields
    <3> HIDE DEF D
    <3>3. LET y == Mangle(e, f, i, D)
          IN  /\ Sound(y) /\ y.classes = e.classes /\ e.mangled \subseteq y.mangled
              /\ IsMangled(y, f, i) /\ y.funcs = e.funcs /\ y.fatal = e.fatal
      BY <1>1, <3>1, <3>2, MangleKeepsSound
    <3> QED  BY <3>1, <3>3
  <2>3. x \in Env
    BY <2>2 DEF Sound
  <2> HIDE DEF x
  <2>4. s.e = x /\ s.bound = r.bound /\ s \in Compiling(f)
    BY <2>1, <2>3 DEF Compiling
  <2> HIDE DEF s
  <2>5. CompileLeaves(r, s, f, i)
    BY <1>4, <2>2, <2>4 DEF CompileLeaves, Leaves
  <2> QED  BY <2>2, <2>4, <2>5 DEF s
<1>5. CASE /\ ~r.e.fatal /\ ~Body[f][i].cond /\ CanInherit(r.e, f, i)
           /\ ~Taken(r.e, f, i) /\ Has(r.e, n)
  <2> DEFINE x == Fatal(r.e)
  <2>1. s = [r EXCEPT !.e = x]
    BY <1>5 DEF CompileClass
  <2>2. /\ Sound(x) /\ x.classes = r.e.classes /\ x.mangled = r.e.mangled
        /\ x.funcs = r.e.funcs /\ x.fatal = TRUE
    BY FatalKeepsSound
  <2>3. x \in Env
    BY <2>2 DEF Sound
  <2> HIDE DEF x
  <2>4. s.e = x /\ s.bound = r.bound /\ s \in Compiling(f)
    BY <2>1, <2>3 DEF Compiling
  <2> HIDE DEF s
  <2>5. CompileFails(r, s, f, i)
    BY <1>5, <2>2, <2>4 DEF CompileFails, Leaves
  <2> QED  BY <2>2, <2>4, <2>5 DEF s
<1>6. CASE ~r.e.fatal /\ ~Body[f][i].cond /\ CanInherit(r.e, f, i) /\ ~Has(r.e, n)
  <2> DEFINE x == Bind(r.e, f, i, D)
  <2>1. s = [e |-> x, bound |-> r.bound \cup {i}]
    BY <1>6 DEF CompileClass, Taken
  <2>2. /\ Sound(x) /\ x.mangled = r.e.mangled /\ x.funcs = r.e.funcs /\ x.fatal = r.e.fatal
        /\ Has(x, n) /\ x.classes[n].id = <<f, i>>
        /\ \A k \in Classes : k # n => x.classes[k] = r.e.classes[k]
    <3>1. PICK c, e : c = D /\ e = r.e
      OBVIOUS
    <3>2. c \in Entry /\ c.table = Declared(f, i).table /\ Fields(c, Declared(f, i))
      BY <1>1, <3>1 DEF Fields
    <3>3. Sound(e) /\ CanInherit(e, f, i) /\ ~Has(e, Body[f][i].name)
      BY <1>6, <3>1
    <3>4. LET b == Bind(e, f, i, c)
              m == Body[f][i].name
          IN  /\ Sound(b) /\ Keeps(e, b) /\ b.mangled = e.mangled
              /\ b.funcs = e.funcs /\ b.fatal = e.fatal
              /\ Has(b, m) /\ b.classes[m].id = <<f, i>>
              /\ \A k \in Classes : k # m => b.classes[k] = e.classes[k]
      BY <3>2, <3>3, BindKeepsSound
    <3>5. x = Bind(e, f, i, c)
      BY <3>1
    <3> HIDE DEF x
    <3> QED  BY <3>1, <3>4, <3>5
  <2>3. x \in Env
    BY <2>2 DEF Sound
  <2> HIDE DEF x
  <2>4. s.e = x /\ s.bound = r.bound \cup {i} /\ s \in Compiling(f)
    BY <1>2, <2>1, <2>3 DEF Compiling
  <2> HIDE DEF s
  <2>5. CompileBinds(r, s, f, i)
    BY <1>6, <2>2, <2>4 DEF CompileBinds, Binds
  <2> QED  BY <2>2, <2>4, <2>5 DEF s
<1> QED  BY <1>3, <1>4, <1>5, <1>6

\* What the compiler has come to after k statements.
CompiledOK(e, f, k, r) ==
    /\ r \in Compiling(f) /\ Sound(r.e) /\ r.e.funcs = e.funcs
    /\ Keeps(e, r.e)
    /\ \A i \in r.bound : /\ i <= k /\ ~Body[f][i].cond
                          /\ Has(r.e, Body[f][i].name)
                          /\ r.e.classes[Body[f][i].name].id = <<f, i>>
    /\ \A n \in Classes : Has(r.e, n) /\ ~Has(e, n) =>
          \E i \in r.bound : r.e.classes[n].id = <<f, i>>
    /\ ~r.e.fatal => \A i \in ClassesOf(f) : i <= k => i \in r.bound \/ IsMangled(r.e, f, i)

LEMMA CompileStepKeeps ==
  ASSUME NEW e, NEW f \in Files, NEW k \in ClassesOf(f), NEW r,
         CompiledOK(e, f, k - 1, r)
  PROVE  CompiledOK(e, f, k, CompileClass(r, f, k))
<1> DEFINE s == CompileClass(r, f, k)
<1>1. k \in Nat /\ ClassesOf(f) \subseteq Nat
  BY Bodies
<1>2. /\ s \in Compiling(f) /\ Sound(s.e)
      /\ \/ r.e.fatal /\ s = r
         \/ CompileLeaves(r, s, f, k)
         \/ CompileFails(r, s, f, k)
         \/ CompileBinds(r, s, f, k)
  BY CompileClassIs DEF CompiledOK
<1>3. r.bound \subseteq ClassesOf(f) /\ r.bound \subseteq Nat
  BY <1>1 DEF CompiledOK, Compiling
<1> HIDE DEF s
<1> SUFFICES CompiledOK(e, f, k, s)
  BY DEF s
<1>4. CASE r.e.fatal /\ s = r
  <2>1. \A i \in r.bound : i <= k - 1 => i <= k
    BY <1>1, <1>3
  <2>2. CompiledOK(e, f, k, r)
    BY <1>4, <2>1 DEF CompiledOK
  <2> QED  BY <1>4, <2>2
<1>5. CASE CompileLeaves(r, s, f, k)
  <2>1. s.bound = r.bound /\ s.e.classes = r.e.classes /\ s.e.funcs = r.e.funcs
        /\ r.e.mangled \subseteq s.e.mangled /\ IsMangled(s.e, f, k) /\ ~r.e.fatal
    BY <1>5 DEF CompileLeaves, Leaves
  <2>2. \A n \in Classes : Has(s.e, n) <=> Has(r.e, n)
    BY <2>1 DEF Has
  <2>3. Keeps(e, s.e)
    BY <2>1 DEF Keeps, CompiledOK
  <2>4. ASSUME NEW i \in ClassesOf(f), i <= k PROVE i \in s.bound \/ IsMangled(s.e, f, i)
    <3>1. i = k \/ i <= k - 1
      BY <1>1, <2>4
    <3>2. i <= k - 1 => i \in r.bound \/ IsMangled(r.e, f, i)
      BY <2>1 DEF CompiledOK
    <3> QED  BY <2>1, <3>1, <3>2 DEF IsMangled
  <2>5. \A i \in s.bound : /\ i <= k /\ ~Body[f][i].cond
                           /\ Has(s.e, Body[f][i].name)
                           /\ s.e.classes[Body[f][i].name].id = <<f, i>>
    BY SMTT(30), <1>1, <1>3, <2>1, <2>2 DEF CompiledOK, Has
  <2>6. \A n \in Classes : Has(s.e, n) /\ ~Has(e, n) =>
           \E i \in s.bound : s.e.classes[n].id = <<f, i>>
    BY <2>1, <2>2 DEF CompiledOK
  <2>7. s.e.funcs = e.funcs
    BY <2>1 DEF CompiledOK
  <2> QED  BY <1>2, <2>3, <2>4, <2>5, <2>6, <2>7 DEF CompiledOK
<1>6. CASE CompileFails(r, s, f, k)
  <2>1. s.bound = r.bound /\ s.e.classes = r.e.classes /\ s.e.funcs = r.e.funcs
        /\ r.e.mangled \subseteq s.e.mangled /\ s.e.fatal
    BY <1>6 DEF CompileFails, Leaves
  <2>2. \A n \in Classes : Has(s.e, n) <=> Has(r.e, n)
    BY <2>1 DEF Has
  <2>3. Keeps(e, s.e)
    BY <2>1 DEF Keeps, CompiledOK
  <2>5. \A i \in s.bound : /\ i <= k /\ ~Body[f][i].cond
                           /\ Has(s.e, Body[f][i].name)
                           /\ s.e.classes[Body[f][i].name].id = <<f, i>>
    BY SMTT(30), <1>1, <1>3, <2>1, <2>2 DEF CompiledOK, Has
  <2>6. \A n \in Classes : Has(s.e, n) /\ ~Has(e, n) =>
           \E i \in s.bound : s.e.classes[n].id = <<f, i>>
    BY <2>1, <2>2 DEF CompiledOK
  <2>7. s.e.funcs = e.funcs
    BY <2>1 DEF CompiledOK
  <2> QED  BY <1>2, <2>1, <2>3, <2>5, <2>6, <2>7 DEF CompiledOK
<1>7. CASE CompileBinds(r, s, f, k)
  <2> DEFINE n == Body[f][k].name
  <2>1. /\ ~r.e.fatal /\ s.bound = r.bound \cup {k} /\ ~Body[f][k].cond
        /\ ~Has(r.e, n) /\ Has(s.e, n) /\ s.e.classes[n].id = <<f, k>>
        /\ \A c \in Classes : c # n => s.e.classes[c] = r.e.classes[c]
        /\ s.e.mangled = r.e.mangled /\ s.e.funcs = r.e.funcs
    BY <1>7 DEF CompileBinds, Binds
  <2>8. n \in Classes
    BY Bodies
  <2> HIDE DEF n
  <2>2. \A c \in Classes : Has(r.e, c) => Has(s.e, c) /\ s.e.classes[c] = r.e.classes[c]
    BY <2>1 DEF Has
  <2>3. Keeps(e, s.e)
    BY <2>1, <2>2 DEF Keeps, CompiledOK, Has
  <2>4. ASSUME NEW i \in ClassesOf(f), i <= k PROVE i \in s.bound \/ IsMangled(s.e, f, i)
    <3>1. i = k \/ i <= k - 1
      BY <1>1, <2>4
    <3>2. i <= k - 1 => i \in r.bound \/ IsMangled(r.e, f, i)
      BY <2>1 DEF CompiledOK
    <3> QED  BY <2>1, <3>1, <3>2 DEF IsMangled
  <2>5. ASSUME NEW i \in s.bound
        PROVE  /\ i <= k /\ ~Body[f][i].cond
               /\ Has(s.e, Body[f][i].name)
               /\ s.e.classes[Body[f][i].name].id = <<f, i>>
    <3>1. CASE i = k
      <4>1. k <= k /\ ~Body[f][k].cond /\ Has(s.e, Body[f][k].name)
            /\ s.e.classes[Body[f][k].name].id = <<f, k>>
        BY SMTT(30), <1>1, <2>1 DEF n
      <4> QED  BY <3>1, <4>1
    <3>2. CASE i \in r.bound
      <4>1. i <= k - 1 /\ ~Body[f][i].cond /\ Has(r.e, Body[f][i].name)
            /\ r.e.classes[Body[f][i].name].id = <<f, i>>
        BY <3>2 DEF CompiledOK
      <4>2. Body[f][i].name \in Classes
        BY <1>3, <3>2, Bodies
      <4>3. i <= k
        BY SMTT(30), <1>1, <1>3, <3>2, <4>1
      <4> QED  BY <2>2, <4>1, <4>2, <4>3
    <3> QED  BY <2>1, <3>1, <3>2
  <2>6. ASSUME NEW c \in Classes, Has(s.e, c), ~Has(e, c)
        PROVE  \E i \in s.bound : s.e.classes[c].id = <<f, i>>
    <3>1. CASE c = n
      BY <2>1, <3>1
    <3>2. CASE c # n
      BY <2>1, <2>6, <3>2 DEF CompiledOK, Has
    <3> QED  BY <3>1, <3>2
  <2>7. s.e.funcs = e.funcs
    BY <2>1 DEF CompiledOK
  <2> QED  BY <1>2, <2>3, <2>4, <2>5, <2>6, <2>7 DEF CompiledOK
<1> QED  BY <1>2, <1>4, <1>5, <1>6, <1>7

LEMMA CompiledIsOK ==
  ASSUME NEW e, Sound(e), NEW f \in Files
  PROVE  \A k \in 0..Len(Body[f]) : CompiledOK(e, f, k, Compiled(e, f)[k])
<1> DEFINE L == Len(Body[f])
           c == Compiled(e, f)
           S == {k \in 0..L : CompiledOK(e, f, k, c[k])}
<1>1. L \in Nat /\ ClassesOf(f) \subseteq 1..L
  BY Bodies
<1>2. c[0] = [e |-> e, bound |-> {}] /\ \A k \in 1..L : c[k] = CompileStep(c[k - 1], f, k)
  BY CompiledSteps
<1> HIDE DEF c
<1>3. CompiledOK(e, f, 0, c[0])
  <2>1. c[0].e = e /\ c[0].bound = {} /\ c[0] \in Compiling(f)
    BY <1>2 DEF Compiling, Sound
  <2>2. \A i \in ClassesOf(f) : ~(i <= 0)
    BY <1>1
  <2> QED  BY <2>1, <2>2 DEF CompiledOK, Keeps
<1>4. ASSUME NEW k \in 1..L, CompiledOK(e, f, k - 1, c[k - 1]) PROVE CompiledOK(e, f, k, c[k])
  <2>1. CASE k \in ClassesOf(f)
    BY <1>2, <1>4, <2>1, CompileStepKeeps DEF CompileStep
  <2>2. CASE k \notin ClassesOf(f)
    <3> DEFINE r == c[k - 1]
    <3>1. c[k] = r
      BY <1>2, <2>2 DEF CompileStep
    <3> HIDE DEF r
    <3>2. CompiledOK(e, f, k - 1, r)
      BY <1>4 DEF r
    <3>3. r.bound \subseteq ClassesOf(f)
      BY <3>2 DEF CompiledOK, Compiling
    <3>4. \A i \in r.bound : i <= k - 1 => i <= k
      BY <1>1, <3>3
    <3>5. \A i \in ClassesOf(f) : i <= k => i <= k - 1
      BY <1>1, <2>2
    <3>6. CompiledOK(e, f, k, r)
      BY <3>2, <3>4, <3>5 DEF CompiledOK
    <3> QED  BY <3>1, <3>6
  <2> QED  BY <2>1, <2>2
<1>5. 0 \in S
  BY <1>1, <1>3
<1>6. \A k \in 1..L : k - 1 \in S => k \in S
  BY <1>1, <1>4
<1> HIDE DEF S
<1>7. \A k \in 0..L : k \in S
  BY <1>1, <1>5, <1>6, OneByOne
<1> QED  BY <1>7 DEF S, c

\* What the compiler has come to at the end of the file.
LEMMA CompileIs ==
  ASSUME NEW e, Sound(e), NEW f \in Files
  PROVE  LET L == Len(Body[f])
             r == Compiled(e, f)[L]
             s == Compile(e, f)
         IN  /\ Sound(s.e) /\ s.bound = r.bound /\ CompiledOK(e, f, L, r)
             /\ s.e.classes = r.e.classes /\ s.e.mangled = r.e.mangled
             /\ s.e.fatal \in BOOLEAN
             /\ s.e.fatal <=> r.e.fatal \/ e.funcs \cap Funcs[f] # {}
             /\ ~s.e.fatal => s.e.funcs = e.funcs \cup Funcs[f]
<1> DEFINE L == Len(Body[f])
           r == Compiled(e, f)[L]
           s == Compile(e, f)
<1>1. L \in 0..L
  BY Bodies
<1>2. CompiledOK(e, f, L, r)
  BY <1>1, CompiledIsOK
<1>3. s = [r EXCEPT !.e = IF r.e.fatal THEN r.e ELSE AddFuncs(r.e, f)]
  BY DEF Compile
<1> HIDE DEF r, s
<1>4. Sound(r.e) /\ r \in Compiling(f) /\ r.e.funcs = e.funcs /\ r.e.fatal \in BOOLEAN
  BY <1>2 DEF CompiledOK, Compiling, Env
<1>5. CASE r.e.fatal
  BY <1>2, <1>3, <1>4, <1>5 DEF s, r, Compiling
<1>6. CASE ~r.e.fatal
  <2> DEFINE x == AddFuncs(r.e, f)
  <2>1. PICK a : a = r.e
    OBVIOUS
  <2>2. r.e.fatal = FALSE
    BY <1>4, <1>6
  <2>3. LET y == AddFuncs(a, f)
        IN  /\ Sound(y) /\ y.classes = a.classes /\ y.mangled = a.mangled
            /\ y.fatal = (a.funcs \cap Funcs[f] # {})
            /\ ~y.fatal => y.funcs = a.funcs \cup Funcs[f]
    BY <1>4, <2>1, <2>2, AddFuncsKeepsSound
  <2>4. /\ Sound(x) /\ x.classes = r.e.classes /\ x.mangled = r.e.mangled
        /\ x.fatal = (e.funcs \cap Funcs[f] # {})
        /\ ~x.fatal => x.funcs = e.funcs \cup Funcs[f]
    BY <1>4, <2>1, <2>3
  <2> HIDE DEF x
  <2>5. s.e = x /\ s.bound = r.bound
    BY <1>3, <1>4, <1>6 DEF Compiling, x
  <2> QED  BY <1>2, <1>6, <2>4, <2>5 DEF r, s
<1> QED  BY <1>5, <1>6

-----------------------------------------------------------------------------
(* The classes of a file as they are installed from its record.            *)

\* What is stored of a file: each class as its statement declares it.
RowOK(f, c) ==
    /\ c \in [ClassesOf(f) -> [bound : BOOLEAN, table : Table]]
    /\ \A i \in ClassesOf(f) : /\ c[i].table = Declared(f, i).table
                               /\ c[i].bound => ~Body[f][i].cond

Installing == [e : Env, ok : BOOLEAN]

InstallLeaves(r, s, f, i) ==
    /\ r.ok /\ s.ok /\ i \notin Bound(f)
    /\ Leaves(r.e, s.e) /\ IsMangled(s.e, f, i)

InstallBinds(r, s, f, i) ==
    /\ r.ok /\ s.ok /\ i \in Bound(f)
    /\ Binds(r.e, s.e, f, i)

LEMMA InstallClassIs ==
  ASSUME NEW f \in Files, RowOK(f, cache[f]), NEW i \in ClassesOf(f),
         NEW r \in Installing, Sound(r.e)
  PROVE  LET s == InstallClass(r, f, i)
         IN  /\ s \in Installing /\ Sound(s.e) /\ s.e.fatal = r.e.fatal
             /\ \/ s.e = r.e /\ ~s.ok
                \/ InstallLeaves(r, s, f, i)
                \/ InstallBinds(r, s, f, i)
<1> DEFINE s == InstallClass(r, f, i)
           n == Body[f][i].name
           c == cache[f][i]
           C == CopyIn(c)
<1>1. c \in [bound : BOOLEAN, table : Table] /\ c.table = Declared(f, i).table
      /\ (i \in Bound(f) <=> c.bound)
  BY DEF RowOK, Bound
<1>2. C \in Entry /\ C.table = Declared(f, i).table /\ Fields(C, Declared(f, i))
  <2>1. C \in Entry /\ C.table = c.table
    BY <1>1, CopyInIs
  <2>2. c.table = Declared(f, i).table => Fields(C, Declared(f, i))
    BY <1>1, CopyInIs
  <2> QED  BY <1>1, <2>1, <2>2
<1>3. r.e \in Env /\ r.ok \in BOOLEAN
  BY DEF Installing
<1>4. PICK e : e = r.e
  OBVIOUS
<1> HIDE DEF C
<1>5. CASE ~r.ok
  BY <1>5 DEF InstallClass
<1>6. CASE r.ok /\ ~c.bound
  <2> DEFINE x == Mangle(e, f, i, C)
  <2>1. s = [r EXCEPT !.e = x]
    BY <1>4, <1>6 DEF InstallClass, C
  <2>2. /\ Sound(x) /\ x.classes = e.classes /\ e.mangled \subseteq x.mangled
        /\ IsMangled(x, f, i) /\ x.funcs = e.funcs /\ x.fatal = e.fatal
    BY <1>2, <1>4, MangleKeepsSound
  <2>3. x \in Env
    BY <2>2 DEF Sound
  <2> HIDE DEF x
  <2>4. s.e = x /\ s.ok = r.ok /\ s \in Installing
    BY <2>1, <2>3 DEF Installing
  <2> HIDE DEF s
  <2>5. InstallLeaves(r, s, f, i)
    BY <1>1, <1>4, <1>6, <2>2, <2>4 DEF InstallLeaves, Leaves
  <2> QED  BY <1>4, <2>2, <2>4, <2>5 DEF s
<1>7. CASE r.ok /\ c.bound /\ Installable(r.e, f, i)
  <2> DEFINE x == Bind(e, f, i, C)
  <2>1. s = [r EXCEPT !.e = x]
    BY <1>4, <1>7 DEF InstallClass, C
  <2>2. CanInherit(e, f, i) /\ ~Has(e, n)
    BY <1>4, <1>7 DEF Installable
  <2>3. /\ Sound(x) /\ Keeps(e, x) /\ x.mangled = e.mangled
        /\ x.funcs = e.funcs /\ x.fatal = e.fatal
        /\ Has(x, n) /\ x.classes[n].id = <<f, i>>
        /\ \A k \in Classes : k # n => x.classes[k] = e.classes[k]
    BY <1>2, <1>4, <2>2, BindKeepsSound
  <2>4. x \in Env
    BY <2>3 DEF Sound
  <2> HIDE DEF x
  <2>5. s.e = x /\ s.ok = r.ok /\ s \in Installing
    BY <2>1, <2>4 DEF Installing
  <2> HIDE DEF s
  <2>6. InstallBinds(r, s, f, i)
    BY <1>1, <1>4, <1>7, <2>2, <2>3, <2>5 DEF InstallBinds, Binds
  <2> QED  BY <1>4, <2>3, <2>5, <2>6 DEF s
<1>8. CASE r.ok /\ c.bound /\ ~Installable(r.e, f, i)
  <2>1. s = [r EXCEPT !.ok = FALSE]
    BY <1>8 DEF InstallClass
  <2>2. s.e = r.e /\ s.ok = FALSE /\ s \in Installing
    BY <2>1 DEF Installing
  <2> QED  BY <2>2
<1> QED  BY <1>5, <1>6, <1>7, <1>8

\* A class that the installation has declared.
InstalledNow(e, x, f, i) ==
    LET n == Body[f][i].name
    IN  ~Has(e, n) /\ Has(x, n) /\ x.classes[n].id = <<f, i>>

\* What the installation has come to after k statements.
InstalledOK(e, f, k, r) ==
    /\ r \in Installing /\ Sound(r.e) /\ r.e.funcs = e.funcs /\ r.e.fatal = e.fatal
    /\ Keeps(e, r.e)
    /\ r.ok => \A i \in ClassesOf(f) : i <= k =>
          IF i \in Bound(f) THEN InstalledNow(e, r.e, f, i) ELSE IsMangled(r.e, f, i)

LEMMA InstallStepKeeps ==
  ASSUME NEW e, NEW f \in Files, RowOK(f, cache[f]), NEW k \in ClassesOf(f), NEW r,
         InstalledOK(e, f, k - 1, r)
  PROVE  InstalledOK(e, f, k, InstallClass(r, f, k))
<1> DEFINE s == InstallClass(r, f, k)
<1>1. k \in Nat /\ ClassesOf(f) \subseteq Nat
  BY Bodies
<1>2. /\ s \in Installing /\ Sound(s.e) /\ s.e.fatal = r.e.fatal
      /\ \/ s.e = r.e /\ ~s.ok
         \/ InstallLeaves(r, s, f, k)
         \/ InstallBinds(r, s, f, k)
  BY InstallClassIs DEF InstalledOK
<1> HIDE DEF s
<1> SUFFICES InstalledOK(e, f, k, s)
  BY DEF s
<1>3. r.e.funcs = e.funcs /\ r.e.fatal = e.fatal /\ Keeps(e, r.e)
  BY DEF InstalledOK
<1>4. CASE s.e = r.e /\ ~s.ok
  BY <1>2, <1>3, <1>4 DEF InstalledOK
<1>5. ASSUME s.ok, r.ok, s.e.funcs = r.e.funcs, r.e.mangled \subseteq s.e.mangled,
             \A n \in Classes : Has(r.e, n) => Has(s.e, n) /\ s.e.classes[n] = r.e.classes[n],
             IF k \in Bound(f) THEN InstalledNow(r.e, s.e, f, k) ELSE IsMangled(s.e, f, k)
      PROVE  InstalledOK(e, f, k, s)
  <2>1. Keeps(e, s.e)
    BY <1>3, <1>5 DEF Keeps, Has
  <2>2. ASSUME NEW i \in ClassesOf(f), i <= k
        PROVE  IF i \in Bound(f) THEN InstalledNow(e, s.e, f, i) ELSE IsMangled(s.e, f, i)
    <3>1. i = k \/ i <= k - 1
      BY <1>1, <2>2
    <3>3. Body[f][i].name \in Classes
      BY Bodies
    <3>2. CASE i <= k - 1
      <4>1. IF i \in Bound(f) THEN InstalledNow(e, r.e, f, i) ELSE IsMangled(r.e, f, i)
        BY <1>5, <3>2 DEF InstalledOK
      <4> QED  BY <1>5, <3>3, <4>1 DEF IsMangled, InstalledNow
    <3>4. CASE i = k
      <4>1. \A n \in Classes : Has(e, n) => Has(r.e, n)
        BY <1>3, KeepsHas
      <4> QED  BY <1>5, <3>3, <3>4, <4>1 DEF InstalledNow
    <3> QED  BY <3>1, <3>2, <3>4
  <2> QED  BY <1>2, <1>3, <1>5, <2>1, <2>2 DEF InstalledOK
<1>6. CASE InstallLeaves(r, s, f, k)
  BY <1>5, <1>6 DEF InstallLeaves, Leaves, Has
<1>7. CASE InstallBinds(r, s, f, k)
  <2> DEFINE n == Body[f][k].name
  <2>1. /\ r.ok /\ s.ok /\ k \in Bound(f) /\ ~Has(r.e, n) /\ Has(s.e, n)
        /\ s.e.classes[n].id = <<f, k>>
        /\ \A c \in Classes : c # n => s.e.classes[c] = r.e.classes[c]
        /\ s.e.mangled = r.e.mangled /\ s.e.funcs = r.e.funcs
    BY <1>7 DEF InstallBinds, Binds
  <2>2. \A c \in Classes : Has(r.e, c) => Has(s.e, c) /\ s.e.classes[c] = r.e.classes[c]
    BY <2>1 DEF Has
  <2>3. InstalledNow(r.e, s.e, f, k)
    BY <2>1 DEF InstalledNow
  <2> QED  BY <1>5, <2>1, <2>2, <2>3
<1> QED  BY <1>2, <1>4, <1>6, <1>7

LEMMA InstalledIsOK ==
  ASSUME NEW e, Sound(e), NEW f \in Files, RowOK(f, cache[f])
  PROVE  \A k \in 0..Len(Body[f]) : InstalledOK(e, f, k, Installed(e, f)[k])
<1> DEFINE L == Len(Body[f])
           c == Installed(e, f)
           S == {k \in 0..L : InstalledOK(e, f, k, c[k])}
<1>1. L \in Nat /\ ClassesOf(f) \subseteq 1..L
  BY Bodies
<1>2. c[0] = [e |-> e, ok |-> TRUE] /\ \A k \in 1..L : c[k] = InstallStep(c[k - 1], f, k)
  BY InstalledSteps
<1> HIDE DEF c
<1>3. InstalledOK(e, f, 0, c[0])
  <2>1. c[0].e = e /\ c[0] \in Installing
    BY <1>2 DEF Installing, Sound
  <2>2. \A i \in ClassesOf(f) : ~(i <= 0)
    BY <1>1
  <2> QED  BY <2>1, <2>2 DEF InstalledOK, Keeps
<1>4. ASSUME NEW k \in 1..L, InstalledOK(e, f, k - 1, c[k - 1]) PROVE InstalledOK(e, f, k, c[k])
  <2>1. CASE k \in ClassesOf(f)
    BY <1>2, <1>4, <2>1, InstallStepKeeps DEF InstallStep
  <2>2. CASE k \notin ClassesOf(f)
    <3> DEFINE r == c[k - 1]
    <3>1. c[k] = r
      BY <1>2, <2>2 DEF InstallStep
    <3> HIDE DEF r
    <3>2. InstalledOK(e, f, k - 1, r)
      BY <1>4 DEF r
    <3>3. \A i \in ClassesOf(f) : i <= k => i <= k - 1
      BY <1>1, <2>2
    <3>4. InstalledOK(e, f, k, r)
      BY <3>2, <3>3 DEF InstalledOK
    <3> QED  BY <3>1, <3>4
  <2> QED  BY <2>1, <2>2
<1>5. 0 \in S
  BY <1>1, <1>3
<1>6. \A k \in 1..L : k - 1 \in S => k \in S
  BY <1>1, <1>4
<1> HIDE DEF S
<1>7. \A k \in 0..L : k \in S
  BY <1>1, <1>5, <1>6, OneByOne
<1> QED  BY <1>7 DEF S, c

-----------------------------------------------------------------------------
(* What is stored of the classes of a file.                                *)

LEMMA ClassById ==
  ASSUME NEW e, Sound(e), NEW n \in Classes, Has(e, n),
         NEW f \in Files, NEW i \in ClassesOf(f), e.classes[n].id = <<f, i>>
  PROVE  /\ ClassIs(e, n, f, i) /\ FromParent(e.classes[n], e.classes[e.classes[n].parent], n, f, i)
         /\ Body[f][i].name = n /\ e.classes[n].parent = Body[f][i].parent
         /\ e.classes[n] \in Decl
         /\ e.classes[n].parent # None => Has(e, e.classes[n].parent)
<1>1. PICK g, j : g \in Files /\ j \in ClassesOf(g) /\ ClassIs(e, n, g, j)
  BY DEF Sound, ClassOK
<1>2. e.classes[n].id = <<g, j>>
  BY <1>1 DEF ClassIs, FromParent
<1>3. g = f /\ j = i
  BY <1>2
<1>4. ClassIs(e, n, f, i)
  BY <1>1, <1>3
<1>5. FromParent(e.classes[n], e.classes[e.classes[n].parent], n, f, i)
      /\ (e.classes[n].parent # None => Has(e, e.classes[n].parent))
  BY <1>4 DEF ClassIs
<1>6. Body[f][i].name = n /\ e.classes[n].parent = Body[f][i].parent
  BY <1>5 DEF FromParent
<1>7. e.classes[n] \in Decl
  BY DEF Sound, Env, Has
<1> QED  BY <1>4, <1>5, <1>6, <1>7

\* The filters of the copy-out leave of a bound class what its statement declares: what
\* it has inherited is not its own, and what is its own its parent does not have.
LEMMA LocalIsDeclared ==
  ASSUME NEW e, Sound(e), NEW n \in Classes, Has(e, n),
         NEW f \in Files, NEW i \in ClassesOf(f), e.classes[n].id = <<f, i>>
  PROVE  LET d == e.classes[n]
         IN  [m \in Members |-> IF IsLocal(e, d, m) THEN d.entry.table[m] ELSE None]
             = Declared(f, i).table
<1> DEFINE d == e.classes[n]
           D == Declared(f, i)
           p == e.classes[d.parent]
<1>1. /\ FromParent(d, p, n, f, i) /\ d \in Decl
      /\ d.parent # None => Has(e, d.parent)
      /\ d.parent = Body[f][i].parent
  BY ClassById
<1>2. D \in Entry /\ D.table = [m \in Members |-> IF m \in Body[f][i].own THEN <<f, i>> ELSE None]
  BY DeclaredIs
<1>3. d.parent \in Classes \cup {None}
  BY <1>1, Bodies
<1>4. d.parent # None => p \in Decl
  BY <1>1, <1>3 DEF Sound, Env, Has
<1>5. ASSUME NEW m \in Members
      PROVE  (IF IsLocal(e, d, m) THEN d.entry.table[m] ELSE None) = D.table[m]
  <2>1. CASE d.parent = None
    BY <1>1, <2>1 DEF FromParent, IsLocal
  <2>2. CASE d.parent # None
    <3>1. /\ d.id = <<f, i>> /\ d.entry.table = Inherit(D, p.entry).table
          /\ p.entry.table[m] # d.id
      BY <1>1, <2>2 DEF FromParent
    <3> HIDE DEF D
    <3>2. p.entry \in Entry
      BY <1>4, <2>2 DEF Decl
    <3>3. Inherit(D, p.entry).table =
             [k \in Members |-> IF D.table[k] = None THEN p.entry.table[k] ELSE D.table[k]]
      BY <1>2, <3>2, InheritIs DEF D
    <3>4. d.entry.table[m] = IF D.table[m] = None THEN p.entry.table[m] ELSE D.table[m]
      BY <3>1, <3>3
    <3>5. D.table[m] = IF m \in Body[f][i].own THEN <<f, i>> ELSE None
      BY <1>2 DEF D
    <3>6. <<f, i>> # None
      BY NoneIsNone, Bodies
    <3>7. IsLocal(e, d, m) <=>
             \/ m \in Methods /\ d.entry.table[m] = d.id
             \/ m \notin Methods /\ p.entry.table[m] # d.entry.table[m]
      BY <2>2 DEF IsLocal
    <3>8. CASE m \in Body[f][i].own
      <4>1. d.entry.table[m] = d.id /\ D.table[m] = d.id
        BY <3>1, <3>4, <3>5, <3>6, <3>8
      <4>2. IsLocal(e, d, m)
        BY <3>1, <3>7, <4>1
      <4> QED  BY <4>1, <4>2
    <3>9. CASE m \notin Body[f][i].own
      <4>1. d.entry.table[m] = p.entry.table[m] /\ D.table[m] = None
        BY <3>4, <3>5, <3>9
      <4>2. ~IsLocal(e, d, m)
        BY <3>1, <3>7, <4>1
      <4> QED  BY <4>1, <4>2
    <3> QED  BY <3>8, <3>9
  <2> QED  BY <2>1, <2>2
<1> HIDE DEF d, D
<1>6. D.table = [m \in Members |-> D.table[m]]
  BY <1>2
<1>7. [m \in Members |-> IF IsLocal(e, d, m) THEN d.entry.table[m] ELSE None] = [m \in Members |-> D.table[m]]
  BY <1>5
<1> QED  BY <1>6, <1>7 DEF d, D

LEMMA CopyOutIs ==
  ASSUME NEW e, Sound(e), NEW f \in Files, NEW bound \in SUBSET ClassesOf(f),
         \A i \in bound : /\ ~Body[f][i].cond /\ Has(e, Body[f][i].name)
                          /\ e.classes[Body[f][i].name].id = <<f, i>>
  PROVE  RowOK(f, CopyOut(e, f, bound))
<1> DEFINE c == CopyOut(e, f, bound)
<1>1. ASSUME NEW i \in ClassesOf(f)
      PROVE  /\ c[i] \in [bound : BOOLEAN, table : Table] /\ c[i].table = Declared(f, i).table
             /\ c[i].bound => ~Body[f][i].cond
  <2>1. Declared(f, i).table \in Table
    BY DeclaredIs DEF Entry
  <2>2. CASE i \notin bound
    <3>1. c[i] = [bound |-> FALSE, table |-> Declared(f, i).table]
      BY <2>2 DEF CopyOut
    <3> QED  BY <2>1, <3>1
  <2>3. CASE i \in bound
    <3> DEFINE n == Body[f][i].name
               d == e.classes[n]
               t == [m \in Members |-> IF IsLocal(e, d, m) THEN d.entry.table[m] ELSE None]
    <3>1. c[i] = [bound |-> TRUE, table |-> t]
      BY <2>3 DEF CopyOut
    <3>2. n \in Classes
      BY Bodies
    <3>5. PICK k \in Classes : k = n
      BY <3>2
    <3>6. Has(e, k) /\ e.classes[k].id = <<f, i>>
      BY <2>3, <3>5
    <3>7. [m \in Members |-> IF IsLocal(e, e.classes[k], m) THEN e.classes[k].entry.table[m] ELSE None]
          = Declared(f, i).table
      BY <3>6, LocalIsDeclared
    <3>3. t = Declared(f, i).table
      BY <3>5, <3>7
    <3> HIDE DEF t, c
    <3>4. c[i].table = t /\ c[i].bound = TRUE /\ c[i] \in [bound : BOOLEAN, table : Table]
      BY <2>1, <3>1, <3>3
    <3> QED  BY <2>3, <3>3, <3>4
  <2> QED  BY <2>2, <2>3
<1>2. c = [i \in ClassesOf(f) |-> c[i]]
  BY DEF CopyOut
<1> HIDE DEF c
<1>3. RowOK(f, c)
  BY <1>1, <1>2 DEF RowOK
<1> QED  BY <1>3 DEF c

-----------------------------------------------------------------------------
(* The classes of two tables.                                              *)

\* The classes of the first are in the second.
Inside(l, z) ==
    \A n \in Classes : Has(l, n) => Has(z, n) /\ Same(l.classes[n], z.classes[n])

\* Classes of one statement are the same if their parents are.
LEMMA SameById ==
  ASSUME NEW l, Sound(l), NEW z, Sound(z), NEW n \in Classes, Has(l, n), Has(z, n),
         l.classes[n].id = z.classes[n].id,
         \A k \in Classes : k # n /\ Has(l, k) => Same(l.classes[k], z.classes[k])
  PROVE  Same(l.classes[n], z.classes[n])
<1> DEFINE c == l.classes[n]
           d == z.classes[n]
<1>1. PICK f, i : f \in Files /\ i \in ClassesOf(f) /\ c.id = <<f, i>>
  BY DEF Sound, ClassOK, ClassIs, FromParent
<1>2. /\ FromParent(c, l.classes[c.parent], n, f, i) /\ c.parent = Body[f][i].parent
      /\ c.parent # None => Has(l, c.parent)
  BY <1>1, ClassById
<1>3. /\ FromParent(d, z.classes[d.parent], n, f, i) /\ d.parent = Body[f][i].parent
      /\ d.parent # None => Has(z, d.parent)
  <2>1. d.id = <<f, i>>
    BY <1>1
  <2> QED  BY <1>1, <2>1, ClassById
<1>4. PICK q : q = Body[f][i].parent
  OBVIOUS
<1>5. q \in Classes \cup {None}
  BY <1>1, <1>4, Bodies
<1> HIDE DEF c, d
<1>6. CASE q = None
  BY <1>2, <1>3, <1>4, <1>6 DEF FromParent, Same, Fields, c, d
<1>7. CASE q # None
  <2>1. Has(l, q) /\ q # n /\ q \in Classes
    BY <1>2, <1>4, <1>5, <1>7 DEF FromParent
  <2>2. Same(l.classes[q], z.classes[q])
    BY <2>1
  <2> DEFINE x == l.classes[q]
             y == z.classes[q]
             D == Declared(f, i)
  <2> HIDE DEF x, y, D
  <2>3. /\ c.id = <<f, i>> /\ c.parent = q /\ x.id = c.base
        /\ c.entry.table = Inherit(D, x.entry).table
        /\ Fields(c.entry, Inherit(D, x.entry))
    BY <1>2, <1>4, <1>7 DEF FromParent, x, D
  <2>4. /\ d.id = <<f, i>> /\ d.parent = q /\ y.id = d.base
        /\ d.entry.table = Inherit(D, y.entry).table
        /\ Fields(d.entry, Inherit(D, y.entry))
    BY <1>3, <1>4, <1>7 DEF FromParent, y, D
  <2>5. x.id = y.id /\ x.entry.table = y.entry.table /\ Fields(x.entry, y.entry)
    BY <2>2 DEF Same, Fields, x, y
  <2>6. Inherit(D, x.entry).table = Inherit(D, y.entry).table
    BY <2>5 DEF Inherit
  <2>10. x.entry \in Entry /\ y.entry \in Entry /\ D \in Entry
    <3>1. q # n /\ Has(z, q)
      BY <1>3, <1>4, <1>7, <2>1
    <3>2. l.classes[q] \in Decl /\ z.classes[q] \in Decl
      BY <2>1, <3>1 DEF Sound, Env, Has
    <3> QED  BY <1>1, <3>2, DeclaredIs DEF Decl, x, y, D
  <2>11. Fields(D, D)
    BY DEF Fields
  <2>12. Fields(Inherit(D, x.entry), Inherit(D, y.entry))
    BY <2>5, <2>10, <2>11, InheritFields
  <2>7. Fields(c.entry, d.entry)
    BY <2>3, <2>4, <2>12 DEF Fields
  <2>8. c.id = d.id /\ c.parent = d.parent /\ c.base = d.base /\ c.entry.table = d.entry.table
    BY <2>3, <2>4, <2>5, <2>6
  <2>9. Same(c, d)
    BY <2>7, <2>8 DEF Same, Fields
  <2> QED  BY <2>9 DEF c, d
<1> QED  BY <1>6, <1>7

LEMMA InsideKept ==
  ASSUME NEW l, NEW z, Inside(l, z), NEW l2, l2.classes = l.classes, NEW z2,
         \A n \in Classes : Has(z, n) => Has(z2, n) /\ z2.classes[n] = z.classes[n]
  PROVE  Inside(l2, z2)
BY DEF Inside, Has

\* One class is declared in the first, which is in the second by then.
LEMMA InsideGrows ==
  ASSUME NEW l, NEW z, Inside(l, z), NEW l2, Sound(l2), NEW z2, Sound(z2),
         NEW n \in Classes,
         \A k \in Classes : k # n => l2.classes[k] = l.classes[k],
         \A k \in Classes : Has(z, k) => Has(z2, k) /\ z2.classes[k] = z.classes[k],
         Has(l2, n), Has(z2, n), l2.classes[n].id = z2.classes[n].id
  PROVE  Inside(l2, z2)
<1>1. ASSUME NEW k \in Classes, k # n, Has(l2, k)
      PROVE  Has(z2, k) /\ Same(l2.classes[k], z2.classes[k])
  BY <1>1 DEF Inside, Has
<1>2. Same(l2.classes[n], z2.classes[n])
  BY <1>1, SameById
<1> QED  BY <1>1, <1>2 DEF Inside

-----------------------------------------------------------------------------
(* A file with lpc and without.                                            *)

LEMMA LeavesGrows ==
  ASSUME NEW e, NEW x, Leaves(e, x)
  PROVE  \A n \in Classes : Has(e, n) => Has(x, n) /\ x.classes[n] = e.classes[n]
BY DEF Leaves, Has

LEMMA BindsGrows ==
  ASSUME NEW e, NEW x, NEW f \in Files, NEW i \in ClassesOf(f), Binds(e, x, f, i)
  PROVE  \A n \in Classes : Has(e, n) => Has(x, n) /\ x.classes[n] = e.classes[n]
BY DEF Binds, Has

\* What can inherit in the first can in the second, and what has its name taken there
\* has it taken here.
LEMMA InsideInherits ==
  ASSUME NEW l, NEW z, Inside(l, z), NEW f \in Files, NEW i \in ClassesOf(f)
  PROVE  /\ CanInherit(l, f, i) => CanInherit(z, f, i)
         /\ Has(l, Body[f][i].name) => Has(z, Body[f][i].name)
BY Bodies DEF Inside, CanInherit

\* A class without a parent that is bound with lpc and, as it has its name taken, is left
\* to its instruction without.
StraysAt(bl, s, f, i) == i \in bl \ s.bound /\ ~Body[f][i].cond /\ Taken(s.e, f, i)

Strays(f, k, bl, s) == \E i \in ClassesOf(f) : i <= k /\ StraysAt(bl, s, f, i)

LEMMA StraysOn ==
  ASSUME NEW f \in Files, NEW k \in ClassesOf(f), NEW s, NEW s2,
         CompileLeaves(s, s2, f, k) \/ CompileBinds(s, s2, f, k),
         NEW bl, NEW bl2, bl \subseteq bl2, Strays(f, k - 1, bl, s)
  PROVE  Strays(f, k, bl2, s2)
<1>1. PICK i \in ClassesOf(f) : i <= k - 1 /\ StraysAt(bl, s, f, i)
  BY DEF Strays
<1>2. i \in Nat /\ k \in Nat /\ Body[f][i].name \in Classes
  <2>1. ClassesOf(f) \subseteq 1..Len(Body[f]) /\ Body[f][i].name \in Classes
    BY Bodies
  <2> QED  BY <2>1
<1>3. i <= k /\ i # k
  BY <1>1, <1>2
<1>4. s2.bound \subseteq s.bound \cup {k}
  BY DEF CompileLeaves, CompileBinds
<1>5. \A m \in Classes : Has(s.e, m) => Has(s2.e, m)
  <2>1. Leaves(s.e, s2.e) \/ Binds(s.e, s2.e, f, k)
    BY DEF CompileLeaves, CompileBinds
  <2> QED  BY <2>1, LeavesGrows, BindsGrows
<1>6. StraysAt(bl2, s2, f, i)
  BY <1>1, <1>2, <1>3, <1>4, <1>5 DEF StraysAt, Taken
<1> QED  BY <1>3, <1>6 DEF Strays

\* Where the compiler without lpc has no error there is none with it, and what it binds
\* with lpc it binds without; or else a class strays.
CompiledInside(f, k, r, s) ==
    ~s.e.fatal => \/ ~r.e.fatal /\ Inside(r.e, s.e) /\ r.bound \subseteq s.bound
                  \/ Strays(f, k, r.bound, s)

LEMMA CompileStepInside ==
  ASSUME NEW f \in Files, NEW k \in ClassesOf(f), NEW r \in Compiling(f), Sound(r.e),
         NEW s \in Compiling(f), Sound(s.e), CompiledInside(f, k - 1, r, s),
         \A i \in s.bound : i <= k - 1
  PROVE  CompiledInside(f, k, CompileClass(r, f, k), CompileClass(s, f, k))
<1> DEFINE r2 == CompileClass(r, f, k)
           s2 == CompileClass(s, f, k)
           n == Body[f][k].name
<1>1. /\ Sound(r2.e)
      /\ \/ r.e.fatal /\ r2 = r
         \/ CompileLeaves(r, r2, f, k)
         \/ CompileFails(r, r2, f, k)
         \/ CompileBinds(r, r2, f, k)
  BY CompileClassIs
<1>2. /\ Sound(s2.e)
      /\ \/ s.e.fatal /\ s2 = s
         \/ CompileLeaves(s, s2, f, k)
         \/ CompileFails(s, s2, f, k)
         \/ CompileBinds(s, s2, f, k)
  BY CompileClassIs
<1> HIDE DEF r2, s2
<1> SUFFICES ASSUME ~s2.e.fatal, ~Strays(f, k, r2.bound, s2)
             PROVE  ~r2.e.fatal /\ Inside(r2.e, s2.e) /\ r2.bound \subseteq s2.bound
  BY DEF CompiledInside, r2, s2
<1>3. ~s.e.fatal /\ (CompileLeaves(s, s2, f, k) \/ CompileBinds(s, s2, f, k))
  BY <1>2 DEF CompileLeaves, CompileFails, CompileBinds
<1>4. ~r.e.fatal /\ Inside(r.e, s.e) /\ r.bound \subseteq s.bound
  <2>1. r.bound \subseteq r2.bound
    BY <1>1 DEF CompileLeaves, CompileFails, CompileBinds
  <2>2. ~Strays(f, k - 1, r.bound, s)
    BY <1>3, <2>1, StraysOn
  <2> QED  BY <1>3, <2>2 DEF CompiledInside
<1>5. \A m \in Classes : Has(s.e, m) => Has(s2.e, m) /\ s2.e.classes[m] = s.e.classes[m]
  <2>1. Leaves(s.e, s2.e) \/ Binds(s.e, s2.e, f, k)
    BY <1>3 DEF CompileLeaves, CompileBinds
  <2> QED  BY <2>1, LeavesGrows, BindsGrows
<1>6. s.bound \subseteq s2.bound
  BY <1>3 DEF CompileLeaves, CompileBinds
<1>7. /\ CanInherit(r.e, f, k) => CanInherit(s.e, f, k)
      /\ Has(r.e, n) => Has(s.e, n)
  BY <1>4, InsideInherits
<1>8. CASE CompileLeaves(r, r2, f, k)
  <2>1. r2.e.classes = r.e.classes /\ r2.bound = r.bound /\ ~r2.e.fatal
    BY <1>8 DEF CompileLeaves, Leaves
  <2>2. Inside(r2.e, s2.e)
    BY <1>4, <1>5, <2>1, InsideKept
  <2> QED  BY <1>4, <1>6, <2>1, <2>2
<1>9. CASE CompileFails(r, r2, f, k)
  BY <1>3, <1>7, <1>9 DEF CompileFails, CompileLeaves, CompileBinds, Binds, Taken
<1>10. CASE CompileBinds(r, r2, f, k)
  <2>1. /\ CanInherit(r.e, f, k) /\ ~Body[f][k].cond /\ ~r2.e.fatal /\ r2.bound = r.bound \cup {k}
        /\ Has(r2.e, n) /\ r2.e.classes[n].id = <<f, k>>
        /\ \A m \in Classes : m # n => r2.e.classes[m] = r.e.classes[m]
    BY <1>10 DEF CompileBinds, Binds
  <2>2. CompileBinds(s, s2, f, k)
    <3> SUFFICES ASSUME CompileLeaves(s, s2, f, k) PROVE FALSE
      BY <1>3
    <3>1. s2.bound = s.bound /\ s2.e.classes = s.e.classes /\ Taken(s.e, f, k)
      BY <1>7, <2>1 DEF CompileLeaves, Leaves
    <3>2. Taken(s2.e, f, k)
      BY <3>1 DEF Taken, Has
    <3>3. k \in Nat /\ k <= k /\ ~(k <= k - 1)
      BY Bodies
    <3>4. StraysAt(r2.bound, s2, f, k)
      BY <2>1, <3>1, <3>2, <3>3 DEF StraysAt
    <3> QED  BY <3>3, <3>4 DEF Strays
  <2>3. Has(s2.e, n) /\ s2.e.classes[n].id = <<f, k>> /\ s2.bound = s.bound \cup {k}
    BY <2>2 DEF CompileBinds, Binds
  <2>4. n \in Classes
    BY Bodies
  <2>5. r2.e.classes[n].id = s2.e.classes[n].id
    BY <2>1, <2>3
  <2> HIDE DEF n
  <2>6. Inside(r2.e, s2.e)
    BY SMTT(30), <1>1, <1>2, <1>4, <1>5, <2>1, <2>3, <2>4, <2>5, InsideGrows
  <2> QED  BY <1>4, <2>1, <2>3, <2>6
<1> QED  BY <1>1, <1>4, <1>8, <1>9, <1>10

LEMMA CompiledStaysInside ==
  ASSUME NEW l, Sound(l), ~l.fatal, NEW z, Sound(z), Inside(l, z), NEW f \in Files
  PROVE  LET L == Len(Body[f])
         IN  CompiledInside(f, L, Compiled(l, f)[L], Compiled(z, f)[L])
<1> DEFINE L == Len(Body[f])
           r == Compiled(l, f)
           s == Compiled(z, f)
           S == {k \in 0..L : CompiledInside(f, k, r[k], s[k])}
<1>1. L \in Nat /\ ClassesOf(f) \subseteq 1..L
  BY Bodies
<1>2. /\ r[0] = [e |-> l, bound |-> {}] /\ s[0] = [e |-> z, bound |-> {}]
      /\ \A k \in 1..L : r[k] = CompileStep(r[k - 1], f, k) /\ s[k] = CompileStep(s[k - 1], f, k)
  BY CompiledSteps
<1>3. \A k \in 0..L : /\ r[k] \in Compiling(f) /\ Sound(r[k].e)
                      /\ s[k] \in Compiling(f) /\ Sound(s[k].e)
                      /\ \A i \in s[k].bound : i <= k
  BY CompiledIsOK DEF CompiledOK
<1> HIDE DEF r, s
<1>4. 0 \in S
  BY <1>1, <1>2 DEF CompiledInside
<1>5. ASSUME NEW k \in 1..L, k - 1 \in S PROVE k \in S
  <2>1. CompiledInside(f, k - 1, r[k - 1], s[k - 1]) /\ k - 1 \in 0..L /\ k \in 0..L
    BY <1>1, <1>5
  <2>2. CASE k \in ClassesOf(f)
    <3>1. CompiledInside(f, k, r[k], s[k])
      BY <1>2, <1>3, <2>1, <2>2, CompileStepInside DEF CompileStep
    <3> QED  BY <2>1, <3>1
  <2>3. CASE k \notin ClassesOf(f)
    <3>1. r[k] = r[k - 1] /\ s[k] = s[k - 1]
      BY <1>2, <2>3 DEF CompileStep
    <3>2. \A i \in ClassesOf(f) : i <= k - 1 => i <= k
      BY <1>1
    <3>3. CompiledInside(f, k, r[k], s[k])
      BY <2>1, <3>1, <3>2 DEF CompiledInside, Strays
    <3> QED  BY <2>1, <3>3
  <2> QED  BY <2>2, <2>3
<1> HIDE DEF S
<1>6. \A k \in 0..L : k \in S
  BY <1>1, <1>4, <1>5, OneByOne
<1> QED  BY <1>1, <1>6 DEF S, r, s

\* As long as the installation goes well it binds what a compile would; or else a class
\* strays.
InstalledInside(f, k, r, s) ==
    ~s.e.fatal /\ r.ok =>
        \/ Inside(r.e, s.e) /\ \A i \in Bound(f) : i <= k => i \in s.bound
        \/ Strays(f, k, Bound(f), s)

LEMMA InstallStepInside ==
  ASSUME NEW f \in Files, RowOK(f, cache[f]), NEW k \in ClassesOf(f),
         NEW r \in Installing, Sound(r.e),
         NEW s \in Compiling(f), Sound(s.e), InstalledInside(f, k - 1, r, s),
         \A i \in s.bound : i <= k - 1
  PROVE  InstalledInside(f, k, InstallClass(r, f, k), CompileClass(s, f, k))
<1> DEFINE r2 == InstallClass(r, f, k)
           s2 == CompileClass(s, f, k)
           n == Body[f][k].name
<1>1. /\ Sound(r2.e)
      /\ \/ r2.e = r.e /\ ~r2.ok
         \/ InstallLeaves(r, r2, f, k)
         \/ InstallBinds(r, r2, f, k)
  BY InstallClassIs
<1>2. /\ Sound(s2.e)
      /\ \/ s.e.fatal /\ s2 = s
         \/ CompileLeaves(s, s2, f, k)
         \/ CompileFails(s, s2, f, k)
         \/ CompileBinds(s, s2, f, k)
  BY CompileClassIs
<1> HIDE DEF r2, s2
<1> SUFFICES ASSUME ~s2.e.fatal, r2.ok, ~Strays(f, k, Bound(f), s2)
             PROVE  Inside(r2.e, s2.e) /\ \A i \in Bound(f) : i <= k => i \in s2.bound
  BY DEF InstalledInside, r2, s2
<1>3. ~s.e.fatal /\ (CompileLeaves(s, s2, f, k) \/ CompileBinds(s, s2, f, k))
  BY <1>2 DEF CompileLeaves, CompileFails, CompileBinds
<1>4. r.ok /\ (InstallLeaves(r, r2, f, k) \/ InstallBinds(r, r2, f, k))
  BY <1>1 DEF InstallLeaves, InstallBinds
<1>5. Inside(r.e, s.e) /\ \A i \in Bound(f) : i <= k - 1 => i \in s.bound
  <2>1. ~Strays(f, k - 1, Bound(f), s)
    BY <1>3, StraysOn
  <2> QED  BY <1>3, <1>4, <2>1 DEF InstalledInside
<1>6. \A m \in Classes : Has(s.e, m) => Has(s2.e, m) /\ s2.e.classes[m] = s.e.classes[m]
  <2>1. Leaves(s.e, s2.e) \/ Binds(s.e, s2.e, f, k)
    BY <1>3 DEF CompileLeaves, CompileBinds
  <2> QED  BY <2>1, LeavesGrows, BindsGrows
<1>7. s.bound \subseteq s2.bound
  BY <1>3 DEF CompileLeaves, CompileBinds
<1>8. CanInherit(r.e, f, k) => CanInherit(s.e, f, k)
  BY <1>5, InsideInherits
<1>9. ASSUME NEW i \in Bound(f), i <= k PROVE i = k \/ i \in s2.bound
  <2>1. i \in Nat /\ k \in Nat
    BY Bodies DEF Bound
  <2>2. i = k \/ i <= k - 1
    BY <1>9, <2>1
  <2> QED  BY <1>5, <1>7, <2>2
<1>10. CASE InstallLeaves(r, r2, f, k)
  <2>1. r2.e.classes = r.e.classes /\ k \notin Bound(f)
    BY <1>10 DEF InstallLeaves, Leaves
  <2>2. Inside(r2.e, s2.e)
    BY <1>5, <1>6, <2>1, InsideKept
  <2> QED  BY <1>9, <2>1, <2>2
<1>11. CASE InstallBinds(r, r2, f, k)
  <2>1. /\ CanInherit(r.e, f, k) /\ k \in Bound(f)
        /\ Has(r2.e, n) /\ r2.e.classes[n].id = <<f, k>>
        /\ \A m \in Classes : m # n => r2.e.classes[m] = r.e.classes[m]
    BY <1>11 DEF InstallBinds, Binds
  <2>2. ~Body[f][k].cond
    BY <2>1 DEF RowOK, Bound
  <2>3. CompileBinds(s, s2, f, k)
    <3> SUFFICES ASSUME CompileLeaves(s, s2, f, k) PROVE FALSE
      BY <1>3
    <3>1. s2.bound = s.bound /\ s2.e.classes = s.e.classes /\ Taken(s.e, f, k)
      BY <1>8, <2>1, <2>2 DEF CompileLeaves, Leaves
    <3>2. Taken(s2.e, f, k)
      BY <3>1 DEF Taken, Has
    <3>3. k \in Nat /\ k <= k /\ ~(k <= k - 1)
      BY Bodies
    <3>4. StraysAt(Bound(f), s2, f, k)
      BY <2>1, <2>2, <3>1, <3>2, <3>3 DEF StraysAt
    <3> QED  BY <3>3, <3>4 DEF Strays
  <2>4. Has(s2.e, n) /\ s2.e.classes[n].id = <<f, k>> /\ s2.bound = s.bound \cup {k}
    BY <2>3 DEF CompileBinds, Binds
  <2>5. n \in Classes
    BY Bodies
  <2>6. r2.e.classes[n].id = s2.e.classes[n].id
    BY <2>1, <2>4
  <2> HIDE DEF n
  <2>7. Inside(r2.e, s2.e)
    BY <1>1, <1>2, <1>5, <1>6, <2>1, <2>4, <2>5, <2>6, InsideGrows
  <2> QED  BY <1>9, <2>4, <2>7
<1> QED  BY <1>4, <1>10, <1>11

LEMMA InstalledStaysInside ==
  ASSUME NEW l, Sound(l), NEW z, Sound(z), Inside(l, z),
         NEW f \in Files, RowOK(f, cache[f])
  PROVE  InstalledInside(f, Len(Body[f]), Installed(l, f)[Len(Body[f])], Compiled(z, f)[Len(Body[f])])
<1> DEFINE L == Len(Body[f])
           r == Installed(l, f)
           s == Compiled(z, f)
           S == {k \in 0..L : InstalledInside(f, k, r[k], s[k])}
<1>1. L \in Nat /\ Bound(f) \subseteq 1..L /\ ClassesOf(f) \subseteq 1..L
  BY Bodies DEF Bound
<1>2. /\ r[0] = [e |-> l, ok |-> TRUE] /\ s[0] = [e |-> z, bound |-> {}]
      /\ \A k \in 1..L : r[k] = InstallStep(r[k - 1], f, k) /\ s[k] = CompileStep(s[k - 1], f, k)
  BY CompiledSteps, InstalledSteps
<1>3. \A k \in 0..L : /\ r[k] \in Installing /\ Sound(r[k].e)
                      /\ s[k] \in Compiling(f) /\ Sound(s[k].e)
                      /\ \A i \in s[k].bound : i <= k
  BY CompiledIsOK, InstalledIsOK DEF CompiledOK, InstalledOK
<1> HIDE DEF r, s
<1>4. 0 \in S
  <2>1. \A i \in Bound(f) : ~(i <= 0)
    BY <1>1
  <2> QED  BY <1>1, <1>2, <2>1 DEF InstalledInside
<1>5. ASSUME NEW k \in 1..L, k - 1 \in S PROVE k \in S
  <2>1. InstalledInside(f, k - 1, r[k - 1], s[k - 1]) /\ k - 1 \in 0..L /\ k \in 0..L
    BY <1>1, <1>5
  <2>2. CASE k \in ClassesOf(f)
    <3>1. InstalledInside(f, k, r[k], s[k])
      BY <1>2, <1>3, <2>1, <2>2, InstallStepInside DEF CompileStep, InstallStep
    <3> QED  BY <2>1, <3>1
  <2>3. CASE k \notin ClassesOf(f)
    <3>1. r[k] = r[k - 1] /\ s[k] = s[k - 1]
      BY <1>2, <2>3 DEF CompileStep, InstallStep
    <3>2. \A i \in Bound(f) : i <= k => i <= k - 1
      BY <1>1, <2>3 DEF Bound
    <3>4. \A i \in ClassesOf(f) : i <= k - 1 => i <= k
      BY <1>1
    <3>3. InstalledInside(f, k, r[k], s[k])
      BY <2>1, <3>1, <3>2, <3>4 DEF InstalledInside, Strays
    <3> QED  BY <2>1, <3>3
  <2> QED  BY <2>2, <2>3
<1> HIDE DEF S
<1>6. \A k \in 0..L : k \in S
  BY <1>1, <1>4, <1>5, OneByOne
<1> QED  BY <1>1, <1>6 DEF S, r, s

\* The compiler asks of the tables only which classes there are.
Alike(l, z) == \A n \in Classes : Has(l, n) <=> Has(z, n)

CompiledAlike(r, s) == (r.e.fatal <=> s.e.fatal) /\ r.bound = s.bound /\ Alike(r.e, s.e)

LEMMA CompileStepAlike ==
  ASSUME NEW f \in Files, NEW k \in ClassesOf(f), NEW r \in Compiling(f), Sound(r.e),
         NEW s \in Compiling(f), Sound(s.e), CompiledAlike(r, s)
  PROVE  CompiledAlike(CompileClass(r, f, k), CompileClass(s, f, k))
<1> DEFINE r2 == CompileClass(r, f, k)
           s2 == CompileClass(s, f, k)
           n == Body[f][k].name
<1>1. \/ r.e.fatal /\ r2 = r
      \/ CompileLeaves(r, r2, f, k)
      \/ CompileFails(r, r2, f, k)
      \/ CompileBinds(r, r2, f, k)
  BY CompileClassIs
<1>2. \/ s.e.fatal /\ s2 = s
      \/ CompileLeaves(s, s2, f, k)
      \/ CompileFails(s, s2, f, k)
      \/ CompileBinds(s, s2, f, k)
  BY CompileClassIs
<1> HIDE DEF r2, s2
<1> SUFFICES CompiledAlike(r2, s2)
  BY DEF r2, s2
<1>3. (r.e.fatal <=> s.e.fatal) /\ r.bound = s.bound /\ Alike(r.e, s.e)
  BY DEF CompiledAlike
<1>4. /\ CanInherit(r.e, f, k) <=> CanInherit(s.e, f, k)
      /\ Has(r.e, n) <=> Has(s.e, n)
      /\ Taken(r.e, f, k) <=> Taken(s.e, f, k)
  BY <1>3, Bodies DEF Alike, CanInherit, Taken
<1>5. CASE r.e.fatal
  <2>1. r2 = r /\ s2 = s
    BY <1>1, <1>2, <1>3, <1>5 DEF CompileLeaves, CompileFails, CompileBinds
  <2> QED  BY <2>1
<1>6. CASE CompileLeaves(r, r2, f, k)
  <2>1. CompileLeaves(s, s2, f, k)
    BY <1>2, <1>3, <1>4, <1>6 DEF CompileLeaves, CompileFails, CompileBinds, Binds, Taken
  <2> QED  BY <1>3, <1>6, <2>1 DEF CompileLeaves, Leaves, CompiledAlike, Alike, Has
<1>7. CASE CompileFails(r, r2, f, k)
  <2>1. CompileFails(s, s2, f, k)
    BY <1>2, <1>3, <1>4, <1>7 DEF CompileLeaves, CompileFails, CompileBinds, Binds, Taken
  <2> QED  BY <1>3, <1>7, <2>1 DEF CompileFails, Leaves, CompiledAlike, Alike, Has
<1>8. CASE CompileBinds(r, r2, f, k)
  <2>1. CompileBinds(s, s2, f, k)
    BY <1>2, <1>3, <1>4, <1>8 DEF CompileLeaves, CompileFails, CompileBinds, Binds, Taken
  <2>2. /\ ~r2.e.fatal /\ r2.bound = r.bound \cup {k} /\ Has(r2.e, n)
        /\ \A m \in Classes : m # n => r2.e.classes[m] = r.e.classes[m]
    BY <1>8 DEF CompileBinds, Binds
  <2>3. /\ ~s2.e.fatal /\ s2.bound = s.bound \cup {k} /\ Has(s2.e, n)
        /\ \A m \in Classes : m # n => s2.e.classes[m] = s.e.classes[m]
    BY <2>1 DEF CompileBinds, Binds
  <2>4. Alike(r2.e, s2.e)
    BY <1>3, <2>2, <2>3 DEF Alike, Has
  <2> QED  BY <1>3, <2>2, <2>3, <2>4 DEF CompiledAlike
<1> QED  BY <1>1, <1>5, <1>6, <1>7, <1>8

LEMMA CompiledStaysAlike ==
  ASSUME NEW l, Sound(l), ~l.fatal, NEW z, Sound(z), ~z.fatal, Alike(l, z), NEW f \in Files
  PROVE  CompiledAlike(Compiled(l, f)[Len(Body[f])], Compiled(z, f)[Len(Body[f])])
<1> DEFINE L == Len(Body[f])
           r == Compiled(l, f)
           s == Compiled(z, f)
           S == {k \in 0..L : CompiledAlike(r[k], s[k])}
<1>1. L \in Nat
  BY Bodies
<1>2. /\ r[0] = [e |-> l, bound |-> {}] /\ s[0] = [e |-> z, bound |-> {}]
      /\ \A k \in 1..L : r[k] = CompileStep(r[k - 1], f, k) /\ s[k] = CompileStep(s[k - 1], f, k)
  BY CompiledSteps
<1>3. \A k \in 0..L : /\ r[k] \in Compiling(f) /\ Sound(r[k].e)
                      /\ s[k] \in Compiling(f) /\ Sound(s[k].e)
  BY CompiledIsOK DEF CompiledOK
<1> HIDE DEF r, s
<1>4. 0 \in S
  <2>1. r[0].e = l /\ s[0].e = z /\ r[0].bound = s[0].bound
    BY <1>2
  <2>2. ~r[0].e.fatal /\ ~s[0].e.fatal /\ Alike(r[0].e, s[0].e)
    BY <2>1
  <2>3. CompiledAlike(r[0], s[0])
    BY <2>1, <2>2 DEF CompiledAlike
  <2> QED  BY <1>1, <2>3
<1>5. ASSUME NEW k \in 1..L, k - 1 \in S PROVE k \in S
  <2>1. CompiledAlike(r[k - 1], s[k - 1]) /\ k - 1 \in 0..L /\ k \in 0..L
    BY <1>1, <1>5
  <2>2. CompiledAlike(r[k], s[k])
    BY <1>2, <1>3, <2>1, CompileStepAlike DEF CompileStep
  <2> QED  BY <2>1, <2>2
<1> HIDE DEF S
<1>6. \A k \in 0..L : k \in S
  BY <1>1, <1>4, <1>5, OneByOne
<1> QED  BY <1>1, <1>6 DEF S, r, s

-----------------------------------------------------------------------------
(* The state.                                                              *)

Frame ==
    {r \in [file : Files, at : Nat, runtime : [Sides -> SUBSET Nat]] :
        /\ r.at \in 1..(Len(Body[r.file]) + 1)
        /\ \A s \in Sides : r.runtime[s] \subseteq ClassesOf(r.file)}

RowsOK(rows) ==
    /\ rows = [f \in Files |-> rows[f]]
    /\ \A f \in Files : rows[f] # None => RowOK(f, rows[f])

SInv ==
    /\ \A s \in Sides : Sound(env[s])
    /\ phase = "on" => \A s \in Sides : ~env[s].fatal
    /\ included \subseteq Files
    /\ frames \in Seq(Frame)
    /\ phase = "off" => frames = <<>>
    /\ RowsOK(cache) /\ RowsOK(saved)
    /\ phase \in {"off", "on", "crashed"}
    /\ failed \in BOOLEAN /\ late \in BOOLEAN /\ again \in BOOLEAN
    /\ reqs \in 0..MaxReqs

LEMMA EmptyIsSound == Sound(Empty) /\ ~Empty.fatal /\ \A n \in Classes : ~Has(Empty, n)
<1>1. /\ Empty \in Env /\ Empty.mangled = {} /\ ~Empty.fatal
      /\ \A n \in Classes : Empty.classes[n] = None
  BY DEF Empty, Env
<1> QED  BY <1>1 DEF Sound, Has

LEMMA FrameIs ==
  ASSUME NEW r \in Frame
  PROVE  /\ r.file \in Files /\ r.at \in 1..(Len(Body[r.file]) + 1) /\ r.at \in Nat
         /\ r.runtime \in [Sides -> SUBSET Nat]
         /\ \A s \in Sides : r.runtime[s] \subseteq ClassesOf(r.file)
BY DEF Frame

\* The frame of the file in execution has gone one statement further, the others have
\* not.
Advanced(fs) ==
    /\ fs \in Seq(Frame) /\ Len(fs) = Len(frames)
    /\ \A j \in 1..Len(frames) :
          /\ fs[j].file = frames[j].file /\ fs[j].runtime = frames[j].runtime
          /\ fs[j].at = IF j = Len(frames) THEN frames[j].at + 1 ELSE frames[j].at

LEMMA PassedIs ==
  ASSUME frames \in Seq(Frame), frames # <<>> => Top.at <= Len(Body[Top.file])
  PROVE  Advanced(Passed)
<1>1. CASE frames = <<>>
  BY <1>1 DEF Passed, Advanced
<1>2. CASE frames # <<>>
  <2> DEFINE L == Len(frames)
             t == frames[L]
             u == [t EXCEPT !.at = @ + 1]
  <2>1. L \in 1..L /\ L \in Nat /\ \A j \in 1..L : frames[j] \in Frame
    BY <1>2
  <2>2. t \in Frame /\ t.at <= Len(Body[t.file])
    BY <1>2, <2>1 DEF Top
  <2>3. Passed = [frames EXCEPT ![L].at = @ + 1]
    BY <1>2 DEF Passed
  <2> HIDE DEF t
  <2>4. t.file \in Files /\ t.at \in Nat /\ t.runtime \in [Sides -> SUBSET Nat]
        /\ t.at \in 1..(Len(Body[t.file]) + 1) /\ Len(Body[t.file]) \in Nat
        /\ t \in [file : Files, at : Nat, runtime : [Sides -> SUBSET Nat]]
        /\ \A s \in Sides : t.runtime[s] \subseteq ClassesOf(t.file)
    BY <2>2, Bodies DEF Frame
  <2>5. /\ u \in [file : Files, at : Nat, runtime : [Sides -> SUBSET Nat]]
        /\ u.file = t.file /\ u.runtime = t.runtime /\ u.at = t.at + 1
    BY <2>4
  <2>6. u.at \in 1..(Len(Body[u.file]) + 1)
    BY <2>2, <2>4, <2>5
  <2> HIDE DEF u
  <2>7. u \in Frame
    BY <2>4, <2>5, <2>6 DEF Frame
  <2>8. Passed = [frames EXCEPT ![L] = u]
    BY <2>3 DEF u, t
  <2>9. Passed \in Seq(Frame) /\ Len(Passed) = L /\ \A j \in 1..L : Passed[j] = IF j = L THEN u ELSE frames[j]
    BY <2>1, <2>7, <2>8
  <2> QED  BY <2>1, <2>5, <2>9 DEF Advanced, t
<1> QED  BY <1>1, <1>2

\* Where a file can be included.
LEMMA MayIncludeIs ==
  ASSUME frames \in Seq(Frame), NEW f \in Files, MayInclude(f)
  PROVE  /\ phase = "on" /\ Advanced(Passed)
         /\ frames # <<>> => /\ Top.at <= Len(Body[Top.file])
                             /\ Top.at \notin ClassesOf(Top.file)
<1>1. phase = "on" /\ (frames # <<>> => AtStatement /\ Reached = Require(f))
  BY DEF MayInclude
<1>2. frames # <<>> => Top.at <= Len(Body[Top.file])
  BY <1>1 DEF AtStatement
<1>3. frames # <<>> => Top.at \notin ClassesOf(Top.file)
  BY <1>1 DEF Reached, Require, ClassesOf
<1> QED  BY <1>1, <1>2, <1>3, PassedIs

LEMMA EnterIs ==
  ASSUME frames \in Seq(Frame), Advanced(Passed), NEW f \in Files, NEW bound, Enter(f, bound)
  PROVE  LET L == Len(frames)
         IN  /\ frames' \in Seq(Frame) /\ Len(frames') = L + 1 /\ L \in Nat
             /\ \A j \in 1..L : frames'[j] = Passed[j]
             /\ frames'[L + 1].file = f /\ frames'[L + 1].at = 1
             /\ \A s \in Sides : frames'[L + 1].runtime[s] = ClassesOf(f) \ bound[s]
<1> DEFINE r == [file |-> f, at |-> 1, runtime |-> [s \in Sides |-> ClassesOf(f) \ bound[s]]]
<1>1. ClassesOf(f) \subseteq Nat /\ Len(Body[f]) \in Nat
  BY Bodies
<1>2. /\ r \in [file : Files, at : Nat, runtime : [Sides -> SUBSET Nat]]
      /\ r.file = f /\ r.at = 1 /\ \A s \in Sides : r.runtime[s] = ClassesOf(f) \ bound[s]
  BY <1>1
<1>3. frames' = Append(Passed, r)
  BY DEF Enter
<1> HIDE DEF r
<1>4. r \in Frame
  BY <1>1, <1>2 DEF Frame
<1>5. Passed \in Seq(Frame) /\ Len(Passed) = Len(frames) /\ Len(frames) \in Nat
  BY DEF Advanced
<1>6. /\ frames' \in Seq(Frame) /\ Len(frames') = Len(frames) + 1
      /\ \A j \in 1..Len(frames) : frames'[j] = Passed[j]
      /\ frames'[Len(frames) + 1] = r
  BY <1>3, <1>4, <1>5
<1> QED  BY <1>2, <1>5, <1>6

\* Both sides go on, or the request is over.
LEMMA ProceedIs ==
  ASSUME NEW new, NEW how, Proceed(new, how)
  PROVE  /\ env' = new
         /\ \/ (\E s \in Sides : new[s].fatal) /\ phase' = "off" /\ frames' = <<>>
            \/ (\A s \in Sides : ~new[s].fatal) /\ phase' = phase
BY DEF Proceed

LEMMA IncludeKeeps ==
  ASSUME SInv, NEW f \in Files, MayInclude(f), NEW e, Sound(e), NEW bound, NEW how,
         Include(f, e, bound, how)
  PROVE  /\ \A s \in Sides : Sound(env'[s])
         /\ phase' = "on" => \A s \in Sides : ~env'[s].fatal
         /\ included' \subseteq Files
         /\ frames' \in Seq(Frame)
         /\ phase' = "off" => frames' = <<>>
         /\ phase' \in {"off", "on"}
<1> DEFINE c == Compile(env["zend"], f)
           new == [lpc |-> e, zend |-> c.e]
<1>1. Sound(env["zend"]) /\ frames \in Seq(Frame) /\ included \subseteq Files
  BY DEF SInv, Sides
<1>2. Sound(c.e)
  BY <1>1, CompileIs
<1>3. /\ Proceed(new, how) /\ included' = included \cup {f}
      /\ (\A s \in Sides : ~new[s].fatal) => Enter(f, [lpc |-> bound, zend |-> c.bound])
  BY DEF Include
<1>4. \A s \in Sides : Sound(new[s])
  BY <1>2 DEF Sides
<1>5. phase = "on" /\ Advanced(Passed)
  BY <1>1, MayIncludeIs
<1> HIDE DEF c, new
<1>6. /\ env' = new
      /\ \/ (\E s \in Sides : new[s].fatal) /\ phase' = "off" /\ frames' = <<>>
         \/ (\A s \in Sides : ~new[s].fatal) /\ phase' = phase
  BY <1>3, ProceedIs
<1>7. CASE (\E s \in Sides : new[s].fatal) /\ phase' = "off" /\ frames' = <<>>
  BY <1>1, <1>3, <1>4, <1>6, <1>7
<1>8. CASE (\A s \in Sides : ~new[s].fatal) /\ phase' = phase
  <2>1. frames' \in Seq(Frame)
    BY <1>1, <1>3, <1>5, <1>8, EnterIs
  <2> QED  BY <1>1, <1>3, <1>4, <1>5, <1>6, <1>8, <2>1
<1> QED  BY <1>6, <1>7, <1>8

LEMMA MissKeeps ==
  ASSUME SInv, NEW f \in Files, IncludeMiss(f)
  PROVE  SInv'
<1> DEFINE c == Compile(env["lpc"], f)
<1>1. /\ MayInclude(f) /\ Include(f, c.e, c.bound, "compiled")
      /\ \/ cache' = cache
         \/ ~c.e.fatal /\ cache' = [cache EXCEPT ![f] = CopyOut(c.e, f, c.bound)]
      /\ UNCHANGED <<saved, failed, late, again, reqs>>
  BY DEF IncludeMiss
<1>2. Sound(env["lpc"]) /\ RowsOK(cache)
  BY DEF SInv, Sides
<1>3. PICK l : l = env["lpc"]
  OBVIOUS
<1>4. /\ Sound(c.e)
      /\ CompiledOK(l, f, Len(Body[f]), Compiled(l, f)[Len(Body[f])])
      /\ c.bound = Compiled(l, f)[Len(Body[f])].bound
      /\ c.e.classes = Compiled(l, f)[Len(Body[f])].e.classes
  BY <1>2, <1>3, CompileIs
<1> HIDE DEF c
<1>5. c.bound \subseteq ClassesOf(f)
  BY <1>4 DEF CompiledOK, Compiling
<1>6. \A i \in c.bound : /\ ~Body[f][i].cond /\ Has(c.e, Body[f][i].name)
                         /\ c.e.classes[Body[f][i].name].id = <<f, i>>
  BY <1>4 DEF CompiledOK, Has
<1>7. RowOK(f, CopyOut(c.e, f, c.bound))
  BY <1>4, <1>5, <1>6, CopyOutIs
<1>8. RowsOK(cache')
  <2>1. CASE cache' = cache
    BY <1>2, <2>1
  <2>2. CASE cache' = [cache EXCEPT ![f] = CopyOut(c.e, f, c.bound)]
    <3> DEFINE x == CopyOut(c.e, f, c.bound)
    <3>1. RowOK(f, x)
      BY <1>7
    <3> HIDE DEF x
    <3>2. cache' = [cache EXCEPT ![f] = x]
      BY <2>2 DEF x
    <3>3. /\ cache' = [g \in Files |-> cache'[g]] /\ cache'[f] = x
          /\ \A g \in Files : g # f => cache'[g] = cache[g]
      BY <1>2, <3>2 DEF RowsOK
    <3> QED  BY <1>2, <3>1, <3>3 DEF RowsOK
  <2> QED  BY <1>1, <2>1, <2>2
<1>9. /\ \A s \in Sides : Sound(env'[s])
      /\ phase' = "on" => \A s \in Sides : ~env'[s].fatal
      /\ included' \subseteq Files
      /\ frames' \in Seq(Frame)
      /\ phase' = "off" => frames' = <<>>
      /\ phase' \in {"off", "on"}
  BY <1>1, <1>4, IncludeKeeps
<1>10. RowsOK(saved)' /\ failed' \in BOOLEAN /\ late' \in BOOLEAN /\ again' \in BOOLEAN /\ reqs' \in 0..MaxReqs
  BY <1>1 DEF SInv, RowsOK
<1>11. RowsOK(cache)'
  BY <1>8
<1> QED  BY <1>9, <1>10, <1>11 DEF SInv

\* What an installation comes to, with the functions.
LEMMA HitIs ==
  ASSUME NEW e, Sound(e), ~e.fatal, NEW f \in Files, RowOK(f, cache[f])
  PROVE  LET r == InstallClasses(e, f)
             x == InstallFuncs(r.e, f)
         IN  /\ InstalledOK(e, f, Len(Body[f]), r) /\ Sound(x)
             /\ x.classes = r.e.classes /\ x.mangled = r.e.mangled
             /\ x.fatal \in BOOLEAN
             /\ x.fatal <=> Keys \cap CondFuncs(f) # {} \/ e.funcs \cap Funcs[f] # {}
             /\ ~x.fatal => x.funcs = e.funcs \cup Funcs[f]
<1> DEFINE r == InstallClasses(e, f)
           x == InstallFuncs(r.e, f)
<1>1. Len(Body[f]) \in 0..Len(Body[f])
  BY Bodies
<1>2. InstalledOK(e, f, Len(Body[f]), r)
  BY <1>1, InstalledIsOK DEF InstallClasses
<1> HIDE DEF r
<1>3. PICK a : a = r.e
  OBVIOUS
<1>4. Sound(a) /\ a.fatal = FALSE /\ a.funcs = e.funcs
  BY <1>2, <1>3 DEF InstalledOK, Sound, Env
<1>5. CASE Keys \cap CondFuncs(f) # {}
  <2>1. x = Fatal(a)
    BY <1>3, <1>5 DEF InstallFuncs
  <2>2. /\ Sound(Fatal(a)) /\ Fatal(a).fatal = TRUE /\ Fatal(a).classes = a.classes
        /\ Fatal(a).mangled = a.mangled
    BY <1>4, FatalKeepsSound
  <2> HIDE DEF x
  <2> QED  BY <1>2, <1>3, <1>5, <2>1, <2>2 DEF r, x
<1>6. CASE Keys \cap CondFuncs(f) = {}
  <2>1. LET y == AddFuncs(a, f)
        IN  /\ Sound(y) /\ y.classes = a.classes /\ y.mangled = a.mangled
            /\ y.fatal = (a.funcs \cap Funcs[f] # {})
            /\ ~y.fatal => y.funcs = a.funcs \cup Funcs[f]
    BY <1>4, AddFuncsKeepsSound
  <2>2. x = AddFuncs(a, f)
    BY <1>3, <1>6 DEF InstallFuncs
  <2> HIDE DEF x
  <2> QED  BY <1>2, <1>3, <1>4, <1>6, <2>1, <2>2 DEF r, x
<1> QED  BY <1>5, <1>6

LEMMA HitKeeps ==
  ASSUME SInv, NEW f \in Files, IncludeHit(f)
  PROVE  SInv'
<1> DEFINE r == InstallClasses(env["lpc"], f)
           x == InstallFuncs(r.e, f)
           how == IF r.ok THEN "installed" ELSE "failed"
<1>1. /\ MayInclude(f) /\ cache[f] # None /\ Include(f, x, Bound(f), how)
      /\ failed' = (failed \/ ~r.ok) /\ late' = (late \/ LeftLate(f))
      /\ again' = (again \/ (f \in included /\ CondFuncs(f) # {}))
      /\ UNCHANGED <<cache, saved, reqs>>
  BY DEF IncludeHit
<1>2. Sound(env["lpc"]) /\ RowOK(f, cache[f]) /\ phase = "on"
  BY <1>1 DEF SInv, Sides, RowsOK, MayInclude
<1>3. ~env["lpc"].fatal
  BY <1>2 DEF SInv, Sides
<1>4. Sound(x)
  BY <1>2, <1>3, HitIs
<1> HIDE DEF x, how, r
<1>5. /\ \A s \in Sides : Sound(env'[s])
      /\ phase' = "on" => \A s \in Sides : ~env'[s].fatal
      /\ included' \subseteq Files
      /\ frames' \in Seq(Frame)
      /\ phase' = "off" => frames' = <<>>
      /\ phase' \in {"off", "on"}
  BY <1>1, <1>4, IncludeKeeps
<1>6. failed' \in BOOLEAN /\ late' \in BOOLEAN /\ again' \in BOOLEAN
  BY <1>1 DEF SInv
<1>7. RowsOK(cache)' /\ RowsOK(saved)' /\ reqs' \in 0..MaxReqs
  BY <1>1 DEF SInv, RowsOK
<1> QED  BY <1>5, <1>6, <1>7 DEF SInv

LEMMA ExecuteKeeps ==
  ASSUME SInv, NEW holds \in BOOLEAN, Execute(holds)
  PROVE  SInv'
<1> DEFINE new == [s \in Sides |-> IF holds /\ Top.at \in Top.runtime[s]
                                   THEN Declare(env[s], Top.file, Top.at) ELSE env[s]]
<1>1. /\ AtStatement /\ Proceed(new, "executed")
      /\ (\A s \in Sides : ~new[s].fatal) => frames' = Passed
      /\ UNCHANGED <<included, cache, saved, failed, late, again, reqs>>
  BY DEF Execute
<1>2. phase = "on" /\ frames # <<>> /\ Top.at <= Len(Body[Top.file])
  BY <1>1 DEF AtStatement
<1>3. frames \in Seq(Frame) /\ \A s \in Sides : Sound(env[s]) /\ ~env[s].fatal
  BY <1>2 DEF SInv
<1>4. Top \in Frame
  BY <1>2, <1>3 DEF Top
<1>5. PICK f, i : f = Top.file /\ i = Top.at
  OBVIOUS
<1>6. f \in Files /\ \A s \in Sides : Top.runtime[s] \subseteq ClassesOf(f)
  BY <1>4, <1>5, FrameIs
<1>7. ASSUME NEW s \in Sides PROVE Sound(new[s])
  <2>1. CASE holds /\ i \in Top.runtime[s]
    <3>1. i \in ClassesOf(f)
      BY <1>6, <2>1
    <3>2. new[s] = Declare(env[s], f, i)
      BY <1>5, <2>1
    <3>3. PICK e : e = env[s]
      OBVIOUS
    <3>4. Sound(e) /\ e.fatal = FALSE
      BY <1>3, <3>3 DEF Sound, Env
    <3>5. Sound(Declare(e, f, i))
      BY <1>6, <3>1, <3>4, DeclareKeepsSound
    <3> QED  BY <3>2, <3>3, <3>5
  <2>2. CASE ~(holds /\ i \in Top.runtime[s])
    BY <1>3, <1>5, <2>2
  <2> QED  BY <2>1, <2>2
<1>8. Advanced(Passed)
  BY <1>2, <1>3, PassedIs
<1> HIDE DEF new
<1>9. /\ env' = new
      /\ \/ (\E s \in Sides : new[s].fatal) /\ phase' = "off" /\ frames' = <<>>
         \/ (\A s \in Sides : ~new[s].fatal) /\ phase' = phase
  BY <1>1, ProceedIs
<1>10. /\ \A s \in Sides : Sound(env'[s])
       /\ phase' = "on" => \A s \in Sides : ~env'[s].fatal
       /\ frames' \in Seq(Frame)
       /\ phase' = "off" => frames' = <<>>
       /\ phase' \in {"off", "on"}
  <2>1. CASE (\E s \in Sides : new[s].fatal) /\ phase' = "off" /\ frames' = <<>>
    BY <1>7, <1>9, <2>1
  <2>2. CASE (\A s \in Sides : ~new[s].fatal) /\ phase' = phase
    BY <1>1, <1>2, <1>7, <1>8, <1>9, <2>2 DEF Advanced
  <2> QED  BY <1>9, <2>1, <2>2
<1>11. included' \subseteq Files /\ RowsOK(cache)' /\ RowsOK(saved)'
       /\ failed' \in BOOLEAN /\ late' \in BOOLEAN /\ again' \in BOOLEAN /\ reqs' \in 0..MaxReqs
  BY <1>1 DEF SInv, RowsOK
<1> QED  BY <1>10, <1>11 DEF SInv

\* A function within a condition: only the table of functions changes.
LEMMA DeclareFuncIs ==
  ASSUME NEW e, Sound(e), e.fatal = FALSE, NEW n \in Functions
  PROVE  LET x == DeclareFunc(e, n)
         IN  /\ Sound(x) /\ Keeps(e, x) /\ x.classes = e.classes
             /\ x.fatal \in BOOLEAN /\ (x.fatal <=> n \in e.funcs)
             /\ ~x.fatal => x.funcs = e.funcs \cup {n}
<1>1. CASE n \in e.funcs
  <2>1. DeclareFunc(e, n) = Fatal(e)
    BY <1>1 DEF DeclareFunc
  <2> QED  BY <1>1, <2>1, FatalKeepsSound DEF Keeps
<1>2. CASE n \notin e.funcs
  <2> DEFINE x == [e EXCEPT !.funcs = @ \cup {n}]
  <2>1. DeclareFunc(e, n) = x
    BY <1>2 DEF DeclareFunc
  <2>2. e \in Env
    BY DEF Sound
  <2>3. e.funcs \cup {n} \subseteq Functions
    BY <2>2 DEF Env
  <2>4. /\ x \in Env /\ x.classes = e.classes /\ x.mangled = e.mangled
        /\ x.fatal = e.fatal /\ x.funcs = e.funcs \cup {n}
    BY <2>2, <2>3 DEF Env
  <2> HIDE DEF x
  <2>5. \A m \in x.mangled : MangledOK(m)
    BY <2>4 DEF Sound
  <2>6. Sound(x)
    BY <2>4, <2>5, SoundByClasses
  <2> QED  BY <1>2, <2>1, <2>4, <2>6 DEF Keeps
<1> QED  BY <1>1, <1>2

\* The statement reached.
LEMMA ReachedIs ==
  ASSUME frames \in Seq(Frame), AtStatement
  PROVE  /\ Top \in Frame /\ Top.file \in Files /\ Top.at \in 1..Len(Body[Top.file])
         /\ Reached \in Statement /\ Advanced(Passed)
         /\ Reached.op = "function" => Reached.name \in Functions
         /\ Reached.op # "class" => Top.at \notin ClassesOf(Top.file)
<1>1. phase = "on" /\ frames # <<>> /\ Top.at <= Len(Body[Top.file])
  BY DEF AtStatement
<1>2. Top \in Frame
  BY <1>1 DEF Top
<1>3. Top.file \in Files /\ Top.at \in 1..Len(Body[Top.file])
  BY <1>1, <1>2, FrameIs
<1>4. Body[Top.file] \in Seq(Statement)
  BY <1>3, ClassConstants
<1>5. Reached \in Statement
  BY <1>3, <1>4 DEF Reached
<1>6. Reached.op = "function" => Reached.name \in Functions
  BY <1>5 DEF Statement
<1>7. Reached.op # "class" => Top.at \notin ClassesOf(Top.file)
  BY DEF Reached, ClassesOf
<1> QED  BY <1>1, <1>2, <1>3, <1>5, <1>6, <1>7, PassedIs

LEMMA ExecuteFunctionKeeps ==
  ASSUME SInv, NEW holds \in BOOLEAN, ExecuteFunction(holds)
  PROVE  SInv'
<1> DEFINE new == [s \in Sides |-> IF holds THEN DeclareFunc(env[s], Reached.name) ELSE env[s]]
<1>1. /\ AtStatement /\ Reached.op = "function" /\ Proceed(new, "executed")
      /\ (\A s \in Sides : ~new[s].fatal) => frames' = Passed
      /\ UNCHANGED <<included, cache, saved, failed, late, again, reqs>>
  BY DEF ExecuteFunction
<1>2. phase = "on" /\ frames \in Seq(Frame) /\ \A s \in Sides : Sound(env[s]) /\ ~env[s].fatal
  BY <1>1 DEF AtStatement, SInv
<1>3. Advanced(Passed) /\ Reached.name \in Functions
  BY <1>1, <1>2, ReachedIs
<1>4. ASSUME NEW s \in Sides PROVE Sound(new[s])
  <2>1. PICK e : e = env[s]
    OBVIOUS
  <2>2. Sound(e) /\ e.fatal = FALSE
    BY <1>2, <2>1 DEF Sound, Env
  <2>3. new[s] = IF holds THEN DeclareFunc(e, Reached.name) ELSE e
    BY <2>1
  <2> HIDE DEF new
  <2>4. Sound(DeclareFunc(e, Reached.name))
    BY <1>3, <2>2, DeclareFuncIs
  <2> QED  BY <2>2, <2>3, <2>4
<1> HIDE DEF new
<1>5. /\ env' = new
      /\ \/ (\E s \in Sides : new[s].fatal) /\ phase' = "off" /\ frames' = <<>>
         \/ (\A s \in Sides : ~new[s].fatal) /\ phase' = phase
  BY <1>1, ProceedIs
<1>6. /\ \A s \in Sides : Sound(env'[s])
      /\ phase' = "on" => \A s \in Sides : ~env'[s].fatal
      /\ frames' \in Seq(Frame)
      /\ phase' = "off" => frames' = <<>>
      /\ phase' \in {"off", "on"}
  <2>1. CASE (\E s \in Sides : new[s].fatal) /\ phase' = "off" /\ frames' = <<>>
    BY <1>4, <1>5, <2>1
  <2>2. CASE (\A s \in Sides : ~new[s].fatal) /\ phase' = phase
    BY <1>1, <1>2, <1>3, <1>4, <1>5, <2>2 DEF Advanced
  <2> QED  BY <1>5, <2>1, <2>2
<1>7. included' \subseteq Files /\ RowsOK(cache)' /\ RowsOK(saved)'
      /\ failed' \in BOOLEAN /\ late' \in BOOLEAN /\ again' \in BOOLEAN /\ reqs' \in 0..MaxReqs
  BY <1>1 DEF SInv, RowsOK
<1> QED  BY <1>6, <1>7 DEF SInv

\* What the tables of a request hold, and what is stored of its files, at any time: the
\* environment of either side holds classes that are what their statement and their
\* parent make them, and a record holds each class as its statement declares it.
THEOREM Invariance == Spec => []SInv
<1>1. Init => SInv
  <2> SUFFICES ASSUME Init PROVE SInv
    OBVIOUS
  <2>1. \A s \in Sides : env[s] = Empty
    BY DEF Init
  <2>2. RowsOK(cache) /\ RowsOK(saved)
    BY DEF Init, RowsOK
  <2>3. frames \in Seq(Frame) /\ included \subseteq Files /\ phase = "off" /\ frames = <<>>
    BY DEF Init
  <2>4. failed \in BOOLEAN /\ late \in BOOLEAN /\ again \in BOOLEAN
    BY DEF Init
  <2>5. reqs \in 0..MaxReqs
    <3>1. MaxReqs \in Nat
      BY ClassConstants
    <3>2. reqs = 0
      BY DEF Init
    <3> QED  BY <3>1, <3>2
  <2> QED  BY <2>1, <2>2, <2>3, <2>4, <2>5, EmptyIsSound DEF SInv
<1>2. SInv /\ [Next]_vars => SInv'
  <2> SUFFICES ASSUME SInv, [Next]_vars PROVE SInv'
    OBVIOUS
  <2>1. CASE BeginRequest
    <3>1. /\ env' = [s \in Sides |-> Empty] /\ cache' = saved /\ frames' = frames /\ saved' = saved
          /\ phase' = "on" /\ phase = "off" /\ included' = {} /\ failed' = FALSE /\ late' = FALSE
          /\ again' = FALSE
          /\ reqs' = reqs + 1 /\ reqs < MaxReqs
      BY <2>1 DEF BeginRequest
    <3>2. \A s \in Sides : env'[s] = Empty
      BY <3>1
    <3>3. \A s \in Sides : Sound(env'[s]) /\ ~env'[s].fatal
      BY <3>2, EmptyIsSound
    <3>4. RowsOK(cache)' /\ RowsOK(saved)' /\ frames' \in Seq(Frame)
      BY <3>1 DEF SInv, RowsOK
    <3>5. reqs' \in 0..MaxReqs
      BY <3>1, ClassConstants DEF SInv
    <3> QED  BY <3>1, <3>3, <3>4, <3>5 DEF SInv
  <2>2. CASE EndRequest
    <3>1. /\ UNCHANGED <<env, included, frames, cache, failed, late, again, reqs>>
          /\ frames = <<>> /\ phase' = "off" /\ saved' \in {cache, saved}
      BY <2>2 DEF EndRequest
    <3>2. RowsOK(saved') /\ RowsOK(cache')
      BY <3>1 DEF SInv
    <3>3. RowsOK(saved)' /\ RowsOK(cache)'
      BY <3>2
    <3> QED  BY <3>1, <3>3 DEF SInv
  <2>3. ASSUME NEW f \in Files, IncludeMiss(f) PROVE SInv'
    BY <2>3, MissKeeps
  <2>4. ASSUME NEW f \in Files, IncludeHit(f) PROVE SInv'
    BY <2>4, HitKeeps
  <2>5. ASSUME NEW f \in Files, WarningCrashes(f) PROVE SInv'
    <3>1. /\ UNCHANGED <<env, included, frames, cache, saved, failed, late, again, reqs>>
          /\ phase' = "crashed"
      BY <2>5 DEF WarningCrashes
    <3> QED  BY <3>1 DEF SInv, RowsOK
  <2>6. ASSUME NEW holds \in BOOLEAN, Execute(holds) PROVE SInv'
    BY <2>6, ExecuteKeeps
  <2>10. ASSUME NEW holds \in BOOLEAN, ExecuteFunction(holds) PROVE SInv'
    BY <2>10, ExecuteFunctionKeeps
  <2>7. CASE PassRequire
    <3>1. /\ AtStatement /\ frames' = Passed
          /\ UNCHANGED <<env, included, cache, saved, phase, failed, late, again, reqs>>
      BY <2>7 DEF PassRequire
    <3>2. phase = "on" /\ Advanced(Passed)
      BY <3>1, PassedIs DEF AtStatement, SInv
    <3>3. frames' \in Seq(Frame)
      BY <3>1, <3>2 DEF Advanced
    <3> QED  BY <3>1, <3>2, <3>3 DEF SInv, RowsOK
  <2>8. CASE Return
    <3>1. /\ frames # <<>> /\ frames' = SubSeq(frames, 1, Len(frames) - 1) /\ phase = "on"
          /\ UNCHANGED <<env, included, cache, saved, phase, failed, late, again, reqs>>
      BY <2>8 DEF Return
    <3>2. frames' \in Seq(Frame)
      BY <3>1 DEF SInv
    <3> QED  BY <3>1, <3>2 DEF SInv, RowsOK
  <2>9. CASE UNCHANGED vars
    BY <2>9 DEF vars, SInv, RowsOK
  <2> QED  BY <2>1, <2>2, <2>3, <2>4, <2>5, <2>6, <2>7, <2>8, <2>9, <2>10 DEF Next
<1> QED  BY <1>1, <1>2, PTL DEF Spec

\* The variables have their types, whatever files there are.
THEOREM TypeCorrect == Spec => []TypeOK
<1>1. SInv => TypeOK
  <2> SUFFICES ASSUME SInv PROVE TypeOK
    OBVIOUS
  <2>1. ASSUME NEW s \in Sides
        PROVE  /\ \A n \in Classes : Has(env[s], n) => env[s].classes[n] \in Decl
               /\ \A m \in env[s].mangled :
                     m.id[1] \in Files /\ m.id[2] \in ClassesOf(m.id[1]) /\ m.entry \in Entry
               /\ env[s].funcs \subseteq Functions
    <3>1. Sound(env[s]) /\ env[s] \in Env
      BY DEF SInv, Sound
    <3>2. \A n \in Classes : Has(env[s], n) => env[s].classes[n] \in Decl
      BY <3>1 DEF Env, Has
    <3>3. ASSUME NEW m \in env[s].mangled
          PROVE  m.id[1] \in Files /\ m.id[2] \in ClassesOf(m.id[1]) /\ m.entry \in Entry
      <4>1. MangledOK(m) /\ m.entry \in Entry
        BY <3>1 DEF Sound, Env
      <4>2. PICK f, i : f \in Files /\ i \in ClassesOf(f) /\ m.id = <<f, i>>
        BY <4>1 DEF MangledOK
      <4>3. m.id[1] = f /\ m.id[2] = i
        BY <4>2
      <4> QED  BY <4>1, <4>2, <4>3
    <3> QED  BY <3>1, <3>2, <3>3 DEF Env
  <2>2. ASSUME NEW i \in DOMAIN frames
        PROVE  /\ frames[i].file \in Files
               /\ frames[i].at \in 1..(Len(Body[frames[i].file]) + 1)
               /\ \A s \in Sides : frames[i].runtime[s] \subseteq ClassesOf(frames[i].file)
    <3>1. frames[i] \in Frame
      BY DEF SInv
    <3> QED  BY <3>1, FrameIs
  <2>3. \A f \in Files : \A c \in {cache[f], saved[f]} :
           c # None => c \in [ClassesOf(f) -> [bound : BOOLEAN, table : Table]]
    BY DEF SInv, RowsOK, RowOK
  <2>4. included \subseteq Files /\ phase \in {"off", "on", "crashed"}
        /\ failed \in BOOLEAN /\ late \in BOOLEAN /\ again \in BOOLEAN
        /\ reqs \in 0..MaxReqs
    BY DEF SInv
  <2> QED  BY <2>1, <2>2, <2>3, <2>4 DEF TypeOK
<1> QED  BY <1>1, Invariance, PTL

\* No class is bound to a parent of another request, with lpc or without.
THEOREM BoundNow == Spec => []BoundToCurrent
<1>1. SInv => BoundToCurrent
  <2> SUFFICES ASSUME SInv, NEW s \in Sides, NEW n \in Classes, Has(env[s], n),
                      env[s].classes[n].parent # None
               PROVE  LET d == env[s].classes[n]
                          p == env[s].classes[d.parent]
                      IN  /\ Has(env[s], d.parent) /\ p.id = d.base
                          /\ d.entry.table = Inherit(Declared(d.id[1], d.id[2]), p.entry).table
    BY DEF BoundToCurrent
  <2>1. PICK f, i : f \in Files /\ i \in ClassesOf(f) /\ ClassIs(env[s], n, f, i)
    BY DEF SInv, Sound, ClassOK
  <2>2. env[s].classes[n].id = <<f, i>>
    BY <2>1 DEF ClassIs, FromParent
  <2>3. env[s].classes[n].id[1] = f /\ env[s].classes[n].id[2] = i
    BY <2>2
  <2> QED  BY <2>1, <2>3 DEF ClassIs, FromParent
<1> QED  BY <1>1, Invariance, PTL

-----------------------------------------------------------------------------
(* With lpc and without.                                                   *)

\* A class that the compiler has bound without lpc and that lpc has left to its
\* instruction, which is still to come.
LeftTo(r, i) == i \in r.runtime["lpc"] \ r.runtime["zend"] /\ i >= r.at

Pending(fs, z, n) ==
    \E j \in 1..Len(fs) : \E i \in ClassesOf(fs[j].file) :
        LeftTo(fs[j], i) /\ z.classes[n].id = <<fs[j].file, i>>

FrameAlong(l, z, r) ==
    /\ r.runtime["zend"] \subseteq r.runtime["lpc"]
    /\ \A i \in r.runtime["lpc"] : IsMangled(l, r.file, i)
    /\ \A i \in r.runtime["zend"] : IsMangled(z, r.file, i)
    /\ \A i \in ClassesOf(r.file) : LeftTo(r, i) =>
          /\ ~Body[r.file][i].cond /\ Has(z, Body[r.file][i].name)
          /\ z.classes[Body[r.file][i].name].id = <<r.file, i>>

\* What lpc has declared is declared without it, and the rest is still to come.
Along(l, z, fs) ==
    /\ l.funcs = z.funcs /\ Inside(l, z)
    /\ \A n \in Classes : Has(z, n) /\ ~Has(l, n) => Pending(fs, z, n)
    /\ \A j \in 1..Len(fs) : FrameAlong(l, z, fs[j])

OnTime(fs) == \A j \in 1..Len(fs) : fs[j].runtime["lpc"] = fs[j].runtime["zend"]

LEMMA KeepsIs ==
  ASSUME NEW e, NEW x, Keeps(e, x)
  PROVE  /\ \A n \in Classes : Has(e, n) => Has(x, n) /\ x.classes[n] = e.classes[n]
         /\ \A f \in Files : \A i \in ClassesOf(f) : IsMangled(e, f, i) => IsMangled(x, f, i)
BY DEF Keeps, Has, IsMangled

\* If nothing is left to instructions, both have the same classes.
LEMMA OnTimeAlike ==
  ASSUME NEW l, NEW z, NEW fs, Along(l, z, fs), OnTime(fs)
  PROVE  Alike(l, z)
<1>1. ASSUME NEW n \in Classes, Has(z, n), ~Has(l, n) PROVE FALSE
  <2>1. Pending(fs, z, n)
    BY <1>1 DEF Along
  <2>2. PICK j \in 1..Len(fs) : \E i \in ClassesOf(fs[j].file) : LeftTo(fs[j], i)
    BY <2>1 DEF Pending
  <2>3. fs[j].runtime["lpc"] = fs[j].runtime["zend"]
    BY DEF OnTime
  <2> QED  BY <2>2, <2>3 DEF LeftTo
<1>2. \A n \in Classes : Has(l, n) => Has(z, n)
  BY DEF Along, Inside
<1> QED  BY <1>1, <1>2 DEF Alike

\* The files in execution, when the one on top has gone one statement further, unless
\* that declares a class with lpc only, and then has.
LEMMA GoOn ==
  ASSUME frames \in Seq(Frame), Advanced(Passed),
         NEW l, NEW z, Sound(z), Along(l, z, frames),
         NEW l2, Keeps(l, l2), NEW z2, Keeps(z, z2),
         frames # <<>> /\ Top.at \in ClassesOf(Top.file) /\ LeftTo(Top, Top.at) =>
            Has(l2, Body[Top.file][Top.at].name)
  PROVE  /\ \A j \in 1..Len(frames) : FrameAlong(l2, z2, Passed[j])
         /\ \A n \in Classes : Has(z, n) /\ ~Has(l2, n) => Pending(Passed, z2, n)
<1>1. ASSUME NEW j \in 1..Len(frames)
      PROVE  /\ frames[j] \in Frame /\ Passed[j].file = frames[j].file
             /\ Passed[j].runtime = frames[j].runtime
             /\ frames[j].at \in Nat
             /\ Passed[j].at = IF j = Len(frames) THEN frames[j].at + 1 ELSE frames[j].at
  <2>1. frames[j] \in Frame
    OBVIOUS
  <2> QED  BY <2>1, FrameIs DEF Advanced
<1>2. /\ \A n \in Classes : Has(z, n) => Has(z2, n) /\ z2.classes[n] = z.classes[n]
      /\ \A n \in Classes : Has(l, n) => Has(l2, n)
      /\ \A f \in Files : \A i \in ClassesOf(f) : IsMangled(z, f, i) => IsMangled(z2, f, i)
      /\ \A f \in Files : \A i \in ClassesOf(f) : IsMangled(l, f, i) => IsMangled(l2, f, i)
  BY KeepsIs
<1>3. ASSUME NEW j \in 1..Len(frames) PROVE FrameAlong(l2, z2, Passed[j])
  <2> DEFINE r == frames[j]
             q == Passed[j]
  <2>1. /\ q.file = r.file /\ q.runtime = r.runtime /\ r.at \in Nat
        /\ q.at \in Nat /\ q.at >= r.at
    BY <1>1
  <2>2. r.file \in Files /\ \A s \in Sides : r.runtime[s] \subseteq ClassesOf(r.file)
    BY <1>1, FrameIs
  <2>3. FrameAlong(l, z, r)
    BY DEF Along
  <2> HIDE DEF r, q
  <2>4. r.runtime["lpc"] \subseteq ClassesOf(r.file) /\ r.runtime["zend"] \subseteq ClassesOf(r.file)
    BY <2>2 DEF Sides
  <2>5. /\ \A i \in r.runtime["lpc"] : IsMangled(l2, r.file, i)
        /\ \A i \in r.runtime["zend"] : IsMangled(z2, r.file, i)
    BY <1>2, <2>2, <2>3, <2>4 DEF FrameAlong
  <2>6. ASSUME NEW i \in ClassesOf(r.file), LeftTo(q, i)
        PROVE  /\ ~Body[r.file][i].cond /\ Has(z2, Body[r.file][i].name)
               /\ z2.classes[Body[r.file][i].name].id = <<r.file, i>>
    <3>1. i \in Nat
      BY <2>2, Bodies
    <3>2. LeftTo(r, i)
      BY <2>1, <2>6, <3>1 DEF LeftTo
    <3>3. Body[r.file][i].name \in Classes
      BY <2>2, Bodies
    <3>4. /\ ~Body[r.file][i].cond /\ Has(z, Body[r.file][i].name)
          /\ z.classes[Body[r.file][i].name].id = <<r.file, i>>
      BY <2>3, <3>2 DEF FrameAlong
    <3> QED  BY <1>2, <3>3, <3>4
  <2>7. r.runtime["zend"] \subseteq r.runtime["lpc"]
    BY <2>3 DEF FrameAlong
  <2>8. FrameAlong(l2, z2, q)
    BY <2>1, <2>5, <2>6, <2>7 DEF FrameAlong
  <2> QED  BY <2>8 DEF q
<1>4. ASSUME NEW n \in Classes, Has(z, n), ~Has(l2, n) PROVE Pending(Passed, z2, n)
  <2>1. Pending(frames, z, n)
    BY <1>2, <1>4 DEF Along
  <2>2. PICK j, i : /\ j \in 1..Len(frames) /\ i \in ClassesOf(frames[j].file)
                    /\ LeftTo(frames[j], i) /\ z.classes[n].id = <<frames[j].file, i>>
    BY <2>1 DEF Pending
  <2>3. frames[j].file \in Files /\ frames[j].at \in Nat
    BY <1>1, <2>2, FrameIs
  <2>4. i \in Nat
    BY <2>2, <2>3, Bodies
  <2>5. Body[frames[j].file][i].name = n
    BY <1>4, <2>2, <2>3, ClassById
  <2>6. j = Len(frames) => i # frames[j].at
    <3> SUFFICES ASSUME j = Len(frames), i = frames[j].at PROVE FALSE
      OBVIOUS
    <3>1. frames # <<>> /\ Top = frames[j]
      BY <2>2 DEF Top
    <3> QED  BY <1>4, <2>2, <2>5, <3>1
  <2>7. i >= Passed[j].at
    BY <1>1, <2>2, <2>3, <2>4, <2>6 DEF LeftTo
  <2>8. LeftTo(Passed[j], i)
    BY <1>1, <2>2, <2>7 DEF LeftTo
  <2>9. z2.classes[n].id = <<frames[j].file, i>>
    BY <1>2, <1>4, <2>2
  <2>10. Len(Passed) = Len(frames) /\ Passed[j].file = frames[j].file
    BY <1>1, <2>2 DEF Advanced
  <2> QED  BY <2>2, <2>8, <2>9, <2>10 DEF Pending
<1> QED  BY <1>3, <1>4

\* What either way of including a file does to the tables: bl and bz are the classes that
\* are bound with lpc and without.
Included(l, z, l2, z2, f, bl, bz) ==
    /\ Sound(z2) /\ Keeps(l, l2) /\ Keeps(z, z2) /\ Inside(l2, z2) /\ l2.funcs = z2.funcs
    /\ bz \subseteq ClassesOf(f) /\ bl \subseteq bz
    /\ \A i \in ClassesOf(f) \ bl : IsMangled(l2, f, i)
    /\ \A i \in ClassesOf(f) \ bz : IsMangled(z2, f, i)
    /\ \A i \in bl : Has(l2, Body[f][i].name)
    /\ \A i \in bz : /\ ~Body[f][i].cond /\ Has(z2, Body[f][i].name)
                      /\ z2.classes[Body[f][i].name].id = <<f, i>>
    /\ \A n \in Classes : Has(z2, n) /\ ~Has(z, n) => \E i \in bz : z2.classes[n].id = <<f, i>>

\* A file is included.
LEMMA IncludeAlong ==
  ASSUME frames \in Seq(Frame), Advanced(Passed),
         frames # <<>> => Top.at \notin ClassesOf(Top.file),
         NEW l, NEW z, Sound(z), Along(l, z, frames),
         NEW l2, NEW z2, NEW f \in Files, NEW bl, NEW bz, Included(l, z, l2, z2, f, bl, bz),
         Enter(f, [lpc |-> bl, zend |-> bz])
  PROVE  /\ Along(l2, z2, frames')
         /\ OnTime(frames) /\ bl = bz => OnTime(frames')
<1> USE DEF Included
<1> DEFINE L == Len(frames)
           bound == [lpc |-> bl, zend |-> bz]
           r == frames'[L + 1]
<1>1. /\ frames' \in Seq(Frame) /\ Len(frames') = L + 1 /\ L \in Nat
      /\ \A j \in 1..L : frames'[j] = Passed[j]
      /\ r.file = f /\ r.at = 1
      /\ \A s \in Sides : r.runtime[s] = ClassesOf(f) \ bound[s]
  BY EnterIs
<1>2. r.runtime["lpc"] = ClassesOf(f) \ bl /\ r.runtime["zend"] = ClassesOf(f) \ bz
  <2>1. "lpc" \in Sides /\ "zend" \in Sides
    BY DEF Sides
  <2>2. bound["lpc"] = bl /\ bound["zend"] = bz
    OBVIOUS
  <2> HIDE DEF bound, r
  <2> QED  BY <1>1, <2>1, <2>2
<1> HIDE DEF r
<1>3. /\ \A j \in 1..L : FrameAlong(l2, z2, Passed[j])
      /\ \A n \in Classes : Has(z, n) /\ ~Has(l2, n) => Pending(Passed, z2, n)
  BY GoOn
<1>4. FrameAlong(l2, z2, r)
  <2>1. r.runtime["zend"] \subseteq r.runtime["lpc"]
    BY <1>2
  <2>2. \A i \in ClassesOf(f) : LeftTo(r, i) => i \in bz
    BY <1>2 DEF LeftTo
  <2> QED  BY <1>1, <1>2, <2>1, <2>2 DEF FrameAlong
<1>5. ASSUME NEW j \in 1..Len(frames') PROVE FrameAlong(l2, z2, frames'[j])
  <2>1. j = L + 1 \/ j \in 1..L
    BY <1>1
  <2> QED  BY <1>1, <1>3, <1>4, <2>1 DEF r
<1>6. ASSUME NEW n \in Classes, Has(z2, n), ~Has(l2, n) PROVE Pending(frames', z2, n)
  <2>1. CASE Has(z, n)
    <3>1. Pending(Passed, z2, n)
      BY <1>3, <1>6, <2>1
    <3>2. PICK j, i : /\ j \in 1..Len(Passed) /\ i \in ClassesOf(Passed[j].file)
                      /\ LeftTo(Passed[j], i) /\ z2.classes[n].id = <<Passed[j].file, i>>
      BY <3>1 DEF Pending
    <3>3. j \in 1..Len(frames') /\ frames'[j] = Passed[j]
      BY <1>1, <3>2 DEF Advanced
    <3> QED  BY <3>2, <3>3 DEF Pending
  <2>2. CASE ~Has(z, n)
    <3>1. PICK i \in bz : z2.classes[n].id = <<f, i>>
      BY <1>6, <2>2
    <3>2. i \in ClassesOf(f) /\ i \in Nat /\ i >= 1
      BY Bodies
    <3>3. Body[f][i].name = n
      BY <1>6, <3>1, <3>2, ClassById
    <3>4. i \notin bl
      BY <1>6, <3>3
    <3>5. LeftTo(r, i)
      BY <1>1, <1>2, <3>2, <3>4 DEF LeftTo
    <3>6. L + 1 \in 1..Len(frames')
      BY <1>1
    <3> QED  BY <1>1, <3>1, <3>2, <3>5, <3>6 DEF Pending, r
  <2> QED  BY <2>1, <2>2
<1>7. Along(l2, z2, frames')
  BY <1>5, <1>6 DEF Along
<1>8. ASSUME OnTime(frames), bl = bz PROVE OnTime(frames')
  <2> SUFFICES ASSUME NEW j \in 1..Len(frames')
               PROVE  frames'[j].runtime["lpc"] = frames'[j].runtime["zend"]
    BY DEF OnTime
  <2>1. CASE j \in 1..L
    <3>1. frames'[j].runtime = frames[j].runtime
      BY <1>1, <2>1 DEF Advanced
    <3> QED  BY <1>8, <2>1, <3>1 DEF OnTime
  <2>2. CASE j = L + 1
    BY <1>2, <1>8, <2>2 DEF r
  <2> QED  BY <1>1, <2>1, <2>2
<1> QED  BY <1>7, <1>8

\* Once both have declared a class, and kept the others, one is still inside the other.
LEMMA InsideStays ==
  ASSUME NEW l, NEW z, Inside(l, z), NEW l2, Sound(l2), NEW z2, Sound(z2), Keeps(z, z2),
         NEW n \in Classes,
         \A k \in Classes : k # n => l2.classes[k] = l.classes[k],
         Has(l2, n), Has(z2, n), l2.classes[n].id = z2.classes[n].id
  PROVE  Inside(l2, z2)
<1>1. \A k \in Classes : Has(z, k) => Has(z2, k) /\ z2.classes[k] = z.classes[k]
  BY KeepsIs
<1> QED  BY <1>1, InsideGrows

\* A class statement is executed, with its instruction or without.
LEMMA ExecuteAlong ==
  ASSUME frames \in Seq(Frame), frames # <<>>, Advanced(Passed),
         NEW l, NEW z, Sound(l), Sound(z), ~l.fatal, ~z.fatal, Along(l, z, frames),
         NEW f, f = Top.file, NEW i, i = Top.at, i \in ClassesOf(f),
         NEW holds \in BOOLEAN, Body[f][i].cond \/ holds,
         NEW l2, l2 = IF holds /\ i \in Top.runtime["lpc"] THEN Declare(l, f, i) ELSE l,
         NEW z2, z2 = IF holds /\ i \in Top.runtime["zend"] THEN Declare(z, f, i) ELSE z
  PROVE  /\ ~l2.fatal /\ ~z2.fatal => Along(l2, z2, Passed)
         /\ OnTime(frames) => OnTime(Passed) /\ (l2.fatal => z2.fatal)
<1> DEFINE n == Body[f][i].name
<1>1. Top \in Frame /\ Len(frames) \in 1..Len(frames) /\ Top = frames[Len(frames)]
  BY DEF Top
<1>2. f \in Files /\ i \in Nat
  BY <1>1, FrameIs
<1>3. n \in Classes
  BY <1>2, Bodies
<1>4. FrameAlong(l, z, Top) /\ Inside(l, z) /\ l.funcs = z.funcs
  BY <1>1 DEF Along
<1>5. /\ i \in Top.runtime["zend"] => i \in Top.runtime["lpc"] /\ IsMangled(z, f, i)
      /\ i \in Top.runtime["lpc"] => IsMangled(l, f, i)
  BY <1>4 DEF FrameAlong
<1>6. LeftTo(Top, i) <=> i \in Top.runtime["lpc"] /\ i \notin Top.runtime["zend"]
  BY <1>2 DEF LeftTo
<1>7. LeftTo(Top, i) => ~Body[f][i].cond /\ Has(z, n) /\ z.classes[n].id = <<f, i>>
  BY <1>4 DEF FrameAlong
<1>8. l.fatal = FALSE /\ z.fatal = FALSE
  BY DEF Sound, Env
<1>9. LET x == Declare(l, f, i)
      IN  /\ Sound(x) /\ x.mangled = l.mangled /\ x.funcs = l.funcs /\ Keeps(l, x)
          /\ x.fatal \in BOOLEAN /\ (x.fatal <=> ~CanDeclare(l, f, i))
          /\ ~x.fatal => /\ Has(x, n) /\ x.classes[n].id = <<f, i>>
                         /\ \A k \in Classes : k # n => x.classes[k] = l.classes[k]
  BY <1>2, <1>8, DeclareKeepsSound, ZenonT(30)
<1>10. LET x == Declare(z, f, i)
       IN  /\ Sound(x) /\ x.mangled = z.mangled /\ x.funcs = z.funcs /\ Keeps(z, x)
           /\ x.fatal \in BOOLEAN /\ (x.fatal <=> ~CanDeclare(z, f, i))
           /\ ~x.fatal => /\ Has(x, n) /\ x.classes[n].id = <<f, i>>
                          /\ \A k \in Classes : k # n => x.classes[k] = z.classes[k]
  BY <1>2, <1>8, DeclareKeepsSound, ZenonT(30)
<1>11. Keeps(l, l) /\ Keeps(z, z)
  BY DEF Keeps
<1>12. Keeps(l, l2) /\ Keeps(z, z2) /\ l2.funcs = z2.funcs
  BY <1>4, <1>9, <1>10, <1>11
<1> HIDE DEF n
<1>13. ASSUME ~l2.fatal, ~z2.fatal PROVE Along(l2, z2, Passed)
  <2>1. LeftTo(Top, i) => Has(l2, n)
    BY <1>6, <1>7, <1>9, <1>13
  <2>2. /\ \A j \in 1..Len(frames) : FrameAlong(l2, z2, Passed[j])
        /\ \A k \in Classes : Has(z, k) /\ ~Has(l2, k) => Pending(Passed, z2, k)
    BY <1>12, <2>1, GoOn DEF n
  <2>3. Inside(l2, z2) /\ \A k \in Classes : Has(z2, k) /\ ~Has(l2, k) => Has(z, k)
    <3>1. CASE ~holds \/ i \notin Top.runtime["lpc"]
      <4>1. l2 = l /\ z2 = z
        BY <1>5, <3>1
      <4> QED  BY <1>4, <4>1
    <3>2. CASE holds /\ i \in Top.runtime["lpc"] /\ i \notin Top.runtime["zend"]
      <4>1. z2 = z /\ Has(z, n) /\ z.classes[n].id = <<f, i>>
        BY <1>6, <1>7, <3>2
      <4>2. l2 = Declare(l, f, i)
        BY <3>2
      <4>3. /\ Sound(l2) /\ Has(l2, n) /\ l2.classes[n].id = <<f, i>>
            /\ \A k \in Classes : k # n => l2.classes[k] = l.classes[k]
        BY <1>9, <1>13, <4>2
      <4>4. l2.classes[n].id = z2.classes[n].id
        BY <4>1, <4>3
      <4>5. Inside(l2, z2)
        BY <1>3, <1>4, <4>1, <4>3, <4>4, InsideGrows
      <4> QED  BY <4>1, <4>5
    <3>3. CASE holds /\ i \in Top.runtime["zend"]
      <4>1. l2 = Declare(l, f, i) /\ z2 = Declare(z, f, i)
        BY <1>5, <3>3
      <4>2. /\ Sound(l2) /\ Has(l2, n) /\ l2.classes[n].id = <<f, i>>
            /\ \A k \in Classes : k # n => l2.classes[k] = l.classes[k]
        BY <1>9, <1>13, <4>1
      <4>3. /\ Sound(z2) /\ Has(z2, n) /\ z2.classes[n].id = <<f, i>>
            /\ \A k \in Classes : k # n => z2.classes[k] = z.classes[k]
        BY <1>10, <1>13, <4>1
      <4>4. l2.classes[n].id = z2.classes[n].id
        BY <4>2, <4>3
      <4>5. Inside(l2, z2)
        BY <1>3, <1>4, <1>12, <4>2, <4>3, <4>4, InsideStays
      <4>6. \A k \in Classes : Has(z2, k) /\ ~Has(l2, k) => Has(z, k)
        BY <4>2, <4>3 DEF Has
      <4> QED  BY <4>5, <4>6
    <3> QED  BY <3>1, <3>2, <3>3
  <2>4. Len(Passed) = Len(frames)
    BY DEF Advanced
  <2> QED  BY <1>12, <2>2, <2>3, <2>4 DEF Along
<1>14. ASSUME OnTime(frames) PROVE OnTime(Passed) /\ (l2.fatal => z2.fatal)
  <2>1. OnTime(Passed)
    BY <1>14 DEF OnTime, Advanced
  <2>2. Top.runtime["lpc"] = Top.runtime["zend"]
    BY <1>1, <1>14 DEF OnTime
  <2>3. Alike(l, z)
    BY <1>14, OnTimeAlike
  <2>4. ASSUME l2.fatal PROVE z2.fatal
    <3>1. holds /\ i \in Top.runtime["lpc"] /\ l2 = Declare(l, f, i)
      BY <1>8, <2>4
    <3>2. z2 = Declare(z, f, i) /\ IsMangled(z, f, i) /\ IsMangled(l, f, i)
      BY <1>5, <2>2, <3>1
    <3>3. ~CanDeclare(l, f, i)
      BY <1>9, <2>4, <3>1
    <3>4. CanInherit(l, f, i) <=> CanInherit(z, f, i)
      BY <1>2, <2>3, Bodies DEF CanInherit, Alike
    <3>5. Has(l, n) <=> Has(z, n)
      BY <1>3, <2>3 DEF Alike
    <3>6. ~CanDeclare(z, f, i)
      BY <3>2, <3>3, <3>4, <3>5 DEF CanDeclare, n
    <3> QED  BY <1>10, <3>2, <3>6
  <2> QED  BY <2>1, <2>4
<1> QED  BY <1>13, <1>14

\* A file is through.
LEMMA ReturnAlong ==
  ASSUME frames \in Seq(Frame), frames # <<>>, Top.at > Len(Body[Top.file]),
         NEW l, NEW z, Along(l, z, frames), NEW fs, fs = SubSeq(frames, 1, Len(frames) - 1)
  PROVE  Along(l, z, fs) /\ (OnTime(frames) => OnTime(fs))
<1> DEFINE L == Len(frames)
<1>1. L \in 1..L /\ Top \in Frame /\ Top = frames[L]
  BY DEF Top
<1>2. Len(fs) = L - 1 /\ \A j \in 1..(L - 1) : fs[j] = frames[j] /\ j \in 1..L
  <2>1. L \in Nat /\ L >= 1
    OBVIOUS
  <2>2. fs \in Seq(Frame)
    OBVIOUS
  <2>3. L - 1 \in 0..L /\ \A j \in 1..(L - 1) : j \in 1..L
    BY <2>1
  <2>4. Len(fs) = L - 1 /\ \A j \in 1..(L - 1) : fs[j] = frames[j]
    <3> HIDE DEF L
    <3>1. fs = SubSeq(frames, 1, L - 1)
      BY DEF L
    <3> QED  BY <2>1, <2>3, <3>1
  <2> QED  BY <2>3, <2>4
<1>3. ASSUME NEW n \in Classes, Pending(frames, z, n) PROVE Pending(fs, z, n)
  <2>1. PICK j, i : /\ j \in 1..Len(frames) /\ i \in ClassesOf(frames[j].file)
                    /\ LeftTo(frames[j], i) /\ z.classes[n].id = <<frames[j].file, i>>
    BY <1>3 DEF Pending
  <2>2. j # L
    <3> SUFFICES ASSUME j = L PROVE FALSE
      OBVIOUS
    <3>1. Top.file \in Files /\ Top.at \in Nat /\ i \in ClassesOf(Top.file) /\ i >= Top.at
      BY <1>1, <2>1, FrameIs DEF LeftTo
    <3>2. i \in 1..Len(Body[Top.file]) /\ Len(Body[Top.file]) \in Nat
      BY <3>1, Bodies
    <3> QED  BY <3>1, <3>2
  <2>3. j \in 1..(L - 1)
    BY <1>1, <2>1, <2>2
  <2> QED  BY <1>2, <2>1, <2>3 DEF Pending
<1> QED  BY <1>2, <1>3 DEF Along, OnTime

\* An instruction that is still to come without lpc, to declare a class whose name is
\* taken: the request ends with a fatal error there, if not before.
DoomedAt(z, r, i) ==
    i \in r.runtime["zend"] /\ i >= r.at /\ ~Body[r.file][i].cond /\ Taken(z, r.file, i)

Doomed(z, fs) == \E j \in 1..Len(fs) : \E i \in ClassesOf(fs[j].file) : DoomedAt(z, fs[j], i)

\* A class that was bound with lpc has been left to its instruction without.
Astray == late /\ Doomed(env["zend"], frames)

\* As long as lpc installs what it has stored, the two requests go along, or the one
\* without lpc will end with a fatal error; and if lpc leaves no class to its
\* instruction that a compile would bind, they go in step.
AInv ==
    /\ phase = "on" /\ ~failed =>
          \/ Along(env["lpc"], env["zend"], frames) /\ (~late => OnTime(frames))
          \/ Astray
    /\ NoFatalOfItsOwn

LEMMA DoomedGoesOn ==
  ASSUME frames \in Seq(Frame), NEW fs, Advanced(fs),
         NEW z, Doomed(z, frames), frames # <<>> => ~DoomedAt(z, Top, Top.at),
         NEW z2, \A n \in Classes : Has(z, n) => Has(z2, n)
  PROVE  Doomed(z2, fs)
<1>1. PICK j, i : /\ j \in 1..Len(frames) /\ i \in ClassesOf(frames[j].file)
                  /\ DoomedAt(z, frames[j], i)
  BY DEF Doomed
<1>2. frames[j] \in Frame
  BY <1>1
<1>3. frames[j].file \in Files /\ frames[j].at \in Nat
  BY <1>2, FrameIs
<1>4. i \in Nat /\ Body[frames[j].file][i].name \in Classes
  <2>1. /\ ClassesOf(frames[j].file) \subseteq 1..Len(Body[frames[j].file])
        /\ Body[frames[j].file][i].name \in Classes
    BY <1>1, <1>3, Bodies
  <2> QED  BY <1>1, <2>1
<1>5. /\ fs[j].file = frames[j].file /\ fs[j].runtime = frames[j].runtime
      /\ fs[j].at = IF j = Len(frames) THEN frames[j].at + 1 ELSE frames[j].at
      /\ j \in 1..Len(fs)
  BY <1>1 DEF Advanced
<1>6. j = Len(frames) => i # frames[j].at
  <2> SUFFICES ASSUME j = Len(frames), i = frames[j].at PROVE FALSE
    OBVIOUS
  <2>1. frames # <<>> /\ Top = frames[j]
    BY <1>1 DEF Top
  <2> QED  BY <1>1, <2>1
<1>7. i >= fs[j].at
  BY <1>1, <1>3, <1>4, <1>5, <1>6 DEF DoomedAt
<1>8. DoomedAt(z2, fs[j], i)
  BY <1>1, <1>4, <1>5, <1>7 DEF DoomedAt, Taken
<1> QED  BY <1>1, <1>5, <1>8 DEF Doomed

\* Whatever is included, executed or returned from, the instruction is still to come, or
\* the request is over.
LEMMA AstrayIncludes ==
  ASSUME SInv, Astray, NEW f \in Files, MayInclude(f),
         NEW e, NEW bound, NEW how, Include(f, e, bound, how), phase' = "on"
  PROVE  Doomed(env'["zend"], frames')
<1> DEFINE d == Compile(env["zend"], f)
           new == [lpc |-> e, zend |-> d.e]
           L == Len(frames)
<1>1. PICK z : z = env["zend"]
  OBVIOUS
<1>2. /\ Proceed(new, how)
      /\ (\A s \in Sides : ~new[s].fatal) => Enter(f, [lpc |-> bound, zend |-> d.bound])
  BY DEF Include
<1>3. /\ phase = "on" /\ Advanced(Passed) /\ frames \in Seq(Frame)
      /\ frames # <<>> => Top.at \notin ClassesOf(Top.file)
  BY MayIncludeIs DEF SInv
<1>4. Sound(z) /\ ~z.fatal
  BY <1>1, <1>3 DEF SInv, Sides
<1>5. \A n \in Classes : Has(z, n) => Has(d.e, n)
  <2>1. /\ CompiledOK(z, f, Len(Body[f]), Compiled(z, f)[Len(Body[f])])
        /\ d.e.classes = Compiled(z, f)[Len(Body[f])].e.classes
    BY <1>1, <1>4, CompileIs
  <2> HIDE DEF d
  <2> QED  BY <2>1, KeepsHas DEF CompiledOK, Has
<1>6. new["zend"] = d.e
  OBVIOUS
<1> HIDE DEF d, new
<1>7. env' = new /\ \A s \in Sides : ~new[s].fatal
  BY <1>2, ProceedIs
<1>8. Enter(f, [lpc |-> bound, zend |-> d.bound])
  BY <1>2, <1>7
<1>9. /\ frames' \in Seq(Frame) /\ Len(frames') = L + 1 /\ L \in Nat
      /\ \A j \in 1..L : frames'[j] = Passed[j]
  BY <1>3, <1>8, EnterIs
<1>10. frames # <<>> => ~DoomedAt(z, Top, Top.at)
  <2> SUFFICES ASSUME frames # <<>> PROVE Top.at \notin Top.runtime["zend"]
    BY DEF DoomedAt
  <2>1. Top \in Frame
    BY <1>3 DEF Top
  <2> QED  BY <1>3, <2>1, FrameIs DEF Sides
<1>11. Doomed(d.e, Passed)
  BY <1>1, <1>3, <1>5, <1>10, DoomedGoesOn DEF Astray
<1>12. Doomed(d.e, frames')
  <2>1. Len(Passed) = L
    BY <1>3 DEF Advanced
  <2>2. PICK j \in 1..L : \E i \in ClassesOf(Passed[j].file) : DoomedAt(d.e, Passed[j], i)
    BY <1>11, <2>1 DEF Doomed
  <2>3. j \in 1..Len(frames') /\ frames'[j] = Passed[j]
    BY <1>9, <2>2
  <2> QED  BY <2>2, <2>3 DEF Doomed
<1> QED  BY <1>6, <1>7, <1>12

LEMMA AstrayExecutes ==
  ASSUME SInv, Astray, NEW holds \in BOOLEAN, Execute(holds), phase' = "on"
  PROVE  Doomed(env'["zend"], frames')
<1> DEFINE new == [s \in Sides |-> IF holds /\ Top.at \in Top.runtime[s]
                                   THEN Declare(env[s], Top.file, Top.at) ELSE env[s]]
<1>1. /\ AtStatement /\ Reached.op = "class" /\ (Reached.cond \/ holds)
      /\ Proceed(new, "executed")
      /\ (\A s \in Sides : ~new[s].fatal) => frames' = Passed
  BY DEF Execute
<1>2. phase = "on" /\ frames # <<>> /\ Top.at <= Len(Body[Top.file]) /\ frames \in Seq(Frame)
  BY <1>1 DEF AtStatement, SInv
<1>3. Advanced(Passed) /\ Top \in Frame
  BY <1>2, PassedIs DEF Top
<1>4. PICK f, i, z, z2 : f = Top.file /\ i = Top.at /\ z = env["zend"] /\ z2 = new["zend"]
  OBVIOUS
<1>5. f \in Files /\ i \in ClassesOf(f) /\ (Body[f][i].cond \/ holds)
  BY <1>1, <1>2, <1>3, <1>4, FrameIs DEF ClassesOf, Statements, Reached
<1>6. Sound(z) /\ z.fatal = FALSE
  BY <1>2, <1>4 DEF SInv, Sides, Sound, Env
<1>7. z2 = IF holds /\ i \in Top.runtime["zend"] THEN Declare(z, f, i) ELSE z
  BY <1>4 DEF Sides
<1> HIDE DEF new
<1>8. env' = new /\ (\A s \in Sides : ~new[s].fatal) /\ frames' = Passed
  BY <1>1, ProceedIs
<1>9. ~z2.fatal
  BY <1>4, <1>8 DEF Sides
<1>10. LET x == Declare(z, f, i)
       IN  /\ Keeps(z, x) /\ x.fatal \in BOOLEAN /\ (x.fatal <=> ~CanDeclare(z, f, i))
  BY <1>5, <1>6, DeclareKeepsSound, ZenonT(30)
<1>11. ~DoomedAt(z, Top, Top.at)
  <2> SUFFICES ASSUME DoomedAt(z, Top, Top.at) PROVE FALSE
    OBVIOUS
  <2>1. i \in Top.runtime["zend"] /\ ~Body[f][i].cond /\ Has(z, Body[f][i].name)
    BY <1>4 DEF DoomedAt, Taken
  <2>2. z2 = Declare(z, f, i)
    BY <1>5, <1>7, <2>1
  <2> QED  BY <1>9, <1>10, <2>1, <2>2 DEF CanDeclare
<1>12. \A n \in Classes : Has(z, n) => Has(z2, n)
  BY <1>7, <1>10, KeepsHas
<1>13. Doomed(z2, Passed)
  BY <1>2, <1>3, <1>4, <1>11, <1>12, DoomedGoesOn DEF Astray
<1> QED  BY <1>4, <1>8, <1>13

LEMMA AstrayPasses ==
  ASSUME SInv, Astray, phase = "on", AtStatement, Reached.op # "class",
         frames' = Passed, \A n \in Classes : Has(env["zend"], n) => Has(env'["zend"], n)
  PROVE  Doomed(env'["zend"], frames')
<1>1. frames # <<>> /\ Top.at <= Len(Body[Top.file]) /\ frames \in Seq(Frame)
  BY DEF AtStatement, SInv
<1>2. Advanced(Passed) /\ Top \in Frame
  BY <1>1, PassedIs DEF Top
<1>3. Top.at \notin Top.runtime["zend"]
  <2>1. Top.at \notin ClassesOf(Top.file)
    BY DEF Reached, ClassesOf
  <2> QED  BY <1>2, <2>1, FrameIs DEF Sides
<1>4. Doomed(env'["zend"], Passed)
  BY <1>1, <1>2, <1>3, DoomedGoesOn DEF Astray, DoomedAt
<1> QED  BY <1>4

LEMMA AstrayReturns ==
  ASSUME SInv, Astray, Return
  PROVE  Doomed(env'["zend"], frames')
<1> DEFINE L == Len(frames)
<1>1. /\ frames # <<>> /\ Top.at > Len(Body[Top.file]) /\ frames \in Seq(Frame)
      /\ frames' = SubSeq(frames, 1, L - 1) /\ env' = env
  BY DEF Return, SInv
<1>2. L \in 1..L /\ Top \in Frame /\ Top = frames[L] /\ L \in Nat
  BY <1>1 DEF Top
<1>3. PICK j, i : /\ j \in 1..L /\ i \in ClassesOf(frames[j].file)
                  /\ DoomedAt(env["zend"], frames[j], i)
  BY DEF Astray, Doomed
<1>4. j # L
  <2> SUFFICES ASSUME j = L PROVE FALSE
    OBVIOUS
  <2>1. Top.file \in Files /\ Top.at \in Nat /\ i \in ClassesOf(Top.file) /\ i >= Top.at
    BY <1>2, <1>3, FrameIs DEF DoomedAt
  <2>2. i \in 1..Len(Body[Top.file]) /\ Len(Body[Top.file]) \in Nat
    BY <2>1, Bodies
  <2> QED  BY <1>1, <2>1, <2>2
<1>5. j \in 1..(L - 1)
  BY <1>2, <1>3, <1>4
<1> HIDE DEF L
<1>6. Len(frames') = L - 1 /\ frames'[j] = frames[j]
  BY <1>1, <1>2, <1>5
<1>7. j \in 1..Len(frames')
  BY <1>5, <1>6
<1> QED  BY <1>1, <1>3, <1>6, <1>7 DEF Doomed

LEMMA AstrayStays ==
  ASSUME SInv, AInv, phase = "on", Astray, [Next]_vars
  PROVE  AInv'
<1> SUFFICES late' /\ (phase' = "on" => Doomed(env'["zend"], frames'))
  BY DEF AInv, NoFatalOfItsOwn, Astray
<1>1. late
  BY DEF Astray
<1>2. CASE BeginRequest
  BY <1>2 DEF BeginRequest
<1>3. CASE EndRequest
  BY <1>1, <1>3 DEF EndRequest
<1>4. ASSUME NEW f \in Files, IncludeMiss(f)
      PROVE  late' /\ (phase' = "on" => Doomed(env'["zend"], frames'))
  <2>1. late' = late /\ MayInclude(f) /\ \E e, bound : Include(f, e, bound, "compiled")
    BY <1>4 DEF IncludeMiss
  <2> QED  BY <1>1, <2>1, AstrayIncludes
<1>5. ASSUME NEW f \in Files, IncludeHit(f)
      PROVE  late' /\ (phase' = "on" => Doomed(env'["zend"], frames'))
  <2>1. late' = (late \/ LeftLate(f)) /\ MayInclude(f) /\ \E e, bound, how : Include(f, e, bound, how)
    BY <1>5 DEF IncludeHit
  <2> QED  BY <1>1, <2>1, AstrayIncludes
<1>6. ASSUME NEW f \in Files, WarningCrashes(f)
      PROVE  late' /\ (phase' = "on" => Doomed(env'["zend"], frames'))
  BY <1>1, <1>6 DEF WarningCrashes
<1>7. ASSUME NEW holds \in BOOLEAN, Execute(holds)
      PROVE  late' /\ (phase' = "on" => Doomed(env'["zend"], frames'))
  <2>1. late' = late
    BY <1>7 DEF Execute
  <2> QED  BY <1>1, <1>7, <2>1, AstrayExecutes
<1>8. ASSUME NEW holds \in BOOLEAN, ExecuteFunction(holds)
      PROVE  late' /\ (phase' = "on" => Doomed(env'["zend"], frames'))
  <2> DEFINE new == [s \in Sides |-> IF holds THEN DeclareFunc(env[s], Reached.name) ELSE env[s]]
  <2>1. /\ AtStatement /\ Reached.op # "class" /\ late' = late /\ Proceed(new, "executed")
        /\ (\A s \in Sides : ~new[s].fatal) => frames' = Passed
    BY <1>8 DEF ExecuteFunction
  <2>2. \A n \in Classes : Has(env["zend"], n) => Has(new["zend"], n)
    BY DEF DeclareFunc, Fatal, Has, Sides, SInv, Sound, Env
  <2> HIDE DEF new
  <2>3. env' = new /\ (phase' = "on" => frames' = Passed)
    BY <2>1, ProceedIs
  <2> QED  BY <1>1, <2>1, <2>2, <2>3, AstrayPasses
<1>9. CASE PassRequire
  <2>1. AtStatement /\ Reached.op # "class" /\ frames' = Passed /\ late' = late /\ env' = env
    BY <1>9 DEF PassRequire
  <2> QED  BY <1>1, <2>1, AstrayPasses
<1>10. CASE Return
  <2>1. late' = late
    BY <1>10 DEF Return
  <2> QED  BY <1>1, <1>10, <2>1, AstrayReturns
<1>11. CASE UNCHANGED vars
  BY <1>1, <1>11 DEF vars, Astray
<1> QED  BY <1>2, <1>3, <1>4, <1>5, <1>6, <1>7, <1>8, <1>9, <1>10, <1>11 DEF Next

\* The end of a request is one of lpc's own only if lpc alone has the error.
LEMMA ProceedEnds ==
  ASSUME NEW new, NEW how, Proceed(new, how), how # "only lpc is fatal"
  PROVE  last' = "only lpc is fatal" => new["lpc"].fatal /\ ~new["zend"].fatal
<1>1. "fatal" # "only lpc is fatal"
  OBVIOUS
<1> QED  BY <1>1 DEF Proceed, Sides

LEMMA EntersDoomed ==
  ASSUME frames \in Seq(Frame), Advanced(Passed), NEW f \in Files, NEW bl, NEW bz,
         Enter(f, [lpc |-> bl, zend |-> bz]),
         NEW z, NEW i \in ClassesOf(f), i \notin bz, ~Body[f][i].cond, Taken(z, f, i)
  PROVE  Doomed(z, frames')
<1> DEFINE L == Len(frames)
           bound == [lpc |-> bl, zend |-> bz]
           r == frames'[L + 1]
<1>1. /\ frames' \in Seq(Frame) /\ Len(frames') = L + 1 /\ L \in Nat
      /\ r.file = f /\ r.at = 1
      /\ \A s \in Sides : r.runtime[s] = ClassesOf(f) \ bound[s]
  BY EnterIs
<1>2. r.runtime["zend"] = ClassesOf(f) \ bz
  <2>1. "zend" \in Sides /\ bound["zend"] = bz
    BY DEF Sides
  <2> HIDE DEF bound, r
  <2> QED  BY <1>1, <2>1
<1> HIDE DEF r
<1>3. i >= 1
  <2>1. ClassesOf(f) \subseteq 1..Len(Body[f])
    BY Bodies
  <2> QED  BY <2>1
<1>4. DoomedAt(z, r, i)
  BY <1>1, <1>2, <1>3 DEF DoomedAt
<1>5. L + 1 \in 1..Len(frames')
  BY <1>1
<1> QED  BY <1>1, <1>4, <1>5 DEF Doomed, r

\* A class that strays when its file is loaded, where both sides had the same classes
\* before, strays because of another that lpc has left to its instruction.
LEMMA StraysLate ==
  ASSUME NEW f \in Files, NEW k \in Nat, NEW l, NEW q, InstalledOK(l, f, k, q), q.ok,
         NEW z, NEW s, Sound(s.e), CompiledOK(z, f, k, s), Alike(l, z),
         NEW i \in ClassesOf(f), i <= k, StraysAt(Bound(f), s, f, i)
  PROVE  \E j : j \in s.bound \ Bound(f)
<1> DEFINE n == Body[f][i].name
<1>1. n \in Classes
  BY Bodies
<1>2. i \in Bound(f) /\ i \notin s.bound /\ Has(s.e, n)
  BY DEF StraysAt, Taken
<1>3. ~Has(l, n) /\ Has(q.e, n) /\ q.e.classes[n].id = <<f, i>>
  BY <1>2 DEF InstalledOK, InstalledNow
<1>4. ~Has(z, n)
  BY <1>1, <1>3 DEF Alike
<1>5. PICK j \in s.bound : s.e.classes[n].id = <<f, j>>
  BY <1>1, <1>2, <1>4 DEF CompiledOK
<1>6. j \in ClassesOf(f) /\ j <= k
  BY <1>5 DEF CompiledOK, Compiling
<1>7. Body[f][j].name = n
  BY <1>1, <1>2, <1>5, <1>6, ClassById
<1>8. ASSUME j \in Bound(f) PROVE FALSE
  <2>1. q.e.classes[n].id = <<f, j>>
    BY <1>6, <1>7, <1>8 DEF InstalledOK, InstalledNow
  <2>2. <<f, i>> = <<f, j>>
    BY <1>3, <2>1
  <2>3. i = j
    BY <2>2
  <2> QED  BY <1>2, <1>5, <2>3
<1> QED  BY <1>5, <1>8

LEMMA MissAlong ==
  ASSUME SInv, AInv, ~Astray, NEW f \in Files, IncludeMiss(f)
  PROVE  AInv'
<1> DEFINE c == Compile(env["lpc"], f)
           d == Compile(env["zend"], f)
           new == [lpc |-> c.e, zend |-> d.e]
           L == Len(Body[f])
<1>1. PICK l, z : l = env["lpc"] /\ z = env["zend"]
  OBVIOUS
<1>2. /\ MayInclude(f) /\ Proceed(new, "compiled")
      /\ (\A s \in Sides : ~new[s].fatal) => Enter(f, [lpc |-> c.bound, zend |-> d.bound])
      /\ failed' = failed /\ late' = late /\ again' = again
  BY DEF IncludeMiss, Include
<1>3. /\ phase = "on" /\ Advanced(Passed) /\ frames \in Seq(Frame)
      /\ frames # <<>> => Top.at \notin ClassesOf(Top.file)
  BY <1>2, MayIncludeIs DEF SInv
<1>4. Sound(l) /\ Sound(z) /\ ~l.fatal /\ ~z.fatal
  BY <1>1, <1>3 DEF SInv, Sides
<1>5. failed => AInv'
  BY <1>2 DEF AInv, NoFatalOfItsOwn
<1> SUFFICES ASSUME ~failed PROVE AInv'
  BY <1>5
<1>6. Along(l, z, frames) /\ (~late => OnTime(frames))
  BY <1>1, <1>3 DEF AInv
<1> DEFINE r == Compiled(l, f)[L]
           s == Compiled(z, f)[L]
<1>7. /\ Sound(c.e) /\ c.bound = r.bound /\ CompiledOK(l, f, L, r)
      /\ c.e.classes = r.e.classes /\ c.e.mangled = r.e.mangled
      /\ c.e.fatal \in BOOLEAN
      /\ c.e.fatal <=> r.e.fatal \/ l.funcs \cap Funcs[f] # {}
      /\ ~c.e.fatal => c.e.funcs = l.funcs \cup Funcs[f]
  BY <1>1, <1>4, CompileIs
<1>8. /\ Sound(d.e) /\ d.bound = s.bound /\ CompiledOK(z, f, L, s)
      /\ d.e.classes = s.e.classes /\ d.e.mangled = s.e.mangled
      /\ d.e.fatal \in BOOLEAN
      /\ d.e.fatal <=> s.e.fatal \/ z.funcs \cap Funcs[f] # {}
      /\ ~d.e.fatal => d.e.funcs = z.funcs \cup Funcs[f]
  BY <1>1, <1>4, CompileIs
<1>9. CompiledInside(f, L, r, s)
  BY <1>4, <1>6, CompiledStaysInside DEF Along
<1>10. OnTime(frames) => CompiledAlike(r, s)
  BY <1>4, <1>6, OnTimeAlike, CompiledStaysAlike
<1>11. new["lpc"] = c.e /\ new["zend"] = d.e
  OBVIOUS
<1>12. l.funcs = z.funcs
  BY <1>6 DEF Along
<1> HIDE DEF c, d, r, s, new
<1>13. env' = new
  BY <1>2, ProceedIs
<1>14. NoFatalOfItsOwn'
  <2> SUFFICES ASSUME last' = "only lpc is fatal", ~late PROVE FALSE
    BY <1>2 DEF NoFatalOfItsOwn
  <2>1. c.e.fatal /\ ~d.e.fatal
    BY <1>2, <1>11, ProceedEnds
  <2>2. r.e.fatal <=> s.e.fatal
    BY <1>6, <1>10 DEF CompiledAlike
  <2> QED  BY <1>7, <1>8, <1>12, <2>1, <2>2
<1>17. ASSUME phase' = "on", Strays(f, L, r.bound, s)
       PROVE  late /\ Doomed(d.e, frames')
  <2>1. PICK i \in ClassesOf(f) : StraysAt(r.bound, s, f, i)
    BY <1>17 DEF Strays
  <2>2. late
    BY <1>6, <1>10, <2>1 DEF CompiledAlike, StraysAt
  <2>3. \A t \in Sides : ~new[t].fatal
    BY <1>2, <1>17, ProceedIs
  <2>4. Enter(f, [lpc |-> c.bound, zend |-> d.bound])
    BY <1>2, <2>3
  <2>5. i \notin d.bound /\ ~Body[f][i].cond /\ Taken(d.e, f, i)
    BY <1>8, <2>1 DEF StraysAt, Taken, Has
  <2> QED  BY <1>3, <2>2, <2>4, <2>5, EntersDoomed
<1>15. ASSUME phase' = "on", ~Strays(f, L, r.bound, s)
       PROVE  Along(c.e, d.e, frames') /\ (~late => OnTime(frames'))
  <2>1. \A t \in Sides : ~new[t].fatal
    BY <1>2, <1>15, ProceedIs
  <2>2. ~c.e.fatal /\ ~d.e.fatal
    BY <1>11, <2>1 DEF Sides
  <2>3. Enter(f, [lpc |-> c.bound, zend |-> d.bound])
    BY <1>2, <2>1
  <2>4. Inside(r.e, s.e) /\ r.bound \subseteq s.bound /\ ~r.e.fatal /\ ~s.e.fatal
    BY <1>8, <1>9, <1>15, <2>2 DEF CompiledInside
  <2>5. Inside(c.e, d.e)
    BY <1>7, <1>8, <2>4, InsideKept DEF Has
  <2>6. c.e.funcs = d.e.funcs
    BY <1>7, <1>8, <1>12, <2>2
  <2>7. Keeps(l, c.e) /\ Keeps(z, d.e)
    BY <1>7, <1>8 DEF CompiledOK, Keeps
  <2>8. /\ \A i \in ClassesOf(f) : i <= L
        /\ c.bound \subseteq ClassesOf(f) /\ d.bound \subseteq ClassesOf(f)
    <3>1. ClassesOf(f) \subseteq 1..L
      BY Bodies
    <3>2. r \in Compiling(f) /\ s \in Compiling(f)
      BY <1>7, <1>8 DEF CompiledOK
    <3>3. c.bound \subseteq ClassesOf(f) /\ d.bound \subseteq ClassesOf(f)
      BY <1>7, <1>8, <3>2 DEF Compiling
    <3> QED  BY <3>1, <3>3
  <2>9. \A i \in ClassesOf(f) \ c.bound : IsMangled(c.e, f, i)
    BY <1>7, <2>4, <2>8 DEF CompiledOK, IsMangled
  <2>10. \A i \in ClassesOf(f) \ d.bound : IsMangled(d.e, f, i)
    BY <1>8, <2>4, <2>8 DEF CompiledOK, IsMangled
  <2>11. \A i \in c.bound : Has(c.e, Body[f][i].name)
    BY <1>7 DEF CompiledOK, Has
  <2>12. \A i \in d.bound : /\ ~Body[f][i].cond /\ Has(d.e, Body[f][i].name)
                            /\ d.e.classes[Body[f][i].name].id = <<f, i>>
    BY <1>8 DEF CompiledOK, Has
  <2>13. \A n \in Classes : Has(d.e, n) /\ ~Has(z, n) => \E i \in d.bound : d.e.classes[n].id = <<f, i>>
    BY <1>8 DEF CompiledOK, Has
  <2>14. c.bound \subseteq d.bound
    BY <1>7, <1>8, <2>4
  <2>15. /\ Along(c.e, d.e, frames')
         /\ OnTime(frames) /\ c.bound = d.bound => OnTime(frames')
    <3>1. Included(l, z, c.e, d.e, f, c.bound, d.bound)
      BY <1>8, <2>5, <2>6, <2>7, <2>8, <2>9, <2>10, <2>11, <2>12, <2>13, <2>14 DEF Included
    <3> QED  BY <1>3, <1>4, <1>6, <2>3, <3>1, IncludeAlong
  <2>16. OnTime(frames) => c.bound = d.bound
    BY <1>7, <1>8, <1>10 DEF CompiledAlike
  <2> QED  BY <1>6, <2>15, <2>16
<1>16. env'["lpc"] = c.e /\ env'["zend"] = d.e
  BY <1>11, <1>13
<1> QED  BY <1>2, <1>14, <1>15, <1>16, <1>17 DEF AInv, Astray

LEMMA HitAlong ==
  ASSUME SInv, AInv, ~Astray, NEW f \in Files, IncludeHit(f)
  PROVE  AInv'
<1> DEFINE q == InstallClasses(env["lpc"], f)
           x == InstallFuncs(q.e, f)
           d == Compile(env["zend"], f)
           how == IF q.ok THEN "installed" ELSE "failed"
           new == [lpc |-> x, zend |-> d.e]
           L == Len(Body[f])
<1>1. PICK l, z : l = env["lpc"] /\ z = env["zend"]
  OBVIOUS
<1>2. /\ MayInclude(f) /\ cache[f] # None /\ Proceed(new, how)
      /\ (\A s \in Sides : ~new[s].fatal) => Enter(f, [lpc |-> Bound(f), zend |-> d.bound])
      /\ failed' = (failed \/ ~q.ok) /\ late' = (late \/ d.bound \ Bound(f) # {})
      /\ again' = (again \/ (f \in included /\ CondFuncs(f) # {}))
  BY DEF IncludeHit, Include, LeftLate
<1>3. /\ phase = "on" /\ Advanced(Passed) /\ frames \in Seq(Frame)
      /\ frames # <<>> => Top.at \notin ClassesOf(Top.file)
  BY <1>2, MayIncludeIs DEF SInv
<1>4. Sound(l) /\ Sound(z) /\ ~l.fatal /\ ~z.fatal /\ RowOK(f, cache[f])
  BY <1>1, <1>2, <1>3 DEF SInv, Sides, RowsOK
<1>5. failed \/ ~q.ok => AInv'
  BY <1>2 DEF AInv, NoFatalOfItsOwn
<1> SUFFICES ASSUME ~failed, q.ok PROVE AInv'
  BY <1>5
<1>6. Along(l, z, frames) /\ (~late => OnTime(frames))
  BY <1>1, <1>3 DEF AInv
<1> DEFINE s == Compiled(z, f)[L]
<1>7. /\ InstalledOK(l, f, L, q) /\ Sound(x)
      /\ x.classes = q.e.classes /\ x.mangled = q.e.mangled
      /\ x.fatal \in BOOLEAN
      /\ x.fatal <=> Keys \cap CondFuncs(f) # {} \/ l.funcs \cap Funcs[f] # {}
      /\ ~x.fatal => x.funcs = l.funcs \cup Funcs[f]
  BY <1>1, <1>4, HitIs
<1>8. /\ Sound(d.e) /\ d.bound = s.bound /\ CompiledOK(z, f, L, s)
      /\ d.e.classes = s.e.classes /\ d.e.mangled = s.e.mangled
      /\ d.e.fatal \in BOOLEAN
      /\ d.e.fatal <=> s.e.fatal \/ z.funcs \cap Funcs[f] # {}
      /\ ~d.e.fatal => d.e.funcs = z.funcs \cup Funcs[f]
  BY <1>1, <1>4, CompileIs
<1>9. InstalledInside(f, L, q, s)
  BY <1>1, <1>4, <1>6, InstalledStaysInside DEF Along, InstallClasses
<1>10. how # "only lpc is fatal"
  OBVIOUS
<1>11. new["lpc"] = x /\ new["zend"] = d.e
  OBVIOUS
<1>12. l.funcs = z.funcs
  BY <1>6 DEF Along
<1> HIDE DEF q, d, x, s, new, how
<1>13. env' = new
  BY <1>2, ProceedIs
<1>14. NoFatalOfItsOwn'
  <2> SUFFICES ASSUME last' = "only lpc is fatal" PROVE again'
    BY DEF NoFatalOfItsOwn
  <2>1. x.fatal /\ ~d.e.fatal
    BY <1>2, <1>10, <1>11, ProceedEnds
  <2>2. Keys \cap CondFuncs(f) # {}
    BY <1>7, <1>8, <1>12, <2>1
  <2>3. f \in included /\ CondFuncs(f) # {}
    BY <2>2 DEF Keys, CondFuncs
  <2> QED  BY <1>2, <2>3
<1>17. ASSUME phase' = "on", Strays(f, L, Bound(f), s)
       PROVE  late' /\ Doomed(d.e, frames')
  <2>1. PICK i \in ClassesOf(f) : i <= L /\ StraysAt(Bound(f), s, f, i)
    BY <1>17 DEF Strays
  <2>2. ~late => \E j : j \in d.bound \ Bound(f)
    <3> SUFFICES ASSUME ~late PROVE \E j : j \in d.bound \ Bound(f)
      OBVIOUS
    <3>1. Alike(l, z) /\ L \in Nat /\ Sound(s.e)
      BY <1>6, <1>8, OnTimeAlike, Bodies DEF CompiledOK
    <3>2. \E j : j \in s.bound \ Bound(f)
      BY <1>7, <1>8, <2>1, <3>1, StraysLate
    <3> QED  BY <1>8, <3>2
  <2>3. late'
    BY <1>2, <2>2
  <2>4. \A t \in Sides : ~new[t].fatal
    BY <1>2, <1>17, ProceedIs
  <2>5. Enter(f, [lpc |-> Bound(f), zend |-> d.bound])
    BY <1>2, <2>4
  <2>6. i \notin d.bound /\ ~Body[f][i].cond /\ Taken(d.e, f, i)
    BY <1>8, <2>1 DEF StraysAt, Taken, Has
  <2> QED  BY <1>3, <2>3, <2>5, <2>6, EntersDoomed
<1>15. ASSUME phase' = "on", ~Strays(f, L, Bound(f), s)
       PROVE  Along(x, d.e, frames') /\ (~late' => OnTime(frames'))
  <2>1. \A t \in Sides : ~new[t].fatal
    BY <1>2, <1>15, ProceedIs
  <2>2. ~x.fatal /\ ~d.e.fatal
    BY <1>11, <2>1 DEF Sides
  <2>3. Enter(f, [lpc |-> Bound(f), zend |-> d.bound])
    BY <1>2, <2>1
  <2>8. /\ \A i \in ClassesOf(f) : i <= L
        /\ Bound(f) \subseteq ClassesOf(f) /\ d.bound \subseteq ClassesOf(f)
    BY <1>8, Bodies DEF CompiledOK, Compiling, Bound
  <2>4. Inside(q.e, s.e) /\ Bound(f) \subseteq s.bound /\ ~s.e.fatal
    BY <1>8, <1>9, <1>15, <2>2, <2>8 DEF InstalledInside
  <2>5. Inside(x, d.e)
    BY <1>7, <1>8, <2>4, InsideKept DEF Has
  <2>6. x.funcs = d.e.funcs
    BY <1>7, <1>8, <1>12, <2>2
  <2>7. Keeps(l, x) /\ Keeps(z, d.e)
    BY SMTT(30), <1>7, <1>8 DEF CompiledOK, InstalledOK, Keeps
  <2>9. \A i \in ClassesOf(f) \ Bound(f) : IsMangled(x, f, i)
    BY <1>7, <2>8 DEF InstalledOK, IsMangled
  <2>10. \A i \in ClassesOf(f) \ d.bound : IsMangled(d.e, f, i)
    BY <1>8, <2>4, <2>8 DEF CompiledOK, IsMangled
  <2>11. \A i \in Bound(f) : Has(x, Body[f][i].name)
    BY <1>7, <2>8 DEF InstalledOK, InstalledNow, Has
  <2>12. \A i \in d.bound : /\ ~Body[f][i].cond /\ Has(d.e, Body[f][i].name)
                            /\ d.e.classes[Body[f][i].name].id = <<f, i>>
    BY <1>8 DEF CompiledOK, Has
  <2>13. \A n \in Classes : Has(d.e, n) /\ ~Has(z, n) => \E i \in d.bound : d.e.classes[n].id = <<f, i>>
    BY <1>8 DEF CompiledOK, Has
  <2>14. Bound(f) \subseteq d.bound
    BY <1>8, <2>4
  <2>15. /\ Along(x, d.e, frames')
         /\ OnTime(frames) /\ Bound(f) = d.bound => OnTime(frames')
    <3>1. Included(l, z, x, d.e, f, Bound(f), d.bound)
      BY <1>8, <2>5, <2>6, <2>7, <2>8, <2>9, <2>10, <2>11, <2>12, <2>13, <2>14 DEF Included
    <3> QED  BY <1>3, <1>4, <1>6, <2>3, <3>1, IncludeAlong
  <2>16. ~late' => ~late /\ Bound(f) = d.bound
    BY <1>2, <2>14
  <2> QED  BY <1>6, <2>15, <2>16
<1>16. env'["lpc"] = x /\ env'["zend"] = d.e
  BY <1>11, <1>13
<1> QED  BY <1>14, <1>15, <1>16, <1>17 DEF AInv, Astray

LEMMA ExecuteGoesAlong ==
  ASSUME SInv, AInv, ~Astray, NEW holds \in BOOLEAN, Execute(holds)
  PROVE  AInv'
<1> DEFINE new == [s \in Sides |-> IF holds /\ Top.at \in Top.runtime[s]
                                   THEN Declare(env[s], Top.file, Top.at) ELSE env[s]]
<1>1. /\ AtStatement /\ Reached.op = "class" /\ (Reached.cond \/ holds)
      /\ Proceed(new, "executed")
      /\ (\A s \in Sides : ~new[s].fatal) => frames' = Passed
      /\ failed' = failed /\ late' = late /\ again' = again
  BY DEF Execute
<1>2. phase = "on" /\ frames # <<>> /\ Top.at <= Len(Body[Top.file]) /\ frames \in Seq(Frame)
  BY <1>1 DEF AtStatement, SInv
<1>3. Advanced(Passed) /\ Top \in Frame
  BY <1>2, PassedIs DEF Top
<1>4. PICK f, i : f = Top.file /\ i = Top.at
  OBVIOUS
<1>5. i \in ClassesOf(f) /\ (Body[f][i].cond \/ holds)
  BY <1>1, <1>2, <1>3, <1>4, FrameIs DEF ClassesOf, Statements, Reached
<1>6. PICK l, z : l = env["lpc"] /\ z = env["zend"]
  OBVIOUS
<1>7. Sound(l) /\ Sound(z) /\ ~l.fatal /\ ~z.fatal
  BY <1>2, <1>6 DEF SInv, Sides
<1>8. PICK l2, z2 : l2 = new["lpc"] /\ z2 = new["zend"]
  OBVIOUS
<1>9. /\ l2 = IF holds /\ i \in Top.runtime["lpc"] THEN Declare(l, f, i) ELSE l
      /\ z2 = IF holds /\ i \in Top.runtime["zend"] THEN Declare(z, f, i) ELSE z
  BY <1>4, <1>6, <1>8 DEF Sides
<1> HIDE DEF new
<1>10. env' = new
  BY <1>1, ProceedIs
<1>11. failed => AInv'
  BY <1>1 DEF AInv, NoFatalOfItsOwn
<1> SUFFICES ASSUME ~failed PROVE AInv'
  BY <1>11
<1>12. Along(l, z, frames) /\ (~late => OnTime(frames))
  BY <1>2, <1>6 DEF AInv
<1>13. /\ ~l2.fatal /\ ~z2.fatal => Along(l2, z2, Passed)
       /\ OnTime(frames) => OnTime(Passed) /\ (l2.fatal => z2.fatal)
  BY <1>2, <1>3, <1>4, <1>5, <1>7, <1>9, <1>12, ExecuteAlong
<1>14. NoFatalOfItsOwn'
  <2> SUFFICES ASSUME last' = "only lpc is fatal", ~late PROVE FALSE
    BY <1>1 DEF NoFatalOfItsOwn
  <2>1. l2.fatal /\ ~z2.fatal
    BY <1>1, <1>8, ProceedEnds
  <2> QED  BY <1>12, <1>13, <2>1
<1>15. ASSUME phase' = "on"
       PROVE  Along(l2, z2, frames') /\ (~late => OnTime(frames'))
  <2>1. \A t \in Sides : ~new[t].fatal
    BY <1>1, <1>15, ProceedIs
  <2>2. ~l2.fatal /\ ~z2.fatal /\ frames' = Passed
    BY <1>1, <1>8, <2>1 DEF Sides
  <2> QED  BY <1>12, <1>13, <2>2
<1>16. env'["lpc"] = l2 /\ env'["zend"] = z2
  BY <1>8, <1>10
<1> QED  BY <1>1, <1>14, <1>15, <1>16 DEF AInv

LEMMA ExecuteFunctionAlong ==
  ASSUME SInv, AInv, ~Astray, NEW holds \in BOOLEAN, ExecuteFunction(holds)
  PROVE  AInv'
<1> DEFINE new == [s \in Sides |-> IF holds THEN DeclareFunc(env[s], Reached.name) ELSE env[s]]
<1>1. /\ AtStatement /\ Reached.op = "function" /\ Proceed(new, "executed")
      /\ (\A s \in Sides : ~new[s].fatal) => frames' = Passed
      /\ failed' = failed /\ late' = late /\ again' = again
  BY DEF ExecuteFunction
<1>2. phase = "on" /\ frames # <<>> /\ frames \in Seq(Frame)
  BY <1>1 DEF AtStatement, SInv
<1>3. /\ Advanced(Passed) /\ Top.at \notin ClassesOf(Top.file) /\ Reached.name \in Functions
  BY <1>1, <1>2, ReachedIs
<1>4. PICK l, z, k : l = env["lpc"] /\ z = env["zend"] /\ k = Reached.name
  OBVIOUS
<1>5. Sound(l) /\ Sound(z) /\ ~l.fatal /\ ~z.fatal /\ l.fatal = FALSE /\ z.fatal = FALSE
  BY <1>2, <1>4 DEF SInv, Sides, Sound, Env
<1>6. PICK l2, z2 : l2 = new["lpc"] /\ z2 = new["zend"]
  OBVIOUS
<1>7. /\ l2 = IF holds THEN DeclareFunc(l, k) ELSE l
      /\ z2 = IF holds THEN DeclareFunc(z, k) ELSE z
  BY <1>4, <1>6 DEF Sides
<1> HIDE DEF new
<1>8. env' = new
  BY <1>1, ProceedIs
<1>9. failed => AInv'
  BY <1>1 DEF AInv, NoFatalOfItsOwn
<1> SUFFICES ASSUME ~failed PROVE AInv'
  BY <1>9
<1>10. Along(l, z, frames) /\ (~late => OnTime(frames))
  BY <1>2, <1>4 DEF AInv
<1>11. l.funcs = z.funcs /\ Inside(l, z)
  BY <1>10 DEF Along
<1>18. k \in Functions
  BY <1>3, <1>4
<1>12. LET x == DeclareFunc(l, k)
       IN  /\ Sound(x) /\ Keeps(l, x) /\ x.classes = l.classes
           /\ x.fatal \in BOOLEAN /\ (x.fatal <=> k \in l.funcs)
           /\ ~x.fatal => x.funcs = l.funcs \cup {k}
  BY <1>5, <1>18, DeclareFuncIs
<1>13. LET x == DeclareFunc(z, k)
       IN  /\ Sound(x) /\ Keeps(z, x) /\ x.classes = z.classes
           /\ x.fatal \in BOOLEAN /\ (x.fatal <=> k \in z.funcs)
           /\ ~x.fatal => x.funcs = z.funcs \cup {k}
  BY <1>5, <1>18, DeclareFuncIs
<1>14. /\ Keeps(l, l2) /\ Keeps(z, z2) /\ l2.classes = l.classes /\ z2.classes = z.classes
       /\ l2.fatal <=> z2.fatal
       /\ ~l2.fatal => l2.funcs = z2.funcs
  <2>1. Keeps(l, l) /\ Keeps(z, z)
    BY DEF Keeps
  <2> QED  BY <1>5, <1>7, <1>11, <1>12, <1>13, <2>1
<1>15. NoFatalOfItsOwn'
  <2> SUFFICES ASSUME last' = "only lpc is fatal" PROVE FALSE
    BY DEF NoFatalOfItsOwn
  <2>1. l2.fatal /\ ~z2.fatal
    BY <1>1, <1>6, ProceedEnds
  <2> QED  BY <1>14, <2>1
<1>16. ASSUME phase' = "on"
       PROVE  Along(l2, z2, frames') /\ (~late => OnTime(frames'))
  <2>1. \A t \in Sides : ~new[t].fatal
    BY <1>1, <1>16, ProceedIs
  <2>2. ~l2.fatal /\ frames' = Passed
    BY <1>1, <1>6, <2>1 DEF Sides
  <2>3. /\ \A j \in 1..Len(frames) : FrameAlong(l2, z2, Passed[j])
        /\ \A n \in Classes : Has(z, n) /\ ~Has(l2, n) => Pending(Passed, z2, n)
    BY <1>2, <1>3, <1>5, <1>10, <1>14, GoOn
  <2>4. Inside(l2, z2) /\ \A n \in Classes : Has(z2, n) => Has(z, n)
    BY <1>11, <1>14, InsideKept DEF Has
  <2>5. Len(Passed) = Len(frames)
    BY <1>3 DEF Advanced
  <2>6. Along(l2, z2, Passed)
    BY <1>14, <2>2, <2>3, <2>4, <2>5 DEF Along
  <2>7. OnTime(frames) => OnTime(Passed)
    BY <1>3 DEF OnTime, Advanced
  <2> QED  BY <1>10, <2>2, <2>6, <2>7
<1>17. env'["lpc"] = l2 /\ env'["zend"] = z2
  BY <1>6, <1>8
<1> QED  BY <1>1, <1>15, <1>16, <1>17 DEF AInv

\* Between the installations that fail, whatever is compiled or loaded and in whatever
\* order: the request with lpc has no class that the one without has not, each is the same
\* class bound to the same parent, and what it lacks a file in execution will declare; or
\* else the one without will end with a fatal error.
THEOREM GoesAlong == Spec => []AInv
<1>1. Init => AInv
  <2> SUFFICES ASSUME Init PROVE AInv
    OBVIOUS
  <2>1. phase = "off" /\ last = "none"
    BY DEF Init
  <2> QED  BY <2>1 DEF AInv, NoFatalOfItsOwn
<1>2. SInv /\ AInv /\ [Next]_vars => AInv'
  <2>11. SInv /\ AInv /\ [Next]_vars /\ phase = "on" /\ Astray => AInv'
    BY AstrayStays
  <2> SUFFICES ASSUME SInv, AInv, [Next]_vars, ~(phase = "on" /\ Astray) PROVE AInv'
    BY <2>11
  <2>1. CASE BeginRequest
    <3>1. /\ env' = [s \in Sides |-> Empty] /\ frames' = frames /\ frames = <<>> /\ last' = "none"
      BY <2>1 DEF BeginRequest, SInv
    <3>2. env'["lpc"] = Empty /\ env'["zend"] = Empty
      BY <3>1 DEF Sides
    <3>3. Along(Empty, Empty, <<>>) /\ OnTime(<<>>)
      BY EmptyIsSound DEF Along, OnTime, Inside
    <3>4. Along(env["lpc"], env["zend"], frames)' /\ OnTime(frames)'
      BY <3>1, <3>2, <3>3
    <3> QED  BY <3>1, <3>4 DEF AInv, NoFatalOfItsOwn
  <2>2. CASE EndRequest
    BY <2>2 DEF EndRequest, AInv, NoFatalOfItsOwn
  <2>3. ASSUME NEW f \in Files, IncludeMiss(f) PROVE AInv'
    <3>1. phase = "on"
      BY <2>3 DEF IncludeMiss, MayInclude
    <3> QED  BY <2>3, <3>1, MissAlong
  <2>4. ASSUME NEW f \in Files, IncludeHit(f) PROVE AInv'
    <3>1. phase = "on"
      BY <2>4 DEF IncludeHit, MayInclude
    <3> QED  BY <2>4, <3>1, HitAlong
  <2>5. ASSUME NEW f \in Files, WarningCrashes(f) PROVE AInv'
    BY <2>5 DEF WarningCrashes, AInv, NoFatalOfItsOwn
  <2>6. ASSUME NEW holds \in BOOLEAN, Execute(holds) PROVE AInv'
    <3>1. phase = "on"
      BY <2>6 DEF Execute, AtStatement
    <3> QED  BY <2>6, <3>1, ExecuteGoesAlong
  <2>10. ASSUME NEW holds \in BOOLEAN, ExecuteFunction(holds) PROVE AInv'
    <3>1. phase = "on"
      BY <2>10 DEF ExecuteFunction, AtStatement
    <3> QED  BY <2>10, <3>1, ExecuteFunctionAlong
  <2>7. CASE PassRequire
    <3>1. /\ AtStatement /\ Reached.op = "require" /\ frames' = Passed
          /\ UNCHANGED <<env, phase, failed, late, again, last>>
      BY <2>7 DEF PassRequire
    <3>2. /\ phase = "on" /\ frames \in Seq(Frame) /\ frames # <<>>
          /\ Top.at <= Len(Body[Top.file]) /\ Top.at \notin ClassesOf(Top.file)
      BY <3>1 DEF AtStatement, SInv, Reached, ClassesOf
    <3>3. Advanced(Passed)
      BY <3>2, PassedIs
    <3>4. PICK l, z : l = env["lpc"] /\ z = env["zend"]
      OBVIOUS
    <3>5. ASSUME ~failed PROVE Along(l, z, Passed) /\ (~late => OnTime(Passed))
      <4>1. Along(l, z, frames) /\ (~late => OnTime(frames)) /\ Sound(z)
        BY <3>2, <3>4, <3>5 DEF AInv, SInv, Sides
      <4>2. Keeps(l, l) /\ Keeps(z, z)
        BY DEF Keeps
      <4>3. /\ \A j \in 1..Len(frames) : FrameAlong(l, z, Passed[j])
            /\ \A n \in Classes : Has(z, n) /\ ~Has(l, n) => Pending(Passed, z, n)
        BY <3>2, <3>3, <4>1, <4>2, GoOn
      <4>4. Len(Passed) = Len(frames)
        BY <3>3 DEF Advanced
      <4>5. Along(l, z, Passed)
        BY <4>1, <4>3, <4>4 DEF Along
      <4>6. OnTime(frames) => OnTime(Passed)
        BY <3>3 DEF OnTime, Advanced
      <4> QED  BY <4>1, <4>5, <4>6
    <3>6. env'["lpc"] = l /\ env'["zend"] = z
      BY <3>1, <3>4
    <3> QED  BY <3>1, <3>5, <3>6 DEF AInv, NoFatalOfItsOwn
  <2>8. CASE Return
    <3>1. /\ phase = "on" /\ frames # <<>> /\ Top.at > Len(Body[Top.file])
          /\ frames' = SubSeq(frames, 1, Len(frames) - 1)
          /\ UNCHANGED <<env, phase, failed, late, again, last>>
      BY <2>8 DEF Return
    <3>2. frames \in Seq(Frame)
      BY DEF SInv
    <3>3. PICK l, z, fs : /\ l = env["lpc"] /\ z = env["zend"]
                          /\ fs = SubSeq(frames, 1, Len(frames) - 1)
      OBVIOUS
    <3>4. ASSUME ~failed PROVE Along(l, z, fs) /\ (~late => OnTime(fs))
      <4>1. Along(l, z, frames) /\ (~late => OnTime(frames))
        BY <3>1, <3>3, <3>4 DEF AInv
      <4> QED  BY <3>1, <3>2, <3>3, <4>1, ReturnAlong
    <3>5. env'["lpc"] = l /\ env'["zend"] = z /\ frames' = fs
      BY <3>1, <3>3
    <3> QED  BY <3>1, <3>4, <3>5 DEF AInv, NoFatalOfItsOwn
  <2>9. CASE UNCHANGED vars
    BY <2>9 DEF vars, AInv, Astray, NoFatalOfItsOwn
  <2> QED  BY <2>1, <2>2, <2>3, <2>4, <2>5, <2>6, <2>7, <2>8, <2>9, <2>10 DEF Next
<1> QED  BY <1>1, <1>2, Invariance, PTL DEF Spec

\* lpc has no fatal error of its own, unless an installation has failed, a class was left
\* to its instruction that a compile would have bound, or a file with a function within a
\* condition was loaded a second time.
THEOREM FatalAsWithout == Spec => []NoFatalOfItsOwn
<1>1. AInv => NoFatalOfItsOwn
  BY DEF AInv
<1> QED  BY <1>1, GoesAlong, PTL

\* The classes and functions a request has declared with lpc are those it has without,
\* whenever its files are through: of the same statement and parent, with the same members,
\* and with the same magic methods as far as the copy-in finds their fields.
THEOREM LoadsTheSame == Spec => []Transparent
<1>1. SInv /\ AInv => Transparent
  <2> SUFFICES ASSUME SInv, AInv, phase = "on", frames = <<>>, ~failed
               PROVE  /\ \A n \in Classes :
                            /\ Has(env["lpc"], n) <=> Has(env["zend"], n)
                            /\ Has(env["lpc"], n) =>
                                  Same(env["lpc"].classes[n], env["zend"].classes[n])
                      /\ env["lpc"].funcs = env["zend"].funcs
    BY DEF Transparent
  <2>1. PICK l, z : l = env["lpc"] /\ z = env["zend"]
    OBVIOUS
  <2>5. ~Astray
    <3>1. Len(frames) = 0 /\ 1..0 = {}
      OBVIOUS
    <3> QED  BY <3>1 DEF Astray, Doomed
  <2>2. Along(l, z, <<>>) /\ OnTime(<<>>)
    BY <2>1, <2>5 DEF AInv, OnTime
  <2>3. l.funcs = z.funcs /\ Inside(l, z)
    BY <2>2 DEF Along
  <2>4. Alike(l, z)
    BY <2>2, OnTimeAlike
  <2> QED  BY <2>1, <2>3, <2>4 DEF Alike, Inside
<1> QED  BY <1>1, Invariance, GoesAlong, PTL
=============================================================================
