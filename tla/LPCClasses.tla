---------------------------- MODULE LPCClasses ----------------------------
(***************************************************************************)
(* Loading classes and functions from the cache instead of compiling them  *)
(* (src/lpc/lpc_copy_class.c, lpc_copy_function.c, lpc_copy_source.c).     *)
(*                                                                         *)
(* The Zend compiler binds a class while it compiles the file, if it can:  *)
(* a class without a parent at once, a class whose parent is declared by   *)
(* then to that parent.  Any other class is left under a mangled name, and *)
(* an instruction declares it when it is executed.  lpc stores what one    *)
(* compile came to, and has to make up for the difference when the file is *)
(* loaded in a request that declares its classes in another order: the     *)
(* members that a bound class has inherited are left out when it is stored, *)
(* and inherited again, from what its parent is then, when it is loaded.   *)
(*                                                                         *)
(* Two requests run side by side here, one with lpc and one without, and   *)
(* do the same; what they declare is compared.  The compiler is Zend's and *)
(* is modelled as far as lpc relies on it.                                 *)
(***************************************************************************)
EXTENDS Naturals, Sequences, FiniteSets

CONSTANTS
    Files,
    Classes,
    Members,    \* names of methods, properties, static members and constants
    Methods,    \* those of methods
    Magic,      \* methods that a class entry also has a field for: the
                \* constructor, __get, __toString ...
    Matched,    \* those that the copy-in finds the field of
    None,
    Body,       \* what each file does, see Statement
    Functions,
    Funcs,      \* those it declares outside of any condition
    MaxDepth,   \* bound: files in execution at a time
    MaxReqs     \* bound: requests

\* A class, with a parent or None, perhaps within a condition, and the members it
\* declares; a function within a condition; or a require_once.
Class(n, parent, cond, own) ==
    [op |-> "class", name |-> n, parent |-> parent, cond |-> cond, own |-> own]
CondFunction(n) == [op |-> "function", name |-> n]
Require(f)      == [op |-> "require", file |-> f]
Statement ==
    [op : {"class"}, name : Classes, parent : Classes \cup {None}, cond : BOOLEAN,
     own : SUBSET Members]
    \cup [op : {"function"}, name : Functions]
    \cup [op : {"require"}, file : Files]

ASSUME ClassConstants ==
    /\ None \notin Classes \cup Files
    /\ Matched \subseteq Magic /\ Magic \subseteq Methods /\ Methods \subseteq Members
    /\ Body \in [Files -> Seq(Statement)]
    /\ \A f \in Files : Funcs[f] \subseteq Functions
    /\ MaxDepth \in Nat
    /\ MaxReqs \in Nat

Sides == {"lpc", "zend"}

VARIABLES
    env,      \* the class and function tables of each side
    included, \* files included so far
    frames,   \* files in execution: statement reached, and for each side the
              \* statements whose declaring instruction has not become a NOP
    cache,    \* per file, None or what is stored of each class: is it bound to
              \* its name, and its tables of members
    saved,    \* the same, in the database
    phase,    \* "off", "on", "crashed"
    failed,   \* history: lpc has failed to install the classes of a file
    late,     \* history: lpc has left a class to its instruction that was not
              \* bound when its file was cached, but would be by a compile now
    again,    \* history: a file with a function within a condition has been loaded
              \* from the cache in a request that had included it before
    last,     \* history: what the last include made of the lpc side
    reqs

vars == <<env, included, frames, cache, saved, phase, failed, late, again, last, reqs>>

Statements(f) == 1..Len(Body[f])
ClassesOf(f)  == {i \in Statements(f) : Body[f][i].op = "class"}
CondFuncs(f)  == {<<f, i>> : i \in {k \in Statements(f) : Body[f][k].op = "function"}}

\* A member stands for its declaration, by the class that is the scope of a method
\* and the owner of the value the tables of all heirs point to; a class for its
\* statement.  The body of a class has the tables of members and the fields of magic
\* methods.
Ids   == {<<f, i>> : f \in Files, i \in UNION {Statements(f) : f \in Files}}
Table == [Members -> Ids \cup {None}]
Entry == [table : Table, slots : [Magic -> Ids \cup {None}]]
Decl  == [id : Ids, parent : Classes \cup {None}, base : Ids \cup {None}, entry : Entry]
Empty == [classes |-> [n \in Classes |-> None], mangled |-> {}, funcs |-> {},
          fatal |-> FALSE]

\* None stands for what is not there.
ASSUME NoneIsNone == None \notin Ids /\ None \notin Decl

Has(e, n) == e.classes[n] # None

TypeOK ==
    /\ \A s \in Sides :
          /\ \A n \in Classes : Has(env[s], n) => env[s].classes[n] \in Decl
          /\ \A m \in env[s].mangled :
                m.id[1] \in Files /\ m.id[2] \in ClassesOf(m.id[1]) /\ m.entry \in Entry
          /\ env[s].funcs \subseteq Functions
    /\ included \subseteq Files
    /\ \A i \in DOMAIN frames :
          /\ frames[i].file \in Files
          /\ frames[i].at \in 1..(Len(Body[frames[i].file]) + 1)
          /\ \A s \in Sides : frames[i].runtime[s] \subseteq ClassesOf(frames[i].file)
    /\ \A f \in Files : \A c \in {cache[f], saved[f]} : 
          c # None => c \in [ClassesOf(f) -> [bound : BOOLEAN, table : Table]]
    /\ phase \in {"off", "on", "crashed"}
    /\ failed \in BOOLEAN /\ late \in BOOLEAN /\ again \in BOOLEAN
    /\ reqs \in 0..MaxReqs

Init ==
    /\ env = [s \in Sides |-> Empty]
    /\ included = {}
    /\ frames = <<>>
    /\ cache = [f \in Files |-> None]
    /\ saved = cache
    /\ phase = "off"
    /\ failed = FALSE /\ late = FALSE /\ again = FALSE
    /\ last = "none"
    /\ reqs = 0

-----------------------------------------------------------------------------
(* The class table *)
Fatal(e) == [e EXCEPT !.fatal = TRUE]

\* A class as its statement declares it, and as it is when it has inherited from
\* the class d: what it lacks is the parent's.
Declared(f, i) ==
    LET Own(M) == [m \in M |-> IF m \in Body[f][i].own THEN <<f, i>> ELSE None]
    IN  [table |-> Own(Members), slots |-> Own(Magic)]

Inherit(c, d) ==
    LET Fill(own, parent) == [m \in DOMAIN own |-> IF own[m] = None THEN parent[m] ELSE own[m]]
    IN  [table |-> Fill(c.table, d.table), slots |-> Fill(c.slots, d.slots)]

\* Faulty variant of Mangle: the mangled name holds the class, not its place.
MangleByName(e, f, i, c) ==
    [e EXCEPT !.mangled = @ \cup {[id |-> <<f, Body[f][i].name>>, entry |-> c]}]

\* A mangled name is that of the file and the place in it.
IsMangled(e, f, i) == \E m \in e.mangled : m.id = <<f, i>>
Mangle(e, f, i, c) ==
    IF IsMangled(e, f, i) THEN e
    ELSE [e EXCEPT !.mangled = @ \cup {[id |-> <<f, i>>, entry |-> c]}]

\* Declare the class of a statement under its name and inherit (from the class
\* that has the parent's name now).
Bind(e, f, i, c) ==
    LET p == Body[f][i].parent
        d == [id |-> <<f, i>>, parent |-> p, base |-> None, entry |-> c]
    IN  [e EXCEPT !.classes[Body[f][i].name] =
           IF p = None THEN d
           ELSE [d EXCEPT !.base = e.classes[p].id, !.entry = Inherit(c, e.classes[p].entry)]]

CanInherit(e, f, i) == Body[f][i].parent = None \/ Has(e, Body[f][i].parent)

AddFuncs(e, f) ==
    IF e.funcs \cap Funcs[f] # {} THEN Fatal(e) ELSE [e EXCEPT !.funcs = @ \cup Funcs[f]]

\* A function within a condition goes into the table too, under a mangled name: that
\* of the file and the place in it.  A compile replaces what has the name already.
Keys == UNION {CondFuncs(f) : f \in included}

\* Faulty variant of InstallFuncs: the functions are forgotten.
InstallNoFuncs(e, f) == e

\* lpc_install_functions adds all that it has stored, and has a fatal error if one
\* has its name taken, mangled or not.
InstallFuncs(e, f) == IF Keys \cap CondFuncs(f) # {} THEN Fatal(e) ELSE AddFuncs(e, f)

\* A class without a parent is left to its instruction if its name is taken; a class
\* with one is a compile error then.
Taken(e, f, i) == Body[f][i].parent = None /\ Has(e, Body[f][i].name)

\* zend_compile_file: the table after it, and the classes it has bound.
CompileClass(r, f, i) ==
    LET s == Body[f][i]
    IN  IF r.e.fatal THEN r
        ELSE IF s.cond \/ ~CanInherit(r.e, f, i) \/ Taken(r.e, f, i)
             THEN [r EXCEPT !.e = Mangle(r.e, f, i, Declared(f, i))]
        ELSE IF Has(r.e, s.name) THEN [r EXCEPT !.e = Fatal(r.e)]
        ELSE [e |-> Bind(r.e, f, i, Declared(f, i)), bound |-> r.bound \cup {i}]

Compiled(e, f) ==
    LET after[k \in 0..Len(Body[f])] ==
            IF k = 0 THEN [e |-> e, bound |-> {}]
            ELSE IF k \in ClassesOf(f) THEN CompileClass(after[k-1], f, k)
            ELSE after[k-1]
    IN  after

Compile(e, f) ==
    LET r == Compiled(e, f)[Len(Body[f])]
    IN  [r EXCEPT !.e = IF r.e.fatal THEN r.e ELSE AddFuncs(r.e, f)]

\* Faulty variant of IsLocal: what a class has inherited is stored with it.
IsLocalAll(e, d, m) == TRUE

\* The filters of the copy-out: a method is local if its scope is the class, any
\* other member if the parent has none of the name, or one with another value.
IsLocal(e, d, m) ==
    \/ d.parent = None
    \/ m \in Methods /\ d.entry.table[m] = d.id
    \/ m \notin Methods /\ e.classes[d.parent].entry.table[m] # d.entry.table[m]

\* The copy-out of the class entries of a file the compiler has just come to.
CopyOut(e, f, bound) ==
    [i \in ClassesOf(f) |->
        LET d == e.classes[Body[f][i].name]
        IN  IF i \notin bound THEN [bound |-> FALSE, table |-> Declared(f, i).table]
            ELSE [bound |-> TRUE,
                  table |-> [m \in Members |->
                                IF IsLocal(e, d, m) THEN d.entry.table[m] ELSE None]]]

Bound(f) == {i \in ClassesOf(f) : cache[f][i].bound}

\* The copy-in of one: its scalars are zeroed, and the fields of magic methods are
\* set for those of the local methods whose names, as they were written, match.
CopyIn(c) == [table |-> c.table,
              slots |-> [m \in Magic |-> IF m \in Matched THEN c.table[m] ELSE None]]

\* lpc_install_classes, one class: bound classes need their parent, if they
\* have one, and their name to be free; mangled ones are added unless there.
Installable(e, f, i) == CanInherit(e, f, i) /\ ~Has(e, Body[f][i].name)

\* Faulty variant of InstallClass: a mangled class is not installed.
InstallBoundOnly(r, f, i) ==
    IF ~r.ok \/ ~cache[f][i].bound THEN r
    ELSE IF Installable(r.e, f, i) THEN [r EXCEPT !.e = Bind(r.e, f, i, CopyIn(cache[f][i]))]
    ELSE [r EXCEPT !.ok = FALSE]

InstallClass(r, f, i) ==
    IF ~r.ok THEN r
    ELSE IF ~cache[f][i].bound THEN [r EXCEPT !.e = Mangle(r.e, f, i, CopyIn(cache[f][i]))]
    ELSE IF Installable(r.e, f, i) THEN [r EXCEPT !.e = Bind(r.e, f, i, CopyIn(cache[f][i]))]
    ELSE [r EXCEPT !.ok = FALSE]

\* After the first failure it removes what it has installed: nothing, as it
\* looks the names up with lengths that lack the final zero.
Installed(e, f) ==
    LET after[k \in 0..Len(Body[f])] ==
            IF k = 0 THEN [e |-> e, ok |-> TRUE]
            ELSE IF k \in ClassesOf(f) THEN InstallClass(after[k-1], f, k)
            ELSE after[k-1]
    IN  after

InstallClasses(e, f) == Installed(e, f)[Len(Body[f])]

-----------------------------------------------------------------------------
BeginRequest ==
    /\ phase = "off" /\ reqs < MaxReqs
    /\ phase' = "on"
    /\ reqs' = reqs + 1
    /\ env' = [s \in Sides |-> Empty]
    /\ included' = {}
    /\ cache' = saved
    /\ failed' = FALSE /\ late' = FALSE /\ again' = FALSE /\ last' = "none"
    /\ UNCHANGED <<frames, saved>>

\* The additions to the cache are committed, or lost.
EndRequest ==
    /\ phase = "on" /\ frames = <<>>
    /\ phase' = "off"
    /\ saved' \in {cache, saved}
    /\ UNCHANGED <<env, included, frames, cache, failed, late, again, last, reqs>>

\* A file may be included at the top level of the request, or where the file
\* in execution requires it.
Top == frames[Len(frames)]
Reached == Body[Top.file][Top.at]
AtStatement == phase = "on" /\ frames # <<>> /\ Top.at <= Len(Body[Top.file])

MayInclude(f) ==
    /\ phase = "on" /\ Len(frames) < MaxDepth
    /\ frames = <<>> \/ (AtStatement /\ Reached = Require(f) /\ f \notin included)

Passed == IF frames = <<>> THEN <<>> ELSE [frames EXCEPT ![Len(frames)].at = @ + 1]

\* Both sides go on with new tables, unless a fatal error ends the request on
\* either; the comparison ends with it.
Proceed(new, how) ==
    /\ env' = new
    /\ IF \E s \in Sides : new[s].fatal
       THEN /\ phase' = "off"
            /\ frames' = <<>>
            /\ last' = IF new["zend"].fatal THEN "fatal" ELSE "only lpc is fatal"
       ELSE UNCHANGED phase /\ last' = how

\* Execution of f: what the compiler, or the cache, has bound needs no
\* declaring instruction.
Enter(f, bound) ==
    frames' = Append(Passed, [file |-> f, at |-> 1,
                              runtime |-> [s \in Sides |-> ClassesOf(f) \ bound[s]]])

Include(f, e, bound, how) ==
    LET zend == Compile(env["zend"], f)
        new  == [lpc |-> e, zend |-> zend.e]
    IN  /\ Proceed(new, how)
        /\ included' = included \cup {f}
        /\ (\A s \in Sides : ~new[s].fatal) => Enter(f, [lpc |-> bound, zend |-> zend.bound])

\* A miss: compile and, unless the file is not to be cached, copy out.
IncludeMiss(f) ==
    /\ MayInclude(f)
    /\ cache[f] = None
    /\ LET c == Compile(env["lpc"], f)
       IN  /\ Include(f, c.e, c.bound, "compiled")
           /\ cache' \in {cache} \cup
                 (IF c.e.fatal THEN {} ELSE {[cache EXCEPT ![f] = CopyOut(c.e, f, c.bound)]})
    /\ UNCHANGED <<saved, failed, late, again, reqs>>

\* What was compiled in another order is not compiled again.
LeftLate(f) == Compile(env["zend"], f).bound \ Bound(f) # {}

\* A hit.  lpc_install_classes returns FAILURE, -1, as a zend_bool, which is
\* never equal to FAILURE: the load of functions and code goes on regardless.
IncludeHit(f) ==
    /\ MayInclude(f)
    /\ cache[f] # None
    /\ LET r == InstallClasses(env["lpc"], f)
       IN  /\ Include(f, InstallFuncs(r.e, f), Bound(f), IF r.ok THEN "installed" ELSE "failed")
           /\ failed' = (failed \/ ~r.ok)
           /\ late' = (late \/ LeftLate(f))
           /\ again' = (again \/ (f \in included /\ CondFuncs(f) # {}))
    /\ UNCHANGED <<cache, saved, reqs>>

\* The warning about a failure prints the name of the class copied last, which
\* is an uninitialised pointer if no class has been copied before.
NoneCopiedBefore(f, i) ==
    \A k \in ClassesOf(f) : k < i => k \notin Bound(f) /\ IsMangled(env["lpc"], f, k)

WarningCrashes(f) ==
    /\ MayInclude(f)
    /\ cache[f] # None
    /\ \E i \in Bound(f) : ~CanInherit(env["lpc"], f, i) /\ NoneCopiedBefore(f, i)
    /\ phase' = "crashed"
    /\ UNCHANGED <<env, included, frames, cache, saved, failed, late, again, last, reqs>>

\* A class statement is executed: the declaring instruction, where there is
\* one and its condition holds.
Declare(e, f, i) ==
    IF CanInherit(e, f, i) /\ ~Has(e, Body[f][i].name) /\ IsMangled(e, f, i)
    THEN Bind(e, f, i, (CHOOSE m \in e.mangled : m.id = <<f, i>>).entry) ELSE Fatal(e)

Execute(holds) ==
    /\ AtStatement /\ Reached.op = "class"
    /\ Reached.cond \/ holds
    /\ LET new == [s \in Sides |-> IF holds /\ Top.at \in Top.runtime[s]
                                   THEN Declare(env[s], Top.file, Top.at) ELSE env[s]]
       IN  /\ Proceed(new, "executed")
           /\ (\A s \in Sides : ~new[s].fatal) => frames' = Passed
    /\ UNCHANGED <<included, cache, saved, failed, late, again, reqs>>

\* A function within a condition is declared, if that holds: under its own name,
\* which must be free.
DeclareFunc(e, n) == IF n \in e.funcs THEN Fatal(e) ELSE [e EXCEPT !.funcs = @ \cup {n}]

ExecuteFunction(holds) ==
    /\ AtStatement /\ Reached.op = "function"
    /\ LET new == [s \in Sides |-> IF holds THEN DeclareFunc(env[s], Reached.name) ELSE env[s]]
       IN  /\ Proceed(new, "executed")
           /\ (\A s \in Sides : ~new[s].fatal) => frames' = Passed
    /\ UNCHANGED <<included, cache, saved, failed, late, again, reqs>>

\* A require_once of a file that is there already.
PassRequire ==
    /\ AtStatement /\ Reached.op = "require" /\ Reached.file \in included
    /\ frames' = Passed
    /\ UNCHANGED <<env, included, cache, saved, phase, failed, late, again, last, reqs>>

Return ==
    /\ phase = "on" /\ frames # <<>> /\ Top.at > Len(Body[Top.file])
    /\ frames' = SubSeq(frames, 1, Len(frames) - 1)
    /\ UNCHANGED <<env, included, cache, saved, phase, failed, late, again, last, reqs>>

Next ==
    \/ BeginRequest
    \/ EndRequest
    \/ \E f \in Files : IncludeMiss(f) \/ IncludeHit(f) \/ WarningCrashes(f)
    \/ \E holds \in BOOLEAN : Execute(holds) \/ ExecuteFunction(holds)
    \/ PassRequire
    \/ Return

Spec == Init /\ [][Next]_vars

-----------------------------------------------------------------------------
\* No class is bound to a parent of another request (TECHNOTES.txt:338-342): a
\* class that extends one has what its statement declares and, for the rest, what
\* the class with the parent's name has in this request, whichever had it when the
\* class was compiled and cached.
BoundToCurrent ==
    \A s \in Sides : \A n \in {k \in Classes : Has(env[s], k)} :
        LET d == env[s].classes[n]
            p == env[s].classes[d.parent]
        IN  d.parent # None =>
                /\ Has(env[s], d.parent) /\ p.id = d.base
                /\ d.entry.table = Inherit(Declared(d.id[1], d.id[2]), p.entry).table

\* Two classes of one statement, with the same parent, the same members and the same
\* magic methods, as far as the copy-in finds their fields.
Same(c, d) ==
    /\ c.id = d.id /\ c.parent = d.parent /\ c.base = d.base
    /\ c.entry.table = d.entry.table
    /\ \A m \in Matched : c.entry.slots[m] = d.entry.slots[m]

\* lpc is transparent: whenever the included files are through, it has declared
\* the classes and functions the compiler declares, each bound as there, unless
\* the installation of some file's classes has failed.
Transparent ==
    phase = "on" /\ frames = <<>> /\ ~failed =>
        /\ \A n \in Classes :
              /\ Has(env["lpc"], n) <=> Has(env["zend"], n)
              /\ Has(env["lpc"], n) => Same(env["lpc"].classes[n], env["zend"].classes[n])
        /\ env["lpc"].funcs = env["zend"].funcs

\* A request that ends with a fatal error with lpc would end so without it, but
\* for three cases: the installation of some file's classes has failed before, lpc
\* has left a class to its instruction that a compile now would have bound, or it has
\* loaded a file with a function within a condition a second time.
NoFatalOfItsOwn == last = "only lpc is fatal" => failed \/ late \/ again

\* The claim of lpc_copy_class.c:508-512: the fields of the magic methods are set
\* as required, by a straight comparison of names.  A class that is what it is
\* without lpc has the same magic methods.
MagicMethodsKept ==
    \A n \in {k \in Classes : \A s \in Sides : Has(env[s], k)} :
        LET c == env["lpc"].classes[n]
            z == env["zend"].classes[n]
        IN  c.entry.table = z.entry.table => c.entry.slots = z.entry.slots

\* The claim of lpc_copy_class.c:98-99 and 143: when the installation of a class
\* fails, those of the file that are already installed are removed.
FailedInstallRemoved ==
    [][\A f \in Files : IncludeHit(f) /\ last' = "failed" =>
          env'["lpc"].classes = env["lpc"].classes]_vars

\* The claim of lpc_copy_class.c:95: a missing parent forces an explicit
\* re-compile; so the request goes on as it would without lpc.
FailedInstallRecompiled ==
    phase = "on" /\ frames = <<>> => env["lpc"].classes = env["zend"].classes
=============================================================================
