---------------------------- MODULE LPCInclude ----------------------------
(***************************************************************************)
(* What lpc does to include instructions.  A constant name is resolved     *)
(* once, when the op array that holds it is copied to the cache            *)
(* (lpc_resolve_path in src/lpc/lpc.c, from lpc_copy_op_array.c); the      *)
(* handler of the instruction (lpc_include_or_eval_handler in lpc_cache.c) *)
(* rewrites an include_once of a file that is in the cache and not yet     *)
(* loaded to a plain include, hands it to the Zend handler, which executes *)
(* the file, and rewrites it back.                                         *)
(*                                                                         *)
(* The index of the cache is keyed by names as an include gives them, the  *)
(* list of included files by resolved names, which are files.  How a name  *)
(* is found is given by two functions: Where, by the current settings      *)
(* (include_path, or the working directory for a name that starts with a   *)
(* dot; a file is found anyhow), and Beside, in the directory of a file.   *)
(*                                                                         *)
(* Each execution of a file has its own copy of the sites, the include     *)
(* instructions, of the file's code; those of functions are the script's,  *)
(* and shared by all calls.                                                *)
(***************************************************************************)
EXTENDS Naturals, Sequences, FiniteSets, SequencesExt

CONSTANTS
    Files, Main,   \* files, and the requested script
    Names,         \* names given to an include; a file is a name of itself
    None,
    Settings, Set0,  \* include_path and working directory; the initial ones
    Where,         \* the file of a name under a setting, or None
    Beside,        \* the file of a name in the directory of a file, or None
    Own,           \* the sites in the code of each file
    Funcs,         \* those of Own[Main] that are in functions
    Calls,         \* the functions, by their sites, that a file may call
    Shutdown,      \* and those registered as shutdown functions
    Operand,       \* the name a site is written with, or computes
    Constant,      \* the sites whose name is a constant
    Once,          \* the sites that are include_once or require_once
    MaxDepth       \* bound: files in execution at a time

Sites == UNION {Own[f] : f \in Files}

ASSUME IncludeConstants ==
    /\ Main \in Files /\ Files \subseteq Names /\ Set0 \in Settings
    /\ None \notin Names
    /\ Where \in [Settings -> [Names -> Files \cup {None}]]
    /\ \A e \in Settings : \A f \in Files : Where[e][f] = f
    /\ Beside \in [Files -> [Names -> Files \cup {None}]]
    /\ Operand \in [Sites -> Names]
    /\ Constant \subseteq Sites /\ Once \subseteq Sites
    /\ Funcs \subseteq Own[Main] /\ Shutdown \subseteq Funcs
    /\ Calls \in [Files -> SUBSET Funcs]
    /\ MaxDepth \in Nat \ {0}

VARIABLES
    index,      \* the cache: for each name the file and code stored, or None
    included,   \* EG(included_files)
    setting,    \* include_path and working directory
    frames,     \* files in execution: [file, code, by, rewrite], where by is
                \* the site that included it, with the level it belongs to
    down,       \* the script has ended: shutdown functions run
    executed    \* history: how often each file was executed, up to 2

vars == <<index, included, setting, frames, down, executed>>

Entries == UNION {[file : {f}, code : [Own[f] -> [name : Names, once : BOOLEAN]]] : f \in Files}

TypeOK ==
    /\ index \in [Names -> Entries \cup {None}]
    /\ included \subseteq Files
    /\ setting \in Settings
    /\ Len(frames) <= MaxDepth
    /\ down \in BOOLEAN
    /\ executed \in [Files -> 0..2]

Init ==
    /\ index = [n \in Names |-> None]
    /\ included = {}
    /\ setting = Set0
    /\ frames = <<>>
    /\ down = TRUE
    /\ executed = [f \in Files |-> 0]

Level == Len(frames)
Top   == frames[Level]

\* The instructions that may come next, each with the level that holds it.
Reach ==
    IF frames = <<>> THEN {}
    ELSE IF Level = 1 /\ down THEN {1} \X Shutdown
    ELSE ({Level} \X (Own[Top.file] \ Funcs)) \cup ({1} \X Calls[Top.file])

Instr(x) == frames[x[1]].code[x[2]]

-----------------------------------------------------------------------------
\* How the engine finds the file of a name, executing code of file f.
EngineFinds(n, f) == IF Where[setting][n] # None THEN Where[setting][n] ELSE Beside[f][n]

\* Faulty variant of LpcFinds: the directory of the script comes first.
LpcFindsBeside(n, by) ==
    IF Beside[Main][n] # None THEN Beside[Main][n] ELSE Where[setting][n]

\* lpc_resolve_path: by the settings, beside the code in execution, which is that
\* of the including file (for the script there is none), and beside the script.
LpcFinds(n, by) ==
    IF Where[setting][n] # None THEN Where[setting][n]
    ELSE IF by # None /\ Beside[by][n] # None THEN Beside[by][n]
    ELSE Beside[Main][n]

Written(f) == [s \in Own[f] |-> [name |-> Operand[s], once |-> s \in Once]]

\* The copy-out resolves constant names, in the code that is executed next too;
\* one that is not found stays as it is.
Resolved(f, by) ==
    [s \in Own[f] |->
        [name |-> IF s \in Constant /\ LpcFinds(Operand[s], by) # None
                  THEN LpcFinds(Operand[s], by) ELSE Operand[s],
         once |-> s \in Once]]

Count(f) == executed' = [executed EXCEPT ![f] = IF @ = 2 THEN 2 ELSE @ + 1]

\* lpc_compile_file of the name n, which is found as file f: load what the index
\* has under the name, or compile, and maybe store the compile under the name.
CodeOf(n, f, by) ==
    IF index[n] # None THEN {index[n].code} ELSE {Written(f), Resolved(f, by)}
Compile(n, f, by, code) ==
    \/ UNCHANGED index /\ (index[n] # None \/ code = Written(f))
    \/ /\ index[n] = None /\ code = Resolved(f, by)
       /\ index' = [index EXCEPT ![n] = [file |-> f, code |-> code]]

FileOf(n, f) == IF index[n] # None THEN index[n].file ELSE f

\* The Zend handler has decided to load the name n for the site x.
Load(x, n, rewrite) ==
    LET by == frames[x[1]].file
        f  == FileOf(n, EngineFinds(n, by))
    IN  /\ Level < MaxDepth
        /\ f # None
        /\ included' = included \cup {f}
        /\ \E code \in CodeOf(n, f, by) :
              /\ Compile(n, f, by, code)
              /\ frames' = Append(
                    IF rewrite THEN [frames EXCEPT ![x[1]].code[x[2]].once = FALSE] ELSE frames,
                    [file |-> f, code |-> code, by |-> x, rewrite |-> rewrite])
        /\ Count(f)
        /\ UNCHANGED <<setting, down>>

\* Faulty variant of Rewrites: whether the file is loaded is not looked at.
RewritesIndexed(x) == Instr(x).once /\ index[Instr(x).name] # None

\* Is the instruction rewritten?
Rewrites(x) ==
    /\ Instr(x).once
    /\ index[Instr(x).name] # None
    /\ Instr(x).name \notin included

\* A plain include, or one that has been made plain, loads the name it is given.
Include(x) ==
    /\ ~Instr(x).once \/ Rewrites(x)
    /\ Load(x, Instr(x).name, Rewrites(x))

\* An include_once that was left as it is: the Zend handler resolves the name,
\* looks for the file among the included ones, and loads the resolved name.
IncludeOnce(x) ==
    /\ Instr(x).once /\ ~Rewrites(x)
    /\ LET f == EngineFinds(Instr(x).name, frames[x[1]].file)
       IN  /\ f \notin included \cup {None}
           /\ Load(x, f, FALSE)

\* Faulty variant of Return: the instruction is left as it is.
ReturnRewritten ==
    /\ Level > 1
    /\ frames' = Front(frames)
    /\ UNCHANGED <<index, included, setting, down, executed>>

\* The file has been executed: the wrapper restores what it rewrote.
Return ==
    /\ Level > 1
    /\ frames' = LET x == Top.by
                 IN  IF Top.rewrite
                     THEN [Front(frames) EXCEPT ![x[1]].code[x[2]].once = TRUE]
                     ELSE Front(frames)
    /\ UNCHANGED <<index, included, setting, down, executed>>

\* The script changes its settings.
ChangeSetting ==
    /\ frames # <<>>
    /\ setting' \in Settings
    /\ UNCHANGED <<index, included, frames, down, executed>>

\* The script ends, or exit or a fatal error abandons what is in execution, with
\* the instructions as they are; the shutdown functions run, unless they did.
EndScript ==
    /\ frames # <<>>
    /\ frames' = IF down THEN <<>> ELSE <<frames[1]>>
    /\ down' = TRUE
    /\ UNCHANGED <<index, included, setting, executed>>

\* The next request loads the script; the index is there if it was committed.
NextRequest ==
    /\ frames = <<>>
    /\ setting = Set0
    /\ \E code \in CodeOf(Main, Main, None) :
          /\ Compile(Main, Main, None, code)
          /\ frames' = <<[file |-> Main, code |-> code, by |-> None, rewrite |-> FALSE]>>
    /\ included' = {Main}
    /\ executed' = [f \in Files |-> 0]
    /\ down' = FALSE
    /\ UNCHANGED setting

EndRequest ==
    /\ frames = <<>> /\ included # {}
    /\ index' \in {index, [n \in Names |-> None]}
    /\ included' = {}
    /\ setting' = Set0
    /\ UNCHANGED <<frames, down, executed>>

Next ==
    \/ \E x \in Reach : Include(x) \/ IncludeOnce(x)
    \/ Return
    \/ ChangeSetting
    \/ EndScript
    \/ EndRequest
    \/ NextRequest

Spec == Init /\ [][Next]_vars

-----------------------------------------------------------------------------
\* The functions that are called by the script and the files it includes.
Called == UNION {Calls[f] : f \in Files}

\* The rewriting is for a single execution step (lpc_cache.c:478-481): a site that
\* may still be executed and whose source says _once is plain only while the file
\* it has rewritten itself for is in execution, and by that one include alone.  At
\* the shutdown, a function the script calls is met as the end of the script left it.
Live(l) == IF down /\ l = 1 THEN Shutdown ELSE Own[frames[l].file]
Rewriters(l, s) == {i \in 2..Level : frames[i].by = <<l, s>> /\ frames[i].rewrite}
RewrittenOnlyInside ==
    \A l \in 1..Level : \A s \in Live(l) :
        (down /\ l = 1 => s \notin Called) =>
            Cardinality(Rewriters(l, s)) =
                IF frames[l].code[s].once # (s \in Once) THEN 1 ELSE 0

\* So an instruction that reads _once is executed as a plain include either by its
\* own rewriting, or in a function that the file it has been rewritten for calls, or
\* in one that the script was abandoned in: lpc_cache.c:534 restores it after the
\* file, not after the step.
MetRewrittenInside ==
    [][\A x \in Reach : x[2] \in Once /\ Include(x) =>
          \/ Rewrites(x)
          \/ x[2] \in Funcs /\ Rewriters(x[1], x[2]) # {}
          \/ x[2] \in Called /\ down]_vars

\* A file that only _once sites include is executed at most once per request,
\* as without lpc, whatever names it is included by.
MayFind(s, f) ==
    \/ \E e \in Settings : Where[e][Operand[s]] = f
    \/ \E g \in Files : Beside[g][Operand[s]] = f
OnceFiles == {f \in Files : \A s \in Sites \ Once : ~MayFind(s, f)}
ExecutedOnce == \A f \in OnceFiles : executed[f] < 2

\* The files that a name leads to, by the settings or else from some place.
Leads(n) == {IF Where[e][n] # None THEN Where[e][n] ELSE Beside[g][n] :
                e \in Settings, g \in Files} \ {None}
Clear(n) == \A f, g \in Leads(n) : f = g

\* A file has been included: the file in execution, and the site that includes it.
New       == frames'[Len(frames')]
Including == Len(frames') = Level + 1 /\ frames # <<>>
AsEngine  == EngineFinds(Operand[New.by[2]], frames[New.by[1]].file) \in {New.file, None}

\* What hoisting the resolution of names to compile time, and keying the index by
\* names, may cost: an include loads a file that its name leads to, and another than
\* the engine would find, there and then, only if the name leads to several files
\* and has been resolved before or is in the index.
LoadsWhatNameMeans ==
    [][Including =>
          LET l == New.by[1]
              n == Operand[New.by[2]]
          IN  /\ New.file \in Leads(n)
              /\ \/ AsEngine
                 \/ ~Clear(n) /\ (frames[l].code[New.by[2]].name # n \/ index[n] # None)]_vars

\* The claim of TECHNOTES.txt:558-562: the resolution of names can be hoisted to
\* compile time, and their use as keys leave it out.  An include loads the file that
\* the engine would find for the name as written, if it would find one.
IncludesSameFile == [][Including => AsEngine]_vars

\* The claim of lpc_cache.c:478-481 and TECHNOTES.txt:549-550: the variant is replaced
\* for a single instruction step.  No site that reads _once is ever executed as a
\* plain include but by its own rewriting.
RewrittenForOneStep ==
    [][\A x \in Reach : x[2] \in Once /\ Include(x) => Rewrites(x)]_vars

\* The claim of TECHNOTES.txt:544-550: only a source that has not been loaded
\* before is rewritten.
RewrittenOnlyUnloaded ==
    \A x \in Reach : Rewrites(x) => index[Instr(x).name].file \notin included
=============================================================================
