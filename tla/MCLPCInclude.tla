--------------------------- MODULE MCLPCInclude ---------------------------
(* Two arrangements of four files.  The script and c are in one directory,  *)
(* a and b in another.  lib is found by the include path, near only beside  *)
(* a file, another one in either directory; pick and fit are computed names *)
(* that the settings decide about.                                          *)
EXTENDS LPCInclude, TLC

CONSTANTS main, a, b, c, lib, near, pick, fit, e1, e2, s1, s2, s3, s4, s5, s6, s7, s8

Given(f) == [n \in Names |-> IF n \in DOMAIN f THEN f[n] ELSE IF n \in Files THEN n ELSE None]
Local(f) == [n \in Names |-> IF n \in DOMAIN f THEN f[n] ELSE None]

MCWhere == e1 :> Given(lib :> c @@ pick :> a @@ fit :> b)
           @@ e2 :> Given(lib :> c @@ pick :> b @@ fit :> c)

\* The script has a lib beside it that the include path hides, and a near of its own.
MCBeside == main :> Local(lib :> b @@ near :> c) @@ c :> Local(lib :> b)
            @@ a :> Local(near :> b) @@ b :> Local(near :> b)
MCOwn     == main :> {s1, s2, s4, s6, s7, s8} @@ a :> {s3} @@ b :> {s5} @@ c :> {}
MCFuncs   == {s4, s7}
\* The function that includes c is called by c too, and at the shutdown.
MCCalls   == main :> {s4} @@ a :> {s4} @@ b :> {s4} @@ c :> {s4}
MCDown    == {s4, s7}
MCOperand == s1 :> a @@ s2 :> a @@ s3 :> near @@ s4 :> c @@ s5 :> lib @@ s6 :> pick @@ s7 :> b
             @@ s8 :> fit
MCOnce    == {s1, s2, s3, s4, s6, s7}
MCConst   == {s1, s2, s3, s4, s5, s7}

\* Where it goes wrong: near is also beside the script, as another file, pick is
\* given to a plain include too, and the function that includes a is called by a
\* and registered as a shutdown function.
BadWhere   == e1 :> Given(lib :> c @@ pick :> c) @@ e2 :> Given(lib :> c @@ pick :> b)
BadBeside  == main :> Local(near :> c) @@ c :> Local(near :> c)
              @@ a :> Local(near :> b) @@ b :> Local(near :> b)
BadOwn     == main :> {s4, s6, s8} @@ a :> {s3} @@ b :> {} @@ c :> {}
BadFuncs   == {s4}
BadCalls   == main :> {s4} @@ a :> {s4} @@ b :> {} @@ c :> {}
BadOperand == s3 :> near @@ s4 :> a @@ s6 :> pick @@ s8 :> pick
BadOnce    == {s3, s4, s6}
BadConst   == {s3, s4}
=============================================================================
