--------------------------- MODULE MCLPCClasses ---------------------------
(* Files that declare a base class in two variants, a child, a grandchild,  *)
(* classes and a function within conditions, a file that requires the base  *)
(* itself, and one that requires a file that extends its own class.  The    *)
(* variants of the base differ in their members, and some of them are       *)
(* declared again.                                                          *)
EXTENDS LPCClasses

CONSTANTS A, B, C, D, base1, base2, child, grand, pick, self, hoist, fn, ctor, get, unset, run, prop

MCBody ==
    [f \in Files |->
        CASE f = base1 -> <<Class(A, None, FALSE, {ctor, get, run, prop})>>
          [] f = base2 -> <<Class(A, None, FALSE, {unset, prop})>>
          [] f = child -> <<Class(D, None, FALSE, {get}), Class(B, A, FALSE, {run})>>
          [] f = grand -> <<Class(C, B, FALSE, {prop, get})>>
          [] f = pick  -> <<CondFunction(fn), Class(A, None, TRUE, {run}),
                            Class(C, B, TRUE, {ctor, prop})>>
          [] f = self  -> <<Require(base1), Class(B, A, FALSE, {prop})>>
          [] f = hoist -> <<Require(pick), Class(B, A, FALSE, {get})>>]

MCFuncs == [f \in Files |-> IF f = child THEN {fn} ELSE {}]
=============================================================================
