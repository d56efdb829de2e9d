--------------------------- MODULE MCCacheDBRec ---------------------------
(* Sample values for CacheDBRec: a string that shrinks and one that grows   *)
(* when compressed, the empty string, and an object.                        *)
EXTENDS CacheDBRec, TLC

Long  == [str |-> TRUE,  code |-> FALSE, n |-> 3, z |-> 1, l |-> 2]
Short == [str |-> TRUE,  code |-> FALSE, n |-> 1, z |-> 2, l |-> 1]
Empty == [str |-> TRUE,  code |-> FALSE, n |-> 0, z |-> 2, l |-> 1]
Object == [str |-> FALSE, code |-> TRUE, n |-> 0, z |-> 1, l |-> 3]

FullValues  == {Long, Short, Object}
EmptyValues == {Long, Short, Empty}

\* What a method called back may do, where it does no harm, and at large.
SleepCalls == {<<"add", "exists">>, <<"add", "add">>}
AllCalls   == {"add", "fetch"} \X {"exists", "fetch", "add", "same"}
NoCalls    == {}

KeySymmetry == Permutations(Keys)
=============================================================================
