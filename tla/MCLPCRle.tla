----------------------------- MODULE MCLPCRle -----------------------------
(* Runs of at most 3 bytes.  The short records are all those of up to 6     *)
(* bytes over zero and two bytes that read as prefixes; the long ones are   *)
(* made of runs of zeros and of other bytes, and fill quanta of 124 bytes   *)
(* to varying degrees.                                                      *)
EXTENDS LPCRle

Short == UNION {[1..n -> {0, 5, 6}] : n \in 1..6}

Zeros(n)  == [k \in 1..n |-> 0]
Others(n) == [k \in 1..n |-> 5 + (k % 2)]

Long == {Zeros(a) \o Others(b) \o Zeros(c) \o Others(d) :
            a \in {1, 4, 50}, b \in {1, 9, 60}, c \in {1, 3, 12, 37}, d \in {0, 1, 4, 40}}

MCRecords == Short \cup Long
MCGaps    == {1, 2, 3, 20}
=============================================================================
