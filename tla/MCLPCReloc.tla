---------------------------- MODULE MCLPCReloc ----------------------------
(* Bytes of one bit and a follow-on bit, so that a delta of 8 takes the     *)
(* four bytes that 2097152 takes in the code.                               *)
EXTENDS LPCReloc

TwoBases == {100, 200}
=============================================================================
