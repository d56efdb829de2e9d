-------------------------- MODULE MCLPCOpArray --------------------------
(* Sample files for LPCOpArray.                                           *)
EXTENDS LPCOpArray

Op(c, z, n, j) == [code |-> c, zvals |-> z, name |-> n, jmp |-> j]
OpsUpTo(k) ==
    {Op("JMP", 0, "", j) : j \in 1..k} \cup {Op("JMPZ", 1, "", j) : j \in 1..k}
    \cup {Op("FETCH_R", 1, n, 0) : n \in JitNames \cup OtherNames}
    \cup {Op("FETCH_RW", 1, "_SERVER", 0), Op("INCLUDE_OR_EVAL", 1, "relative", 0),
          Op("INCLUDE_OR_EVAL", 1, "absolute", 0), Op("RECV_INIT", Countdown, "", 0)}

Code(t, c) == [kind |-> "code", table |-> t, code |-> c]
Members(t) == [kind |-> "members", table |-> t, code |-> <<>>]
Return == Op("RETURN", 0, "", 0)

Scripts   == {Code(<<>>, <<a, b, Return>>) : a, b \in OpsUpTo(3)}
Functions == {Code(t, <<a, Return>>) : t \in {<<>>, <<2, Countdown - 2>>},
                 a \in {Op("JMP", 0, "", 2), Op("FETCH_R", 1, "_SERVER", 0),
                        Op("INCLUDE_OR_EVAL", 1, "relative", 0)}}
Small == {<<s>> : s \in Scripts} \cup
         {<<s, f, Members(<<1, 2>>)>> : s \in Scripts, f \in Functions}

\* Files whose classes have more members than the countdown, all together.
Big == {<<Code(<<>>, <<Return>>), Members(<<Countdown - 1>>), Members(<<2>>)>>}

\* Files that use an autoglobal of another extension beside a known one.
Foreign == {<<Code(<<>>, <<Op("FETCH_R", 1, "_SERVER", 0), Op("FETCH_R", 1, "_OTHER", 0)>>)>>}

Claims == Big \cup Foreign
=============================================================================
