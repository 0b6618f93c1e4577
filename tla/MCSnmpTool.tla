----------------------------- MODULE MCSnmpTool -----------------------------
(***************************************************************************)
(* SnmpTool on two kinds of files: files of one line, for a wide range of  *)
(* values of every type, and all files of up to MaxLines of a few lines,   *)
(* among them two with the same OID, two that the table cannot tell apart  *)
(* and one of unknown type.                                                *)
(***************************************************************************)
EXTENDS SnmpTool, SequencesExt

CONSTANT MaxLines

L(o, t, v) == [oid |-> o, type |-> t, val |-> v]

Numbers == {0, 1, 127, 128, 255, 256, 511, 65535, 65536, 16777215, 16777216,
            2147483647}
Paths == SeqOf({0, 10, 255, 256, 999}, 3) \ {<<>>}
Bits(n) == {[i \in 1..n |-> 1], [i \in 1..n |-> i % 2],
            [i \in 1..n |-> IF i = n THEN 1 ELSE 0]}

OneLine ==
    {L(o, "i", <<10>>) : o \in Paths}
        \cup {L(<<10, 20>>, t, <<v>>) : t \in {"i", "u", "t", "g"}, v \in Numbers}
        \cup {L(<<10, 20>>, t, v) : t \in {"a", "o"}, v \in Paths}
        \cup {L(<<10, 20>>, t, <<111, 98>>) : t \in {"s", "d"}}
        \cup {L(<<10, 20>>, "x", v) : v \in SeqOf({0, 1, 15}, 4) \ {<<>>}}
        \cup {L(<<10, 20>>, "b", v) : v \in UNION {Bits(n) : n \in 1..18}}

Mixed == {L(<<10, 20>>, "i", <<5>>), L(<<10, 20>>, "s", <<111>>),
          L(<<10, 0, 1>>, "x", <<1, 15>>), L(<<10>>, "b", <<1, 0, 1>>),
          L(<<10, 20>>, "z", <<5>>)}

MCFiles == {<<l>> : l \in OneLine} \cup SeqOf(Mixed, MaxLines)
=============================================================================
