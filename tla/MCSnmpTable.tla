----------------------------- MODULE MCSnmpTable -----------------------------
(***************************************************************************)
(* A small instance of SnmpTable: two OIDs that differ only after a zero   *)
(* byte, a third one, and fewer slots than OIDs.                           *)
(***************************************************************************)
EXTENDS SnmpTable, TLC

MCOid == {"o1", "o1_0_a", "o2", "o3"}
MCStr == [o \in MCOid |-> IF o = "o1_0_a" THEN "o1" ELSE o]
MCVal == {"x", "y"}

\* The addresses kzalloc returns are interchangeable.
BufSymmetry == Permutations(Buf)
=============================================================================
