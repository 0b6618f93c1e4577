----------------------------- MODULE MCSettings -----------------------------
(***************************************************************************)
(* A small instance of Settings.  The texts are one that fits every        *)
(* buffer, an empty and a long one that are refused, and one whose length  *)
(* does not fit in a byte, of which the most is taken that a store         *)
(* accepts: 60 characters.  The arguments of an ioctl are one whose zero   *)
(* bytes are its length and a byte where the short text has a character,   *)
(* and one without zero bytes.                                             *)
(***************************************************************************)
EXTENDS Settings, TLC

MCText == {"nothing", "short", "refused", "wraps"}
MCstrlen == [t \in Text |-> CASE t = "nothing" -> 0
                                [] t = "short" -> 8
                                [] t = "refused" -> 65
                                [] t = "wraps" -> 256 + 61]

MCComm == {"ended", "endless"}
MCbyte1 == [c \in Comm |-> IF c = "ended" THEN 0 ELSE 14]
MCnul == [c \in Comm |-> IF c = "ended" THEN {1, 8} ELSE {}]

\* A blank line, of which sscanf leaves the terminator.
MCChar == {0}
MCDigits == {<<1, 15>>}

\* Agents and addresses are interchangeable.
MCSymmetry == Permutations(Agent) \cup Permutations(Buf)
=============================================================================
