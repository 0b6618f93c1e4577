SPECIFICATION Spec
CONSTANTS
    Agent = {a1, a2}
    Writer = {w1}
    Text <- MCText
    strlen <- MCstrlen
    Comm <- MCComm
    byte1 <- MCbyte1
    nul <- MCnul
    Flag = {"control"}
    Char <- MCChar
    Digits <- MCDigits
    Buf = {b1, b2, b3}
    NULL = NULL
SYMMETRY MCSymmetry
INVARIANTS
    TypeOK
    StringsLive
    HarmCauses
    LastWriteHolds
