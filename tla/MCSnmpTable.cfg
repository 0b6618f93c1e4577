SPECIFICATION Spec
CONSTANTS
    Oid <- MCOid
    Str <- MCStr
    Val <- MCVal
    Buf = {b1, b2, b3, b4, b5, b6}
    NULL = NULL
    ar_snmp_tblsize = 2
SYMMETRY BufSymmetry
INVARIANTS
    TypeOK
    Packed
    BuffersOwned
    KeysUnique
PROPERTIES
    OthersKept
    StoresEntries
