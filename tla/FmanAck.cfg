SPECIFICATION Spec
CONSTANTS
    IP <- MCIP
    MAC <- MCMAC
    Vid <- MCVid
    Nets <- MCNets
    Unused = Unused
    ar_arptblsize = 2
    ar_ndptblsize = 3
INVARIANTS
    AckAwaited
