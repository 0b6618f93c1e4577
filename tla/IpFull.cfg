SPECIFICATION Spec
CONSTANTS
    UdpRule <- MCUdpRule
    TcpRule <- MCTcpRule
    ProtName <- MCProtName
    prot_info <- MCprot_info
    NameRows <- MCNameRows
    udptblsize = 2
    tcptblsize = 2
    iptblsize = 2
    MaxSize = 3
INVARIANTS
    IpReplyHonest
