SPECIFICATION ToolSpec
CONSTANTS
    UdpRule <- MCRule
    TcpRule <- MCRule
    ProtName <- MCProtName
    prot_info <- MCprot_info
    NameRows <- MCNameRows
    udptblsize = 2
    tcptblsize = 1
    iptblsize = 1
    MaxSize = 8
    Files <- MCFiles
    MaxRuns = 2
    MaxLines = 4
INVARIANTS
    ToolTypeOK
    PortLinesReported
    TableFromFile
PROPERTIES
    RerunChangesNothing
    ToolEnds
