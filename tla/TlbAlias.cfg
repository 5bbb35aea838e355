SPECIFICATION Spec
CONSTANTS
    NSets = 4
    NWays = 2
    NCam = 2
    Capacity = 2
    MinPg = 4
    Tsizes <- MCTsizes
    PageSize <- MCPageSize
    Masks <- MCMasks
    Behind <- MCListOnly
    Addrs = {0, 13, 60}
    Pids = {0, 1}
    PidRegs <- MCPidRegs
    BootAddr = 60
    MasValues <- MCMasValues
    Garbage <- MCGarbage
INVARIANT XlateInPage
