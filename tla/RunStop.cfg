SPECIFICATION Spec
CONSTANTS
    NCpus = 1
    Addrs <- MCAddrs
    BkptAddrs <- MCBkptAddrs
    Threads <- MCThreads
    PassLength = 2
    MaxStep = 2
    NoAddr <- MCNoAddr
CHECK_DEADLOCK FALSE
PROPERTIES
    StopIsObeyed
