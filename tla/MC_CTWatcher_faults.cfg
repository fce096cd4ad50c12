CONSTANTS
    h1 = h1
    h2 = h2
    Hosts <- MCHosts
    LogLists <- MCLogLists
    StartIndexConfig <- MCStartIndexBare
    Faults = {"csv", "list", "listread", "sth", "dns", "transient", "parse", "early_stop"}
    MaxIndex = 2
    ChanCap = 1
    ExampleEvery = 2
    MaxSweeps = 1
    MaxErrors = 1
SPECIFICATION FairSpec
PROPERTY StopLeadsToExit
CHECK_DEADLOCK FALSE
