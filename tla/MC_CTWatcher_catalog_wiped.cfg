CONSTANTS
    h1 = h1
    h2 = h2
    Hosts <- MCHosts
    LogLists <- MCLogLists
    StartIndexConfig = {}
    Faults = {"csv"}
    MaxIndex = 2
    ChanCap = 1
    ExampleEvery = 2
    MaxSweeps = 1
    MaxErrors = 1
SPECIFICATION Spec
PROPERTY CatalogKeptOnFailure
