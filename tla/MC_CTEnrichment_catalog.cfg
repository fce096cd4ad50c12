CONSTANTS
    IPLiterals <- MCIPLiterals
    RegDomainOf <- MCRegDomainOf
    PSLError <- MCPSLError
    Bodies <- MCBodies
    RawEntries <- MCEntries
    MaxRefreshes = 2
    Nil = Nil
    ParseError = ParseError
SPECIFICATION FairSpec
INVARIANTS
    TypeOK
    CatalogAsCSV
    CaOwnerFromCatalog
    RegDomainsFirstOccurrence
    HashesOverSubmittedDER
PROPERTIES
    RefreshTerminates
    StoreRefinement
