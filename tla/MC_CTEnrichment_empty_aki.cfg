CONSTANTS
    IPLiterals <- MCIPLiterals
    RegDomainOf <- MCRegDomainOf
    PSLError <- MCPSLError
    Bodies <- MCNoSKIBodies
    RawEntries <- MCNoAKIEntries
    MaxRefreshes = 1
    Nil = Nil
    ParseError = ParseError
SPECIFICATION Spec
INVARIANT
    NoAKIMeansUnknown
