CONSTANTS
    IPLiterals <- MCIPLiterals
    RegDomainOf <- MCRegDomainOf
    PSLError <- MCPSLError
    Bodies <- MCBodies
    RawEntries <- MCEntries
    MaxRefreshes = 1
    Nil = Nil
    ParseError = ParseError
SPECIFICATION Spec
INVARIANT
    NoLeakedResponseBody
