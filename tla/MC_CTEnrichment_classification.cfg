CONSTANTS
    IPLiterals <- MCIPLiterals
    RegDomainOf <- MCRegDomainOf
    PSLError <- MCPSLError
    Bodies <- MCOneBody
    RawEntries <- MCClassEntries
    MaxRefreshes = 1
    Nil = Nil
    ParseError = ParseError
SPECIFICATION Spec
INVARIANT
    ValidationTypeAsSpec
