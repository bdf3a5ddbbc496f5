SPECIFICATION Safe
CONSTANTS
    Direct = {d1}
    Apps = {}
    Uts = {}
    Tests = {}
INVARIANTS
    EndpointHasScheme
