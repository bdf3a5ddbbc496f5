SPECIFICATION Safe
CONSTANTS
    Direct = {}
    Apps = {a1}
    Uts = {}
    Tests = {}
INVARIANTS
    WritersAlive
