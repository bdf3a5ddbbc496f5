SPECIFICATION Spec
CONSTANTS
    Direct = {d1}
    Apps = {a1}
    Uts = {u1, u2}
    Tests = {h1}
INVARIANTS
    TypeOK
    OneVerdict
    ReturnedMeansInstalled
    GuardsAreHeld
PROPERTIES
    ImplementsStartOnce
    EveryCallEnds
