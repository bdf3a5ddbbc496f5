SPECIFICATION Spec
CONSTANTS
    Installers = {i1, i2, i3}
    Panickers = {p1, p2}
    original = original
    std = std
INVARIANTS
    TypeOK
    PanicsCounted
    SerialCallsKeepHooks
PROPERTIES
    HooksEnd
