SPECIFICATION Spec
CONSTANTS
    Services = {s1, s2}
    http = http
    mysql = mysql
    get = get
    Absent = Absent
    Options <- MCOptions
    Attributes <- MCAttributes
    Half = 4
    Unit = 3
    MaxSpans = 2
SYMMETRY Symmetry
INVARIANTS
    TypeOK
    OneDecisionPerTrace
    FirstRuleDecides
    ShareIsRatio
