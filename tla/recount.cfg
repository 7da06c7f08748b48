SPECIFICATION RecountSpec
CONSTANTS
    NoCode = NoCode
    Opportunities = {o1}
    Candidates = {a1, a2}
    Codes = {}
    Eligible = {}
    Requests = {r1}
    MaxIncarnations = 1
SYMMETRY RunSymmetry
PROPERTIES
    RecountIsExact
CHECK_DEADLOCK FALSE
