SPECIFICATION Spec
CONSTANTS
    Own = {a}
    Theirs = {p, q}
    Take = 1
INVARIANT RefetchCatchesUp
