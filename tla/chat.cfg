SPECIFICATION Spec
CONSTANTS
    Own = {a}
    Theirs = {p, q}
    Take = 3
INVARIANTS
    TypeOK
    NoDuplicates
    SettledShowsStored
