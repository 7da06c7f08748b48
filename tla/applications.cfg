SPECIFICATION Spec
CONSTANTS
    good = good
    NoCode = NoCode
    Opportunities = {o1}
    Candidates = {a1}
    Codes = {good}
    Eligible <- GoodForAll
    Requests = {r1, r2}
    MaxIncarnations = 2
SYMMETRY RunSymmetry
INVARIANTS
    TypeOK
    FlagsFollowStage
    CounterAccounting
    UsesAccounting
    NoticesAreTrue
PROPERTIES
    SubmittedFromDraftOnly
    NoDecisionAfterWithdrawal
    CompletedIsFinal
CHECK_DEADLOCK FALSE
