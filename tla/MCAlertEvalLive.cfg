SPECIFICATION FairSpec
CONSTANTS
    a = a
    b = b
    r1 = r1
    r2 = r2
    s1 = s1
    Pod = {a, b}
    Rule = {r1, r2}
    NoPod = NoPod
    NoIncident = NoIncident
    maxTransitions = 2
    Series = {}
    Cond = {"c1"}
    Config <- OneSetting
    Observation <- TwoVerdicts
    MaxWindow = 1
    MaxVersion = 1
    Budgets <- LiveBudgets
PROPERTY EventuallyEvaluated
CHECK_DEADLOCK FALSE
