SPECIFICATION Spec
CONSTANTS
    a = a
    b = b
    r1 = r1
    r2 = r2
    s1 = s1
    Pod = {a, b}
    Rule = {r1}
    NoPod = NoPod
    NoIncident = NoIncident
    maxTransitions = 2
    Series = {s1}
    Cond = {"c1"}
    Config <- Waiting
    Observation <- TwoVerdicts
    MaxWindow = 3
    MaxVersion = 1
    Budgets <- FencingBudgets
SYMMETRY PodSymmetry
INVARIANT IncidentTracked
CHECK_DEADLOCK FALSE
