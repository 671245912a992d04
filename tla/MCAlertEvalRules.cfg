SPECIFICATION Spec
CONSTANTS
    a = a
    b = b
    r1 = r1
    r2 = r2
    s1 = s1
    Pod = {a}
    Rule = {r1}
    NoPod = NoPod
    NoIncident = NoIncident
    maxTransitions = 2
    Series = {s1}
    Cond = {"c1", "c2"}
    Config <- Reminding
    Observation <- TwoVerdicts
    MaxWindow = 2
    MaxVersion = 3
    Budgets <- RuleBudgets
INVARIANTS VerdictsCurrent OutboxMatches IncidentTracked
PROPERTY ResolutionKept
CHECK_DEADLOCK FALSE
