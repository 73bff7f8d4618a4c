SPECIFICATION Spec
CONSTANTS
    a1 = a1
    a2 = a2
    a3 = a3
    i1 = i1
    i2 = i2
    agentBudget = agentBudget
    interactiveBudget = interactiveBudget
    Requests = {a1, a2, i1}
    Budgets <- MCBudgets
    BudgetOf <- MCBudgetOf
    BudgetClass <- MCBudgetClass
    InitialLimit <- TightLimit
    Limits = {1, 2}
    MaxRevision = 2
    ExecutionLimit = 1
    QueueCapacity = 1
    MaxWait <- ShortWait
    Mode = "weighted"
    Outcomes = {"completed"}
SYMMETRY SameOwner
INVARIANTS
    BudgetAccounting
    ExecutionCertainty
    NoLostWakeup
    StoppedIsDrained
PROPERTIES
    RejectionsJustified
    ImplementsContract
CHECK_DEADLOCK FALSE
