SPECIFICATION FairSpec
CONSTANTS
    a1 = a1
    a2 = a2
    a3 = a3
    i1 = i1
    i2 = i2
    agentBudget = agentBudget
    interactiveBudget = interactiveBudget
    Requests = {a1, i1}
    Budgets <- MCBudgets
    BudgetOf <- MCBudgetOf
    BudgetClass <- MCBudgetClass
    InitialLimit <- TightLimit
    Limits = {1}
    MaxRevision = 1
    ExecutionLimit = 1
    QueueCapacity = 1
    MaxWait <- AgentsWaitLonger
    Mode = "weighted"
    Outcomes = {"completed"}
PROPERTIES
    AdmittedAnswered
    ClosedStops
    DroppedReleasesAll
CHECK_DEADLOCK FALSE
