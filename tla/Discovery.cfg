SPECIFICATION Spec
CONSTANTS
    look = look
    buy = buy
    far = far
    healthz = healthz
    t1 = t1
    t2 = t2
    owner = owner
    shop = shop
    catalog = catalog
    support = support
    Identifiers = {look, buy, far, healthz, owner, shop, catalog, support}
    Empty = empty
    Odd = odd
    NoText = no_text
    Absent = absent
    Reserved = {healthz}
    Tokens = {t1, t2}
    DispatcherTokens <- BothTokens
    Manifests <- EveryManifest
    Successors <- Replacements
    Ceilings = {0, 2, 3, 1001}
    MaxRevision = 2
    MaxStarts = 2
INVARIANTS
    ServedIsAccepted
    RoutesRight
    Agree
CHECK_DEADLOCK FALSE
