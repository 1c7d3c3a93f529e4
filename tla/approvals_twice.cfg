\* Refuted: a run and another caller execute the same approval.
SPECIFICATION Spec
CONSTANTS
    x1 = x1  x2 = x2  x3 = x3  i1 = i1  i2 = i2  k1 = k1  k2 = k2
    Actions = {x3}
    NoAction = NoAction
    Items = {i1, i2}
    ItemOf <- SharedItem
    Keys = {k1, k2}
    KeyOf <- SharedKey
    TierOf <- Mixed
    Runs = {r1}
    Callers = {c1}
    Notifies = FALSE
    Crashes = FALSE
    MaxGrants = 1
INVARIANTS OneExecutionPerApproval
