\* Refuted: the run writes its stale 'pending' over the user's answer.
SPECIFICATION Spec
CONSTANTS
    x1 = x1  x2 = x2  x3 = x3  i1 = i1  i2 = i2  k1 = k1  k2 = k2
    Actions = {x1}
    NoAction = NoAction
    Items = {i1, i2}
    ItemOf <- SharedItem
    Keys = {k1, k2}
    KeyOf <- SharedKey
    TierOf <- Mixed
    Runs = {r1}
    Callers = {}
    Notifies = TRUE
    Crashes = FALSE
    MaxGrants = 1
PROPERTIES DecisionKept
