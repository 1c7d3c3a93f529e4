\* Two overlapping runs that may die.
SPECIFICATION Spec
CONSTANTS
    x1 = x1  x2 = x2  x3 = x3  i1 = i1  i2 = i2  k1 = k1  k2 = k2
    Actions = {x1, x3}
    NoAction = NoAction
    Items = {i1, i2}
    ItemOf <- SharedItem
    Keys = {k1, k2}
    KeyOf <- SharedKey
    TierOf <- Mixed
    Runs = {r1, r2}
    Callers = {}
    Notifies = TRUE
    Crashes = TRUE
    MaxGrants = 1
INVARIANTS RunsActAtMostOnce
