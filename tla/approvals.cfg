\* Runs that do not overlap and may die, no other agent, no notification channel.
SPECIFICATION Spec
CONSTANTS
    x1 = x1  x2 = x2  x3 = x3  i1 = i1  i2 = i2  k1 = k1  k2 = k2
    Actions = {x1, x2}
    NoAction = NoAction
    Items = {i1, i2}
    ItemOf <- SharedItem
    Keys = {k1, k2}
    KeyOf <- SharedKey
    TierOf <- LowTrivial
    Runs = {r1}
    Callers = {}
    Notifies = FALSE
    Crashes = TRUE
    MaxGrants = 1
INVARIANTS TypeOK RunsActAtMostOnce
PROPERTIES DecisionKeptUnlessNotified ItemsDoNotResurface
