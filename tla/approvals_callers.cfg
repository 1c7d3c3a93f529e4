\* A run and another agent that has the tools, with notifications.
SPECIFICATION Spec
CONSTANTS
    x1 = x1  x2 = x2  x3 = x3  i1 = i1  i2 = i2  k1 = k1  k2 = k2
    Actions = {x1, x2}
    NoAction = NoAction
    Items = {i1, i2}
    ItemOf <- SharedItem
    Keys = {k1, k2}
    KeyOf <- SharedKey
    TierOf <- LowTrivial
    Runs = {r1}
    Callers = {c1}
    Notifies = TRUE
    Crashes = FALSE
    MaxGrants = 1
INVARIANTS EffectNeedsConsent AutoApprovedIsSettled
