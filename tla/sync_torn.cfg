\* Refuted: a sync that died in mid-document is resumed.
SPECIFICATION Spec
CONSTANTS
    d1 = d1  d2 = d2  d3 = d3  s1 = s1  s2 = s2  c1 = c1
    Docs = {d1, d2}
    NoDoc = NoDoc
    Size = 2
    BatchSize = 2
    Filters = FALSE
    Threads = {s1}
    Commands = {c1}
    MaxFaults = 1
INVARIANTS ResumeCompletes
