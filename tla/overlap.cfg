\* Refuted: the failure flag of a finished tick unlocks the next one.
SPECIFICATION Spec
CONSTANTS
    a1 = a1  a2 = a2  m1 = m1  m2 = m2
    Agents = {a1}
    NoAgent = NoAgent
    Scheduler = sched
    HttpThreads = {h1}
    CliRuns = {}
    Messages = {}
    Addressee <- ToA1
    Scheduled = {a1}
    MaxRetries = 2
    MaxStallRetries = 0
    TokenLimit = 0
    Environment = {}
INVARIANTS OneTickPerAgent
