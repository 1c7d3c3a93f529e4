\* One agent, every kind of trouble, one worker of each kind.
SPECIFICATION Spec
CONSTANTS
    a1 = a1  a2 = a2  m1 = m1  m2 = m2
    Agents = {a1}
    NoAgent = NoAgent
    Scheduler = sched
    HttpThreads = {h1}
    CliRuns = {c1}
    Messages = {}
    Addressee <- ToA1
    Scheduled = {a1}
    MaxRetries = 2
    MaxStallRetries = 1
    TokenLimit = 1
    Environment = {"operator", "cli", "crash", "stall", "activity", "misconfig", "raise"}
INVARIANTS TypeOK GuardUnlessOverwritten
PROPERTIES ImplementsTickLock
