\* Ticks of a scheduler, a route thread and a command that hang, fail or raise, a server
\* that dies and comes back, and the reconciler.
SPECIFICATION FairSpec
CONSTANTS
    a1 = a1  a2 = a2  m1 = m1  m2 = m2
    Agents = {a1}
    NoAgent = NoAgent
    Scheduler = sched
    HttpThreads = {h1}
    CliRuns = {c1}
    Messages = {}
    Addressee <- ToA1
    Scheduled = {a1}
    MaxRetries = 2
    MaxStallRetries = 1
    TokenLimit = 0
    Environment = {"cli", "stall", "activity", "crash", "raise"}
INVARIANTS NoZombieGuard
PROPERTIES HungTickReleased GuardIsReleased
