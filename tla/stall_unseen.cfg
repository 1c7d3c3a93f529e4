\* Refuted: no event names the agent, so no tick ever looks stalled.
SPECIFICATION FairSpec
CONSTANTS
    a1 = a1  a2 = a2  m1 = m1  m2 = m2
    Agents = {a1}
    NoAgent = NoAgent
    Scheduler = sched
    HttpThreads = {h1}
    CliRuns = {}
    Messages = {}
    Addressee <- ToA1
    Scheduled = {}
    MaxRetries = 2
    MaxStallRetries = 1
    TokenLimit = 0
    Environment = {"stall"}
PROPERTIES StalledTickReleased
