\* Refuted: POST /messages runs an archived agent.
SPECIFICATION Spec
CONSTANTS
    a1 = a1  a2 = a2  m1 = m1  m2 = m2
    Agents = {a1}
    NoAgent = NoAgent
    Scheduler = sched
    HttpThreads = {h1}
    CliRuns = {}
    Messages = {m1}
    Addressee <- ToA1
    Scheduled = {a1}
    MaxRetries = 2
    MaxStallRetries = 0
    TokenLimit = 0
    Environment = {"operator"}
PROPERTIES ArchivedNeverRuns
