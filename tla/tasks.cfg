\* A one-time task: two poll loops, a tool in the process of the first, another process.
SPECIFICATION Spec
CONSTANTS
    t1 = t1  t2 = t2  op = op  p1 = p1  p2 = p2  c1 = c1  c2 = c2
    Tasks = {t1}
    NoTask = NoTask
    Kind <- OnceFirst
    OperatorTasks = {}
    Pollers = {p1, p2}
    Clients = {c1, c2}
    ProcessOf <- Shared
    MaxFaults = 1
INVARIANTS TypeOK OnceTwiceNeedsRace CopyIsCurrent
