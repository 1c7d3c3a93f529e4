\* Refuted: activating an operator leaves two tasks that run it.
SPECIFICATION Spec
CONSTANTS
    t1 = t1  t2 = t2  op = op  p1 = p1  p2 = p2  c1 = c1  c2 = c2
    Tasks = {op, t2}
    NoTask = NoTask
    Kind <- OnceFirst
    OperatorTasks = {op}
    Pollers = {p1}
    Clients = {c2}
    ProcessOf <- Shared
    MaxFaults = 0
INVARIANTS OneTaskPerOperator
