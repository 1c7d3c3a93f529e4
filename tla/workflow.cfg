\* Every graph of three nodes of different types with up to two edges between two.
SPECIFICATION PromptSpec
CONSTANTS
    n1 = n1  n2 = n2  n3 = n3  n4 = n4
    Nodes = {n1, n2, n3}
    Type <- Types
    Names <- Named
    MaxEdges = 2
    MaxParallel = 2
INVARIANTS TypeOK CyclesAreFound StagesAreLevels InputsFollowTheGraph
PROPERTIES ImplementsDagRun RunEnds
