\* Refuted: a node that does not come back is timed out.
SPECIFICATION FairSpec
CONSTANTS
    n1 = n1  n2 = n2  n3 = n3  n4 = n4
    Nodes = {n1, n2, n3}
    Type <- Types
    Names <- Named
    MaxEdges = 1
    MaxParallel = 2
PROPERTIES NodesTimeOut
