SPECIFICATION FairSpec
CONSTANTS
    Kinds = {"process", "docker", "ecs", "k8s"}
    Nodes = {n1, n2}
    NoNode = NoNode
    NoCode = NoCode
    Affinities = {"preferred", "required"}
    MaxWorkerRestarts = 1
    MaxNodeLookups = 2
    MaxUnits = 3
    MaxFaults = 1
INVARIANTS  CodeIsEarned SteeredBack
 
CHECK_DEADLOCK FALSE
