\* No failures: the test provider's three bridges, a partly disabled LAN, an
\* empty one, and what the uninitialised subnet masks may read as.
SPECIFICATION Spec
CONSTANTS
    Replies <- MCAllReplies
    Masks = {"", "mask"}
    StackLines <- MCStackLines
    Faults = {}
    MaxFaults = 0
    MaxHashes = 2
INVARIANTS
    ExactCompare
    StartServes
    StopSilences
    StopKillsOnlyServing
