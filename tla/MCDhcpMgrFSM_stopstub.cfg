SPECIFICATION Spec
CONSTANTS
    Replies <- MCReplies
    Masks = {""}
    StackLines <- MCStackLines
    Faults = {}
    MaxFaults = 0
    MaxHashes = 1
INVARIANTS
    StopStopsAllInterfaces
