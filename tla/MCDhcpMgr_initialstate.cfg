SPECIFICATION MgrSpec
CONSTANTS
    Replies <- MCReplies
    Masks = {""}
    StackLines <- MCStackLines
    Faults = {}
    MaxFaults = 0
    MaxHashes = 1
    Clients = {"c1"}
    Callers = {"k1"}
    BusFaults = {}
    MaxSets = 1
    MaxCrashes = 0
PROPERTIES
    InitialStateIsFirst
