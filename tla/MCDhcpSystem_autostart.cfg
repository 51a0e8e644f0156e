\* A client and a provider that start when they like; a user who types the
\* commands; gets fail only when there is no provider.
SPECIFICATION SysSpec
CONSTANTS
    Replies <- MCReplies
    Masks = {""}
    StackLines <- MCStackLines
    Faults = {"get"}
    MaxFaults = 1
    MaxHashes = 1
    Clients = {"c1"}
    Callers <- MCCallers
    BusFaults = {}
    MaxSets = 2
    MaxCrashes = 0
    Commands = {"start", "stop", "restart"}
PROPERTIES
    ReadyServes
    SetReturns
    BusyEnds
