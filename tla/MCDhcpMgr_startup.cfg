\* Start-up, requests, subscribers that come and go, publishes
\* that fail and a manager that is killed anywhere.
SPECIFICATION MgrSpec
CONSTANTS
    Replies <- MCReplies
    Masks = {""}
    StackLines <- MCStackLines
    Faults = {"crash", "alloc", "die"}
    MaxFaults = 2
    MaxHashes = 1
    Clients = {"c1"}
    Callers = {"k1"}
    BusFaults = {"open", "register", "publish"}
    MaxSets = 1
    MaxCrashes = 1
INVARIANTS
    MgrTypeOK
    ToldIdleAtRest
PROPERTIES
    StatesFollow
