\* A user who types the command again when it timed out, while event_handler sets it
\* too.  When client and provider have quit, nothing more happens.
CHECK_DEADLOCK FALSE
SPECIFICATION SysSpec
CONSTANTS
    Replies <- MCReplies
    Masks = {""}
    StackLines <- MCStackLines
    Faults = {"get"}
    MaxFaults = 1
    MaxHashes = 1
    Clients = {"c1"}
    Callers <- MCCallers
    BusFaults = {"timeout"}
    MaxSets = 2
    MaxCrashes = 0
    Commands = {"start", "quit"}
INVARIANTS
    SysTypeOK
PROPERTIES
    ReadyInstalls
