\* A manager that is killed, calls that fail or time out, clients and providers that
\* quit; a user who does nothing but quit.  When all have quit, nothing more happens.
CHECK_DEADLOCK FALSE
SPECIFICATION SysSpec
CONSTANTS
    Replies <- MCReplies
    Masks = {""}
    StackLines <- MCStackLines
    Faults = {"get", "crash"}
    MaxFaults = 2
    MaxHashes = 1
    Clients = {"c1"}
    Callers <- MCCallers
    BusFaults = {"open", "register", "timeout"}
    MaxSets = 2
    MaxCrashes = 2
    Commands = {"quit"}
PROPERTIES
    ReadyInstalls
