\* Every failure, two at a time, those included that truncate files or kill the
\* manager in mid-call.
SPECIFICATION Spec
CONSTANTS
    Replies <- MCReplies
    Masks = {""}
    StackLines <- MCStackLines
    Faults = {"openTmp", "openConf", "popen", "remove", "kill", "exec", "alloc", "get", "die", "crash"}
    MaxFaults = 2
    MaxHashes = 1
INVARIANTS
    TypeOK
    RestIsIdle
    StaleOnlyAfterFault
    RestartsOnlyForChange
    StartServes
    StartInstalls
    ExactCompare
    StopSilences
    PublishedSequence
    PlainIsTransient
PROPERTIES
    RequestCompletes
    ImplementsService
