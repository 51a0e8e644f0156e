SPECIFICATION Spec
CONSTANTS
    Replies <- MCTestReplies
    Masks = {""}
    StackLines <- MCStackLines
    Faults = {}
    MaxFaults = 0
    MaxHashes = 1
INVARIANTS
    DnsOnlyCommentsAll
