SPECIFICATION Spec
CONSTANTS
    FileLines <- MCFileLines
    MaxLength = 4
    MaxEdits = 2
    Unread <- MCUnread
INVARIANTS
    DnsOnlyIsItsLoop
    CompareIsItsLoop
    StopScanIsItsLoop
    EditedIsSilent
    EditIsSeen
\* The machine stops when a file has been edited MaxEdits times.
CHECK_DEADLOCK FALSE
