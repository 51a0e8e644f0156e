----------------------------- MODULE MCDhcpMgrFSM -----------------------------
(* Instances of DhcpMgrFSM: the documents the provider may answer with.     *)
EXTENDS DhcpMgrFSM

Reply(entries) == [num_entries |-> Len(entries), dhcpPayload |-> entries]

\* One bridge, two bridges of which one is disabled, none, and the document of
\* the test provider.
One    == Reply(<< DhcpEntry("brlan0", TRUE, "p0") >>)
Two    == Reply(<< DhcpEntry("brlan0", FALSE, "p0"), DhcpEntry("brlan1", TRUE, "p1") >>)
None   == Reply(<< >>)

MCReplies     == {One, Two}
MCAllReplies  == {TestAppReply, Two, None}
MCTestReplies == {TestAppReply}

\* An unread buffer may hold anything, a line of a file included.
MCStackLines == { ConfLine("", << >>), ConfLine("builtin", << >>) }
=============================================================================
