------------------------------- MODULE MCDhcpMgr -------------------------------
(* Instances of DhcpMgr: one bridge, and callers that are also subscribers. *)
EXTENDS DhcpMgr

Reply(entries) == [num_entries |-> Len(entries), dhcpPayload |-> entries]

MCReplies    == { Reply(<< DhcpEntry("brlan0", TRUE, "p0") >>) }
MCStackLines == { ConfLine("builtin", << >>) }
=============================================================================
