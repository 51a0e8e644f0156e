----------------------------- MODULE MCDhcpSystem -----------------------------
(* Instances of DhcpSystem: one bridge to serve, one client.               *)
EXTENDS DhcpSystem

Reply(entries) == [num_entries |-> Len(entries), dhcpPayload |-> entries]

MCReplies    == { Reply(<< DhcpEntry("brlan0", TRUE, "p0") >>) }
MCStackLines == { ConfLine("builtin", << >>) }
MCCallers    == Clients \X {"main", "event"}
=============================================================================
