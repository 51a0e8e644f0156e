------------------------------ MODULE LanConfig ------------------------------
(***************************************************************************)
(* The LAN configuration: what the LanManager's provider answers to an     *)
(* rbus get of Device.LanManager.DhcpConfig, and how the DHCP manager      *)
(* turns the answer into one DhcpInterfaceConfig per bridge                *)
(* (sm_DhcpMgr_apis.c).                                                    *)
(*                                                                         *)
(* A bridge's address range and lease time are one abstract value, its     *)
(* "pool"; the DHCPv6 half of the payload is parsed and never used, and is *)
(* left out.                                                               *)
(***************************************************************************)
EXTENDS Naturals, Sequences

CONSTANTS
    Replies,   \* the documents the provider may answer with
    Masks      \* what the uninitialised Subnet_Mask of a payload may read as

\* The size of the lanConfigs array on PrepareConfigv4s's stack.
MAX_IFACE_COUNT == 16

\* One element of the document's dhcpPayload array.
DhcpEntry(bridgeName, enable, pool) ==
    [bridgeName |-> bridgeName, Dhcpv4_Enable |-> enable, pool |-> pool]

\* The document of the test provider: three enabled bridges.
TestAppReply ==
    [num_entries |-> 3,
     dhcpPayload |-> << DhcpEntry("brlan0", TRUE, "192.168.1.2-254"),
                        DhcpEntry("brlan1", TRUE, "10.0.0.2-200"),
                        DhcpEntry("br1an2", TRUE, "172.168.0.2-200") >>]

\* The parser indexes dhcpPayload by num_entries and fills an array of
\* MAX_IFACE_COUNT payloads without checking either: the provider keeps the
\* count exact and within the array.  Every bridge has a name.
ASSUME RepliesAssumption ==
    \A r \in Replies :
        /\ r.num_entries = Len(r.dhcpPayload)
        /\ r.num_entries <= MAX_IFACE_COUNT
        /\ r.dhcpPayload \in
             Seq([bridgeName : STRING \ {""}, Dhcpv4_Enable : BOOLEAN, pool : STRING])

\* (That "" is a string is a fact the provers are not told.)
ASSUME EmptyAssumption == "" \in STRING

ASSUME MasksAssumption == Masks # {} /\ Masks \subseteq STRING

-----------------------------------------------------------------------------

\* The payloads parsed from a document: num_entries of them.  Without a
\* document (the get failed, payload is NULL) cJSON_Parse(NULL) fails, the
\* parser returns -1, which GetLanDHCPConfig ignores, and the count is still 0.
NoPayloads == << >>
parseDhcpPayloadJson(reply) ==
    [i \in 1..reply.num_entries |-> reply.dhcpPayload[i]]

\* The interface configurations filled from the payloads.  A disabled bridge
\* keeps the zeroes of its allocation.  Subnet_Mask is copied although nothing
\* ever wrote it: mask[i] is what that stack memory holds.
Add_inf_to_dhcp_config(payloads, mask) ==
    [i \in 1..Len(payloads) |->
        LET p == payloads[i] IN
        [bIsDhcpEnabled |-> p.Dhcpv4_Enable,
         cGatewayName   |-> p.bridgeName,
         pool           |-> IF p.Dhcpv4_Enable THEN p.pool ELSE "",
         cSubnetMask    |-> IF p.Dhcpv4_Enable THEN mask[i] ELSE "",
         iDhcpTagNum |-> "", cInputStr |-> "", cDhcpNameServerIp |-> ""]]

\* Every list of interface configurations that PrepareConfigv4s can build.
IfaceListsOf(reply) ==
    LET payloads == parseDhcpPayloadJson(reply) IN
    { Add_inf_to_dhcp_config(payloads, mask) : mask \in [1..Len(payloads) -> Masks] }
IfaceLists == { NoPayloads } \cup (UNION { IfaceListsOf(r) : r \in Replies })
=============================================================================
