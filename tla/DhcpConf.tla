------------------------------- MODULE DhcpConf -------------------------------
(***************************************************************************)
(* The dnsmasq configuration file as the DHCP manager writes, compares,    *)
(* edits and scans it (dhcp_server_v4_apis.c and dns_only of               *)
(* sm_DhcpMgr_apis.c).                                                     *)
(*                                                                         *)
(* A file is a sequence of lines.  A line is a keyword with its arguments  *)
(* and the number of '#' in front of it: what the code distinguishes is    *)
(* whether two lines are equal, whether a line starts with "interface="    *)
(* or "dhcp-range=", and whether "interface" or "dhcp-range" occurs in it. *)
(* Addresses, names and option values are assumed to contain neither word. *)
(***************************************************************************)
EXTENDS Naturals, FiniteSets, SequencesExt

Keywords == { "domain-needed", "bogus-priv", "address", "builtin", "resolv-file", "no-resolv",
              "domain", "expand-hosts", "dhcp-leasefile", "dhcp-hostsfile", "dhcp-optsfile",
              "dhcp-option", "dhcp-vendorclass", "no-dhcp-interface", "interface",
              "dhcp-range", "name-server", "server" }

Line == [hashes : Nat, key : Keywords, arg : Seq(STRING)]
ConfLine(key, arg) == [hashes |-> 0, key |-> key, arg |-> arg]

-----------------------------------------------------------------------------
(* dhcpServerInit's contents.                                              *)

IfSet(b, key)      == IF b THEN << ConfLine(key, <<>>) >> ELSE << >>
IfNonEmpty(v, key) == IF v # "" THEN << ConfLine(key, <<v>>) >> ELSE << >>
EachOf(vs, key)    == [i \in 1..Len(vs) |-> ConfLine(key, <<vs[i]>>)]

\* GlobalDhcpConfig after the memset of PrepareConfigv4s, which sets nothing
\* but the command line arguments (kept apart from this record).
ZeroGlobalConfig ==
    [bDomainNeeded |-> FALSE, bBogusPriv |-> FALSE, bExpandHosts |-> FALSE,
     domainSpecific |-> << >>, vendorIds |-> << >>, vendorClasses |-> << >>,
     redirectionUrls |-> << >>, cResolvCfgFile |-> "", cDomain |-> "",
     cDhcpLeaseFile |-> "", cDhcpHostsFile |-> "", cDhcpOptsFile |-> ""]

\* Mutant: a disabled interface is written like an enabled one.
InterfaceLinesUnguarded(c) ==
    IfNonEmpty(c.cGatewayName, "interface")
    \o << ConfLine("dhcp-range", <<c.iDhcpTagNum, c.pool, c.cSubnetMask>>) >>

\* The lines of one interface.  "dns_only" does not keep an enabled interface
\* from also getting its interface and dhcp-range lines.
InterfaceLines(c) ==
    (IF c.cInputStr = "dns_only"
       THEN << ConfLine("no-dhcp-interface", <<c.cGatewayName>>) >> ELSE << >>)
    \o (IF c.bIsDhcpEnabled
          THEN IfNonEmpty(c.cGatewayName, "interface")
               \o << ConfLine("dhcp-range", <<c.iDhcpTagNum, c.pool, c.cSubnetMask>>) >>
          ELSE << >>)
    \o IfNonEmpty(c.cDhcpNameServerIp, "name-server")

\* The whole file.  The fourteen hard-coded lines are one line, "builtin".
ConfLines(g, ifs) ==
    IfSet(g.bDomainNeeded, "domain-needed")
    \o IfSet(g.bBogusPriv, "bogus-priv")
    \o EachOf(g.domainSpecific, "address")
    \o << ConfLine("builtin", <<>>) >>
    \o (IF g.cResolvCfgFile # "" THEN << ConfLine("resolv-file", <<g.cResolvCfgFile>>) >>
                                 ELSE << ConfLine("no-resolv", <<>>) >>)
    \o IfNonEmpty(g.cDomain, "domain")
    \o IfSet(g.bExpandHosts, "expand-hosts")
    \o IfNonEmpty(g.cDhcpLeaseFile, "dhcp-leasefile")
    \o IfNonEmpty(g.cDhcpHostsFile, "dhcp-hostsfile")
    \o IfNonEmpty(g.cDhcpOptsFile, "dhcp-optsfile")
    \o EachOf(g.vendorIds, "dhcp-option")
    \o EachOf(g.vendorClasses, "dhcp-vendorclass")
    \o FlattenSeq([i \in 1..Len(ifs) |-> InterfaceLines(ifs[i])])
    \o EachOf(g.redirectionUrls, "server")

-----------------------------------------------------------------------------
(* Reading a file back.                                                    *)

\* strncmp with "interface=" and "dhcp-range=": only uncommented lines match.
StartsInterface(l) == l.hashes = 0 /\ l.key = "interface"
StartsRange(l)     == l.hashes = 0 /\ l.key = "dhcp-range"

\* strstr: the word anywhere in the line, commented out or not.
HasInterface(l) == l.key \in {"interface", "no-dhcp-interface"}
HasRange(l)     == l.key = "dhcp-range"

ActiveRanges(f)       == {i \in DOMAIN f : StartsRange(f[i])}
isDhcpConfHasInterface(f) == \E i \in DOMAIN f : StartsInterface(f[i])

\* What fgets leaves in the buffer at its i-th call: the i-th line, or the last
\* one read once the file has ended, or what the buffer held before the first
\* read of an empty file.
BufferAt(f, i, stack) ==
    IF f = << >> THEN stack ELSE IF i <= Len(f) THEN f[i] ELSE f[Len(f)]

\* Mutants: the loop ends with the shorter file; the result is that of the last
\* line.
compareFilesShorter(f1, f2, stack1, stack2) ==
    \A i \in 1..(IF Len(f1) < Len(f2) THEN Len(f1) ELSE Len(f2)) : f1[i] = f2[i]
compareFilesLastLine(f1, f2, stack1, stack2) ==
    BufferAt(f1, Len(f1), stack1) = BufferAt(f2, Len(f2), stack2)

\* The files are read in step until both have ended; at the end of the shorter
\* one its last line stays in the buffer and is compared on.
compareFiles(f1, f2, stack1, stack2) ==
    \A i \in 1..(IF Len(f1) > Len(f2) THEN Len(f1) ELSE Len(f2)) :
        BufferAt(f1, i, stack1) = BufferAt(f2, i, stack2)

-----------------------------------------------------------------------------
(* dns_only: comment lines out.                                            *)

Comment(l) == [l EXCEPT !.hashes = @ + 1]

\* iter as it stands when line i is read: the lines with "interface" before i
\* that were commented out, at most two.
Iter(f, i) ==
    LET before == Cardinality({j \in 1..(i - 1) : HasInterface(f[j])})
    IN  IF before < 2 THEN before ELSE 2

\* Mutant: ranges are commented out up to the second interface only.
dns_onlyTwoRanges(f) ==
    [i \in 1..Len(f) |->
        IF (HasInterface(f[i]) \/ HasRange(f[i])) /\ Iter(f, i) < 2
        THEN Comment(f[i]) ELSE f[i]]

dns_only(f) ==
    [i \in 1..Len(f) |->
        IF \/ HasInterface(f[i]) /\ Iter(f, i) < 2
           \/ HasRange(f[i]) /\ Iter(f, i) < 3
        THEN Comment(f[i]) ELSE f[i]]

-----------------------------------------------------------------------------
(* dhcpServerStop(NULL, 0): an interface line takes the next line with it, *)
(* and the file has an interface to stop iff one of those is a range.      *)

ReadByLoop(f) ==
    LET outer[i \in 1..Len(f)] ==
          i = 1 \/ ~(outer[i - 1] /\ StartsInterface(f[i - 1]))
    IN  {i \in 1..Len(f) : outer[i]}

\* Mutants: commented lines count, as in dns_only; an interface line leaves the next
\* line to the loop.
StopFindsInterfaceCommented(f) ==
    \E i \in 1..(Len(f) - 1) : HasInterface(f[i]) /\ HasRange(f[i + 1])
StopFindsInterfaceAnywhere(f) ==
    \E i \in 1..(Len(f) - 1) : StartsInterface(f[i]) /\ StartsRange(f[i + 1])

StopFindsInterface(f) ==
    \E i \in ReadByLoop(f) :
        StartsInterface(f[i]) /\ i < Len(f) /\ StartsRange(f[i + 1])
=============================================================================
