-------------------------- MODULE DhcpServerV4Proofs --------------------------
(***************************************************************************)
(* The DHCPv4 server API, called in any order, on any LAN and with any     *)
(* failures: type correctness, that dnsmasq runs the installed             *)
(* configuration unless a failure explains it, and what each of the two    *)
(* killalls may interrupt.                                                 *)
(***************************************************************************)
EXTENDS DhcpServerV4, DhcpConfProofs

-----------------------------------------------------------------------------
(* The LAN's configurations.                                               *)

\* A payload of a document, as RepliesAssumption has it.
Payload == [bridgeName : STRING \ {""}, Dhcpv4_Enable : BOOLEAN, pool : STRING]

\* ifs holds what the provider's document r says of each bridge.
FilledFrom(ifs, r) ==
    /\ Len(ifs) = Len(r.dhcpPayload)
    /\ \A i \in 1..Len(ifs) :
         /\ r.dhcpPayload[i] \in Payload
         /\ PlainConfig(ifs[i])
         /\ ifs[i].bIsDhcpEnabled = r.dhcpPayload[i].Dhcpv4_Enable
         /\ ifs[i].cGatewayName = r.dhcpPayload[i].bridgeName
         /\ ifs[i].bIsDhcpEnabled => ifs[i].pool = r.dhcpPayload[i].pool

\* A document has as many payloads as it says.
LEMMA ReplyType ==
    ASSUME NEW r \in Replies
    PROVE  r.dhcpPayload \in Seq(Payload) /\ r.num_entries = Len(r.dhcpPayload)
BY RepliesAssumption DEF Payload

\* Whatever the uninitialised masks hold, the interface configurations are typed
\* and say what the document says.
LEMMA Filled ==
    ASSUME NEW r \in Replies, NEW mask \in [1..Len(parseDhcpPayloadJson(r)) -> Masks]
    PROVE  /\ Add_inf_to_dhcp_config(parseDhcpPayloadJson(r), mask) \in Seq(IfaceConfig)
           /\ FilledFrom(Add_inf_to_dhcp_config(parseDhcpPayloadJson(r), mask), r)
<1> DEFINE ps == parseDhcpPayloadJson(r)
           n == r.num_entries
           ifs == Add_inf_to_dhcp_config(ps, mask)
<1>1. n = Len(r.dhcpPayload) /\ r.dhcpPayload \in Seq(Payload)
  BY ReplyType
<1>2. n \in Nat /\ \A i \in 1..n : r.dhcpPayload[i] \in Payload
  BY <1>1
<1>3. ps = [i \in 1..n |-> r.dhcpPayload[i]]
  BY DEF parseDhcpPayloadJson
<1>4. Len(ps) = n /\ \A i \in 1..n : ps[i] = r.dhcpPayload[i]
  <2> HIDE DEF n, ps
  <2> QED BY <1>2, <1>3
<1>5. mask \in [1..n -> Masks]
  BY <1>4
<1> HIDE DEF ps, n
<1>6. /\ ifs = [i \in 1..n |-> ifs[i]]
      /\ \A i \in 1..n : ifs[i] = [bIsDhcpEnabled |-> ps[i].Dhcpv4_Enable,
                    cGatewayName   |-> ps[i].bridgeName,
                    pool           |-> IF ps[i].Dhcpv4_Enable THEN ps[i].pool ELSE "",
                    cSubnetMask    |-> IF ps[i].Dhcpv4_Enable THEN mask[i] ELSE "",
                    iDhcpTagNum |-> "", cInputStr |-> "", cDhcpNameServerIp |-> ""]
  BY <1>4 DEF Add_inf_to_dhcp_config
<1> HIDE DEF ifs
<1>7. ASSUME NEW i \in 1..n
      PROVE  /\ PlainConfig(ifs[i])
             /\ ifs[i].bIsDhcpEnabled = r.dhcpPayload[i].Dhcpv4_Enable
             /\ ifs[i].cGatewayName = r.dhcpPayload[i].bridgeName
             /\ ifs[i].bIsDhcpEnabled => ifs[i].pool = r.dhcpPayload[i].pool
  <2>1. /\ ps[i].bridgeName \in STRING /\ ps[i].bridgeName # ""
        /\ ps[i].Dhcpv4_Enable \in BOOLEAN /\ ps[i].pool \in STRING
    BY <1>2, <1>4 DEF Payload
  <2>2. mask[i] \in STRING /\ "" \in STRING
    BY <1>5, MasksAssumption, EmptyAssumption
  <2> DEFINE pl == IF ps[i].Dhcpv4_Enable THEN ps[i].pool ELSE ""
             mk == IF ps[i].Dhcpv4_Enable THEN mask[i] ELSE ""
  <2>3. pl \in STRING /\ mk \in STRING
    BY <2>1, <2>2
  <2>4. ps[i].Dhcpv4_Enable => pl = ps[i].pool
    OBVIOUS
  <2>5. ifs[i] = [bIsDhcpEnabled |-> ps[i].Dhcpv4_Enable, cGatewayName |-> ps[i].bridgeName,
                  pool |-> pl, cSubnetMask |-> mk, iDhcpTagNum |-> "", cInputStr |-> "",
                  cDhcpNameServerIp |-> ""]
    BY <1>6
  <2> HIDE DEF pl, mk
  <2>6. \A none \in STRING :
          [bIsDhcpEnabled |-> ps[i].Dhcpv4_Enable, cGatewayName |-> ps[i].bridgeName,
           pool |-> pl, cSubnetMask |-> mk, iDhcpTagNum |-> none, cInputStr |-> none,
           cDhcpNameServerIp |-> none] \in IfaceConfig
    BY <2>1, <2>3 DEF IfaceConfig
  <2>7. ifs[i] \in IfaceConfig
    BY <2>2, <2>5, <2>6
  <2>8. ASSUME NEW none,
               ifs[i] = [bIsDhcpEnabled |-> ps[i].Dhcpv4_Enable, cGatewayName |-> ps[i].bridgeName,
                         pool |-> pl, cSubnetMask |-> mk, iDhcpTagNum |-> none,
                         cInputStr |-> none, cDhcpNameServerIp |-> none]
        PROVE  /\ ifs[i].bIsDhcpEnabled = ps[i].Dhcpv4_Enable
               /\ ifs[i].cGatewayName = ps[i].bridgeName
               /\ ifs[i].pool = pl /\ ifs[i].cInputStr = none /\ ifs[i].cDhcpNameServerIp = none
    BY <2>8
  <2>9. /\ ifs[i].bIsDhcpEnabled = ps[i].Dhcpv4_Enable
        /\ ifs[i].cGatewayName = ps[i].bridgeName
        /\ ifs[i].pool = pl /\ ifs[i].cInputStr = "" /\ ifs[i].cDhcpNameServerIp = ""
    BY <2>5, <2>8, Zenon
  <2> QED BY <1>4, <2>1, <2>4, <2>7, <2>9 DEF PlainConfig
<1>8. ifs \in [1..n -> IfaceConfig]
  <2>1. \A i \in 1..n : ifs[i] \in IfaceConfig
    BY <1>7 DEF PlainConfig
  <2> QED BY <1>6, <2>1
<1>9. ifs \in Seq(IfaceConfig) /\ Len(ifs) = n
  BY <1>2, <1>8, FunctionIsSeq
<1>10. FilledFrom(ifs, r)
  BY <1>1, <1>2, <1>7, <1>9 DEF FilledFrom, n
<1> QED BY <1>9, <1>10 DEF ifs, ps

\* Every list of interface configurations is none, or filled from a document.
LEMMA IfaceListsFilled ==
    ASSUME NEW ifs \in IfaceLists, ifs # NoPayloads
    PROVE  \E r \in Replies : ifs \in Seq(IfaceConfig) /\ FilledFrom(ifs, r)
<1>1. PICK r \in Replies : ifs \in IfaceListsOf(r)
  BY DEF IfaceLists
<1>2. PICK mask \in [1..Len(parseDhcpPayloadJson(r)) -> Masks] :
        ifs = Add_inf_to_dhcp_config(parseDhcpPayloadJson(r), mask)
  BY <1>1 DEF IfaceListsOf
<1> QED BY <1>2, Filled

\* Interface configurations are typed, and set nothing but a bridge and its range.
LEMMA IfaceListsType ==
    ASSUME NEW ifs \in IfaceLists
    PROVE  ifs \in Seq(IfaceConfig) /\ \A i \in 1..Len(ifs) : PlainConfig(ifs[i])
<1>1. CASE ifs = NoPayloads
  <2>1. ifs \in Seq(IfaceConfig) /\ Len(ifs) = 0
    BY <1>1, NoElements DEF NoPayloads
  <2> QED BY <2>1
<1>2. CASE ifs # NoPayloads
  BY <1>2, IfaceListsFilled DEF FilledFrom
<1> QED BY <1>1, <1>2

\* What dhcpServerInit and dns_only write is a file.
LEMMA FilesWritten ==
    /\ \A ifs \in IfaceLists : File(ConfLines(ZeroGlobalConfig, ifs)) \in FileType
    /\ \A f \in Seq(Line) : File(dns_only(f)) \in FileType
    /\ File(<< >>) \in FileType
    /\ NoFile \in FileType
<1>1. \A ifs \in IfaceLists : ConfLines(ZeroGlobalConfig, ifs) \in Seq(Line)
  BY IfaceListsType, ConfLinesType
<1>2. \A f \in Seq(Line) : dns_only(f) \in Seq(Line)
  BY DnsOnlyLines
<1>3. << >> \in Seq(Line)
  BY NoElements
<1> QED BY <1>1, <1>2, <1>3 DEF File, NoFile, FileType

-----------------------------------------------------------------------------
(* Type correctness.                                                       *)

\* The files and the process are of their types at start-up.
LEMMA TypeInit == ServerInit => ServerTypeOK
<1> SUFFICES ASSUME ServerInit PROVE ServerTypeOK
  OBVIOUS
<1>1. conf \in FileType /\ local \in FileType
  BY FilesWritten DEF ServerInit
<1>2. dnsmasq \in ProcessType
  BY NoElements DEF ServerInit, NoProcess, ProcessType, Args
<1> QED BY <1>1, <1>2 DEF ServerInit, ServerTypeOK, Calls, Args

\* A failure that is recorded is one that can happen.
LEMMA FaultType ==
    ASSUME ServerTypeOK, NEW f \in FaultKinds \cup {"noConf"}, Record(f)
    PROVE  faulted' \subseteq FaultKinds \cup {"noConf"} /\ failed' \subseteq FaultKinds \cup {"noConf"}
BY DEF ServerTypeOK, Record

\* Every system call keeps the files and the process of their types.
LEMMA TypeNext == ServerTypeOK /\ [ServerNext]_serverVars => ServerTypeOK'
<1> SUFFICES ASSUME ServerTypeOK, [ServerNext]_serverVars PROVE ServerTypeOK'
  OBVIOUS
<1> USE DEF ServerTypeOK, Calls, StartSteps, StopSteps, Goto, Return, files, history
<1>0. ASSUME NEW f \in FaultKinds, Fault(f) \/ Record("noConf") \/ NoFault
      PROVE  /\ faulted' \subseteq FaultKinds \cup {"noConf"}
             /\ failed' \subseteq FaultKinds \cup {"noConf"}
  BY <1>0, FaultType DEF Fault, NoFault
<1>f. /\ Fault("alloc") \/ Fault("openTmp") \/ Fault("openConf") \/ Fault("popen")
           \/ Fault("remove") \/ Fault("kill") \/ Fault("exec") \/ Fault("die")
           \/ Fault("crash") \/ Fault("get") \/ Record("noConf") \/ NoFault
         => /\ faulted' \subseteq FaultKinds \cup {"noConf"}
            /\ failed' \subseteq FaultKinds \cup {"noConf"}
  BY <1>0 DEF FaultKinds
<1>1. ASSUME NEW ifs \in IfaceLists, dhcpServerInit(ifs) PROVE ServerTypeOK'
  BY <1>1, <1>f, FilesWritten DEF dhcpServerInit
<1>2. CASE DnsOnlyRewrite
  <2>1. conf.lines \in Seq(Line)
    BY DEF FileType
  <2> QED BY <1>2, <1>f, <2>1, FilesWritten DEF DnsOnlyRewrite
<1>3. ASSUME NEW options \in Args, dhcpServerStart(options) PROVE ServerTypeOK'
  BY <1>3 DEF dhcpServerStart
<1>4. CASE dhcpServerStop
  BY <1>4, <1>f DEF dhcpServerStop
<1>p. extractPid => /\ pid' \in BOOLEAN
                    /\ faulted' \subseteq FaultKinds \cup {"noConf"}
                    /\ failed' \subseteq FaultKinds \cup {"noConf"}
  BY <1>f DEF extractPid, ProcessType
<1>5. CASE StartPid
  BY <1>5, <1>p DEF StartPid
<1>6. CASE StartCompare
  BY <1>6, <1>f DEF StartCompare
<1>7. CASE StartCopy
  BY <1>7, <1>f, FilesWritten DEF StartCopy
<1>8. CASE StartWrite
  BY <1>8 DEF StartWrite
<1>9. CASE StartRemove
  BY <1>9, <1>f, FilesWritten DEF StartRemove
<1>k. NoProcess \in ProcessType
  BY NoElements DEF NoProcess, ProcessType, Args
<1>10. CASE StartKill
  BY <1>10, <1>f, <1>k DEF StartKill, KillAll
<1>e. ASSUME NEW a \in Args, Exec(a)
      PROVE  /\ dnsmasq' \in ProcessType /\ call' \in Calls
             /\ faulted' \subseteq FaultKinds \cup {"noConf"}
             /\ failed' \subseteq FaultKinds \cup {"noConf"}
  <2>1. Process(conf.lines, a) \in ProcessType
    BY DEF Process, ProcessType, FileType
  <2> QED BY <1>e, <1>f, <2>1 DEF Exec
<1>11. CASE StartExec
  BY <1>11, <1>e DEF StartExec
<1>12. CASE StopScan
  BY <1>12, <1>p DEF StopScan
<1>13. CASE StopKill
  BY <1>13, <1>f, <1>k DEF StopKill, KillAll
<1>14. CASE StopRemove
  BY <1>14, <1>f DEF StopRemove
<1>15. CASE StopExec
  <2>1. "plain" \in Args
    BY DEF Args
  <2> QED BY <1>15, <1>e, <2>1 DEF StopExec
<1>16. CASE DnsmasqDies
  BY <1>16, <1>f, <1>k DEF DnsmasqDies
<1>17. CASE ServerCrash
  BY <1>17, <1>f DEF ServerCrash, Args
<1>18. CASE Request
  BY <1>18 DEF Request
<1>19. ASSUME NEW f \in {"get", "alloc"}, CallerFails(f) PROVE ServerTypeOK'
  BY <1>19, <1>f DEF CallerFails
<1>20. CASE UNCHANGED serverVars
  BY <1>20 DEF serverVars
<1> QED BY <1>1, <1>2, <1>3, <1>4, <1>5, <1>6, <1>7, <1>8, <1>9, <1>10, <1>11, <1>12, <1>13,
           <1>14, <1>15, <1>16, <1>17, <1>18, <1>19, <1>20
        DEF ServerNext, CallStep, StartStep, StopStep

\* The API's state is typed, whatever calls are made and whatever fails.
THEOREM ServerTypeCorrect == ServerSpec => []ServerTypeOK
BY TypeInit, TypeNext, PTL DEF ServerSpec
-----------------------------------------------------------------------------
(* What dnsmasq runs.  The promises of DhcpServerV4 speak of the state      *)
(* between calls or before a kill; the invariant says how each step of      *)
(* dhcpServerStart keeps its way there, and what is to blame when not.      *)

Blames(kinds) == faulted \cap kinds # {}

\* Every step that starts dnsmasq, and dnsmasq itself, has an installed file.
ConfThere == dnsmasq.up \/ call \in StopSteps \cup {"write", "remove", "kill", "exec"} => conf.there

\* The local file is there once dhcpServerInit has returned, unless it could not
\* be opened.
LocalThere ==
    /\ call = "write" => local.there
    /\ call \in {"ready", "pid", "compare", "copy"} => local.there \/ "openTmp" \in faulted

\* A running dnsmasq was found by extractPid, and killed before it is started.
PidFound ==
    /\ call \in {"compare", "copy", "write", "remove"} /\ dnsmasq.up => pid \/ "popen" \in faulted
    /\ call = "exec" /\ dnsmasq.up => "popen" \in faulted

\* copyFile is reached because the files differ, or could not be opened.
CopyDiffers ==
    call = "copy" /\ conf.there /\ local.there
    => conf.lines # local.lines \/ Blames({"openConf", "openTmp"})

\* Outside copyFile and what follows it, dnsmasq runs the installed file.
Fresh ==
    dnsmasq.up /\ call \notin {"write", "remove", "kill", "exec"}
    => dnsmasq.lines = conf.lines \/ Blames(Stalers)

\* From copyFile to the kill, it runs another one than the file being installed.
Outdated ==
    /\ call = "write" /\ dnsmasq.up
       => dnsmasq.lines # local.lines \/ Blames(Stalers \cup {"openConf"})
    /\ call \in {"remove", "kill"} /\ dnsmasq.up
       => dnsmasq.lines # conf.lines \/ Blames(Stalers \cup {"openConf"})

RunsInv == ConfThere /\ LocalThere /\ PidFound /\ CopyDiffers /\ Fresh /\ Outdated

\* Nothing runs at start-up.
LEMMA RunsInit == ServerInit => RunsInv
BY DEF ServerInit, RunsInv, ConfThere, LocalThere, PidFound, CopyDiffers, Fresh, Outdated,
       NoProcess, StopSteps

\* A file compares equal to itself, so a difference is a real one.
LEMMA SameFileSame ==
    ASSUME NEW f, NEW s1, NEW s2, f \in Seq(Line)
    PROVE  compareFiles(f, f, s1, s2)
<1>1. CASE f = << >>
  <2>1. (IF Len(f) > Len(f) THEN Len(f) ELSE Len(f)) = 0
    BY <1>1
  <2> QED BY <2>1 DEF compareFiles
<1>2. CASE f # << >>
  BY <1>2 DEF compareFiles, BufferAt
<1> QED BY <1>1, <1>2

\* Every system call keeps a running dnsmasq fresh, or a failure to blame.
LEMMA RunsNext == ServerTypeOK /\ RunsInv /\ [ServerNext]_serverVars => RunsInv'
<1> SUFFICES ASSUME ServerTypeOK, RunsInv, [ServerNext]_serverVars PROVE RunsInv'
  OBVIOUS
<1> USE DEF RunsInv, ConfThere, LocalThere, PidFound, CopyDiffers, Fresh, Outdated, Blames,
            Stalers, StopSteps, Goto, Return, files, history
<1>1. ASSUME NEW ifs \in IfaceLists, dhcpServerInit(ifs) PROVE RunsInv'
  BY <1>1 DEF dhcpServerInit, File, Fault, Record, NoFault
<1>2. CASE DnsOnlyRewrite
  BY <1>2 DEF DnsOnlyRewrite, File, Fault, Record, NoFault
<1>3. ASSUME NEW options \in Args, dhcpServerStart(options) PROVE RunsInv'
  BY <1>3 DEF dhcpServerStart
<1>4. CASE dhcpServerStop
  BY <1>4 DEF dhcpServerStop, Fault, Record, NoFault
<1>5. CASE StartPid
  BY <1>5 DEF StartPid, extractPid, Fault, Record, NoFault
<1>6. CASE StartCompare
  <2>1. Differ /\ conf.there /\ local.there => conf.lines # local.lines
    BY SameFileSame DEF Differ, ServerTypeOK, FileType
  <2>2. Same => conf.there
    BY DEF Same
  <2> QED BY <1>6, <2>1, <2>2 DEF StartCompare, Fault, Record, NoFault
<1>7. CASE StartCopy
  BY <1>7 DEF StartCopy, File, Fault, Record, NoFault
<1>8. CASE StartWrite
  BY <1>8 DEF StartWrite
<1>9. CASE StartRemove
  BY <1>9 DEF StartRemove, NoFile, Fault, Record, NoFault
<1>10. CASE StartKill
  BY <1>10 DEF StartKill, KillAll, NoProcess, Fault, Record, NoFault
<1>11. CASE StartExec
  BY <1>11 DEF StartExec, Exec, Process, Fault, Record, NoFault
<1>12. CASE StopScan
  BY <1>12 DEF StopScan, extractPid, Fault, Record, NoFault
<1>13. CASE StopKill
  BY <1>13 DEF StopKill, KillAll, NoProcess, Fault, Record, NoFault
<1>14. CASE StopRemove
  BY <1>14 DEF StopRemove, Fault, Record, NoFault
<1>15. CASE StopExec
  BY <1>15 DEF StopExec, Exec, Process, Fault, Record, NoFault
<1>16. CASE DnsmasqDies
  BY <1>16 DEF DnsmasqDies, NoProcess, Fault, Record
<1>17. CASE ServerCrash
  BY <1>17 DEF ServerCrash, Fault, Record
<1>18. CASE Request
  BY <1>18 DEF Request
<1>19. ASSUME NEW f \in {"get", "alloc"}, CallerFails(f) PROVE RunsInv'
  BY <1>19 DEF CallerFails, Fault, Record
<1>20. CASE UNCHANGED serverVars
  BY <1>20 DEF serverVars
<1> QED BY <1>1, <1>2, <1>3, <1>4, <1>5, <1>6, <1>7, <1>8, <1>9, <1>10, <1>11, <1>12, <1>13,
           <1>14, <1>15, <1>16, <1>17, <1>18, <1>19, <1>20
        DEF ServerNext, CallStep, StartStep, StopStep

\* A running dnsmasq is fresh, or a failure is to blame, under every caller.
LEMMA RunsAlways == ServerSpec => []RunsInv
<1>1. ServerInit => ServerTypeOK /\ RunsInv
  BY TypeInit, RunsInit
<1>2. ServerTypeOK /\ RunsInv /\ [ServerNext]_serverVars => ServerTypeOK' /\ RunsInv'
  BY TypeNext, RunsNext
<1> QED BY <1>1, <1>2, PTL DEF ServerSpec

\* Between calls a running dnsmasq has read the installed configuration, or one
\* of the failures in Stalers has happened since it was started.
THEOREM StaleOnlyAfterFaultAlways == ServerSpec => []StaleOnlyAfterFault
<1>1. RunsInv => StaleOnlyAfterFault
  BY DEF RunsInv, Fresh, StaleOnlyAfterFault, Blames
<1> QED BY <1>1, RunsAlways, PTL

\* dhcpServerStart's own killall hits a running dnsmasq only for a new configuration,
\* or one of those failures has happened, or a file to compare could not be opened.
THEOREM RestartsOnlyForChangeAlways == ServerSpec => []RestartsOnlyForChange
<1>1. RunsInv => RestartsOnlyForChange
  BY DEF RunsInv, Outdated, RestartsOnlyForChange, Blames
<1> QED BY <1>1, RunsAlways, PTL

-----------------------------------------------------------------------------
(* The files.  What they look like is decided by dhcpServerInit and kept by *)
(* dns_only and copyFile, so that compareFiles, which is not exact on all   *)
(* files, is exact on these.                                                *)

FilesShaped == Shaped(conf.lines) /\ Shaped(local.lines)

\* What dhcpServerInit writes has the shape, and is not empty.
LEMMA WrittenShaped ==
    ASSUME NEW ifs \in IfaceLists
    PROVE  Shaped(ConfLines(ZeroGlobalConfig, ifs)) /\ ConfLines(ZeroGlobalConfig, ifs) # << >>
<1>1. PICK m \in Nat : Laid(ConfLines(ZeroGlobalConfig, ifs), m, ifs)
  BY IfaceListsType, ConfLinesLaid
<1> QED BY <1>1, LaidShaped

\* What a step of the API may do to the two files.
LEMMA FileSteps ==
    ASSUME [ServerNext]_serverVars
    PROVE  /\ \/ conf' = conf
              \/ conf' = File(<< >>) /\ call = "copy" /\ local.there /\ call' = "write" /\ NoFault
              \/ conf' = File(<< >>) /\ call = "copy" /\ (~local.there \/ Fault("openTmp"))
              \/ conf' = local /\ call = "write"
           /\ \/ local' \in {local, NoFile}
              \/ Fault("alloc") /\ local' = File(<< >>)
              \/ \E ifs \in IfaceLists : local' = File(ConfLines(ZeroGlobalConfig, ifs))
              \/ conf.there /\ local' = File(dns_only(conf.lines)) /\ call # "write"
<1> USE DEF Goto, files
<1>1. ASSUME NEW ifs \in IfaceLists, dhcpServerInit(ifs)
      PROVE  /\ conf' = conf
             /\ \/ local' = local
                \/ Fault("alloc") /\ local' = File(<< >>)
                \/ local' = File(ConfLines(ZeroGlobalConfig, ifs))
  <2>1. conf' = conf
    BY <1>1 DEF dhcpServerInit
  <2>2. \/ local' = File(ConfLines(ZeroGlobalConfig, ifs))
        \/ Fault("alloc") /\ local' = File(<< >>)
        \/ local' = local
    BY <1>1, Zenon DEF dhcpServerInit
  <2> QED BY <2>1, <2>2
<1>2. CASE DnsOnlyRewrite
  BY <1>2 DEF DnsOnlyRewrite
<1>3. CASE \/ \E options \in Args : dhcpServerStart(options)
           \/ dhcpServerStop \/ DnsmasqDies \/ ServerCrash \/ Request
           \/ \E f \in {"get", "alloc"} : CallerFails(f)
  BY <1>3 DEF dhcpServerStart, dhcpServerStop, DnsmasqDies, ServerCrash, Request, CallerFails
<1>4. CASE StartPid \/ StartCompare \/ StartKill \/ StartExec
  BY <1>4 DEF StartPid, StartCompare, StartKill, StartExec
<1>5. CASE StartCopy
  BY <1>5 DEF StartCopy
<1>6. CASE StartWrite \/ StartRemove
  BY <1>6 DEF StartWrite, StartRemove
<1>7. CASE StopStep
  BY <1>7 DEF StopStep, StopScan, StopKill, StopRemove, StopExec
<1>8. CASE UNCHANGED serverVars
  BY <1>8 DEF serverVars
<1> QED BY <1>1, <1>2, <1>3, <1>4, <1>5, <1>6, <1>7, <1>8
        DEF ServerNext, CallStep, StartStep

\* Installed and local files are always ones that dhcpServerInit wrote, edited or not.
LEMMA FilesShapedAlways == ServerSpec => []FilesShaped
<1>1. ServerInit => FilesShaped
  <2>1. Shaped(<< >>)
    BY DEF Shaped
  <2> QED BY <2>1, WrittenShaped DEF ServerInit, FilesShaped, NoFile, File
<1>2. ServerTypeOK /\ FilesShaped /\ [ServerNext]_serverVars => FilesShaped'
  <2> SUFFICES ASSUME ServerTypeOK, FilesShaped, [ServerNext]_serverVars PROVE FilesShaped'
    OBVIOUS
  <2>1. Shaped(<< >>) /\ Shaped(NoFile.lines) /\ \A f : File(f).lines = f
    BY DEF Shaped, NoFile, File
  <2>2. Shaped(conf'.lines)
    BY <2>1, FileSteps DEF FilesShaped
  <2>3. conf.lines \in Seq(Line)
    BY DEF ServerTypeOK, FileType
  <2>4. Shaped(dns_only(conf.lines))
    BY <2>3, DnsOnlyShaped DEF FilesShaped
  <2>5. Shaped(local'.lines)
    BY <2>1, <2>4, FileSteps, WrittenShaped DEF FilesShaped
  <2> QED BY <2>2, <2>5 DEF FilesShaped, Shaped
<1> QED BY <1>1, <1>2, ServerTypeCorrect, PTL DEF ServerSpec

\* compareFiles is exact on whatever dhcpServerStart compares, for every LAN,
\* every history of starts, stops and failures, and every content of the
\* uninitialised line buffers.
THEOREM ExactCompareAlways == ServerSpec => []ExactCompare
<1>1. ServerTypeOK /\ FilesShaped => ExactCompare
  <2> SUFFICES ASSUME ServerTypeOK, FilesShaped, NEW s1 \in StackLines, NEW s2 \in StackLines
               PROVE  compareFiles(conf.lines, local.lines, s1, s2) <=> conf.lines = local.lines
    BY DEF ExactCompare
  <2>1. conf.lines \in Seq(Line) /\ local.lines \in Seq(Line)
    BY DEF ServerTypeOK, FileType
  <2> QED BY <2>1, CompareShapedExact DEF FilesShaped
<1> QED BY <1>1, ServerTypeCorrect, FilesShapedAlways, PTL

-----------------------------------------------------------------------------
(* dhcpServerStop's killall.  It is reached from the scan of the installed  *)
(* file, which no other step of the call touches.                           *)

\* The installed file has a range when dhcpServerStop is about to kill dnsmasq.
StopScanned == call = "stop.kill" => ActiveRanges(conf.lines) # {}

\* A scan that finds an interface has found an active range.
LEMMA ScanFindsRange ==
    ASSUME ServerTypeOK, StopFindsInterface(conf.lines)
    PROVE  ActiveRanges(conf.lines) # {}
<1>1. PICK i \in ReadByLoop(conf.lines) : i < Len(conf.lines) /\ StartsRange(conf.lines[i + 1])
  BY DEF StopFindsInterface
<1>2. i \in 1..Len(conf.lines)
  BY DEF ReadByLoop
<1>3. conf.lines \in Seq(Line)
  BY DEF ServerTypeOK, FileType
<1>4. i + 1 \in DOMAIN conf.lines
  BY <1>1, <1>2, <1>3
<1> QED BY <1>1, <1>4 DEF ActiveRanges

\* What the scan found stays in the installed file until the killall.
LEMMA ScannedNext == ServerTypeOK /\ StopScanned /\ [ServerNext]_serverVars => StopScanned'
<1> SUFFICES ASSUME ServerTypeOK, StopScanned, [ServerNext]_serverVars, call' = "stop.kill"
             PROVE  ActiveRanges(conf.lines)' # {}
  BY DEF StopScanned
<1> USE DEF Goto, Return
<1>1. CASE StopScan
  <2>1. StopFindsInterface(conf.lines) /\ conf' = conf
    BY <1>1 DEF StopScan, files
  <2> QED BY <2>1, ScanFindsRange DEF ActiveRanges, StartsRange
<1>2. CASE ~StopScan
  <2>1. call = "stop.kill"
    <3>1. ASSUME NEW ifs \in IfaceLists, dhcpServerInit(ifs) PROVE call' = "ready"
      BY <3>1 DEF dhcpServerInit
    <3>2. CASE \/ DnsOnlyRewrite \/ Request \/ \E f \in {"get", "alloc"} : CallerFails(f)
      BY <3>2 DEF DnsOnlyRewrite, Request, CallerFails
    <3>3. CASE dhcpServerStop \/ DnsmasqDies \/ ServerCrash
      BY <3>3 DEF dhcpServerStop, DnsmasqDies, ServerCrash
    <3>4. CASE StartStep \/ \E options \in Args : dhcpServerStart(options)
      BY <3>4 DEF dhcpServerStart, StartStep, StartPid, StartCompare, StartCopy, StartWrite,
                  StartRemove, StartKill, StartExec, KillAll, Exec
    <3>5. CASE StopKill \/ StopRemove \/ StopExec
      BY <3>5 DEF StopKill, StopRemove, StopExec, KillAll, Exec
    <3>6. CASE UNCHANGED serverVars
      BY <3>6 DEF serverVars
    <3> QED BY <1>2, <3>1, <3>2, <3>3, <3>4, <3>5, <3>6 DEF ServerNext, CallStep, StopStep
  <2>2. conf' = conf
    BY <2>1, FileSteps
  <2> QED BY <2>1, <2>2 DEF StopScanned, ActiveRanges, StartsRange
<1> QED BY <1>1, <1>2

\* dhcpServerStop kills a running dnsmasq only while it serves a range, or one of the
\* failures in Stalers has happened since it was started.
THEOREM StopKillsOnlyServingAlways == ServerSpec => []StopKillsOnlyServing
<1>1. RunsInv /\ StopScanned => StopKillsOnlyServing
  BY DEF RunsInv, Fresh, StopScanned, StopKillsOnlyServing, Blames
<1>2. ServerInit => StopScanned
  BY DEF ServerInit, StopScanned
<1> QED BY <1>1, <1>2, ScannedNext, ServerTypeCorrect, RunsAlways, PTL DEF ServerSpec
=============================================================================
