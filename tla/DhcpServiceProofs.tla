--------------------------- MODULE DhcpServiceProofs ---------------------------
(***************************************************************************)
(* The manager does for the LAN what DhcpService says: a start that meets  *)
(* no trouble serves what the provider offered, a stop nothing, and every  *)
(* step of the manager is one of the service's or changes nothing of it.   *)
(***************************************************************************)
EXTENDS DhcpMgrFSMProofs

-----------------------------------------------------------------------------
(* What a file serves.                                                     *)

\* The pairs of the enabled interfaces.
Enabled(ifs) == {i \in 1..Len(ifs) : ifs[i].bIsDhcpEnabled}
PairsIn(ifs) == { << ifs[i].cGatewayName, ifs[i].pool >> : i \in Enabled(ifs) }

\* A line after the header is the first or the second of a pair.
LEMMA HalfOfPair ==
    ASSUME NEW m \in Nat, NEW i \in 3..(2 * m + 2)
    PROVE  \E j \in 1..m : i = 2 * j + 1 \/ i = 2 * j + 2
<1> DEFINE j == (i - 1) \div 2
<1>1. j \in 1..m /\ (i = 2 * j + 1 \/ i = 2 * j + 2)
  OBVIOUS
<1> QED BY <1>1

\* The lines of an interface are read back as its pair.
LEMMA LinesRead ==
    ASSUME NEW c
    PROVE  /\ StartsInterface(IfaceLine(c)) /\ StartsRange(RangeLine(c))
           /\ ~StartsInterface(RangeLine(c))
           /\ IfaceLine(c).arg[1] = c.cGatewayName /\ RangeLine(c).arg[2] = c.pool
BY DEF StartsInterface, StartsRange, IfaceLine, RangeLine, ConfLine

\* A file laid out for interfaces serves exactly the enabled ones.
LEMMA ServedLaid ==
    ASSUME NEW f, NEW ifs, NEW m \in Nat, Laid(f, m, ifs)
    PROVE  Served(f) = PairsIn(ifs)
<1> DEFINE P == {i \in 1..(Len(f) - 1) : StartsInterface(f[i]) /\ StartsRange(f[i + 1])}
<1>1. Len(f) = 2 * m + 2 /\ f[1].key = "builtin" /\ f[2].key = "no-resolv"
  BY DEF Laid
<1>2. ASSUME NEW i \in P
      PROVE  \E k \in Enabled(ifs) : f[i] = IfaceLine(ifs[k]) /\ f[i + 1] = RangeLine(ifs[k])
  <2>1. i \in 3..(2 * m + 2)
    BY <1>1 DEF StartsInterface
  <2>2. PICK j \in 1..m : i = 2 * j + 1 \/ i = 2 * j + 2
    BY <2>1, HalfOfPair
  <2>3. PICK k \in 1..Len(ifs) : ifs[k].bIsDhcpEnabled /\ f[2 * j + 1] = IfaceLine(ifs[k])
                                 /\ f[2 * j + 2] = RangeLine(ifs[k])
    BY DEF Laid
  <2>4. i = 2 * j + 1 /\ i + 1 = 2 * j + 2
    <3>1. i # 2 * j + 2
      BY <2>3, LinesRead
    <3> QED BY <2>2, <3>1
  <2> QED BY <2>3, <2>4 DEF Enabled
<1>3. ASSUME NEW k \in Enabled(ifs)
      PROVE  \E i \in P : f[i] = IfaceLine(ifs[k]) /\ f[i + 1] = RangeLine(ifs[k])
  <2>1. PICK j \in 1..m : f[2 * j + 1] = IfaceLine(ifs[k]) /\ f[2 * j + 2] = RangeLine(ifs[k])
    BY DEF Laid, Enabled
  <2>2. 2 * j + 1 \in 1..(Len(f) - 1) /\ (2 * j + 1) + 1 = 2 * j + 2
    BY <1>1
  <2>3. StartsInterface(f[2 * j + 1]) /\ StartsRange(f[(2 * j + 1) + 1])
    BY <2>1, <2>2, LinesRead
  <2>4. 2 * j + 1 \in P
    BY <2>2, <2>3
  <2> QED BY <2>1, <2>2, <2>4
<1>4. Served(f) = { << f[i].arg[1], f[i + 1].arg[2] >> : i \in P }
  BY DEF Served
<1> HIDE DEF P
<1>5. ASSUME NEW p \in Served(f) PROVE p \in PairsIn(ifs)
  <2>1. PICK i \in P : p = << f[i].arg[1], f[i + 1].arg[2] >>
    BY <1>4, <1>5
  <2>2. PICK k \in Enabled(ifs) : f[i] = IfaceLine(ifs[k]) /\ f[i + 1] = RangeLine(ifs[k])
    BY <1>2
  <2>3. p = << ifs[k].cGatewayName, ifs[k].pool >>
    BY <2>1, <2>2, LinesRead
  <2> QED BY <2>3 DEF PairsIn
<1>6. ASSUME NEW p \in PairsIn(ifs) PROVE p \in Served(f)
  <2>1. PICK k \in Enabled(ifs) : p = << ifs[k].cGatewayName, ifs[k].pool >>
    BY <1>6 DEF PairsIn
  <2>2. PICK i \in P : f[i] = IfaceLine(ifs[k]) /\ f[i + 1] = RangeLine(ifs[k])
    BY <1>3
  <2>3. p = << f[i].arg[1], f[i + 1].arg[2] >>
    BY <2>1, <2>2, LinesRead
  <2> QED BY <1>4, <2>3
<1> QED BY <1>5, <1>6

\* The interfaces filled from a document are those it wants served.
LEMMA FilledWanted ==
    ASSUME NEW r \in Replies, NEW ifs, FilledFrom(ifs, r)
    PROVE  PairsIn(ifs) = Wanted({r})
<1> DEFINE ps == r.dhcpPayload
           R == {q \in Range(ps) : q.Dhcpv4_Enable}
           W == { << p.bridgeName, p.pool >> : p \in R }
<1>1. Wanted({r}) = W
  BY DEF Wanted
<1>2. ps \in Seq(Payload) /\ Len(ifs) = Len(ps)
  BY ReplyType DEF FilledFrom
<1>3. Range(ps) = { ps[i] : i \in 1..Len(ps) }
  BY <1>2 DEF Range
<1>4. \A i \in 1..Len(ifs) :
        /\ ifs[i].bIsDhcpEnabled = ps[i].Dhcpv4_Enable
        /\ ifs[i].cGatewayName = ps[i].bridgeName
        /\ ifs[i].bIsDhcpEnabled => ifs[i].pool = ps[i].pool
  BY DEF FilledFrom
<1> HIDE DEF ps
<1>5. ASSUME NEW w \in PairsIn(ifs) PROVE w \in W
  <2>1. PICK i \in Enabled(ifs) : w = << ifs[i].cGatewayName, ifs[i].pool >>
    BY <1>5 DEF PairsIn
  <2>2. i \in 1..Len(ps) /\ i \in 1..Len(ifs) /\ ifs[i].bIsDhcpEnabled
    BY <1>2 DEF Enabled
  <2>3. ps[i] \in R /\ w = << ps[i].bridgeName, ps[i].pool >>
    BY <1>3, <1>4, <2>1, <2>2
  <2> QED BY <2>3
<1>6. ASSUME NEW w \in W PROVE w \in PairsIn(ifs)
  <2>1. PICK p \in R : w = << p.bridgeName, p.pool >>
    BY <1>6
  <2>2. PICK i \in 1..Len(ps) : p = ps[i]
    BY <1>3, <2>1
  <2>3. i \in Enabled(ifs) /\ w = << ifs[i].cGatewayName, ifs[i].pool >>
    BY <1>2, <1>4, <2>1, <2>2 DEF Enabled
  <2> QED BY <2>3 DEF PairsIn
<1> QED BY <1>1, <1>5, <1>6

\* What dhcpServerInit writes for the interfaces of a document serves what the
\* document wants, and without a document nothing.
LEMMA WrittenServes ==
    /\ \A r \in Replies : \A ifs \in IfaceLists :
         FilledFrom(ifs, r) => Served(ConfLines(ZeroGlobalConfig, ifs)) = Wanted({r})
    /\ Served(ConfLines(ZeroGlobalConfig, NoPayloads)) = Wanted({})
<1>1. ASSUME NEW ifs \in IfaceLists
      PROVE  Served(ConfLines(ZeroGlobalConfig, ifs)) = PairsIn(ifs)
  <2>1. PICK m \in Nat : Laid(ConfLines(ZeroGlobalConfig, ifs), m, ifs)
    BY IfaceListsType, ConfLinesLaid
  <2> QED BY <2>1, ServedLaid
<1>2. NoPayloads \in IfaceLists /\ PairsIn(NoPayloads) = {} /\ Wanted({}) = {}
  BY DEF IfaceLists, NoPayloads, PairsIn, Enabled, Wanted
<1> QED BY <1>1, <1>2, FilledWanted

\* A document wants pairs served.
LEMMA WantedPairs ==
    /\ \A r \in Replies : Wanted({r}) \subseteq STRING \X STRING
    /\ Wanted({}) = {}
<1>1. ASSUME NEW r \in Replies PROVE Wanted({r}) \subseteq STRING \X STRING
  <2>1. r.dhcpPayload \in Seq(Payload)
    BY ReplyType
  <2>2. Range(r.dhcpPayload) \subseteq Payload
    BY <2>1 DEF Range
  <2>3. \A p \in Payload : p.bridgeName \in STRING /\ p.pool \in STRING
    BY DEF Payload
  <2> QED BY <2>2, <2>3 DEF Wanted
<1> QED BY <1>1 DEF Wanted

\* An empty file and a silent one serve nothing.
LEMMA SilentServesNothing ==
    /\ \A f \in Seq(Line) : Silent(f) => Served(f) = {}
    /\ Served(<< >>) = {}
<1>1. ASSUME NEW f \in Seq(Line), Silent(f) PROVE Served(f) = {}
  <2>1. \A i \in 1..(Len(f) - 1) : i + 1 \in DOMAIN f
    OBVIOUS
  <2> QED BY <1>1, <2>1 DEF Silent, ActiveRanges, Served
<1>2. Served(<< >>) = {}
  <2>1. 1..(Len(<< >>) - 1) = {}
    OBVIOUS
  <2> QED BY <2>1 DEF Served
<1> QED BY <1>1, <1>2

-----------------------------------------------------------------------------
(* A start that nothing disturbs.  What the provider wants served reaches   *)
(* the local file, the installed one and dnsmasq, one after the other.      *)

\* What was fetched is what dhcpServerInit is about to write.
Fetched ==
    pc = "prepare.init" => Served(ConfLines(ZeroGlobalConfig, ppDhcpCfgs)) = Wanted(lan)

LocalWanted == local.there /\ Served(local.lines) = Wanted(lan)

\* How far the start has come.
Serving ==
    failed = {} /\ request = "start" =>
        /\ pc \in {"start.prepared", "Startv4s"} => LocalWanted
        /\ pc = "start.returned" =>
             /\ call \in {"pid", "compare", "copy", "write"} => LocalWanted
             /\ call \in {"remove", "kill", "exec"} => Served(conf.lines) = Wanted(lan)
        /\ \/ pc \in {"start.started", "done", "rest"}
           \/ pc = "start.returned" /\ call = "none"
           => dnsmasq.up /\ (Served(dnsmasq.lines) = Wanted(lan) \/ faulted \cap Stalers # {})

\* Nothing has been fetched at start-up.
LEMMA FetchedInit == Init => Fetched
BY DEF Init, Fetched

\* What dhcpServerInit is about to write is what the provider asked for: nothing, when
\* the get failed.
LEMMA FetchedNext == DataOK' /\ ThreadInv /\ Fetched /\ [Next]_vars => Fetched'
<1> SUFFICES ASSUME DataOK', ThreadInv, Fetched, [Next]_vars PROVE Fetched'
  OBVIOUS
<1> USE DEF Fetched
<1>1. CASE PrepareFetch
  <2>1. CASE CallerFails("get") /\ ppDhcpCfgs' = NoPayloads /\ lan' = {}
    BY <2>1, WrittenServes
  <2>2. ASSUME NEW reply \in Replies, NEW mask \in [1..Len(parseDhcpPayloadJson(reply)) -> Masks],
               ppDhcpCfgs' = Add_inf_to_dhcp_config(parseDhcpPayloadJson(reply), mask),
               lan' = {reply}
        PROVE  Fetched'
    <3>1. FilledFrom(ppDhcpCfgs', reply)
      BY <2>2, Filled
    <3>2. ppDhcpCfgs' \in IfaceLists
      BY DEF DataOK
    <3>3. Served(ConfLines(ZeroGlobalConfig, ppDhcpCfgs')) = Wanted({reply})
      BY <3>1, <3>2, WrittenServes
    <3> QED BY <2>2, <3>3
  <2> QED BY <1>1, <2>1, <2>2 DEF PrepareFetch
<1>2. CASE pc' # "prepare.init"
  BY <1>2
<1>3. CASE UNCHANGED << pc, ppDhcpCfgs, lan >>
  BY <1>3
<1>4. ~PrepareFetch => pc' # "prepare.init" \/ UNCHANGED << pc, ppDhcpCfgs, lan >>
  <2> SUFFICES ASSUME ~PrepareFetch
               PROVE  pc' # "prepare.init" \/ UNCHANGED << pc, ppDhcpCfgs, lan >>
    OBVIOUS
  <2>1. CASE Requested \/ Crash
    BY <2>1 DEF Requested, EventHandler_MainFSM, Crash
  <2>2. CASE StartConfigure \/ StopConfigure
    BY <2>2, Dispatches
       DEF StartConfigure, StopConfigure, DispatcherStep, ThreadInv, Control, Stands
  <2>3. CASE StartPrepared \/ StartStarted \/ StopStop \/ StopStopped \/ DispatcherDone
    <3>1. CASE StartPrepared
      BY <3>1, Dispatches
         DEF StartPrepared, DispatcherStep, DispatcherReturns, ThreadInv, Control, Stands, Prepared
    <3>2. CASE StartStarted
      BY <3>2, Dispatches DEF StartStarted, DispatcherStep, ThreadInv, Control, Stands
    <3>5. CASE StopStopped
      BY <3>5, Dispatches DEF StopStopped, DispatcherStep, ThreadInv, Control, Stands
    <3>3. CASE StopStop
      BY <3>3, Dispatches DEF StopStop, DispatcherStep, ThreadInv, Control, Stands
    <3>4. CASE DispatcherDone
      BY <3>4 DEF DispatcherDone, DispatcherStep, DispatcherReturns
    <3> QED BY <2>3, <3>1, <3>2, <3>3, <3>4, <3>5
  <2>4. CASE PrepareInit \/ StartReturned \/ StopReturn
    BY <2>4, Frames
       DEF PrepareInit, StartReturned, StopReturn, ActionReturns, ThreadInv, Control, Stands
  <2>5. CASE Startv4s \/ Stopv4s \/ StopDnsOnly
    BY <2>5 DEF Startv4s, Stopv4s, StopDnsOnly
  <2>6. CASE StopChanged
    BY <2>6, Dispatches DEF StopChanged, ThreadInv, Control, Prepared
  <2>7. CASE ServerStep \/ DnsmasqExits \/ UNCHANGED vars
    BY <2>7 DEF ServerStep, DnsmasqExits, vars, fsmVars
  <2> QED BY <2>1, <2>2, <2>3, <2>4, <2>5, <2>6, <2>7 DEF Next, ThreadStep
<1> QED BY <1>1, <1>2, <1>3, <1>4

\* No start is in progress at start-up.
LEMMA ServingInit == Init => Serving
BY DEF Init, Serving, NULL

\* Every step of a start brings the provider's document one file further.
LEMMA ServingNext ==
    ASSUME RunsInv, ExactCompare, ThreadInv, Fetched, PidStands, Serving, [Next]_vars
    PROVE  Serving'
<1> USE DEF Serving
<1>0. conf' = conf /\ local' = local /\ lan' = lan => (LocalWanted' <=> LocalWanted)
  BY DEF LocalWanted
<1>s. lan' = lan => Wanted(lan)' = Wanted(lan)
  OBVIOUS
<1>1. CASE Requested
  BY <1>1 DEF Requested, EventHandler_MainFSM
<1>2. CASE StartConfigure
  <2>1. pc' = "PrepareConfigv4s"
    BY <1>2, Dispatches DEF StartConfigure, DispatcherStep, ThreadInv, Control, Stands
  <2> QED BY <2>1
<1>3. CASE StartPrepared
  <2>1. UNCHANGED << serverVars, request, lan >> /\ pc = "start.prepared"
    BY <1>3 DEF StartPrepared, DispatcherStep
  <2>2. CASE mainState = "PREPARINGv4"
    <3>1. pc' = "Startv4s"
      BY <1>3, <2>2, Dispatches DEF StartPrepared, DispatcherStep
    <3> QED BY <1>0, <2>1, <3>1 DEF serverVars
  <2>3. CASE mainState = "IDLE"
    <3>1. failed' # {}
      BY <2>1, <2>3 DEF serverVars, ThreadInv, Control, Prepared
    <3> QED BY <3>1
  <2> QED BY <2>1, <2>2, <2>3 DEF ThreadInv, Control, Prepared
<1>4. CASE StartStarted \/ DispatcherDone
  <2>1. pc \in {"start.started", "done"} /\ pc' \in {"done", "rest"}
        /\ UNCHANGED << serverVars, request, lan >>
    <3>1. CASE StartStarted
      BY <3>1, Dispatches DEF StartStarted, DispatcherStep, ThreadInv, Control, Stands
    <3>2. CASE DispatcherDone
      BY <3>2 DEF DispatcherDone, DispatcherStep, DispatcherReturns
    <3> QED BY <1>4, <3>1, <3>2
  <2> QED BY <2>1, <1>s DEF serverVars
<1>5. CASE PrepareFetch
  BY <1>5 DEF PrepareFetch
<1>6. CASE PrepareInit
  <2>1. pc' \in {"stop.dnsonly", "start.prepared"}
    BY <1>6, Frames DEF PrepareInit, ThreadInv, Control, Stands, ActionReturns
  <2>2. failed' = {} => local' = File(ConfLines(ZeroGlobalConfig, ppDhcpCfgs))
    BY <1>6 DEF PrepareInit, dhcpServerInit, CallerFails, Fault, Record
  <2>3. \A f : File(f).there /\ File(f).lines = f
    BY DEF File
  <2>4. Served(ConfLines(ZeroGlobalConfig, ppDhcpCfgs)) = Wanted(lan) /\ lan' = lan
    BY <1>6 DEF PrepareInit, Fetched
  <2>5. failed' = {} => LocalWanted'
    BY <2>2, <2>3, <2>4 DEF LocalWanted
  <2> QED BY <2>1, <2>5
<1>7. CASE Startv4s
  <2>1. call' = "pid" /\ pc' = "start.returned" /\ pc = "Startv4s"
        /\ UNCHANGED << conf, local, failed, request, lan >>
    BY <1>7 DEF Startv4s, dhcpServerStart, Goto, files, history
  <2> QED BY <1>0, <2>1
<1>8. CASE StartReturned
  <2>1. /\ pc' \in {"start.started", "stop.return"} /\ pc = "start.returned" /\ call = "none"
        /\ UNCHANGED << serverVars, request, lan >>
    BY <1>8, Frames DEF StartReturned, ThreadInv, Control, Stands, ActionReturns
  <2> QED BY <1>s, <2>1 DEF serverVars
<1>9. CASE \/ StopStop \/ StopStopped \/ Stopv4s \/ StopConfigure \/ StopDnsOnly \/ StopChanged
           \/ StopReturn
  <2>1. request = "stop" /\ request' = request
    BY <1>9 DEF ThreadInv, Reported, StopStop, StopStopped, Stopv4s, StopConfigure, StopDnsOnly,
                StopChanged, StopReturn, DispatcherStep
  <2> QED BY <2>1
<1>10. CASE ServerStep
  <2>a. pc \in {"start.returned", "stop.configure"} /\ pc' = pc /\ request' = request /\ lan' = lan
    BY <1>10, CallSteps DEF ServerStep, StartSteps, StopSteps, ThreadInv, Control, Stands, Prepared,
                            Labels, fsmVars
  <2> SUFFICES ASSUME pc = "start.returned", request = "start", failed' = {}
               PROVE  Serving'
    BY <2>a
  <2>0. failed = {} /\ UNCHANGED << pc, request, lan >>
    BY <1>10, CallSteps DEF ServerStep, fsmVars
  <2> USE DEF Goto, Return, files, history, Fault, Record, NoFault
  <2>1. CASE StartPid
    BY <1>0, <2>0, <2>1 DEF StartPid
  <2>2. CASE StartCompare
    <3>1. LocalWanted /\ pid = dnsmasq.up
      BY <2>0, <2>2 DEF StartCompare, PidStands
    <3>2. Same => conf.lines = local.lines
      BY <2>2 DEF StartCompare, Same, ExactCompare
    <3>3. Same => Served(conf.lines) = Wanted(lan)
      BY <3>1, <3>2 DEF LocalWanted
    <3>4. dnsmasq.up => dnsmasq.lines = conf.lines \/ faulted \cap Stalers # {}
      BY <2>2 DEF StartCompare, RunsInv, Fresh, Blames
    <3>5. CASE Same /\ ~pid /\ NoFault /\ Goto("exec")
      BY <1>s, <2>0, <2>2, <3>3, <3>5 DEF StartCompare
    <3>6. CASE Same /\ pid /\ NoFault /\ Return
      BY <1>s, <2>0, <2>2, <3>1, <3>3, <3>4, <3>6 DEF StartCompare
    <3>7. CASE Differ /\ NoFault /\ Goto("copy")
      BY <1>0, <2>0, <2>2, <3>1, <3>7 DEF StartCompare
    <3> QED BY <2>2, <3>5, <3>6, <3>7 DEF StartCompare
  <2>3. CASE StartCopy
    <3>1. LocalWanted /\ local.there
      BY <2>0, <2>3 DEF StartCopy, LocalWanted
    <3>2. call' = "write" /\ local' = local
      BY <2>0, <2>3, <3>1 DEF StartCopy
    <3> QED BY <2>0, <3>1, <3>2 DEF LocalWanted
  <2>4. CASE StartWrite
    BY <2>0, <2>4 DEF StartWrite, LocalWanted
  <2>5. CASE StartRemove
    BY <1>s, <2>0, <2>5 DEF StartRemove
  <2>6. CASE StartKill
    <3>1. dnsmasq.up /\ Served(conf.lines) = Wanted(lan)
      BY <2>0, <2>6 DEF StartKill, PidStands
    <3> QED BY <1>s, <2>0, <2>6, <3>1 DEF StartKill, KillAll
  <2>7. CASE StartExec
    <3>1. ~dnsmasq.up /\ Served(conf.lines) = Wanted(lan)
      BY <2>0, <2>7 DEF StartExec, PidStands
    <3>2. dnsmasq' = Process(conf.lines, args)
      BY <2>7, <3>1 DEF StartExec, Exec
    <3> QED BY <1>s, <2>0, <2>7, <3>1, <3>2 DEF StartExec, Exec, Process
  <2>8. CASE StopStep
    <3>1. call \in StopSteps /\ call \in StartSteps \cup {"none"}
      BY <2>8 DEF StopStep, StopScan, StopKill, StopRemove, StopExec, StopSteps, ThreadInv,
                  Control, Stands
    <3> QED BY <3>1 DEF StopSteps, StartSteps
  <2> QED BY <1>10, <2>1, <2>2, <2>3, <2>4, <2>5, <2>6, <2>7, <2>8
          DEF ServerStep, CallStep, StartStep
<1>11. CASE DnsmasqExits
  BY <1>11 DEF DnsmasqExits, DnsmasqDies, Fault, Record
<1>12. CASE Crash
  BY <1>12 DEF Crash, NULL
<1>13. CASE UNCHANGED vars
  BY <1>13, <1>0, <1>s DEF vars, serverVars, fsmVars
<1> QED BY <1>1, <1>2, <1>3, <1>4, <1>5, <1>6, <1>7, <1>8, <1>9, <1>10, <1>11, <1>12, <1>13
        DEF Next, ThreadStep

\* How far the provider's document has come, at every place of a start.
LEMMA ServingAlways == SafeSpec => []Fetched /\ []Serving
<1>1. Init => PidStands
  BY DEF Init, ServerInit, PidStands
<1>2. SafeSpec => [][ServerNext]_serverVars
  BY Implements, PTL DEF ServerSpec
<1>3. SafeSpec => []PidStands
  BY <1>1, <1>2, PidNext, PTL DEF SafeSpec
<1>4. SafeSpec => []DataOK
  BY DataInit, DataNext, PTL DEF SafeSpec
<1>5. SafeSpec => []Fetched
  BY <1>4, FetchedInit, FetchedNext, ThreadAlways, PTL DEF SafeSpec
<1>6. RunsInv /\ ExactCompare /\ ThreadInv /\ Fetched /\ PidStands /\ Serving /\ [Next]_vars
      => Serving'
  BY ServingNext
<1>7. SafeSpec => []RunsInv /\ []ExactCompare
  BY Implements, RunsAlways, ExactCompareAlways, PTL
<1> QED BY <1>3, <1>5, <1>6, <1>7, ServingInit, ThreadAlways, PTL DEF SafeSpec

\* A start during which nothing fails ends with dnsmasq up and serving exactly the
\* enabled bridges of the provider's answer, on every LAN and whatever was installed,
\* unless an earlier failure had left dnsmasq stale.
THEOREM StartServesAlways == SafeSpec => []StartServes
<1>1. Serving => StartServes
  BY DEF Serving, StartServes, Clean
<1> QED BY <1>1, ServingAlways, PTL

-----------------------------------------------------------------------------
(* A start that opens its files.  The installed file is right in the end    *)
(* even if dnsmasq could not be restarted, and even if an earlier request   *)
(* was cut short between copyFile's two halves.                             *)

\* The failures that keep a start from writing what it fetched.
Spoilers == {"openTmp", "openConf", "alloc"}

LocalReady == LocalWanted /\ local.lines # << >>

Installed == conf.there /\ conf.lines # << >> /\ Served(conf.lines) = Wanted(lan)

\* How far the files have come.
Installing ==
    failed \cap Spoilers = {} /\ request = "start" =>
        /\ pc \in {"start.prepared", "Startv4s"} => LocalReady
        /\ pc = "start.returned" /\ call \in {"pid", "compare", "copy", "write"} => LocalReady
        /\ \/ pc = "start.returned" /\ call \in {"remove", "kill", "exec", "none"}
           \/ pc \in {"start.started", "done", "rest"}
           => Installed

\* No start is in progress at start-up.
LEMMA InstallingInit == Init => Installing
BY DEF Init, Installing, NULL

\* Every step of a start that opens its files brings the document one file further.
LEMMA InstallingNext ==
    ASSUME ExactCompare, DataOK, ThreadInv, Fetched, Installing, [Next]_vars
    PROVE  Installing'
<1> USE DEF Installing, Spoilers
<1>0. /\ conf' = conf /\ lan' = lan => (Installed' <=> Installed)
      /\ local' = local /\ lan' = lan => (LocalReady' <=> LocalReady)
  BY DEF Installed, LocalReady, LocalWanted
<1>1. CASE Requested
  BY <1>1 DEF Requested, EventHandler_MainFSM
<1>2. CASE StartConfigure
  <2>1. pc' = "PrepareConfigv4s"
    BY <1>2, Dispatches DEF StartConfigure, DispatcherStep, ThreadInv, Control, Stands
  <2> QED BY <2>1
<1>3. CASE StartPrepared
  <2>1. UNCHANGED << serverVars, request, lan >> /\ pc = "start.prepared"
    BY <1>3 DEF StartPrepared, DispatcherStep
  <2>2. CASE mainState = "PREPARINGv4"
    <3>1. pc' = "Startv4s"
      BY <1>3, <2>2, Dispatches DEF StartPrepared, DispatcherStep
    <3> QED BY <1>0, <2>1, <3>1 DEF serverVars
  <2>3. CASE mainState = "IDLE"
    <3>1. "alloc" \in failed'
      BY <2>1, <2>3 DEF serverVars, ThreadInv, Control, Prepared
    <3> QED BY <3>1
  <2> QED BY <2>1, <2>2, <2>3 DEF ThreadInv, Control, Prepared
<1>4. CASE StartStarted \/ DispatcherDone
  <2>1. pc \in {"start.started", "done"} /\ pc' \in {"done", "rest"}
        /\ UNCHANGED << serverVars, request, lan >>
    <3>1. CASE StartStarted
      BY <3>1, Dispatches DEF StartStarted, DispatcherStep, ThreadInv, Control, Stands
    <3>2. CASE DispatcherDone
      BY <3>2 DEF DispatcherDone, DispatcherStep, DispatcherReturns
    <3> QED BY <1>4, <3>1, <3>2
  <2> QED BY <2>1, <1>0 DEF serverVars
<1>5. CASE PrepareFetch
  BY <1>5 DEF PrepareFetch
<1>6. CASE PrepareInit
  <2>1. pc' \in {"stop.dnsonly", "start.prepared"}
    BY <1>6, Frames DEF PrepareInit, ThreadInv, Control, Stands, ActionReturns
  <2>2. failed' \cap Spoilers = {} => local' = File(ConfLines(ZeroGlobalConfig, ppDhcpCfgs))
    BY <1>6 DEF PrepareInit, dhcpServerInit, CallerFails, Fault, Record
  <2>3. \A f : File(f).there /\ File(f).lines = f
    BY DEF File
  <2>4. Served(ConfLines(ZeroGlobalConfig, ppDhcpCfgs)) = Wanted(lan) /\ lan' = lan
    BY <1>6 DEF PrepareInit, Fetched
  <2>5. ConfLines(ZeroGlobalConfig, ppDhcpCfgs) # << >>
    BY WrittenShaped DEF DataOK
  <2>6. failed' \cap Spoilers = {} => LocalReady'
    BY <2>2, <2>3, <2>4, <2>5 DEF LocalReady, LocalWanted
  <2> QED BY <2>1, <2>6
<1>7. CASE Startv4s
  <2>1. call' = "pid" /\ pc' = "start.returned" /\ pc = "Startv4s"
        /\ UNCHANGED << conf, local, failed, request, lan >>
    BY <1>7 DEF Startv4s, dhcpServerStart, Goto, files, history
  <2> QED BY <1>0, <2>1
<1>8. CASE StartReturned
  <2>1. /\ pc' \in {"start.started", "stop.return"} /\ pc = "start.returned" /\ call = "none"
        /\ UNCHANGED << serverVars, request, lan >>
    BY <1>8, Frames DEF StartReturned, ThreadInv, Control, Stands, ActionReturns
  <2> QED BY <1>0, <2>1 DEF serverVars
<1>9. CASE \/ StopStop \/ StopStopped \/ Stopv4s \/ StopConfigure \/ StopDnsOnly \/ StopChanged
           \/ StopReturn
  <2>1. request = "stop" /\ request' = request
    BY <1>9 DEF ThreadInv, Reported, StopStop, StopStopped, Stopv4s, StopConfigure, StopDnsOnly,
                StopChanged, StopReturn, DispatcherStep
  <2> QED BY <2>1
<1>10. CASE ServerStep
  <2>a. pc \in {"start.returned", "stop.configure"} /\ UNCHANGED << pc, request, lan >>
    BY <1>10, CallSteps DEF ServerStep, StartSteps, StopSteps, ThreadInv, Control, Stands, Prepared,
                            Labels, fsmVars
  <2> SUFFICES ASSUME pc = "start.returned", request = "start", failed' \cap Spoilers = {}
               PROVE  Installing'
    BY <2>a
  <2>0. failed \cap Spoilers = {} /\ UNCHANGED << pc, request, lan >>
    BY <1>10, <2>a, CallSteps DEF ServerStep
  <2> USE DEF Goto, Return, files, history, Fault, Record, NoFault
  <2>1. CASE StartPid
    BY <1>0, <2>0, <2>1 DEF StartPid, extractPid
  <2>2. CASE StartCompare
    <3>1. LocalReady /\ UNCHANGED << conf, local >>
      BY <2>0, <2>2 DEF StartCompare
    <3>2. Same => conf.there /\ conf.lines = local.lines
      BY <2>2 DEF StartCompare, Same, ExactCompare
    <3>3. Same => Installed
      BY <3>1, <3>2 DEF Installed, LocalReady, LocalWanted
    <3>4. (call' \in {"exec", "none"} /\ Same) \/ call' = "copy"
      BY <2>2 DEF StartCompare
    <3> QED BY <1>0, <2>0, <3>1, <3>3, <3>4
  <2>3. CASE StartCopy
    <3>1. LocalReady /\ local.there /\ local' = local
      BY <2>0, <2>3 DEF StartCopy, LocalReady, LocalWanted
    <3>2. call' = "write"
      BY <2>0, <2>3, <3>1 DEF StartCopy
    <3> QED BY <1>0, <2>0, <3>1, <3>2
  <2>4. CASE StartWrite
    <3>1. LocalReady /\ conf' = local /\ call' = "remove"
      BY <2>0, <2>4 DEF StartWrite
    <3> QED BY <2>0, <3>1 DEF LocalReady, LocalWanted, Installed
  <2>5. CASE StartRemove
    BY <1>0, <2>0, <2>5 DEF StartRemove
  <2>6. CASE StartKill
    BY <1>0, <2>0, <2>6 DEF StartKill, KillAll
  <2>7. CASE StartExec
    BY <1>0, <2>0, <2>7 DEF StartExec, Exec
  <2>8. CASE StopStep
    <3>1. call \in StopSteps /\ call \in StartSteps \cup {"none"}
      BY <2>8 DEF StopStep, StopScan, StopKill, StopRemove, StopExec, StopSteps, ThreadInv,
                  Control, Stands
    <3> QED BY <3>1 DEF StopSteps, StartSteps
  <2> QED BY <1>10, <2>1, <2>2, <2>3, <2>4, <2>5, <2>6, <2>7, <2>8
          DEF ServerStep, CallStep, StartStep
<1>11. CASE DnsmasqExits
  <2>1. UNCHANGED << conf, local, call, pc, request, lan >> /\ failed \subseteq failed'
    BY <1>11 DEF DnsmasqExits, DnsmasqDies, Fault, Record, files, fsmVars
  <2> QED BY <1>0, <2>1
<1>12. CASE Crash
  BY <1>12 DEF Crash, NULL
<1>13. CASE UNCHANGED vars
  BY <1>13, <1>0 DEF vars, serverVars, fsmVars
<1> QED BY <1>1, <1>2, <1>3, <1>4, <1>5, <1>6, <1>7, <1>8, <1>9, <1>10, <1>11, <1>12, <1>13
        DEF Next, ThreadStep

\* A start that can open its files and allocate ends with exactly the enabled bridges
\* of the provider's answer installed, in a file that is not empty, whatever else fails
\* and whatever earlier failures and crashes have left behind.
THEOREM StartInstallsAlways == SafeSpec => []StartInstalls
<1>1. Installing => StartInstalls
  BY DEF Installing, Installed, Spoilers, StartInstalls
<1>2. ExactCompare /\ DataOK /\ ThreadInv /\ Fetched /\ Installing /\ [Next]_vars => Installing'
  BY InstallingNext
<1>3. SafeSpec => []DataOK
  BY DataInit, DataNext, PTL DEF SafeSpec
<1>4. SafeSpec => []ExactCompare
  BY Implements, ExactCompareAlways, PTL
<1> QED BY <1>1, <1>2, <1>3, <1>4, InstallingInit, ServingAlways, ThreadAlways, PTL DEF SafeSpec

-----------------------------------------------------------------------------
(* The options of dhcpServerStop.  A dnsmasq that it restarted runs a file   *)
(* with an active range; the file that Stopv4s then prepares has none, so   *)
(* compareFiles tells them apart and dhcpServerStart replaces the process.  *)

\* One of the failures that PlainIsTransient allows for has happened.
Blamed == faulted \cap (Stalers \cup {"openConf", "alloc"}) # {}

\* dnsmasq still runs with the options of dhcpServerStop, and nothing failed.
Plain == dnsmasq.up /\ dnsmasq.args = "plain" /\ ~Blamed

ConfActive == conf.there /\ ~Silent(conf.lines)

PlainInv ==
    /\ sCmdArgs # "plain" /\ args # "plain"
    /\ call \in {"stop.kill", "stop.remove", "stop.exec"} => ConfActive
    /\ Plain =>
         /\ request = "stop"
         /\ pc \in {"stop.configure", "PrepareConfigv4s", "prepare.init", "stop.dnsonly",
                    "stop.changed", "Startv4s", "start.returned"}
         /\ pc = "stop.configure" => call = "none"
         /\ pc = "start.returned" => call # "none"
         /\ pc \in {"stop.dnsonly", "stop.changed"} => mainState = "PREPARINGv4"
         /\ pc # "start.returned" \/ call \in {"pid", "compare"} => ConfActive
         /\ pc \in {"stop.changed", "Startv4s"} \/ call \in {"pid", "compare"} => Rewritten

\* dnsmasq is not running at start-up.
LEMMA PlainInit == Init => PlainInv
BY DEF Init, ServerInit, NoProcess, PlainInv, Plain

\* dnsmasq gets other options, and failures are forgotten, only when it is
\* started.
LEMMA PlainStays ==
    ASSUME [Next]_vars, Plain'
    PROVE  \/ Plain
           \/ ServerStep /\ (StartExec \/ StopExec) /\ ~dnsmasq.up
<1> DEFINE kept == faulted \subseteq faulted' /\ dnsmasq' \in {dnsmasq, NoProcess}
           started == ServerStep /\ (StartExec \/ StopExec) /\ ~dnsmasq.up
<1> SUFFICES kept \/ started
  BY DEF Plain, Blamed, NoProcess
<1> USE DEF Fault, Record, NoFault, history
<1>1. CASE Requested \/ Crash
  BY <1>1 DEF Requested, EventHandler_MainFSM, Request, Crash, ServerCrash
<1>2. CASE StartConfigure \/ StartPrepared \/ StartStarted \/ StopStop \/ StopStopped
             \/ DispatcherDone
  BY <1>2 DEF StartConfigure, StartPrepared, StartStarted, StopStop, StopStopped,
              DispatcherDone, DispatcherStep, serverVars
<1>3. CASE PrepareFetch \/ PrepareInit
  BY <1>3 DEF PrepareFetch, PrepareInit, CallerFails, dhcpServerInit, serverVars
<1>4. CASE Startv4s \/ StartReturned \/ Stopv4s
  BY <1>4 DEF Startv4s, dhcpServerStart, StartReturned, Stopv4s, dhcpServerStop, serverVars
<1>5. CASE StopConfigure \/ StopDnsOnly \/ StopChanged \/ StopReturn
  BY <1>5 DEF StopConfigure, StopDnsOnly, DnsOnlyRewrite, StopChanged, StopReturn, serverVars
<1>6. CASE ServerStep
  <2>1. CASE StartPid \/ StartCompare \/ StartCopy \/ StartWrite \/ StartRemove
    BY <2>1 DEF StartPid, StartCompare, StartCopy, StartWrite, StartRemove, extractPid
  <2>2. CASE StartKill \/ StopKill
    BY <2>2 DEF StartKill, StopKill, KillAll
  <2>3. CASE StartExec \/ StopExec
    BY <1>6, <2>3 DEF StartExec, StopExec, Exec
  <2>4. CASE StopScan \/ StopRemove
    BY <2>4 DEF StopScan, StopRemove, extractPid
  <2> QED BY <1>6, <2>1, <2>2, <2>3, <2>4 DEF ServerStep, CallStep, StartStep, StopStep
<1>7. CASE DnsmasqExits \/ UNCHANGED vars
  BY <1>7 DEF DnsmasqExits, DnsmasqDies, vars, serverVars
<1> QED BY <1>1, <1>2, <1>3, <1>4, <1>5, <1>6, <1>7 DEF Next, ThreadStep

\* Every step keeps a plain dnsmasq one that a stop has just started, or a failure to blame.
LEMMA PlainNext ==
    ASSUME ServerTypeOK, RunsInv, ExactCompare, ThreadInv, PlainInv, [Next]_vars
    PROVE  PlainInv'
<1>0. /\ conf' = conf /\ local' = local => (Rewritten' <=> Rewritten)
      /\ conf' = conf => (ConfActive' <=> ConfActive)
  BY DEF Rewritten, ConfActive, Silent, ActiveRanges, StartsRange
<1>c. /\ call \in StartSteps => pc = "start.returned"
      /\ call \in StopSteps => pc = "stop.configure" /\ request = "stop"
      /\ call = "ready" => pc \in {"start.prepared", "stop.dnsonly", "stop.changed", "Startv4s"}
  BY DEF ThreadInv, Control, Reported, Stands, Labels, Prepared, StartSteps, StopSteps
<1>1. CASE ServerStep /\ (StartExec \/ StopExec) /\ ~dnsmasq.up
  <2>1. UNCHANGED << sCmdArgs, args, conf, pc, request, mainState >> /\ call' = "none"
    BY <1>1 DEF ServerStep, fsmVars, StartExec, StopExec, Exec, Return, files
  <2>2. CASE StartExec
    <3>1. dnsmasq'.up => dnsmasq'.args = args
      BY <1>1, <2>2 DEF StartExec, Exec, Process
    <3> QED BY <2>1, <3>1 DEF PlainInv, Plain
  <2>3. CASE StopExec
    <3>1. pc = "stop.configure" /\ request = "stop" /\ ConfActive
      BY <2>3, <1>c DEF StopExec, PlainInv, StopSteps
    <3> QED BY <1>0, <2>1, <3>1 DEF PlainInv
  <2> QED BY <1>1, <2>2, <2>3
<1> SUFFICES ASSUME ~(ServerStep /\ (StartExec \/ StopExec) /\ ~dnsmasq.up)
             PROVE  PlainInv'
  BY <1>1
<1>p. Plain' => Plain
  BY PlainStays
<1> USE DEF PlainInv
<1>2. CASE Requested
  BY <1>2, <1>p DEF Requested, EventHandler_MainFSM, Request, files, ThreadInv, Control, Stands
<1>3. CASE StartConfigure \/ StartPrepared \/ StartStarted \/ StopStop \/ StopStopped
             \/ DispatcherDone
  BY <1>3, <1>p, <1>0, <1>c
     DEF StartConfigure, StartPrepared, StartStarted, StopStop, StopStopped,
         DispatcherDone, DispatcherStep, serverVars
<1>4. CASE PrepareFetch
  <2>1. /\ sCmdArgs' = "none" /\ pc = "PrepareConfigv4s" /\ pc' = "prepare.init"
        /\ UNCHANGED << conf, args, call, request >>
    BY <1>4 DEF PrepareFetch, CallerFails, files, serverVars
  <2> QED BY <2>1, <1>p, <1>0, <1>c DEF StopSteps, StartSteps
<1>5. CASE PrepareInit
  <2>1. /\ pc = "prepare.init" /\ call = "none" /\ call' \in {"none", "ready"}
        /\ UNCHANGED << conf, args, request >>
    BY <1>5 DEF PrepareInit, dhcpServerInit, CallerFails, files, Goto, ThreadInv, Control, Stands
  <2>2. pc' = IF request = "stop" THEN "stop.dnsonly" ELSE "start.prepared"
    BY <1>5, Frames DEF PrepareInit, ThreadInv, Control, Stands, ActionReturns
  <2>3. sCmdArgs' # "plain"
    BY <1>5 DEF PrepareInit, Construct_dhcp_configurationv4
  <2>4. mainState' = "PREPARINGv4" \/ "alloc" \in faulted'
    BY <1>5, Frames DEF PrepareInit, ThreadInv, Control, Stands, ActionReturns, CallerFails,
                        Fault, Record
  <2>5. Plain' => mainState' = "PREPARINGv4"
    BY <2>4 DEF Plain, Blamed
  <2> QED BY <2>1, <2>2, <2>3, <2>5, <1>p, <1>0
<1>6. CASE Startv4s
  <2>1. /\ pc = "Startv4s" /\ pc' = "start.returned" /\ call' = "pid" /\ args' = sCmdArgs
        /\ UNCHANGED << conf, local, sCmdArgs, request >>
    BY <1>6 DEF Startv4s, dhcpServerStart, Goto, files
  <2> QED BY <2>1, <1>p, <1>0
<1>7. CASE StartReturned \/ StopReturn
  BY <1>7, <1>p, <1>0 DEF StartReturned, StopReturn, serverVars
<1>8. CASE Stopv4s
  <2>1. pc = "Stopv4s" /\ call' \in {"none", "stop.pid"} /\ UNCHANGED << sCmdArgs, args >>
    BY <1>8 DEF Stopv4s, dhcpServerStop, Goto, Return
  <2> QED BY <2>1, <1>p
<1>9. CASE StopConfigure
  <2>1. pc = "stop.configure" /\ pc' = "PrepareConfigv4s"
        /\ UNCHANGED << conf, local, args, sCmdArgs, call, request >>
    BY <1>9, Dispatches DEF StopConfigure, serverVars, ThreadInv, Control, Stands
  <2> QED BY <2>1, <1>p, <1>0, <1>c
<1>10. CASE StopDnsOnly
  <2>1. /\ pc = "stop.dnsonly" /\ pc' = "stop.changed"
        /\ UNCHANGED << conf, args, sCmdArgs, call, request, mainState >>
        /\ call \in {"none", "ready"}
    BY <1>10 DEF StopDnsOnly, DnsOnlyRewrite
  <2>2. Plain' => conf.there
    BY <2>1, <1>p DEF ConfActive
  <2>3. Plain' => local' = File(dns_only(conf.lines))
    BY <1>10, <2>2 DEF StopDnsOnly, DnsOnlyRewrite, Fault, Record, Plain, Blamed, Stalers
  <2>4. Plain' => Rewritten'
    BY <2>1, <2>2, <2>3, RewriteIsSilent
  <2> QED BY <2>1, <2>4, <1>p, <1>0
<1>11. CASE StopChanged
  <2>1. pc = "stop.changed" /\ UNCHANGED << conf, local, args, sCmdArgs, call, request >>
    BY <1>11 DEF StopChanged, serverVars
  <2>2. Plain => pc' = "Startv4s"
    BY <1>11, <2>1, Dispatches DEF StopChanged
  <2> QED BY <2>1, <2>2, <1>p, <1>0, <1>c DEF StopSteps, StartSteps
<1>12. CASE ServerStep
  <2>0. UNCHANGED << pc, request, sCmdArgs, mainState >>
    BY <1>12 DEF ServerStep, fsmVars
  <2> USE DEF Goto, Return, files, history, Fault, Record, NoFault
  <2>1. CASE StartPid
    BY <1>0, <1>p, <2>0, <2>1 DEF StartPid
  <2>2. CASE StartCompare
    <3>1. call = "compare" /\ UNCHANGED << conf, local, args, dnsmasq >>
          /\ call' \in {"none", "exec", "copy"}
      BY <2>2 DEF StartCompare
    <3>2. Plain => ~Same
      BY <3>1, <1>c DEF Same, ExactCompare, Rewritten, ConfActive, StartSteps
    <3>3. Plain => call' # "none"
      BY <2>2, <3>2 DEF StartCompare
    <3> QED BY <1>0, <1>p, <1>c, <2>0, <3>1, <3>3 DEF StartSteps
  <2>3. CASE StartCopy
    <3>1. call = "copy" /\ UNCHANGED << local, args, dnsmasq >> /\ call' \in {"none", "write"}
      BY <2>3 DEF StartCopy
    <3>2. Plain => local.there
      BY <3>1 DEF RunsInv, LocalThere, Plain, Blamed, Stalers
    <3>3. Plain' => call' # "none"
      BY <2>3, <3>2, <1>p DEF StartCopy, Plain, Blamed, Stalers
    <3> QED BY <1>p, <1>c, <2>0, <3>1, <3>3 DEF StartSteps
  <2>4. CASE StartWrite
    BY <1>p, <1>c, <2>0, <2>4 DEF StartWrite, StartSteps
  <2>5. CASE StartRemove
    <3>1. call = "remove" /\ UNCHANGED args /\ call' \in {"none", "kill", "exec"}
      BY <2>5 DEF StartRemove
    <3>2. Plain' => call' # "none"
      BY <2>5 DEF StartRemove, Plain, Blamed, Stalers
    <3> QED BY <1>p, <1>c, <2>0, <3>1, <3>2 DEF StartSteps
  <2>6. CASE StartKill
    <3>1. call = "kill" /\ UNCHANGED args /\ call' \in {"none", "exec"}
      BY <2>6 DEF StartKill, KillAll
    <3>2. ~Plain'
      BY <2>6 DEF StartKill, KillAll, NoProcess, Plain, Blamed, Stalers
    <3> QED BY <1>c, <2>0, <3>1, <3>2
  <2>7. CASE StartExec
    <3>1. call = "exec" /\ UNCHANGED args /\ call' = "none" /\ dnsmasq.up
      BY <1>12, <2>7 DEF StartExec, Exec
    <3>2. ~Plain
      BY <3>1 DEF RunsInv, PidFound, Plain, Blamed, Stalers
    <3> QED BY <1>p, <2>0, <3>1, <3>2
  <2>8. CASE StopStep
    <3>1. call \in StopSteps /\ UNCHANGED << conf, args >> /\ call' \in StopSteps \cup {"none"}
      BY <2>8 DEF StopStep, StopScan, StopKill, StopRemove, StopExec, StopSteps, KillAll, Exec
    <3>2. ~Plain
      BY <1>c, <3>1 DEF StopSteps
    <3>3. call' \in {"stop.kill", "stop.remove", "stop.exec"} => ConfActive
      <4>1. conf.there
        BY <3>1 DEF RunsInv, ConfThere
      <4>2. CASE StopScan
        BY <4>1, <4>2, ScanFindsRange DEF StopScan, ConfActive, Silent, files, ActiveRanges, StartsRange
      <4>3. CASE ~StopScan
        BY <2>8, <4>3 DEF StopStep, StopKill, StopRemove, StopExec
      <4> QED BY <4>2, <4>3
    <3> QED BY <1>0, <1>p, <2>0, <3>1, <3>2, <3>3
  <2> QED BY <1>12, <2>1, <2>2, <2>3, <2>4, <2>5, <2>6, <2>7, <2>8
          DEF ServerStep, CallStep, StartStep
<1>13. CASE DnsmasqExits
  BY <1>13, <1>p, <1>0 DEF DnsmasqExits, DnsmasqDies, files, fsmVars
<1>14. CASE Crash
  <2>1. ~Plain'
    BY <1>14 DEF Crash, ServerCrash, Fault, Record, Plain, Blamed, Stalers
  <2> QED BY <1>14, <2>1 DEF Crash, ServerCrash, Return
<1>15. CASE UNCHANGED vars
  BY <1>15, <1>p, <1>0 DEF vars, serverVars, fsmVars
<1> QED BY <1>2, <1>3, <1>4, <1>5, <1>6, <1>7, <1>8, <1>9, <1>10, <1>11, <1>12, <1>13,
           <1>14, <1>15 DEF Next, ThreadStep

\* dnsmasq does not keep the options of dhcpServerStop past the stop that started
\* it so, unless one of the failures of PlainIsTransient has happened since.
THEOREM PlainIsTransientAlways == SafeSpec => []PlainIsTransient
<1>1. PlainInv => PlainIsTransient
  BY DEF PlainInv, Plain, Blamed, PlainIsTransient
<1>2. ServerTypeOK /\ RunsInv /\ ExactCompare /\ ThreadInv /\ PlainInv /\ [Next]_vars => PlainInv'
  BY PlainNext
<1>3. SafeSpec => []ServerTypeOK /\ []RunsInv /\ []ExactCompare
  BY Implements, ServerTypeCorrect, RunsAlways, ExactCompareAlways, PTL
<1> QED BY <1>1, <1>2, <1>3, PlainInit, ThreadAlways, PTL DEF SafeSpec

-----------------------------------------------------------------------------
(* The refinement.  phase, offered, prepared, installed, serving and trouble *)
(* of DhcpService are functions of the manager's state; each step of the     *)
(* manager is a step of the service, or changes none of them.                *)

Phase == IF pc = "rest" THEN "rest" ELSE request

\* The functions that a step keeps.
KeepsPhase     == pc # "rest" /\ pc' # "rest" /\ request' = request /\ request # "rest"
KeepsOffered   == lan' = lan
KeepsPrepared  == local' = local
KeepsInstalled == conf' = conf
KeepsServing   == dnsmasq' = dnsmasq

\* A failure, and a step that changes nothing of the service.
LEMMA MapFail ==
    ASSUME KeepsPhase, KeepsOffered, KeepsPrepared, KeepsInstalled, KeepsServing, ~Clean'
    PROVE  Service!Next
BY DEF KeepsPhase, KeepsOffered, KeepsPrepared, KeepsInstalled, KeepsServing,
       Service!Next, Service!Fail

\* A step that the service does not see.
LEMMA MapStutter ==
    ASSUME KeepsPhase, KeepsOffered, KeepsPrepared, KeepsInstalled, KeepsServing, Clean' <=> Clean
    PROVE  UNCHANGED Service!service
BY DEF KeepsPhase, KeepsOffered, KeepsPrepared, KeepsInstalled, KeepsServing, Service!service

\* The provider's answer.
LEMMA MapOffer ==
    ASSUME KeepsPhase, KeepsPrepared, KeepsInstalled, KeepsServing, Clean' => Clean,
           Wanted(lan') \subseteq STRING \X STRING
    PROVE  Service!Next
BY DEF KeepsPhase, KeepsPrepared, KeepsInstalled, KeepsServing,
       Service!Next, Service!Offer, Service!Configs

\* A local file that is to serve what was offered, or nothing.
LEMMA MapPrepare ==
    ASSUME KeepsPhase, KeepsOffered, KeepsInstalled, KeepsServing, Clean' => Clean,
           Served(local'.lines) \in {Wanted(lan), {}}
    PROVE  Service!Next
BY DEF KeepsPhase, KeepsOffered, KeepsInstalled, KeepsServing,
       Service!Next, Service!Prepare, Service!Nothing

\* The installed file, truncated or written.
LEMMA MapInstall ==
    ASSUME KeepsPhase, KeepsOffered, KeepsPrepared, KeepsServing, Clean' => Clean,
           Served(conf'.lines) \in {Served(local.lines), {}}
    PROVE  Service!Next
BY DEF KeepsPhase, KeepsOffered, KeepsPrepared, KeepsServing,
       Service!Next, Service!Install, Service!Nothing

\* dnsmasq goes down during a request, or by itself.
LEMMA MapGoDown ==
    ASSUME Phase' = Phase, KeepsOffered, KeepsPrepared, KeepsInstalled, dnsmasq.up, ~dnsmasq'.up,
           Clean' => Clean, Phase = "rest" => ~Clean'
    PROVE  Service!Next
BY DEF Phase, KeepsOffered, KeepsPrepared, KeepsInstalled,
       Service!Next, Service!GoDown, Service!Down

\* dnsmasq comes up on the installed file.
LEMMA MapComeUp ==
    ASSUME KeepsPhase, KeepsOffered, KeepsPrepared, KeepsInstalled, ~dnsmasq.up, dnsmasq'.up,
           dnsmasq'.lines = conf.lines, Clean => Clean'
    PROVE  Service!Next
BY DEF KeepsPhase, KeepsOffered, KeepsPrepared, KeepsInstalled,
       Service!Next, Service!ComeUp, Service!Down

\* A request is over: something failed, or what it was to bring about is served.
LEMMA MapFinish ==
    ASSUME pc # "rest", pc' = "rest", request' = request, request \in {"start", "stop"},
           KeepsOffered, KeepsPrepared, KeepsInstalled, KeepsServing, Clean' <=> Clean,
           Clean => /\ dnsmasq.up
                    /\ Served(dnsmasq.lines) = IF request = "start" THEN Wanted(lan) ELSE {}
    PROVE  Service!Next
BY DEF KeepsOffered, KeepsPrepared, KeepsInstalled, KeepsServing,
       Service!Next, Service!Finish, Service!Goal, Service!Nothing

\* A request begins.
LEMMA MapAsk ==
    ASSUME pc = "rest", pc' = request', request' \in {"start", "stop"}, lan' = {},
           KeepsPrepared, KeepsInstalled, KeepsServing, Clean => Clean'
    PROVE  Service!Next
BY WantedPairs DEF KeepsPrepared, KeepsInstalled, KeepsServing,
                   Service!Next, Service!Ask, Service!Nothing

\* The manager is killed.
LEMMA MapAbort ==
    ASSUME pc' = "rest", lan' = {}, KeepsPrepared, KeepsInstalled, KeepsServing, ~Clean'
    PROVE  Service!Next
BY WantedPairs DEF KeepsPrepared, KeepsInstalled, KeepsServing,
                   Service!Next, Service!Abort, Service!Nothing

\* The manager's initial states are the service's.
LEMMA MapInit == Init => Service!Init
<1> SUFFICES ASSUME Init PROVE Service!Init
  OBVIOUS
<1>1. /\ pc = "rest" /\ lan = {} /\ local.lines = << >> /\ ~dnsmasq.up /\ Clean
  BY DEF Init, ServerInit, NoFile, NoProcess, Clean
<1>2. Served(conf.lines) \subseteq STRING \X STRING
  <2>1. CASE conf = NoFile
    BY <2>1, SilentServesNothing DEF NoFile
  <2>2. ASSUME NEW ifs \in IfaceLists, conf = File(ConfLines(ZeroGlobalConfig, ifs))
        PROVE  Served(conf.lines) \subseteq STRING \X STRING
    <3>1. conf.lines = ConfLines(ZeroGlobalConfig, ifs)
      BY <2>2 DEF File
    <3>2. CASE ifs = NoPayloads
      BY <3>1, <3>2, WrittenServes, WantedPairs
    <3>3. CASE ifs # NoPayloads
      <4>1. PICK r \in Replies : FilledFrom(ifs, r)
        BY <3>3, IfaceListsFilled
      <4>2. Served(conf.lines) = Wanted({r})
        BY <3>1, <4>1, WrittenServes
      <4> QED BY <4>2, WantedPairs
    <3> QED BY <3>2, <3>3
  <2> QED BY <2>1, <2>2 DEF Init, ServerInit
<1> QED BY <1>1, <1>2, WantedPairs, SilentServesNothing
        DEF Service!Init, Service!Nothing, Service!Down, Service!Configs

\* What the service steps rest on.
RefineInv == ServerTypeOK /\ ThreadInv /\ Fetched /\ Serving /\ Silencing

\* A failure is trouble; what does not touch the histories leaves it as it was.
LEMMA Troubles ==
    /\ \A f : Fault(f) \/ Record(f) => ~Clean'
    /\ NoFault => (Clean' <=> Clean)
BY DEF Fault, Record, NoFault, history, Clean

\* An API call in progress is made by a request.
LEMMA InRequest ==
    ASSUME ThreadInv, pc # "rest"
    PROVE  request \in {"start", "stop"} /\ request # "rest"
BY DEF ThreadInv, Reported, PublishedSequence

\* The steps that only move the thread.
LEMMA RefineControl ==
    ASSUME RefineInv,
           \/ StartConfigure \/ StartPrepared \/ StartStarted \/ StopStop \/ StopStopped
           \/ DispatcherDone \/ StartReturned \/ StopConfigure \/ StopChanged \/ StopReturn
    PROVE  [Service!Next]_(Service!service)
<1> USE DEF RefineInv
<1>1. /\ pc # "rest" /\ request' = request /\ request \in {"start", "stop"} /\ request # "rest"
      /\ KeepsOffered /\ KeepsPrepared /\ KeepsInstalled /\ KeepsServing /\ (Clean' <=> Clean)
  <2>1. pc # "rest" /\ UNCHANGED << serverVars, request, lan >>
    BY DEF StartConfigure, StartPrepared, StartStarted, StopStop, StopStopped, DispatcherDone,
           StartReturned, StopConfigure, StopChanged, StopReturn, DispatcherStep
  <2> QED BY <2>1, InRequest DEF serverVars, KeepsOffered, KeepsPrepared, KeepsInstalled,
                                 KeepsServing, Clean
<1>2. CASE pc' # "rest"
  BY <1>1, <1>2, MapStutter DEF KeepsPhase
<1>3. CASE pc' = "rest"
  <2>1. CASE StartPrepared
    <3>1. ~Clean
      BY <1>3, <2>1, Dispatches
         DEF StartPrepared, DispatcherStep, ThreadInv, Control, Prepared, Clean
    <3> QED BY <1>1, <1>3, <3>1, MapFinish
  <2>2. CASE DispatcherDone
    <3>1. pc = "done"
      BY <2>2 DEF DispatcherDone, DispatcherStep
    <3>2. CASE request = "start"
      <4>1. Clean => dnsmasq.up /\ Served(dnsmasq.lines) = Wanted(lan)
        BY <3>1, <3>2 DEF Serving, Clean
      <4> QED BY <1>1, <1>3, <3>2, <4>1, MapFinish
    <3>3. CASE request = "stop"
      <4>1. Clean => dnsmasq.up /\ Silent(dnsmasq.lines)
        BY <3>1, <3>3 DEF Silencing, Clean
      <4>2. dnsmasq.lines \in Seq(Line)
        BY DEF ServerTypeOK, ProcessType
      <4>3. Clean => dnsmasq.up /\ Served(dnsmasq.lines) = {}
        BY <4>1, <4>2, SilentServesNothing
      <4> QED BY <1>1, <1>3, <3>3, <4>3, MapFinish
    <3> QED BY <1>1, <3>2, <3>3
  <2>3. CASE StartConfigure \/ StopConfigure
    BY <1>3, <2>3, Dispatches
       DEF StartConfigure, StopConfigure, DispatcherStep, ThreadInv, Control, Stands
  <2>4. CASE StartStarted
    BY <1>3, <2>4, Dispatches DEF StartStarted, DispatcherStep, ThreadInv, Control, Stands
  <2>5. CASE StopStop
    BY <1>3, <2>5, Dispatches DEF StopStop, DispatcherStep, ThreadInv, Control, Stands
  <2>6. CASE StopStopped
    BY <1>3, <2>6, Dispatches DEF StopStopped, DispatcherStep, ThreadInv, Control, Stands
  <2>7. CASE StartReturned \/ StopReturn
    BY <1>3, <2>7, Frames DEF StartReturned, StopReturn, ActionReturns, ThreadInv, Control, Stands
  <2>8. CASE StopChanged
    BY <1>3, <2>8, Dispatches DEF StopChanged, ThreadInv, Control, Prepared
  <2> QED BY <2>1, <2>2, <2>3, <2>4, <2>5, <2>6, <2>7, <2>8
<1> QED BY <1>2, <1>3

\* The steps between two API calls, in which the LAN is asked or a file prepared.
LEMMA RefineCalls ==
    ASSUME RefineInv, PrepareFetch \/ PrepareInit \/ Startv4s \/ Stopv4s \/ StopDnsOnly
    PROVE  [Service!Next]_(Service!service)
<1> USE DEF RefineInv
<1>1. KeepsPhase
  <2>1. pc # "rest" /\ request' = request
    BY DEF PrepareFetch, PrepareInit, Startv4s, Stopv4s, StopDnsOnly
  <2>2. pc' # "rest"
    <3>1. CASE PrepareInit
      BY <3>1, Frames DEF PrepareInit, ThreadInv, Control, Stands, ActionReturns
    <3>2. CASE PrepareFetch \/ Startv4s \/ Stopv4s \/ StopDnsOnly
      BY <3>2 DEF PrepareFetch, Startv4s, Stopv4s, StopDnsOnly
    <3> QED BY <3>1, <3>2
  <2> QED BY <2>1, <2>2, InRequest DEF KeepsPhase
<1> USE DEF KeepsOffered, KeepsPrepared, KeepsInstalled, KeepsServing
<1>2. CASE PrepareFetch
  <2>1. KeepsPrepared /\ KeepsInstalled /\ KeepsServing /\ (Clean' => Clean)
    BY <1>2, Troubles DEF PrepareFetch, CallerFails, serverVars, files, Clean
  <2>2. Wanted(lan') \subseteq STRING \X STRING
    BY <1>2, WantedPairs DEF PrepareFetch
  <2> QED BY <1>1, <2>1, <2>2, MapOffer
<1>3. CASE PrepareInit
  <2>1. KeepsOffered /\ KeepsInstalled /\ KeepsServing
    BY <1>3 DEF PrepareInit, dhcpServerInit, CallerFails, files
  <2>2. CASE NoFault /\ local' = File(ConfLines(ZeroGlobalConfig, ppDhcpCfgs))
    <3>1. Served(local'.lines) = Wanted(lan)
      BY <1>3, <2>2 DEF PrepareInit, Fetched, File
    <3> QED BY <1>1, <2>1, <2>2, <3>1, Troubles, MapPrepare
  <2>3. CASE Fault("alloc") /\ local' = File(<< >>)
    <3>1. Served(local'.lines) = {}
      BY <2>3, SilentServesNothing DEF File
    <3> QED BY <1>1, <2>1, <2>3, <3>1, Troubles, MapPrepare
  <2>4. CASE (Fault("openTmp") \/ Fault("alloc")) /\ UNCHANGED local
    BY <1>1, <2>1, <2>4, Troubles, MapFail
  <2> QED BY <1>3, <2>2, <2>3, <2>4 DEF PrepareInit, dhcpServerInit, CallerFails, files
<1>4. CASE Startv4s
  BY <1>1, <1>4, Troubles, MapStutter DEF Startv4s, dhcpServerStart, files, NoFault, history, Clean
<1>5. CASE Stopv4s
  <2>1. KeepsOffered /\ KeepsPrepared /\ KeepsInstalled /\ KeepsServing
    BY <1>5 DEF Stopv4s, dhcpServerStop
  <2>2. ~Clean' \/ (Clean' <=> Clean)
    BY <1>5, Troubles DEF Stopv4s, dhcpServerStop
  <2> QED BY <1>1, <2>1, <2>2, MapStutter, MapFail
<1>6. CASE StopDnsOnly
  <2>1. KeepsOffered /\ KeepsInstalled /\ KeepsServing
    BY <1>6 DEF StopDnsOnly, DnsOnlyRewrite
  <2>2. CASE conf.there /\ NoFault /\ local' = File(dns_only(conf.lines))
    <3>1. Rewritten'
      BY <2>1, <2>2, RewriteIsSilent
    <3>2. local'.lines \in Seq(Line) /\ Silent(local'.lines)
      <4>1. conf.lines \in Seq(Line)
        BY DEF ServerTypeOK, FileType
      <4>2. local'.lines = dns_only(conf.lines)
        BY <2>2 DEF File
      <4> QED BY <4>1, <4>2, DnsOnlyLines, DnsOnlySilences DEF Silent
    <3>3. Served(local'.lines) = {}
      BY <3>2, SilentServesNothing
    <3> QED BY <1>1, <2>1, <2>2, <3>3, Troubles, MapPrepare
  <2>3. CASE (\E f \in {"noConf", "openConf", "openTmp"} : Record(f)) /\ UNCHANGED local
    BY <1>1, <2>1, <2>3, Troubles, MapFail
  <2> QED BY <1>6, <2>2, <2>3 DEF StopDnsOnly, DnsOnlyRewrite, Fault
<1> QED BY <1>2, <1>3, <1>4, <1>5, <1>6

\* The steps of dhcpServerStart and dhcpServerStop.
LEMMA RefineServer ==
    ASSUME RefineInv, ServerStep
    PROVE  [Service!Next]_(Service!service)
<1> USE DEF RefineInv
<1>1. KeepsPhase /\ KeepsOffered
  <2>1. pc # "rest" /\ UNCHANGED << pc, request, lan >>
    BY CallSteps DEF ServerStep, fsmVars, ThreadInv, Control, Stands, StartSteps, StopSteps
  <2> QED BY <2>1, InRequest DEF KeepsPhase, KeepsOffered
<1> USE DEF KeepsPrepared, KeepsInstalled, KeepsServing
<1>2. CASE StartPid \/ StartCompare \/ StopScan \/ StopRemove
  <2>1. KeepsPrepared /\ KeepsInstalled /\ KeepsServing
    BY <1>2 DEF StartPid, StartCompare, StopScan, StopRemove, files
  <2>2. ~Clean' \/ (Clean' <=> Clean)
    BY <1>2, Troubles DEF StartPid, StartCompare, StopScan, StopRemove, extractPid
  <2> QED BY <1>1, <2>1, <2>2, MapStutter, MapFail
<1>3. CASE StartCopy
  <2>1. KeepsPrepared /\ KeepsServing /\ (Clean' => Clean)
    BY <1>3, Troubles DEF StartCopy
  <2>2. CASE conf' = File(<< >>)
    <3>1. Served(conf'.lines) = {}
      BY <2>2, SilentServesNothing DEF File
    <3> QED BY <1>1, <2>1, <3>1, MapInstall
  <2>3. CASE Fault("openConf") /\ UNCHANGED conf
    BY <1>1, <2>1, <2>3, Troubles, MapFail
  <2> QED BY <1>3, <2>2, <2>3 DEF StartCopy
<1>4. CASE StartWrite
  BY <1>1, <1>4, MapInstall DEF StartWrite, history, Clean
<1>5. CASE StartRemove
  <2>1. KeepsInstalled /\ KeepsServing
    BY <1>5 DEF StartRemove
  <2>2. CASE NoFault /\ local' = NoFile
    <3>1. Served(local'.lines) = {}
      BY <2>2, SilentServesNothing DEF NoFile
    <3> QED BY <1>1, <2>1, <2>2, <3>1, Troubles, MapPrepare
  <2>3. CASE Fault("remove") /\ UNCHANGED local
    BY <1>1, <2>1, <2>3, Troubles, MapFail
  <2> QED BY <1>5, <2>2, <2>3 DEF StartRemove
<1>6. CASE StartKill \/ StopKill
  <2>1. KeepsPrepared /\ KeepsInstalled
    BY <1>6 DEF StartKill, StopKill, files
  <2>2. CASE dnsmasq.up /\ NoFault /\ dnsmasq' = NoProcess
    <3>1. Phase' = Phase /\ Phase # "rest" /\ ~dnsmasq'.up
      BY <1>1, <2>2 DEF KeepsPhase, Phase, NoProcess
    <3> QED BY <1>1, <2>1, <2>2, <3>1, Troubles, MapGoDown
  <2>3. CASE (NoFault \/ Fault("kill")) /\ UNCHANGED dnsmasq
    BY <1>1, <2>1, <2>3, Troubles, MapStutter, MapFail
  <2> QED BY <1>6, <2>2, <2>3 DEF StartKill, StopKill, KillAll
<1>7. CASE StartExec \/ StopExec
  <2>1. KeepsPrepared /\ KeepsInstalled
    BY <1>7 DEF StartExec, StopExec, files
  <2>2. CASE ~dnsmasq.up /\ (\E a : dnsmasq' = Process(conf.lines, a)) /\ faulted' = {}
             /\ UNCHANGED failed
    <3>1. dnsmasq'.up /\ dnsmasq'.lines = conf.lines
      BY <2>2 DEF Process
    <3>2. Clean => Clean'
      BY <2>2 DEF Clean
    <3> QED BY <1>1, <2>1, <2>2, <3>1, <3>2, MapComeUp
  <2>3. CASE (NoFault \/ Fault("exec")) /\ UNCHANGED dnsmasq
    BY <1>1, <2>1, <2>3, Troubles, MapStutter, MapFail
  <2> QED BY <1>7, <2>2, <2>3 DEF StartExec, StopExec, Exec
<1> QED BY <1>2, <1>3, <1>4, <1>5, <1>6, <1>7 DEF ServerStep, CallStep, StartStep, StopStep

\* Every step of the manager is a step of the service or invisible to it.
LEMMA RefineNext ==
    ASSUME RefineInv, [Next]_vars
    PROVE  [Service!Next]_(Service!service)
<1> USE DEF KeepsOffered, KeepsPrepared, KeepsInstalled, KeepsServing
<1>1. CASE Requested
  <2>1. /\ pc = "rest" /\ pc' = request' /\ request' \in {"start", "stop"} /\ lan' = {}
        /\ KeepsPrepared /\ KeepsInstalled /\ KeepsServing /\ (Clean => Clean')
    BY <1>1 DEF Requested, EventHandler_MainFSM, Request, files, Clean
  <2> QED BY <2>1, MapAsk
<1>2. CASE DnsmasqExits
  <2>1. /\ Phase' = Phase /\ KeepsOffered /\ KeepsPrepared /\ KeepsInstalled
        /\ dnsmasq.up /\ ~dnsmasq'.up /\ ~Clean'
    BY <1>2, Troubles DEF DnsmasqExits, DnsmasqDies, fsmVars, files, NoProcess, Phase
  <2> QED BY <2>1, MapGoDown
<1>3. CASE Crash
  <2>1. pc' = "rest" /\ lan' = {} /\ KeepsPrepared /\ KeepsInstalled /\ KeepsServing /\ ~Clean'
    BY <1>3, Troubles DEF Crash, ServerCrash, files
  <2> QED BY <2>1, MapAbort
<1>4. CASE UNCHANGED vars
  <2>1. UNCHANGED Service!service
    BY <1>4 DEF vars, serverVars, fsmVars, Service!service, Clean
  <2> QED BY <2>1
<1>5. CASE ThreadStep
  BY <1>5, RefineControl, RefineCalls, RefineServer DEF ThreadStep
<1> QED BY <1>1, <1>2, <1>3, <1>4, <1>5 DEF Next

\* The manager implements DhcpService, for every LAN, every sequence of requests
\* and every failure: nothing is ever served that was not installed, nothing
\* installed that was not prepared for this LAN, and a request that meets no
\* trouble is over only when what it asked for is served.
THEOREM ServiceImplemented == SafeSpec => Service!SafeSpec
<1>1. SafeSpec => []RefineInv
  <2>1. SafeSpec => []ServerTypeOK /\ []RunsInv
    BY Implements, ServerTypeCorrect, RunsAlways, PTL
  <2>2. SafeSpec => [][ServerNext]_serverVars
    BY Implements, PTL DEF ServerSpec
  <2>3. Init => PidStands /\ Silencing
    BY StopInit DEF StopInv
  <2>4. ServerTypeOK /\ RunsInv /\ ThreadInv /\ PidStands /\ Silencing /\ [Next]_vars => Silencing'
    BY SilencingNext DEF StopInv
  <2>5. SafeSpec => []Silencing
    BY <2>1, <2>2, <2>3, <2>4, PidNext, ThreadAlways, PTL DEF SafeSpec
  <2> QED BY <2>1, <2>5, ServingAlways, ThreadAlways, PTL DEF RefineInv
<1>2. RefineInv /\ [Next]_vars => [Service!Next]_(Service!service)
  BY RefineNext
<1> QED BY <1>1, <1>2, MapInit, PTL DEF SafeSpec, Service!SafeSpec

\* What is left of the whole promise is that requests are handled to their end.
THEOREM ServiceImplementedIfLive == SafeSpec /\ RequestCompletes => ImplementsService
<1>1. pc = "rest" => (IF pc = "rest" THEN "rest" ELSE request) = "rest"
  OBVIOUS
<1>2. ~(pc # "rest") <=> pc = "rest"
  OBVIOUS
<1>3. SafeSpec => Service!SafeSpec
  BY ServiceImplemented
<1> QED BY <1>1, <1>2, <1>3, PTL DEF RequestCompletes, ImplementsService, Service!Spec
=============================================================================
