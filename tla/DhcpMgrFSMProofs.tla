--------------------------- MODULE DhcpMgrFSMProofs ---------------------------
(***************************************************************************)
(* The state machine uses the server API as DhcpServerV4 allows, comes to  *)
(* rest in IDLE whatever fails, and publishes its states in order.  No     *)
(* theorem needs fairness: they are about SafeSpec, which Spec implies.    *)
(***************************************************************************)
EXTENDS DhcpMgrFSM, DhcpServerV4Proofs, SequenceTheorems

-----------------------------------------------------------------------------
(* What the state machine holds.                                           *)

\* The options and the interface configurations given to the server API, and
\* the answer they came from.
DataOK == sCmdArgs \in Args /\ ppDhcpCfgs \in IfaceLists /\ lan \subseteq Replies

\* A reply parsed and filled in is one of the lists.
LEMMA ReplyList ==
    ASSUME NEW reply \in Replies,
           NEW mask \in [1..Len(parseDhcpPayloadJson(reply)) -> Masks]
    PROVE  Add_inf_to_dhcp_config(parseDhcpPayloadJson(reply), mask) \in IfaceLists
BY DEF IfaceLists, IfaceListsOf

\* The globals and the LAN are of their types at start-up.
LEMMA DataInit == Init => DataOK
BY DEF Init, DataOK, Args, IfaceLists

\* Every step keeps the globals and the LAN of their types.
LEMMA DataNext == DataOK /\ [Next]_vars => DataOK'
<1> SUFFICES ASSUME DataOK, [Next]_vars PROVE DataOK'
  OBVIOUS
<1> USE DEF DataOK
<1>1. CASE Requested
  BY <1>1 DEF Requested, EventHandler_MainFSM
<1>2. CASE StartConfigure \/ StartPrepared \/ StartStarted \/ StopStop \/ StopStopped
             \/ DispatcherDone
  BY <1>2 DEF StartConfigure, StartPrepared, StartStarted, StopStop, StopStopped,
              DispatcherDone, DispatcherStep
<1>3. CASE PrepareFetch
  <2>1. "none" \in Args /\ NoPayloads \in IfaceLists
    BY DEF Args, IfaceLists
  <2>2. ppDhcpCfgs' \in IfaceLists
    BY <1>3, <2>1, ReplyList DEF PrepareFetch
  <2> QED BY <1>3, <2>1, <2>2 DEF PrepareFetch
<1>4. CASE PrepareInit
  <2>1. \A p : Construct_dhcp_configurationv4(p) \in Args
    BY DEF Construct_dhcp_configurationv4, Args
  <2> QED BY <1>4, <2>1 DEF PrepareInit
<1>5. CASE Startv4s \/ StartReturned \/ Stopv4s \/ StopConfigure \/ StopDnsOnly
             \/ StopChanged \/ StopReturn
  BY <1>5 DEF Startv4s, StartReturned, Stopv4s, StopConfigure, StopDnsOnly, StopChanged,
              StopReturn
<1>6. CASE ServerStep \/ DnsmasqExits
  BY <1>6 DEF ServerStep, DnsmasqExits, fsmVars
<1>7. CASE Crash
  BY <1>7 DEF Crash, Args, IfaceLists
<1>8. CASE UNCHANGED vars
  BY <1>8 DEF vars, fsmVars
<1> QED BY <1>1, <1>2, <1>3, <1>4, <1>5, <1>6, <1>7, <1>8 DEF Next, ThreadStep

-----------------------------------------------------------------------------
(* Refinement.                                                             *)

\* The state machine makes only the calls that DhcpServerV4 describes, so what
\* is proved of the API for every caller holds in the manager.
THEOREM Implements == SafeSpec => ServerSpec
<1>1. Init => ServerInit
  BY DEF Init
<1>2. DataOK /\ [Next]_vars => [ServerNext]_serverVars
  <2> SUFFICES ASSUME DataOK, [Next]_vars PROVE [ServerNext]_serverVars
    OBVIOUS
  <2>1. CASE Requested
    BY <2>1 DEF Requested, EventHandler_MainFSM, ServerNext
  <2>2. CASE StartConfigure \/ StartPrepared \/ StartStarted \/ StopStop \/ StopStopped
               \/ DispatcherDone
    BY <2>2 DEF StartConfigure, StartPrepared, StartStarted, StopStop, StopStopped,
                DispatcherDone, DispatcherStep
  <2>3. CASE PrepareFetch
    BY <2>3 DEF PrepareFetch, ServerNext
  <2>4. CASE PrepareInit
    BY <2>4 DEF PrepareInit, ServerNext, DataOK
  <2>5. CASE Startv4s
    BY <2>5 DEF Startv4s, ServerNext, DataOK
  <2>6. CASE StartReturned \/ StopConfigure \/ StopChanged \/ StopReturn
    BY <2>6 DEF StartReturned, StopConfigure, StopChanged, StopReturn
  <2>7. CASE Stopv4s \/ StopDnsOnly
    BY <2>7 DEF Stopv4s, StopDnsOnly, ServerNext
  <2>8. CASE ServerStep \/ DnsmasqExits \/ Crash
    BY <2>8 DEF ServerStep, DnsmasqExits, Crash, ServerNext
  <2>9. CASE UNCHANGED vars
    BY <2>9 DEF vars
  <2> QED BY <2>1, <2>2, <2>3, <2>4, <2>5, <2>6, <2>7, <2>8, <2>9 DEF Next, ThreadStep
<1> QED BY <1>1, <1>2, DataInit, DataNext, PTL DEF SafeSpec, ServerSpec

\* In the manager: dnsmasq runs the installed configuration between calls, or a
\* failure in Stalers has happened since it was started.
THEOREM ManagerStaleOnlyAfterFault == SafeSpec => []StaleOnlyAfterFault
BY Implements, StaleOnlyAfterFaultAlways, PTL

\* In the manager: dhcpServerStart kills a running dnsmasq only for a new configuration,
\* dhcpServerStop only one that serves a range, each unless a failure has left it stale
\* (or, in dhcpServerStart, a file to compare could not be opened).
THEOREM ManagerKillsForReason == SafeSpec => [](RestartsOnlyForChange /\ StopKillsOnlyServing)
BY Implements, RestartsOnlyForChangeAlways, StopKillsOnlyServingAlways, PTL

\* In the manager: compareFiles is exact on the files it is given.
THEOREM ManagerExactCompare == SafeSpec => []ExactCompare
BY Implements, ExactCompareAlways, PTL

-----------------------------------------------------------------------------
(* Control.  Where the thread stands fixes the state, the frames on the     *)
(* stack, whether an API call is in progress and what has been published:   *)
(* Stopv4s dispatches its two events while its own row is still pending, so *)
(* that mainState is still IDLE when it begins.                             *)

ActionFrame(next, ret, payload) == [next |-> next, ret |-> ret, payload |-> payload]

\* The frame of Stopv4s, of PrepareConfigv4s and of Startv4s, the last two
\* called from event_Dispatcher_startv4 or from Stopv4s.
InStop    == ActionFrame("STOPPINGv4", "stop.stopped", NULL)
InPrepare == IF request = "stop" THEN ActionFrame("PREPARINGv4", "stop.dnsonly", "true")
                                 ELSE ActionFrame("PREPARINGv4", "start.prepared", NULL)
InStart   == IF request = "stop" THEN ActionFrame("STARTINGv4", "stop.return", NULL)
                                 ELSE ActionFrame("STARTINGv4", "start.started", NULL)

\* The calls around the place where the thread stands.
Outer == IF request = "stop" THEN << InStop >> ELSE << >>

\* PrepareConfigv4s has returned, with success or because malloc failed.
Prepared ==
    \/ mainState = "PREPARINGv4" /\ call = "ready"
    \/ mainState = "IDLE" /\ call = "none" /\ "alloc" \in failed

Stands(labels, state, frames, calls) ==
    pc \in labels => mainState = state /\ stack = frames /\ call \in calls

Control ==
    /\ pc \in Labels
    /\ request \in {NULL, "start", "stop"}
    /\ Stands({"rest", "start", "stop", "done"}, "IDLE", << >>, {"none"})
    /\ Stands({"PrepareConfigv4s", "prepare.init"}, "IDLE", << InPrepare >> \o Outer, {"none"})
    /\ pc = "start.prepared" => Prepared /\ stack = << >>
    /\ Stands({"Startv4s"}, "PREPARINGv4", << InStart >> \o Outer, {"ready"})
    /\ Stands({"start.returned"}, "PREPARINGv4", << InStart >> \o Outer, StartSteps \cup {"none"})
    /\ Stands({"start.started"}, "STARTINGv4", << >>, {"none"})
    /\ Stands({"Stopv4s"}, "IDLE", << InStop >>, {"none"})
    /\ Stands({"stop.configure"}, "IDLE", << InStop >>, StopSteps \cup {"none"})
    /\ pc \in {"stop.dnsonly", "stop.changed"} => Prepared /\ stack = << InStop >>
    /\ pc = "stop.return" => /\ mainState \in {"IDLE", "STARTINGv4"}
                             /\ stack = << InStop >> /\ call = "none"
    /\ Stands({"stop.stopped"}, "STOPPINGv4", << >>, {"none"})

\* Which dispatcher is running, and what it has published.
Reported ==
    /\ pc \in {"start", "start.prepared", "start.started"} => request = "start"
    /\ pc \in {"stop", "Stopv4s", "stop.configure", "stop.dnsonly", "stop.changed",
               "stop.return", "stop.stopped"} => request = "stop"
    /\ pc \notin {"rest", "done"} => request \in {"start", "stop"}
    /\ pc \in {"start", "stop", "start.prepared", "PrepareConfigv4s", "prepare.init",
               "Stopv4s", "stop.configure", "stop.dnsonly", "stop.changed",
               "stop.return", "stop.stopped"} => published = << >>
    /\ pc \in {"Startv4s", "start.returned", "start.started"}
       => published = IF request = "start" THEN << "PREPARINGv4" >> ELSE << >>
    /\ pc = "done" => \/ request = "start" /\ published = << "PREPARINGv4", "STARTINGv4" >>
                      \/ request = "stop" /\ published = << "STOPPINGv4" >>
    /\ PublishedSequence

ThreadInv == Control /\ Reported

\* No two rows share a state and an event.
LEMMA RowsUnique ==
    ASSUME NEW r1 \in gSM_StateObj, NEW r2 \in gSM_StateObj,
           r1.curState = r2.curState, r1.event = r2.event
    PROVE  r1 = r2
BY DEF gSM_StateObj, Row

\* DispatchDHCP_SM does what the row for the event says.
LEMMA DispatchRow ==
    ASSUME NEW event, NEW payload, NEW ret, DispatchDHCP_SM(event, payload, ret),
           NEW row \in gSM_StateObj, row.curState = mainState, row.event = event
    PROVE  /\ row.action = NULL => pc' = ret /\ mainState' = row.nextState /\ stack' = stack
           /\ row.action # NULL
              => /\ pc' = row.action /\ mainState' = mainState
                 /\ stack' = << ActionFrame(row.nextState, ret, payload) >> \o stack
<1>1. \A r \in gSM_StateObj : r.curState = mainState /\ r.event = event => r = row
  BY RowsUnique
<1>2. {r \in gSM_StateObj : r.curState = mainState /\ r.event = event} = {row}
  BY <1>1
<1> QED BY <1>2 DEF DispatchDHCP_SM, ActionFrame

\* What DispatchDHCP_SM does with each event in the states it is dispatched in.
LEMMA Dispatches ==
    ASSUME NEW event, NEW payload, NEW ret, DispatchDHCP_SM(event, payload, ret)
    PROVE  /\ event = "CONFIGUREv4" /\ mainState = "IDLE"
              => /\ pc' = "PrepareConfigv4s" /\ mainState' = mainState
                 /\ stack' = << ActionFrame("PREPARINGv4", ret, payload) >> \o stack
           /\ event = "CONFIG_CHANGEDv4" /\ mainState = "PREPARINGv4"
              => /\ pc' = "Startv4s" /\ mainState' = mainState
                 /\ stack' = << ActionFrame("STARTINGv4", ret, payload) >> \o stack
           /\ event = "CONFIG_CHANGEDv4" /\ mainState = "IDLE"
              => pc' = ret /\ mainState' = mainState /\ stack' = stack
           /\ event = "STARTEDv4" /\ mainState = "STARTINGv4"
              => pc' = ret /\ mainState' = "IDLE" /\ stack' = stack
           /\ event = "STOPv4" /\ mainState = "IDLE"
              => /\ pc' = "Stopv4s" /\ mainState' = mainState
                 /\ stack' = << ActionFrame("STOPPINGv4", ret, payload) >> \o stack
           /\ event = "STOPPEDv4" /\ mainState = "STOPPINGv4"
              => pc' = ret /\ mainState' = "IDLE" /\ stack' = stack
<1>1. ASSUME NEW s, NEW n, NEW a, Row(s, event, n, a) \in gSM_StateObj, mainState = s
      PROVE  /\ a = NULL => pc' = ret /\ mainState' = n /\ stack' = stack
             /\ a # NULL => /\ pc' = a /\ mainState' = mainState
                            /\ stack' = << ActionFrame(n, ret, payload) >> \o stack
  <2>1. /\ Row(s, event, n, a).curState = s /\ Row(s, event, n, a).event = event
        /\ Row(s, event, n, a).nextState = n /\ Row(s, event, n, a).action = a
    BY DEF Row
  <2> DEFINE row == Row(s, event, n, a)
  <2> HIDE DEF row
  <2>2. row \in gSM_StateObj /\ row.curState = mainState /\ row.event = event
        /\ row.nextState = n /\ row.action = a
    BY <1>1, <2>1 DEF row
  <2> QED BY <2>2, DispatchRow
<1>2. NULL \notin {"PrepareConfigv4s", "Startv4s", "Stopv4s"}
  BY DEF NULL
<1>4. event = "CONFIGUREv4" /\ mainState = "IDLE"
      => Row("IDLE", event, "PREPARINGv4", "PrepareConfigv4s") \in gSM_StateObj
  BY DEF gSM_StateObj
<1>5. event = "CONFIG_CHANGEDv4" /\ mainState = "PREPARINGv4"
      => Row("PREPARINGv4", event, "STARTINGv4", "Startv4s") \in gSM_StateObj
  BY DEF gSM_StateObj
<1>6. CASE event = "CONFIG_CHANGEDv4" /\ mainState = "IDLE"
  <2>1. {r \in gSM_StateObj : r.curState = mainState /\ r.event = event} = {}
    BY <1>6 DEF gSM_StateObj, Row
  <2> QED BY <1>6, <2>1 DEF DispatchDHCP_SM
<1>7. event = "STARTEDv4" /\ mainState = "STARTINGv4"
      => Row("STARTINGv4", event, "IDLE", NULL) \in gSM_StateObj
  BY DEF gSM_StateObj
<1>8. event = "STOPv4" /\ mainState = "IDLE"
      => Row("IDLE", event, "STOPPINGv4", "Stopv4s") \in gSM_StateObj
  BY DEF gSM_StateObj
<1>9. event = "STOPPEDv4" /\ mainState = "STOPPINGv4"
      => Row("STOPPINGv4", event, "IDLE", NULL) \in gSM_StateObj
  BY DEF gSM_StateObj
<1> QED BY <1>1, <1>2, <1>4, <1>5, <1>6, <1>7, <1>8, <1>9

\* A frame pushed is the one an action returns through.
LEMMA PushPop ==
    ASSUME NEW S, NEW s \in Seq(S), NEW frame \in S
    PROVE  Head(<< frame >> \o s) = frame /\ Tail(<< frame >> \o s) = s
OBVIOUS

\* Steps of the API calls stay in their call, or return; failures are recorded.
LEMMA CallSteps ==
    /\ CallStep => /\ call \in StartSteps => call' \in StartSteps \cup {"none"}
                   /\ call \in StopSteps => call' \in StopSteps \cup {"none"}
                   /\ call \in StartSteps \cup StopSteps
                   /\ failed \subseteq failed'
<1> USE DEF StartSteps, StopSteps, Goto, Return, Fault, Record, NoFault, history, KillAll, Exec,
            extractPid
<1>1. StartPid \/ StartCompare \/ StartCopy \/ StartWrite \/ StartRemove
        => call' \in StartSteps \cup {"none"} /\ call \in StartSteps /\ failed \subseteq failed'
  BY DEF StartPid, StartCompare, StartCopy, StartWrite, StartRemove
<1>2. StartKill \/ StartExec
        => call' \in StartSteps \cup {"none"} /\ call \in StartSteps /\ failed \subseteq failed'
  BY DEF StartKill, StartExec
<1>3. StopStep => call' \in StopSteps \cup {"none"} /\ call \in StopSteps /\ failed \subseteq failed'
  BY DEF StopStep, StopScan, StopKill, StopRemove, StopExec
<1> QED BY <1>1, <1>2, <1>3 DEF CallStep, StartStep

\* At start-up the thread rests in IDLE.
LEMMA ThreadInit == Init => ThreadInv
BY DEF Init, ServerInit, ThreadInv, Control, Reported, Stands, PublishedSequence, Labels, NULL

\* The frames are frames, and what an action returns through them.
LEMMA Frames ==
    /\ InStop \in Frame /\ InPrepare \in Frame /\ InStart \in Frame /\ Outer \in Seq(Frame)
    /\ << InStop >> \o << >> = << InStop >>
    /\ Head(<< InStop >>) = InStop /\ Tail(<< InStop >>) = << >>
    /\ Head(<< InPrepare >> \o Outer) = InPrepare /\ Tail(<< InPrepare >> \o Outer) = Outer
    /\ Head(<< InStart >> \o Outer) = InStart /\ Tail(<< InStart >> \o Outer) = Outer
    /\ InStop.next = "STOPPINGv4" /\ InStop.ret = "stop.stopped"
    /\ InPrepare.next = "PREPARINGv4" /\ InStart.next = "STARTINGv4"
    /\ InPrepare.ret = IF request = "stop" THEN "stop.dnsonly" ELSE "start.prepared"
    /\ InStart.ret = IF request = "stop" THEN "stop.return" ELSE "start.started"
<1>1. InStop \in Frame /\ InPrepare \in Frame /\ InStart \in Frame
  BY DEF InStop, InPrepare, InStart, ActionFrame, Frame, States, Labels
<1>2. Outer \in Seq(Frame)
  <2>1. << InStop >> \in Seq(Frame) /\ << >> \in Seq(Frame)
    BY <1>1, OneElement, NoElements
  <2> QED BY <2>1 DEF Outer
<1>3. /\ Head(<< InPrepare >> \o Outer) = InPrepare /\ Tail(<< InPrepare >> \o Outer) = Outer
      /\ Head(<< InStart >> \o Outer) = InStart /\ Tail(<< InStart >> \o Outer) = Outer
  BY <1>1, <1>2, PushPop
<1>4. << InStop >> \o << >> = << InStop >>
      /\ Head(<< InStop >>) = InStop /\ Tail(<< InStop >>) = << >>
  OBVIOUS
<1>5. /\ InStop.next = "STOPPINGv4" /\ InStop.ret = "stop.stopped"
      /\ InPrepare.next = "PREPARINGv4" /\ InStart.next = "STARTINGv4"
      /\ InPrepare.ret = IF request = "stop" THEN "stop.dnsonly" ELSE "start.prepared"
      /\ InStart.ret = IF request = "stop" THEN "stop.return" ELSE "start.started"
  BY DEF InStop, InPrepare, InStart, ActionFrame
<1> QED BY <1>1, <1>2, <1>3, <1>4, <1>5

\* Publishing after one state, and after two.
LEMMA SecondPublished ==
    ASSUME NEW S, NEW a \in S, NEW b \in S
    PROVE  Append(<< a >>, b) = << a, b >>
<1> DEFINE s == << a >>
           t == << a, b >>
<1>1. s \in Seq(S) /\ Len(s) = 1 /\ s[1] = a
  OBVIOUS
<1>2. t \in Seq(S) /\ Len(t) = 2 /\ t[1] = a /\ t[2] = b
  OBVIOUS
<1> HIDE DEF s, t
<1>3. Append(s, b) \in Seq(S) /\ Len(Append(s, b)) = Len(s) + 1
      /\ Append(s, b)[Len(s) + 1] = b
  BY <1>1, AppendProperties
<1>7. \A i \in 1..Len(s) : Append(s, b)[i] = s[i]
  BY <1>1, AppendProperties
<1>4. Len(s) + 1 = 2
  BY <1>1
<1>5. \A i \in 1..2 : Append(s, b)[i] = t[i]
  BY <1>1, <1>2, <1>3, <1>4, <1>7
<1>6. Append(s, b) = t
  BY <1>2, <1>3, <1>4, <1>5, SameElements
<1> QED BY <1>6 DEF s, t

\* The third state that a request publishes.
LEMMA ThirdPublished ==
    ASSUME NEW S, NEW a \in S, NEW b \in S, NEW c \in S
    PROVE  Append(<< a, b >>, c) = << a, b, c >>
<1> DEFINE s == << a, b >>
           t == << a, b, c >>
<1>1. s \in Seq(S) /\ Len(s) = 2 /\ s[1] = a /\ s[2] = b
  OBVIOUS
<1>2. t \in Seq(S) /\ Len(t) = 3 /\ t[1] = a /\ t[2] = b /\ t[3] = c
  OBVIOUS
<1> HIDE DEF s, t
<1>3. Append(s, c) \in Seq(S) /\ Len(Append(s, c)) = Len(s) + 1
      /\ Append(s, c)[Len(s) + 1] = c
  BY <1>1, AppendProperties
<1>7. \A i \in 1..Len(s) : Append(s, c)[i] = s[i]
  <2>1. s \in Seq(S)
    BY <1>1
  <2> QED BY <2>1, AppendProperties
<1>4. Len(s) + 1 = 3
  BY <1>1
<1>5. \A i \in 1..3 : Append(s, c)[i] = t[i]
  <2>1. Append(s, c)[1] = a /\ Append(s, c)[2] = b /\ Append(s, c)[3] = c
    BY <1>1, <1>3, <1>4, <1>7
  <2>2. \A i \in 1..3 : i = 1 \/ i = 2 \/ i = 3
    OBVIOUS
  <2> QED BY <1>2, <2>1, <2>2
<1>6. Append(s, c) = t
  BY <1>2, <1>3, <1>4, <1>5, SameElements
<1> QED BY <1>6 DEF s, t

\* Every step leaves the thread where the table and its callers let it stand.
LEMMA ThreadNext == ThreadInv /\ [Next]_vars => ThreadInv'
<1> SUFFICES ASSUME ThreadInv, [Next]_vars PROVE ThreadInv'
  OBVIOUS
<1> USE DEF ThreadInv, Control, Reported, Stands, Prepared, PublishedSequence, Labels
<1>0. /\ request' = request => InPrepare' = InPrepare /\ InStart' = InStart /\ Outer' = Outer
      /\ InStop' = InStop
  BY DEF InPrepare, InStart, Outer, InStop, ActionFrame
<1>n. NULL \notin {"start", "stop"}
  BY DEF NULL
<1>1. CASE Requested
  BY <1>1, <1>n DEF Requested, EventHandler_MainFSM, Request
<1>2. CASE StartConfigure
  <2>1. /\ pc' = "PrepareConfigv4s" /\ mainState' = mainState /\ request = "start"
        /\ stack' = << ActionFrame("PREPARINGv4", "start.prepared", NULL) >> \o << >>
    BY <1>2, Dispatches DEF StartConfigure, DispatcherStep
  <2>2. stack' = << InPrepare >> \o Outer
    BY <2>1 DEF InPrepare, Outer
  <2> QED BY <1>2, <1>0, <2>1, <2>2 DEF StartConfigure, DispatcherStep, serverVars
<1>3. CASE StartPrepared
  <2>1. CASE mainState = "PREPARINGv4"
    <3>1. /\ pc' = "Startv4s" /\ mainState' = mainState /\ request = "start"
          /\ stack' = << ActionFrame("STARTINGv4", "start.started", NULL) >> \o << >>
      BY <1>3, <2>1, Dispatches DEF StartPrepared, DispatcherStep
    <3>2. stack' = << InStart >> \o Outer
      BY <3>1 DEF InStart, Outer
    <3>3. published' = << "PREPARINGv4" >>
      BY <1>3, <2>1 DEF StartPrepared, DispatcherStep, Publish
    <3> QED BY <1>3, <1>0, <2>1, <3>1, <3>2, <3>3 DEF StartPrepared, DispatcherStep, serverVars
  <2>2. CASE mainState # "PREPARINGv4"
    BY <1>3, <2>2 DEF StartPrepared, DispatcherStep, DispatcherReturns, serverVars
  <2> QED BY <2>1, <2>2
<1>4. CASE StartStarted
  <2>1. pc' = "done" /\ mainState' = "IDLE" /\ stack' = << >> /\ request = "start"
    BY <1>4, Dispatches DEF StartStarted, DispatcherStep
  <2>2. published' = << "PREPARINGv4", "STARTINGv4" >>
    <3>1. published = << "PREPARINGv4" >>
      BY <1>4, <2>1 DEF StartStarted, DispatcherStep
    <3>2. published' = Append(published, "STARTINGv4")
      BY <1>4 DEF StartStarted, DispatcherStep, Publish
    <3>3. "PREPARINGv4" \in States /\ "STARTINGv4" \in States
      BY DEF States
    <3> QED BY <3>1, <3>2, <3>3, SecondPublished
  <2> QED BY <1>4, <2>1, <2>2 DEF StartStarted, DispatcherStep, serverVars
<1>5. CASE StopStop
  <2>1. /\ pc' = "Stopv4s" /\ mainState' = mainState /\ request = "stop"
        /\ stack' = << ActionFrame("STOPPINGv4", "stop.stopped", NULL) >> \o << >>
    BY <1>5, Dispatches DEF StopStop, DispatcherStep
  <2>2. stack' = << InStop >>
    BY <2>1, Frames DEF InStop
  <2> QED BY <1>5, <1>0, <2>1, <2>2 DEF StopStop, DispatcherStep, serverVars
<1>6. CASE StopStopped
  <2>1. pc' = "done" /\ mainState' = "IDLE" /\ stack' = << >> /\ request = "stop"
    BY <1>6, Dispatches DEF StopStopped, DispatcherStep
  <2>2. published' = << "STOPPINGv4" >>
    BY <1>6 DEF StopStopped, DispatcherStep, Publish
  <2> QED BY <1>6, <2>1, <2>2 DEF StopStopped, DispatcherStep, serverVars
<1>7. CASE DispatcherDone
  <2>1. published' = Append(published, "IDLE") /\ pc' = "rest"
    BY <1>7 DEF DispatcherDone, DispatcherStep, DispatcherReturns, Publish
  <2>2. \/ request = "start" /\ published' = << "PREPARINGv4", "STARTINGv4", "IDLE" >>
        \/ request = "stop" /\ published' = << "STOPPINGv4", "IDLE" >>
    <3>1. \/ request = "start" /\ published = << "PREPARINGv4", "STARTINGv4" >>
          \/ request = "stop" /\ published = << "STOPPINGv4" >>
      BY <1>7 DEF DispatcherDone, DispatcherStep
    <3>4. /\ "PREPARINGv4" \in States /\ "STARTINGv4" \in States
          /\ "STOPPINGv4" \in States /\ "IDLE" \in States
      BY DEF States
    <3>2. CASE published = << "PREPARINGv4", "STARTINGv4" >> /\ request = "start"
      BY <2>1, <3>2, <3>4, ThirdPublished
    <3>3. CASE published = << "STOPPINGv4" >> /\ request = "stop"
      BY <2>1, <3>3, <3>4, SecondPublished
    <3> QED BY <3>1, <3>2, <3>3
  <2> QED BY <1>7, <2>1, <2>2 DEF DispatcherDone, DispatcherStep, DispatcherReturns, serverVars
<1>8. CASE PrepareFetch
  <2>1. call' = call
    BY <1>8 DEF PrepareFetch, serverVars, CallerFails
  <2> QED BY <1>8, <1>0, <2>1 DEF PrepareFetch
<1>9. CASE PrepareInit
  <2>1. stack = << InPrepare >> \o Outer /\ mainState = "IDLE" /\ call = "none"
    BY <1>9 DEF PrepareInit
  <2>2. /\ pc' = IF request = "stop" THEN "stop.dnsonly" ELSE "start.prepared"
        /\ stack' = Outer
    BY <1>9, <2>1, Frames DEF PrepareInit, ActionReturns
  <2>3. stack' = IF request = "stop" THEN << InStop >> ELSE << >>
    BY <2>2 DEF Outer
  <2>4. Prepared'
    <3>1. CASE dhcpServerInit(ppDhcpCfgs) /\ ActionReturns(0)
      BY <3>1, <2>1, Frames DEF dhcpServerInit, Goto, ActionReturns
    <3>2. CASE CallerFails("alloc") /\ ActionReturns(-1)
      BY <3>2, <2>1 DEF CallerFails, Fault, Record, ActionReturns
    <3> QED BY <1>9, <3>1, <3>2 DEF PrepareInit
  <2> QED BY <1>9, <1>0, <2>2, <2>3, <2>4 DEF PrepareInit
<1>10. CASE Startv4s
  BY <1>10, <1>0 DEF Startv4s, dhcpServerStart, Goto, StartSteps
<1>11. CASE StartReturned
  <2>1. stack = << InStart >> \o Outer
    BY <1>11 DEF StartReturned
  <2>2. /\ pc' = IF request = "stop" THEN "stop.return" ELSE "start.started"
        /\ stack' = Outer /\ mainState' = "STARTINGv4"
    BY <1>11, <2>1, Frames DEF StartReturned, ActionReturns
  <2>3. stack' = IF request = "stop" THEN << InStop >> ELSE << >>
    BY <2>2 DEF Outer
  <2> QED BY <1>11, <1>0, <2>2, <2>3 DEF StartReturned, serverVars
<1>12. CASE Stopv4s
  BY <1>12, <1>0 DEF Stopv4s, dhcpServerStop, Goto, Return, StopSteps
<1>13. CASE StopConfigure
  <2>1. /\ pc' = "PrepareConfigv4s" /\ mainState' = mainState /\ request = "stop"
        /\ stack' = << ActionFrame("PREPARINGv4", "stop.dnsonly", "true") >> \o << InStop >>
    BY <1>13, Dispatches DEF StopConfigure
  <2>2. stack' = << InPrepare >> \o Outer
    BY <2>1 DEF InPrepare, Outer
  <2> QED BY <1>13, <1>0, <2>1, <2>2 DEF StopConfigure, serverVars
<1>14. CASE StopDnsOnly
  <2>1. call' = call /\ failed \subseteq failed'
    BY <1>14 DEF StopDnsOnly, DnsOnlyRewrite, Fault, Record, NoFault, history
  <2> QED BY <1>14, <1>0, <2>1 DEF StopDnsOnly
<1>15. CASE StopChanged
  <2>1. request = "stop" /\ stack = << InStop >>
    BY <1>15 DEF StopChanged
  <2>2. CASE mainState = "PREPARINGv4"
    <3>1. /\ pc' = "Startv4s" /\ mainState' = mainState
          /\ stack' = << ActionFrame("STARTINGv4", "stop.return", NULL) >> \o << InStop >>
      BY <1>15, <2>1, <2>2, Dispatches DEF StopChanged
    <3>2. stack' = << InStart >> \o Outer
      BY <2>1, <3>1 DEF InStart, Outer
    <3> QED BY <1>15, <1>0, <2>1, <2>2, <3>1, <3>2, <1>n DEF StopChanged, serverVars
  <2>3. CASE mainState = "IDLE"
    <3>1. pc' = "stop.return" /\ mainState' = mainState /\ stack' = stack
      BY <1>15, <2>3, Dispatches DEF StopChanged
    <3> QED BY <1>15, <1>0, <2>1, <2>3, <3>1 DEF StopChanged, serverVars
  <2> QED BY <1>15, <2>2, <2>3 DEF StopChanged
<1>16. CASE StopReturn
  <2>1. pc' = "stop.stopped" /\ stack' = << >> /\ mainState' = "STOPPINGv4"
    BY <1>16, Frames DEF StopReturn, ActionReturns
  <2> QED BY <1>16, <2>1 DEF StopReturn, serverVars
<1>17. CASE ServerStep
  <2>1. pc \in {"start.returned", "stop.configure"}
    BY <1>17, CallSteps DEF ServerStep, StartSteps, StopSteps
  <2>2. /\ call \in StartSteps => call' \in StartSteps \cup {"none"}
        /\ call \in StopSteps => call' \in StopSteps \cup {"none"}
        /\ call \in StartSteps \cup StopSteps
    BY <1>17, CallSteps DEF ServerStep
  <2>3. "none" \notin StartSteps \cup StopSteps
    BY DEF StartSteps, StopSteps
  <2> QED BY <1>17, <1>0, <2>1, <2>2, <2>3 DEF ServerStep, fsmVars
<1>18. CASE DnsmasqExits
  BY <1>18, <1>0 DEF DnsmasqExits, DnsmasqDies, Fault, Record, fsmVars
<1>19. CASE Crash
  BY <1>19, <1>n DEF Crash, ServerCrash, Return
<1>20. CASE UNCHANGED vars
  BY <1>20, <1>0 DEF vars, fsmVars, serverVars
<1> QED BY <1>1, <1>2, <1>3, <1>4, <1>5, <1>6, <1>7, <1>8, <1>9, <1>10, <1>11, <1>12, <1>13,
           <1>14, <1>15, <1>16, <1>17, <1>18, <1>19, <1>20 DEF Next, ThreadStep

\* Where the thread stands determines the state, the stack and what was published.
LEMMA ThreadAlways == SafeSpec => []ThreadInv
BY ThreadInit, ThreadNext, PTL DEF SafeSpec

\* Whatever fails, a handled request leaves the state machine in IDLE with no
\* call pending, ready for the next one.
THEOREM RestIsIdleAlways == SafeSpec => []RestIsIdle
<1>1. ThreadInv => RestIsIdle
  BY DEF ThreadInv, Control, Stands, RestIsIdle
<1> QED BY <1>1, ThreadAlways, PTL

\* Whatever fails, a request publishes the whole sequence of its states, or, when
\* malloc failed in a start, none of them.
THEOREM PublishedSequenceAlways == SafeSpec => []PublishedSequence
<1>1. ThreadInv => PublishedSequence
  BY DEF ThreadInv, Reported
<1> QED BY <1>1, ThreadAlways, PTL

\* The stack is that of at most two nested actions.
LEMMA StackType ==
    ASSUME Control
    PROVE  stack \in Seq(Frame) /\ Len(stack) <= 2
<1>1. /\ << >> \in Seq(Frame) /\ Len(<< >>) <= 2
      /\ << InStop >> \in Seq(Frame) /\ Len(<< InStop >>) <= 2
  BY Frames, NoElements, OneElement
<1>2. Outer \in Seq(Frame) /\ Len(Outer) <= 1
  BY Frames DEF Outer
<1>3. ASSUME NEW f \in Frame
      PROVE  << f >> \o Outer \in Seq(Frame) /\ Len(<< f >> \o Outer) <= 2
  BY <1>2
<1>4. /\ << InPrepare >> \o Outer \in Seq(Frame) /\ Len(<< InPrepare >> \o Outer) <= 2
      /\ << InStart >> \o Outer \in Seq(Frame) /\ Len(<< InStart >> \o Outer) <= 2
  BY <1>3, Frames
<1> QED BY <1>1, <1>4 DEF Control, Stands, Labels

\* The manager's state is typed.
THEOREM TypeCorrect == SafeSpec => []TypeOK
<1>1. ServerTypeOK /\ DataOK /\ ThreadInv => TypeOK
  <2> SUFFICES ASSUME ServerTypeOK, DataOK, ThreadInv PROVE TypeOK
    OBVIOUS
  <2>1. mainState \in States
    BY DEF ThreadInv, Control, Stands, Prepared, Labels, States
  <2>2. published \in Seq(States) /\ Len(published) <= 3
    <3>1. \/ published \in {<< >>, << "PREPARINGv4" >>, << "STOPPINGv4" >>}
          \/ published \in {<< "PREPARINGv4", "STARTINGv4" >>, << "STOPPINGv4", "IDLE" >>}
          \/ published = << "PREPARINGv4", "STARTINGv4", "IDLE" >>
      BY DEF ThreadInv, Reported, PublishedSequence, Control, Labels
    <3>2. \A a, b, c \in States : /\ << >> \in Seq(States) /\ Len(<< >>) <= 3
                                  /\ << a >> \in Seq(States) /\ Len(<< a >>) <= 3
                                  /\ << a, b >> \in Seq(States) /\ Len(<< a, b >>) <= 3
                                  /\ << a, b, c >> \in Seq(States) /\ Len(<< a, b, c >>) <= 3
      OBVIOUS
    <3>3. /\ "PREPARINGv4" \in States /\ "STARTINGv4" \in States
          /\ "STOPPINGv4" \in States /\ "IDLE" \in States
      BY DEF States
    <3> QED BY <3>1, <3>2, <3>3
  <2>3. stack \in Seq(Frame) /\ Len(stack) <= 2
    BY StackType DEF ThreadInv
  <2> QED BY <2>1, <2>2, <2>3 DEF TypeOK, DataOK, ThreadInv, Control
<1>2. SafeSpec => []ServerTypeOK
  BY Implements, ServerTypeCorrect, PTL
<1>3. SafeSpec => []DataOK
  BY DataInit, DataNext, PTL DEF SafeSpec
<1> QED BY <1>1, <1>2, <1>3, ThreadAlways, PTL

-----------------------------------------------------------------------------
(* A stop that nothing disturbs.  Its two API calls meet only in the local   *)
(* file: what dns_only leaves there is silent and as long as the installed   *)
(* file, so that compareFiles is exact on the two, and either the installed  *)
(* file is silent already and dnsmasq runs it, or it is replaced.            *)

Silent(f) == ActiveRanges(f) = {}

\* The local file is dns_only's rewriting of the installed one.
Rewritten == conf.there /\ local.there /\ Silent(local.lines)
             /\ Len(local.lines) = Len(conf.lines)

\* Without a failure, what extractPid found is still so.
PidStands ==
    failed = {} =>
        /\ call \in {"compare", "copy", "write", "remove"} => pid = dnsmasq.up
        /\ call = "kill" => dnsmasq.up
        /\ call = "exec" => ~dnsmasq.up

\* How far the stop has come.
Silencing ==
    failed = {} /\ request = "stop" =>
        /\ pc \in {"stop.changed", "Startv4s"} => Rewritten
        /\ pc = "start.returned" =>
             /\ call \in {"pid", "compare", "copy"} => Rewritten
             /\ call = "write" => local.there /\ Silent(local.lines)
             /\ call \in {"remove", "kill", "exec"} => Silent(conf.lines)
        /\ \/ pc \in {"stop.return", "stop.stopped", "done", "rest"}
           \/ pc = "start.returned" /\ call = "none"
           => dnsmasq.up /\ (Silent(dnsmasq.lines) \/ faulted \cap Stalers # {})

StopInv == PidStands /\ Silencing

\* No stop is in progress at start-up.
LEMMA StopInit == Init => StopInv
BY DEF Init, ServerInit, StopInv, PidStands, Silencing, NULL

\* Unless something fails, extractPid's answer stands until the call is over.
LEMMA PidNext == PidStands /\ [ServerNext]_serverVars => PidStands'
<1> SUFFICES ASSUME PidStands, [ServerNext]_serverVars PROVE PidStands'
  OBVIOUS
<1> USE DEF PidStands, Goto, Return, files, history, Fault, Record, NoFault
<1>1. CASE \/ \E ifs \in IfaceLists : dhcpServerInit(ifs)
           \/ DnsOnlyRewrite
           \/ \E options \in Args : dhcpServerStart(options)
  BY <1>1 DEF dhcpServerInit, DnsOnlyRewrite, dhcpServerStart
<1>2. CASE dhcpServerStop
  BY <1>2 DEF dhcpServerStop
<1>3. CASE StartPid \/ StartCompare
  BY <1>3 DEF StartPid, StartCompare, extractPid
<1>4. CASE StartCopy \/ StartWrite \/ StartRemove
  BY <1>4 DEF StartCopy, StartWrite, StartRemove
<1>5. CASE StartKill \/ StartExec
  BY <1>5 DEF StartKill, StartExec, KillAll, Exec, NoProcess
<1>6. CASE StopStep
  BY <1>6 DEF StopStep, StopScan, StopKill, StopRemove, StopExec, KillAll, Exec
<1>7. CASE DnsmasqDies \/ ServerCrash \/ \E f \in {"get", "alloc"} : CallerFails(f)
  BY <1>7 DEF DnsmasqDies, ServerCrash, CallerFails
<1>8. CASE Request
  BY <1>8 DEF Request
<1>9. CASE UNCHANGED serverVars
  BY <1>9 DEF serverVars
<1> QED BY <1>1, <1>2, <1>3, <1>4, <1>5, <1>6, <1>7, <1>8, <1>9
        DEF ServerNext, CallStep, StartStep

\* dns_only's rewriting of an installed file that is there.
LEMMA RewriteIsSilent ==
    ASSUME ServerTypeOK, conf.there, local' = File(dns_only(conf.lines)), conf' = conf
    PROVE  Rewritten'
<1>1. conf.lines \in Seq(Line)
  BY DEF ServerTypeOK, FileType
<1>2. local'.there /\ local'.lines = dns_only(conf.lines)
  BY DEF File
<1> QED BY <1>1, <1>2, DnsOnlySilences, DnsOnlyLines DEF Rewritten, Silent

\* During a stop without failures every step leaves silent what is to be started, or
\* what runs.
LEMMA SilencingNext ==
    ServerTypeOK /\ RunsInv /\ ThreadInv /\ StopInv /\ [Next]_vars => Silencing'
<1> SUFFICES ASSUME ServerTypeOK, RunsInv, ThreadInv, StopInv, [Next]_vars PROVE Silencing'
  OBVIOUS
<1> USE DEF Silencing, StopInv
<1>0. conf' = conf /\ local' = local => (Rewritten' <=> Rewritten)
  BY DEF Rewritten, Silent, ActiveRanges, StartsRange
<1>s. \A f : Silent(f)' <=> Silent(f)
  BY DEF Silent, ActiveRanges, StartsRange
<1>1. CASE Requested
  BY <1>1 DEF Requested, EventHandler_MainFSM
<1>2. CASE StartConfigure \/ StartPrepared \/ StartStarted
  <2>1. request = "start" /\ request' = request
    BY <1>2 DEF ThreadInv, Reported, StartConfigure, StartPrepared, StartStarted, DispatcherStep
  <2> QED BY <2>1
<1>3. CASE StopStop
  <2>1. pc' = "Stopv4s"
    BY <1>3, Dispatches DEF StopStop, DispatcherStep, ThreadInv, Control, Stands
  <2> QED BY <2>1
<1>4. CASE StopStopped \/ DispatcherDone
  <2>1. pc \in {"stop.stopped", "done"} /\ pc' \in {"done", "rest"} /\ UNCHANGED << serverVars, request >>
    <3>1. CASE StopStopped
      BY <3>1, Dispatches DEF StopStopped, DispatcherStep, ThreadInv, Control, Stands
    <3>2. CASE DispatcherDone
      BY <3>2 DEF DispatcherDone, DispatcherStep, DispatcherReturns
    <3> QED BY <1>4, <3>1, <3>2
  <2> QED BY <2>1, <1>s DEF serverVars
<1>5. CASE PrepareFetch
  BY <1>5 DEF PrepareFetch
<1>6. CASE PrepareInit
  <2>1. pc' \in {"stop.dnsonly", "start.prepared"}
    BY <1>6, Frames DEF PrepareInit, ThreadInv, Control, Stands, ActionReturns
  <2> QED BY <2>1
<1>7. CASE Startv4s
  <2>1. call' = "pid" /\ pc' = "start.returned"
        /\ UNCHANGED << conf, local, failed, request >>
    BY <1>7 DEF Startv4s, dhcpServerStart, Goto, files, history
  <2> QED BY <1>7, <1>0, <2>1 DEF Startv4s
<1>8. CASE StartReturned
  <2>1. pc' \in {"start.started", "stop.return"} /\ UNCHANGED << serverVars, request >>
    BY <1>8, Frames DEF StartReturned, ThreadInv, Control, Stands, ActionReturns
  <2> QED BY <1>8, <1>s, <2>1 DEF StartReturned, serverVars
<1>9. CASE Stopv4s
  BY <1>9 DEF Stopv4s
<1>10. CASE StopConfigure
  <2>1. pc' = "PrepareConfigv4s"
    BY <1>10, Dispatches DEF StopConfigure, ThreadInv, Control, Stands
  <2> QED BY <2>1
<1>11. CASE StopDnsOnly
  <2>1. pc' = "stop.changed" /\ UNCHANGED conf
    BY <1>11 DEF StopDnsOnly, DnsOnlyRewrite
  <2>2. failed' = {} => conf.there /\ local' = File(dns_only(conf.lines))
    BY <1>11 DEF StopDnsOnly, DnsOnlyRewrite, Fault, Record
  <2> QED BY <2>1, <2>2, RewriteIsSilent
<1>12. CASE StopChanged
  <2>1. CASE mainState = "PREPARINGv4"
    <3>1. pc' = "Startv4s" /\ UNCHANGED << serverVars, request >>
      BY <1>12, <2>1, Dispatches DEF StopChanged
    <3> QED BY <1>12, <1>0, <3>1 DEF StopChanged, serverVars
  <2>2. CASE mainState = "IDLE"
    <3>1. "alloc" \in failed /\ failed' = failed
      BY <1>12, <2>2 DEF StopChanged, serverVars, ThreadInv, Control, Prepared
    <3> QED BY <3>1
  <2> QED BY <1>12, <2>1, <2>2 DEF StopChanged, ThreadInv, Control, Prepared
<1>13. CASE StopReturn
  <2>1. pc' = "stop.stopped" /\ UNCHANGED << serverVars, request >>
    BY <1>13, Frames DEF StopReturn, ThreadInv, Control, Stands, ActionReturns
  <2> QED BY <1>13, <1>s, <2>1 DEF StopReturn, serverVars
<1>14. CASE ServerStep
  <2>a. pc \in {"start.returned", "stop.configure"} /\ pc' = pc /\ request' = request
    BY <1>14, CallSteps DEF ServerStep, StartSteps, StopSteps, ThreadInv, Control, Stands, Prepared,
                            Labels, fsmVars
  <2> SUFFICES ASSUME pc = "start.returned", request = "stop", failed' = {}
               PROVE  Silencing'
    BY <2>a
  <2>0. failed = {} /\ UNCHANGED << pc, request >>
    BY <1>14, CallSteps DEF ServerStep, fsmVars
  <2> USE DEF Goto, Return, files, history, Fault, Record, NoFault
  <2>1. CASE StartPid
    BY <1>0, <1>s, <2>0, <2>1 DEF StartPid
  <2>2. CASE StartCompare
    <3>1. Rewritten /\ pid = dnsmasq.up
      BY <2>0, <2>2 DEF StartCompare, PidStands
    <3>2. Same => conf.lines = local.lines
      <4>1. conf.lines \in Seq(Line) /\ local.lines \in Seq(Line)
        BY DEF ServerTypeOK, FileType
      <4> QED BY <3>1, <4>1, CompareFilesExact DEF Same, Rewritten
    <3>3. Same => Silent(conf.lines)
      BY <3>1, <3>2 DEF Rewritten
    <3>4. dnsmasq.up => dnsmasq.lines = conf.lines \/ faulted \cap Stalers # {}
      BY <2>2 DEF StartCompare, RunsInv, Fresh, Blames
    <3>5. CASE Same /\ ~pid /\ NoFault /\ Goto("exec")
      BY <1>s, <2>0, <2>2, <3>3, <3>5 DEF StartCompare
    <3>6. CASE Same /\ pid /\ NoFault /\ Return
      BY <1>s, <2>0, <2>2, <3>1, <3>3, <3>4, <3>6 DEF StartCompare
    <3>7. CASE Differ /\ NoFault /\ Goto("copy")
      BY <1>0, <1>s, <2>0, <2>2, <3>1, <3>7 DEF StartCompare
    <3> QED BY <2>2, <3>5, <3>6, <3>7 DEF StartCompare
  <2>3. CASE StartCopy
    <3>1. local.there /\ Silent(local.lines)
      BY <2>0, <2>3 DEF StartCopy, Rewritten
    <3> QED BY <1>s, <2>0, <2>3, <3>1 DEF StartCopy
  <2>4. CASE StartWrite
    BY <1>s, <2>0, <2>4 DEF StartWrite
  <2>5. CASE StartRemove
    BY <1>s, <2>0, <2>5 DEF StartRemove
  <2>6. CASE StartKill
    <3>1. dnsmasq.up /\ Silent(conf.lines)
      BY <2>0, <2>6 DEF StartKill, PidStands
    <3> QED BY <1>s, <2>0, <2>6, <3>1 DEF StartKill, KillAll
  <2>7. CASE StartExec
    <3>1. ~dnsmasq.up /\ Silent(conf.lines)
      BY <2>0, <2>7 DEF StartExec, PidStands
    <3>2. dnsmasq' = Process(conf.lines, args)
      BY <2>7, <3>1 DEF StartExec, Exec
    <3> QED BY <1>s, <2>0, <2>7, <3>1, <3>2 DEF StartExec, Exec, Process
  <2>8. CASE StopStep
    <3>1. call \in StopSteps /\ call \in StartSteps \cup {"none"}
      BY <2>8 DEF StopStep, StopScan, StopKill, StopRemove, StopExec, StopSteps, ThreadInv,
                  Control, Stands
    <3> QED BY <3>1 DEF StopSteps, StartSteps
  <2> QED BY <1>14, <2>1, <2>2, <2>3, <2>4, <2>5, <2>6, <2>7, <2>8
          DEF ServerStep, CallStep, StartStep
<1>15. CASE DnsmasqExits
  BY <1>15 DEF DnsmasqExits, DnsmasqDies, Fault, Record
<1>16. CASE Crash
  BY <1>16 DEF Crash, NULL
<1>17. CASE UNCHANGED vars
  BY <1>17, <1>0, <1>s DEF vars, serverVars, fsmVars
<1> QED BY <1>1, <1>2, <1>3, <1>4, <1>5, <1>6, <1>7, <1>8, <1>9, <1>10, <1>11, <1>12, <1>13,
           <1>14, <1>15, <1>16, <1>17 DEF Next, ThreadStep

\* A stop during which nothing fails, of a manager that had installed a
\* configuration, leaves dnsmasq up with no address range to serve, whatever the
\* LAN and whatever happened before.
THEOREM StopSilencesAlways == SafeSpec => []StopSilences
<1>1. StopInv => StopSilences
  BY DEF StopInv, Silencing, Silent, StopSilences, Clean
<1>2. StopInv /\ ServerTypeOK /\ RunsInv /\ ThreadInv /\ [ServerNext]_serverVars /\ [Next]_vars
      => StopInv'
  BY PidNext, SilencingNext DEF StopInv
<1>3. SafeSpec => [][ServerNext]_serverVars
  BY Implements, PTL DEF ServerSpec
<1>4. SafeSpec => []ServerTypeOK /\ []RunsInv
  BY Implements, ServerTypeCorrect, RunsAlways, PTL
<1> QED BY <1>1, <1>2, <1>3, <1>4, StopInit, ThreadAlways, PTL DEF SafeSpec
=============================================================================
