------------------------------ MODULE DhcpMgrFSM ------------------------------
(***************************************************************************)
(* The manager's state machine (sm_DhcpMgr.c), driving the DHCPv4 server   *)
(* API: the table gSM_StateObj, DispatchDHCP_SM, the actions of the table  *)
(* and the dispatchers EventHandler_MainFSM calls for a start or a stop.   *)
(*                                                                         *)
(* It runs on the thread that delivers rbus set callbacks, one callback at *)
(* a time.  A C call is a frame on the stack, because DispatchDHCP_SM is   *)
(* reentered: Stopv4s, an action of the table, dispatches two more events  *)
(* before its own row's next state is assigned.                            *)
(***************************************************************************)
EXTENDS DhcpServerV4

CONSTANTS
    MaxHashes   \* bound: '#'s a line may carry when a stop begins

ASSUME MaxHashesAssumption == MaxHashes \in Nat

VARIABLES
    mainState,   \* mainState
    pc,          \* where the callback thread stands
    stack,       \* the calls of table actions in progress, innermost first
    sCmdArgs,    \* sGlbDhcpCfg.sCmdArgs
    ppDhcpCfgs,  \* ppDhcpCfgs with its count: the interface configurations
    request,     \* history: the request being or last handled
    lan,         \* history: the provider's last answer during this request
    published    \* history: the states published during this request

fsmVars == << mainState, pc, stack, sCmdArgs, ppDhcpCfgs, request, lan, published >>
vars    == << serverVars, fsmVars >>

States == {"IDLE", "PREPARINGv4", "STARTINGv4", "STOPPINGv4"}

NULL == "NULL"

Row(curState, event, nextState, action) ==
    [curState |-> curState, event |-> event, nextState |-> nextState, action |-> action]

\* Mutants: no row for EVENT_STARTEDv4; Stopv4s's row leads to IDLE at once.
gSM_StateObjNoStarted ==
    { Row("IDLE",        "CONFIGUREv4",      "PREPARINGv4", "PrepareConfigv4s"),
      Row("PREPARINGv4", "CONFIG_CHANGEDv4", "STARTINGv4",  "Startv4s"),
      Row("IDLE",        "STOPv4",           "STOPPINGv4",  "Stopv4s"),
      Row("STOPPINGv4",  "STOPPEDv4",        "IDLE",        NULL) }
gSM_StateObjStopIdle ==
    { Row("IDLE",        "CONFIGUREv4",      "PREPARINGv4", "PrepareConfigv4s"),
      Row("PREPARINGv4", "CONFIG_CHANGEDv4", "STARTINGv4",  "Startv4s"),
      Row("STARTINGv4",  "STARTEDv4",        "IDLE",        NULL),
      Row("IDLE",        "STOPv4",           "IDLE",        "Stopv4s") }

\* No two rows share a state and an event, so that "the first row that matches"
\* is the row that matches.
gSM_StateObj ==
    { Row("IDLE",        "CONFIGUREv4",      "PREPARINGv4", "PrepareConfigv4s"),
      Row("PREPARINGv4", "CONFIG_CHANGEDv4", "STARTINGv4",  "Startv4s"),
      Row("PREPARINGv4", "CONFIG_SAMEv4",    "IDLE",        NULL),
      Row("STARTINGv4",  "STARTEDv4",        "IDLE",        NULL),
      Row("IDLE",        "STOPv4",           "STOPPINGv4",  "Stopv4s"),
      Row("STOPPINGv4",  "STOPPEDv4",        "IDLE",        NULL) }

-----------------------------------------------------------------------------
(* DispatchDHCP_SM.                                                        *)

\* Mutant: the next state is assigned before the action is called.
DispatchDHCP_SMEarly(event, payload, ret) ==
    LET rows == {r \in gSM_StateObj : r.curState = mainState /\ r.event = event} IN
    \/ rows = {} /\ pc' = ret /\ UNCHANGED << mainState, stack >>
    \/ \E r \in rows :
         /\ mainState' = r.nextState
         /\ \/ r.action = NULL /\ pc' = ret /\ UNCHANGED stack
            \/ /\ r.action # NULL /\ pc' = r.action
               /\ stack' = << [next |-> r.nextState, ret |-> ret, payload |-> payload] >> \o stack

\* The dispatcher is called with an event and a payload and returns to label
\* ret.  An event without a row is dropped in silence.
DispatchDHCP_SM(event, payload, ret) ==
    LET rows == {r \in gSM_StateObj : r.curState = mainState /\ r.event = event} IN
    \/ /\ rows = {}
       /\ pc' = ret
       /\ UNCHANGED << mainState, stack >>
    \/ \E r \in rows :
         /\ r.action = NULL
         /\ mainState' = r.nextState
         /\ pc' = ret
         /\ UNCHANGED stack
    \/ \E r \in rows :
         /\ r.action # NULL
         /\ stack' = << [next |-> r.nextState, ret |-> ret, payload |-> payload] >> \o stack
         /\ pc' = r.action
         /\ UNCHANGED mainState

\* The action returns rc to DispatchDHCP_SM, which assigns the row's next state
\* only when it is 0, and returns to its caller.
ActionReturns(rc) ==
    /\ mainState' = IF rc = 0 THEN Head(stack).next ELSE mainState
    /\ pc' = Head(stack).ret
    /\ stack' = Tail(stack)

Publish(state) == published' = Append(published, state)

-----------------------------------------------------------------------------
(* event_Dispatcher_startv4 and event_Dispatcher_stopv4.                   *)

\* DHCP manager events come from the set handler, while no other is handled.
\* Nothing resets the '#'s that repeated stops add: MaxHashes bounds them.
EventHandler_MainFSM(event) ==
    /\ pc = "rest"
    /\ Request
    /\ event = "stop" => \A i \in DOMAIN conf.lines : conf.lines[i].hashes < MaxHashes
    /\ request' = event
    /\ published' = << >>
    /\ lan' = {}
    /\ pc' = event
    /\ UNCHANGED << mainState, stack, sCmdArgs, ppDhcpCfgs >>

DispatcherStep(label, body) ==
    /\ pc = label
    /\ body
    /\ UNCHANGED << serverVars, sCmdArgs, ppDhcpCfgs, request, lan >>

\* The dispatcher's early returns of -1 and its final return of 0.
DispatcherReturns == pc' = "rest" /\ UNCHANGED << mainState, stack >>

StartConfigure ==
    DispatcherStep("start",
        DispatchDHCP_SM("CONFIGUREv4", NULL, "start.prepared") /\ UNCHANGED published)

StartPrepared ==
    DispatcherStep("start.prepared",
        IF mainState = "PREPARINGv4"
          THEN Publish("PREPARINGv4") /\ DispatchDHCP_SM("CONFIG_CHANGEDv4", NULL, "start.started")
          ELSE DispatcherReturns /\ UNCHANGED published)

StartStarted ==
    DispatcherStep("start.started",
        IF mainState = "STARTINGv4"
          THEN Publish("STARTINGv4") /\ DispatchDHCP_SM("STARTEDv4", NULL, "done")
          ELSE DispatcherReturns /\ UNCHANGED published)

StopStop ==
    DispatcherStep("stop",
        DispatchDHCP_SM("STOPv4", NULL, "stop.stopped") /\ UNCHANGED published)

StopStopped ==
    DispatcherStep("stop.stopped",
        IF mainState = "STOPPINGv4"
          THEN Publish("STOPPINGv4") /\ DispatchDHCP_SM("STOPPEDv4", NULL, "done")
          ELSE DispatcherReturns /\ UNCHANGED published)

\* Mutant: the way back to IDLE is not published.
DispatcherDoneSilently ==
    DispatcherStep("done", DispatcherReturns /\ UNCHANGED published)

\* Both dispatchers end alike.
DispatcherDone ==
    DispatcherStep("done",
        /\ IF mainState = "IDLE" THEN Publish("IDLE") ELSE UNCHANGED published
        /\ DispatcherReturns)

-----------------------------------------------------------------------------
(* PrepareConfigv4s: GetLanDHCPConfig, then the options and dhcpServerInit. *)

\* Mutant: the last payload is left out.
PrepareFetchShort ==
    /\ pc = "PrepareConfigv4s"
    /\ pc' = "prepare.init"
    /\ sCmdArgs' = "none"
    /\ \E reply \in Replies :
         LET payloads == Front(parseDhcpPayloadJson(reply)) IN
         /\ reply.num_entries > 0
         /\ lan' = {reply}
         /\ ppDhcpCfgs' = Add_inf_to_dhcp_config(payloads, [i \in 1..Len(payloads) |-> ""])
    /\ UNCHANGED << serverVars, mainState, stack, request, published >>

\* The get of the provider's document.  Its failure is ignored: the count of
\* interface configurations is then the 0 it was initialised to.
PrepareFetch ==
    /\ pc = "PrepareConfigv4s"
    /\ pc' = "prepare.init"
    /\ sCmdArgs' = "none"
    /\ \/ /\ UNCHANGED serverVars
          /\ \E reply \in Replies :
               LET payloads == parseDhcpPayloadJson(reply) IN
               /\ lan' = {reply}
               /\ \E mask \in [1..Len(payloads) -> Masks] :
                    ppDhcpCfgs' = Add_inf_to_dhcp_config(payloads, mask)
       \/ /\ CallerFails("get")
          /\ ppDhcpCfgs' = NoPayloads
          /\ lan' = {}
    /\ UNCHANGED << mainState, stack, request, published >>

\* The options that a payload asks for.
Construct_dhcp_configurationv4(payload) == IF payload = NULL THEN "dhcp" ELSE "dnsonly"

\* The action fails only when the option array cannot be allocated; what
\* dhcpServerInit returns is ignored.
PrepareInit ==
    /\ pc = "prepare.init"
    /\ \/ /\ dhcpServerInit(ppDhcpCfgs)
          /\ sCmdArgs' = Construct_dhcp_configurationv4(Head(stack).payload)
          /\ ActionReturns(0)
       \/ /\ CallerFails("alloc")
          /\ UNCHANGED sCmdArgs
          /\ ActionReturns(-1)
    /\ UNCHANGED << ppDhcpCfgs, request, lan, published >>

-----------------------------------------------------------------------------
(* Startv4s: dhcpServerStart, whose result is ignored.                     *)

Startv4s ==
    /\ pc = "Startv4s"
    /\ dhcpServerStart(sCmdArgs)
    /\ pc' = "start.returned"
    /\ UNCHANGED << mainState, stack, sCmdArgs, ppDhcpCfgs, request, lan, published >>

StartReturned ==
    /\ pc = "start.returned"
    /\ call = "none"
    /\ ActionReturns(0)
    /\ UNCHANGED << serverVars, sCmdArgs, ppDhcpCfgs, request, lan, published >>

-----------------------------------------------------------------------------
(* Stopv4s: dhcpServerStop, then a whole start with a configuration whose  *)
(* interfaces are commented out.  None of the four steps can stop the next. *)

Stopv4s ==
    /\ pc = "Stopv4s"
    /\ dhcpServerStop
    /\ pc' = "stop.configure"
    /\ UNCHANGED << mainState, stack, sCmdArgs, ppDhcpCfgs, request, lan, published >>

StopConfigure ==
    /\ pc = "stop.configure"
    /\ call = "none"
    /\ DispatchDHCP_SM("CONFIGUREv4", "true", "stop.dnsonly")
    /\ UNCHANGED << serverVars, sCmdArgs, ppDhcpCfgs, request, lan, published >>

StopDnsOnly ==
    /\ pc = "stop.dnsonly"
    /\ DnsOnlyRewrite
    /\ pc' = "stop.changed"
    /\ UNCHANGED << mainState, stack, sCmdArgs, ppDhcpCfgs, request, lan, published >>

\* Mutant: the edited configuration is taken for the one that is installed.
StopChangedSame ==
    /\ pc = "stop.changed"
    /\ DispatchDHCP_SM("CONFIG_SAMEv4", NULL, "stop.return")
    /\ UNCHANGED << serverVars, sCmdArgs, ppDhcpCfgs, request, lan, published >>

StopChanged ==
    /\ pc = "stop.changed"
    /\ DispatchDHCP_SM("CONFIG_CHANGEDv4", NULL, "stop.return")
    /\ UNCHANGED << serverVars, sCmdArgs, ppDhcpCfgs, request, lan, published >>

StopReturn ==
    /\ pc = "stop.return"
    /\ ActionReturns(0)
    /\ UNCHANGED << serverVars, sCmdArgs, ppDhcpCfgs, request, lan, published >>

-----------------------------------------------------------------------------
(* The rest of the process, and its environment.                           *)

\* A step of the API call the thread is in.
ServerStep == CallStep /\ UNCHANGED fsmVars

DnsmasqExits == DnsmasqDies /\ UNCHANGED fsmVars

\* The process is killed and started again: its memory is as at the beginning.
\* An allocation that fails in the middle of AllocateDhcpInterfaceConfig ends
\* in the same way.
Crash ==
    /\ ServerCrash
    /\ mainState' = "IDLE"
    /\ pc' = "rest"
    /\ stack' = << >>
    /\ sCmdArgs' = "none"
    /\ ppDhcpCfgs' = NoPayloads
    /\ request' = NULL
    /\ lan' = {}
    /\ published' = << >>

-----------------------------------------------------------------------------

Init ==
    /\ ServerInit
    /\ mainState = "IDLE"
    /\ pc = "rest"
    /\ stack = << >>
    /\ sCmdArgs = "none"
    /\ ppDhcpCfgs = NoPayloads
    /\ request = NULL
    /\ lan = {}
    /\ published = << >>

Requested == \E event \in {"start", "stop"} : EventHandler_MainFSM(event)

\* The steps of the callback thread.
ThreadStep ==
    \/ StartConfigure \/ StartPrepared \/ StartStarted
    \/ StopStop \/ StopStopped \/ DispatcherDone
    \/ PrepareFetch \/ PrepareInit
    \/ Startv4s \/ StartReturned
    \/ Stopv4s \/ StopConfigure \/ StopDnsOnly \/ StopChanged \/ StopReturn
    \/ ServerStep

Next == Requested \/ ThreadStep \/ DnsmasqExits \/ Crash

\* What may happen.
SafeSpec == Init /\ [][Next]_vars

\* The callback thread is scheduled, and every system call it makes returns.
Spec == SafeSpec /\ WF_vars(ThreadStep)

-----------------------------------------------------------------------------

Labels == { "rest", "start", "start.prepared", "start.started", "done",
            "stop", "stop.stopped",
            "PrepareConfigv4s", "prepare.init", "Startv4s", "start.returned",
            "Stopv4s", "stop.configure", "stop.dnsonly", "stop.changed", "stop.return" }

Frame == [next : States, ret : Labels, payload : {NULL, "true"}]

\* The state machine is in a state of its enumeration and the thread at a
\* place of the code; calls nest at most two deep (Stopv4s and what it
\* dispatches).
TypeOK ==
    /\ ServerTypeOK
    /\ mainState \in States
    /\ pc \in Labels
    /\ stack \in Seq(Frame) /\ Len(stack) <= 2
    /\ sCmdArgs \in Args
    /\ ppDhcpCfgs \in IfaceLists
    /\ request \in {NULL, "start", "stop"}
    /\ lan \subseteq Replies
    /\ published \in Seq(States) /\ Len(published) <= 3

\* Whatever failed, once a request is handled the state machine is back in
\* IDLE, the only state whose rows accept the next one, and no call is pending
\* (event_Dispatcher_startv4 and event_Dispatcher_stopv4 return -1 in the middle
\* without assigning mainState).
RestIsIdle ==
    pc = "rest" => mainState = "IDLE" /\ stack = << >> /\ call \in {"none", "ready"}

\* The (bridge, pool) pairs a configuration serves.
Served(lines) ==
    { << lines[i].arg[1], lines[i + 1].arg[2] >> :
        i \in {j \in 1..(Len(lines) - 1) :
                 StartsInterface(lines[j]) /\ StartsRange(lines[j + 1])} }

\* The pairs the provider asked for.
Wanted(replies) ==
    UNION { { << p.bridgeName, p.pool >> :
                p \in {q \in Range(r.dhcpPayload) : q.Dhcpv4_Enable} } : r \in replies }

\* No failure since the request, and none before it that left dnsmasq stale.
Clean == failed = {} /\ faulted \cap Stalers = {}

\* A start during which nothing fails ends with dnsmasq up and serving exactly
\* the enabled bridges of the provider's answer, whatever was installed before
\* and whether or not dnsmasq was running (event_Dispatcher_startv4).
StartServes ==
    pc = "rest" /\ request = "start" /\ Clean
    => dnsmasq.up /\ Served(dnsmasq.lines) = Wanted(lan)

\* A start installs exactly the enabled bridges of the provider's answer, in a file
\* that is not empty, whatever happened before: the installed file may have been
\* truncated by a copyFile that was killed or had nothing to copy, the local one may
\* be missing, left over or empty, and dnsmasq stale.  Nor does it matter what else
\* fails, a killall or the start of dnsmasq included, as long as the start itself
\* can open its files and allocate (copyFile, compareFiles, dhcpServerInit).
StartInstalls ==
    pc = "rest" /\ request = "start" /\ failed \cap {"openTmp", "openConf", "alloc"} = {}
    => conf.there /\ conf.lines # << >> /\ Served(conf.lines) = Wanted(lan)

\* A stop during which nothing fails, of a manager that had installed a
\* configuration, leaves dnsmasq up, for DNS, with no address range to serve
\* (Stopv4s).
StopSilences ==
    pc = "rest" /\ request = "stop" /\ Clean
    => dnsmasq.up /\ ActiveRanges(dnsmasq.lines) = {}

\* The options of dhcpServerStop's own restart of dnsmasq do not outlast the stop:
\* Stopv4s goes on to start dnsmasq with its own, unless something failed since
\* that kept the file from being edited, or the old process from being replaced.
\* Nothing else would correct them: dhcpServerStart compares files, not options.
PlainIsTransient ==
    pc = "rest" /\ dnsmasq.up /\ dnsmasq.args = "plain"
    => faulted \cap (Stalers \cup {"openConf", "alloc"}) # {}

\* A request's subscribers see the whole sequence of its states, ending in IDLE,
\* or nothing; nothing only when a start could not be prepared
\* (dhcp_server_publish_state in the two dispatchers).
PublishedSequence ==
    pc = "rest" =>
        \/ request = "start" /\ published = << "PREPARINGv4", "STARTINGv4", "IDLE" >>
        \/ request = "start" /\ published = << >> /\ "alloc" \in failed
        \/ request = "stop" /\ published = << "STOPPINGv4", "IDLE" >>
        \/ request = NULL /\ published = << >>

\* Every request is handled to its end, or cut short by a crash.
RequestCompletes == pc # "rest" ~> pc = "rest"

-----------------------------------------------------------------------------
(* Refinement.                                                             *)

Service == INSTANCE DhcpService WITH
    Pairs     <- STRING \X STRING,
    phase     <- IF pc = "rest" THEN "rest" ELSE request,
    offered   <- Wanted(lan),
    prepared  <- Served(local.lines),
    installed <- Served(conf.lines),
    serving   <- IF dnsmasq.up THEN {Served(dnsmasq.lines)} ELSE {},
    trouble   <- ~Clean

\* The manager moves the provider's configuration through its files to dnsmasq as
\* DhcpService says: nothing is ever served that was not installed, nothing
\* installed that was not prepared for this LAN, a request that meets no trouble
\* is over only when what it asked for is served, and it is over some time.
ImplementsService == Service!Spec

-----------------------------------------------------------------------------
(* What comments of the source say and the code does not do.               *)

\* dhcp_server_v4_apis.h:136, "Stop DHCP server(s) for a specific interface or
\* all interfaces": when dhcpServerStop(NULL, 0) returns, no interface is served.
\* It restarts dnsmasq on the file it was already running on.
StopStopsAllInterfaces ==
    pc = "stop.configure" /\ call = "none" /\ dnsmasq.up => ActiveRanges(dnsmasq.lines) = {}

\* sm_DhcpMgr.c:125, "stub function to write dns_only configuration": what
\* dns_only leaves for Stopv4s to start serves no range.  Without an installed
\* configuration it returns early, and the DHCP configuration that
\* dhcpServerInit wrote is started.
DnsOnlyIsWritten ==
    pc = "stop.changed" => ActiveRanges(local.lines) = {}

\* sm_DhcpMgr_apis.c:233, "Stub to comment the interface and dcprange lines in
\* dhcp conf file": none is left.  Only the first two interface lines are
\* commented out, and the test provider's LAN has three.
DnsOnlyCommentsAll ==
    pc = "stop.changed" /\ conf.there => ~isDhcpConfHasInterface(local.lines)

\* dhcp_server_v4_apis.c:425, "No need to restart the dnsmasq process": a process
\* that dhcpServerStart leaves alone is what starting it again would give.  It may
\* have been started with other options: those for DNS only, by a stop that had no
\* file to edit.
LeftAloneIsCurrent ==
    [][call = "compare" /\ call' = "none" /\ pc' = pc
       => dnsmasq = Process(conf.lines, args)]_vars
=============================================================================
