----------------------------- MODULE DhcpServerV4 -----------------------------
(***************************************************************************)
(* The DHCPv4 server API of the manager (dhcp_server_v4_apis.c):           *)
(* dhcpServerInit writes a configuration to a local file, dhcpServerStart  *)
(* installs it over the configuration dnsmasq reads and restarts dnsmasq   *)
(* when it changed, dhcpServerStop restarts dnsmasq when the installed     *)
(* configuration has an interface to stop.                                 *)
(*                                                                         *)
(* Each call is the sequence of its system calls, one action each, because *)
(* between two of them dnsmasq may exit and the manager may be killed.     *)
(* Every system call may fail; Faults says which failures a run allows.    *)
(***************************************************************************)
EXTENDS DhcpConf, LanConfig

CONSTANTS
    Faults,      \* the failures that may happen
    StackLines,  \* what an unread line buffer of compareFiles may hold
    MaxFaults    \* bound: failures outstanding at once

FaultKinds ==
    { "openTmp",   \* fopen of a file under /tmp for writing
      "openConf",  \* fopen of /var/dnsmasq.conf
      "popen",     \* popen of "pidof dnsmasq"
      "remove",    \* remove() of a file under /tmp
      "kill",      \* "sudo killall dnsmasq" with dnsmasq running
      "exec",      \* "sudo dnsmasq ..."
      "alloc",     \* malloc
      "get",       \* the rbus get of the LAN configuration
      "die",       \* dnsmasq exits by itself
      "crash" }    \* the manager is killed and started again

ASSUME FaultsAssumption == Faults \subseteq FaultKinds /\ MaxFaults \in Nat
ASSUME StackLinesAssumption == StackLines # {}

VARIABLES
    conf,     \* DHCP_CONF, /var/dnsmasq.conf
    local,    \* LOCAL_DHCP_CONF_FILE, /tmp/dnsmasq.conf.tmp
    stopTmp,  \* dhcpServerStop's /tmp/dnsmasq.conf.tmp<pid> exists
    dnsmasq,  \* the dnsmasq process: what it read at its start
    call,     \* where the API call in progress stands
    args,     \* the dnsmasq options given to dhcpServerStart
    pid,      \* iPidOfDnsmasq of the call in progress is a pid
    faulted,  \* history: failures since dnsmasq was last started
    failed    \* history: failures since the last request to the manager

files      == << conf, local, stopTmp >>
history    == << faulted, failed >>
serverVars == << conf, local, stopTmp, dnsmasq, call, args, pid, faulted, failed >>

NoFile      == [there |-> FALSE, lines |-> << >>]
File(lines) == [there |-> TRUE, lines |-> lines]

NoProcess         == [up |-> FALSE, lines |-> << >>, args |-> "none"]
Process(lines, a) == [up |-> TRUE, lines |-> lines, args |-> a]

\* The option strings built by Construct_dhcp_configurationv4 ("dhcp" and
\* "dnsonly"), by dhcpServerStop ("plain"), and none at all.
Args == {"none", "dhcp", "dnsonly", "plain"}

\* "none" no call; "ready" dhcpServerInit has returned; the rest are the steps
\* of dhcpServerStart and, with a prefix, of dhcpServerStop.
StartSteps == {"pid", "compare", "copy", "write", "remove", "kill", "exec"}
StopSteps  == {"stop.pid", "stop.kill", "stop.remove", "stop.exec"}
Calls      == {"none", "ready"} \cup StartSteps \cup StopSteps

-----------------------------------------------------------------------------

\* Histories record failures and, as "noConf", that a stop found no installed
\* configuration.
Record(f) == faulted' = faulted \cup {f} /\ failed' = failed \cup {f}

\* A failure of kind f happens in this step, or nothing fails in it.
Fault(f) == /\ f \in Faults
            /\ Cardinality(((faulted \cup failed) \ {"noConf"}) \cup {f}) <= MaxFaults
            /\ Record(f)
NoFault  == UNCHANGED history

\* The call in progress goes on to its next step, or returns.
Goto(step) == call' = step
Return     == call' = "none"

-----------------------------------------------------------------------------
(* dhcpServerInit.  ifs is NULL when the array of interface configurations *)
(* could not be allocated: the local file is then already truncated, and   *)
(* stays empty unless there are no interfaces.  The return value is lost   *)
(* on the only caller, who goes on to dhcpServerStart either way.          *)

dhcpServerInit(ifs) ==
    /\ call \in {"none", "ready"}
    /\ Goto("ready")
    /\ \/ NoFault /\ local' = File(ConfLines(ZeroGlobalConfig, ifs))
       \/ Fault("alloc") /\ ifs # NoPayloads /\ local' = File(<< >>)
       \/ Fault("openTmp") /\ UNCHANGED local
    /\ UNCHANGED << conf, stopTmp, dnsmasq, args, pid >>

(* dns_only of sm_DhcpMgr_apis.c: the installed file, edited, replaces the *)
(* local file that dhcpServerInit wrote.  When either file cannot be       *)
(* opened the local file is left as dhcpServerInit wrote it.               *)

DnsOnlyRewrite ==
    /\ call \in {"none", "ready"}
    /\ \/ ~conf.there /\ Record("noConf") /\ UNCHANGED local
       \/ conf.there /\ NoFault /\ local' = File(dns_only(conf.lines))
       \/ conf.there /\ (Fault("openConf") \/ Fault("openTmp")) /\ UNCHANGED local
    /\ UNCHANGED << conf, stopTmp, dnsmasq, call, args, pid >>

-----------------------------------------------------------------------------
(* dhcpServerStart.                                                        *)

dhcpServerStart(options) ==
    /\ call = "ready"
    /\ Goto("pid")
    /\ args' = options
    /\ UNCHANGED << files, dnsmasq, pid, history >>

\* Mutant: a pid found once is not looked up again.
extractPidOnce == pid' = (pid \/ dnsmasq.up) /\ NoFault

\* A process that cannot be looked up counts as one that does not run.
extractPid ==
    \/ pid' = dnsmasq.up /\ NoFault
    \/ pid' = FALSE /\ Fault("popen")

StartPid ==
    /\ call = "pid"
    /\ extractPid
    /\ Goto("compare")
    /\ UNCHANGED << files, dnsmasq, args >>

\* compareFiles(DHCP_CONF, LOCAL_DHCP_CONF_FILE): a file that cannot be opened
\* counts as a difference.  Without a difference dnsmasq is started only if
\* none was running.
Same ==
    /\ conf.there
    /\ local.there
    /\ \E s1, s2 \in StackLines : compareFiles(conf.lines, local.lines, s1, s2)
Differ ==
    \/ ~conf.there
    \/ ~local.there
    \/ \E s1, s2 \in StackLines : ~compareFiles(conf.lines, local.lines, s1, s2)

\* Mutant: the file is installed whether or not it differs.
StartCompareIgnored ==
    /\ call = "compare"
    /\ NoFault /\ Goto("copy")
    /\ UNCHANGED << files, dnsmasq, args, pid >>

StartCompare ==
    /\ call = "compare"
    /\ \/ Same /\ ~pid /\ NoFault /\ Goto("exec")
       \/ Same /\ pid /\ NoFault /\ Return
       \/ Differ /\ NoFault /\ Goto("copy")
       \/ (Fault("openConf") \/ Fault("openTmp")) /\ Goto("copy")
    /\ UNCHANGED << files, dnsmasq, args, pid >>

\* Mutant: what copyFile truncated is never written.
StartCopyUnwritten ==
    /\ call = "copy"
    /\ NoFault /\ conf' = File(<< >>) /\ Goto("remove")
    /\ UNCHANGED << local, stopTmp, dnsmasq, args, pid >>

\* copyFile opens both files before it looks at either: the installed file is
\* truncated even when there is nothing to copy.
StartCopy ==
    /\ call = "copy"
    /\ \/ local.there /\ NoFault /\ conf' = File(<< >>) /\ Goto("write")
       \/ ~local.there /\ NoFault /\ conf' = File(<< >>) /\ Return
       \/ Fault("openConf") /\ UNCHANGED conf /\ Return
       \/ Fault("openTmp") /\ conf' = File(<< >>) /\ Return
    /\ UNCHANGED << local, stopTmp, dnsmasq, args, pid >>

StartWrite ==
    /\ call = "write"
    /\ conf' = local
    /\ Goto("remove")
    /\ UNCHANGED << local, stopTmp, dnsmasq, args, pid, history >>

\* Mutant: the new dnsmasq is started next to the old one.
StartRemoveNoKill ==
    /\ call = "remove"
    /\ NoFault /\ local' = NoFile /\ Goto("exec")
    /\ UNCHANGED << conf, stopTmp, dnsmasq, args, pid >>

StartRemove ==
    /\ call = "remove"
    /\ \/ NoFault /\ local' = NoFile /\ Goto(IF pid THEN "kill" ELSE "exec")
       \/ Fault("remove") /\ UNCHANGED local /\ Return
    /\ UNCHANGED << conf, stopTmp, dnsmasq, args, pid >>

\* Mutant: killall is repeated until it succeeds.
KillAllUntilDone(next) ==
    \/ dnsmasq.up /\ NoFault /\ dnsmasq' = NoProcess /\ Goto(next)
    \/ ~dnsmasq.up /\ NoFault /\ UNCHANGED << dnsmasq, call >>

\* executeCmd("sudo killall dnsmasq") fails too when the process whose pid was
\* read earlier has exited since.
KillAll(next) ==
    \/ dnsmasq.up /\ NoFault /\ dnsmasq' = NoProcess /\ Goto(next)
    \/ ~dnsmasq.up /\ NoFault /\ UNCHANGED dnsmasq /\ Return
    \/ dnsmasq.up /\ Fault("kill") /\ UNCHANGED dnsmasq /\ Return

StartKill ==
    /\ call = "kill"
    /\ KillAll("exec")
    /\ UNCHANGED << files, args, pid >>

\* dnsmasq reads its configuration once, when it starts; a dnsmasq that is
\* already running holds the ports and makes the start fail.
Exec(a) ==
    /\ Return
    /\ \/ /\ ~dnsmasq.up
          /\ dnsmasq' = Process(conf.lines, a)
          /\ faulted' = {} /\ UNCHANGED failed
       \/ dnsmasq.up /\ NoFault /\ UNCHANGED dnsmasq
       \/ Fault("exec") /\ UNCHANGED dnsmasq

StartExec ==
    /\ call = "exec"
    /\ Exec(args)
    /\ UNCHANGED << files, args, pid >>

-----------------------------------------------------------------------------
(* dhcpServerStop(NULL, 0), the only way it is called.                     *)

dhcpServerStop ==
    /\ call \in {"none", "ready"}
    /\ \/ ~conf.there /\ Record("noConf") /\ Return /\ UNCHANGED stopTmp
       \/ Fault("openConf") /\ Return /\ UNCHANGED stopTmp
       \/ conf.there /\ Fault("openTmp") /\ Return /\ UNCHANGED stopTmp
       \/ conf.there /\ NoFault /\ stopTmp' = TRUE /\ Goto("stop.pid")
    /\ UNCHANGED << conf, local, dnsmasq, args, pid >>

\* extractPid, then the scan of the installed file.  The edited copy written to
\* stopTmp is never installed (the copyFile is commented out), so only whether
\* an interface was found matters; when none was, the copy is left behind.
StopScan ==
    /\ call = "stop.pid"
    /\ extractPid
    /\ IF StopFindsInterface(conf.lines)
         THEN Goto(IF pid' THEN "stop.kill" ELSE "stop.remove")
         ELSE Return
    /\ UNCHANGED << files, dnsmasq, args >>

StopKill ==
    /\ call = "stop.kill"
    /\ KillAll("stop.remove")
    /\ UNCHANGED << files, args, pid >>

StopRemove ==
    /\ call = "stop.remove"
    /\ \/ NoFault /\ stopTmp' = FALSE /\ Goto("stop.exec")
       \/ Fault("remove") /\ UNCHANGED stopTmp /\ Return
    /\ UNCHANGED << conf, local, dnsmasq, args, pid >>

StopExec ==
    /\ call = "stop.exec"
    /\ Exec("plain")
    /\ UNCHANGED << files, args, pid >>

-----------------------------------------------------------------------------
(* The environment: dnsmasq exits, the manager is killed in mid-call.      *)

DnsmasqDies ==
    /\ dnsmasq.up
    /\ Fault("die")
    /\ dnsmasq' = NoProcess
    /\ UNCHANGED << files, call, args, pid >>

ServerCrash ==
    /\ Fault("crash")
    /\ Return
    /\ args' = "none"
    /\ pid' = FALSE
    /\ UNCHANGED << files, dnsmasq >>

-----------------------------------------------------------------------------
(* The caller: a request begins, or something fails between two calls.     *)

Request ==
    /\ call \in {"none", "ready"}
    /\ failed' = {}
    /\ UNCHANGED << files, dnsmasq, call, args, pid, faulted >>

CallerFails(f) ==
    /\ call \in {"none", "ready"}
    /\ Fault(f)
    /\ UNCHANGED << files, dnsmasq, call, args, pid >>

-----------------------------------------------------------------------------

\* One step of a call that was made, and the calls themselves.
StartStep == StartPid \/ StartCompare \/ StartCopy \/ StartWrite \/ StartRemove
                \/ StartKill \/ StartExec
StopStep  == StopScan \/ StopKill \/ StopRemove \/ StopExec
CallStep  == StartStep \/ StopStep

\* A configuration installed by an earlier run of the manager may be there.
ServerInit ==
    /\ conf \in {NoFile} \cup { File(ConfLines(ZeroGlobalConfig, ifs)) : ifs \in IfaceLists }
    /\ local = NoFile
    /\ stopTmp = FALSE
    /\ dnsmasq = NoProcess
    /\ call = "none"
    /\ args = "none"
    /\ pid = FALSE
    /\ faulted = {}
    /\ failed = {}

ServerNext ==
    \/ \E ifs \in IfaceLists : dhcpServerInit(ifs)
    \/ DnsOnlyRewrite
    \/ \E options \in Args : dhcpServerStart(options)
    \/ dhcpServerStop
    \/ CallStep
    \/ DnsmasqDies
    \/ ServerCrash
    \/ Request
    \/ \E f \in {"get", "alloc"} : CallerFails(f)

ServerSpec == ServerInit /\ [][ServerNext]_serverVars

-----------------------------------------------------------------------------
(* What the API promises to any caller.                                    *)

FileType    == [there : BOOLEAN, lines : Seq(Line)]
ProcessType == [up : BOOLEAN, lines : Seq(Line), args : Args]

\* The files hold lines, a call stands at one of its steps, and only failures
\* that can happen are recorded (the state of dhcp_server_v4_apis.c).
ServerTypeOK ==
    /\ conf \in FileType /\ local \in FileType /\ stopTmp \in BOOLEAN
    /\ dnsmasq \in ProcessType
    /\ call \in Calls /\ args \in Args /\ pid \in BOOLEAN
    /\ faulted \subseteq FaultKinds \cup {"noConf"}
    /\ failed \subseteq FaultKinds \cup {"noConf"}

\* The failures after which dnsmasq may keep a configuration that is no longer
\* the installed one: dhcpServerStart replaces the file before it knows that it
\* can restart dnsmasq, and gives up at the first error.
Stalers == {"openTmp", "remove", "kill", "popen", "crash"}

\* Between calls a running dnsmasq has read the configuration that is installed
\* now, unless one of those failures happened since dnsmasq was last started
\* (dhcpServerStart's order: copyFile, remove, killall, dnsmasq).
StaleOnlyAfterFault ==
    /\ call \in {"none", "ready"}
    /\ dnsmasq.up
    /\ dnsmasq.lines # conf.lines
    => faulted \cap Stalers # {}

\* dhcpServerStart's killall interrupts a running dnsmasq only when there is
\* something new to read ("No need to restart the dnsmasq process"), or after such
\* a failure, or when a file to compare could not be opened.  dhcpServerStop's
\* killall does it to a dnsmasq that is up to date: StopKillsOnlyServing.
RestartsOnlyForChange ==
    /\ call = "kill"
    /\ dnsmasq.up
    /\ dnsmasq.lines = conf.lines
    => faulted \cap (Stalers \cup {"openConf"}) # {}

\* dhcpServerStop's killall hits dnsmasq only while it serves a range, or after
\* such a failure: a stop that follows a stop leaves it to dhcpServerStart, and
\* dnsmasq is not restarted twice.  (dhcpServerStop looks at the installed file, not
\* at what the process has read, and matches lines at their beginning.)
StopKillsOnlyServing ==
    /\ call = "stop.kill"
    /\ dnsmasq.up
    => ActiveRanges(dnsmasq.lines) # {} \/ faulted \cap Stalers # {}

\* compareFiles is exact on the files it is given, although it compares the last
\* line of the shorter file with the rest of the longer one and looks at unread
\* buffers when one is empty.
ExactCompare ==
    /\ call = "compare"
    /\ conf.there
    /\ local.there
    => \A s1, s2 \in StackLines :
           compareFiles(conf.lines, local.lines, s1, s2) <=> conf.lines = local.lines
=============================================================================
