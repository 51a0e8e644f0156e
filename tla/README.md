# DHCP manager: verification project

TLA+ specifications, TLC runs and TLAPS proofs for the DHCP manager of this
repository (`src/`, C). The manager takes `start` and `stop` commands over rbus,
fetches the LAN configuration over rbus, writes a dnsmasq configuration file,
and kills and starts dnsmasq.

## 1. Inventory

| Component | Source | State it keeps | Operations |
|---|---|---|---|
| LAN configuration | `sm_DhcpMgr_apis.c:97-214`, `sm_DhcpMgr.h` | `ppDhcpCfgs` and its count | `GetLanDHCPConfig`, `parseDhcpPayloadJson`, `AllocateDhcpInterfaceConfig`, `Add_inf_to_dhcp_config` |
| Configuration file | `dhcp_server_v4_apis.c:107-171, 194-351, 513-578, 628-654`, `sm_DhcpMgr_apis.c:229-272` | `/var/dnsmasq.conf`, `/tmp/dnsmasq.conf.tmp` | contents of `dhcpServerInit`, `copyFile`, `compareFiles`, `dns_only`, the scan of `dhcpServerStop`, `isDhcpConfHasInterface` |
| DHCPv4 server API | `dhcp_server_v4_apis.c:173-627` | the files, the dnsmasq process | `dhcpServerInit`, `dhcpServerStart`, `dhcpServerStop` |
| State machine | `sm_DhcpMgr.c` | `mainState`, `sGlbDhcpCfg` | `DispatchDHCP_SM`, `PrepareConfigv4s`, `Startv4s`, `Stopv4s`, the two dispatchers, `EventHandler_MainFSM` |
| rbus layer | `dhcpmgr_rbus_apis.c` | `rbusHandle`, the registered elements | set handler, `dhcp_server_publish_state`, `dhcp_server_signal_state_machine_ready`, `rbus_GetLanDHCPConfig`, `DhcpMgr_Rbus_Init` |
| Main thread | `sm_DhcpMgr.c:230-242` | none | registers, publishes Ready and Idle, sleeps |
| Test client | `Testapp/Rbus_client_test.c` | its subscriptions | answers Ready with `start`; `start`, `stop`, `restart` from the keyboard |
| Test provider | `Testapp/Config_provider/Rbus_client_test1.c` | none | answers the get of `Device.LanManager.DhcpConfig` |
| DHCPv6 | `sm_DhcpMgr.c:44-53, 212-223` | none | declared only, commented out |
| dnsmasq, rbus, the file system | external | the process and what it read; queues; files | modelled from how `src/` uses them |

How they interact. rbus calls the set handler `DhcpMgr_Event_SetHandler` on its
own thread; the handler runs the whole request (`EventHandler_MainFSM`, a
dispatcher, the table's actions, the API calls, the system calls) before it
returns. During a request the manager calls back into rbus: a get of the LAN
configuration and a publish for each state. Everything else goes through shared
state: the globals `mainState`, `sGlbDhcpCfg` and `ppDhcpCfgs`, the installed
and the local configuration file, and the dnsmasq process, which reads its file
once, when it starts.

What is hard here, and what correctness means for each component:

- **LAN configuration**: a failed get is ignored, one field is never
  initialised. Correct: what dnsmasq ends up serving is exactly what the
  provider asked for (`StartServes`).
- **Configuration file**: the loops handle files of different lengths, limits of
  two interfaces, and lines that swallow the next one. Correct: the comparison
  is exact on the files it is given (`ExactCompare`, `CompareFilesExact`), an
  edited file serves no range (`DnsOnlySilences`).
- **Server API**: each call is a chain of system calls, every one of which may
  fail, with dnsmasq exiting or the manager being killed in between. Correct:
  dnsmasq runs what is installed unless a named failure is to blame
  (`StaleOnlyAfterFault`); each of the two `killall`s interrupts it only for a
  reason (`RestartsOnlyForChange`, `StopKillsOnlyServing`); a start gets the installed
  file right, whatever an earlier call cut short has left (`StartInstalls`).
- **State machine**: `Stopv4s` reenters the dispatcher before its own transition
  is done; failures are ignored in four places. Correct: a handled request
  leaves the machine where the next one is accepted (`RestIsIdle`), announces a
  whole sequence (`PublishedSequence`), ends (`RequestCompletes`), and a stop
  leaves no range (`StopSilences`).
- **rbus layer and main thread**: the set handler is registered before main has
  published Ready and Idle, so a request may already run; open, registration and
  publishes may fail and nobody looks; the manager may be killed with a
  subscriber told that it is busy. Correct: what a subscriber is told follows
  the table (`StatesFollow`) and ends in Idle (`ToldIdleAtRest`, `BusyEnds`), and
  every set is answered (`SetReturns`).
- **Test client and provider**: the client blocks in its event handler while the
  manager publishes to it, and a second thread of it may be waiting too.
  Correct: Ready leads to the LAN being served (`ReadyServes`), or installed after
  a crash (`ReadyInstalls`), and no thread waits for ever (`SetReturns`).
- **The whole**: a request that meets no trouble is over only when what it asked
  for is served (`ImplementsService`).

`PROJECT.json` lists each hazard at its line with the properties aimed at it.

## 2. Modules

| Module | Extends | Models |
|---|---|---|
| `LanConfig` | | the provider's documents, parsing, filling the interface configurations |
| `DhcpConf` | | a configuration file as a sequence of lines; writing, comparing, editing, scanning |
| `DhcpServerV4` | both | the API calls, one action per system call, with failures, dnsmasq exits and crashes; its specification `ServerSpec` lets any caller call |
| `DhcpMgrFSM` | `DhcpServerV4` | the callback thread: table, dispatcher, actions, dispatchers; `Spec` |
| `DhcpService` | | abstract: configurations as sets of (bridge, range) pairs, offered, prepared, installed, served |
| `DhcpMgr` | `DhcpMgrFSM` | the process on the bus: main, the set handler, publishing, calls, subscribers, kills; `MgrSpec` |
| `DhcpSystem` | `DhcpMgr` | the manager with the test clients and the provider; `SysSpec` |
| `DhcpConfLoops` | `DhcpConf` | the C loops, line by line, beside the closed forms |
| `MCDhcpMgrFSM`, `MCDhcpMgr`, `MCDhcpSystem`, `MCDhcpConfLoops` | | instances for TLC |
| `DhcpConfProofs`, `DhcpServerV4Proofs`, `DhcpMgrFSMProofs`, `DhcpServiceProofs`, `DhcpMgrProofs`, `DhcpSystemProofs`, `DhcpConfLoopsProofs` | the module they are named after, and each other in this order (the last: `DhcpConfProofs`) | theorems |

`ServerSpec` is both a component and the abstract specification of the manager:
it fixes what the API does and leaves open who calls it when. The theorem
`Implements` (`SafeSpec => ServerSpec`) shows that the manager is one such caller, so
what is proved of the API holds of the manager.

`DhcpMgrFSM` implements `DhcpService` (`ImplementsService`, run `crash`; its safety is
the theorem `ServiceImplemented`). The
mapping reads the abstract state off the files and the process: a configuration
is the set of (bridge, pool) pairs of its `interface=` lines that are followed by
a `dhcp-range=` line (`Served`); `offered` is what the provider's last document
enables (`Wanted`), `prepared` the local file, `installed` the installed one,
`serving` what dnsmasq has read, `phase` the request in progress, and `trouble` a
failure since the request, or an earlier one that left dnsmasq stale. The chain of
system calls maps to single abstract steps or to stuttering; the abstract
`Finish` is the promise.

`DhcpMgr` and `DhcpSystem` extend `DhcpMgrFSM` rather than copy it: their steps of
the callback thread are its steps, with the publishes and answers added.

### How state and actions correspond to the code

- `conf`, `local`, `stopTmp`: the three files. A file is there or not, and is a
  sequence of lines; a line is a keyword, its arguments and the number of `#`
  before it. A bridge's start address, end address and lease time are one value
  (`pool`). The fourteen constant lines at `dhcp_server_v4_apis.c:217-230` are one.
- `dnsmasq`: whether it runs, the lines it read and the options it was given.
- `call`: where the API call in progress stands. `args`, `pid`: its locals.
  `StartPid`, `StartCompare`, `StartCopy`, `StartWrite`, `StartRemove`,
  `StartKill`, `StartExec` are `dhcpServerStart` from top to bottom; `StopScan`,
  `StopKill`, `StopRemove`, `StopExec` are `dhcpServerStop(NULL, 0)`.
- `mainState`, `sCmdArgs`, `ppDhcpCfgs`: the globals. `pc`, `stack`: the callback
  thread. A frame of the stack is one call of a table action by
  `DispatchDHCP_SM`: the state to assign when it returns 0 and where its caller
  goes on.
- `mainPc`, `bus`: where main stands and how far `rbusHandle` got. `MainOpens`,
  `MainRegisters`, `MainSignalsReady`, `MainPublishesIdle` are main and
  `DhcpMgr_Rbus_Init` from top to bottom; then main only sleeps.
- `sets`, `handling`, `caller`: the sets rbus has not handed over, the one the
  handler runs for, and what each calling thread knows. `HandleSet` is the set
  handler's comparison with its three branches, `HandlerStep` a step of the
  request with the publish it makes, `HandlerReturns` the answer.
- `subscribed`, `ready`, `told`: who gets which event, the Ready signals not yet
  taken, and the state each subscriber was last told of. `lost`, `early` and
  `crashes` are histories.
- `client`, `provider`: where the main threads of the two test programs stand. A
  client's `event_handler` is `EventHandler`, on a caller of its own.
- `faulted`, `failed`, `request`, `lan`, `published` are histories used by the
  properties; no guard of the code depends on them.

Abstractions to know about:

- rbus is external. Set callbacks are delivered one at a time and in the order
  of the calls (rbus runs them on one thread per handle), so a request begins
  only when no other is being handled. A publish does not wait for its
  subscribers. A set that its caller has given up is handled all the same. After
  a crash of the manager rbus may still know its subscribers, or not.
- Of the states a subscriber is told only the last is kept, because the test
  client only prints them. Ready signals are counted.
- The values of the property that the set handler ignores are one, `"restart"`. A
  value that is not a string makes `strcmp` read NULL
  (`dhcpmgr_rbus_apis.c:152-154`); its effect, the end of the process, is the one of
  `ProcessCrash`, which may come at any moment.
- `dhcpServerInit`'s and `dns_only`'s writes to `/tmp` are one step. The copy
  over the installed file is two: truncated, then written; a partly written
  file is represented by the empty one. Writing to a file that is open
  (`fputs`, `fprintf`) does not fail, and the code does not look whether it did.
- Two uninitialised reads are choices: the subnet mask of a payload
  (`Masks`) and the line buffers of `compareFiles` (`StackLines`).
- An allocation that fails inside `AllocateDhcpInterfaceConfig`'s loop is
  followed by a dereference of NULL, which is the action `Crash`. One that
  fails for the array itself leads to `dhcpServerInit`'s NULL check.
- `executeCmd` also accepts a failure when `errno` happens to be `ECHILD`; it is
  never set to that by these commands and the case is left out.
- A killed dnsmasq is gone at once. One that lingers makes the next start fail,
  which is the failure `exec`.

## 3. Runs

| Run | States | What it asks |
|---|---|---|
| `crash` | 719,073 | starts and stops in any order with every failure, two at a time, dnsmasq exits, and the manager killed anywhere; also whether the manager implements `DhcpService` |
| `lan` | 14,983 | no failure: LANs of 0, 2 and 3 bridges, a disabled one, both contents of the uninitialised mask, repeated stops |
| `loops` | 4,665 | closed forms against C loops on every file of up to four lines |
| `startup` | 2,328,802 | main beside requests, failing publishes and allocations, a failing start-up, dnsmasq exits, the manager killed anywhere |
| `autostart` | 100,977 | manager, client and provider in any order, a user typing any command |
| `recovers` | 142,468 | the same programs with the manager killed up to twice, timeouts, and programs that fail or quit; the only command of the user is `quit` |
| `retries` | 176,193 | the same programs with timeouts: the sets of both threads of a client may be given up and handled all the same, and the user types `start` again |
| `stopstub`, `noconf`, `threebridges`, `leftalone`, `initialstate` | | expected violations, section 5 |

What they show:

- `StaleOnlyAfterFault`: between calls a running dnsmasq has read the installed
  file, unless a file under `/tmp`, `remove`, `killall` or `popen` failed, or the
  manager was killed, since dnsmasq was last started. These five are real:
  `dhcpServerStart` installs the file first, and a start that gives up after
  that is not healed by repeating it (the files are then equal and dnsmasq runs).
- `RestartsOnlyForChange`: `dhcpServerStart` kills dnsmasq only when the installed file
  is not the one it read, or after such a failure, or when a file to compare could
  not be opened. It says nothing of `dhcpServerStop`, whose own `killall`
  (`dhcp_server_v4_apis.c:592`) hits a dnsmasq that is up to date in every ordinary
  stop.
- `StopKillsOnlyServing` is about that one: it hits dnsmasq only while it serves a
  range, or after such a failure (run `lan` has repeated stops and no
  failures; with them it is proved, section 4). A repeated stop does not reach it. Such a stop
  interrupts dnsmasq all the same, once: `Stopv4s` goes on to `dns_only`, which adds
  another `#`, and `dhcpServerStart` takes the longer line for a new configuration.
- `StartServes`, `StopSilences`: the effect of a request in which nothing fails,
  on whatever was installed and running before, including earlier failures
  that did not leave dnsmasq stale.
- `StartInstalls`: a start heals the files. `copyFile` opens its output before it
  knows that it has an input (`dhcp_server_v4_apis.c:113`), so a failed open, a
  failed allocation or a crash leaves an empty file, and the dnsmasq started next
  serves nothing. That is what the code does, and no text of the repository says
  otherwise. The property says that it does not last beyond the next start
  that can open its files and allocate: whatever failed earlier, and whatever else
  fails in this start, the installed file is then what the provider asked for. It
  excuses only failures of the same request.
- `StaleOnlyAfterFault`, `StopSilences`, `ImplementsService` and `ReadyInstalls` name the
  failures that they excuse: they show that nothing else leads to a stale process
  or an unserved LAN, not that these failures are handled.
- `RestIsIdle`, `PublishedSequence`: whatever fails. `Startv4s` reports success
  always, so a start whose dnsmasq did not come up publishes the same states as
  one whose did.
- `PlainIsTransient`: the options of `dhcpServerStop`'s own restart do not outlast
  the stop, unless one of seven failures kept the next start from happening.
- `RequestCompletes`: liveness, below.
- `ImplementsService`: the same promise as `StartServes` and `StopSilences`, but of
  the whole way there: nothing is served that was not installed, nothing
  installed that was not prepared for this LAN, `dnsmasq` only comes up from down
  and only with what is installed at that moment, and every request is over some
  time.
- `ToldIdleAtRest`: however main's Idle and a request's states interleave, and
  after a crash in the middle of one, a subscriber was last told Idle, unless the
  publish of that state failed. `StatesFollow`: over any number of requests,
  what requests tell follows the table. It excuses a request that began before
  main had published its Idle, which `initialstate` shows to be necessary.
- `SetReturns`: a set that a thread of a client waits for, the main thread's or
  `event_handler`'s, is answered. In `retries` a set that was given up is
  still handled, before or after the one that repeats it, and `ReadyInstalls` says
  that the Ready signal has its effect all the same.
- `BusyEnds`, `ReadyServes`, `ReadyInstalls`, `SetReturns`: liveness, with the fairness
  below. `ReadyInstalls` says less of dnsmasq than `ReadyServes` because a manager
  killed between the copy and the kill of dnsmasq never tells it to read the new
  file, not even when it is started again with success (section 5, `leftalone`).

Bounds and why they are enough:

- `MaxFaults` = 2: distinct kinds of failure outstanding at once (since the last
  start of dnsmasq or the last request). Two are needed for one failure to leave
  a state that another meets (a failed remove, then an exit of dnsmasq).
- `MaxHashes` = 1 or 2: a stop is accepted while no installed line has that many
  `#`. Every stop adds one to the same lines and only the first matters to any
  condition of the code; the bound keeps the state space finite. Starts in
  between reset the count, so runs are unbounded in length. It is 2 in `lan`,
  where a stop may follow a stop.
- `Replies`: one bridge, and two of which the first is disabled, in the runs with
  failures; the test provider's three and the empty LAN without.
- `MaxLength` = 4, `MaxEdits` = 2: a file of four lines holds two interface and
  two range lines in any order, or three interfaces and a range, past both
  limits of `dns_only`.
- The initial installed file is none or any that `dhcpServerInit` can have written;
  dnsmasq is not running.
- `MaxSets` = 1 or 2: sets waiting behind the one being handled. `rbus_setStr`
  blocks its caller, so the two threads of one client have two under way; with
  timeouts (`recovers`, `retries`) a set that was given up takes a place of its own.
- `MaxCrashes` = 1 or 2 where the manager is killed at all: the second kill hits a
  start-up or a request that follows a first one. Liveness is asked of managers
  that are killed finitely often; one that is always killed before it has
  served anything does not serve.
- One client with two threads, and one bridge: what clients do to each other goes
  through the queue of sets, which two callers already fill in every order.

Deadlock is checked in every run of `DhcpMgrFSM`, `DhcpMgr` and in `autostart`; the
machine of `DhcpConfLoops` stops after `MaxEdits` edits, and in `recovers` and `retries` all
clients and the provider may have quit, after which nothing happens any more.

Fairness: `WF_vars(ThreadStep)`, and in the larger modules weak fairness of main
(`MainStep`), of the callback thread with its answers (`CallbackStep`), of what a
client's main thread does without its user (`ClientRuns`) and of its
`event_handler` (`EventHandler`). The callback thread is scheduled by the operating
system and every system call and rbus call it makes returns (`system`, `popen`
and `rbus_get` have no unbounded retry around them in the code). Nothing is
assumed of the environment: no request, exit, failure, timeout or crash has to
happen, no user has to type, and the provider need not be started (a get then
fails, which the properties name).

Each property has a mutant, a plausible bug in one definition, that the same run
must detect (`PROJECT.json`, "mutants"). They are defined beside the definition
they replace, marked "Mutant".

## 4. Proofs

The theorems hold for every value of the constants (any provider, any set of
failures, any number of clients, sets, kills and edits), from the modules' named
assumptions: `RepliesAssumption` (what the provider keeps), `EmptyAssumption`
(`"" \in STRING`, a fact the provers are not told), `MasksAssumption`,
`FaultsAssumption`, `StackLinesAssumption`, `MaxHashesAssumption`, `BusAssumption`,
`CommandsAssumption`, `FileLinesAssumption` and `BoundsAssumption`. TLC evaluates each
of them in the runs.

Every invariant that a passing run checks is a theorem, and so are the action
properties; `PROJECT.json`, "theorems", names the property of each. The
specifications proved about are those without fairness (`SafeSpec`, `MgrSafeSpec`,
`SysSafeSpec`), which `Spec`, `MgrSpec` and `SysSpec` imply. All the inductive
invariants below were checked by TLC before they were proved.

**`DhcpConfProofs`**, the files.

- `DnsOnlySilences`: `dns_only` leaves no active range in any file. The counter
  `iter` never passes 2 (`IterRange`), and ranges are commented out below 3, so the
  limit that lets an interface line through never lets a range through.
- `CompareFilesExact`: on files of equal length `compareFiles` is equality, whatever
  the buffers hold. `CompareShapedExact`: also on files of different lengths, if
  they have the shape the program writes (`Shaped`: nothing, or the two header
  lines and pairs of an interface and a range). At the end of the shorter file
  its last line, a range or the header's, is compared with the next of the longer,
  an interface; an empty file's unread buffer is compared with two different
  lines.
- Lemmas on what `dhcpServerInit` writes: `Laid` describes the concatenation of its
  parts line by line; from it follow the shape of the file and, in
  `DhcpServiceProofs`, that it serves what its configurations enable
  (`WrittenServes`).

**`DhcpServerV4Proofs`**, the server API under every caller.

- `StaleOnlyAfterFaultAlways` and `RestartsOnlyForChangeAlways` from `RunsInv`. The
  properties speak of the moments between calls or before a kill; the invariant
  follows `dhcpServerStart` in between: the installed file is there from the copy
  on (`ConfThere`), the local one from `dhcpServerInit` on (`LocalThere`), what was
  found as pid explains a dnsmasq that is still running (`PidFound`), a copy is made
  only of a file that differs (`CopyDiffers`), and dnsmasq is fresh or a failure is
  to blame (`Fresh`, `Outdated`).
- `ExactCompareAlways` from `FilesShaped`: both files stay in shape through writing,
  editing, a copy cut short and a crash.
- `StopKillsOnlyServingAlways` from `StopScanned`: when `dhcpServerStop` has decided to
  kill dnsmasq, the installed file has an active range (`ScanFindsRange`: the scan counts an
  interface only with a range on the next line). By
  `Fresh` a running dnsmasq has read that file, or a failure is to blame.

**`DhcpMgrFSMProofs`**, the callback thread.

- `Implements` (`SafeSpec => ServerSpec`) carries all of the above to the manager.
- `RestIsIdleAlways`, `PublishedSequenceAlways` and `TypeCorrect` from `ThreadInv`:
  `Control` gives, for each place the thread can stand at, the state, the frames on
  the stack and whether an API call is pending (this is where the reentrance of
  `Stopv4s` is resolved: its nested dispatches always find rows because its own has
  not been assigned), and `Reported` gives what has been published so far.
- `StopSilencesAlways` from `StopInv`: during a stop without failures either the
  configuration to be started is silent, or the running dnsmasq is.

**`DhcpServiceProofs`**, the promise to the LAN.

- `StartServesAlways` from `Fetched` and `Serving`: at each step of a start without
  failures the provider's document has come one file further, from the fetched
  list to the local file, the installed one and the process. That a start which
  finds equal files may leave dnsmasq alone rests on `ExactCompare` and `Fresh`.
- `StartInstallsAlways` from `Installing`, the part of `Serving` that holds of the files
  alone: from `dhcpServerInit` on the local file, and from the comparison or the copy
  on the installed one, serves what was fetched. No assumption is made on what
  happened before the request, because `dhcpServerInit` truncates the local file
  and `ExactCompare` holds of an installed file that was cut short.
- `PlainIsTransientAlways` from `PlainInv`: a dnsmasq that `dhcpServerStop` restarted
  runs a file with an active range (`ScanFindsRange`), the file that `Stopv4s` then
  prepares has none, so `compareFiles` tells them apart and the process is replaced.
- `ServiceImplemented` (`SafeSpec => Service!SafeSpec`): the refinement of
  `DhcpService`, by `RefineNext`, one case for each step of the manager. A lemma for
  each action of the service (`MapAsk`, `MapOffer`, `MapPrepare`, ...) says which
  changes of files and process amount to it. `ServiceImplementedIfLive` adds the
  service's liveness from `RequestCompletes`.

**`DhcpMgrProofs`**, the process on the bus.

- `MgrImplements` (`MgrSafeSpec => SafeSpec`): the callback thread does what
  `DhcpMgrFSM` says, because everything else leaves its variables alone and the set
  handler lets only `start` and `stop` through. `MgrRestIsIdle`, `MgrStopSilences`,
  `MgrStartServes` and `MgrGivesService` carry results over.
- `ToldIdleAtRestAlways` and `StatesFollowAlways` from `ToldInv`: a request runs only
  while its set is handled (`Handled`); one that began after main's last publish
  has the states to itself (`AfterMain`); and what a subscriber was told last is
  determined by what the request has published so far (`ToldLast`), by way of the
  lemma `Publishes`, which reads off `ThreadInv` what each step of the thread adds.
- `MgrTypeCorrect` from `CallsOK`: a caller that waits is named by exactly one set,
  in the queue or in the handler, and one that does not wait by none. This is an
  invariant of the queue as a whole; `TakenAwaited` and `AddedAwaited` say how the
  positions at which a caller waits move when a set is taken or added.

**`DhcpSystemProofs`**, with clients and provider.

- `SysTypeCorrect`, `SysToldIdleAtRest` from the invariants of `DhcpMgr` and
  `ClientsOK`: the main thread of a client waits only in a set it makes, and one
  that is not on the bus (`Absent`) waits for nothing, subscribes to nothing and is
  told nothing. `SysNext` does not refine `MgrNext` step by step (a client that quits
  is unsubscribed and gives up its calls at once, `event_handler` takes a signal
  and makes a set at once), hence the invariants are shown again for its steps;
  the manager's own are taken from `DhcpMgrProofs`.
- `SysImplements` (`SysSafeSpec => SafeSpec`): for the callback thread the steps do
  match, and `SysStartServes`, `SysStartInstalls` and `SysGivesService` follow.

**`DhcpConfLoopsProofs`**, the C loops.

- `DnsOnlyLoop`, `CompareLoop` and `StopScanLoop`: for every file, of any length, the
  loop computes the closed form that the other modules use. The induction
  theorems of the library, which take an operator, are out of reach of the
  installed provers; these proofs use induction as a statement about a set
  (`0 \in P` and `k \in P => k + 1 \in P`, so `Nat \subseteq P`, by the lemma
  `InductionOverNat`), with `P` the set of numbers of passes after which the loop
  has got as far as the closed form says. That the functions which the loops
  define recursively exist is proved first (`FoldExists`, `ReadsExists`, `RestExists`).
- `EditedIsSilentAlways` and `EditIsSeenAlways` from `EditsInv`: edits keep keywords and
  only add `#`; if anything can be commented out, the first edit does.

Only model-checked: what needs fairness. These are `RequestCompletes`, and with it
the liveness half of `ImplementsService`; `BusyEnds`; `ReadyServes`, `ReadyInstalls` and
`SetReturns`. The provers have no rule for `ENABLED`, which weak fairness is
defined by.

## 5. Where comments and code disagree

Five runs are expected to end in a violation, each of one statement taken from
the repository's own text:

- `stopstub`: `dhcp_server_v4_apis.h:136`, "Stop DHCP server(s) for a specific
  interface or all interfaces". The copy that would install the edited file is
  commented out (`dhcp_server_v4_apis.c:598-604`); dnsmasq comes back serving
  what it served.
- `noconf`: `sm_DhcpMgr.c:125`, "stub function to write dns_only configuration".
  Without an installed configuration `dns_only` returns early and the stop
  starts a DHCP server.
- `threebridges`: `sm_DhcpMgr_apis.c:233`, "Stub to comment the interface and
  dcprange lines in dhcp conf file". With the test provider's three bridges one
  interface line stays. (No range does: `DnsOnlySilences`.)
- `leftalone`: `dhcp_server_v4_apis.c:425`, "No need to restart the dnsmasq
  process". Without any failure: a stop on a system without an installed
  configuration starts dnsmasq on the full DHCP configuration with the options
  for DNS only, and the next start finds equal files and leaves it alone. With
  one `killall` that failed, or a kill of the manager between the copy and the kill
  of dnsmasq, the process left alone has not even read the installed file.
- `initialstate`: `sm_DhcpMgr.c:234`, "Publish initial state". The set handler is
  registered earlier, and a subscriber may be told Idle right after Preparingv4.

Met on the way, and in the models, without a run of their own: main loops without
anything registered when `rbus_open` or `rbus_regDataElements` failed
(`sm_DhcpMgr.c:232`); the test client's `restart` is answered with success by a set
handler that ignores it (`dhcpmgr_rbus_apis.c:166`), although
`EventHandler_MainFSM` has a case for it.

## 6. Not modelled

- `dhcpServerStop` with a list of interfaces, the NULL-parameter checks and the
  RESTART, CONF_CHANGED and DHCPv6 cases of `EventHandler_MainFSM`: nothing calls
  them.
- `getProcessInfo`: on the only path called, its result is overwritten or unused.
- Memory: the leak of every prepare, an unchecked `num_entries`. `RepliesAssumption`
  states what the provider has to keep.
- Logging to `DHCPMgr.log`, printing, the Makefiles.
- What rbus does inside: delivery to subscribers beyond order and loss at the
  publish, discovery, and two programs that open it under one name, as the two
  of `Testapp/` do.
- SIGINT in the test client: it ends the program after the next command, as
  `quit` does.

## 7. Plan

Done: every module of section 2 with its runs; every invariant and action
property of the passing runs as a theorem; `DhcpService` refined by `DhcpMgrFSM`, and
through it by `DhcpMgr` and `DhcpSystem`.

Left, proofs:

1. `StatesFollow` of the whole system, where clients come and go (`DhcpMgr` has it);
   the same for `RestIsIdle` and `StopSilences`, which `SysImplements` gives.
2. The safety half of the liveness properties: a measure of the callback thread
   (frames, place, call) that every `ThreadStep` decreases, which is what
   `RequestCompletes` rests on besides fairness; that a set in the queue is never
   behind more than those before it, for `SetReturns`.
3. `ReadyInstalls` as a safety statement: what is installed once a request that
   followed the Ready signal is over.
