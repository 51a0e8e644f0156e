-------------------------------- MODULE DhcpMgr --------------------------------
(***************************************************************************)
(* The DHCP manager's process on the bus: main of sm_DhcpMgr.c beside the  *)
(* thread on which rbus calls the set handler, and the functions of        *)
(* dhcpmgr_rbus_apis.c that both use.  Other processes subscribe to the    *)
(* manager's two events and set its property, whenever they like.          *)
(*                                                                         *)
(* rbus is external: it calls the set handler for one set at a time, in    *)
(* the order of the calls, and gives an event published to each process    *)
(* that is subscribed at that moment.  A process that is told of a state   *)
(* does nothing but print it, so only what it was told last is kept; the   *)
(* ready signals wait until it takes them.                                 *)
(***************************************************************************)
EXTENDS DhcpMgrFSM

CONSTANTS
    Clients,    \* the processes that subscribe to events
    Callers,    \* their threads, which set properties
    BusFaults,  \* the calls of rbus that may fail
    MaxSets,    \* bound: sets pending when another is made
    MaxCrashes  \* bound: how often the manager is killed

BusFaultKinds ==
    { "open",       \* rbus_open
      "register",   \* rbus_regDataElements
      "publish",    \* rbusEvent_Publish
      "timeout" }   \* a caller gives up waiting for the answer of a set

ASSUME BusAssumption ==
    BusFaults \subseteq BusFaultKinds /\ MaxSets \in Nat /\ MaxCrashes \in Nat

VARIABLES
    mainPc,      \* where the main thread stands
    bus,         \* rbusHandle: "closed", "open", or "registered" with its elements
    sets,        \* the sets rbus has not yet handed to the handler
    handling,    \* the set the handler is called for: one or none
    caller,      \* what each calling thread knows of its last set
    subscribed,  \* the subscribers of each event
    ready,       \* the ready signals each process has not yet taken
    told,        \* history: the state each subscriber was last told of
    lost,        \* history: the last state published was told to nobody
    early,       \* history: the last request began before main was in its loop
    crashes      \* history: how often the manager was killed

callVars  == << sets, handling, caller >>
eventVars == << ready, told, lost >>
runVars   == << early, crashes >>
busVars   == << mainPc, bus, callVars, subscribed, eventVars, runVars >>
mgrVars   == << vars, busVars >>

Topics == {"StateReady", "State"}

\* What is published on the two topics: the ready signal, and states.
READY == "READY"

\* The property's values: "restart" stands for all that the handler ignores.
Values == {"start", "stop", "restart"}

\* A set and the caller waiting for its answer, if it still does.
Set(k, value) == [by |-> {k}, value |-> value]

-----------------------------------------------------------------------------
(* DhcpMgr_Publish_Events.  Its callers ignore a failure, which it is to    *)
(* publish what is not registered, but not to have no subscribers.          *)

DhcpMgr_Publish_Events(event) ==
    \/ /\ bus = "registered" /\ event = READY
       /\ ready' = [c \in Clients |->
                      IF c \in subscribed["StateReady"] THEN ready[c] + 1 ELSE ready[c]]
       /\ UNCHANGED << told, lost >>
    \/ /\ bus = "registered" /\ event # READY
       /\ told' = [c \in Clients |-> IF c \in subscribed["State"] THEN event ELSE told[c]]
       /\ lost' = FALSE
       /\ UNCHANGED ready
    \/ /\ bus # "registered" \/ "publish" \in BusFaults
       /\ lost' = (lost \/ event # READY)
       /\ UNCHANGED << ready, told >>

-----------------------------------------------------------------------------
(* The main thread.                                                        *)

\* DhcpMgr_Rbus_Init: without a handle nothing is registered; main ignores what
\* it returns.
MainOpens ==
    /\ mainPc = "open"
    /\ \/ bus' = "open" /\ mainPc' = "register"
       \/ "open" \in BusFaults /\ UNCHANGED bus /\ mainPc' = "ready"
    /\ UNCHANGED << vars, callVars, subscribed, eventVars, runVars >>

MainRegisters ==
    /\ mainPc = "register"
    /\ mainPc' = "ready"
    /\ \/ bus' = "registered"
       \/ "register" \in BusFaults /\ UNCHANGED bus
    /\ UNCHANGED << vars, callVars, subscribed, eventVars, runVars >>

MainSignalsReady ==
    /\ mainPc = "ready"
    /\ mainPc' = "idle"
    /\ DhcpMgr_Publish_Events(READY)
    /\ UNCHANGED << vars, bus, callVars, subscribed, runVars >>

\* Mutant: no initial state is published.
MainPublishesNothing ==
    /\ mainPc = "idle"
    /\ mainPc' = "loop"
    /\ UNCHANGED << vars, bus, callVars, subscribed, eventVars, runVars >>

MainPublishesIdle ==
    /\ mainPc = "idle"
    /\ mainPc' = "loop"
    /\ DhcpMgr_Publish_Events("IDLE")
    /\ UNCHANGED << vars, bus, callVars, subscribed, runVars >>

MainStep == MainOpens \/ MainRegisters \/ MainSignalsReady \/ MainPublishesIdle

-----------------------------------------------------------------------------
(* DhcpMgr_Event_SetHandler, on the callback thread.                       *)

\* What a caller learns when its set has been handled: the handler returns
\* RBUS_ERROR_SUCCESS whatever it did.
Answer(set) == caller' = [k \in Callers |-> IF k \in set.by THEN "ok" ELSE caller[k]]

\* Mutant: a value that does not match is not answered.
HandleSetSilently ==
    /\ bus = "registered" /\ pc = "rest" /\ handling = {} /\ sets # << >>
    /\ sets' = Tail(sets)
    /\ \/ /\ Head(sets).value \in {"start", "stop"}
          /\ EventHandler_MainFSM(Head(sets).value)
          /\ handling' = {Head(sets)}
          /\ early' = (mainPc # "loop")
       \/ Head(sets).value \notin {"start", "stop"} /\ UNCHANGED << vars, handling, early >>
    /\ UNCHANGED << mainPc, bus, caller, subscribed, eventVars, crashes >>

\* rbus calls the handler for the next set.  The values are strings: of any other
\* rbusValue_GetString returns NULL, strcmp does not come back from it, and the set
\* ends in ProcessCrash.
HandleSet ==
    /\ bus = "registered"
    /\ pc = "rest"
    /\ handling = {}
    /\ sets # << >>
    /\ sets' = Tail(sets)
    /\ LET set == Head(sets) IN
       \/ /\ set.value \in {"start", "stop"}
          /\ EventHandler_MainFSM(set.value)
          /\ handling' = {set}
          /\ early' = (mainPc # "loop")
          /\ UNCHANGED caller
       \/ /\ set.value \notin {"start", "stop"}
          /\ Answer(set)
          /\ UNCHANGED << vars, handling, early >>
    /\ UNCHANGED << mainPc, bus, subscribed, eventVars, crashes >>

\* A step of the request, publishing a state where dhcp_server_publish_state is
\* called.
HandlerStep ==
    /\ ThreadStep
    /\ IF Len(published') > Len(published)
         THEN DhcpMgr_Publish_Events(Last(published'))
         ELSE UNCHANGED eventVars
    /\ UNCHANGED << mainPc, bus, callVars, subscribed, runVars >>

\* Mutant: the request is over and its caller is not told.
HandlerReturnsUnanswered ==
    /\ pc = "rest"
    /\ handling # {}
    /\ handling' = {}
    /\ UNCHANGED << vars, mainPc, bus, sets, caller, subscribed, eventVars, runVars >>

HandlerReturns ==
    /\ pc = "rest"
    /\ \E set \in handling : Answer(set)
    /\ handling' = {}
    /\ UNCHANGED << vars, mainPc, bus, sets, subscribed, eventVars, runVars >>

CallbackStep == HandleSet \/ HandlerStep \/ HandlerReturns

-----------------------------------------------------------------------------
(* Other processes.                                                        *)

\* Stops ahead of a new set, each of which may add a '#' to a line.
PendingStops == Len(SelectSeq(sets, LAMBDA s : s.value = "stop"))
                + Cardinality({s \in handling : s.value = "stop"})

\* rbus_setStr: it fails at once when the manager has registered nothing, and
\* otherwise blocks its caller.
SetCall(k, value) ==
    /\ caller[k] # "waiting"
    /\ IF bus = "registered"
         THEN /\ Len(sets) < MaxSets
              /\ value = "stop" => \A n \in {0} \cup {l.hashes : l \in Range(conf.lines)} :
                                      n + PendingStops < MaxHashes
              /\ sets' = Append(sets, Set(k, value))
              /\ caller' = [caller EXCEPT ![k] = "waiting"]
         ELSE caller' = [caller EXCEPT ![k] = "failed"] /\ UNCHANGED sets
    /\ UNCHANGED handling

\* The callers in K wait no longer; what they have set is handled all the same.
Abandoned(K) ==
    /\ sets' = [i \in DOMAIN sets |-> [sets[i] EXCEPT !.by = @ \ K]]
    /\ handling' = {[s EXCEPT !.by = @ \ K] : s \in handling}

SetTimesOut(k) ==
    /\ "timeout" \in BusFaults
    /\ caller[k] = "waiting"
    /\ Abandoned({k})
    /\ caller' = [caller EXCEPT ![k] = "failed"]

\* rbusEvent_Subscribe succeeds once the manager has registered the event.  A new
\* subscriber has not been told anything.
Subscribe(c, topic) ==
    /\ bus = "registered"
    /\ subscribed' = [subscribed EXCEPT ![topic] = @ \cup {c}]
    /\ told' = IF topic = "State" THEN [told EXCEPT ![c] = NULL] ELSE told
    /\ UNCHANGED << ready, lost >>

\* What it was told, it may forget.
Unsubscribe(c) ==
    /\ subscribed' = [topic \in Topics |-> subscribed[topic] \ {c}]
    /\ told' = [told EXCEPT ![c] = NULL]
    /\ ready' = [ready EXCEPT ![c] = 0]
    /\ UNCHANGED lost

TakeReady(c) ==
    /\ ready[c] > 0
    /\ ready' = [ready EXCEPT ![c] = @ - 1]
    /\ UNCHANGED << told, lost >>

OthersStep ==
    \/ /\ \E k \in Callers : (\E value \in Values : SetCall(k, value)) \/ SetTimesOut(k)
       /\ UNCHANGED << subscribed, eventVars >>
    \/ /\ \E c \in Clients, topic \in Topics : c \notin subscribed[topic] /\ Subscribe(c, topic)
       /\ UNCHANGED callVars
    \/ \E c \in Clients : TakeReady(c) /\ UNCHANGED << callVars, subscribed >>
    \/ \E c \in Clients : Unsubscribe(c) /\ UNCHANGED callVars

-----------------------------------------------------------------------------
(* The process is killed, or kills itself on a set of something that is no *)
(* string, and is started again.  The calls in progress fail; whether rbus *)
(* still knows the subscribers is up to rbus.                              *)

ProcessCrash ==
    /\ Crash
    /\ crashes < MaxCrashes
    /\ crashes' = crashes + 1
    /\ mainPc' = "open"
    /\ bus' = "closed"
    /\ sets' = << >>
    /\ handling' = {}
    /\ caller' = [k \in Callers |-> IF caller[k] = "waiting" THEN "failed" ELSE caller[k]]
    /\ \/ UNCHANGED << subscribed, told >>
       \/ /\ subscribed' = [topic \in Topics |-> {}]
          /\ told' = [c \in Clients |-> NULL]
    /\ early' = FALSE
    /\ UNCHANGED << ready, lost >>

-----------------------------------------------------------------------------

MgrInit ==
    /\ Init
    /\ mainPc = "open"
    /\ bus = "closed"
    /\ sets = << >>
    /\ handling = {}
    /\ caller = [k \in Callers |-> "idle"]
    /\ subscribed = [topic \in Topics |-> {}]
    /\ ready = [c \in Clients |-> 0]
    /\ told = [c \in Clients |-> NULL]
    /\ lost = FALSE
    /\ early = FALSE
    /\ crashes = 0

MgrNext ==
    \/ MainStep
    \/ CallbackStep
    \/ OthersStep /\ UNCHANGED << vars, mainPc, bus, runVars >>
    \/ DnsmasqExits /\ UNCHANGED busVars
    \/ ProcessCrash

MgrSafeSpec == MgrInit /\ [][MgrNext]_mgrVars

\* Both threads are scheduled, and every rbus and system call they make returns.
MgrSpec == MgrSafeSpec /\ WF_mgrVars(MainStep) /\ WF_mgrVars(CallbackStep)

-----------------------------------------------------------------------------

\* The main thread and the handler stand where the code can stand, callers wait
\* exactly for the sets that name them, once each, and only states are told.
MgrTypeOK ==
    /\ mainPc \in {"open", "register", "ready", "idle", "loop"}
    /\ bus \in {"closed", "open", "registered"}
    /\ Len(sets) <= MaxSets
    /\ \A i \in DOMAIN sets : sets[i].value \in Values
    /\ handling = {} \/ \E K \in SUBSET Callers, v \in {"start", "stop"} :
                            handling = {[by |-> K, value |-> v]}
    /\ caller \in [Callers -> {"idle", "waiting", "ok", "failed"}]
    /\ \A k \in Callers :
         Cardinality({i \in DOMAIN sets : k \in sets[i].by})
           + Cardinality({s \in handling : k \in s.by}) = IF caller[k] = "waiting" THEN 1 ELSE 0
    /\ subscribed \in [Topics -> SUBSET Clients]
    /\ ready \in [Clients -> 0..(MaxCrashes + 1)]
    /\ told \in [Clients -> States \cup {NULL}]
    /\ lost \in BOOLEAN /\ early \in BOOLEAN /\ crashes \in 0..MaxCrashes

\* Once the manager is at rest, a subscriber that was told of a state was last
\* told of IDLE, unless the publish of that state failed: however the initial
\* IDLE of main and the states of a request interleave, and after a crash in the
\* middle of a request, which main makes good (dhcp_server_publish_state).
ToldIdleAtRest ==
    mainPc = "loop" /\ handling = {} /\ ~lost
    => \A c \in Clients : told[c] \in {NULL, "IDLE"}

\* The states that follow one another in the table, as a subscriber sees them.
Follows == { << "IDLE", "PREPARINGv4" >>, << "PREPARINGv4", "STARTINGv4" >>,
             << "STARTINGv4", "IDLE" >>,
             << "IDLE", "STOPPINGv4" >>, << "STOPPINGv4", "IDLE" >> }

\* The states that requests tell a subscriber, over any number of requests and
\* callers and whatever fails in them, follow one another as in the table, from
\* the IDLE of main on; unless a publish failed or the request began before main
\* had published its IDLE (gSM_StateObj and the dispatchers).
StatesFollow ==
    [][~lost /\ ~early /\ Len(published') > Len(published) =>
         \A c \in Clients :
             told[c] # NULL /\ told'[c] # told[c] => << told[c], told'[c] >> \in Follows]_mgrVars

\* A subscriber told that the manager is busy is told of IDLE some time, if
\* publishing does not fail (event_Dispatcher_startv4, event_Dispatcher_stopv4).
BusyEnds ==
    \A c \in Clients : told[c] \notin {NULL, "IDLE"} ~> told[c] \in {NULL, "IDLE"}

-----------------------------------------------------------------------------
(* What comments of the source say and the code does not do.               *)

\* sm_DhcpMgr.c:234, "Publish initial state": the IDLE of main comes before the
\* states of any request.  A request may be running by then, and a subscriber is
\* told IDLE right after PREPARINGv4.
InitialStateIsFirst ==
    [][\A c \in Clients : told[c] = "PREPARINGv4" => told'[c] # "IDLE"]_mgrVars
=============================================================================
