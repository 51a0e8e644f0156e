--------------------------- MODULE DhcpSystemProofs ---------------------------
(***************************************************************************)
(* The manager in the company of its clients and of the provider.  Their   *)
(* programs do in one step what DhcpMgr does in two (a client that ends    *)
(* unsubscribes and gives up its calls; the event handler takes a signal   *)
(* and sets), so the invariants of DhcpMgr are shown again for each.       *)
(***************************************************************************)
EXTENDS DhcpSystem, DhcpMgrProofs

MgrInv == ThreadInv /\ BusOK /\ ToldInv /\ CallsOK

\* Before a client has opened its handle and after it has ended, none of its
\* threads waits, no signal is kept for it and it has no subscription.
Absent(c) ==
    /\ caller[event(c)] # "waiting"
    /\ ready[c] = 0
    /\ \A topic \in Topics : c \notin subscribed[topic]

ClientsOK ==
    /\ client \in [Clients -> {"open", "subscribe State", "subscribe Ready", "command",
                               "set", "gone"}]
    /\ provider \in {"off", "open", "registered", "deaf", "gone"}
    /\ \A c \in Clients : /\ caller[main(c)] = "waiting" => client[c] = "set"
                          /\ client[c] \in {"open", "gone"} => Absent(c)

SysInv == MgrInv /\ ClientsOK

\* The threads of a client are two, and no other client's.
LEMMA ClientThreads ==
    ASSUME NEW c \in Clients
    PROVE  /\ main(c) \in Callers /\ event(c) \in Callers
           /\ \A d : main(c) # event(d) /\ (main(c) = main(d) => c = d)
                     /\ (event(c) = event(d) => c = d)
BY CommandsAssumption DEF main, event

\* Nobody is on the bus at start-up.
LEMMA SysStart == SysInit => SysInv
<1> SUFFICES ASSUME SysInit PROVE SysInv
  OBVIOUS
<1>1. MgrInv
  BY ThreadInit, BusInit, ToldInit, CallsInit DEF SysInit, MgrInv, MgrInit
<1>2. /\ client = [c \in Clients |-> "open"] /\ provider = "off"
      /\ caller = [k \in Callers |-> "idle"] /\ ready = [c \in Clients |-> 0]
      /\ subscribed = [topic \in Topics |-> {}]
  BY DEF SysInit, MgrInit
<1>3. \A c \in Clients : caller[main(c)] # "waiting" /\ Absent(c)
  BY <1>2, ClientThreads DEF Absent
<1> QED BY <1>1, <1>2, <1>3 DEF SysInv, ClientsOK

\* What a step of the manager keeps.
LEMMA MgrInvKept == MgrInv /\ [MgrNext]_mgrVars => MgrInv'
<1> SUFFICES ASSUME MgrInv, [MgrNext]_mgrVars PROVE MgrInv'
  OBVIOUS
<1>1. [Next]_vars
  BY MgrStep DEF mgrVars
<1> QED BY <1>1, ThreadNext, BusNext, ToldNext, CallsNext DEF MgrInv

\* What the manager does, and what becomes of it, has no client wait that did not,
\* subscribes none, and signals subscribers only.
ManagerActs ==
    \/ MainStep \/ CallbackStep \/ ProcessCrash
    \/ DnsmasqExits /\ UNCHANGED busVars

\* The manager makes nobody wait or subscribe, and signals only subscribers.
LEMMA ManagerKeeps ==
    ASSUME BusOK, CallsOK, ManagerActs
    PROVE  /\ \A k \in Callers : caller'[k] = "waiting" => caller[k] = "waiting"
           /\ \A topic \in Topics : subscribed'[topic] \subseteq subscribed[topic]
           /\ \A c \in Clients : ready'[c] # ready[c] => c \in subscribed["StateReady"]
<1> DEFINE Kept == /\ \A k \in Callers : caller'[k] = "waiting" => caller[k] = "waiting"
                   /\ \A topic \in Topics : subscribed'[topic] \subseteq subscribed[topic]
                   /\ \A c \in Clients : ready'[c] # ready[c] => c \in subscribed["StateReady"]
<1>1. CASE UNCHANGED << callVars, subscribed, ready >>
  BY <1>1 DEF callVars
<1>2. CASE MainSignalsReady
  <2>1. UNCHANGED << callVars, subscribed >> /\ DhcpMgr_Publish_Events(READY)
    BY <1>2 DEF MainSignalsReady
  <2>2. \A c \in Clients : ready'[c] # ready[c] => c \in subscribed["StateReady"]
    BY <2>1 DEF DhcpMgr_Publish_Events
  <2> QED BY <2>1, <2>2 DEF callVars
<1>3. CASE MainOpens \/ MainRegisters
  BY <1>1, <1>3 DEF MainOpens, MainRegisters, eventVars
<1>4. CASE MainPublishesIdle
  <2>1. ready' = ready
    BY <1>4, PublishesStates DEF MainPublishesIdle, States
  <2> QED BY <1>1, <1>4, <2>1 DEF MainPublishesIdle
<1>5. CASE HandleSet \/ HandlerReturns
  <2>1. UNCHANGED << subscribed, ready >>
    BY <1>5 DEF HandleSet, HandlerReturns, eventVars
  <2>2. UNCHANGED caller \/ \E set : Answer(set)
    BY <1>5 DEF HandleSet, HandlerReturns
  <2>3. \A k \in Callers : caller'[k] = "waiting" => caller[k] = "waiting"
    BY <2>2 DEF Answer
  <2> QED BY <2>1, <2>3
<1>6. CASE HandlerStep
  <2>1. UNCHANGED << callVars, subscribed >>
    BY <1>6 DEF HandlerStep
  <2>2. \A c \in Clients : ready'[c] # ready[c] => c \in subscribed["StateReady"]
    BY <1>6 DEF HandlerStep, DhcpMgr_Publish_Events, eventVars
  <2> QED BY <2>1, <2>2 DEF callVars
<1>7. CASE ProcessCrash
  <2>1. ready' = ready
        /\ caller' = [k \in Callers |-> IF caller[k] = "waiting" THEN "failed" ELSE caller[k]]
    BY <1>7 DEF ProcessCrash
  <2>2. subscribed' = subscribed \/ subscribed' = [topic \in Topics |-> {}]
    BY <1>7 DEF ProcessCrash
  <2> QED BY <2>1, <2>2
<1>8. CASE DnsmasqExits /\ UNCHANGED busVars
  BY <1>1, <1>8 DEF busVars, eventVars
<1> QED BY <1>2, <1>3, <1>4, <1>5, <1>6, <1>7, <1>8 DEF ManagerActs, MainStep, CallbackStep

\* A client that is absent stays so, and a thread of main that waits is in a set,
\* when no client takes a step.
LEMMA ClientsUndisturbed ==
    ASSUME BusOK, ClientsOK, ManagerActs, CallsOK, UNCHANGED << client, provider >>
    PROVE  ClientsOK'
<1>1. ASSUME NEW c \in Clients, Absent(c) PROVE Absent(c)'
  <2>1. "StateReady" \in Topics
    BY DEF Topics
  <2> QED BY <1>1, <2>1, ManagerKeeps, ClientThreads DEF Absent, event
<1>2. \A c \in Clients : caller'[main(c)] = "waiting" => caller[main(c)] = "waiting"
  BY ManagerKeeps, ClientThreads
<1> QED BY <1>1, <1>2 DEF ClientsOK, main

-----------------------------------------------------------------------------
(* The steps of the clients, of the provider and of rbus.                  *)

\* Nothing that MgrInv is about.
LEMMA MgrInvStutter == MgrInv /\ UNCHANGED mgrVars => MgrInv'
BY MgrInvKept

\* What leaves the manager's own variables alone leaves its thread where it is.
LEMMA ThreadKept == ThreadInv /\ UNCHANGED vars => ThreadInv'
BY ThreadNext

\* A client's step in its main thread, seen by the clients.
LEMMA ClientsMove ==
    ASSUME ClientsOK, BusOK, CallsOK, NEW c \in Clients, UNCHANGED provider,
           NEW next \in {"open", "subscribe State", "subscribe Ready", "command", "set", "gone"},
           client' = [client EXCEPT ![c] = next],
           \A d \in Clients : d # c =>
               /\ caller'[main(d)] = "waiting" => caller[main(d)] = "waiting"
               /\ Absent(d) => Absent(d)',
           caller'[main(c)] = "waiting" => next = "set",
           next \in {"open", "gone"} => Absent(c)'
    PROVE  ClientsOK'
<1>1. /\ client' \in [Clients -> {"open", "subscribe State", "subscribe Ready", "command",
                                  "set", "gone"}]
      /\ \A d \in Clients : client'[d] = IF d = c THEN next ELSE client[d]
  BY DEF ClientsOK
<1>2. ASSUME NEW d \in Clients
      PROVE  /\ caller'[main(d)] = "waiting" => client'[d] = "set"
             /\ client'[d] \in {"open", "gone"} => Absent(d)'
  BY <1>1 DEF ClientsOK
<1> QED BY <1>1, <1>2 DEF ClientsOK, main

\* A client opens rbus.
LEMMA ClientOpensKeeps == ASSUME SysInv, NEW c \in Clients, ClientOpens(c) PROVE SysInv'
<1>1. UNCHANGED mgrVars /\ UNCHANGED provider
  BY DEF ClientOpens
<1>2. UNCHANGED << caller, ready, subscribed >>
  BY <1>1 DEF mgrVars, busVars, callVars, eventVars
<1>3. PICK next \in {"subscribe State", "gone"} :
        client[c] = "open" /\ client' = [client EXCEPT ![c] = next]
  BY DEF ClientOpens, At
<1>4. \A d \in Clients : Absent(d) => Absent(d)'
  BY <1>2 DEF Absent, event
<1>5. Absent(c) /\ caller[main(c)] # "waiting"
  BY <1>3 DEF SysInv, ClientsOK
<1>6. ClientsOK'
  BY <1>1, <1>2, <1>3, <1>4, <1>5, ClientsMove DEF SysInv, MgrInv
<1> QED BY <1>1, <1>6, MgrInvStutter DEF SysInv

\* A client subscribes to an event.
LEMMA ClientSubscribesKeeps ==
    ASSUME SysInv, NEW c \in Clients, NEW topic \in Topics,
           NEW here \in {"subscribe State", "subscribe Ready"},
           NEW next \in {"subscribe Ready", "command"},
           ClientSubscribes(c, topic, here, next)
    PROVE  SysInv'
<1>1. /\ client[c] = here /\ client' = [client EXCEPT ![c] = next]
      /\ UNCHANGED << vars, mainPc, bus, callVars, runVars, provider >>
      /\ Subscribe(c, topic) \/ UNCHANGED << subscribed, eventVars >>
  BY DEF ClientSubscribes, At
<1>2. UNCHANGED << caller, handling, ready >>
  BY <1>1 DEF Subscribe, eventVars, callVars
<1>3. \A d \in Clients \ {c}, t \in Topics : d \in subscribed'[t] => d \in subscribed[t]
  BY <1>1 DEF Subscribe, SysInv, MgrInv, BusOK
<1>4. ASSUME NEW d \in Clients, d # c, Absent(d) PROVE Absent(d)'
  BY <1>2, <1>3, <1>4 DEF Absent, event
<1>5. caller[main(c)] # "waiting"
  BY <1>1 DEF SysInv, ClientsOK
<1>6. ClientsOK'
  BY <1>1, <1>2, <1>4, <1>5, ClientsMove DEF SysInv, MgrInv
<1>7. CASE UNCHANGED << subscribed, eventVars >>
  <2>1. UNCHANGED mgrVars
    BY <1>1, <1>7 DEF mgrVars, busVars
  <2> QED BY <1>6, <2>1, MgrInvStutter DEF SysInv
<1>8. CASE Subscribe(c, topic)
  <2>1. BusOK'
    BY <1>1, <1>8, BusClient DEF SysInv, MgrInv
  <2>2. UNCHANGED << mainPc, pc, published, early >>
    BY <1>1 DEF vars, fsmVars, runVars
  <2>3. ToldInv'
    BY <1>2, <1>8, <2>2, ToldClient DEF SysInv, MgrInv
  <2>4. CallsOK'
    BY <1>1 DEF SysInv, MgrInv, callVars, CallsOK, Waits, InQueue, InHandler
  <2> QED BY <1>1, <1>6, <2>1, <2>3, <2>4, ThreadKept DEF SysInv, MgrInv
<1> QED BY <1>1, <1>7, <1>8

\* A set of one thread makes no other wait.
LEMMA OnlyCallerWaits ==
    ASSUME CallsOK, NEW k \in Callers, NEW value, SetCall(k, value)
    PROVE  \A l \in Callers \ {k} : caller'[l] = caller[l]
BY DEF SetCall, CallsOK

\* A client's user types a command, which its main thread sets.
LEMMA ClientSetsKeeps == ASSUME SysInv, NEW c \in Clients, ClientSets(c) PROVE SysInv'
<1>1. /\ client[c] = "command" /\ client' = [client EXCEPT ![c] = "set"]
      /\ UNCHANGED << vars, mainPc, bus, subscribed, eventVars, runVars, provider >>
  BY DEF ClientSets, At
<1>2. PICK value \in Commands \cap Values : SetCall(main(c), value)
  BY DEF ClientSets
<1>3. main(c) \in Callers
  BY ClientThreads
<1>4. MgrNext
  BY <1>1, <1>2, <1>3 DEF MgrNext, OthersStep
<1>5. \A l \in Callers \ {main(c)} : caller'[l] = caller[l]
  BY <1>2, <1>3, OnlyCallerWaits DEF SysInv, MgrInv
<1>6. ASSUME NEW d \in Clients
      PROVE  /\ Absent(d) => Absent(d)'
             /\ d # c /\ caller'[main(d)] = "waiting" => caller[main(d)] = "waiting"
  <2>1. event(d) \in Callers \ {main(c)} /\ (d # c => main(d) \in Callers \ {main(c)})
    BY ClientThreads
  <2> QED BY <1>1, <1>5, <2>1 DEF Absent, event, eventVars
<1>7. ClientsOK'
  BY <1>1, <1>6, ClientsMove DEF SysInv, MgrInv
<1> QED BY <1>4, <1>7, MgrInvKept DEF SysInv

\* A client's main thread takes the answer of its set.
LEMMA ClientPrintsKeeps == ASSUME SysInv, NEW c \in Clients, ClientPrints(c) PROVE SysInv'
<1>1. /\ client' = [client EXCEPT ![c] = "command"] /\ caller[main(c)] # "waiting"
      /\ UNCHANGED mgrVars /\ UNCHANGED provider
  BY DEF ClientPrints, At
<1>2. UNCHANGED << caller, ready, subscribed >>
  BY <1>1 DEF mgrVars, busVars, callVars, eventVars
<1>3. \A d \in Clients : Absent(d) => Absent(d)'
  BY <1>2 DEF Absent, event
<1>4. ClientsOK'
  BY <1>1, <1>2, <1>3, ClientsMove DEF SysInv, MgrInv
<1> QED BY <1>1, <1>4, MgrInvStutter DEF SysInv

\* Whoever ends leaves no subscription, no signal and no waiting thread behind.
LEMMA ClientQuitsKeeps == ASSUME SysInv, NEW c \in Clients, ClientQuits(c) PROVE SysInv'
<1>1. /\ client[c] = "command" /\ client' = [client EXCEPT ![c] = "gone"]
      /\ Unsubscribe(c) /\ Abandoned({main(c), event(c)})
      /\ caller' = [caller EXCEPT ![event(c)] = IF @ = "waiting" THEN "failed" ELSE @]
      /\ UNCHANGED << vars, mainPc, bus, runVars, provider >>
  BY DEF ClientQuits, At
<1>2. caller[main(c)] # "waiting"
  BY <1>1 DEF SysInv, ClientsOK
<1>3. caller \in [Callers -> {"idle", "waiting", "ok", "failed"}]
  BY DEF SysInv, MgrInv, CallsOK
<1>4. /\ caller' \in [Callers -> {"idle", "waiting", "ok", "failed"}]
      /\ \A l \in Callers : l # event(c) => caller'[l] = caller[l]
      /\ caller'[event(c)] # "waiting" /\ caller'[main(c)] = caller[main(c)]
  <2> DEFINE e == event(c)
  <2>1. e \in Callers /\ main(c) \in Callers /\ main(c) # e
    BY ClientThreads
  <2>2. caller' = [caller EXCEPT ![e] = IF @ = "waiting" THEN "failed" ELSE @]
    BY <1>1
  <2> HIDE DEF e
  <2>3. /\ caller' \in [Callers -> {"idle", "waiting", "ok", "failed"}]
        /\ \A l \in Callers : l # e => caller'[l] = caller[l]
        /\ caller'[e] # "waiting" /\ caller'[main(c)] = caller[main(c)]
    BY <1>3, <2>1, <2>2
  <2> QED BY <2>3 DEF e
<1>5. CallsOK'
  <2>1. \A l \in Callers : IF l \in {main(c), event(c)} THEN caller'[l] # "waiting"
                                                        ELSE caller'[l] = caller[l]
    BY <1>2, <1>4
  <2> QED BY <1>1, <1>4, <2>1, CallsAbandoned DEF SysInv, MgrInv
<1>6. BusOK'
  BY <1>1, BusClient DEF SysInv, MgrInv
<1>7. ToldInv'
  <2>1. UNCHANGED << mainPc, pc, published, early >>
    BY <1>1 DEF vars, fsmVars, runVars
  <2>2. handling # {} => handling' # {}
    BY <1>1, StillHandled
  <2> QED BY <1>1, <2>1, <2>2, ToldClient DEF SysInv, MgrInv
<1>8. /\ \A d \in Clients : ready'[d] = IF d = c THEN 0 ELSE ready[d]
      /\ \A t \in Topics : subscribed'[t] = subscribed[t] \ {c}
  BY <1>1 DEF Unsubscribe, SysInv, MgrInv, BusOK
<1>9. Absent(c)'
  BY <1>4, <1>8 DEF Absent, event
<1>10. ASSUME NEW d \in Clients, d # c
       PROVE  /\ Absent(d) => Absent(d)'
              /\ caller'[main(d)] = "waiting" => caller[main(d)] = "waiting"
  <2>1. /\ event(d) \in Callers /\ event(d) # event(c)
        /\ main(d) \in Callers /\ main(d) # event(c)
    BY <1>10, ClientThreads
  <2>2. caller'[event(d)] = caller[event(d)] /\ caller'[main(d)] = caller[main(d)]
    BY <1>4, <2>1
  <2> QED BY <1>8, <1>10, <2>2 DEF Absent, event
<1>11. ClientsOK'
  BY <1>1, <1>2, <1>4, <1>9, <1>10, ClientsMove DEF SysInv, MgrInv
<1> QED BY <1>1, <1>5, <1>6, <1>7, <1>11, ThreadKept DEF SysInv, MgrInv

\* The event handler: a signal is taken and a start is set.
LEMMA EventHandlerKeeps == ASSUME SysInv, NEW c \in Clients, EventHandler(c) PROVE SysInv'
<1>1. /\ TakeReady(c) /\ SetCall(event(c), "start")
      /\ UNCHANGED << vars, mainPc, bus, subscribed, runVars, client, provider >>
  BY DEF EventHandler
<1>2. event(c) \in Callers
  BY ClientThreads
<1>3. CallsOK'
  BY <1>1, <1>2, CallsSetCall DEF SysInv, MgrInv, Values
<1>4. BusOK'
  BY <1>1, BusClient DEF SysInv, MgrInv
<1>5. ToldInv'
  <2>1. UNCHANGED << mainPc, pc, published, early, handling >>
    BY <1>1 DEF vars, fsmVars, runVars, SetCall
  <2> QED BY <1>1, <2>1, ToldClient DEF SysInv, MgrInv
<1>6. \A l \in Callers \ {event(c)} : caller'[l] = caller[l]
  BY <1>1, <1>2, OnlyCallerWaits DEF SysInv, MgrInv
<1>7. ready[c] # 0 /\ \A d \in Clients : d # c => ready'[d] = ready[d]
  BY <1>1 DEF TakeReady, SysInv, MgrInv, BusOK
<1>8. ASSUME NEW d \in Clients
      PROVE  /\ Absent(d) => Absent(d)'
             /\ caller'[main(d)] = "waiting" => caller[main(d)] = "waiting"
  <2>1. main(d) \in Callers \ {event(c)}
    BY ClientThreads
  <2>2. CASE d = c
    BY <1>6, <1>7, <2>1, <2>2 DEF Absent
  <2>3. CASE d # c
    <3>1. event(d) \in Callers \ {event(c)}
      BY <2>3, ClientThreads
    <3> QED BY <1>1, <1>6, <1>7, <2>1, <2>3, <3>1 DEF Absent, event
  <2> QED BY <2>2, <2>3
<1>9. ClientsOK'
  BY <1>1, <1>8 DEF SysInv, ClientsOK, main
<1> QED BY <1>1, <1>3, <1>4, <1>5, <1>9, ThreadKept DEF SysInv, MgrInv

\* A thread that gives up.
LEMMA TimeOutKeeps == ASSUME SysInv, CallsTimeOut PROVE SysInv'
<1>1. PICK k \in Callers : SetTimesOut(k)
  BY DEF CallsTimeOut
<1>2. UNCHANGED << vars, mainPc, bus, subscribed, eventVars, runVars, client, provider >>
  BY DEF CallsTimeOut
<1>3. MgrNext
  BY <1>1, <1>2 DEF MgrNext, OthersStep
<1>4. \A l \in Callers : caller'[l] = "waiting" => caller[l] = "waiting"
  BY <1>1 DEF SetTimesOut, SysInv, MgrInv, CallsOK
<1>5. \A d \in Clients : /\ Absent(d) => Absent(d)'
                         /\ caller'[main(d)] = "waiting" => caller[main(d)] = "waiting"
  BY <1>2, <1>4, ClientThreads DEF Absent, event, eventVars
<1>6. ClientsOK'
  BY <1>2, <1>5 DEF SysInv, ClientsOK, main
<1> QED BY <1>3, <1>6, MgrInvKept DEF SysInv

\* Every step of every program on the bus keeps the invariant.
LEMMA SysKept == SysInv /\ [SysNext]_sysVars => SysInv'
<1> SUFFICES ASSUME SysInv, [SysNext]_sysVars PROVE SysInv'
  OBVIOUS
<1>1. ASSUME ManagerActs, MgrNext, UNCHANGED << client, provider >> PROVE SysInv'
  BY <1>1, MgrInvKept, ClientsUndisturbed DEF SysInv, MgrInv
<1>2. CASE ManagerStep
  BY <1>1, <1>2 DEF ManagerStep, ManagerActs, MgrNext
<1>3. CASE Accidents
  BY <1>1, <1>3 DEF Accidents, ManagerActs, MgrNext
<1>4. ASSUME NEW c \in Clients, ClientStep(c) PROVE SysInv'
  <2>1. CASE ClientSubscribesState(c)
    BY <2>1, ClientSubscribesKeeps DEF ClientSubscribesState, Topics
  <2>2. CASE ClientSubscribesReady(c)
    BY <2>2, ClientSubscribesKeeps DEF ClientSubscribesReady, Topics
  <2> QED
    BY <1>4, <2>1, <2>2, ClientOpensKeeps, ClientSetsKeeps, ClientPrintsKeeps,
       ClientQuitsKeeps, EventHandlerKeeps DEF ClientStep, ClientRuns
<1>5. CASE ProviderStep
  <2>1. UNCHANGED << mgrVars, client >> /\ provider' \in {"off", "open", "registered", "deaf", "gone"}
    BY <1>5 DEF ProviderStep, ProviderOpens, ProviderRegisters, ProviderQuits
  <2>2. ClientsOK'
    BY <2>1 DEF SysInv, ClientsOK, Absent, mgrVars, busVars, callVars, eventVars, main, event
  <2> QED BY <2>1, <2>2, MgrInvStutter DEF SysInv
<1>6. CASE CallsTimeOut
  BY <1>6, TimeOutKeeps
<1>7. CASE UNCHANGED sysVars
  <2>1. UNCHANGED << mgrVars, client, provider >>
    BY <1>7 DEF sysVars
  <2>2. ClientsOK'
    BY <2>1 DEF SysInv, ClientsOK, Absent, mgrVars, busVars, callVars, eventVars, main, event
  <2> QED BY <2>1, <2>2, MgrInvStutter DEF SysInv
<1> QED BY <1>2, <1>3, <1>4, <1>5, <1>6, <1>7 DEF SysNext

\* The invariant of the whole system.
LEMMA SysAlways == SysSafeSpec => []SysInv
BY SysStart, SysKept, PTL DEF SysSafeSpec

\* With any number of clients, sets, kills and calls that time out: a thread waits
\* only in a set that its program makes, the set is in the queue or the handler,
\* once, and who has left leaves nothing behind.
THEOREM SysTypeCorrect == SysSafeSpec => []SysTypeOK
<1>1. SysInv => SysTypeOK
  BY MgrTypes DEF SysInv, MgrInv, ClientsOK, Absent, SysTypeOK
<1> QED BY <1>1, SysAlways, PTL

\* With clients that come, go and set from two threads, a subscriber to the State
\* event was still told IDLE last, unless the publish of it failed.
THEOREM SysToldIdleAtRest == SysSafeSpec => []ToldIdleAtRest
<1>1. SysInv => ToldIdleAtRest
  BY DEF SysInv, MgrInv, ToldInv, ToldLast, Handled, ToldIdleAtRest
<1> QED BY <1>1, SysAlways, PTL

\* No program on the bus makes the manager do what DhcpMgrFSM does not say.
THEOREM SysImplements == SysSafeSpec => SafeSpec
<1>1. SysInit => Init
  BY DEF SysInit, MgrInit
<1>2. [SysNext]_sysVars => [Next]_vars
  <2> SUFFICES ASSUME [SysNext]_sysVars PROVE [Next]_vars
    OBVIOUS
  <2>1. CASE ManagerStep \/ Accidents
    BY <2>1, MgrStep DEF ManagerStep, Accidents, MgrNext
  <2>2. CASE ~(ManagerStep \/ Accidents)
    <3>1. ASSUME NEW c \in Clients, ClientStep(c) PROVE UNCHANGED vars
      BY <3>1 DEF ClientStep, ClientRuns, ClientOpens, ClientSubscribesState,
                  ClientSubscribesReady, ClientSubscribes, ClientPrints, ClientSets, ClientQuits,
                  EventHandler, mgrVars
    <3>2. ProviderStep \/ CallsTimeOut \/ UNCHANGED sysVars => UNCHANGED vars
      BY DEF ProviderStep, ProviderOpens, ProviderRegisters, ProviderQuits, CallsTimeOut,
             sysVars, mgrVars
    <3> QED BY <2>2, <3>1, <3>2 DEF SysNext
  <2> QED BY <2>1, <2>2
<1> QED BY <1>1, <1>2, PTL DEF SysSafeSpec, SafeSpec

\* A start that rbus delivers, whoever made it, serves the provider's document when
\* nothing fails.
THEOREM SysStartServes == SysSafeSpec => []StartServes
BY SysImplements, StartServesAlways, PTL

\* A start that opens its files and allocates, whoever made it and whatever was cut
\* short before it, installs the provider's document.
THEOREM SysStartInstalls == SysSafeSpec => []StartInstalls
BY SysImplements, StartInstallsAlways, PTL

\* Whatever is on the bus, the manager's steps are those of DhcpService: nothing is
\* served that was not installed, nothing installed that was not prepared.
THEOREM SysGivesService == SysSafeSpec => Service!SafeSpec
BY SysImplements, ServiceImplemented, PTL
=============================================================================
