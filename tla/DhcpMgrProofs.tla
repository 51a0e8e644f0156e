---------------------------- MODULE DhcpMgrProofs ----------------------------
(***************************************************************************)
(* The manager on the bus implements the manager without one: main,        *)
(* subscribers, callers and publishes add nothing to what the callback     *)
(* thread does.  What is proved of DhcpMgrFSM so holds on the bus.         *)
(***************************************************************************)
EXTENDS DhcpMgr, DhcpServiceProofs

\* Only the callback thread, dnsmasq's exit and the kill of the process change
\* the variables of DhcpMgrFSM.
LEMMA MgrStep == MgrNext => [Next]_vars
<1> SUFFICES ASSUME MgrNext PROVE [Next]_vars
  OBVIOUS
<1>1. CASE MainStep
  BY <1>1 DEF MainStep, MainOpens, MainRegisters, MainSignalsReady, MainPublishesIdle
<1>2. CASE HandleSet
  <2>1. CASE UNCHANGED vars
    BY <2>1
  <2>2. CASE /\ Head(sets).value \in {"start", "stop"}
             /\ EventHandler_MainFSM(Head(sets).value)
    <3>1. Requested
      BY <2>2 DEF Requested
    <3> QED
      BY <3>1 DEF Next
  <2> QED
    BY <1>2, <2>1, <2>2 DEF HandleSet
<1>3. CASE HandlerStep
  BY <1>3 DEF HandlerStep, Next
<1>4. CASE HandlerReturns
  BY <1>4 DEF HandlerReturns
<1>5. CASE OthersStep /\ UNCHANGED << vars, mainPc, bus, runVars >>
  BY <1>5
<1>6. CASE DnsmasqExits /\ UNCHANGED busVars
  BY <1>6 DEF Next
<1>7. CASE ProcessCrash
  BY <1>7 DEF ProcessCrash, Next
<1> QED
  BY <1>1, <1>2, <1>3, <1>4, <1>5, <1>6, <1>7 DEF MgrNext, CallbackStep

\* On the bus the callback thread does what DhcpMgrFSM says, whatever main, the
\* callers and the subscribers do meanwhile.
THEOREM MgrImplements == MgrSafeSpec => SafeSpec
<1>1. MgrInit => Init
  BY DEF MgrInit
<1>2. [MgrNext]_mgrVars => [Next]_vars
  <2>1. CASE MgrNext
    BY <2>1, MgrStep
  <2>2. CASE UNCHANGED mgrVars
    BY <2>2 DEF mgrVars
  <2> QED
    BY <2>1, <2>2
<1> QED
  BY <1>1, <1>2, PTL DEF MgrSafeSpec, SafeSpec

\* Whatever happens on the bus, between requests the state machine is in IDLE with
\* no call pending: the next set that rbus delivers is accepted.
THEOREM MgrRestIsIdle == MgrSafeSpec => []RestIsIdle
BY MgrImplements, RestIsIdleAlways, PTL

\* Whatever happens on the bus, a stop during which nothing fails leaves dnsmasq
\* running without an address range.
THEOREM MgrStopSilences == MgrSafeSpec => []StopSilences
BY MgrImplements, StopSilencesAlways, PTL

-----------------------------------------------------------------------------
(* Who waits.  A set is in the queue or being handled, once, as long as its *)
(* caller waits for it, and it is nowhere when the caller does not.         *)

SetType == [by : SUBSET Callers, value : Values]

Awaited(queue, k) == {i \in DOMAIN queue : k \in queue[i].by}

InQueue(k)   == Awaited(sets, k)
InHandler(k) == {s \in handling : k \in s.by}

Waits ==
    \A k \in Callers :
        /\ caller[k] # "waiting" => InQueue(k) = {} /\ InHandler(k) = {}
        /\ caller[k] = "waiting" =>
             \/ (\E i \in DOMAIN sets : InQueue(k) = {i}) /\ InHandler(k) = {}
             \/ InQueue(k) = {} /\ \E s \in handling : InHandler(k) = {s}

CallsOK ==
    /\ sets \in Seq(SetType) /\ Len(sets) <= MaxSets
    /\ handling = {} \/ \E s \in SetType : handling = {s} /\ s.value \in {"start", "stop"}
    /\ caller \in [Callers -> {"idle", "waiting", "ok", "failed"}]
    /\ Waits

\* Each start of the manager signals ready once.
BusOK ==
    /\ mainPc \in {"open", "register", "ready", "idle", "loop"}
    /\ bus \in {"closed", "open", "registered"}
    /\ subscribed \in [Topics -> SUBSET Clients]
    /\ ready \in [Clients -> Nat]
    /\ \A c \in Clients : ready[c] <= crashes + (IF mainPc \in {"idle", "loop"} THEN 1 ELSE 0)
    /\ told \in [Clients -> States \cup {NULL}]
    /\ lost \in BOOLEAN /\ early \in BOOLEAN /\ crashes \in 0..MaxCrashes

-----------------------------------------------------------------------------
(* What subscribers are told.                                              *)

\* Only subscribers have been told something.
ToldSubscribed == \A c \in Clients : told[c] # NULL => c \in subscribed["State"]

\* A request runs while the set that made it is handled.
Handled == pc # "rest" => handling # {}

\* A request that began after main's last publish has the states to itself.
AfterMain == pc # "rest" /\ ~early => mainPc = "loop"

\* Before a request's first state and after its last, subscribers think the manager
\* idle; in between they know the state published last.
ToldLast ==
    ~lost =>
        \A c \in Clients :
            /\ mainPc = "loop" /\ (published = << >> \/ pc = "rest") => told[c] \in {NULL, "IDLE"}
            /\ ~early /\ pc # "rest" /\ published # << >> => told[c] \in {NULL, Last(published)}

ToldInv == ToldSubscribed /\ Handled /\ AfterMain /\ ToldLast

\* What a step of the callback thread publishes, and where it then stands.
LEMMA Publishes ==
    ASSUME ThreadInv, ThreadStep
    PROVE  /\ pc # "rest"
           /\ \/ published' = published /\ (pc' # "rest" \/ published = << >>)
              \/ /\ published = << >> /\ pc' # "rest"
                 /\ published' \in {<< "PREPARINGv4" >>, << "STOPPINGv4" >>}
              \/ /\ published = << "PREPARINGv4" >> /\ pc' # "rest"
                 /\ published' = << "PREPARINGv4", "STARTINGv4" >>
              \/ /\ published = << "PREPARINGv4", "STARTINGv4" >> /\ pc' = "rest"
                 /\ published' = << "PREPARINGv4", "STARTINGv4", "IDLE" >>
              \/ /\ published = << "STOPPINGv4" >> /\ pc' = "rest"
                 /\ published' = << "STOPPINGv4", "IDLE" >>
<1> USE DEF ThreadInv
<1>a. /\ \A e : Append(<< >>, e) = << e >>
      /\ Append(<< "PREPARINGv4" >>, "STARTINGv4") = << "PREPARINGv4", "STARTINGv4" >>
      /\ Append(<< "PREPARINGv4", "STARTINGv4" >>, "IDLE")
           = << "PREPARINGv4", "STARTINGv4", "IDLE" >>
      /\ Append(<< "STOPPINGv4" >>, "IDLE") = << "STOPPINGv4", "IDLE" >>
  <2>1. \A e : Append(<< >>, e) = << e >>
    OBVIOUS
  <2>2. /\ "PREPARINGv4" \in States /\ "STARTINGv4" \in States
        /\ "STOPPINGv4" \in States /\ "IDLE" \in States
    BY DEF States
  <2>3. Append(<< "PREPARINGv4" >>, "STARTINGv4") = << "PREPARINGv4", "STARTINGv4" >>
    BY <2>2, SecondPublished, Zenon
  <2>4. Append(<< "STOPPINGv4" >>, "IDLE") = << "STOPPINGv4", "IDLE" >>
    BY <2>2, SecondPublished, Zenon
  <2>5. Append(<< "PREPARINGv4", "STARTINGv4" >>, "IDLE")
          = << "PREPARINGv4", "STARTINGv4", "IDLE" >>
    BY <2>2, ThirdPublished, Zenon
  <2> QED BY <2>1, <2>3, <2>4, <2>5, Zenon
<1>1. CASE StartConfigure \/ StopConfigure
  BY <1>1, Dispatches
     DEF StartConfigure, StopConfigure, DispatcherStep, Control, Stands
<1>2. CASE StopStop
  BY <1>2, Dispatches DEF StopStop, DispatcherStep, Control, Stands
<1>3. CASE StartPrepared
  <2>1. pc = "start.prepared" /\ published = << >>
    BY <1>3 DEF StartPrepared, DispatcherStep, Reported
  <2>2. CASE mainState = "PREPARINGv4"
    <3>1. published' = Append(published, "PREPARINGv4") /\ pc' = "Startv4s"
      BY <1>3, <2>2, Dispatches DEF StartPrepared, DispatcherStep, Publish
    <3> QED BY <1>a, <2>1, <3>1
  <2>3. CASE mainState # "PREPARINGv4"
    BY <1>3, <2>1, <2>3 DEF StartPrepared, DispatcherStep
  <2> QED BY <2>2, <2>3
<1>4. CASE StartStarted
  <2>1. pc = "start.started" /\ published = << "PREPARINGv4" >> /\ mainState = "STARTINGv4"
    BY <1>4 DEF StartStarted, DispatcherStep, Reported, Control, Stands
  <2>2. published' = Append(published, "STARTINGv4") /\ pc' = "done"
    BY <1>4, <2>1, Dispatches DEF StartStarted, DispatcherStep, Publish
  <2> QED BY <1>a, <2>1, <2>2
<1>5. CASE StopStopped
  <2>1. pc = "stop.stopped" /\ published = << >> /\ mainState = "STOPPINGv4"
    BY <1>5 DEF StopStopped, DispatcherStep, Reported, Control, Stands
  <2>2. published' = Append(published, "STOPPINGv4") /\ pc' = "done"
    BY <1>5, <2>1, Dispatches DEF StopStopped, DispatcherStep, Publish
  <2> QED BY <1>a, <2>1, <2>2
<1>6. CASE DispatcherDone
  <2>1. pc = "done" /\ mainState = "IDLE"
        /\ published \in {<< "PREPARINGv4", "STARTINGv4" >>, << "STOPPINGv4" >>}
    BY <1>6 DEF DispatcherDone, DispatcherStep, Reported, Control, Stands
  <2>2. published' = Append(published, "IDLE") /\ pc' = "rest"
    BY <1>6, <2>1 DEF DispatcherDone, DispatcherStep, DispatcherReturns, Publish
  <2> QED BY <1>a, <2>1, <2>2
<1>7. CASE PrepareInit \/ StartReturned \/ StopReturn
  BY <1>7, Frames DEF PrepareInit, StartReturned, StopReturn, ActionReturns, Control, Stands
<1>8. CASE PrepareFetch \/ Startv4s \/ Stopv4s \/ StopDnsOnly
  BY <1>8 DEF PrepareFetch, Startv4s, Stopv4s, StopDnsOnly
<1>9. CASE StopChanged
  <2>1. pc = "stop.changed" /\ published' = published
        /\ DispatchDHCP_SM("CONFIG_CHANGEDv4", NULL, "stop.return")
    BY <1>9 DEF StopChanged
  <2>2. mainState \in {"IDLE", "PREPARINGv4"}
    BY <2>1 DEF Control, Prepared
  <2>3. pc' \in {"Startv4s", "stop.return"}
    BY <2>1, <2>2, Dispatches
  <2> QED BY <2>1, <2>3
<1>10. CASE ServerStep
  BY <1>10, CallSteps DEF ServerStep, fsmVars, Control, Stands, StartSteps, StopSteps
<1> QED BY <1>1, <1>2, <1>3, <1>4, <1>5, <1>6, <1>7, <1>8, <1>9, <1>10 DEF ThreadStep

\* The length and the last of what has been published.
LEMMA PublishedEnds ==
    ASSUME ThreadInv, ThreadStep
    PROVE  /\ Len(published') > Len(published) <=> published' # published
           /\ published' # published
              => /\ published' # << >> /\ Last(published') \in States
                 /\ pc' = "rest" => Last(published') = "IDLE"
                 /\ published = << >> => << "IDLE", Last(published') >> \in Follows
                 /\ published # << >> => << Last(published), Last(published') >> \in Follows
<1>1. /\ \A a : Len(<< a >>) = 1 /\ Last(<< a >>) = a
      /\ \A a, b : Len(<< a, b >>) = 2 /\ Last(<< a, b >>) = b
      /\ \A a, b, c : Len(<< a, b, c >>) = 3 /\ Last(<< a, b, c >>) = c
      /\ Len(<< >>) = 0
  BY DEF Last
<1>2. /\ Len(published) \in Nat
      /\ \/ published' = published
         \/ /\ Len(published) = 0 /\ Len(published') = 1 /\ published = << >> /\ pc' # "rest"
            /\ Last(published') \in {"PREPARINGv4", "STOPPINGv4"}
         \/ /\ Len(published) = 1 /\ Len(published') = 2 /\ pc' # "rest"
            /\ Last(published) = "PREPARINGv4" /\ Last(published') = "STARTINGv4"
         \/ /\ Len(published) = 2 /\ Len(published') = 3
            /\ Last(published) = "STARTINGv4" /\ Last(published') = "IDLE"
         \/ /\ Len(published) = 1 /\ Len(published') = 2
            /\ Last(published) = "STOPPINGv4" /\ Last(published') = "IDLE"
  <2>1. Len(published) \in Nat
    BY <1>1, Publishes DEF ThreadInv, Reported, PublishedSequence, Control, Labels
  <2> QED BY <1>1, <2>1, Publishes
<1>3. CASE published' = published
  BY <1>2, <1>3
<1>4. CASE published' # published
  <2>1. Len(published') > Len(published)
    <3>1. \/ Len(published) = 0 /\ Len(published') = 1
          \/ Len(published) = 1 /\ Len(published') = 2
          \/ Len(published) = 2 /\ Len(published') = 3
      BY <1>2, <1>4, Zenon
    <3>2. 1 > 0 /\ 2 > 1 /\ 3 > 2
      OBVIOUS
    <3> QED BY <3>1, <3>2, Zenon
  <2>2. Len(published') # 0 /\ Last(published') \in States
    BY <1>2, <1>4 DEF States
  <2>3. pc' = "rest" => Last(published') = "IDLE"
    BY <1>2, <1>4
  <2>4. published = << >> => << "IDLE", Last(published') >> \in Follows
    BY <1>1, <1>2, <1>4 DEF Follows
  <2>5. published # << >> => << Last(published), Last(published') >> \in Follows
    BY <1>2, <1>4 DEF Follows
  <2> QED BY <1>1, <1>4, <2>1, <2>2, <2>3, <2>4, <2>5
<1> QED BY <1>3, <1>4

\* What publishing an event does to the subscribers.
LEMMA Events ==
    ASSUME BusOK, NEW event, DhcpMgr_Publish_Events(event)
    PROVE  /\ event = READY
              => /\ told' = told /\ lost' = lost
                 /\ ready' \in [Clients -> Nat] /\ \A c \in Clients : ready'[c] <= ready[c] + 1
           /\ event # READY
              => /\ ready' = ready
                 /\ \/ lost' = TRUE /\ told' = told
                    \/ /\ lost' = FALSE
                       /\ told' = [c \in Clients |->
                                     IF c \in subscribed["State"] THEN event ELSE told[c]]
<1> USE DEF BusOK
<1>1. CASE /\ bus = "registered" /\ event = READY
           /\ ready' = [c \in Clients |->
                          IF c \in subscribed["StateReady"] THEN ready[c] + 1 ELSE ready[c]]
           /\ UNCHANGED << told, lost >>
  <2>1. \A c \in Clients : ready[c] \in Nat
    OBVIOUS
  <2>2. \A c \in Clients : ready'[c] \in Nat /\ ready'[c] <= ready[c] + 1
    BY <1>1, <2>1
  <2>3. ready' \in [Clients -> Nat]
    BY <1>1, <2>1
  <2> QED BY <1>1, <2>2, <2>3
<1>2. CASE /\ bus = "registered" /\ event # READY
           /\ told' = [c \in Clients |-> IF c \in subscribed["State"] THEN event ELSE told[c]]
           /\ lost' = FALSE
           /\ UNCHANGED ready
  BY <1>2
<1>3. CASE /\ bus # "registered" \/ "publish" \in BusFaults
           /\ lost' = (lost \/ event # READY)
           /\ UNCHANGED << ready, told >>
  <2>1. \A c \in Clients : ready[c] \in Nat /\ ready[c] <= ready[c] + 1
    OBVIOUS
  <2>2. (event = READY => lost' = lost) /\ (event # READY => lost' = TRUE)
    BY <1>3
  <2> QED BY <1>3, <2>1, <2>2
<1> QED BY <1>1, <1>2, <1>3 DEF DhcpMgr_Publish_Events

\* Before main has opened rbus nobody is subscribed.
LEMMA BusInit == MgrInit => BusOK
<1> SUFFICES ASSUME MgrInit PROVE BusOK
  OBVIOUS
<1>1. crashes \in 0..MaxCrashes
  BY BusAssumption DEF MgrInit
<1>2. ready \in [Clients -> Nat] /\ \A c \in Clients : ready[c] = 0
  BY DEF MgrInit
<1>3. \A c \in Clients : ready[c] <= crashes + (IF mainPc \in {"idle", "loop"} THEN 1 ELSE 0)
  BY <1>2 DEF MgrInit
<1>4. subscribed \in [Topics -> SUBSET Clients] /\ told \in [Clients -> States \cup {NULL}]
  BY DEF MgrInit
<1> QED BY <1>1, <1>2, <1>3, <1>4 DEF MgrInit, BusOK

\* A state that is published is a state.
LEMMA PublishesStates ==
    ASSUME BusOK, NEW event \in States, DhcpMgr_Publish_Events(event)
    PROVE  told' \in [Clients -> States \cup {NULL}] /\ lost' \in BOOLEAN /\ ready' = ready
<1>1. event # READY
  BY DEF States, READY
<1> QED BY <1>1, Events DEF BusOK

\* Subscribing, taking a signal and leaving keep the types, whatever the caller's
\* threads do in the same step.
LEMMA BusClient ==
    ASSUME BusOK, UNCHANGED << mainPc, bus, runVars >>, NEW c \in Clients,
           \/ \E topic \in Topics : Subscribe(c, topic)
           \/ TakeReady(c) /\ UNCHANGED subscribed
           \/ Unsubscribe(c)
    PROVE  BusOK'
<1> USE DEF BusOK
<1>0. crashes \in Nat /\ \A d \in Clients : ready[d] \in Nat
  BY BusAssumption
<1>1. UNCHANGED << mainPc, bus, early, crashes >>
  BY DEF runVars
<1>2. ASSUME NEW topic \in Topics, Subscribe(c, topic) PROVE BusOK'
  <2>1. subscribed' \in [Topics -> SUBSET Clients]
    BY <1>2 DEF Subscribe
  <2>2. told' \in [Clients -> States \cup {NULL}]
    BY <1>2 DEF Subscribe
  <2> QED BY <1>1, <1>2, <2>1, <2>2 DEF Subscribe
<1>3. CASE TakeReady(c) /\ UNCHANGED subscribed
  <2>1. /\ ready[c] - 1 \in Nat /\ ready[c] - 1 <= ready[c]
        /\ ready' = [ready EXCEPT ![c] = ready[c] - 1]
    BY <1>0, <1>3 DEF TakeReady
  <2>2. ready' \in [Clients -> Nat] /\ \A d \in Clients : ready'[d] <= ready[d]
    BY <1>0, <2>1
  <2>3. \A d \in Clients :
          ready'[d] <= crashes' + (IF mainPc' \in {"idle", "loop"} THEN 1 ELSE 0)
    BY <1>0, <1>1, <2>2
  <2> QED BY <1>1, <1>3, <2>2, <2>3 DEF TakeReady
<1>4. CASE Unsubscribe(c)
  <2>1. subscribed' \in [Topics -> SUBSET Clients]
    BY <1>4 DEF Unsubscribe
  <2>2. told' \in [Clients -> States \cup {NULL}]
    BY <1>4 DEF Unsubscribe
  <2>3. ready' \in [Clients -> Nat] /\ \A d \in Clients : ready'[d] = 0 \/ ready'[d] = ready[d]
    BY <1>4 DEF Unsubscribe
  <2>4. \A d \in Clients :
          ready'[d] <= crashes' + (IF mainPc' \in {"idle", "loop"} THEN 1 ELSE 0)
    BY <1>0, <1>1, <2>3
  <2> QED BY <1>1, <1>4, <2>1, <2>2, <2>3, <2>4 DEF Unsubscribe
<1> QED BY <1>2, <1>3, <1>4

\* Every step keeps subscribers known clients, and signals Ready once per start-up.
LEMMA BusNext == ThreadInv /\ BusOK /\ [MgrNext]_mgrVars => BusOK'
<1> SUFFICES ASSUME ThreadInv, BusOK, [MgrNext]_mgrVars PROVE BusOK'
  OBVIOUS
<1> USE DEF BusOK
<1>0. crashes \in Nat /\ crashes <= MaxCrashes /\ \A c \in Clients : ready[c] \in Nat
  BY BusAssumption
<1>1. CASE MainOpens \/ MainRegisters
  BY <1>0, <1>1 DEF MainOpens, MainRegisters, eventVars, runVars
<1>2. CASE MainSignalsReady
  <2>1. /\ mainPc = "ready" /\ mainPc' = "idle" /\ DhcpMgr_Publish_Events(READY)
        /\ UNCHANGED << bus, subscribed, early, crashes >>
    BY <1>2 DEF MainSignalsReady, runVars
  <2>2. /\ told' = told /\ lost' = lost
        /\ ready' \in [Clients -> Nat] /\ \A c \in Clients : ready'[c] <= ready[c] + 1
    BY <2>1, Events
  <2>3. \A c \in Clients : ready'[c] \in Nat /\ ready'[c] <= crashes + 1
    BY <1>0, <2>1, <2>2
  <2> QED BY <2>1, <2>2, <2>3
<1>3. CASE MainPublishesIdle
  <2>1. /\ mainPc = "idle" /\ mainPc' = "loop" /\ DhcpMgr_Publish_Events("IDLE")
        /\ UNCHANGED << bus, subscribed, early, crashes >>
    BY <1>3 DEF MainPublishesIdle, runVars
  <2>2. told' \in [Clients -> States \cup {NULL}] /\ lost' \in BOOLEAN /\ ready' = ready
    BY <2>1, PublishesStates DEF States
  <2> QED BY <2>1, <2>2
<1>4. CASE HandleSet
  <2>1. early' \in BOOLEAN
    BY <1>4 DEF HandleSet
  <2> QED BY <1>4, <2>1 DEF HandleSet, eventVars
<1>5. CASE HandlerStep
  <2>1. UNCHANGED << mainPc, bus, subscribed, early, crashes >>
    BY <1>5 DEF HandlerStep, runVars
  <2>2. CASE UNCHANGED eventVars
    BY <2>1, <2>2 DEF eventVars
  <2>3. CASE ~UNCHANGED eventVars
    <3>1. ThreadStep /\ DhcpMgr_Publish_Events(Last(published'))
          /\ Len(published') > Len(published)
      BY <1>5, <2>3 DEF HandlerStep
    <3>2. Last(published') \in States
      BY <3>1, PublishedEnds
    <3>3. told' \in [Clients -> States \cup {NULL}] /\ lost' \in BOOLEAN /\ ready' = ready
      BY <3>1, <3>2, PublishesStates
    <3> QED BY <2>1, <3>3
  <2> QED BY <2>2, <2>3
<1>6. CASE HandlerReturns
  BY <1>6 DEF HandlerReturns, eventVars, runVars
<1>7. CASE OthersStep /\ UNCHANGED << vars, mainPc, bus, runVars >>
  <2>1. CASE UNCHANGED << subscribed, eventVars >>
    BY <1>7, <2>1 DEF eventVars, runVars
  <2> QED BY <1>7, <2>1, BusClient DEF OthersStep
<1>8. CASE DnsmasqExits /\ UNCHANGED busVars
  BY <1>8 DEF busVars, eventVars, runVars
<1>9. CASE ProcessCrash
  <2>1. /\ crashes < MaxCrashes /\ crashes' = crashes + 1 /\ mainPc' = "open" /\ bus' = "closed"
        /\ early' = FALSE /\ ready' = ready /\ lost' = lost
    BY <1>9 DEF ProcessCrash
  <2>2. told' \in [Clients -> States \cup {NULL}]
    BY <1>9 DEF ProcessCrash
  <2>3. subscribed' \in [Topics -> SUBSET Clients]
    BY <1>9 DEF ProcessCrash
  <2>4. crashes' \in 0..MaxCrashes
    BY <1>0, <2>1, BusAssumption
  <2>5. \A c \in Clients :
          ready'[c] <= crashes' + (IF mainPc' \in {"idle", "loop"} THEN 1 ELSE 0)
    <3>1. \A c \in Clients : ready[c] <= crashes + 1
      BY <1>0
    <3> QED BY <1>0, <2>1, <3>1
  <2> QED BY <2>1, <2>2, <2>3, <2>4, <2>5
<1>10. CASE UNCHANGED mgrVars
  BY <1>10 DEF mgrVars, busVars, eventVars, runVars
<1> QED
  BY <1>1, <1>2, <1>3, <1>4, <1>5, <1>6, <1>7, <1>8, <1>9, <1>10
     DEF MgrNext, MainStep, CallbackStep

\* However the steps of main, callers and subscribers fall between the thread's.
LEMMA BusAlways == MgrSafeSpec => []BusOK
<1>1. MgrSafeSpec => []ThreadInv
  BY MgrImplements, ThreadAlways, PTL
<1> QED BY <1>1, BusInit, BusNext, PTL DEF MgrSafeSpec

\* Nobody has been told anything before start-up.
LEMMA ToldInit == MgrInit => ToldInv
BY DEF MgrInit, Init, ToldInv, ToldSubscribed, Handled, AfterMain, ToldLast

\* Publishing a state of a request tells it to who has subscribed, and only them.
LEMMA Tells ==
    ASSUME BusOK, ToldSubscribed, NEW event \in States, DhcpMgr_Publish_Events(event)
    PROVE  /\ UNCHANGED subscribed => ToldSubscribed'
           /\ ~lost' => \A c \in Clients : told'[c] \in {NULL, event}
           /\ \A c \in Clients : told'[c] # told[c] => told'[c] = event
<1>1. event # READY
  BY DEF States, READY
<1> QED BY <1>1, Events DEF ToldSubscribed

\* What subscribers were told stays true when one comes or goes.
LEMMA ToldClient ==
    ASSUME BusOK, ToldInv, UNCHANGED << mainPc, pc, published, early >>,
           handling # {} => handling' # {}, NEW c \in Clients,
           \/ \E topic \in Topics : Subscribe(c, topic)
           \/ TakeReady(c) /\ UNCHANGED subscribed
           \/ Unsubscribe(c)
    PROVE  ToldInv'
<1> USE DEF ToldInv, ToldSubscribed, Handled, AfterMain, ToldLast
<1>1. ASSUME NEW topic \in Topics, Subscribe(c, topic) PROVE ToldInv'
  <2>1. \A d \in Clients : told'[d] \in {NULL, told[d]}
    BY <1>1 DEF Subscribe, BusOK
  <2>2. subscribed["State"] \subseteq subscribed'["State"]
    BY <1>1 DEF Subscribe, BusOK, Topics
  <2> QED BY <1>1, <2>1, <2>2 DEF Subscribe
<1>2. CASE TakeReady(c) /\ UNCHANGED subscribed
  BY <1>2 DEF TakeReady
<1>3. CASE Unsubscribe(c)
  <2>1. \A d \in Clients : told'[d] \in {NULL, told[d]} /\ (d = c => told'[d] = NULL)
    BY <1>3 DEF Unsubscribe, BusOK
  <2>2. subscribed["State"] \ {c} = subscribed'["State"]
    BY <1>3 DEF Unsubscribe, BusOK, Topics
  <2> QED BY <1>3, <2>1, <2>2 DEF Unsubscribe
<1> QED BY <1>1, <1>2, <1>3

\* A set being handled still is when a caller gives up.
LEMMA StillHandled ==
    ASSUME NEW K, Abandoned(K)
    PROVE  handling # {} => handling' # {}
BY DEF Abandoned

\* Every step keeps what subscribers were told last in line with the thread's place.
LEMMA ToldNext == ThreadInv /\ BusOK /\ ToldInv /\ [MgrNext]_mgrVars => ToldInv'
<1> SUFFICES ASSUME ThreadInv, BusOK, ToldInv, [MgrNext]_mgrVars PROVE ToldInv'
  OBVIOUS
<1> USE DEF ToldInv, ToldSubscribed, Handled, AfterMain, ToldLast
<1>1. CASE MainOpens \/ MainRegisters
  BY <1>1 DEF MainOpens, MainRegisters, callVars, eventVars, runVars, vars, fsmVars
<1>2. CASE MainSignalsReady
  <2>1. told' = told /\ lost' = lost
    BY <1>2, Events DEF MainSignalsReady
  <2> QED BY <1>2, <2>1 DEF MainSignalsReady, callVars, runVars, vars, fsmVars
<1>3. CASE MainPublishesIdle
  <2>1. /\ mainPc = "idle" /\ mainPc' = "loop" /\ DhcpMgr_Publish_Events("IDLE")
        /\ UNCHANGED << subscribed, handling, pc, published, early >>
    BY <1>3 DEF MainPublishesIdle, callVars, runVars, vars, fsmVars
  <2>2. /\ UNCHANGED subscribed => ToldSubscribed'
        /\ ~lost' => \A c \in Clients : told'[c] \in {NULL, "IDLE"}
    BY <2>1, Tells DEF States
  <2> QED BY <2>1, <2>2
<1>4. CASE HandleSet
  <2>1. UNCHANGED << mainPc, subscribed, told, lost >>
    BY <1>4 DEF HandleSet, eventVars
  <2>2. CASE UNCHANGED << vars, handling, early >>
    BY <2>1, <2>2 DEF vars, fsmVars
  <2>3. CASE /\ EventHandler_MainFSM(Head(sets).value) /\ Head(sets).value \in {"start", "stop"}
             /\ handling' = {Head(sets)} /\ early' = (mainPc # "loop")
    <3>1. published' = << >> /\ pc' # "rest" /\ pc = "rest" /\ handling' # {}
      BY <2>3 DEF EventHandler_MainFSM
    <3> QED BY <2>1, <2>3, <3>1
  <2> QED BY <1>4, <2>2, <2>3 DEF HandleSet
<1>5. CASE HandlerStep
  <2>1. ThreadStep /\ UNCHANGED << mainPc, handling, subscribed, early >>
    BY <1>5 DEF HandlerStep, callVars, runVars
  <2>2. pc # "rest"
    BY <2>1, Publishes
  <2>3. CASE published' = published
    <3>1. UNCHANGED << told, lost >>
      BY <1>5, <2>1, <2>3, PublishedEnds DEF HandlerStep, eventVars
    <3>2. pc' = "rest" => published = << >>
      BY <2>1, <2>3, Publishes
    <3> QED BY <2>1, <2>2, <2>3, <3>1, <3>2
  <2>4. CASE published' # published
    <3>1. /\ Last(published') \in States /\ published' # << >>
          /\ pc' = "rest" => Last(published') = "IDLE"
          /\ Len(published') > Len(published)
      BY <2>1, <2>4, PublishedEnds
    <3>2. DhcpMgr_Publish_Events(Last(published'))
      BY <1>5, <3>1 DEF HandlerStep
    <3>3. /\ UNCHANGED subscribed => ToldSubscribed'
          /\ ~lost' => \A c \in Clients : told'[c] \in {NULL, Last(published')}
      BY <3>1, <3>2, Tells
    <3>4. Last(published)' = Last(published')
      OBVIOUS
    <3> QED BY <2>1, <2>2, <3>1, <3>3, <3>4
  <2> QED BY <2>3, <2>4
<1>6. CASE HandlerReturns
  BY <1>6 DEF HandlerReturns, eventVars, runVars, vars, fsmVars
<1>7. CASE OthersStep /\ UNCHANGED << vars, mainPc, bus, runVars >>
  <2>1. UNCHANGED << mainPc, pc, published, early >>
    BY <1>7 DEF runVars, vars, fsmVars
  <2>2. ASSUME NEW k \in Callers, UNCHANGED << subscribed, eventVars >>,
               (\E value \in Values : SetCall(k, value)) \/ SetTimesOut(k)
        PROVE  ToldInv'
    <3>1. handling # {} => handling' # {}
      <4>1. CASE handling' = handling
        BY <4>1
      <4>2. CASE SetTimesOut(k)
        BY <4>2, StillHandled DEF SetTimesOut
      <4> QED BY <2>2, <4>1, <4>2 DEF SetCall
    <3> QED BY <2>1, <2>2, <3>1 DEF eventVars
  <2>3. ASSUME UNCHANGED callVars, NEW c \in Clients,
               \/ \E topic \in Topics : Subscribe(c, topic)
               \/ TakeReady(c) /\ UNCHANGED subscribed
               \/ Unsubscribe(c)
        PROVE  ToldInv'
    BY <2>1, <2>3, ToldClient DEF callVars
  <2> QED BY <1>7, <2>2, <2>3 DEF OthersStep
<1>8. CASE DnsmasqExits /\ UNCHANGED busVars
  BY <1>8 DEF DnsmasqExits, busVars, callVars, eventVars, runVars, fsmVars
<1>9. CASE ProcessCrash
  <2>1. pc' = "rest" /\ mainPc' = "open" /\ lost' = lost
    BY <1>9 DEF ProcessCrash, Crash
  <2>2. ToldSubscribed'
    <3>1. CASE UNCHANGED << subscribed, told >>
      BY <3>1
    <3>2. CASE told' = [c \in Clients |-> NULL]
      BY <3>2
    <3> QED BY <1>9, <3>1, <3>2 DEF ProcessCrash
  <2> QED BY <2>1, <2>2
<1>10. CASE UNCHANGED mgrVars
  BY <1>10 DEF mgrVars, busVars, callVars, eventVars, runVars, vars, fsmVars
<1> QED
  BY <1>1, <1>2, <1>3, <1>4, <1>5, <1>6, <1>7, <1>8, <1>9, <1>10
     DEF MgrNext, MainStep, CallbackStep

\* The invariant of what subscribers were told, with the two it rests on.
LEMMA ToldAlways == MgrSafeSpec => [](ThreadInv /\ BusOK /\ ToldInv)
<1>1. MgrSafeSpec => []ThreadInv
  BY MgrImplements, ThreadAlways, PTL
<1> QED BY <1>1, BusAlways, ToldInit, ToldNext, PTL DEF MgrSafeSpec

\* However main's IDLE, the states of requests, subscriptions and a kill of the
\* process interleave: when main is in its loop and no set is handled, whoever was
\* told a state was told IDLE last, unless the last publish failed.
THEOREM ToldIdleAtRestAlways == MgrSafeSpec => []ToldIdleAtRest
<1>1. ToldInv => ToldIdleAtRest
  BY DEF ToldInv, ToldLast, Handled, ToldIdleAtRest
<1> QED BY <1>1, ToldAlways, PTL

\* Only a step of a request publishes.
LEMMA OnlyRequestsPublish ==
    ASSUME ThreadInv, [MgrNext]_mgrVars, Len(published') > Len(published)
    PROVE  HandlerStep
<1>1. Len(published) \in Nat
  BY DEF ThreadInv, Reported, PublishedSequence, Control, Labels
<1>2. published' # published
  BY <1>1
<1>3. published' # << >>
  BY <1>1
<1>4. CASE MainStep
  BY <1>2, <1>4
     DEF MainStep, MainOpens, MainRegisters, MainSignalsReady, MainPublishesIdle, vars, fsmVars
<1>5. CASE HandleSet
  BY <1>2, <1>3, <1>5 DEF HandleSet, EventHandler_MainFSM, vars, fsmVars
<1>6. CASE HandlerReturns
  BY <1>2, <1>6 DEF HandlerReturns, vars, fsmVars
<1>7. CASE OthersStep /\ UNCHANGED << vars, mainPc, bus, runVars >>
  BY <1>2, <1>7 DEF vars, fsmVars
<1>8. CASE DnsmasqExits /\ UNCHANGED busVars
  BY <1>2, <1>8 DEF DnsmasqExits, fsmVars
<1>9. CASE ProcessCrash
  BY <1>3, <1>9 DEF ProcessCrash, Crash
<1>10. CASE UNCHANGED mgrVars
  BY <1>2, <1>10 DEF mgrVars, vars, fsmVars
<1> QED
  BY <1>4, <1>5, <1>6, <1>7, <1>8, <1>9, <1>10 DEF MgrNext, CallbackStep

\* Whatever fails, and over any number of requests, what a subscriber is told
\* follows the table, unless a publish failed or the request began before main
\* had published its IDLE.
THEOREM StatesFollowAlways == MgrSafeSpec => StatesFollow
<1>1. ThreadInv /\ BusOK /\ ToldInv /\ [MgrNext]_mgrVars
      => [~lost /\ ~early /\ Len(published') > Len(published) =>
             \A c \in Clients :
                 told[c] # NULL /\ told'[c] # told[c]
                 => << told[c], told'[c] >> \in Follows]_mgrVars
  <2> SUFFICES ASSUME ThreadInv, BusOK, ToldInv, [MgrNext]_mgrVars,
                      ~lost, ~early, Len(published') > Len(published),
                      NEW c \in Clients, told[c] # NULL, told'[c] # told[c]
               PROVE  << told[c], told'[c] >> \in Follows
    OBVIOUS
  <2>1. ThreadStep /\ DhcpMgr_Publish_Events(Last(published'))
    BY OnlyRequestsPublish DEF HandlerStep
  <2>2. published' # published /\ pc # "rest"
    BY <2>1, PublishedEnds, Publishes
  <2>3. /\ Last(published') \in States
        /\ published = << >> => << "IDLE", Last(published') >> \in Follows
        /\ published # << >> => << Last(published), Last(published') >> \in Follows
    BY <2>1, <2>2, PublishedEnds
  <2>4. told'[c] = Last(published')
    BY <2>1, <2>3, Tells DEF ToldInv
  <2>5. CASE published = << >>
    <3>1. told[c] = "IDLE"
      BY <2>2, <2>5 DEF ToldInv, AfterMain, ToldLast
    <3> QED BY <2>3, <2>4, <2>5, <3>1
  <2>6. CASE published # << >>
    <3>1. told[c] = Last(published)
      BY <2>2, <2>6 DEF ToldInv, ToldLast
    <3> QED BY <2>3, <2>4, <2>6, <3>1
  <2> QED BY <2>5, <2>6
<1> QED BY <1>1, ToldAlways, PTL DEF MgrSafeSpec, StatesFollow

-----------------------------------------------------------------------------
(* Every call is answered once, or its caller has given up.                *)

\* The sets of a queue that a caller waits for when its first has been taken, and
\* when one has been added.
LEMMA TakenAwaited ==
    ASSUME NEW S, NEW queue \in Seq(S), queue # << >>, NEW k
    PROVE  /\ Head(queue) \in S /\ Tail(queue) \in Seq(S) /\ Len(Tail(queue)) <= Len(queue)
           /\ 1 \in Awaited(queue, k) <=> k \in Head(queue).by
           /\ \A i : i \in Awaited(Tail(queue), k)
                     <=> i \in Nat /\ i # 0 /\ i + 1 \in Awaited(queue, k)
<1>1. /\ Len(queue) \in Nat /\ Len(queue) # 0 /\ DOMAIN queue = 1..Len(queue)
      /\ Head(queue) = queue[1] /\ Head(queue) \in S
      /\ Tail(queue) \in Seq(S) /\ Len(Tail(queue)) = Len(queue) - 1
      /\ \A i \in 1..(Len(queue) - 1) : Tail(queue)[i] = queue[i + 1]
  BY HeadTailProperties, EmptySeq, LenProperties
<1>2. DOMAIN Tail(queue) = 1..(Len(queue) - 1)
  BY <1>1, LenProperties
<1> QED BY <1>1, <1>2 DEF Awaited

\* A set that joins the queue is awaited by its caller, at the end of it.
LEMMA AddedAwaited ==
    ASSUME NEW S, NEW queue \in Seq(S), NEW set \in S, NEW k
    PROVE  /\ Append(queue, set) \in Seq(S) /\ Len(Append(queue, set)) = Len(queue) + 1
           /\ Awaited(Append(queue, set), k)
                = Awaited(queue, k) \cup (IF k \in set.by THEN {Len(queue) + 1} ELSE {})
<1>1. /\ Append(queue, set) \in Seq(S) /\ Len(Append(queue, set)) = Len(queue) + 1
      /\ Len(queue) \in Nat /\ DOMAIN queue = 1..Len(queue)
      /\ Append(queue, set)[Len(queue) + 1] = set
      /\ \A i \in 1..Len(queue) : Append(queue, set)[i] = queue[i]
  BY AppendProperties, LenProperties
<1>2. DOMAIN Append(queue, set) = 1..(Len(queue) + 1)
  BY <1>1, LenProperties
<1> QED BY <1>1, <1>2 DEF Awaited

\* At start-up no set is under way.
LEMMA CallsInit == MgrInit => CallsOK
<1> SUFFICES ASSUME MgrInit PROVE CallsOK
  OBVIOUS
<1>1. sets = << >> /\ handling = {} /\ caller = [k \in Callers |-> "idle"]
  BY DEF MgrInit
<1>2. sets \in Seq(SetType) /\ Len(sets) <= MaxSets
  BY <1>1, EmptySeq, BusAssumption
<1>3. \A k \in Callers : caller[k] # "waiting" /\ InQueue(k) = {} /\ InHandler(k) = {}
  BY <1>1 DEF InQueue, InHandler, Awaited
<1> QED BY <1>1, <1>2, <1>3 DEF CallsOK, Waits

\* The handler takes a set: its callers wait for it, and for no other, in the
\* handler, or are answered at once.
LEMMA CallsHandleSet == CallsOK /\ HandleSet => CallsOK'
<1> SUFFICES ASSUME CallsOK, HandleSet PROVE CallsOK'
  OBVIOUS
<1> DEFINE set == Head(sets)
<1>1. sets \in Seq(SetType) /\ sets # << >> /\ handling = {} /\ sets' = Tail(sets)
  BY DEF CallsOK, HandleSet
<1>2. set \in SetType /\ sets' \in Seq(SetType) /\ Len(sets') <= MaxSets
  <2>1. /\ set \in SetType /\ sets' \in Seq(SetType) /\ Len(sets') <= Len(sets)
        /\ Len(sets) <= MaxSets
    BY <1>1, TakenAwaited DEF CallsOK
  <2>2. Len(sets) \in Nat /\ Len(sets') \in Nat
    BY <1>1, <2>1, LenProperties
  <2> QED BY <2>1, <2>2, BusAssumption
<1>3. ASSUME NEW k \in Callers
      PROVE  /\ 1 \in InQueue(k) <=> k \in set.by
             /\ \A i : i \in InQueue(k)' <=> i \in Nat /\ i # 0 /\ i + 1 \in InQueue(k)
             /\ InQueue(k) \subseteq Nat \ {0}
  BY <1>1, TakenAwaited, LenProperties DEF InQueue, Awaited
<1>4. ASSUME NEW k \in Callers
      PROVE  /\ k \in set.by => caller[k] = "waiting" /\ InQueue(k) = {1} /\ InQueue(k)' = {}
             /\ k \notin set.by /\ caller[k] # "waiting" => InQueue(k)' = {}
             /\ k \notin set.by /\ caller[k] = "waiting" => \E i : InQueue(k)' = {i}
  <2> HIDE DEF set
  <2>1. InHandler(k) = {}
    BY <1>1 DEF InHandler
  <2>2. CASE caller[k] # "waiting"
    <3>1. InQueue(k) = {}
      BY <2>2 DEF CallsOK, Waits
    <3> QED BY <1>3, <2>2, <3>1
  <2>3. CASE caller[k] = "waiting"
    <3>1. PICK i : InQueue(k) = {i}
      BY <1>1, <2>3 DEF CallsOK, Waits
    <3>2. i \in Nat \ {0} /\ (k \in set.by <=> i = 1)
      BY <1>3, <3>1
    <3>3. CASE i = 1
      <4>1. InQueue(k)' = {}
        BY <1>3, <3>1, <3>3
      <4> QED BY <2>3, <3>1, <3>2, <3>3, <4>1
    <3>4. CASE i # 1
      <4>1. InQueue(k)' = {i - 1}
        BY <1>3, <3>1, <3>2, <3>4
      <4> QED BY <2>3, <3>2, <3>4, <4>1
    <3> QED BY <3>3, <3>4
  <2> QED BY <2>2, <2>3
<1>5. \A k \in Callers : \A i : InQueue(k)' = {i} => i \in DOMAIN sets'
  BY DEF InQueue, Awaited
<1>6. CASE set.value \in {"start", "stop"} /\ handling' = {set} /\ UNCHANGED caller
  <2>1. \A k \in Callers : InHandler(k)' = IF k \in set.by THEN {set} ELSE {}
    BY <1>6 DEF InHandler
  <2>2. Waits'
    BY <1>4, <1>5, <1>6, <2>1 DEF Waits
  <2>3. \E s \in SetType : handling' = {s} /\ s.value \in {"start", "stop"}
    BY <1>2, <1>6
  <2>4. caller' \in [Callers -> {"idle", "waiting", "ok", "failed"}]
    BY <1>6 DEF CallsOK
  <2> QED BY <1>2, <2>2, <2>3, <2>4 DEF CallsOK
<1>7. CASE Answer(set) /\ UNCHANGED handling
  <2>1. \A k \in Callers : InHandler(k)' = {}
    BY <1>1, <1>7 DEF InHandler
  <2>2. /\ caller' \in [Callers -> {"idle", "waiting", "ok", "failed"}]
        /\ \A k \in Callers : caller'[k] = IF k \in set.by THEN "ok" ELSE caller[k]
    BY <1>7 DEF Answer, CallsOK
  <2>3. Waits'
    BY <1>4, <1>5, <2>1, <2>2 DEF Waits
  <2>4. handling' = {}
    BY <1>1, <1>7
  <2> QED BY <1>2, <2>2, <2>3, <2>4 DEF CallsOK
<1> QED BY <1>6, <1>7 DEF HandleSet

\* A caller that waits for nothing sets something.
LEMMA CallsSetCall ==
    ASSUME CallsOK, NEW k \in Callers, NEW value \in Values, SetCall(k, value)
    PROVE  CallsOK'
<1>1. caller[k] # "waiting" /\ handling' = handling
  BY DEF SetCall
<1>2. \A l \in Callers : InHandler(l)' = InHandler(l)
  BY <1>1 DEF InHandler
<1>3. CASE caller' = [caller EXCEPT ![k] = "failed"] /\ UNCHANGED sets
  <2>1. \A l \in Callers : InQueue(l)' = InQueue(l)
    BY <1>3 DEF InQueue, Awaited
  <2>2. /\ caller' \in [Callers -> {"idle", "waiting", "ok", "failed"}]
        /\ \A l \in Callers : caller'[l] = IF l = k THEN "failed" ELSE caller[l]
    BY <1>3 DEF CallsOK
  <2>3. Waits'
    BY <1>1, <1>2, <1>3, <2>1, <2>2 DEF CallsOK, Waits
  <2> QED BY <1>1, <1>3, <2>2, <2>3 DEF CallsOK
<1>4. CASE /\ Len(sets) < MaxSets
           /\ sets' = Append(sets, Set(k, value))
           /\ caller' = [caller EXCEPT ![k] = "waiting"]
  <2>1. sets \in Seq(SetType) /\ Set(k, value) \in SetType /\ Set(k, value).by = {k}
    BY DEF CallsOK, SetType, Set
  <2>2. /\ sets' \in Seq(SetType) /\ Len(sets') = Len(sets) + 1
        /\ \A l \in Callers :
             InQueue(l)' = InQueue(l) \cup (IF l = k THEN {Len(sets) + 1} ELSE {})
    <3>1. \A l \in Callers :
            Awaited(Append(sets, Set(k, value)), l)
              = Awaited(sets, l) \cup (IF l \in Set(k, value).by THEN {Len(sets) + 1} ELSE {})
      BY <2>1, AddedAwaited
    <3>2. \A l : l \in Set(k, value).by <=> l = k
      BY <2>1
    <3>3. \A l \in Callers : InQueue(l)' = Awaited(Append(sets, Set(k, value)), l)
      BY <1>4 DEF InQueue
    <3>4. sets' \in Seq(SetType) /\ Len(sets') = Len(sets) + 1
      BY <1>4, <2>1, AddedAwaited
    <3> QED BY <3>1, <3>2, <3>3, <3>4 DEF InQueue
  <2>3. Len(sets') <= MaxSets
    BY <1>4, <2>1, <2>2, LenProperties, BusAssumption
  <2>4. /\ caller' \in [Callers -> {"idle", "waiting", "ok", "failed"}]
        /\ \A l \in Callers : caller'[l] = IF l = k THEN "waiting" ELSE caller[l]
    BY <1>4 DEF CallsOK
  <2>5. InQueue(k) = {} /\ InHandler(k) = {} /\ InQueue(k)' = {Len(sets) + 1}
    BY <1>1, <2>2 DEF CallsOK, Waits
  <2>6. \A l \in Callers : \A i : InQueue(l)' = {i} => i \in DOMAIN sets'
    BY DEF InQueue, Awaited
  <2>7. Waits'
    <3> SUFFICES ASSUME NEW l \in Callers
                 PROVE  /\ caller'[l] # "waiting" => InQueue(l)' = {} /\ InHandler(l)' = {}
                        /\ caller'[l] = "waiting" =>
                             \/ (\E i \in DOMAIN sets' : InQueue(l)' = {i}) /\ InHandler(l)' = {}
                             \/ InQueue(l)' = {} /\ \E s \in handling' : InHandler(l)' = {s}
      BY DEF Waits
    <3>1. CASE l = k
      BY <1>2, <2>4, <2>5, <2>6, <3>1
    <3>2. CASE l # k
      <4>1. InQueue(l)' = InQueue(l) /\ InHandler(l)' = InHandler(l) /\ caller'[l] = caller[l]
        BY <1>2, <2>2, <2>4, <3>2
      <4> QED BY <1>1, <2>6, <4>1 DEF CallsOK, Waits
    <3> QED BY <3>1, <3>2
  <2> QED BY <1>1, <2>2, <2>3, <2>4, <2>7 DEF CallsOK
<1> QED BY <1>3, <1>4 DEF SetCall

\* Callers that give up are nowhere waited for.
LEMMA CallsAbandoned ==
    ASSUME CallsOK, NEW K, Abandoned(K),
           caller' \in [Callers -> {"idle", "waiting", "ok", "failed"}],
           \A l \in Callers : IF l \in K THEN caller'[l] # "waiting" ELSE caller'[l] = caller[l]
    PROVE  CallsOK'
<1>1. /\ sets' = [i \in DOMAIN sets |-> [sets[i] EXCEPT !.by = @ \ K]]
      /\ handling' = {[s EXCEPT !.by = @ \ K] : s \in handling}
  BY DEF Abandoned
<1>3. \A s \in SetType : /\ [s EXCEPT !.by = @ \ K] \in SetType
                         /\ [s EXCEPT !.by = @ \ K].value = s.value
                         /\ [s EXCEPT !.by = @ \ K].by = s.by \ K
  BY DEF SetType
<1>4. /\ Len(sets) \in Nat /\ DOMAIN sets = 1..Len(sets)
      /\ \A i \in DOMAIN sets : sets[i] \in SetType
  BY LenProperties, ElementOfSeq DEF CallsOK
<1>5. /\ sets' \in Seq(SetType) /\ Len(sets') = Len(sets) /\ DOMAIN sets' = DOMAIN sets
      /\ \A i \in DOMAIN sets : sets'[i].by = sets[i].by \ K
  <2>1. sets' \in [1..Len(sets) -> SetType]
    BY <1>1, <1>3, <1>4
  <2>2. sets' \in Seq(SetType)
    BY <1>4, <2>1, FunctionIsSeq
  <2>3. DOMAIN sets' = DOMAIN sets /\ Len(sets') = Len(sets)
    BY <1>4, <2>1, <2>2, LenProperties
  <2> QED BY <1>1, <1>3, <1>4, <2>2, <2>3
<1>6. \A l \in Callers : InQueue(l)' = IF l \in K THEN {} ELSE InQueue(l)
  BY <1>5 DEF InQueue, Awaited
<1>7. handling' = {} \/ \E s \in SetType : handling' = {s} /\ s.value \in {"start", "stop"}
  <2>1. CASE handling = {}
    BY <1>1, <2>1
  <2>2. ASSUME NEW s \in SetType, handling = {s}, s.value \in {"start", "stop"}
        PROVE  handling' = {[s EXCEPT !.by = @ \ K]}
    BY <1>1, <2>2
  <2> QED BY <1>3, <2>1, <2>2 DEF CallsOK
<1>8. \A l \in Callers :
        /\ l \in K => InHandler(l)' = {}
        /\ l \notin K /\ InHandler(l) = {} => InHandler(l)' = {}
        /\ l \notin K /\ InHandler(l) # {} => \E s \in handling' : InHandler(l)' = {s}
  <2>1. CASE handling = {}
    BY <1>1, <2>1 DEF InHandler
  <2>2. ASSUME NEW s \in SetType, handling = {s}
        PROVE  \A l \in Callers :
                 /\ l \in K => InHandler(l)' = {}
                 /\ l \notin K /\ InHandler(l) = {} => InHandler(l)' = {}
                 /\ l \notin K /\ InHandler(l) # {} => \E t \in handling' : InHandler(l)' = {t}
    <3> DEFINE t == [s EXCEPT !.by = @ \ K]
    <3>1. handling' = {t} /\ t.by = s.by \ K
      BY <1>1, <1>3, <2>2
    <3> HIDE DEF t
    <3>2. \A l \in Callers : /\ InHandler(l) = IF l \in s.by THEN {s} ELSE {}
                             /\ InHandler(l)' = IF l \in s.by \ K THEN {t} ELSE {}
      BY <2>2, <3>1 DEF InHandler
    <3> QED BY <3>1, <3>2
  <2> QED BY <2>1, <2>2 DEF CallsOK
<1>9. Waits'
  <2> SUFFICES ASSUME NEW l \in Callers
               PROVE  /\ caller'[l] # "waiting" => InQueue(l)' = {} /\ InHandler(l)' = {}
                      /\ caller'[l] = "waiting" =>
                           \/ (\E i \in DOMAIN sets' : InQueue(l)' = {i}) /\ InHandler(l)' = {}
                           \/ InQueue(l)' = {} /\ \E s \in handling' : InHandler(l)' = {s}
    BY DEF Waits
  <2>1. CASE l \in K
    BY <1>6, <1>8, <2>1
  <2>2. CASE l \notin K
    <3>1. InQueue(l)' = InQueue(l) /\ caller'[l] = caller[l] /\ DOMAIN sets' = DOMAIN sets
      BY <1>5, <1>6, <2>2
    <3>2. CASE InHandler(l) = {}
      <4>1. InHandler(l)' = {}
        BY <1>8, <2>2, <3>2
      <4> QED BY <3>1, <3>2, <4>1 DEF CallsOK, Waits
    <3>3. CASE InHandler(l) # {}
      <4>1. \E s \in handling' : InHandler(l)' = {s}
        BY <1>8, <2>2, <3>3
      <4> QED BY <3>1, <3>3, <4>1 DEF CallsOK, Waits
    <3> QED BY <3>2, <3>3
  <2> QED BY <2>1, <2>2
<1> QED BY <1>5, <1>7, <1>9 DEF CallsOK

\* A caller that gives up is nowhere waited for.
LEMMA CallsTimesOut ==
    ASSUME CallsOK, NEW k \in Callers, SetTimesOut(k)
    PROVE  CallsOK'
<1>1. /\ Abandoned({k}) /\ caller' \in [Callers -> {"idle", "waiting", "ok", "failed"}]
      /\ \A l \in Callers : caller'[l] = IF l = k THEN "failed" ELSE caller[l]
  BY DEF SetTimesOut, CallsOK
<1>2. \A l \in Callers : IF l \in {k} THEN caller'[l] # "waiting" ELSE caller'[l] = caller[l]
  BY <1>1
<1> QED BY <1>1, <1>2, CallsAbandoned

\* Every step keeps callers waiting exactly for the sets that name them.
LEMMA CallsNext == CallsOK /\ [MgrNext]_mgrVars => CallsOK'
<1> SUFFICES ASSUME CallsOK, [MgrNext]_mgrVars PROVE CallsOK'
  OBVIOUS
<1>0. CASE UNCHANGED callVars
  BY <1>0 DEF callVars, CallsOK, Waits, InQueue, InHandler
<1>1. CASE MainStep
  BY <1>0, <1>1
     DEF MainStep, MainOpens, MainRegisters, MainSignalsReady, MainPublishesIdle, callVars
<1>2. CASE HandleSet
  BY <1>2, CallsHandleSet
<1>3. CASE HandlerStep
  BY <1>0, <1>3 DEF HandlerStep
<1>4. CASE HandlerReturns
  <2>1. PICK set \in handling : Answer(set)
    BY <1>4 DEF HandlerReturns
  <2>2. handling = {set} /\ handling' = {} /\ sets' = sets
    BY <1>4, <2>1 DEF HandlerReturns, CallsOK
  <2>3. /\ caller' \in [Callers -> {"idle", "waiting", "ok", "failed"}]
        /\ \A k \in Callers : caller'[k] = IF k \in set.by THEN "ok" ELSE caller[k]
    BY <2>1 DEF Answer, CallsOK
  <2>4. \A k \in Callers : /\ InHandler(k) = IF k \in set.by THEN {set} ELSE {}
                           /\ InHandler(k)' = {} /\ InQueue(k)' = InQueue(k)
    BY <2>2 DEF InHandler, InQueue
  <2>5. Waits'
    <3> SUFFICES ASSUME NEW k \in Callers
                 PROVE  /\ caller'[k] # "waiting" => InQueue(k)' = {} /\ InHandler(k)' = {}
                        /\ caller'[k] = "waiting" =>
                             \/ (\E i \in DOMAIN sets' : InQueue(k)' = {i}) /\ InHandler(k)' = {}
                             \/ InQueue(k)' = {} /\ \E s \in handling' : InHandler(k)' = {s}
      BY DEF Waits
    <3>1. CASE k \in set.by
      <4>1. InHandler(k) = {set} /\ InHandler(k) # {}
        BY <2>4, <3>1
      <4>2. InQueue(k) = {}
        BY <4>1 DEF CallsOK, Waits
      <4> QED BY <2>3, <2>4, <3>1, <4>2
    <3>2. CASE k \notin set.by
      <4>1. InHandler(k) = {} /\ \A s : InHandler(k) # {s}
        BY <2>4, <3>2
      <4>2. caller'[k] = caller[k] /\ InQueue(k)' = InQueue(k) /\ InHandler(k)' = {}
        BY <2>3, <2>4, <3>2
      <4> QED BY <2>2, <4>1, <4>2 DEF CallsOK, Waits
    <3> QED BY <3>1, <3>2
  <2> QED BY <2>2, <2>3, <2>5 DEF CallsOK
<1>5. CASE OthersStep
  BY <1>0, <1>5, CallsSetCall, CallsTimesOut DEF OthersStep
<1>6. CASE DnsmasqExits /\ UNCHANGED busVars
  BY <1>0, <1>6 DEF busVars
<1>7. CASE ProcessCrash
  <2>1. /\ sets' = << >> /\ handling' = {}
        /\ caller' = [k \in Callers |-> IF caller[k] = "waiting" THEN "failed" ELSE caller[k]]
    BY <1>7 DEF ProcessCrash
  <2>2. sets' \in Seq(SetType) /\ Len(sets') <= MaxSets
    BY <2>1, EmptySeq, BusAssumption
  <2>3. caller' \in [Callers -> {"idle", "waiting", "ok", "failed"}]
    BY <2>1 DEF CallsOK
  <2>4. \A k \in Callers :
          caller'[k] # "waiting" /\ InQueue(k)' = {} /\ InHandler(k)' = {}
    BY <2>1 DEF InQueue, InHandler, Awaited
  <2> QED BY <2>1, <2>2, <2>3, <2>4 DEF CallsOK, Waits
<1>8. CASE UNCHANGED mgrVars
  BY <1>0, <1>8 DEF mgrVars, busVars
<1> QED
  BY <1>1, <1>2, <1>3, <1>4, <1>5, <1>6, <1>7, <1>8 DEF MgrNext, CallbackStep

\* Calls, answers, timeouts and kills in any order.
LEMMA CallsAlways == MgrSafeSpec => []CallsOK
BY CallsInit, CallsNext, PTL DEF MgrSafeSpec

\* Whoever waits for the answer of a set waits for one set, in the queue or in the
\* handler, and no set names a caller that does not wait: no answer is lost and
\* none is given twice.
LEMMA WaitsOnce ==
    ASSUME CallsOK, NEW k \in Callers
    PROVE  Cardinality({i \in DOMAIN sets : k \in sets[i].by})
             + Cardinality({s \in handling : k \in s.by}) = IF caller[k] = "waiting" THEN 1 ELSE 0
<1> SUFFICES Cardinality(InQueue(k)) + Cardinality(InHandler(k))
               = IF caller[k] = "waiting" THEN 1 ELSE 0
  BY DEF InQueue, InHandler, Awaited
<1>2. Cardinality({}) = 0 /\ \A e : Cardinality({e}) = 1
  BY FS_EmptySet, FS_Singleton
<1>3. CASE caller[k] # "waiting"
  <2>1. InQueue(k) = {} /\ InHandler(k) = {}
    BY <1>3 DEF CallsOK, Waits
  <2>2. Cardinality(InQueue(k)) = 0 /\ Cardinality(InHandler(k)) = 0
    BY <1>2, <2>1
  <2> QED BY <1>3, <2>2
<1>4. CASE caller[k] = "waiting"
  <2>1. \/ (\E i : InQueue(k) = {i}) /\ InHandler(k) = {}
        \/ InQueue(k) = {} /\ \E s : InHandler(k) = {s}
    BY <1>4 DEF CallsOK, Waits
  <2>2. \/ Cardinality(InQueue(k)) = 1 /\ Cardinality(InHandler(k)) = 0
        \/ Cardinality(InQueue(k)) = 0 /\ Cardinality(InHandler(k)) = 1
    BY <1>2, <2>1
  <2> QED BY <1>4, <2>2
<1> QED BY <1>3, <1>4

\* The invariants give MgrTypeOK.
LEMMA MgrTypes == BusOK /\ CallsOK => MgrTypeOK
<1> SUFFICES ASSUME BusOK, CallsOK PROVE MgrTypeOK
  OBVIOUS
<1>1. \A i \in DOMAIN sets : sets[i].value \in Values
  <2>1. \A i \in DOMAIN sets : sets[i] \in SetType
    BY LenProperties, ElementOfSeq DEF CallsOK
  <2> QED BY <2>1 DEF SetType
<1>2. handling = {} \/ \E K \in SUBSET Callers, v \in {"start", "stop"} :
                           handling = {[by |-> K, value |-> v]}
  <2>1. \A s \in SetType : s = [by |-> s.by, value |-> s.value] /\ s.by \in SUBSET Callers
    BY DEF SetType
  <2> QED BY <2>1 DEF CallsOK
<1>3. ready \in [Clients -> 0..(MaxCrashes + 1)]
  <2>1. \A c \in Clients : ready[c] \in 0..(MaxCrashes + 1)
    BY BusAssumption DEF BusOK
  <2> QED BY <2>1 DEF BusOK
<1> QED BY <1>1, <1>2, <1>3, WaitsOnce DEF BusOK, CallsOK, MgrTypeOK

\* The bus and the main thread have the types of MgrTypeOK, for any number of
\* clients, callers, sets and kills: no answer is lost and none given twice.
THEOREM MgrTypeCorrect == MgrSafeSpec => []MgrTypeOK
BY MgrTypes, BusAlways, CallsAlways, PTL

-----------------------------------------------------------------------------
(* What DhcpMgrFSM promises, on the bus.                                   *)

\* Whatever happens on the bus, a start during which nothing fails leaves dnsmasq
\* serving the pairs that the provider's document enables.
THEOREM MgrStartServes == MgrSafeSpec => []StartServes
BY MgrImplements, StartServesAlways, PTL

\* Whatever happens on the bus, the manager gives the LAN the service that
\* DhcpService specifies, but that a request ends, which the runs check.
THEOREM MgrGivesService == MgrSafeSpec => Service!SafeSpec
BY MgrImplements, ServiceImplemented, PTL
=============================================================================
