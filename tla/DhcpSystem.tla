------------------------------ MODULE DhcpSystem ------------------------------
(***************************************************************************)
(* The manager with the two programs of Testapp/ on the same bus: clients  *)
(* that subscribe to its events, answer the ready signal with "start" and  *)
(* send a user's commands (Rbus_client_test.c), and the provider of the    *)
(* LAN configuration (Rbus_client_test1.c).                                *)
(*                                                                         *)
(* A client has two threads: main reads commands, and rbus calls           *)
(* event_handler on a thread of its own.  Both block in rbus_setStr.       *)
(***************************************************************************)
EXTENDS DhcpMgr

CONSTANT Commands   \* what a user may type: values of the property, or "quit"

ASSUME CommandsAssumption ==
    /\ Commands \subseteq Values \cup {"quit"}
    /\ Callers = Clients \X {"main", "event"}

VARIABLES
    client,    \* where the main thread of each client stands
    provider   \* the provider: not started, registered, "deaf" without, or gone

sysVars == << mgrVars, client, provider >>

main(c)  == << c, "main" >>
event(c) == << c, "event" >>

-----------------------------------------------------------------------------
(* The client's main thread.                                               *)

At(c, here, next) == client[c] = here /\ client' = [client EXCEPT ![c] = next]

\* rbus_open; a client without a handle returns.
ClientOpens(c) ==
    /\ \/ At(c, "open", "subscribe State")
       \/ "open" \in BusFaults /\ At(c, "open", "gone")
    /\ UNCHANGED << mgrVars, provider >>

\* rbusEvent_Subscribe tries again for five seconds as long as the manager has not
\* registered the event; the client goes on without the event.
ClientSubscribes(c, topic, here, next) ==
    /\ At(c, here, next)
    /\ \/ Subscribe(c, topic)
       \/ bus # "registered" /\ UNCHANGED << subscribed, eventVars >>
    /\ UNCHANGED << vars, mainPc, bus, callVars, runVars, provider >>

ClientSubscribesState(c) == ClientSubscribes(c, "State", "subscribe State", "subscribe Ready")
ClientSubscribesReady(c) == ClientSubscribes(c, "StateReady", "subscribe Ready", "command")

\* set_dhcp_v4_event of a command.
ClientSets(c) ==
    /\ At(c, "command", "set")
    /\ \E value \in Commands \cap Values : SetCall(main(c), value)
    /\ UNCHANGED << vars, mainPc, bus, subscribed, eventVars, runVars, provider >>

\* Mutant: the outcome is not awaited.
ClientPrintsAtOnce(c) ==
    /\ At(c, "set", "command")
    /\ UNCHANGED << mgrVars, provider >>

\* rbus_setStr returns and the outcome is printed.
ClientPrints(c) ==
    /\ At(c, "set", "command")
    /\ caller[main(c)] # "waiting"
    /\ UNCHANGED << mgrVars, provider >>

\* The process ends, and its other thread with it.
ClientQuits(c) ==
    /\ "quit" \in Commands
    /\ At(c, "command", "gone")
    /\ Unsubscribe(c)
    /\ Abandoned({main(c), event(c)})
    /\ caller' = [caller EXCEPT ![event(c)] = IF @ = "waiting" THEN "failed" ELSE @]
    /\ UNCHANGED << vars, mainPc, bus, runVars, provider >>

-----------------------------------------------------------------------------
(* The client's event_handler: states are printed, "Ready" sets "start".    *)

\* Mutant: the payload is compared with another word.
EventHandlerDeaf(c) ==
    /\ caller[event(c)] # "waiting"
    /\ TakeReady(c)
    /\ UNCHANGED << vars, mainPc, bus, callVars, subscribed, runVars, client, provider >>

EventHandler(c) ==
    /\ caller[event(c)] # "waiting"
    /\ TakeReady(c)
    /\ SetCall(event(c), "start")
    /\ UNCHANGED << vars, mainPc, bus, subscribed, runVars, client, provider >>

-----------------------------------------------------------------------------
(* The provider.  Nobody starts it again.                                  *)

ProviderOpens ==
    /\ provider = "off"
    /\ \/ provider' = "open"
       \/ "open" \in BusFaults /\ provider' = "gone"
    /\ UNCHANGED << mgrVars, client >>

ProviderRegisters ==
    /\ provider = "open"
    /\ \/ provider' = "registered"
       \/ "register" \in BusFaults /\ provider' = "deaf"
    /\ UNCHANGED << mgrVars, client >>

ProviderQuits ==
    /\ provider \in {"registered", "deaf"}
    /\ provider' = "gone"
    /\ UNCHANGED << mgrVars, client >>

-----------------------------------------------------------------------------
(* The manager in this company.                                            *)

\* A get is answered when its provider is registered.
Answered == pc = "PrepareConfigv4s" => (lan' # {} <=> provider = "registered")

ManagerStep ==
    /\ \/ MainStep
       \/ CallbackStep /\ Answered
    /\ UNCHANGED << client, provider >>

CallsTimeOut ==
    /\ \E k \in Callers : SetTimesOut(k)
    /\ UNCHANGED << vars, mainPc, bus, subscribed, eventVars, runVars, client, provider >>

Accidents ==
    /\ \/ DnsmasqExits /\ UNCHANGED busVars
       \/ ProcessCrash
    /\ UNCHANGED << client, provider >>

-----------------------------------------------------------------------------

SysInit ==
    /\ MgrInit
    /\ client = [c \in Clients |-> "open"]
    /\ provider = "off"

\* The steps a client takes by itself; commands are the user's.
ClientRuns(c) ==
    \/ ClientOpens(c) \/ ClientSubscribesState(c) \/ ClientSubscribesReady(c)
    \/ ClientPrints(c)

ClientStep(c) == ClientRuns(c) \/ ClientSets(c) \/ ClientQuits(c) \/ EventHandler(c)

ProviderStep == ProviderOpens \/ ProviderRegisters \/ ProviderQuits

SysNext ==
    \/ ManagerStep
    \/ \E c \in Clients : ClientStep(c)
    \/ ProviderStep
    \/ CallsTimeOut
    \/ Accidents

SysSafeSpec == SysInit /\ [][SysNext]_sysVars

\* The threads of the manager and of the clients are scheduled.  Users type what
\* and when they like, and nobody has to start a provider.
SysSpec ==
    /\ SysSafeSpec
    /\ WF_sysVars(MainStep /\ UNCHANGED << client, provider >>)
    /\ WF_sysVars(CallbackStep /\ Answered /\ UNCHANGED << client, provider >>)
    /\ \A c \in Clients : WF_sysVars(ClientRuns(c)) /\ WF_sysVars(EventHandler(c))

-----------------------------------------------------------------------------

\* A thread waits for a set only where its program makes one, and a client that
\* is gone has left nothing behind but the sets it has made.
SysTypeOK ==
    /\ MgrTypeOK
    /\ client \in [Clients -> {"open", "subscribe State", "subscribe Ready", "command",
                               "set", "gone"}]
    /\ provider \in {"off", "open", "registered", "deaf", "gone"}
    /\ \A c \in Clients :
         /\ caller[main(c)] = "waiting" => client[c] = "set"
         /\ client[c] = "gone" => /\ caller[event(c)] # "waiting" /\ ready[c] = 0
                                  /\ \A topic \in Topics : c \notin subscribed[topic]

\* From the ready signal to the LAN: a client that is told READY makes the manager
\* serve what the provider holds, unless the get of the configuration failed.
\* Whatever a user types at the same time, and although the client blocks in its
\* event handler while the manager publishes to it (event_handler,
\* DhcpMgr_Event_SetHandler, event_Dispatcher_startv4).
ReadyServes ==
    \A c \in Clients :
        ready[c] > 0 ~> \/ /\ dnsmasq.up
                           /\ \E reply \in Replies : Served(dnsmasq.lines) = Wanted({reply})
                        \/ "get" \in failed

\* When the manager is killed in the middle, the READY of the next start-up has the
\* client start it again: dnsmasq runs and the configuration is installed, unless
\* the get failed, the client is gone, rbus forgot its subscription, or the manager
\* came up without rbus.  dnsmasq need not have read it (LeftAloneIsCurrent).
ReadyInstalls ==
    \A c \in Clients :
        ready[c] > 0 ~> \/ /\ dnsmasq.up
                           /\ \E reply \in Replies : Served(conf.lines) = Wanted({reply})
                        \/ "get" \in failed
                        \/ client[c] = "gone" \/ c \notin subscribed["StateReady"]
                        \/ mainPc = "loop" /\ bus # "registered"

\* No client thread waits for ever: neither main in a command nor the thread of
\* event_handler, on which the answer of its set follows the states published to it
\* meanwhile (rbus_setStr in set_dhcp_v4_event, DhcpMgr_Event_SetHandler).
SetReturns ==
    \A c \in Clients : /\ client[c] = "set" ~> client[c] # "set"
                       /\ caller[event(c)] = "waiting" ~> caller[event(c)] # "waiting"
=============================================================================
