----------------------------- MODULE DhcpService -----------------------------
(***************************************************************************)
(* What the manager does for the LAN, in a user's terms: a configuration   *)
(* is a set of (bridge, address range) pairs; the provider offers one, a   *)
(* request moves it from offered through prepared and installed to served, *)
(* and unless there was trouble it is over only when the right             *)
(* configuration is served.  There are no files, processes, states or      *)
(* stack; DhcpMgrFSM implements this specification.                        *)
(***************************************************************************)

CONSTANT Pairs   \* what there is to serve: (bridge, address range)

Configs == SUBSET Pairs

VARIABLES
    phase,      \* the request being handled: "rest", "start" or "stop"
    offered,    \* what the provider answered during this request
    prepared,   \* what the local file would serve
    installed,  \* what the installed file would serve
    serving,    \* {the configuration dnsmasq serves}, or Down
    trouble     \* something failed that the promise does not cover

Nothing == {}   \* the configuration without pairs
Down    == {}   \* dnsmasq is not running

service == << phase, offered, prepared, installed, serving, trouble >>

Init ==
    /\ phase = "rest"
    /\ offered = Nothing
    /\ prepared = Nothing
    /\ installed \in Configs
    /\ serving = Down
    /\ trouble = FALSE

-----------------------------------------------------------------------------

\* A request begins; trouble that left nothing behind is forgotten.
Ask(request) ==
    /\ phase = "rest"
    /\ phase' = request
    /\ offered' = Nothing
    /\ trouble' \in {trouble, FALSE}
    /\ UNCHANGED << prepared, installed, serving >>

\* The provider answers, or cannot be asked.
Offer ==
    /\ phase # "rest"
    /\ offered' \in Configs
    /\ trouble' \in {trouble, TRUE}
    /\ UNCHANGED << phase, prepared, installed, serving >>

\* A configuration file is prepared: what was offered, or nothing.
Prepare ==
    /\ phase # "rest"
    /\ prepared' \in {offered, Nothing}
    /\ trouble' \in {trouble, TRUE}
    /\ UNCHANGED << phase, offered, installed, serving >>

\* The installed file is truncated, then written.
Install ==
    /\ phase # "rest"
    /\ installed' \in {prepared, Nothing}
    /\ trouble' \in {trouble, TRUE}
    /\ UNCHANGED << phase, offered, prepared, serving >>

\* dnsmasq is stopped by a request, or exits by itself.
GoDown ==
    /\ serving # Down
    /\ serving' = Down
    /\ trouble' \in {trouble, TRUE}
    /\ phase = "rest" => trouble'
    /\ UNCHANGED << phase, offered, prepared, installed >>

\* dnsmasq comes up with what is installed, which heals older trouble.
ComeUp ==
    /\ phase # "rest"
    /\ serving = Down
    /\ serving' = {installed}
    /\ trouble' \in {trouble, FALSE}
    /\ UNCHANGED << phase, offered, prepared, installed >>

Fail ==
    /\ trouble' = TRUE
    /\ UNCHANGED << phase, offered, prepared, installed, serving >>

\* What a request is to bring about.
Goal == IF phase = "start" THEN offered ELSE Nothing

\* The promise.
Finish ==
    /\ phase # "rest"
    /\ phase' = "rest"
    /\ trouble \/ serving = {Goal}
    /\ UNCHANGED << offered, prepared, installed, serving, trouble >>

\* The manager is killed: what it was told is forgotten, the files and dnsmasq
\* stay.
Abort ==
    /\ phase' = "rest"
    /\ offered' = Nothing
    /\ trouble' = TRUE
    /\ UNCHANGED << prepared, installed, serving >>

Next ==
    \/ \E request \in {"start", "stop"} : Ask(request)
    \/ Offer \/ Prepare \/ Install
    \/ GoDown \/ ComeUp \/ Fail
    \/ Finish \/ Abort

SafeSpec == Init /\ [][Next]_service

\* Every request is over some time.
Spec == SafeSpec /\ []<>(phase = "rest")
=============================================================================
