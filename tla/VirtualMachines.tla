--------------------------- MODULE VirtualMachines ---------------------------
(***************************************************************************)
(* The four virtual machines of Homework2/Codes: the web server with its   *)
(* pinned memory, its monitor and its pages, the authentication service,   *)
(* the file server, and the broker with its subscribers.  Every request to *)
(* the web server has a goroutine of its own.                              *)
(***************************************************************************)
EXTENDS WebGateway, PageServices

systemVars == <<gatewayVars, pageVars>>

InitSystem == InitGateway /\ InitPages

NextSystem ==
  \/ NextGateway /\ UNCHANGED pageVars
  \/ NextPages /\ UNCHANGED gatewayVars

SystemSpec == InitSystem /\ [][NextSystem]_systemVars

\* What runs is the handlers and the goroutines of the gateway, and the services
\* that are up.
SystemFairness ==
  /\ GatewayFairness
  /\ \A q \in Pages : WF_pageVars(HandlePage(q))

FairSystemSpec == SystemSpec /\ SystemFairness

=============================================================================
