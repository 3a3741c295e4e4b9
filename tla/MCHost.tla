-------------------------------- MODULE MCHost --------------------------------
(* What calls of several devices and sessions share, for TLC: barriers, the    *)
(* rule that blocks the host's network, the server with its connection, the    *)
(* resolver of input backends, the tabs of a device, and what is recorded of   *)
(* its pages and its screen.  None calls another:                              *)
(* a behaviour is one of them, and the others' state stays as it is.           *)
EXTENDS StepBarrier, NetworkBlock, McpServer, InputRouting, TabPool, Captures

VARIABLE part

\* Hosts with the bridge, and hosts without it that have the other tiers.
Typical ==
  \/ /\ env.bridge /\ env.focus /\ ~env.headless /\ around.simctl /\ around.safari = "none"
     /\ around.app = IF env.pointer THEN "none" ELSE "eval"
  \/ /\ ~env.bridge /\ ~env.pointer /\ around.app = "none"
     /\ (env.headless => env.focus) /\ (around.simctl => env.headless = env.focus)
     /\ around.safari = IF around.simctl THEN "none" ELSE "off"
Poorest == ~env.bridge /\ ~env.focus /\ ~around.simctl

HostInit ==
  /\ Init /\ NetworkInit /\ McpInit /\ InputInit /\ TabInit /\ LogInit /\ HarInit /\ FilmInit /\ Typical
  /\ part \in {"barrier", "network", "server", "input", "tabs", "logs", "har", "film"}
  /\ part # "network" => ~rule
  /\ part # "input" => Poorest
  /\ on = CHOOSE p \in Pages : TRUE
  /\ part # "logs" => log.tool = "network"
HostNext ==
  /\ UNCHANGED part
  /\ \/ part = "barrier" /\ Next /\ UNCHANGED <<nvars, mvars, ivars, tabvars, capvars>>
     \/ part = "network" /\ NetworkNext /\ UNCHANGED <<vars, mvars, ivars, tabvars, capvars>>
     \/ part = "server" /\ McpNext /\ UNCHANGED <<vars, nvars, ivars, tabvars, capvars>>
     \/ part = "input" /\ InputNext /\ UNCHANGED <<vars, nvars, mvars, tabvars, capvars>>
     \/ part = "tabs" /\ TabNext /\ UNCHANGED <<vars, nvars, mvars, ivars, capvars>>
     \/ /\ UNCHANGED <<vars, nvars, mvars, ivars, tabvars>>
        /\ \/ part = "logs" /\ LogNext /\ UNCHANGED <<har, film>>
           \/ part = "har" /\ HarNext /\ UNCHANGED <<log, film>>
           \/ part = "film" /\ FilmNext /\ UNCHANGED <<log, har>>
HostSpec == HostInit /\ [][HostNext]_<<part, vars, nvars, mvars, ivars, tabvars, capvars>> /\ Fairness

\* Bound: a server whose pages are disturbed stays so, and is not looked at any further.
Undisturbed == part = "server" => ~disturbed
===============================================================================
