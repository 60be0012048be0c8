--------------------------- MODULE MCCycleRunner ---------------------------
(***************************************************************************)
(* Instances of CycleRunner for TLC: the API process with its background   *)
(* thread and one request thread, and the command line as a process of     *)
(* its own.                                                                *)
(***************************************************************************)
EXTENDS CycleRunner, TLC

CONSTANTS loop, web, cli, api, shell

MCCallers == {loop, web, cli}
MCLoops   == {loop}
MCRequests == {web}
MCProcs   == {api, shell}
MCProcOf  == (loop :> api) @@ (web :> api) @@ (cli :> shell)

=============================================================================
