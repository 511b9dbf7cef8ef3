--------------------------- MODULE MCModuleWorkers ---------------------------
(* Two modules, the first with two sensors of different periods.           *)
EXTENDS ModuleWorkers, TLC

CONSTANTS bond, stage, bondTemp, bondForce, stagePos

MCModuleOf == bondTemp :> bond @@ bondForce :> bond @@ stagePos :> stage
MCPeriod == bondTemp :> 2 @@ bondForce :> 1 @@ stagePos :> 2
=============================================================================
