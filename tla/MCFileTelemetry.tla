-------------------------- MODULE MCFileTelemetry --------------------------
(***************************************************************************)
(* FileTelemetry, with a temporary and an executable path and a part of a  *)
(* path, which the agent reads as the temporary one.                       *)
(***************************************************************************)
EXTENDS FileTelemetry, TLC

CONSTANTS tmp, exe, rel

MCExt == (tmp :> "tmp") @@ (exe :> "exe") @@ (rel :> "tmp")
MCMeant == [t \in Part |-> tmp]
MCExecExt == {"exe"}
=============================================================================
