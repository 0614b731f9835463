----------------------------- MODULE EnvSchedMC -----------------------------
(***************************************************************************)
(* Environments and their scheduling on two CPUs: two idle environments,   *)
(* two programs made at boot, and slots that they fork into and reuse.     *)
(***************************************************************************)
EXTENDS EnvSched
=============================================================================
