----------------------------- MODULE XchgLockMC -----------------------------
(***************************************************************************)
(* The built spin lock with three CPUs: an owner, a waiter that read the   *)
(* lock word before the owner left, and one that read it after.            *)
(***************************************************************************)
EXTENDS XchgLock
=============================================================================
