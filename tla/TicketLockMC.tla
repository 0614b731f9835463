---------------------------- MODULE TicketLockMC ----------------------------
(***************************************************************************)
(* The ticket build with three CPUs and the smallest modulus its           *)
(* assumption allows, so that own and next wrap after four acquisitions.   *)
(***************************************************************************)
EXTENDS TicketLock
=============================================================================
