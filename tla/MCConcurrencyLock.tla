-------------------------- MODULE MCConcurrencyLock --------------------------
(* Three requests over one lock: a holder, one that is refused or loses the *)
(* race to insert, and one that finds the lock removed.                     *)
EXTENDS ConcurrencyLock
=============================================================================
