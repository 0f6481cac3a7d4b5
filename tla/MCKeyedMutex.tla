---------------------------- MODULE MCKeyedMutex ----------------------------
(* Four acquire chains over two keys: a holder, a queue of up to three, and  *)
(* a second mutex that must stay independent of the first.                  *)
EXTENDS KeyedMutex
=============================================================================
