-------------------------- MODULE MCItemTransactions --------------------------
(***************************************************************************)
(* An instance of ItemTransactions for TLC.                                *)
(***************************************************************************)
EXTENDS ItemTransactions

(* All items hash to the same lock key. *)
CollidingKeys == [i \in Items |-> "key"]

===============================================================================
