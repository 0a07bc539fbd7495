--------------------------- MODULE MCOutboxDelivery ---------------------------
(***************************************************************************)
(* Instances of OutboxDelivery for TLC.                                    *)
(***************************************************************************)
EXTENDS OutboxDelivery, TLC

(* Items and workers are interchangeable; jobs are not, the outbox is      *)
(* ordered by identity.                                                    *)
DeliverySymmetry == Permutations(Items) \cup Permutations(Workers) \cup Permutations(Publishers)

===============================================================================
