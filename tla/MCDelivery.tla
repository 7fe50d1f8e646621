----------------------------- MODULE MCDelivery -----------------------------
(* Model values for checking Delivery.                                       *)
EXTENDS Delivery, TLC
CONSTANTS p1, p2
Interchangeable == Permutations(Proc)
=============================================================================
