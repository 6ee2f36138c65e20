---------------------------- MODULE MCOrderSaga ----------------------------
(***************************************************************************)
(* Instances of OrderSaga for TLC.                                         *)
(***************************************************************************)
EXTENDS OrderSaga, TLC

\* SKUs, orders and cancel requests are each interchangeable.
SagaSymmetry ==
    Permutations(Sku) \cup Permutations(Order) \cup Permutations(CancelRequest)

=============================================================================
