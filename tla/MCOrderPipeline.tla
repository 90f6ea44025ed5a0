--------------------------- MODULE MCOrderPipeline --------------------------
(* Instances of OrderPipeline for TLC.                                      *)
EXTENDS OrderPipeline, TLC

\* Safety runs only: orders are interchangeable, and so are the instances of
\* one service.
Symmetry == Permutations(Order) \cup Permutations(OrderSvc)
                                \cup Permutations(PaymentSvc)
=============================================================================
