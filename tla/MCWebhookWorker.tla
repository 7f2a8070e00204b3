-------------------------- MODULE MCWebhookWorker --------------------------
(***************************************************************************)
(* Instances of WebhookWorker for TLC.                                     *)
(***************************************************************************)
EXTENDS WebhookWorker, TLC

CONSTANTS d1, d2, w1, w2, w3

\* A schedule that grows, as the code's does; and one unit for every retry.
GrowingIntervals == [n \in 1..(AttemptLimit - 1) |-> n]
FlatIntervals == [n \in 1..(AttemptLimit - 1) |-> 1]

\* Sound where no liveness is checked: nothing tells workers apart.
WorkerSymmetry == Permutations({w1, w2, w3})
=============================================================================
