------------------------- MODULE MCPaymentDelivery -------------------------
(***************************************************************************)
(* An instance of PaymentDelivery for TLC.                                 *)
(***************************************************************************)
EXTENDS PaymentDelivery, TLC

CONSTANTS r1, r2, b1, i1, k1, k2, t1, e1, w1

MCInvoiceOwner == [i \in Invoices |-> b1]
MCEndpointOwner == [e \in Endpoints |-> b1]
MCPayInputs == [business : {b1}, invoice : {i1}, key : Keys, token : {t1}]
MCVoidInputs == [business : {b1}, invoice : {i1}]
MCRetryIntervals == [n \in 1..(AttemptLimit - 1) |-> 1]

\* The requests are alike and so are the keys: r1 may as well come with k1; and a draft
\* is not payable, whoever asks.
NarrowInit == PipelineInit /\ input[r1].key = k1 /\ invoice[i1] = "OPEN"
NarrowSpec == NarrowInit /\ [][PipelineNext]_allVars /\ PipelineFairness
=============================================================================
