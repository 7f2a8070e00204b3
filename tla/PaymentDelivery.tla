-------------------------- MODULE PaymentDelivery --------------------------
(***************************************************************************)
(* Payments and the workers that deliver their webhooks, on one database:  *)
(* the handlers of Payment write webhook_deliveries in the transaction     *)
(* that resolves an attempt, the workers of WebhookWorker read and update  *)
(* the same rows.  A row is in the outbox of Payment from that COMMIT on,  *)
(* and for the workers it is PENDING from then on.                         *)
(***************************************************************************)
EXTENDS Payment

CONSTANTS
    UnrequestableEndpoints,   \* whose URL http.NewRequest refuses
    Workers, BatchSize, AttemptLimit, RetryIntervals, Leases, MaxFaults

VARIABLES status, attempts, delay, todo, doing, posts, unmade, accepted, faults

\* What payments may announce, and to whom.
Deliveries == [event : {"PAID", "PAYMENT_FAILED"}, attempt : PayRequests, endpoint : Endpoints]

\* CreateEndpoint checks the URL with url.ParseRequestURI only.
Unrequestable == {d \in Deliveries : d.endpoint \in UnrequestableEndpoints}

W == INSTANCE WebhookWorker

delivering == <<status, attempts, delay, todo, doing, posts, unmade, accepted, faults>>
allVars == <<vars, delivering>>

\* Mutation of NewDeliveries: the INSERTs are not part of the transaction.
DeliveriesInserted ==
    UNION {DeliveriesOf(r) : r \in {s \in PayRequests : pc[s] = "queue" /\ pc'[s] = "complete"}}

NewDeliveries == outbox' \ outbox

\* The rows a COMMIT adds are due at once.
PublishDeliveries ==
    /\ status' = [d \in Deliveries |-> IF d \in NewDeliveries THEN "PENDING" ELSE status[d]]
    /\ UNCHANGED <<attempts, delay, todo, doing, posts, unmade, accepted, faults>>

ServePayment(r) == Serve(r) /\ PublishDeliveries
ServeVoid(v) == Void(v) /\ PublishDeliveries
Environment ==
    /\ \/ \E r \in PayRequests : Receive(r) \/ Abort(r) \/ PspDecide(r)
       \/ RegisterEndpoint
    /\ PublishDeliveries

Deliver(w) == W!Work(w) /\ UNCHANGED vars
DeliveryFault(w) == (W!LoseRecord(w) \/ W!Crash(w)) /\ UNCHANGED vars
TickDatabase == W!Tick /\ UNCHANGED vars

\* Nothing is left to do for the handlers and none of the rows there are is open.
Settled ==
    /\ Quiescent
    /\ \A d \in outbox : status[d] \in W!Terminal
    /\ UNCHANGED delivering

PipelineInit == Init /\ W!Init

PipelineNext ==
    \/ \E r \in PayRequests : ServePayment(r)
    \/ \E v \in VoidRequests : ServeVoid(v)
    \/ Environment
    \/ \E w \in Workers : Deliver(w) \/ DeliveryFault(w)
    \/ TickDatabase
    \/ Settled

\* The fairness of both: nothing of the clients, the provider and the endpoints.
PipelineFairness ==
    /\ \A r \in PayRequests : WF_allVars(ServePayment(r))
    /\ \A v \in VoidRequests : WF_allVars(ServeVoid(v))
    /\ \A w \in Workers : WF_allVars(Deliver(w))
    /\ WF_allVars(TickDatabase)

PipelineSpec == PipelineInit /\ [][PipelineNext]_allVars /\ PipelineFairness

(***************************************************************************)
(* Properties.                                                             *)
(***************************************************************************)
\* What an endpoint has accepted is true: the attempt was resolved that way, its PAID
\* was charged and has paid the invoice, and no other PAID of that invoice is
\* ever accepted, however payments, retries, voids and redeliveries interleave.
AcceptedIsTrue ==
    \A d \in Deliveries : accepted[d] =>
        /\ psp[d.attempt] = (IF d.event = "PAID" THEN "charged" ELSE "declined")
        /\ attempt[d.attempt] = (IF d.event = "PAID" THEN "SUCCEEDED" ELSE "FAILED")
        /\ d.event = "PAID" =>
             /\ invoice[input[d.attempt].invoice] \in {"PAID", "VOID"}
             /\ \A e \in Deliveries :
                  accepted[e] /\ e.event = "PAID" /\ SameInvoice(d.attempt, e.attempt)
                  => e.attempt = d.attempt

Resolved(r) == attempt[r] \in {"SUCCEEDED", "FAILED"}
Announced(r, e) ==
    \E d \in Deliveries : d.attempt = r /\ d.endpoint = e /\ status[d] \in W!Terminal

\* Once an attempt is resolved, every endpoint its business had from the start is told,
\* or given up after the whole schedule, for good: also when the handler died before
\* it answered, and whatever payments, voids and workers wait for.
OutcomesAreAnnounced ==
    \A r \in PayRequests, e \in InitialEndpoints :
        <>[](Resolved(r) /\ EndpointOwner[e] = input[r].business => Announced(r, e))
=============================================================================
