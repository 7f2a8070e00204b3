------------------------------ MODULE Payment ------------------------------
(***************************************************************************)
(* Paying an invoice: internal/payment (PayInvoice, claim, finalize), the  *)
(* PSP client it calls, VoidInvoice, which writes the same invoice row,    *)
(* and the part of PostgreSQL those handlers lean on (READ COMMITTED, row  *)
(* locks, unique indexes, the deadlock detector).                          *)
(*                                                                         *)
(* One action is one SQL statement, one step of the PSP call, or the       *)
(* answer.  A row a request inserts is named by that request:  idem[r] and *)
(* attempt[r] are the idempotency_keys and payment_attempts rows inserted  *)
(* by r ("NONE": no such row).  The table variables hold COMMITTED rows;   *)
(* what an open transaction has written, and the locks it holds, follow    *)
(* from how far the request is (LockHeld, AttemptMarked, KeyInserted), so  *)
(* ROLLBACK changes nothing but pc.                                        *)
(***************************************************************************)
EXTENDS Naturals

CONSTANTS
    PayRequests,     \* POST /invoices/:id/pay requests, retries included
    VoidRequests,    \* POST /invoices/:id/void requests
    Businesses,
    Invoices,
    Keys,            \* Idempotency-Key header values
    Tokens,          \* card tokens
    Endpoints,       \* webhook endpoints, registered or to be registered
    InvoiceOwner,    \* Invoices -> Businesses
    EndpointOwner,   \* Endpoints -> Businesses
    InitialEndpoints,\* the endpoints registered before the requests start
    PayInputs,       \* what clients may ask to pay, a subset of PayInput
    VoidInputs,      \* what clients may ask to void, a subset of VoidInput
    MayAbort         \* the pay requests whose process or connection may fail

PayInput == [business : Businesses, invoice : Invoices, key : Keys, token : Tokens]
VoidInput == [business : Businesses, invoice : Invoices]

ASSUME InputsAssumption == PayInputs \subseteq PayInput /\ VoidInputs \subseteq VoidInput
ASSUME OwnersAssumption ==
    /\ InvoiceOwner \in [Invoices -> Businesses]
    /\ EndpointOwner \in [Endpoints -> Businesses]
    /\ InitialEndpoints \subseteq Endpoints
ASSUME AbortAssumption == MayAbort \subseteq PayRequests

VARIABLES
    \* the memory of the handlers
    pc, input, outcome, queued, reply,     \* of a pay request
    vpc, target,                           \* of a void request
    \* committed rows
    invoice, idem, saved, attempt, outbox, endpoints,
    \* the payment service provider, per PSP request
    psp

handlers == <<pc, input, outcome, queued, reply, vpc, target>>
tables == <<invoice, idem, saved, attempt, outbox, endpoints>>
vars == <<handlers, tables, psp>>

InvoiceState == {"DRAFT", "OPEN", "PAID", "VOID", "UNCOLLECTIBLE"}
Unresolved == {"PROCESSING", "UNKNOWN"}
FinalCode == {"ok", "declined", "accepted"}    \* 200, 402, 202
ErrorCode == {"bad_request", "not_found", "idempotency_conflict",
              "payment_in_progress", "invoice_not_payable", "internal_error"}
ClaimPc == {"getKey", "lockInvoice", "insertKey", "insertAttempt"}
FinalizePc == {"mark", "payInvoice", "list", "queue", "complete"}

(***************************************************************************)
(* What a request reads of its own input.                                  *)
(***************************************************************************)
SameInvoice(r, s) == input[r].invoice = input[s].invoice
SameKey(r, s) ==
    input[r].business = input[s].business /\ input[r].key = input[s].key
Owns(r) == InvoiceOwner[input[r].invoice] = input[r].business

\* Mutation of Fingerprint: the hash leaves the card token out.
FingerprintOfInvoice(r) == input[r].invoice

\* SHA-256 of the invoice id and the token: equal only for equal requests.
Fingerprint(r) == <<input[r].invoice, input[r].token>>

(***************************************************************************)
(* PostgreSQL: what an open transaction holds and what a statement waits   *)
(* for.  The modes are the row locks of SELECT FOR UPDATE, of an UPDATE    *)
(* that leaves the key alone, and of a foreign-key check.                  *)
(***************************************************************************)
Conflicting(m, n) ==
    \/ m = "update" /\ n # "none"
    \/ n = "update" /\ m # "none"
    \/ m = "noKeyUpdate" /\ n = "noKeyUpdate"

\* Mutation of LockHeld: GetInvoiceForPayment without FOR UPDATE.
LockHeldPlainSelect(r) ==
    IF pc[r] \in {"list", "queue", "complete"} /\ outcome[r] = "succeeded"
    THEN "noKeyUpdate" ELSE "none"

\* The lock r's open transaction holds on the row of r's invoice.
LockHeld(r) ==
    IF pc[r] \in {"insertKey", "insertAttempt"} THEN "update"
    ELSE IF pc[r] \in {"list", "queue", "complete"} /\ outcome[r] = "succeeded"
    THEN "noKeyUpdate"
    ELSE IF pc[r] = "complete" /\ outcome[r] = "failed" /\ queued[r] # {}
    THEN "keyShare" ELSE "none"

\* r's open transaction has inserted its idempotency key.
KeyInserted(r) == pc[r] = "insertAttempt"
\* r's open transaction has updated its payment attempt.
AttemptMarked(r) == pc[r] \in FinalizePc \ {"mark"}

\* The lock the next statement of r asks for on the row of r's invoice.  An
\* invoice of another business matches no row, so nothing is locked.
LockWanted(r) ==
    IF pc[r] = "lockInvoice" /\ Owns(r) THEN "update"
    ELSE IF pc[r] = "payInvoice" THEN "noKeyUpdate"
    ELSE IF pc[r] = "queue" /\ outcome[r] = "failed" /\ queued[r] # {}
    THEN "keyShare" ELSE "none"

\* r's next statement waits for s's transaction to end: for a row lock, or, at
\* a unique index, for a row s has inserted or updated and not committed.
WaitsFor(r, s) ==
    /\ r # s
    /\ \/ SameInvoice(r, s) /\ Conflicting(LockHeld(s), LockWanted(r))
       \/ pc[r] = "insertKey" /\ KeyInserted(s) /\ SameKey(r, s)
       \/ pc[r] = "insertAttempt" /\ AttemptMarked(s) /\ SameInvoice(r, s)

Granted(r) == \A s \in PayRequests : ~WaitsFor(r, s)

\* Mutation of KeyRows: a completed key may be claimed again.
KeyRowsInProgress(r) == {s \in PayRequests : idem[s] = "PROCESSING" /\ SameKey(r, s)}

\* A committed idempotency_keys row with r's business and key.
KeyRows(r) == {s \in PayRequests : idem[s] # "NONE" /\ SameKey(r, s)}

\* Mutation of HasUnresolved: the partial index leaves UNKNOWN out.
HasProcessing(r) ==
    \E s \in PayRequests : attempt[s] = "PROCESSING" /\ SameInvoice(r, s)

\* A committed row of the partial unique index on unresolved attempts.
HasUnresolved(r) ==
    \E s \in PayRequests : attempt[s] \in Unresolved /\ SameInvoice(r, s)

(***************************************************************************)
(* Moving a request on, and answering it.                                  *)
(***************************************************************************)
Goto(r, label) == pc' = [pc EXCEPT ![r] = label]

\* The response names the attempt it describes; an error names its own request.
Answer(r, code, a) ==
    /\ Goto(r, "done")
    /\ reply' = [reply EXCEPT ![r] = [code |-> code, attempt |-> a]]

\* Rollback (the deferred tx.Rollback) and an error response.
Refuse(r, code) ==
    /\ Answer(r, code, r)
    /\ UNCHANGED <<input, outcome, queued, vpc, target, tables, psp>>

\* The open transaction goes on; nothing is visible to others yet.
Continue(r, label) ==
    /\ Goto(r, label)
    /\ UNCHANGED <<input, outcome, queued, reply, vpc, target, tables, psp>>

(***************************************************************************)
(* PayInvoice up to claim: authentication has put the business in the      *)
(* context; the header, the public id and the body are validated.          *)
(***************************************************************************)
Receive(r) ==
    /\ pc[r] = "idle"
    /\ \/ Continue(r, "getKey")
       \/ \E code \in {"bad_request", "not_found"} : Refuse(r, code)

(***************************************************************************)
(* claim: one transaction, statement by statement.                         *)
(***************************************************************************)
GetIdempotencyKey(r) ==
    /\ pc[r] = "getKey"
    /\ \/ KeyRows(r) = {} /\ Continue(r, "lockInvoice")
       \/ \E s \in KeyRows(r) :
            \/ Fingerprint(s) # Fingerprint(r) /\ Refuse(r, "idempotency_conflict")
            \/ /\ Fingerprint(s) = Fingerprint(r)
               /\ idem[s] = "PROCESSING"
               /\ Refuse(r, "payment_in_progress")
            \/ /\ Fingerprint(s) = Fingerprint(r)
               /\ idem[s] = "COMPLETED"
               /\ Answer(r, saved[s], s)
               /\ UNCHANGED <<input, outcome, queued, vpc, target, tables, psp>>

GetInvoiceForPayment(r) ==
    /\ pc[r] = "lockInvoice"
    /\ Granted(r)
    /\ \/ ~Owns(r) /\ Refuse(r, "not_found")
       \/ /\ Owns(r)
          /\ invoice[input[r].invoice] # "OPEN"
          /\ Refuse(r, "invoice_not_payable")
       \/ /\ Owns(r)
          /\ invoice[input[r].invoice] = "OPEN"
          /\ Continue(r, "insertKey")

\* The unique violation is not translated: PayInvoice answers 500.
CreateIdempotencyKey(r) ==
    /\ pc[r] = "insertKey"
    /\ Granted(r)
    /\ \/ KeyRows(r) # {} /\ Refuse(r, "internal_error")
       \/ KeyRows(r) = {} /\ Continue(r, "insertAttempt")

\* The last statement of claim and its COMMIT.
CreatePaymentAttempt(r) ==
    /\ pc[r] = "insertAttempt"
    /\ Granted(r)
    /\ \/ HasUnresolved(r) /\ Refuse(r, "payment_in_progress")
       \/ /\ ~HasUnresolved(r)
          /\ Goto(r, "charge")
          /\ idem' = [idem EXCEPT ![r] = "PROCESSING"]
          /\ attempt' = [attempt EXCEPT ![r] = "PROCESSING"]
          /\ UNCHANGED <<input, outcome, queued, reply, vpc, target,
                         invoice, saved, outbox, endpoints, psp>>

(***************************************************************************)
(* psp.Charge: the HTTP call, outside any transaction.                     *)
(***************************************************************************)
SendCharge(r) ==
    /\ pc[r] = "charge"
    /\ Goto(r, "await")
    /\ psp' = [psp EXCEPT ![r] = "sent"]
    /\ UNCHANGED <<input, outcome, queued, reply, vpc, target, tables>>

\* The provider acts on a request at any time after it was sent, whether or not
\* anyone still waits for its answer; it may also never see it.
PspDecide(r) ==
    /\ psp[r] = "sent"
    /\ \E verdict \in {"charged", "declined"} : psp' = [psp EXCEPT ![r] = verdict]
    /\ UNCHANGED <<handlers, tables>>

\* What Charge returns to finalize.
ChargeReturns(r, result) ==
    /\ Goto(r, "mark")
    /\ outcome' = [outcome EXCEPT ![r] = result]
    /\ UNCHANGED <<input, queued, reply, vpc, target, tables, psp>>

ReceiveResult(r) ==
    /\ pc[r] = "await"
    /\ \/ psp[r] = "charged" /\ ChargeReturns(r, "succeeded")
       \/ psp[r] = "declined" /\ ChargeReturns(r, "failed")

\* Connection refused, timeout, a status other than 200, an undecodable body.
ChargeError(r) ==
    /\ pc[r] \in {"charge", "await"}
    /\ ChargeReturns(r, "error")

(***************************************************************************)
(* finalize: one transaction, statement by statement.                      *)
(***************************************************************************)
\* Mutation of AttemptStatus: a status outside payment_status_enum.
AttemptStatusDeclined(result) ==
    IF result = "succeeded" THEN "SUCCEEDED" ELSE "DECLINED"

\* Mutation of AttemptStatus: an ambiguous error taken for a decline.
AttemptStatusErrorFails(result) ==
    IF result = "succeeded" THEN "SUCCEEDED" ELSE "FAILED"

AttemptStatus(result) ==
    IF result = "succeeded" THEN "SUCCEEDED"
    ELSE IF result = "failed" THEN "FAILED" ELSE "UNKNOWN"

ResponseCode(result) ==
    IF result = "succeeded" THEN "ok"
    ELSE IF result = "failed" THEN "declined" ELSE "accepted"

EventType(result) == IF result = "succeeded" THEN "PAID" ELSE "PAYMENT_FAILED"

\* MarkPaymentAttemptSucceeded / Failed / Unknown: WHERE status = 'PROCESSING'.
MarkAttempt(r) ==
    /\ pc[r] = "mark"
    /\ \/ attempt[r] # "PROCESSING" /\ Refuse(r, "internal_error")
       \/ /\ attempt[r] = "PROCESSING"
          /\ \/ outcome[r] = "succeeded" /\ Continue(r, "payInvoice")
             \/ outcome[r] = "failed" /\ Continue(r, "list")
             \/ outcome[r] = "error" /\ Continue(r, "complete")

\* Mutation of MarkInvoicePaid: the UPDATE without its condition on the state.
MarkInvoicePaidAnyState(r) ==
    /\ pc[r] = "payInvoice"
    /\ Granted(r)
    /\ Continue(r, "list")

\* MarkInvoicePaid: WHERE state = 'OPEN', evaluated on the row as it is when
\* the lock is granted; no row rolls the whole finalization back.
MarkInvoicePaid(r) ==
    /\ pc[r] = "payInvoice"
    /\ Granted(r)
    /\ \/ ~(Owns(r) /\ invoice[input[r].invoice] = "OPEN") /\ Refuse(r, "internal_error")
       \/ /\ Owns(r)
          /\ invoice[input[r].invoice] = "OPEN"
          /\ Continue(r, "list")

\* Mutation of ActiveEndpoints: the query forgets the business.
AllActiveEndpoints(r) == endpoints

ActiveEndpoints(r) == {e \in endpoints : EndpointOwner[e] = input[r].business}

\* QueueDeliveries, first half: ListActiveWebhookEndpointsByBusinessID.
ListEndpoints(r) ==
    /\ pc[r] = "list"
    /\ Goto(r, "queue")
    /\ queued' = [queued EXCEPT ![r] = ActiveEndpoints(r)]
    /\ UNCHANGED <<input, outcome, reply, vpc, target, tables, psp>>

\* QueueDeliveries, second half: the inserts, each with its foreign-key check of
\* the invoice row.  Its error is ignored, but it has aborted the transaction,
\* so the next statement fails too: that is Abort.
InsertDeliveries(r) ==
    /\ pc[r] = "queue"
    /\ Granted(r)
    /\ Continue(r, "complete")

\* Mutation of InvoiceAfter: finalize forgets MarkInvoicePaid.
InvoiceUnchanged(r) == invoice[input[r].invoice]

InvoiceAfter(r) == IF outcome[r] = "succeeded" THEN "PAID" ELSE invoice[input[r].invoice]
\* Mutation of DeliveriesOf: only payments are announced, declines are not.
DeliveriesOfPayment(r) ==
    IF outcome[r] = "succeeded"
    THEN [event : {"PAID"}, attempt : {r}, endpoint : queued[r]]
    ELSE {}

DeliveriesOf(r) ==
    [event : {EventType(outcome[r])}, attempt : {r}, endpoint : queued[r]]

\* CompleteIdempotencyKey and the COMMIT that publishes all of finalize.
CompleteIdempotencyKey(r) ==
    /\ pc[r] = "complete"
    /\ \/ idem[r] # "PROCESSING" /\ Refuse(r, "internal_error")
       \/ /\ idem[r] = "PROCESSING"
          /\ Goto(r, "answer")
          /\ attempt' = [attempt EXCEPT ![r] = AttemptStatus(outcome[r])]
          /\ invoice' = [invoice EXCEPT ![input[r].invoice] = InvoiceAfter(r)]
          /\ outbox' = outbox \cup DeliveriesOf(r)
          /\ idem' = [idem EXCEPT ![r] = "COMPLETED"]
          /\ saved' = [saved EXCEPT ![r] = ResponseCode(outcome[r])]
          /\ UNCHANGED <<input, outcome, queued, reply, vpc, target, endpoints, psp>>

AnswerClient(r) ==
    /\ pc[r] = "answer"
    /\ Answer(r, ResponseCode(outcome[r]), r)
    /\ UNCHANGED <<input, outcome, queued, vpc, target, tables, psp>>

(***************************************************************************)
(* Failures.                                                               *)
(***************************************************************************)
\* The process dies, the client disconnects (which cancels the request's
\* context), or a statement or COMMIT fails: the open transaction, if any, is
\* rolled back.  At "charge" and "answer" it is a COMMIT that took effect and
\* whose acknowledgement was lost.
Abort(r) ==
    /\ r \in MayAbort
    /\ pc[r] \notin {"idle", "done"}
    /\ Refuse(r, "internal_error")

\* PostgreSQL ends a cycle of waiting transactions by aborting one of them.
\* Mutation of DeadlockDetected: no deadlock detector.
NoDeadlockDetector(r) == FALSE

DeadlockDetected(r) == \E s \in PayRequests : WaitsFor(r, s) /\ WaitsFor(s, r)
DeadlockVictim(r) == DeadlockDetected(r) /\ Refuse(r, "internal_error")

(***************************************************************************)
(* VoidInvoice: a plain read, then an UPDATE with no condition on the      *)
(* state, outside a transaction.                                           *)
(***************************************************************************)
VoidRead(v) ==
    LET i == target[v].invoice
        found == InvoiceOwner[i] = target[v].business
        voidable == found /\ invoice[i] \in {"DRAFT", "OPEN"} IN
    /\ vpc[v] = "idle"
    /\ vpc' = [vpc EXCEPT ![v] = IF voidable THEN "update" ELSE "done"]
    /\ UNCHANGED <<pc, input, outcome, queued, reply, target, tables, psp>>

\* UpdateInvoiceState waits for the row like any UPDATE, then overwrites it.
VoidUpdate(v) ==
    LET i == target[v].invoice IN
    /\ vpc[v] = "update"
    /\ \A s \in PayRequests :
         input[s].invoice = i => ~Conflicting(LockHeld(s), "noKeyUpdate")
    /\ invoice' = [invoice EXCEPT ![i] = "VOID"]
    /\ vpc' = [vpc EXCEPT ![v] = "done"]
    /\ UNCHANGED <<pc, input, outcome, queued, reply, target,
                   idem, saved, attempt, outbox, endpoints, psp>>

\* CreateEndpoint of internal/webhook commits a new active endpoint.
RegisterEndpoint ==
    /\ \E e \in Endpoints \ endpoints : endpoints' = endpoints \cup {e}
    /\ UNCHANGED <<handlers, invoice, idem, saved, attempt, outbox, psp>>

(***************************************************************************)
(* The specification.                                                      *)
(***************************************************************************)
Init ==
    /\ pc = [r \in PayRequests |-> "idle"]
    /\ input \in [PayRequests -> PayInputs]
    /\ outcome = [r \in PayRequests |-> "none"]
    /\ queued = [r \in PayRequests |-> {}]
    /\ reply = [r \in PayRequests |-> [code |-> "none", attempt |-> r]]
    /\ vpc = [v \in VoidRequests |-> "idle"]
    /\ target \in [VoidRequests -> VoidInputs]
    /\ invoice \in [Invoices -> {"DRAFT", "OPEN"}]
    /\ idem = [r \in PayRequests |-> "NONE"]
    /\ saved = [r \in PayRequests |-> "none"]
    /\ attempt = [r \in PayRequests |-> "NONE"]
    /\ outbox = {}
    /\ endpoints = InitialEndpoints
    /\ psp = [r \in PayRequests |-> "none"]

Claim(r) ==
    \/ GetIdempotencyKey(r)    \/ GetInvoiceForPayment(r)
    \/ CreateIdempotencyKey(r) \/ CreatePaymentAttempt(r)
Charge(r) == SendCharge(r) \/ ReceiveResult(r) \/ ChargeError(r)
Finalize(r) ==
    \/ MarkAttempt(r)      \/ MarkInvoicePaid(r)        \/ ListEndpoints(r)
    \/ InsertDeliveries(r) \/ CompleteIdempotencyKey(r) \/ AnswerClient(r)

\* What the process and PostgreSQL do for a request once it has arrived.
Serve(r) == Claim(r) \/ Charge(r) \/ Finalize(r) \/ DeadlockVictim(r)
Void(v) == VoidRead(v) \/ VoidUpdate(v)

\* Every request is answered and the provider has nothing left to decide.
Quiescent ==
    /\ \A r \in PayRequests : pc[r] = "done" /\ psp[r] # "sent"
    /\ \A v \in VoidRequests : vpc[v] = "done"
    /\ endpoints = Endpoints
    /\ UNCHANGED vars

Next ==
    \/ \E r \in PayRequests : Receive(r) \/ Serve(r) \/ Abort(r) \/ PspDecide(r)
    \/ \E v \in VoidRequests : Void(v)
    \/ RegisterEndpoint
    \/ Quiescent

Spec == Init /\ [][Next]_vars

\* The Go scheduler runs every handler, PostgreSQL runs every statement that is
\* not blocked and ends every deadlock, and the PSP client's timeout ends every
\* call: nothing is assumed of the clients or of the provider.
FairSpec ==
    /\ Spec
    /\ \A r \in PayRequests : WF_vars(Serve(r))
    /\ \A v \in VoidRequests : WF_vars(Void(v))

(***************************************************************************)
(* Properties.                                                             *)
(***************************************************************************)
\* Every variable stays in its type.
TypeOK ==
    /\ pc \in [PayRequests ->
               {"idle", "charge", "await", "answer", "done"} \cup ClaimPc \cup FinalizePc]
    /\ input \in [PayRequests -> PayInputs]
    /\ outcome \in [PayRequests -> {"none", "succeeded", "failed", "error"}]
    /\ queued \in [PayRequests -> SUBSET Endpoints]
    /\ reply \in [PayRequests -> [code : {"none"} \cup FinalCode \cup ErrorCode,
                                 attempt : PayRequests]]
    /\ vpc \in [VoidRequests -> {"idle", "update", "done"}]
    /\ target \in [VoidRequests -> VoidInputs]
    /\ invoice \in [Invoices -> InvoiceState]
    /\ idem \in [PayRequests -> {"NONE", "PROCESSING", "COMPLETED"}]
    /\ saved \in [PayRequests -> {"none"} \cup FinalCode]
    /\ attempt \in [PayRequests -> {"NONE", "PROCESSING", "SUCCEEDED", "FAILED", "UNKNOWN"}]
    /\ outbox \subseteq [event : {"PAID", "PAYMENT_FAILED"},
                        attempt : PayRequests, endpoint : Endpoints]
    /\ endpoints \subseteq Endpoints
    /\ psp \in [PayRequests -> {"none", "sent", "charged", "declined"}]

\* However requests, retries, voids, timeouts, crashes and deadlocks interleave,
\* the provider charges a customer at most once for an invoice: also when the
\* charge happens after its request timed out.
NoDoubleCharge ==
    \A r, s \in PayRequests :
        psp[r] = "charged" /\ psp[s] = "charged" /\ SameInvoice(r, s) => r = s

\* A business's idempotency key reaches the provider once: a retry under the same
\* key never makes a second call, not even after a decline or a timeout.
KeyChargesOnce ==
    \A r, s \in PayRequests :
        psp[r] # "none" /\ psp[s] # "none" /\ SameKey(r, s) => r = s

\* All the outcomes (200, 202, 402) ever answered under one key are the same
\* answer, and were given to the same request.
ReplayAgrees ==
    \A r, s \in PayRequests :
        /\ reply[r].code \in FinalCode
        /\ reply[s].code \in FinalCode
        /\ SameKey(r, s)
        => reply[r] = reply[s] /\ input[r] = input[s]

\* An answered outcome is the stored state of the attempt it names, and what the
\* provider did: 200 only for a charge, 402 only for a decline; a 202 promises
\* nothing but that the attempt is unresolved.
AnswerIsTruthful ==
    \A r \in PayRequests :
        LET a == reply[r].attempt IN
        /\ reply[r].code = "ok" => attempt[a] = "SUCCEEDED" /\ psp[a] = "charged"
        /\ reply[r].code = "declined" => attempt[a] = "FAILED" /\ psp[a] = "declined"
        /\ reply[r].code = "accepted" => attempt[a] = "UNKNOWN"

\* A paid invoice has exactly one succeeded attempt, and a succeeded attempt has
\* its invoice paid (a concurrent void may have overwritten it since).
PaidExactlyOnce ==
    /\ \A i \in Invoices : invoice[i] = "PAID" =>
         \E r \in PayRequests : attempt[r] = "SUCCEEDED" /\ input[r].invoice = i
    /\ \A r \in PayRequests : attempt[r] = "SUCCEEDED" =>
         /\ invoice[input[r].invoice] \in {"PAID", "VOID"}
         /\ \A s \in PayRequests :
              attempt[s] = "SUCCEEDED" /\ SameInvoice(r, s) => r = s

\* The outbox is written in the transaction that resolves the attempt: a delivery
\* names an attempt resolved that way, and a resolved attempt has a delivery for
\* each endpoint its business had when the requests began.
OutboxMatchesAttempts ==
    /\ \A d \in outbox :
         attempt[d.attempt] = IF d.event = "PAID" THEN "SUCCEEDED" ELSE "FAILED"
    /\ \A r \in PayRequests, e \in InitialEndpoints :
         attempt[r] \in {"SUCCEEDED", "FAILED"} /\ EndpointOwner[e] = input[r].business =>
             \E d \in outbox : d.attempt = r /\ d.endpoint = e

\* No request charges for another business's invoice, and no webhook about an
\* invoice goes to an endpoint of another business.
TenantIsolation ==
    /\ \A r \in PayRequests : psp[r] # "none" => Owns(r)
    /\ \A d \in outbox : EndpointOwner[d.endpoint] = InvoiceOwner[input[d.attempt].invoice]

\* A void invoice stays void: a payment in flight when it was voided cannot make
\* it PAID (the half of the terminal-state rule that conditional SQL enforces).
VoidIsTerminal ==
    [][\A i \in Invoices : invoice[i] = "VOID" => invoice'[i] = "VOID"]_vars

\* Every request that arrived is answered, whatever it waits for: a row lock, a
\* unique index, a deadlock, or a provider that never replies.
AllAnswered ==
    /\ \A r \in PayRequests : pc[r] # "idle" ~> pc[r] = "done"
    /\ \A v \in VoidRequests : vpc[v] = "update" ~> vpc[v] = "done"

\* Requests that all wait for each other contain a deadlock of two, which PostgreSQL
\* ends: no lock order of claim and finalize, over any invoices and keys, leaves a
\* ring of requests that waits for ever.
StuckIsDetected ==
    \A C \in SUBSET PayRequests :
        C # {} /\ (\A r \in C : \E s \in C : WaitsFor(r, s))
        => \E r \in C : DeadlockDetected(r)

(***************************************************************************)
(* The ledger that paying implements: a provider that has only received a  *)
(* request has done nothing yet, and an error promises nothing.            *)
(***************************************************************************)
MoneyMoved == [r \in PayRequests |-> IF psp[r] = "sent" THEN "none" ELSE psp[r]]
OutcomeTold ==
    [r \in PayRequests |->
        IF reply[r].code \in FinalCode THEN reply[r] ELSE [code |-> "none", attempt |-> r]]

Ledger == INSTANCE PaymentLedger WITH
    Payments <- PayRequests, order <- input, money <- MoneyMoved,
    answer <- saved, response <- OutcomeTold

\* However statements, locks, crashes, retries and lost answers interleave, every
\* step that others can see is one step of the ledger: a claim is one Begin with
\* its conditions true when it commits, a finalization one Succeed, Decline or
\* GiveUp, and a replay tells the stored outcome of the very same payment.
ImplementsLedger == Ledger!Spec

(***************************************************************************)
(* What the documents say and the code does not do.                        *)
(***************************************************************************)
\* DESIGN.md: "PAID, VOID, and UNCOLLECTIBLE are terminal states".
PaidIsTerminal ==
    [][\A i \in Invoices : invoice[i] = "PAID" => invoice'[i] = "PAID"]_vars

\* DESIGN.md: "A confirmed successful payment transitions an OPEN invoice to PAID".
ConfirmedSuccessPays ==
    \A r \in PayRequests :
        pc[r] = "done" /\ outcome[r] = "succeeded" => invoice[input[r].invoice] # "OPEN"

\* DESIGN.md: "The competing request returns the documented conflict/in-progress
\* response", here for a request that lost its key to another one.
CompetitorGetsConflict ==
    \A r, s \in PayRequests :
        /\ r # s /\ SameKey(r, s)
        /\ attempt[s] # "NONE" /\ attempt[r] = "NONE"
        => reply[r].code # "internal_error"
=============================================================================
