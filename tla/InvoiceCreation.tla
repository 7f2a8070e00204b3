-------------------------- MODULE InvoiceCreation --------------------------
(***************************************************************************)
(* POST /invoices: CreateInvoice of internal/invoice, from the checks of   *)
(* the request to the transaction that inserts the invoice, its items and  *)
(* the INVOICE.CREATED deliveries, statement by statement.                 *)
(*                                                                         *)
(* Amounts are Go int64: Wrap keeps them in -Half..Half-1, and every check *)
(* is made on the wrapped value, as the code makes it.  The row a request  *)
(* inserts is named by the request; invoice and outbox hold committed rows.*)
(***************************************************************************)
EXTENDS Integers, Sequences

CONSTANTS
    CreateRequests,
    Businesses, Customers, Endpoints,
    CustomerOwner,    \* Customers -> Businesses
    EndpointOwner,    \* Endpoints -> Businesses
    InitialEndpoints, \* the endpoints registered before the requests start
    Half,             \* 2^63
    CreateInputs      \* what clients may send, a subset of CreateInput

Int64 == -Half..(Half - 1)

\* ...of a well-formed body.  A quantity is an int32 and fits any int64.
Item == [quantity : Int64, unit : Int64]
CreateInput == [business : Businesses, customer : Customers, items : Seq(Item),
                state : {"none", "DRAFT", "OPEN", "other"}]

ASSUME AmountAssumption == Half \in Nat \ {0}
ASSUME CreateAssumption ==
    /\ CreateInputs \subseteq CreateInput
    /\ CustomerOwner \in [Customers -> Businesses]
    /\ EndpointOwner \in [Endpoints -> Businesses]
    /\ InitialEndpoints \subseteq Endpoints

VARIABLES
    pc, input, reply,          \* of a request
    line, total,               \* items checked so far, and the running total
    stored, queued,            \* in the open transaction: items inserted, endpoints listed
    invoice, outbox, endpoints \* committed rows

vars == <<pc, input, reply, line, total, stored, queued, invoice, outbox, endpoints>>

InvoiceRow == [business : Businesses, customer : Customers, state : {"DRAFT", "OPEN"},
               total : 0..(Half - 1), items : Seq(Item)]
None == [state |-> "NONE"]

(***************************************************************************)
(* int64.                                                                  *)
(***************************************************************************)
Wrap(n) == ((n + Half) % (2 * Half)) - Half

\* Go's division rounds towards zero.
Quotient(a, b) == IF a >= 0 THEN a \div b ELSE -((-a) \div b)

LineTotal(item) == Wrap(item.quantity * item.unit)

\* Mutation of LineOverflows: a product is taken to overflow when it is negative.
LineNegative(item) == LineTotal(item) < 0

LineOverflows(item) ==
    item.unit > 0 /\ Quotient(LineTotal(item), item.unit) # item.quantity

\* Mutation of SumOverflows: a line that adds nothing is refused.
SumNotGreater(sum, amount) == Wrap(sum + amount) <= sum

SumOverflows(sum, amount) == Wrap(sum + amount) < sum

(***************************************************************************)
(* Answering.                                                              *)
(***************************************************************************)
Goto(r, label) == pc' = [pc EXCEPT ![r] = label]

\* The deferred Rollback, if a transaction is open, and the answer.
Answer(r, code) ==
    /\ Goto(r, "done")
    /\ reply' = [reply EXCEPT ![r] = code]
    /\ UNCHANGED <<input, line, total, stored, queued, invoice, outbox, endpoints>>

Continue(r, label) ==
    /\ Goto(r, label)
    /\ UNCHANGED <<input, reply, line, total, stored, queued, invoice, outbox, endpoints>>

(***************************************************************************)
(* The checks.                                                             *)
(***************************************************************************)
\* The body, the currency, the due date and the descriptions are well formed, or not.
Receive(r) ==
    /\ pc[r] = "idle"
    /\ Continue(r, "items") \/ Answer(r, "bad_request")

\* One turn of the loop over the items.
CheckItem(r) ==
    /\ pc[r] = "items"
    /\ line[r] < Len(input[r].items)
    /\ LET item == input[r].items[line[r] + 1]
           valid == item.quantity > 0 /\ item.unit >= 0 IN
       \/ ~valid /\ Answer(r, "bad_request")
       \/ /\ valid
          /\ LineOverflows(item) \/ SumOverflows(total[r], LineTotal(item))
          /\ Answer(r, "overflow")
       \/ /\ valid
          /\ ~LineOverflows(item) /\ ~SumOverflows(total[r], LineTotal(item))
          /\ line' = [line EXCEPT ![r] = @ + 1]
          /\ total' = [total EXCEPT ![r] = Wrap(@ + LineTotal(item))]
          /\ UNCHANGED <<pc, input, reply, stored, queued, invoice, outbox, endpoints>>

\* Mutation of CustomerFound: the query forgets the business.
CustomerExists(r) == input[r].customer \in Customers

CustomerFound(r) == CustomerOwner[input[r].customer] = input[r].business

\* The end of the loop, an empty list of items included; then GetCustomerByID.
GetCustomer(r) ==
    /\ pc[r] = "items"
    /\ line[r] = Len(input[r].items)
    /\ \/ (line[r] = 0 \/ ~CustomerFound(r)) /\ Answer(r, "bad_request")
       \/ line[r] # 0 /\ CustomerFound(r) /\ Continue(r, "state")

CheckState(r) ==
    /\ pc[r] = "state"
    /\ \/ input[r].state = "other" /\ Answer(r, "bad_request")
       \/ input[r].state # "other" /\ Continue(r, "insertInvoice")

(***************************************************************************)
(* The transaction.                                                        *)
(***************************************************************************)
CreateInvoice(r) == pc[r] = "insertInvoice" /\ Continue(r, "insertItems")

ItemsStored(r) == stored[r] = Len(input[r].items)

CreateInvoiceItem(r) ==
    /\ pc[r] = "insertItems"
    /\ ~ItemsStored(r)
    /\ stored' = [stored EXCEPT ![r] = @ + 1]
    /\ UNCHANGED <<pc, input, reply, line, total, queued, invoice, outbox, endpoints>>

ActiveEndpoints(r) == {e \in endpoints : EndpointOwner[e] = input[r].business}

\* QueueDeliveries; the deliveries it inserts become visible with Commit.  When one
\* fails the error is ignored, but the transaction is aborted: that is Fail.
QueueDeliveries(r) ==
    /\ pc[r] = "insertItems"
    /\ ItemsStored(r)
    /\ Goto(r, "commit")
    /\ queued' = [queued EXCEPT ![r] = ActiveEndpoints(r)]
    /\ UNCHANGED <<input, reply, line, total, stored, invoice, outbox, endpoints>>

\* Mutation of InitialState: the state is stored as the client sent it.
StateAsSent(r) == input[r].state

InitialState(r) == IF input[r].state = "none" THEN "OPEN" ELSE input[r].state

Invoice(r) ==
    [business |-> input[r].business, customer |-> input[r].customer,
     state |-> InitialState(r), total |-> total[r],
     items |-> SubSeq(input[r].items, 1, stored[r])]

\* Mutation of DeliveriesOf: a draft is not announced.
DeliveriesOfOpen(r) ==
    IF InitialState(r) = "OPEN"
    THEN [invoice : {r}, total : {total[r]}, endpoint : queued[r]] ELSE {}

DeliveriesOf(r) == [invoice : {r}, total : {total[r]}, endpoint : queued[r]]

Commit(r) ==
    /\ pc[r] = "commit"
    /\ Goto(r, "answer")
    /\ invoice' = [invoice EXCEPT ![r] = Invoice(r)]
    /\ outbox' = outbox \cup DeliveriesOf(r)
    /\ UNCHANGED <<input, reply, line, total, stored, queued, endpoints>>

AnswerClient(r) == pc[r] = "answer" /\ Answer(r, "created")

\* Mutation of Fail: the error of the transaction is not looked at.
FailUnnoticed(r) ==
    /\ pc[r] \in {"items", "insertInvoice", "insertItems", "commit", "answer"}
    /\ Answer(r, IF pc[r] = "items" THEN "internal_error" ELSE "created")

\* A statement or the COMMIT fails, the client goes away, the process dies.  At
\* "answer" the COMMIT took effect and its acknowledgement was lost.
Fail(r) ==
    /\ pc[r] \in {"items", "insertInvoice", "insertItems", "commit", "answer"}
    /\ Answer(r, "internal_error")

\* CreateEndpoint of internal/webhook.
RegisterEndpoint ==
    /\ \E e \in Endpoints \ endpoints : endpoints' = endpoints \cup {e}
    /\ UNCHANGED <<pc, input, reply, line, total, stored, queued, invoice, outbox>>

(***************************************************************************)
(* The specification.                                                      *)
(***************************************************************************)
Init ==
    /\ pc = [r \in CreateRequests |-> "idle"]
    /\ input \in [CreateRequests -> CreateInputs]
    /\ reply = [r \in CreateRequests |-> "none"]
    /\ line = [r \in CreateRequests |-> 0]
    /\ total = [r \in CreateRequests |-> 0]
    /\ stored = [r \in CreateRequests |-> 0]
    /\ queued = [r \in CreateRequests |-> {}]
    /\ invoice = [r \in CreateRequests |-> None]
    /\ outbox = {}
    /\ endpoints = InitialEndpoints

Check(r) == Receive(r) \/ CheckItem(r) \/ GetCustomer(r) \/ CheckState(r)
Store(r) ==
    \/ CreateInvoice(r) \/ CreateInvoiceItem(r) \/ QueueDeliveries(r)
    \/ Commit(r) \/ AnswerClient(r)

Quiescent ==
    /\ \A r \in CreateRequests : pc[r] = "done"
    /\ endpoints = Endpoints
    /\ UNCHANGED vars

Next ==
    \/ \E r \in CreateRequests : Check(r) \/ Store(r) \/ Fail(r)
    \/ RegisterEndpoint
    \/ Quiescent

Spec == Init /\ [][Next]_vars

(***************************************************************************)
(* Properties.                                                             *)
(***************************************************************************)
Stored(r) == invoice[r] # None

\* What the first items amount to in unbounded integers, for every number of them.
PartialSums(items) ==
    LET Sum[n \in 0..Len(items)] ==
          IF n = 0 THEN 0 ELSE Sum[n - 1] + items[n].quantity * items[n].unit
    IN  Sum

\* The reference for a total.
ExactTotal(items) == PartialSums(items)[Len(items)]

\* Every variable stays in its type; an invoice starts as DRAFT or OPEN.
TypeOK ==
    /\ pc \in [CreateRequests -> {"idle", "items", "state", "insertInvoice", "insertItems",
                                  "commit", "answer", "done"}]
    /\ input \in [CreateRequests -> CreateInputs]
    /\ reply \in [CreateRequests ->
                  {"none", "created", "bad_request", "overflow", "internal_error"}]
    /\ line \in [CreateRequests -> Nat] /\ stored \in [CreateRequests -> Nat]
    /\ total \in [CreateRequests -> 0..(Half - 1)]
    /\ queued \in [CreateRequests -> SUBSET Endpoints]
    /\ invoice \in [CreateRequests -> InvoiceRow \cup {None}]
    /\ outbox \subseteq [invoice : CreateRequests, total : 0..(Half - 1), endpoint : Endpoints]
    /\ endpoints \subseteq Endpoints

\* A stored invoice has all the items of its request, and its total is their exact
\* sum: no wrapped amount and no part of an invoice is ever stored.
TotalsAreExact ==
    \A r \in CreateRequests : Stored(r) =>
        /\ invoice[r].items = input[r].items
        /\ invoice[r].total = ExactTotal(invoice[r].items)

\* Only what does not fit is refused as an overflow: some first items of the
\* request really amount to more than an int64.
OverflowIsReal ==
    \A r \in CreateRequests : reply[r] = "overflow" =>
        \E n \in 1..Len(input[r].items) : ExactTotal(SubSeq(input[r].items, 1, n)) >= Half

\* INVOICE.CREATED goes out for the invoices stored and for no other, to every
\* endpoint the business had from the start, with the stored total.
CreatedIsAnnounced ==
    /\ \A d \in outbox : Stored(d.invoice) /\ d.total = invoice[d.invoice].total
    /\ \A r \in CreateRequests, e \in InitialEndpoints :
         Stored(r) /\ EndpointOwner[e] = invoice[r].business =>
             \E d \in outbox : d.invoice = r /\ d.endpoint = e

\* An invoice belongs to the business of its customer, and is announced to that
\* business alone.
TenantIsolation ==
    /\ \A r \in CreateRequests :
         Stored(r) => CustomerOwner[invoice[r].customer] = invoice[r].business
    /\ \A d \in outbox : EndpointOwner[d.endpoint] = invoice[d.invoice].business

\* 201 is answered only for a stored invoice, 400 only when nothing was stored.
AnswersAreTruthful ==
    \A r \in CreateRequests :
        /\ reply[r] = "created" => Stored(r)
        /\ reply[r] \in {"bad_request", "overflow"} => ~Stored(r)
=============================================================================
