----------------------- MODULE InvoiceCreationProofs -----------------------
(***************************************************************************)
(* Theorems of InvoiceCreation, for any width of the integers, any items,  *)
(* requests and tenants.                                                   *)
(***************************************************************************)
EXTENDS InvoiceCreation, WellFoundedInduction, TLAPS

(***************************************************************************)
(* The overflow checks, made on values that have already wrapped.          *)
(***************************************************************************)
\* Wrapping leaves an int64 alone, and always yields one.
LEMMA WrapIsIdentity ==
    ASSUME NEW n \in Int64
    PROVE  Wrap(n) = n
BY AmountAssumption DEF Int64, Wrap

LEMMA WrapIsInt64 ==
    ASSUME NEW n \in Int
    PROVE  Wrap(n) \in Int64
BY AmountAssumption DEF Int64, Wrap

\* A valid item's check of the wrapped product refuses it exactly when the product
\* does not fit; otherwise the product is exact.
THEOREM LineCheckIsExact ==
    ASSUME NEW item \in Item, item.quantity > 0, item.unit >= 0
    PROVE  /\ LineOverflows(item) <=> item.quantity * item.unit >= Half
           /\ ~LineOverflows(item) => LineTotal(item) = item.quantity * item.unit
<1> DEFINE q == item.quantity
           u == item.unit
           L == LineTotal(item)
<1>1. q \in 1..(Half - 1) /\ u \in 0..(Half - 1) /\ Half \in Nat \ {0}
  BY AmountAssumption DEF Item, Int64
<1>2. q * u \in Nat
  BY <1>1
<1>3. L \in Int /\ L < Half
  BY <1>2, WrapIsInt64, AmountAssumption DEF LineTotal, Int64
<1>4. CASE q * u < Half
  <2>1. L = q * u
    BY <1>1, <1>2, <1>4, WrapIsIdentity DEF LineTotal, Int64
  <2>2. u > 0 => (q * u) \div u = q
    BY <1>1
  <2>3. ~LineOverflows(item)
    BY <1>1, <1>2, <2>1, <2>2 DEF LineOverflows, Quotient
  <2> QED
    BY <1>1, <1>2, <1>4, <2>1, <2>3
<1>5. CASE q * u >= Half
  <2>1. u > 0
    BY <1>1, <1>5
  <2>2. ASSUME L >= 0, L \div u = q PROVE FALSE
    <3>1. u * q <= L
      BY <1>1, <1>3, <2>1, <2>2
    <3> QED
      BY <1>1, <1>3, <1>5, <3>1
  <2>3. ASSUME L < 0, -((-L) \div u) = q PROVE FALSE
    BY <1>1, <1>3, <2>1, <2>3
  <2>4. LineOverflows(item)
    BY <2>1, <2>2, <2>3, <1>3 DEF LineOverflows, Quotient
  <2> QED
    BY <1>5, <2>4
<1> QED
  BY <1>1, <1>2, <1>4, <1>5

\* Likewise for the running total.
THEOREM SumCheckIsExact ==
    ASSUME NEW sum \in 0..(Half - 1), NEW amount \in 0..(Half - 1)
    PROVE  /\ SumOverflows(sum, amount) <=> sum + amount >= Half
           /\ ~SumOverflows(sum, amount) => Wrap(sum + amount) = sum + amount
<1>1. CASE sum + amount < Half
  <2>1. Wrap(sum + amount) = sum + amount
    BY <1>1, WrapIsIdentity, AmountAssumption DEF Int64
  <2> QED
    BY <1>1, <2>1, AmountAssumption DEF SumOverflows
<1>2. CASE sum + amount >= Half
  <2>1. (sum + amount + Half) % (2 * Half) = sum + amount - Half
    BY <1>2, AmountAssumption
  <2>2. Wrap(sum + amount) = sum + amount - 2 * Half
    BY <2>1, AmountAssumption DEF Wrap
  <2> QED
    BY <1>2, <2>2, AmountAssumption DEF SumOverflows
<1> QED
  BY <1>1, <1>2, AmountAssumption

(***************************************************************************)
(* Type correctness.                                                       *)
(***************************************************************************)
\* An answer changes only the request's pc and reply.
LEMMA AnswerType ==
    ASSUME TypeOK, NEW r \in CreateRequests,
           NEW code \in {"created", "bad_request", "overflow", "internal_error"},
           Answer(r, code)
    PROVE  TypeOK'
BY DEF TypeOK, Answer, Goto

LEMMA ContinueType ==
    ASSUME TypeOK, NEW r \in CreateRequests,
           NEW label \in {"items", "state", "insertInvoice", "insertItems"},
           Continue(r, label)
    PROVE  TypeOK'
BY DEF TypeOK, Continue, Goto

\* A request's input is well formed.
LEMMA InputType ==
    ASSUME TypeOK, NEW r \in CreateRequests
    PROVE  /\ input[r].business \in Businesses /\ input[r].customer \in Customers
           /\ input[r].items \in Seq(Item)
           /\ input[r].state \in {"none", "DRAFT", "OPEN", "other"}
BY CreateAssumption DEF TypeOK, CreateInput

\* The loop keeps the total within int64 and exact.
LEMMA CheckItemType ==
    ASSUME TypeOK, NEW r \in CreateRequests, CheckItem(r)
    PROVE  TypeOK'
<1> DEFINE item == input[r].items[line[r] + 1]
<1>1. item \in Item
  <2>1. line[r] \in Nat /\ line[r] < Len(input[r].items)
    BY DEF TypeOK, CheckItem
  <2> QED
    BY <2>1, InputType
<1>2. CASE Answer(r, "bad_request") \/ Answer(r, "overflow")
  BY <1>2, AnswerType
<1>3. CASE /\ item.quantity > 0 /\ item.unit >= 0
           /\ ~LineOverflows(item) /\ ~SumOverflows(total[r], LineTotal(item))
           /\ line' = [line EXCEPT ![r] = @ + 1]
           /\ total' = [total EXCEPT ![r] = Wrap(@ + LineTotal(item))]
           /\ UNCHANGED <<pc, input, reply, stored, queued, invoice, outbox, endpoints>>
  <2>1. LineTotal(item) = item.quantity * item.unit /\ item.quantity * item.unit < Half
    <3>1. item.quantity \in Int /\ item.unit \in Int /\ item.quantity * item.unit \in Int
      BY <1>1 DEF Item, Int64
    <3> QED
      BY <1>1, <1>3, <3>1, LineCheckIsExact, AmountAssumption
  <2>2. LineTotal(item) \in 0..(Half - 1)
    <3>1. item.quantity \in Nat /\ item.unit \in Nat
      BY <1>1, <1>3 DEF Item, Int64
    <3>2. item.quantity * item.unit \in Nat
      BY <3>1
    <3> QED
      BY <2>1, <3>2, AmountAssumption
  <2>3. total[r] \in 0..(Half - 1)
    BY DEF TypeOK
  <2>4. Wrap(total[r] + LineTotal(item)) \in 0..(Half - 1)
    BY <1>3, <2>2, <2>3, SumCheckIsExact, AmountAssumption
  <2>5. total' \in [CreateRequests -> 0..(Half - 1)]
    BY <1>3, <2>4 DEF TypeOK
  <2>6. line' \in [CreateRequests -> Nat]
    BY <1>3 DEF TypeOK
  <2> QED
    BY <1>3, <2>5, <2>6 DEF TypeOK
<1> QED
  BY <1>2, <1>3 DEF CheckItem

\* The row of an invoice.
LEMMA InvoiceType ==
    ASSUME TypeOK, NEW r \in CreateRequests, input[r].state # "other",
           stored[r] <= Len(input[r].items)
    PROVE  Invoice(r) \in InvoiceRow
<1>1. SubSeq(input[r].items, 1, stored[r]) \in Seq(Item)
  BY InputType DEF TypeOK
<1>2. InitialState(r) \in {"DRAFT", "OPEN"}
  BY InputType DEF InitialState
<1>3. total[r] \in 0..(Half - 1)
  BY DEF TypeOK
<1> QED
  BY <1>1, <1>2, <1>3, InputType DEF Invoice, InvoiceRow

(***************************************************************************)
(* What has been checked and stored at each step of a request.             *)
(***************************************************************************)
TxPc == {"insertInvoice", "insertItems", "commit"}
Listed(r) == {e \in InitialEndpoints : EndpointOwner[e] = input[r].business}

RequestInv(r) ==
    /\ stored[r] <= Len(input[r].items)
    /\ pc[r] \in TxPc \cup {"state"} => CustomerFound(r)
    /\ pc[r] \in TxPc => input[r].state # "other"
    /\ pc[r] = "commit" =>
         /\ Listed(r) \subseteq queued[r]
         /\ \A e \in queued[r] : EndpointOwner[e] = input[r].business
    /\ pc[r] # "done" => reply[r] = "none"
    /\ pc[r] = "answer" => Stored(r)
    /\ Stored(r) => pc[r] \in {"answer", "done"}

RowInv(r) ==
    /\ reply[r] = "created" => Stored(r)
    /\ reply[r] \in {"bad_request", "overflow"} => ~Stored(r)
    /\ Stored(r) =>
         /\ invoice[r].business = input[r].business
         /\ CustomerOwner[invoice[r].customer] = invoice[r].business
         /\ \A e \in Listed(r) : \E d \in outbox : d.invoice = r /\ d.endpoint = e

OutboxInv ==
    \A d \in outbox :
        /\ Stored(d.invoice)
        /\ d.total = invoice[d.invoice].total
        /\ EndpointOwner[d.endpoint] = invoice[d.invoice].business

CreationInv ==
    /\ \A r \in CreateRequests : RequestInv(r) /\ RowInv(r)
    /\ OutboxInv
    /\ InitialEndpoints \subseteq endpoints

Inv == TypeOK /\ CreationInv

\* What the steps of a request r may do to the others: nothing.
LEMMA OthersKept ==
    ASSUME CreationInv, NEW r \in CreateRequests, NEW s \in CreateRequests, r # s,
           pc'[s] = pc[s], reply'[s] = reply[s], stored'[s] = stored[s],
           queued'[s] = queued[s], invoice'[s] = invoice[s], input' = input,
           outbox \subseteq outbox'
    PROVE  RequestInv(s)' /\ RowInv(s)'
BY DEF CreationInv, RequestInv, RowInv, Listed, CustomerFound, Stored, None

\* An answer other than 201 at any step but the last, or 201 at the last.
LEMMA AnswerStep ==
    ASSUME Inv, NEW r \in CreateRequests, pc[r] # "done",
           NEW code \in {"created", "bad_request", "overflow", "internal_error"},
           code = "created" => pc[r] = "answer",
           code \in {"bad_request", "overflow"} => pc[r] # "answer",
           Answer(r, code)
    PROVE  CreationInv'
<1>1. RequestInv(r)' /\ RowInv(r)'
  BY DEF Inv, TypeOK, CreationInv, RequestInv, RowInv, Listed, CustomerFound, Stored, None,
         Answer, Goto, TxPc
<1>2. ASSUME NEW s \in CreateRequests, s # r PROVE RequestInv(s)' /\ RowInv(s)'
  BY <1>2, OthersKept DEF Inv, TypeOK, Answer, Goto
<1>3. OutboxInv' /\ (InitialEndpoints \subseteq endpoints)'
  BY DEF Inv, CreationInv, OutboxInv, Stored, None, Answer
<1> QED
  BY <1>1, <1>2, <1>3 DEF CreationInv

\* A step of the checks or of the open transaction.
LEMMA ContinueStep ==
    ASSUME Inv, NEW r \in CreateRequests, pc[r] \notin {"answer", "done"},
           NEW label \in {"items", "state", "insertInvoice", "insertItems"},
           label # "items" => CustomerFound(r),
           label \in {"insertInvoice", "insertItems"} => input[r].state # "other",
           Continue(r, label)
    PROVE  CreationInv'
<1>1. RequestInv(r)' /\ RowInv(r)'
  BY DEF Inv, TypeOK, CreationInv, RequestInv, RowInv, Listed, CustomerFound, Stored, None,
         Continue, Goto, TxPc
<1>2. ASSUME NEW s \in CreateRequests, s # r PROVE RequestInv(s)' /\ RowInv(s)'
  BY <1>2, OthersKept DEF Inv, TypeOK, Continue, Goto
<1>3. OutboxInv' /\ (InitialEndpoints \subseteq endpoints)'
  BY DEF Inv, CreationInv, OutboxInv, Stored, None, Continue
<1> QED
  BY <1>1, <1>2, <1>3 DEF CreationInv

\* The COMMIT: everything the transaction wrote, at once.
LEMMA CommitStep ==
    ASSUME Inv, NEW r \in CreateRequests, Commit(r)
    PROVE  Inv'
<1>1. /\ pc[r] = "commit" /\ ~Stored(r) /\ input[r].state # "other"
      /\ CustomerFound(r) /\ stored[r] <= Len(input[r].items)
  BY DEF Inv, CreationInv, RequestInv, Commit, TxPc
<1>2. Invoice(r) \in InvoiceRow
  BY <1>1, InvoiceType DEF Inv
<1>3. invoice' = [invoice EXCEPT ![r] = Invoice(r)] /\ invoice'[r] = Invoice(r)
  BY DEF Inv, TypeOK, Commit
<1>4. invoice' \in [CreateRequests -> InvoiceRow \cup {None}]
  BY <1>2, <1>3 DEF Inv, TypeOK
<1>5. DeliveriesOf(r) \subseteq [invoice : CreateRequests, total : 0..(Half - 1), endpoint : Endpoints]
  BY DEF Inv, TypeOK, DeliveriesOf
<1>6. TypeOK'
  BY <1>4, <1>5 DEF Inv, TypeOK, Commit, Goto
<1>7. Invoice(r) # None
  <2>1. Invoice(r).state \in {"DRAFT", "OPEN"} /\ None.state = "NONE"
    BY <1>2 DEF InvoiceRow, None
  <2> QED
    BY <2>1
<1>8. /\ Invoice(r).business = input[r].business /\ Invoice(r).customer = input[r].customer
      /\ Invoice(r).total = total[r]
  BY DEF Invoice
<1>9. Stored(r)'
  BY <1>3, <1>7 DEF Stored, None
<1>10. RequestInv(r)'
  BY <1>1, <1>9 DEF Inv, TypeOK, CreationInv, RequestInv, Commit, Goto, TxPc, Listed
<1>11. RowInv(r)'
  <2>1. reply'[r] = "none"
    BY <1>1 DEF Inv, CreationInv, RequestInv, Commit
  <2>2. \A e \in Listed(r) : \E d \in outbox' : d.invoice = r /\ d.endpoint = e
    <3>1. Listed(r) \subseteq queued[r]
      BY <1>1 DEF Inv, CreationInv, RequestInv
    <3>2. \A e \in queued[r] : [invoice |-> r, total |-> total[r], endpoint |-> e] \in outbox'
      BY DEF Commit, DeliveriesOf
    <3> QED
      BY <3>1, <3>2
  <2>3. Listed(r)' = Listed(r)
    BY DEF Listed, Commit
  <2> QED
    BY <1>1, <1>3, <1>8, <1>9, <2>1, <2>2, <2>3 DEF RowInv, CustomerFound, Commit
<1>12. ASSUME NEW s \in CreateRequests, s # r PROVE RequestInv(s)' /\ RowInv(s)'
  BY <1>12, OthersKept DEF Inv, TypeOK, Commit, Goto
<1>13. OutboxInv'
  <2>1. ASSUME NEW d \in outbox
        PROVE  Stored(d.invoice)' /\ d.total = invoice'[d.invoice].total
               /\ EndpointOwner[d.endpoint] = invoice'[d.invoice].business
    <3>1. Stored(d.invoice) /\ d.invoice # r /\ d.invoice \in CreateRequests
      BY <1>1 DEF Inv, TypeOK, CreationInv, OutboxInv
    <3>2. invoice'[d.invoice] = invoice[d.invoice]
      BY <1>3, <3>1 DEF Inv, TypeOK
    <3> QED
      BY <3>1, <3>2 DEF Inv, CreationInv, OutboxInv, Stored, None
  <2>2. ASSUME NEW d \in DeliveriesOf(r)
        PROVE  Stored(d.invoice)' /\ d.total = invoice'[d.invoice].total
               /\ EndpointOwner[d.endpoint] = invoice'[d.invoice].business
    <3>1. d.invoice = r /\ d.total = total[r] /\ d.endpoint \in queued[r]
      BY DEF DeliveriesOf
    <3>2. EndpointOwner[d.endpoint] = input[r].business
      BY <1>1, <3>1 DEF Inv, CreationInv, RequestInv
    <3> QED
      BY <1>3, <1>8, <1>9, <3>1, <3>2
  <2> QED
    BY <2>1, <2>2 DEF OutboxInv, Commit
<1> QED
  BY <1>6, <1>10, <1>11, <1>12, <1>13 DEF Inv, CreationInv, Commit

\* Every step keeps the invariant: one case per action.
LEMMA InvStep == Inv /\ [Next]_vars => Inv'
<1> SUFFICES ASSUME Inv, [Next]_vars PROVE Inv'
  OBVIOUS
<1>1. ASSUME NEW r \in CreateRequests, Receive(r) PROVE Inv'
  BY <1>1, ContinueType, AnswerType, ContinueStep, AnswerStep DEF Inv, Receive
<1>2. ASSUME NEW r \in CreateRequests, CheckItem(r) PROVE Inv'
  <2>1. TypeOK'
    BY <1>2, CheckItemType DEF Inv
  <2>2. CASE Answer(r, "bad_request") \/ Answer(r, "overflow")
    BY <1>2, <2>1, <2>2, AnswerStep DEF Inv, CheckItem
  <2>3. CASE UNCHANGED <<pc, input, reply, stored, queued, invoice, outbox, endpoints>>
    <3>1. CreationInv'
      BY <2>3 DEF Inv, CreationInv, RequestInv, RowInv, OutboxInv, Listed, CustomerFound,
                  Stored, None
    <3> QED
      BY <2>1, <3>1 DEF Inv
  <2> QED
    BY <1>2, <2>2, <2>3 DEF CheckItem
<1>3. ASSUME NEW r \in CreateRequests, GetCustomer(r) PROVE Inv'
  <2>1. CASE Answer(r, "bad_request")
    BY <1>3, <2>1, AnswerType, AnswerStep DEF Inv, GetCustomer
  <2>2. CASE CustomerFound(r) /\ Continue(r, "state")
    BY <1>3, <2>2, ContinueType, ContinueStep DEF Inv, GetCustomer
  <2> QED
    BY <1>3, <2>1, <2>2 DEF GetCustomer
<1>4. ASSUME NEW r \in CreateRequests, CheckState(r) PROVE Inv'
  <2>1. CustomerFound(r)
    BY <1>4 DEF Inv, CreationInv, RequestInv, CheckState
  <2> QED
    BY <1>4, <2>1, ContinueType, AnswerType, ContinueStep, AnswerStep DEF Inv, CheckState
<1>5. ASSUME NEW r \in CreateRequests, CreateInvoice(r) PROVE Inv'
  <2>1. CustomerFound(r) /\ input[r].state # "other"
    BY <1>5 DEF Inv, CreationInv, RequestInv, CreateInvoice, TxPc
  <2> QED
    BY <1>5, <2>1, ContinueType, ContinueStep DEF Inv, CreateInvoice
<1>6. ASSUME NEW r \in CreateRequests, CreateInvoiceItem(r) PROVE Inv'
  <2>1. stored[r] < Len(input[r].items) /\ stored' = [stored EXCEPT ![r] = @ + 1]
    <3>1. Len(input[r].items) \in Nat /\ stored[r] \in Nat
      BY InputType DEF Inv, TypeOK
    <3> QED
      BY <1>6, <3>1 DEF Inv, CreationInv, RequestInv, CreateInvoiceItem, ItemsStored
  <2>2. TypeOK'
    BY <1>6 DEF Inv, TypeOK, CreateInvoiceItem
  <2>3. RequestInv(r)' /\ RowInv(r)'
    <3>1. stored'[r] <= Len(input[r].items)
      <4>1. Len(input[r].items) \in Nat /\ stored[r] \in Nat
        BY InputType DEF Inv, TypeOK
      <4> QED
        BY <2>1, <4>1 DEF Inv, TypeOK
    <3> QED
      BY <1>6, <3>1 DEF Inv, CreationInv, RequestInv, RowInv, Listed, CustomerFound, Stored,
                         None, CreateInvoiceItem, TxPc
  <2>4. ASSUME NEW s \in CreateRequests, s # r PROVE RequestInv(s)' /\ RowInv(s)'
    BY <1>6, <2>4, OthersKept DEF Inv, TypeOK, CreateInvoiceItem
  <2>5. OutboxInv'
    BY <1>6 DEF Inv, CreationInv, OutboxInv, Stored, None, CreateInvoiceItem
  <2> QED
    BY <1>6, <2>2, <2>3, <2>4, <2>5 DEF Inv, CreationInv, CreateInvoiceItem
<1>7. ASSUME NEW r \in CreateRequests, QueueDeliveries(r) PROVE Inv'
  <2>1. queued' = [queued EXCEPT ![r] = ActiveEndpoints(r)] /\ pc' = [pc EXCEPT ![r] = "commit"]
    BY <1>7 DEF QueueDeliveries, Goto
  <2>2. /\ Listed(r) \subseteq ActiveEndpoints(r) /\ ActiveEndpoints(r) \subseteq Endpoints
        /\ \A e \in ActiveEndpoints(r) : EndpointOwner[e] = input[r].business
    BY DEF Inv, TypeOK, CreationInv, Listed, ActiveEndpoints
  <2>3. TypeOK'
    BY <1>7, <2>1, <2>2 DEF Inv, TypeOK, QueueDeliveries
  <2>4. RequestInv(r)' /\ RowInv(r)'
    BY <1>7, <2>1, <2>2 DEF Inv, TypeOK, CreationInv, RequestInv, RowInv, Listed, CustomerFound,
                            Stored, None, QueueDeliveries, TxPc
  <2>5. ASSUME NEW s \in CreateRequests, s # r PROVE RequestInv(s)' /\ RowInv(s)'
    BY <1>7, <2>1, <2>5, OthersKept DEF Inv, TypeOK, QueueDeliveries
  <2>6. OutboxInv'
    BY <1>7 DEF Inv, CreationInv, OutboxInv, Stored, None, QueueDeliveries
  <2> QED
    BY <1>7, <2>3, <2>4, <2>5, <2>6 DEF Inv, CreationInv, QueueDeliveries
<1>8. ASSUME NEW r \in CreateRequests, Commit(r) PROVE Inv'
  BY <1>8, CommitStep
<1>9. ASSUME NEW r \in CreateRequests, AnswerClient(r) \/ Fail(r) PROVE Inv'
  BY <1>9, AnswerType, AnswerStep DEF Inv, AnswerClient, Fail
<1>10. CASE RegisterEndpoint
  <2>1. TypeOK'
    BY <1>10 DEF Inv, TypeOK, RegisterEndpoint
  <2>2. CreationInv'
    BY <1>10 DEF Inv, CreationInv, RequestInv, RowInv, OutboxInv, Listed, CustomerFound,
                 Stored, None, RegisterEndpoint
  <2> QED
    BY <2>1, <2>2 DEF Inv
<1>11. CASE UNCHANGED vars
  <2>1. TypeOK'
    BY <1>11 DEF Inv, TypeOK, vars
  <2>2. CreationInv'
    BY <1>11 DEF Inv, CreationInv, RequestInv, RowInv, OutboxInv, Listed, CustomerFound,
                 Stored, None, vars
  <2> QED
    BY <2>1, <2>2 DEF Inv
<1> QED
  BY <1>1, <1>2, <1>3, <1>4, <1>5, <1>6, <1>7, <1>8, <1>9, <1>10, <1>11
  DEF Next, Check, Store, Quiescent

\* The initial states satisfy it.
LEMMA InitInv == Init => Inv
<1>1. Init => TypeOK
  BY CreateAssumption, AmountAssumption DEF Init, TypeOK
<1>2. Init /\ TypeOK => CreationInv
  <2> SUFFICES ASSUME Init, TypeOK PROVE CreationInv
    OBVIOUS
  <2>1. ASSUME NEW r \in CreateRequests PROVE stored[r] <= Len(input[r].items)
    <3>1. stored[r] = 0 /\ Len(input[r].items) \in Nat
      BY InputType DEF Init
    <3> QED
      BY <3>1
  <2> QED
    BY <2>1 DEF Init, CreationInv, RequestInv, RowInv, OutboxInv, Stored, None, TxPc
<1> QED
  BY <1>1, <1>2 DEF Inv

\* The inductive invariant holds in every reachable state.
THEOREM CreationInvariant == Spec => []Inv
BY InitInv, InvStep, PTL DEF Spec

\* Every variable stays in its type; in particular no total ever leaves 0..Half-1,
\* whatever the quantities and amounts.
THEOREM TypeCorrect == Spec => []TypeOK
<1>1. Inv => TypeOK
  BY DEF Inv
<1> QED
  BY <1>1, CreationInvariant, PTL

\* Deliveries exist exactly for the invoices stored, with their totals.
THEOREM CreationIsAnnounced == Spec => []CreatedIsAnnounced
<1>1. Inv => CreatedIsAnnounced
  BY DEF Inv, CreationInv, RowInv, OutboxInv, Listed, CreatedIsAnnounced
<1> QED
  BY <1>1, CreationInvariant, PTL

\* Neither an invoice nor its announcement crosses businesses.
THEOREM TenantsAreIsolated == Spec => []TenantIsolation
<1>1. Inv => TenantIsolation
  BY DEF Inv, CreationInv, RowInv, OutboxInv, TenantIsolation
<1> QED
  BY <1>1, CreationInvariant, PTL

\* 201 means stored, 400 means nothing stored.
THEOREM AnswersMatchRows == Spec => []AnswersAreTruthful
<1>1. Inv => AnswersAreTruthful
  BY DEF Inv, CreationInv, RowInv, AnswersAreTruthful
<1> QED
  BY <1>1, CreationInvariant, PTL

(***************************************************************************)
(* Sums over the items.  The library's induction theorems take an operator *)
(* as a parameter; a set says the same, and is found by its least missing  *)
(* element.                                                                *)
(***************************************************************************)
LEMMA SetInduction ==
    ASSUME NEW T, 0 \in T, \A n \in T \cap Nat : n + 1 \in T
    PROVE  Nat \subseteq T
<1> DEFINE U == Nat \ T
<1> SUFFICES ASSUME U # {} PROVE FALSE
  OBVIOUS
<1>1. PICK m \in U : \A n \in U : ~(<<n, m>> \in OpToRel(<, Nat))
  BY WFMin, NatLessThanWellFounded, Zenon
<1>2. \A n \in U : ~(n < m)
  BY <1>1 DEF OpToRel
<1>3. m \in Nat /\ m \notin T /\ m # 0
  OBVIOUS
<1>4. m - 1 \in Nat /\ m - 1 < m /\ (m - 1) + 1 = m
  BY <1>3
<1>5. m - 1 \in T
  BY <1>2, <1>4
<1> QED
  BY <1>3, <1>4, <1>5

\* A function with the equation of PartialSums exists: there is one for each number
\* of items.
LEMMA SumsExist ==
    ASSUME NEW items, NEW k \in Nat
    PROVE  \E f : f = [n \in 0..k |->
                         IF n = 0 THEN 0 ELSE f[n - 1] + items[n].quantity * items[n].unit]
<1> DEFINE E(f, j) == f = [n \in 0..j |->
                             IF n = 0 THEN 0 ELSE f[n - 1] + items[n].quantity * items[n].unit]
           T == {j \in Nat : \E f : E(f, j)}
<1>1. 0 \in T
  <2> DEFINE f == [n \in 0..0 |-> 0]
  <2>1. E(f, 0)
    OBVIOUS
  <2> QED
    BY <2>1
<1>2. ASSUME NEW j \in T PROVE j + 1 \in T
  <2>1. PICK f : E(f, j)
    BY <1>2
  <2> DEFINE g == [n \in 0..(j + 1) |->
                     IF n = 0 THEN 0 ELSE f[n - 1] + items[n].quantity * items[n].unit]
  <2>2. \A n \in 0..j : g[n] = f[n]
    BY <2>1
  <2>3. ASSUME NEW n \in 0..(j + 1)
        PROVE  g[n] = IF n = 0 THEN 0 ELSE g[n - 1] + items[n].quantity * items[n].unit
    <3>1. CASE n = 0
      BY <3>1
    <3>2. CASE n # 0
      <4>1. n - 1 \in 0..j /\ j \in Nat
        BY <3>2
      <4>2. g[n - 1] = f[n - 1]
        BY <2>2, <4>1
      <4> QED
        BY <3>2, <4>2
    <3> QED
      BY <3>1, <3>2
  <2>4. g = [n \in 0..(j + 1) |-> g[n]] /\ j + 1 \in Nat
    OBVIOUS
  <2> HIDE DEF g
  <2>5. E(g, j + 1)
    BY <2>3, <2>4
  <2> HIDE DEF E
  <2> QED
    BY <2>4, <2>5
<1> HIDE DEF T
<1>3. Nat \subseteq T
  BY <1>1, <1>2, SetInduction
<1> QED
  BY <1>3 DEF T

\* Hence the equation, and that the sums of well-formed items are integers.
LEMMA SumsEquation ==
    ASSUME NEW items \in Seq(Item)
    PROVE  /\ PartialSums(items)[0] = 0
           /\ \A n \in 1..Len(items) :
                PartialSums(items)[n] =
                    PartialSums(items)[n - 1] + items[n].quantity * items[n].unit
<1>1. \E f : f = [n \in 0..Len(items) |->
                    IF n = 0 THEN 0 ELSE f[n - 1] + items[n].quantity * items[n].unit]
  <2>1. Len(items) \in Nat
    OBVIOUS
  <2> QED
    BY <2>1, SumsExist, Zenon
<1>2. PartialSums(items) =
        [n \in 0..Len(items) |->
           IF n = 0 THEN 0
           ELSE PartialSums(items)[n - 1] + items[n].quantity * items[n].unit]
  BY <1>1, Zenon DEF PartialSums
<1> HIDE DEF PartialSums
<1> QED
  BY <1>2

\* The first n items of a list amount to what its sum at n says.
LEMMA SumsOfPrefix ==
    ASSUME NEW items \in Seq(Item), NEW n \in 0..Len(items)
    PROVE  ExactTotal(SubSeq(items, 1, n)) = PartialSums(items)[n]
<1> DEFINE first == SubSeq(items, 1, n)
           T == {k \in Nat : k <= n => PartialSums(first)[k] = PartialSums(items)[k]}
<1>1. first \in Seq(Item) /\ Len(first) = n /\ \A k \in 1..n : first[k] = items[k]
  OBVIOUS
<1> HIDE DEF first
<1>2. 0 \in T
  BY <1>1, SumsEquation
<1>3. ASSUME NEW k \in T PROVE k + 1 \in T
  <2> SUFFICES ASSUME k + 1 <= n
               PROVE  PartialSums(first)[k + 1] = PartialSums(items)[k + 1]
    OBVIOUS
  <2>1. k + 1 \in 1..n /\ k + 1 \in 1..Len(items) /\ (k + 1) - 1 = k /\ k <= n
    OBVIOUS
  <2>2. PartialSums(first)[k + 1] =
          PartialSums(first)[k] + first[k + 1].quantity * first[k + 1].unit
    BY <1>1, <2>1, SumsEquation
  <2>3. PartialSums(items)[k + 1] =
          PartialSums(items)[k] + items[k + 1].quantity * items[k + 1].unit
    BY <2>1, SumsEquation
  <2> QED
    BY <1>1, <2>1, <2>2, <2>3
<1>4. n \in T
  <2> HIDE DEF T
  <2> QED
    BY <1>2, <1>3, SetInduction
<1> QED
  BY <1>1, <1>4 DEF ExactTotal, first

(***************************************************************************)
(* Totals.                                                                 *)
(***************************************************************************)
Sums(r) == PartialSums(input[r].items)

\* The running total is the exact sum of the items checked; past the loop these are
\* all items, at the COMMIT all are inserted; and what was refused was too much.
SumInv(r) ==
    /\ line[r] <= Len(input[r].items)
    /\ total[r] = Sums(r)[line[r]]
    /\ pc[r] \in TxPc \cup {"state"} => line[r] = Len(input[r].items)
    /\ pc[r] = "commit" => ItemsStored(r)
    /\ Stored(r) =>
         invoice[r].items = input[r].items /\ invoice[r].total = ExactTotal(input[r].items)
    /\ reply[r] = "overflow" => \E n \in 1..Len(input[r].items) : Sums(r)[n] >= Half

TotalInv == Inv /\ \A r \in CreateRequests : SumInv(r)

\* The steps that leave the items, the total and the row of a request alone.
LEMMA SumKept ==
    ASSUME NEW r \in CreateRequests, SumInv(r), input' = input,
           line'[r] = line[r], total'[r] = total[r], stored'[r] = stored[r],
           invoice'[r] = invoice[r],
           reply'[r] = "overflow" => reply[r] = "overflow",
           pc'[r] \in TxPc \cup {"state"} =>
             pc[r] \in TxPc \cup {"state"} \/ line[r] = Len(input[r].items),
           pc'[r] = "commit" => pc[r] = "commit" \/ ItemsStored(r)
    PROVE  SumInv(r)'
BY DEF SumInv, Sums, Stored, None, ItemsStored

\* One turn of the loop, with the checks exact.
LEMMA CheckItemSum ==
    ASSUME Inv, NEW r \in CreateRequests, SumInv(r), CheckItem(r)
    PROVE  SumInv(r)'
<1> DEFINE items == input[r].items
           k == line[r] + 1
           item == items[k]
           amount == item.quantity * item.unit
<1>1. /\ items \in Seq(Item) /\ k \in 1..Len(items) /\ k - 1 = line[r] /\ item \in Item
      /\ total[r] \in 0..(Half - 1) /\ total[r] = Sums(r)[line[r]]
      /\ pc[r] = "items" /\ ~Stored(r) /\ line[r] \in Nat
  <2>1. items \in Seq(Item) /\ line[r] \in Nat /\ total[r] \in 0..(Half - 1)
    BY InputType DEF Inv, TypeOK
  <2>2. line[r] < Len(items) /\ pc[r] = "items"
    BY DEF CheckItem
  <2>3. ~Stored(r)
    BY <2>2 DEF Inv, CreationInv, RequestInv
  <2> QED
    BY <2>1, <2>2, <2>3 DEF SumInv
<1>2. Sums(r)[k] = total[r] + amount
  <2> HIDE DEF k
  <2> QED
    BY <1>1, SumsEquation DEF Sums
<1>3. CASE Answer(r, "bad_request")
  BY <1>1, <1>3, SumKept DEF Answer, Goto, Inv, TypeOK, TxPc
<1>4. ASSUME item.quantity > 0, item.unit >= 0,
             LineOverflows(item) \/ SumOverflows(total[r], LineTotal(item)),
             Answer(r, "overflow")
      PROVE  SumInv(r)'
  <2>1. amount \in Nat
    <3>1. item.quantity \in Nat /\ item.unit \in Nat
      BY <1>1, <1>4 DEF Item, Int64
    <3> QED
      BY <3>1
  <2>2. total[r] + amount >= Half
    <3>1. CASE LineOverflows(item)
      BY <1>1, <1>4, <2>1, <3>1, LineCheckIsExact, AmountAssumption
    <3>2. CASE ~LineOverflows(item)
      <4>1. LineTotal(item) = amount /\ amount < Half
        BY <1>1, <1>4, <2>1, <3>2, LineCheckIsExact, AmountAssumption
      <4>2. amount \in 0..(Half - 1)
        BY <2>1, <4>1, AmountAssumption
      <4> HIDE DEF amount
      <4> QED
        BY <1>1, <1>4, <3>2, <4>1, <4>2, SumCheckIsExact
    <3> QED
      BY <3>1, <3>2
  <2>3. \E n \in 1..Len(items) : Sums(r)[n] >= Half
    BY <1>1, <1>2, <2>2
  <2>4. /\ pc'[r] = "done" /\ invoice' = invoice
        /\ UNCHANGED <<input, line, total, stored>>
    BY <1>4 DEF Answer, Goto, Inv, TypeOK
  <2> QED
    BY <1>1, <2>3, <2>4 DEF SumInv, Sums, Stored, TxPc
<1>5. ASSUME item.quantity > 0, item.unit >= 0,
             ~LineOverflows(item), ~SumOverflows(total[r], LineTotal(item)),
             line' = [line EXCEPT ![r] = @ + 1],
             total' = [total EXCEPT ![r] = Wrap(@ + LineTotal(item))],
             UNCHANGED <<pc, input, reply, stored, queued, invoice, outbox, endpoints>>
      PROVE  SumInv(r)'
  <2>1. amount \in Nat
    <3>1. item.quantity \in Nat /\ item.unit \in Nat
      BY <1>1, <1>5 DEF Item, Int64
    <3> QED
      BY <3>1
  <2>2. LineTotal(item) = amount /\ amount \in 0..(Half - 1)
    BY <1>1, <1>5, <2>1, LineCheckIsExact, AmountAssumption
  <2>3. Wrap(total[r] + LineTotal(item)) = total[r] + amount
    <3> HIDE DEF amount
    <3> QED
      BY <1>1, <1>5, <2>2, SumCheckIsExact
  <2>4. line'[r] = k /\ total'[r] = Sums(r)[k] /\ k <= Len(items)
    BY <1>1, <1>2, <1>5, <2>3 DEF Inv, TypeOK
  <2>5. pc[r] = "items" /\ pc'[r] = "items" /\ invoice'[r] = invoice[r] /\ input' = input
        /\ reply'[r] = reply[r]
    BY <1>1, <1>5
  <2> HIDE DEF k
  <2> QED
    BY <1>1, <2>4, <2>5 DEF SumInv, Sums, Stored, None, TxPc
<1> QED
  BY <1>3, <1>4, <1>5 DEF CheckItem

\* The COMMIT stores the items checked, all of them, and their total.
LEMMA CommitSum ==
    ASSUME Inv, NEW r \in CreateRequests, SumInv(r), Commit(r)
    PROVE  SumInv(r)'
<1> DEFINE items == input[r].items
<1>1. /\ pc[r] = "commit" /\ pc'[r] = "answer" /\ items \in Seq(Item)
      /\ invoice'[r] = Invoice(r) /\ reply[r] = "none"
      /\ UNCHANGED <<input, reply, line, total, stored>>
  BY InputType DEF Inv, TypeOK, CreationInv, RequestInv, Commit, Goto
<1>2. stored[r] = Len(items) /\ line[r] = Len(items)
  BY <1>1 DEF SumInv, ItemsStored, TxPc
<1>3. SubSeq(items, 1, Len(items)) = items
  BY <1>1
<1>4. Invoice(r).items = items /\ Invoice(r).total = ExactTotal(items)
  BY <1>2, <1>3 DEF Invoice, SumInv, Sums, ExactTotal
<1> QED
  BY <1>1, <1>2, <1>4 DEF SumInv, Sums, TxPc

\* Every step keeps the sums: one case per action of the request, and nothing for
\* the others.
LEMMA TotalStep == TotalInv /\ [Next]_vars => TotalInv'
<1> SUFFICES ASSUME TotalInv, [Next]_vars PROVE TotalInv'
  OBVIOUS
<1>1. Inv'
  BY InvStep DEF TotalInv
<1> SUFFICES ASSUME NEW r \in CreateRequests PROVE SumInv(r)'
  BY <1>1 DEF TotalInv
<1>2. SumInv(r) /\ Inv
  BY DEF TotalInv
<1>3. CASE CheckItem(r)
  BY <1>2, <1>3, CheckItemSum
<1>4. CASE Commit(r)
  BY <1>2, <1>4, CommitSum
<1>5. CASE Receive(r) \/ GetCustomer(r) \/ CheckState(r) \/ CreateInvoice(r)
           \/ AnswerClient(r) \/ Fail(r)
  <2>1. UNCHANGED <<input, line, total, stored, invoice>>
    BY <1>5 DEF Receive, GetCustomer, CheckState, CreateInvoice, AnswerClient, Fail,
                Answer, Continue
  <2>2. reply'[r] # "overflow" \/ reply'[r] = reply[r]
    BY <1>2, <1>5 DEF Receive, GetCustomer, CheckState, CreateInvoice, AnswerClient, Fail,
                      Answer, Continue, Inv, TypeOK
  <2>3. pc'[r] \in TxPc \cup {"state"} =>
          pc[r] \in TxPc \cup {"state"} \/ line[r] = Len(input[r].items)
    BY <1>2, <1>5 DEF Receive, GetCustomer, CheckState, CreateInvoice, AnswerClient, Fail,
                      Answer, Continue, Goto, Inv, TypeOK, TxPc
  <2>4. pc'[r] # "commit"
    BY <1>2, <1>5 DEF Receive, GetCustomer, CheckState, CreateInvoice, AnswerClient, Fail,
                      Answer, Continue, Goto, Inv, TypeOK
  <2> QED
    BY <1>2, <2>1, <2>2, <2>3, <2>4, SumKept
<1>6. CASE CreateInvoiceItem(r)
  BY <1>2, <1>6 DEF CreateInvoiceItem, SumInv, Sums, Stored, None, TxPc
<1>7. CASE QueueDeliveries(r)
  <2>1. pc[r] = "insertItems" /\ ItemsStored(r)
        /\ UNCHANGED <<input, reply, line, total, stored, invoice>>
    BY <1>7 DEF QueueDeliveries
  <2> QED
    BY <1>2, <2>1, SumKept DEF TxPc
<1>8. ASSUME NEW s \in CreateRequests, s # r, Check(s) \/ Store(s) \/ Fail(s)
      PROVE  SumInv(r)'
  <2>1. /\ input' = input /\ pc'[r] = pc[r] /\ reply'[r] = reply[r] /\ line'[r] = line[r]
        /\ total'[r] = total[r] /\ stored'[r] = stored[r] /\ invoice'[r] = invoice[r]
    BY <1>2, <1>8 DEF Check, Store, Fail, Receive, CheckItem, GetCustomer, CheckState,
                      CreateInvoice, CreateInvoiceItem, QueueDeliveries, Commit, AnswerClient,
                      Answer, Continue, Goto, Inv, TypeOK
  <2> QED
    BY <1>2, <2>1, SumKept
<1>9. CASE RegisterEndpoint \/ UNCHANGED vars
  <2>1. UNCHANGED <<pc, input, reply, line, total, stored, invoice>>
    BY <1>9 DEF RegisterEndpoint, vars
  <2> QED
    BY <1>2, <2>1, SumKept
<1> QED
  BY <1>3, <1>4, <1>5, <1>6, <1>7, <1>8, <1>9 DEF Next, Check, Store, Quiescent

\* The running total of every request is the exact sum of what it has checked.
THEOREM TotalInvariant == Spec => []TotalInv
<1>1. Init => Inv
  BY InitInv
<1>2. Init /\ Inv => TotalInv
  <2> SUFFICES ASSUME Init, Inv, NEW r \in CreateRequests PROVE SumInv(r)
    BY DEF TotalInv
  <2>1. input[r].items \in Seq(Item) /\ Len(input[r].items) \in Nat
    BY InputType DEF Inv
  <2>2. Sums(r)[0] = 0
    BY <2>1, SumsEquation DEF Sums
  <2> QED
    BY <2>1, <2>2 DEF Init, SumInv, Stored, None, TxPc
<1> QED
  BY <1>1, <1>2, TotalStep, PTL DEF Spec

\* A stored invoice has all the items of its request, and its total is their exact sum,
\* for any number of items and any width of the integers.
THEOREM TotalsAreExactSums == Spec => []TotalsAreExact
<1>1. TotalInv => TotalsAreExact
  BY DEF TotalInv, SumInv, TotalsAreExact
<1> QED
  BY <1>1, TotalInvariant, PTL

\* Nothing is refused as an overflow that would have fit.
THEOREM OverflowsAreReal == Spec => []OverflowIsReal
<1>1. TotalInv => OverflowIsReal
  <2> SUFFICES ASSUME TotalInv, NEW r \in CreateRequests, reply[r] = "overflow"
               PROVE  \E n \in 1..Len(input[r].items) :
                        ExactTotal(SubSeq(input[r].items, 1, n)) >= Half
    BY DEF OverflowIsReal
  <2>1. PICK n \in 1..Len(input[r].items) : Sums(r)[n] >= Half
    BY DEF TotalInv, SumInv
  <2>2. input[r].items \in Seq(Item) /\ n \in 0..Len(input[r].items)
    BY InputType DEF TotalInv, Inv
  <2> QED
    BY <2>1, <2>2, SumsOfPrefix DEF Sums
<1> QED
  BY <1>1, TotalInvariant, PTL
=============================================================================
