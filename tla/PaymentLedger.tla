--------------------------- MODULE PaymentLedger ---------------------------
(***************************************************************************)
(* What internal/payment promises about money, with everything that makes  *)
(* it hard left out: no statements, locks, transactions, processes, lost   *)
(* answers or retries.  A payment begins, the provider acts once, and the  *)
(* payment is settled, each in one step; a voided invoice is void.         *)
(* Payment implements this: Ledger!Spec, at the end of that module.        *)
(***************************************************************************)
CONSTANTS
    Payments,        \* the payments that may begin
    Invoices, InvoiceOwner,
    Endpoints, EndpointOwner, InitialEndpoints

VARIABLES
    order,           \* what each payment is for: its business, invoice, key and token
    invoice,         \* the state of an invoice
    attempt,         \* the state of a payment
    money,           \* what the provider did: "none", "charged" or "declined"
    answer,          \* the outcome stored for a payment
    response,        \* the outcome a client was told, and of which payment
    outbox           \* the announcements made

vars == <<order, invoice, attempt, money, answer, response, outbox>>

SameInvoice(p, q) == order[p].invoice = order[q].invoice
SameKey(p, q) == order[p].business = order[q].business /\ order[p].key = order[q].key

Init ==
    /\ invoice \in [Invoices -> {"DRAFT", "OPEN"}]
    /\ attempt = [p \in Payments |-> "NONE"]
    /\ money = [p \in Payments |-> "none"]
    /\ answer = [p \in Payments |-> "none"]
    /\ response = [p \in Payments |-> [code |-> "none", attempt |-> p]]
    /\ outbox = {}

\* A payment begins only for an open invoice of the business that asks, under a
\* key never used, and when every other payment of the invoice has failed.
Begin(p) ==
    /\ attempt[p] = "NONE"
    /\ InvoiceOwner[order[p].invoice] = order[p].business
    /\ invoice[order[p].invoice] = "OPEN"
    /\ \A q \in Payments :
         /\ SameKey(p, q) => attempt[q] = "NONE"
         /\ SameInvoice(p, q) => attempt[q] \in {"NONE", "FAILED"}
    /\ attempt' = [attempt EXCEPT ![p] = "PROCESSING"]
    /\ UNCHANGED <<order, invoice, money, answer, response, outbox>>

\* The provider acts at most once, on a payment nobody has settled.
Provide(p) ==
    /\ attempt[p] \in {"PROCESSING", "UNKNOWN"}
    /\ money[p] = "none"
    /\ \E verdict \in {"charged", "declined"} : money' = [money EXCEPT ![p] = verdict]
    /\ UNCHANGED <<order, invoice, attempt, answer, response, outbox>>

\* The endpoints of the paying business, those it had all along included.
Announce(p, event) ==
    \E E \in SUBSET {e \in Endpoints : EndpointOwner[e] = order[p].business} :
        /\ {e \in InitialEndpoints : EndpointOwner[e] = order[p].business} \subseteq E
        /\ outbox' = outbox \cup [event : {event}, attempt : {p}, endpoint : E]

Store(p, status, code) ==
    /\ attempt[p] = "PROCESSING"
    /\ attempt' = [attempt EXCEPT ![p] = status]
    /\ answer' = [answer EXCEPT ![p] = code]
    /\ UNCHANGED <<order, money, response>>

\* The money was taken and the invoice is still open: it is paid.
Succeed(p) ==
    /\ money[p] = "charged"
    /\ invoice[order[p].invoice] = "OPEN"
    /\ invoice' = [invoice EXCEPT ![order[p].invoice] = "PAID"]
    /\ Store(p, "SUCCEEDED", "ok")
    /\ Announce(p, "PAID")

\* The provider declined: the invoice stays as it is.
Decline(p) ==
    /\ money[p] = "declined"
    /\ Store(p, "FAILED", "declined")
    /\ Announce(p, "PAYMENT_FAILED")
    /\ UNCHANGED invoice

\* Nobody knows what the provider did or will do: nothing is announced.
GiveUp(p) ==
    /\ Store(p, "UNKNOWN", "accepted")
    /\ UNCHANGED <<invoice, outbox>>

\* A client is told the stored outcome of a payment that is, in everything it
\* asked for, the one it asked for.
Tell(p) ==
    /\ response[p].code = "none"
    /\ \E q \in Payments :
         /\ order[p] = order[q]
         /\ answer[q] # "none"
         /\ response' = [response EXCEPT ![p] = [code |-> answer[q], attempt |-> q]]
    /\ UNCHANGED <<order, invoice, attempt, money, answer, outbox>>

\* VoidInvoice, which has no condition on the state.
Void(i) ==
    /\ invoice' = [invoice EXCEPT ![i] = "VOID"]
    /\ UNCHANGED <<order, attempt, money, answer, response, outbox>>

Next ==
    \/ \E p \in Payments :
         Begin(p) \/ Provide(p) \/ Succeed(p) \/ Decline(p) \/ GiveUp(p) \/ Tell(p)
    \/ \E i \in Invoices : Void(i)

Spec == Init /\ [][Next]_vars
=============================================================================
