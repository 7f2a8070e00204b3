--------------------------- MODULE PaymentProofs ---------------------------
(***************************************************************************)
(* Theorems about Payment, for any sets of requests, invoices, keys and    *)
(* endpoints and any interleaving of requests, voids, aborts and deadlocks.*)
(***************************************************************************)
EXTENDS Payment, TLAPS

(***************************************************************************)
(* The inductive invariant.                                                *)
(***************************************************************************)
\* How far a request is says what it has committed, and a resolved attempt says
\* what the provider did and what was stored under the key.
RequestInv ==
    \A r \in PayRequests :
        /\ pc[r] \in {"idle"} \cup ClaimPc => attempt[r] = "NONE"
        /\ pc[r] = "charge" => psp[r] = "none"
        /\ pc[r] \in {"charge", "await"} \cup FinalizePc => attempt[r] = "PROCESSING"
        /\ pc[r] = "payInvoice" => outcome[r] = "succeeded"
        /\ pc[r] \in {"list", "queue"} => outcome[r] \in {"succeeded", "failed"}
        /\ pc[r] \in FinalizePc => outcome[r] # "none"
        /\ pc[r] = "answer" =>
             /\ outcome[r] # "none"
             /\ attempt[r] = AttemptStatus(outcome[r])
        /\ outcome[r] = "succeeded" => psp[r] = "charged"
        /\ outcome[r] = "failed" => psp[r] = "declined"
        /\ attempt[r] = "NONE" => psp[r] = "none" /\ idem[r] = "NONE"
        /\ attempt[r] # "NONE" => Owns(r)
        /\ attempt[r] = "PROCESSING" => idem[r] = "PROCESSING"
        /\ attempt[r] = "SUCCEEDED" =>
             idem[r] = "COMPLETED" /\ saved[r] = "ok" /\ psp[r] = "charged"
        /\ attempt[r] = "FAILED" =>
             idem[r] = "COMPLETED" /\ saved[r] = "declined" /\ psp[r] = "declined"
        /\ attempt[r] = "UNKNOWN" => idem[r] = "COMPLETED" /\ saved[r] = "accepted"

\* Locks on one invoice are compatible, and a transaction that locked the row
\* against writers found the invoice open and finds it so until it ends.
LockInv ==
    /\ \A r \in PayRequests : LockHeld(r) \in {"update", "noKeyUpdate"} =>
         Owns(r) /\ invoice[input[r].invoice] = "OPEN"
    /\ \A r, s \in PayRequests :
         r # s /\ SameInvoice(r, s) => ~Conflicting(LockHeld(r), LockHeld(s))

\* An attempt that has been, or may have been, charged.
Live(r) == attempt[r] \in Unresolved \cup {"SUCCEEDED"}

LedgerInv ==
    /\ \A r, s \in PayRequests : Live(r) /\ Live(s) /\ SameInvoice(r, s) => r = s
    /\ \A r \in PayRequests : attempt[r] = "SUCCEEDED" =>
         invoice[input[r].invoice] \in {"PAID", "VOID"}
    /\ \A i \in Invoices : invoice[i] = "PAID" =>
         \E r \in PayRequests : attempt[r] = "SUCCEEDED" /\ input[r].invoice = i

\* The unique index on (business, key), over committed and pending inserts.
HasKey(r) == idem[r] # "NONE" \/ KeyInserted(r)
KeyInv == \A r, s \in PayRequests : HasKey(r) /\ HasKey(s) /\ SameKey(r, s) => r = s

\* An answered outcome is the one stored under the key of an equal request.
AnswerStored(r, a) ==
    /\ idem[a] = "COMPLETED"
    /\ saved[a] = reply[r].code
    /\ SameKey(r, a)
    /\ Fingerprint(r) = Fingerprint(a)
ReplyInv ==
    \A r, a \in PayRequests :
        reply[r].code \in FinalCode /\ reply[r].attempt = a => AnswerStored(r, a)

PaymentInv == TypeOK /\ RequestInv /\ LockInv /\ LedgerInv /\ KeyInv /\ ReplyInv

\* What a finalization has listed: endpoints of its business, all the early ones.
QueueInv ==
    /\ InitialEndpoints \subseteq endpoints
    /\ \A r \in PayRequests :
         /\ queued[r] # {} =>
              /\ pc[r] \in {"queue", "complete", "answer", "done"}
              /\ outcome[r] \in {"succeeded", "failed"}
         /\ \A e \in queued[r] : EndpointOwner[e] = input[r].business
         /\ pc[r] = "queue" \/ (pc[r] = "complete" /\ outcome[r] # "error") =>
              \A e \in InitialEndpoints : EndpointOwner[e] = input[r].business => e \in queued[r]

OutboxInv ==
    /\ OutboxMatchesAttempts
    /\ \A d \in outbox : EndpointOwner[d.endpoint] = InvoiceOwner[input[d.attempt].invoice]

(***************************************************************************)
(* Type correctness.                                                       *)
(***************************************************************************)
LEMMA InitTypeOK == Init => TypeOK
  BY InputsAssumption, OwnersAssumption
     DEF Init, TypeOK, ClaimPc, FinalizePc, FinalCode, ErrorCode, InvoiceState

\* An error answer leaves every table and every other request alone.
LEMMA RefuseTypeOK ==
  ASSUME TypeOK, NEW r \in PayRequests, NEW code \in ErrorCode, Refuse(r, code)
  PROVE  TypeOK'
  BY DEF TypeOK, Refuse, Answer, Goto, tables, FinalizePc, ClaimPc, FinalCode, ErrorCode

LEMMA ContinueTypeOK ==
  ASSUME TypeOK, NEW r \in PayRequests,
         NEW label \in ClaimPc \cup FinalizePc, Continue(r, label)
  PROVE  TypeOK'
  BY DEF TypeOK, Continue, Goto, tables, FinalizePc, ClaimPc

\* Every step keeps every variable in its type.
LEMMA StepTypeOK == TypeOK /\ [Next]_vars => TypeOK'
  <1> SUFFICES ASSUME TypeOK, [Next]_vars PROVE TypeOK'
    OBVIOUS
  <1> USE DEF ErrorCode, ClaimPc, FinalizePc
  <1>1. ASSUME NEW r \in PayRequests, Receive(r) PROVE TypeOK'
    BY <1>1, RefuseTypeOK, ContinueTypeOK DEF Receive
  <1>2. ASSUME NEW r \in PayRequests, GetIdempotencyKey(r) PROVE TypeOK'
    <2>1. ASSUME NEW s \in KeyRows(r), idem[s] = "COMPLETED", Answer(r, saved[s], s),
                 UNCHANGED <<input, outcome, queued, vpc, target, tables, psp>>
          PROVE  TypeOK'
      BY <2>1 DEF TypeOK, Answer, Goto, tables, KeyRows, FinalCode
    <2>2. QED
      BY <1>2, <2>1, RefuseTypeOK, ContinueTypeOK DEF GetIdempotencyKey
  <1>3. ASSUME NEW r \in PayRequests, GetInvoiceForPayment(r) PROVE TypeOK'
    BY <1>3, RefuseTypeOK, ContinueTypeOK DEF GetInvoiceForPayment
  <1>4. ASSUME NEW r \in PayRequests, CreateIdempotencyKey(r) PROVE TypeOK'
    BY <1>4, RefuseTypeOK, ContinueTypeOK DEF CreateIdempotencyKey
  <1>5. ASSUME NEW r \in PayRequests, CreatePaymentAttempt(r) PROVE TypeOK'
    <2>1. CASE HasUnresolved(r)
      BY <1>5, <2>1, RefuseTypeOK DEF CreatePaymentAttempt
    <2>2. CASE ~HasUnresolved(r)
      BY <1>5, <2>2 DEF CreatePaymentAttempt, TypeOK, Goto
    <2>3. QED
      BY <2>1, <2>2
  <1>6. ASSUME NEW r \in PayRequests, Charge(r) PROVE TypeOK'
    BY <1>6 DEF Charge, SendCharge, ReceiveResult, ChargeError, ChargeReturns,
                TypeOK, Goto, tables
  <1>7. ASSUME NEW r \in PayRequests, PspDecide(r) PROVE TypeOK'
    BY <1>7 DEF PspDecide, TypeOK, handlers, tables
  <1>8. ASSUME NEW r \in PayRequests, MarkAttempt(r) PROVE TypeOK'
    BY <1>8, RefuseTypeOK, ContinueTypeOK DEF MarkAttempt
  <1>9. ASSUME NEW r \in PayRequests, MarkInvoicePaid(r) PROVE TypeOK'
    BY <1>9, RefuseTypeOK, ContinueTypeOK DEF MarkInvoicePaid
  <1>10. ASSUME NEW r \in PayRequests, ListEndpoints(r) PROVE TypeOK'
    BY <1>10 DEF ListEndpoints, ActiveEndpoints, TypeOK, Goto, tables
  <1>11. ASSUME NEW r \in PayRequests, InsertDeliveries(r) PROVE TypeOK'
    BY <1>11, ContinueTypeOK DEF InsertDeliveries
  <1>12. ASSUME NEW r \in PayRequests, CompleteIdempotencyKey(r) PROVE TypeOK'
    <2>1. CASE idem[r] # "PROCESSING"
      BY <1>12, <2>1, RefuseTypeOK DEF CompleteIdempotencyKey
    <2>2. CASE idem[r] = "PROCESSING"
      <3>1. InvoiceAfter(r) \in InvoiceState
        BY InputsAssumption DEF InvoiceAfter, TypeOK, InvoiceState, PayInput
      <3>2. DeliveriesOf(r) \subseteq
              [event : {"PAID", "PAYMENT_FAILED"}, attempt : PayRequests, endpoint : Endpoints]
        BY DEF DeliveriesOf, EventType, TypeOK
      <3>3. AttemptStatus(outcome[r]) \in {"SUCCEEDED", "FAILED", "UNKNOWN"}
        BY DEF AttemptStatus
      <3>4. ResponseCode(outcome[r]) \in FinalCode
        BY DEF ResponseCode, FinalCode
      <3>5. QED
        BY <1>12, <2>2, <3>1, <3>2, <3>3, <3>4 DEF CompleteIdempotencyKey, TypeOK, Goto
    <2>3. QED
      BY <2>1, <2>2
  <1>13. ASSUME NEW r \in PayRequests, AnswerClient(r) PROVE TypeOK'
    <2>1. ResponseCode(outcome[r]) \in FinalCode
      BY DEF ResponseCode, FinalCode
    <2>2. QED
      BY <1>13, <2>1 DEF AnswerClient, Answer, Goto, tables, TypeOK
  <1>14. ASSUME NEW r \in PayRequests, Abort(r) \/ DeadlockVictim(r) PROVE TypeOK'
    BY <1>14, RefuseTypeOK DEF Abort, DeadlockVictim
  <1>15. ASSUME NEW v \in VoidRequests, Void(v) PROVE TypeOK'
    BY <1>15 DEF Void, VoidRead, VoidUpdate, TypeOK, tables, InvoiceState
  <1>16. CASE RegisterEndpoint
    BY <1>16 DEF RegisterEndpoint, TypeOK, handlers
  <1>17. CASE UNCHANGED vars
    BY <1>17 DEF TypeOK, vars, handlers, tables
  <1>18. QED
    BY <1>1, <1>2, <1>3, <1>4, <1>5, <1>6, <1>7, <1>8, <1>9, <1>10, <1>11, <1>12,
       <1>13, <1>14, <1>15, <1>16, <1>17
       DEF Next, Serve, Claim, Finalize, Quiescent

\* Every variable of the payment path stays in its type in every execution.
THEOREM TypeCorrect == Spec => []TypeOK
  <1>1. QED
    BY InitTypeOK, StepTypeOK, PTL DEF Spec

(***************************************************************************)
(* The parts of IInv, one lemma for each: what a step does to it.          *)
(***************************************************************************)
\* Requests stay in step with their attempts, their keys and the provider.
LEMMA StepRequestInv ==
  TypeOK /\ RequestInv /\ LockInv /\ [Next]_vars => RequestInv'
  <1> SUFFICES ASSUME TypeOK, RequestInv, LockInv, [Next]_vars PROVE RequestInv'
    OBVIOUS
  <1> USE DEF ClaimPc, FinalizePc, Owns
  <1>r. ASSUME NEW r \in PayRequests, NEW code, Refuse(r, code) PROVE RequestInv'
    BY <1>r DEF RequestInv, TypeOK, Refuse, Answer, Goto, tables
  <1>1. ASSUME NEW r \in PayRequests, Receive(r) PROVE RequestInv'
    BY <1>1, <1>r DEF Receive, Continue, Goto, tables, RequestInv, TypeOK
  <1>2. ASSUME NEW r \in PayRequests, GetIdempotencyKey(r) PROVE RequestInv'
    <2>1. ASSUME NEW s, Answer(r, saved[s], s),
                 UNCHANGED <<input, outcome, queued, vpc, target, tables, psp>>
          PROVE  RequestInv'
      BY <2>1 DEF RequestInv, TypeOK, Answer, Goto, tables
    <2>2. ASSUME Continue(r, "lockInvoice"), pc[r] = "getKey" PROVE RequestInv'
      BY <2>2 DEF Continue, Goto, tables, RequestInv, TypeOK
    <2>3. QED
      BY <1>2, <1>r, <2>1, <2>2 DEF GetIdempotencyKey
  <1>3. ASSUME NEW r \in PayRequests, GetInvoiceForPayment(r) PROVE RequestInv'
    BY <1>3, <1>r DEF GetInvoiceForPayment, Continue, Goto, tables, RequestInv, TypeOK
  <1>4. ASSUME NEW r \in PayRequests, CreateIdempotencyKey(r) PROVE RequestInv'
    BY <1>4, <1>r DEF CreateIdempotencyKey, Continue, Goto, tables, RequestInv, TypeOK
  <1>5. ASSUME NEW r \in PayRequests, CreatePaymentAttempt(r) PROVE RequestInv'
    <2>1. CASE HasUnresolved(r)
      BY <1>5, <2>1, <1>r DEF CreatePaymentAttempt
    <2>2. CASE ~HasUnresolved(r)
      <3>1. Owns(r)
        BY <1>5 DEF CreatePaymentAttempt, LockInv, LockHeld
      <3>2. QED
        BY <1>5, <2>2, <3>1 DEF CreatePaymentAttempt, Goto, RequestInv, TypeOK
    <2>3. QED
      BY <2>1, <2>2
  <1>6. ASSUME NEW r \in PayRequests, Charge(r) PROVE RequestInv'
    BY <1>6 DEF Charge, SendCharge, ReceiveResult, ChargeError, ChargeReturns,
                Goto, tables, RequestInv, TypeOK
  <1>7. ASSUME NEW r \in PayRequests, PspDecide(r) PROVE RequestInv'
    BY <1>7 DEF PspDecide, handlers, tables, RequestInv, TypeOK
  <1>8. ASSUME NEW r \in PayRequests, MarkAttempt(r) PROVE RequestInv'
    BY <1>8, <1>r DEF MarkAttempt, Continue, Goto, tables, RequestInv, TypeOK
  <1>9. ASSUME NEW r \in PayRequests, MarkInvoicePaid(r) PROVE RequestInv'
    BY <1>9, <1>r DEF MarkInvoicePaid, Continue, Goto, tables, RequestInv, TypeOK
  <1>10. ASSUME NEW r \in PayRequests, ListEndpoints(r) PROVE RequestInv'
    BY <1>10 DEF ListEndpoints, Goto, tables, RequestInv, TypeOK
  <1>11. ASSUME NEW r \in PayRequests, InsertDeliveries(r) PROVE RequestInv'
    BY <1>11 DEF InsertDeliveries, Continue, Goto, tables, RequestInv, TypeOK
  <1>12. ASSUME NEW r \in PayRequests, CompleteIdempotencyKey(r) PROVE RequestInv'
    <2>1. CASE idem[r] # "PROCESSING"
      BY <1>12, <2>1, <1>r DEF CompleteIdempotencyKey
    <2>2. CASE idem[r] = "PROCESSING"
      BY <1>12, <2>2 DEF CompleteIdempotencyKey, Goto, AttemptStatus, ResponseCode,
                         RequestInv, TypeOK
    <2>3. QED
      BY <2>1, <2>2
  <1>13. ASSUME NEW r \in PayRequests, AnswerClient(r) PROVE RequestInv'
    BY <1>13 DEF AnswerClient, Answer, Goto, tables, RequestInv, TypeOK
  <1>14. ASSUME NEW r \in PayRequests, Abort(r) \/ DeadlockVictim(r) PROVE RequestInv'
    BY <1>14, <1>r DEF Abort, DeadlockVictim
  <1>15. ASSUME NEW v \in VoidRequests, Void(v) PROVE RequestInv'
    BY <1>15 DEF Void, VoidRead, VoidUpdate, tables, RequestInv
  <1>16. CASE RegisterEndpoint
    BY <1>16 DEF RegisterEndpoint, handlers, RequestInv
  <1>17. CASE UNCHANGED vars
    BY <1>17 DEF vars, handlers, tables, RequestInv
  <1>18. QED
    BY <1>1, <1>2, <1>3, <1>4, <1>5, <1>6, <1>7, <1>8, <1>9, <1>10, <1>11, <1>12,
       <1>13, <1>14, <1>15, <1>16, <1>17
       DEF Next, Serve, Claim, Finalize, Quiescent

\* A request that moves on its own leaves the locks of all others as they are, so
\* only what it now holds matters: it must be free of conflict, and, if it is a
\* lock against writers, held on an open invoice of the business.
LEMMA LockFrame ==
  ASSUME TypeOK, LockInv, NEW r \in PayRequests,
         \A s \in PayRequests \ {r} :
             pc'[s] = pc[s] /\ outcome'[s] = outcome[s] /\ queued'[s] = queued[s],
         UNCHANGED <<input, invoice>>,
         LockHeld(r)' # "none" =>
             \A s \in PayRequests \ {r} : SameInvoice(r, s) =>
                 ~Conflicting(LockHeld(s), LockHeld(r)'),
         LockHeld(r)' \in {"update", "noKeyUpdate"} =>
             Owns(r) /\ invoice[input[r].invoice] = "OPEN"
  PROVE  LockInv'
  <1>1. \A s \in PayRequests \ {r} : LockHeld(s)' = LockHeld(s)
    BY DEF LockHeld
  <1>2. \A s \in PayRequests : (LockHeld(s) \in {"update", "noKeyUpdate"})' =>
           (Owns(s) /\ invoice[input[s].invoice] = "OPEN")'
    BY <1>1 DEF LockInv, Owns
  <1>3. ASSUME NEW q \in PayRequests, NEW s \in PayRequests, q # s, SameInvoice(q, s)'
        PROVE  ~Conflicting(LockHeld(q)', LockHeld(s)')
    <2>1. SameInvoice(q, s) /\ SameInvoice(s, q)
      BY <1>3 DEF SameInvoice
    <2>2. CASE q = r
      BY <1>1, <1>3, <2>1, <2>2 DEF Conflicting
    <2>3. CASE s = r
      BY <1>1, <1>3, <2>1, <2>3 DEF Conflicting
    <2>4. CASE q # r /\ s # r
      BY <1>1, <1>3, <2>1, <2>4 DEF LockInv
    <2>5. QED
      BY <2>2, <2>3, <2>4
  <1>4. QED
    BY <1>2, <1>3 DEF LockInv, Conflicting

\* A lock is only given when it conflicts with none held, and kept until the
\* transaction ends; no one changes a row that is locked against writers.
LEMMA StepLockInv ==
  TypeOK /\ RequestInv /\ LockInv /\ [Next]_vars => LockInv'
  <1> SUFFICES ASSUME TypeOK, RequestInv, LockInv, [Next]_vars PROVE LockInv'
    OBVIOUS
  <1> USE DEF ClaimPc, FinalizePc
  <1>r. ASSUME NEW r \in PayRequests, NEW code, Refuse(r, code) PROVE LockInv'
    BY <1>r, LockFrame DEF Refuse, Answer, Goto, tables, LockHeld, TypeOK
  \* Keeping the lock held so far, or holding none.
  <1>k. ASSUME NEW r \in PayRequests,
               LockHeld(r)' \in {"none", LockHeld(r)},
               \A s \in PayRequests \ {r} :
                   pc'[s] = pc[s] /\ outcome'[s] = outcome[s] /\ queued'[s] = queued[s],
               UNCHANGED <<input, invoice>>
        PROVE  LockInv'
    <2>1. \A s \in PayRequests \ {r} :
              SameInvoice(r, s) => ~Conflicting(LockHeld(s), LockHeld(r))
      BY DEF LockInv, Conflicting
    <2>2. QED
      BY <1>k, <2>1, LockFrame DEF LockInv, Conflicting
  \* Being granted a lock.
  <1>g. ASSUME NEW r \in PayRequests, Granted(r), LockHeld(r)' = LockWanted(r),
               LockHeld(r)' \in {"update", "noKeyUpdate"} =>
                   Owns(r) /\ invoice[input[r].invoice] = "OPEN",
               \A s \in PayRequests \ {r} :
                   pc'[s] = pc[s] /\ outcome'[s] = outcome[s] /\ queued'[s] = queued[s],
               UNCHANGED <<input, invoice>>
        PROVE  LockInv'
    BY <1>g, LockFrame DEF Granted, WaitsFor
  <1>1. ASSUME NEW r \in PayRequests, Receive(r) PROVE LockInv'
    BY <1>1, <1>r, <1>k DEF Receive, Continue, Goto, tables, LockHeld, TypeOK
  <1>2. ASSUME NEW r \in PayRequests, GetIdempotencyKey(r) PROVE LockInv'
    <2>1. ASSUME NEW s, Answer(r, saved[s], s),
                 UNCHANGED <<input, outcome, queued, vpc, target, tables, psp>>
          PROVE  LockInv'
      BY <2>1, <1>k DEF Answer, Goto, tables, LockHeld, TypeOK
    <2>2. ASSUME Continue(r, "lockInvoice") PROVE LockInv'
      BY <2>2, <1>k DEF Continue, Goto, tables, LockHeld, TypeOK
    <2>3. QED
      BY <1>2, <1>r, <2>1, <2>2 DEF GetIdempotencyKey
  <1>3. ASSUME NEW r \in PayRequests, GetInvoiceForPayment(r) PROVE LockInv'
    <2>1. CASE Owns(r) /\ invoice[input[r].invoice] = "OPEN"
      BY <1>3, <2>1, <1>g
         DEF GetInvoiceForPayment, Continue, Goto, tables, LockHeld, LockWanted, TypeOK
    <2>2. CASE ~(Owns(r) /\ invoice[input[r].invoice] = "OPEN")
      BY <1>3, <2>2, <1>r DEF GetInvoiceForPayment
    <2>3. QED
      BY <2>1, <2>2
  <1>4. ASSUME NEW r \in PayRequests, CreateIdempotencyKey(r) PROVE LockInv'
    BY <1>4, <1>r, <1>k DEF CreateIdempotencyKey, Continue, Goto, tables, LockHeld, TypeOK
  <1>5. ASSUME NEW r \in PayRequests, CreatePaymentAttempt(r) PROVE LockInv'
    BY <1>5, <1>r, <1>k DEF CreatePaymentAttempt, Goto, LockHeld, TypeOK
  <1>6. ASSUME NEW r \in PayRequests, Charge(r) PROVE LockInv'
    BY <1>6, <1>k DEF Charge, SendCharge, ReceiveResult, ChargeError, ChargeReturns,
                      Goto, tables, LockHeld, TypeOK
  <1>7. ASSUME NEW r \in PayRequests, PspDecide(r) PROVE LockInv'
    BY <1>7, <1>k DEF PspDecide, handlers, tables, LockHeld
  <1>8. ASSUME NEW r \in PayRequests, MarkAttempt(r) PROVE LockInv'
    <2>1. ASSUME Continue(r, "payInvoice") PROVE LockInv'
      BY <2>1, <1>k DEF Continue, Goto, tables, LockHeld, TypeOK
    <2>2. ASSUME outcome[r] = "failed", Continue(r, "list") PROVE LockInv'
      BY <2>2, <1>k DEF Continue, Goto, tables, LockHeld, TypeOK
    <2>3. ASSUME outcome[r] = "error", Continue(r, "complete") PROVE LockInv'
      BY <2>3, <1>k DEF Continue, Goto, tables, LockHeld, TypeOK
    <2>4. QED
      BY <1>8, <1>r, <2>1, <2>2, <2>3 DEF MarkAttempt
  <1>9. ASSUME NEW r \in PayRequests, MarkInvoicePaid(r) PROVE LockInv'
    <2>1. CASE Owns(r) /\ invoice[input[r].invoice] = "OPEN"
      <3>1. outcome[r] = "succeeded"
        BY <1>9 DEF MarkInvoicePaid, RequestInv
      <3>2. QED
        BY <1>9, <2>1, <3>1, <1>g
           DEF MarkInvoicePaid, Continue, Goto, tables, LockHeld, LockWanted, TypeOK
    <2>2. CASE ~(Owns(r) /\ invoice[input[r].invoice] = "OPEN")
      BY <1>9, <2>2, <1>r DEF MarkInvoicePaid
    <2>3. QED
      BY <2>1, <2>2
  <1>10. ASSUME NEW r \in PayRequests, ListEndpoints(r) PROVE LockInv'
    BY <1>10, <1>k DEF ListEndpoints, Goto, tables, LockHeld, TypeOK
  <1>11. ASSUME NEW r \in PayRequests, InsertDeliveries(r) PROVE LockInv'
    <2>1. CASE outcome[r] = "succeeded"
      BY <1>11, <2>1, <1>k DEF InsertDeliveries, Continue, Goto, tables, LockHeld, TypeOK
    <2>2. CASE outcome[r] # "succeeded"
      BY <1>11, <2>2, <1>g
         DEF InsertDeliveries, Continue, Goto, tables, LockHeld, LockWanted, TypeOK
    <2>3. QED
      BY <2>1, <2>2
  <1>12. ASSUME NEW r \in PayRequests, CompleteIdempotencyKey(r) PROVE LockInv'
    <2>1. CASE idem[r] # "PROCESSING"
      BY <1>12, <2>1, <1>r DEF CompleteIdempotencyKey
    <2>2. CASE idem[r] = "PROCESSING" /\ outcome[r] # "succeeded"
      <3>1. invoice' = invoice
        BY <1>12, <2>2 DEF CompleteIdempotencyKey, InvoiceAfter, TypeOK
      <3>2. QED
        BY <1>12, <2>2, <3>1, <1>k DEF CompleteIdempotencyKey, Goto, LockHeld, TypeOK
    <2>3. CASE idem[r] = "PROCESSING" /\ outcome[r] = "succeeded"
      <3>1. /\ LockHeld(r)' = "none"
            /\ \A s \in PayRequests \ {r} : LockHeld(s)' = LockHeld(s)
            /\ UNCHANGED input
        BY <1>12, <2>3 DEF CompleteIdempotencyKey, Goto, LockHeld, TypeOK
      <3>2. LockHeld(r) = "noKeyUpdate"
        BY <1>12, <2>3 DEF CompleteIdempotencyKey, LockHeld
      <3>3. \A s \in PayRequests \ {r} : SameInvoice(r, s) =>
               LockHeld(s) \notin {"update", "noKeyUpdate"}
        BY <3>2 DEF LockInv, Conflicting
      <3>4. \A i \in Invoices \ {input[r].invoice} : invoice'[i] = invoice[i]
        BY <1>12, <2>3 DEF CompleteIdempotencyKey, TypeOK
      <3>5. \A s \in PayRequests : input[s].invoice \in Invoices
        BY InputsAssumption DEF TypeOK, PayInput
      <3>6. \A s \in PayRequests : (LockHeld(s) \in {"update", "noKeyUpdate"})' =>
               (Owns(s) /\ invoice[input[s].invoice] = "OPEN")'
        BY <3>1, <3>3, <3>4, <3>5 DEF LockInv, Owns, SameInvoice
      <3>7. \A q, s \in PayRequests : (q # s /\ SameInvoice(q, s))' =>
               ~Conflicting(LockHeld(q)', LockHeld(s)')
        BY <3>1 DEF LockInv, SameInvoice, Conflicting
      <3>8. QED
        BY <3>6, <3>7 DEF LockInv, Conflicting
    <2>4. QED
      BY <2>1, <2>2, <2>3
  <1>13. ASSUME NEW r \in PayRequests, AnswerClient(r) PROVE LockInv'
    BY <1>13, <1>k DEF AnswerClient, Answer, Goto, tables, LockHeld, TypeOK
  <1>14. ASSUME NEW r \in PayRequests, Abort(r) \/ DeadlockVictim(r) PROVE LockInv'
    BY <1>14, <1>r DEF Abort, DeadlockVictim
  <1>15. ASSUME NEW v \in VoidRequests, VoidUpdate(v) PROVE LockInv'
    <2>1. /\ \A s \in PayRequests : LockHeld(s)' = LockHeld(s)
          /\ UNCHANGED input
      BY <1>15 DEF VoidUpdate, LockHeld
    <2>2. \A s \in PayRequests : input[s].invoice = target[v].invoice =>
             LockHeld(s) \notin {"update", "noKeyUpdate"}
      BY <1>15 DEF VoidUpdate, Conflicting
    <2>3. \A i \in Invoices \ {target[v].invoice} : invoice'[i] = invoice[i]
      BY <1>15 DEF VoidUpdate, TypeOK
    <2>4. \A s \in PayRequests : input[s].invoice \in Invoices
      BY InputsAssumption DEF TypeOK, PayInput
    <2>5. QED
      BY <2>1, <2>2, <2>3, <2>4 DEF LockInv, Owns, SameInvoice, Conflicting
  <1>16. ASSUME NEW v \in VoidRequests, VoidRead(v) PROVE LockInv'
    BY <1>16 DEF VoidRead, tables, LockInv, LockHeld, Owns, SameInvoice, Conflicting
  <1>17. CASE RegisterEndpoint
    BY <1>17 DEF RegisterEndpoint, handlers, LockInv, LockHeld, Owns, SameInvoice, Conflicting
  <1>18. CASE UNCHANGED vars
    BY <1>18 DEF vars, handlers, tables, LockInv, LockHeld, Owns, SameInvoice, Conflicting
  <1>19. QED
    BY <1>1, <1>2, <1>3, <1>4, <1>5, <1>6, <1>7, <1>8, <1>9, <1>10, <1>11, <1>12,
       <1>13, <1>14, <1>15, <1>16, <1>17, <1>18
       DEF Next, Serve, Claim, Finalize, Void, Quiescent

\* Only three statements write the ledger: the COMMIT of a claim, the COMMIT of a
\* finalization, and the UPDATE of a void.  No step changes a request's input.
LEMMA LedgerWriters ==
  ASSUME [Next]_vars
  PROVE  /\ UNCHANGED input
         /\ \/ UNCHANGED <<invoice, idem, saved, attempt, outbox>>
            \/ \E r \in PayRequests : CreatePaymentAttempt(r) /\ ~HasUnresolved(r)
            \/ \E r \in PayRequests : CompleteIdempotencyKey(r) /\ idem[r] = "PROCESSING"
            \/ \E v \in VoidRequests : VoidUpdate(v)
  <1> DEFINE Same == UNCHANGED <<input, invoice, idem, saved, attempt, outbox>>
  <1>r. ASSUME NEW r, NEW code, Refuse(r, code) PROVE Same
    BY <1>r DEF Refuse, tables
  <1>c. ASSUME NEW r, NEW label, Continue(r, label) PROVE Same
    BY <1>c DEF Continue, tables
  <1>1. ASSUME NEW r \in PayRequests, Receive(r) \/ Abort(r) \/ DeadlockVictim(r) PROVE Same
    BY <1>1, <1>r, <1>c DEF Receive, Abort, DeadlockVictim
  <1>2. ASSUME NEW r \in PayRequests, GetIdempotencyKey(r) PROVE Same
    BY <1>2, <1>r, <1>c DEF GetIdempotencyKey, tables
  <1>3. ASSUME NEW r \in PayRequests, GetInvoiceForPayment(r) PROVE Same
    BY <1>3, <1>r, <1>c DEF GetInvoiceForPayment
  <1>4. ASSUME NEW r \in PayRequests, CreateIdempotencyKey(r) PROVE Same
    BY <1>4, <1>r, <1>c DEF CreateIdempotencyKey
  <1>5. ASSUME NEW r \in PayRequests, CreatePaymentAttempt(r), HasUnresolved(r) PROVE Same
    BY <1>5, <1>r DEF CreatePaymentAttempt
  <1>6. ASSUME NEW r \in PayRequests, Charge(r) \/ PspDecide(r) PROVE Same
    BY <1>6 DEF Charge, SendCharge, ReceiveResult, ChargeError, ChargeReturns, PspDecide,
                handlers, tables
  <1>7. ASSUME NEW r \in PayRequests, MarkAttempt(r) PROVE Same
    BY <1>7, <1>r, <1>c DEF MarkAttempt
  <1>8. ASSUME NEW r \in PayRequests, MarkInvoicePaid(r) PROVE Same
    BY <1>8, <1>r, <1>c DEF MarkInvoicePaid
  <1>9. ASSUME NEW r \in PayRequests,
               ListEndpoints(r) \/ InsertDeliveries(r) \/ AnswerClient(r)
        PROVE  Same
    BY <1>9, <1>c DEF ListEndpoints, InsertDeliveries, AnswerClient, tables
  <1>10. ASSUME NEW r \in PayRequests, CompleteIdempotencyKey(r), idem[r] # "PROCESSING"
         PROVE  Same
    BY <1>10, <1>r DEF CompleteIdempotencyKey
  <1>11. ASSUME NEW v \in VoidRequests, VoidRead(v) PROVE Same
    BY <1>11 DEF VoidRead, tables
  <1>12. CASE RegisterEndpoint \/ UNCHANGED vars
    BY <1>12 DEF RegisterEndpoint, vars, handlers, tables
  <1>13. ASSUME NEW r \in PayRequests, CreatePaymentAttempt(r) PROVE UNCHANGED input
    BY <1>13 DEF CreatePaymentAttempt, Refuse
  <1>14. ASSUME NEW r \in PayRequests, CompleteIdempotencyKey(r) PROVE UNCHANGED input
    BY <1>14 DEF CompleteIdempotencyKey, Refuse
  <1>15. ASSUME NEW v \in VoidRequests, VoidUpdate(v) PROVE UNCHANGED input
    BY <1>15 DEF VoidUpdate
  <1>16. QED
    BY <1>1, <1>2, <1>3, <1>4, <1>5, <1>6, <1>7, <1>8, <1>9, <1>10, <1>11, <1>12,
       <1>13, <1>14, <1>15
       DEF Next, Serve, Claim, Finalize, Void, Quiescent

\* An invoice has at most one attempt that may have charged, and is paid exactly
\* when that attempt succeeded, but for a void.
LEMMA StepLedgerInv ==
  TypeOK /\ RequestInv /\ LockInv /\ LedgerInv /\ [Next]_vars => LedgerInv'
  <1> SUFFICES ASSUME TypeOK, RequestInv, LockInv, LedgerInv, [Next]_vars PROVE LedgerInv'
    OBVIOUS
  <1> USE DEF SameInvoice, Live, Unresolved
  <1>1. UNCHANGED input
    BY LedgerWriters
  <1>2. \A r \in PayRequests : input[r].invoice \in Invoices
    BY InputsAssumption DEF TypeOK, PayInput
  <1>3. CASE UNCHANGED <<invoice, idem, saved, attempt, outbox>>
    BY <1>1, <1>3 DEF LedgerInv
  <1>4. ASSUME NEW r \in PayRequests, CreatePaymentAttempt(r), ~HasUnresolved(r)
        PROVE  LedgerInv'
    <2>1. invoice[input[r].invoice] = "OPEN"
      BY <1>4 DEF CreatePaymentAttempt, LockInv, LockHeld
    <2>2. \A s \in PayRequests : SameInvoice(r, s) => ~Live(s)
      BY <1>4, <2>1 DEF HasUnresolved, LedgerInv
    <2>3. /\ invoice' = invoice
          /\ attempt' = [attempt EXCEPT ![r] = "PROCESSING"]
      BY <1>4 DEF CreatePaymentAttempt
    <2>4. attempt[r] = "NONE"
      BY <1>4 DEF CreatePaymentAttempt, RequestInv, ClaimPc
    <2>5. \A s \in PayRequests \ {r} : attempt'[s] = attempt[s]
      BY <2>3 DEF TypeOK
    <2>6. \A q, s \in PayRequests :
             (Live(q) /\ Live(s) /\ SameInvoice(q, s))' => q = s
      BY <1>1, <2>2, <2>5 DEF LedgerInv
    <2>7. \A s \in PayRequests : attempt'[s] = "SUCCEEDED" <=> attempt[s] = "SUCCEEDED"
      BY <2>3, <2>4, <2>5 DEF TypeOK
    <2>8. QED
      BY <1>1, <2>3, <2>6, <2>7 DEF LedgerInv
  <1>5. ASSUME NEW r \in PayRequests, CompleteIdempotencyKey(r), idem[r] = "PROCESSING"
        PROVE  LedgerInv'
    <2>1. /\ attempt[r] = "PROCESSING"
          /\ outcome[r] # "none"
          /\ pc[r] = "complete"
      BY <1>5 DEF CompleteIdempotencyKey, RequestInv, FinalizePc
    <2>2. /\ attempt' = [attempt EXCEPT ![r] = AttemptStatus(outcome[r])]
          /\ invoice' = [invoice EXCEPT ![input[r].invoice] = InvoiceAfter(r)]
      BY <1>5 DEF CompleteIdempotencyKey
    <2>3. \A q, s \in PayRequests :
             (Live(q) /\ Live(s) /\ SameInvoice(q, s))' => q = s
      BY <1>1, <2>1, <2>2 DEF LedgerInv, TypeOK
    <2>4. CASE outcome[r] = "succeeded"
      <3>1. /\ attempt'[r] = "SUCCEEDED"
            /\ \A s \in PayRequests \ {r} : attempt'[s] = attempt[s]
            /\ invoice'[input[r].invoice] = "PAID"
            /\ \A i \in Invoices \ {input[r].invoice} : invoice'[i] = invoice[i]
        BY <1>2, <2>2, <2>4 DEF AttemptStatus, InvoiceAfter, TypeOK
      <3>2. \A s \in PayRequests : attempt'[s] = "SUCCEEDED" =>
               invoice'[input[s].invoice] \in {"PAID", "VOID"}
        BY <1>2, <3>1 DEF LedgerInv
      <3>3. \A i \in Invoices : invoice'[i] = "PAID" =>
               \E s \in PayRequests : attempt'[s] = "SUCCEEDED" /\ input[s].invoice = i
        BY <2>1, <3>1 DEF LedgerInv
      <3>4. QED
        BY <1>1, <2>3, <3>2, <3>3 DEF LedgerInv
    <2>5. CASE outcome[r] # "succeeded"
      <3>1. invoice' = invoice
        BY <2>2, <2>5 DEF InvoiceAfter, TypeOK
      <3>2. \A s \in PayRequests : attempt'[s] = "SUCCEEDED" <=> attempt[s] = "SUCCEEDED"
        BY <2>1, <2>2, <2>5 DEF AttemptStatus, TypeOK
      <3>3. QED
        BY <1>1, <2>3, <3>1, <3>2 DEF LedgerInv
    <2>6. QED
      BY <2>4, <2>5
  <1>6. ASSUME NEW v \in VoidRequests, VoidUpdate(v) PROVE LedgerInv'
    BY <1>1, <1>2, <1>6 DEF VoidUpdate, LedgerInv, TypeOK
  <1>7. QED
    BY <1>3, <1>4, <1>5, <1>6, LedgerWriters

\* A key, committed or being inserted, belongs to one request.
LEMMA StepKeyInv ==
  TypeOK /\ RequestInv /\ KeyInv /\ [Next]_vars => KeyInv'
  <1> SUFFICES ASSUME TypeOK, RequestInv, KeyInv, [Next]_vars PROVE KeyInv'
    OBVIOUS
  <1> USE DEF SameKey, HasKey, KeyInserted
  <1>1. UNCHANGED input
    BY LedgerWriters
  <1>2. ASSUME \A s \in PayRequests : HasKey(s)' => HasKey(s) PROVE KeyInv'
    BY <1>1, <1>2 DEF KeyInv
  <1>r. ASSUME NEW r \in PayRequests, NEW code, Refuse(r, code) PROVE KeyInv'
    BY <1>r, <1>2 DEF Refuse, Answer, Goto, tables, TypeOK
  <1>c. ASSUME NEW r \in PayRequests, NEW label, label # "insertAttempt", Continue(r, label)
        PROVE  KeyInv'
    BY <1>c, <1>2 DEF Continue, Goto, tables, TypeOK
  <1>3. ASSUME NEW r \in PayRequests, CreateIdempotencyKey(r) PROVE KeyInv'
    <2>1. CASE KeyRows(r) # {}
      BY <1>3, <2>1, <1>r DEF CreateIdempotencyKey
    <2>2. CASE KeyRows(r) = {}
      <3>1. \A s \in PayRequests : r # s /\ SameKey(r, s) => ~HasKey(s)
        BY <1>3, <2>2 DEF CreateIdempotencyKey, Granted, WaitsFor, KeyRows
      <3>2. \A s \in PayRequests \ {r} : HasKey(s)' => HasKey(s)
        BY <1>3, <2>2 DEF CreateIdempotencyKey, Continue, Goto, tables, TypeOK
      <3>3. QED
        BY <1>1, <3>1, <3>2 DEF KeyInv
    <2>3. QED
      BY <2>1, <2>2
  <1>4. ASSUME NEW r \in PayRequests, CreatePaymentAttempt(r) PROVE KeyInv'
    BY <1>4, <1>r, <1>2 DEF CreatePaymentAttempt, Goto, TypeOK
  <1>5. ASSUME NEW r \in PayRequests, CompleteIdempotencyKey(r) PROVE KeyInv'
    BY <1>5, <1>r, <1>2 DEF CompleteIdempotencyKey, Goto, TypeOK
  <1>6. ASSUME NEW r \in PayRequests,
               Receive(r) \/ GetInvoiceForPayment(r) \/ MarkAttempt(r) \/ MarkInvoicePaid(r)
                 \/ InsertDeliveries(r) \/ Abort(r) \/ DeadlockVictim(r)
        PROVE  KeyInv'
    BY <1>6, <1>r, <1>c DEF Receive, GetInvoiceForPayment, MarkAttempt, MarkInvoicePaid,
                            InsertDeliveries, Abort, DeadlockVictim
  <1>7. ASSUME NEW r \in PayRequests, GetIdempotencyKey(r) PROVE KeyInv'
    <2>1. ASSUME NEW s, Answer(r, saved[s], s), UNCHANGED tables PROVE KeyInv'
      BY <2>1, <1>2 DEF Answer, Goto, tables, TypeOK
    <2>2. QED
      BY <1>7, <2>1, <1>r, <1>c DEF GetIdempotencyKey, tables
  <1>8. ASSUME NEW r \in PayRequests,
               Charge(r) \/ PspDecide(r) \/ ListEndpoints(r) \/ AnswerClient(r)
        PROVE  KeyInv'
    BY <1>8, <1>2 DEF Charge, SendCharge, ReceiveResult, ChargeError, ChargeReturns, PspDecide,
                      ListEndpoints, AnswerClient, Answer, Goto, handlers, tables, TypeOK
  <1>9. ASSUME NEW v \in VoidRequests, Void(v) PROVE KeyInv'
    BY <1>9, <1>2 DEF Void, VoidRead, VoidUpdate, tables
  <1>10. CASE RegisterEndpoint \/ UNCHANGED vars
    BY <1>10, <1>2 DEF RegisterEndpoint, vars, handlers, tables
  <1>11. QED
    BY <1>3, <1>4, <1>5, <1>6, <1>7, <1>8, <1>9, <1>10
       DEF Next, Serve, Claim, Finalize, Quiescent

\* What is stored under a completed key never changes, so what was answered from
\* it stays true.
LEMMA StoredAnswerStays ==
  ASSUME TypeOK, RequestInv, [Next]_vars, NEW a \in PayRequests, idem[a] = "COMPLETED"
  PROVE  idem'[a] = "COMPLETED" /\ saved'[a] = saved[a]
  <1>1. ASSUME NEW r \in PayRequests, CreatePaymentAttempt(r), ~HasUnresolved(r)
        PROVE  r # a /\ idem'[a] = idem[a] /\ saved' = saved
    BY <1>1 DEF CreatePaymentAttempt, RequestInv, ClaimPc, TypeOK
  <1>2. ASSUME NEW r \in PayRequests, CompleteIdempotencyKey(r), idem[r] = "PROCESSING"
        PROVE  r # a /\ idem'[a] = idem[a] /\ saved'[a] = saved[a]
    BY <1>2 DEF CompleteIdempotencyKey, TypeOK
  <1>3. ASSUME NEW v \in VoidRequests, VoidUpdate(v) PROVE UNCHANGED <<idem, saved>>
    BY <1>3 DEF VoidUpdate
  <1>4. QED
    BY <1>1, <1>2, <1>3, LedgerWriters

\* Every answered outcome is the stored one.
LEMMA StepReplyInv ==
  TypeOK /\ RequestInv /\ ReplyInv /\ [Next]_vars => ReplyInv'
  <1> SUFFICES ASSUME TypeOK, RequestInv, ReplyInv, [Next]_vars PROVE ReplyInv'
    OBVIOUS
  <1> USE DEF SameKey, Fingerprint
  <1>1. UNCHANGED input
    BY LedgerWriters
  <1>2. ASSUME NEW r \in PayRequests, NEW a \in PayRequests, reply'[r] = reply[r],
               reply[r].code \in FinalCode, reply[r].attempt = a
        PROVE  AnswerStored(r, a)'
    <2>1. AnswerStored(r, a)
      BY <1>2 DEF ReplyInv
    <2>2. idem'[a] = "COMPLETED" /\ saved'[a] = saved[a]
      BY <2>1, StoredAnswerStays DEF AnswerStored
    <2>3. QED
      BY <1>1, <1>2, <2>1, <2>2 DEF AnswerStored
  <1>3. ASSUME UNCHANGED reply PROVE ReplyInv'
    BY <1>2, <1>3 DEF ReplyInv
  <1>r. ASSUME NEW r \in PayRequests, NEW code \in ErrorCode, Refuse(r, code) PROVE ReplyInv'
    <2>1. \A s \in PayRequests \ {r} : reply'[s] = reply[s]
      BY <1>r DEF Refuse, Answer, TypeOK
    <2>2. reply'[r].code \notin FinalCode
      BY <1>r DEF Refuse, Answer, TypeOK, FinalCode, ErrorCode
    <2>3. QED
      BY <1>2, <2>1, <2>2 DEF ReplyInv
  <1>a. ASSUME NEW r \in PayRequests, NEW s \in PayRequests, NEW code, Answer(r, code, s),
               idem[s] = "COMPLETED", saved[s] = code, SameKey(r, s),
               Fingerprint(r) = Fingerprint(s)
        PROVE  ReplyInv'
    <2>1. \A q \in PayRequests \ {r} : reply'[q] = reply[q]
      BY <1>a DEF Answer, TypeOK
    <2>2. reply'[r] = [code |-> code, attempt |-> s]
      BY <1>a DEF Answer, TypeOK
    <2>3. idem'[s] = "COMPLETED" /\ saved'[s] = code
      BY <1>a, StoredAnswerStays
    <2>4. QED
      BY <1>1, <1>2, <1>a, <2>1, <2>2, <2>3 DEF ReplyInv, AnswerStored
  <1>4. ASSUME NEW r \in PayRequests, GetIdempotencyKey(r) PROVE ReplyInv'
    <2>1. ASSUME NEW label, Continue(r, label) PROVE ReplyInv'
      BY <2>1, <1>3 DEF Continue
    <2>2. ASSUME NEW s \in KeyRows(r), Fingerprint(s) = Fingerprint(r), idem[s] = "COMPLETED",
                 Answer(r, saved[s], s)
          PROVE  ReplyInv'
      BY <2>2, <1>a DEF KeyRows
    <2>3. QED
      BY <1>4, <1>r, <2>1, <2>2 DEF GetIdempotencyKey, ErrorCode
  <1>5. ASSUME NEW r \in PayRequests, AnswerClient(r) PROVE ReplyInv'
    <2>1. idem[r] = "COMPLETED" /\ saved[r] = ResponseCode(outcome[r])
      BY <1>5 DEF AnswerClient, RequestInv, AttemptStatus, ResponseCode
    <2>2. QED
      BY <1>5, <1>a, <2>1 DEF AnswerClient
  <1>6. ASSUME NEW r \in PayRequests,
               Receive(r) \/ GetInvoiceForPayment(r) \/ CreateIdempotencyKey(r)
                 \/ MarkAttempt(r) \/ MarkInvoicePaid(r) \/ InsertDeliveries(r)
                 \/ Abort(r) \/ DeadlockVictim(r)
        PROVE  ReplyInv'
    BY <1>6, <1>r, <1>3
       DEF Receive, GetInvoiceForPayment, CreateIdempotencyKey, MarkAttempt, MarkInvoicePaid,
           InsertDeliveries, Abort, DeadlockVictim, Continue, ErrorCode
  <1>7. ASSUME NEW r \in PayRequests, CreatePaymentAttempt(r) \/ CompleteIdempotencyKey(r)
        PROVE  ReplyInv'
    BY <1>7, <1>r, <1>3 DEF CreatePaymentAttempt, CompleteIdempotencyKey, ErrorCode
  <1>8. ASSUME NEW r \in PayRequests, Charge(r) \/ PspDecide(r) \/ ListEndpoints(r)
        PROVE  ReplyInv'
    BY <1>8, <1>3 DEF Charge, SendCharge, ReceiveResult, ChargeError, ChargeReturns, PspDecide,
                      ListEndpoints, handlers
  <1>9. ASSUME NEW v \in VoidRequests, Void(v) PROVE ReplyInv'
    BY <1>9, <1>3 DEF Void, VoidRead, VoidUpdate
  <1>10. CASE RegisterEndpoint \/ UNCHANGED vars
    BY <1>10, <1>3 DEF RegisterEndpoint, vars, handlers
  <1>11. QED
    BY <1>4, <1>5, <1>6, <1>7, <1>8, <1>9, <1>10
       DEF Next, Serve, Claim, Finalize, Quiescent

(***************************************************************************)
(* The invariant.                                                          *)
(***************************************************************************)
LEMMA InitPaymentInv == Init => PaymentInv
  <1> SUFFICES ASSUME Init PROVE PaymentInv
    OBVIOUS
  <1>1. TypeOK
    BY InitTypeOK
  <1>2. RequestInv
    BY DEF Init, RequestInv, ClaimPc, FinalizePc
  <1>3. LockInv
    BY DEF Init, LockInv, LockHeld, Conflicting
  <1>4. LedgerInv
    BY DEF Init, LedgerInv, Live, Unresolved
  <1>5. KeyInv
    BY DEF Init, KeyInv, HasKey, KeyInserted
  <1>6. ReplyInv
    BY DEF Init, ReplyInv, FinalCode
  <1>7. QED
    BY <1>1, <1>2, <1>3, <1>4, <1>5, <1>6 DEF PaymentInv

\* PaymentInv holds in every reachable state.
THEOREM PaymentInvariant == Spec => []PaymentInv
  <1>1. PaymentInv /\ [Next]_vars => PaymentInv'
    BY StepTypeOK, StepRequestInv, StepLockInv, StepLedgerInv, StepKeyInv, StepReplyInv
       DEF PaymentInv
  <1>2. QED
    BY InitPaymentInv, <1>1, PTL DEF Spec

(***************************************************************************)
(* The properties.                                                         *)
(***************************************************************************)
\* No two requests are ever both charged for one invoice.
THEOREM ChargedOnce == Spec => []NoDoubleCharge
  <1>1. PaymentInv => NoDoubleCharge
    <2> SUFFICES ASSUME PaymentInv, NEW r \in PayRequests, NEW s \in PayRequests,
                        psp[r] = "charged", psp[s] = "charged", SameInvoice(r, s)
                 PROVE  r = s
      BY DEF NoDoubleCharge
    <2>1. ASSUME NEW q \in PayRequests, psp[q] = "charged" PROVE Live(q)
      BY <2>1 DEF PaymentInv, TypeOK, RequestInv, Live, Unresolved
    <2>2. QED
      BY <2>1 DEF PaymentInv, LedgerInv
  <1>2. QED
    BY PaymentInvariant, <1>1, PTL

\* No two requests under one key of one business ever both reach the provider.
THEOREM KeyReachesProviderOnce == Spec => []KeyChargesOnce
  <1>1. PaymentInv => KeyChargesOnce
    BY DEF PaymentInv, KeyInv, HasKey, RequestInv, TypeOK, KeyChargesOnce
  <1>2. QED
    BY PaymentInvariant, <1>1, PTL

\* Every outcome answered is the state of the ledger and of the provider.
THEOREM AnswersAreTruthful == Spec => []AnswerIsTruthful
  <1>1. PaymentInv => AnswerIsTruthful
    <2> SUFFICES ASSUME PaymentInv, NEW r \in PayRequests, reply[r].code \in FinalCode
                 PROVE  LET a == reply[r].attempt IN
                        /\ reply[r].code = "ok" => attempt[a] = "SUCCEEDED" /\ psp[a] = "charged"
                        /\ reply[r].code = "declined" =>
                             attempt[a] = "FAILED" /\ psp[a] = "declined"
                        /\ reply[r].code = "accepted" => attempt[a] = "UNKNOWN"
      BY DEF AnswerIsTruthful, FinalCode
    <2> DEFINE a == reply[r].attempt
    <2>1. a \in PayRequests
      BY DEF PaymentInv, TypeOK
    <2>2. idem[a] = "COMPLETED" /\ saved[a] = reply[r].code
      BY <2>1 DEF PaymentInv, ReplyInv, AnswerStored
    <2>3. QED
      BY <2>1, <2>2 DEF PaymentInv, RequestInv, TypeOK
  <1>2. QED
    BY PaymentInvariant, <1>1, PTL

\* Every outcome answered under one key is the same.
THEOREM ReplaysAgree == Spec => []ReplayAgrees
  <1>1. PaymentInv => ReplayAgrees
    <2> SUFFICES ASSUME PaymentInv, NEW r \in PayRequests, NEW s \in PayRequests,
                        reply[r].code \in FinalCode, reply[s].code \in FinalCode, SameKey(r, s)
                 PROVE  reply[r] = reply[s] /\ input[r] = input[s]
      BY DEF ReplayAgrees
    <2> DEFINE a == reply[r].attempt
               b == reply[s].attempt
    <2>1. a \in PayRequests /\ b \in PayRequests
      BY DEF PaymentInv, TypeOK
    <2>2. /\ idem[a] = "COMPLETED" /\ saved[a] = reply[r].code
          /\ SameKey(r, a) /\ Fingerprint(r) = Fingerprint(a)
      BY <2>1 DEF PaymentInv, ReplyInv, AnswerStored
    <2>3. /\ idem[b] = "COMPLETED" /\ saved[b] = reply[s].code
          /\ SameKey(s, b) /\ Fingerprint(s) = Fingerprint(b)
      BY <2>1 DEF PaymentInv, ReplyInv, AnswerStored
    <2>4. a = b
      BY <2>1, <2>2, <2>3 DEF PaymentInv, KeyInv, HasKey, SameKey
    <2>5. reply[r] = reply[s]
      BY <2>2, <2>3, <2>4 DEF PaymentInv, TypeOK
    <2>6. input[r] \in PayInput /\ input[s] \in PayInput
      BY InputsAssumption DEF PaymentInv, TypeOK
    <2>7. input[r] = input[s]
      BY <2>2, <2>3, <2>4, <2>6 DEF SameKey, Fingerprint, PayInput
    <2>8. QED
      BY <2>5, <2>7
  <1>2. QED
    BY PaymentInvariant, <1>1, PTL

\* PAID invoices and SUCCEEDED attempts are matched one to one.
THEOREM PaidOnce == Spec => []PaidExactlyOnce
  <1>1. PaymentInv => PaidExactlyOnce
    BY DEF PaymentInv, LedgerInv, Live, PaidExactlyOnce
  <1>2. QED
    BY PaymentInvariant, <1>1, PTL

\* No step takes an invoice out of VOID.
THEOREM VoidStays == Spec => VoidIsTerminal
  <1> DEFINE Step == \A i \in Invoices : invoice[i] = "VOID" => invoice'[i] = "VOID"
  <1>1. PaymentInv /\ [Next]_vars => Step
    <2> SUFFICES ASSUME PaymentInv, [Next]_vars PROVE Step
      OBVIOUS
    <2>1. ASSUME NEW r \in PayRequests, CompleteIdempotencyKey(r), idem[r] = "PROCESSING"
          PROVE  Step
      <3>1. CASE outcome[r] = "succeeded"
        <4>1. invoice[input[r].invoice] = "OPEN"
          BY <2>1, <3>1 DEF CompleteIdempotencyKey, PaymentInv, LockInv, LockHeld
        <4>2. QED
          BY <2>1, <4>1 DEF CompleteIdempotencyKey, PaymentInv, TypeOK
      <3>2. CASE outcome[r] # "succeeded"
        BY <2>1, <3>2 DEF CompleteIdempotencyKey, InvoiceAfter, PaymentInv, TypeOK
      <3>3. QED
        BY <3>1, <3>2
    <2>2. ASSUME NEW r \in PayRequests, CreatePaymentAttempt(r), ~HasUnresolved(r) PROVE Step
      BY <2>2 DEF CreatePaymentAttempt
    <2>3. ASSUME NEW v \in VoidRequests, VoidUpdate(v) PROVE Step
      BY <2>3 DEF VoidUpdate, PaymentInv, TypeOK
    <2>4. QED
      BY <2>1, <2>2, <2>3, LedgerWriters
  <1>2. Step => [Step]_vars
    OBVIOUS
  <1>3. QED
    BY PaymentInvariant, <1>1, PTL DEF Spec, VoidIsTerminal

(***************************************************************************)
(* The outbox.                                                             *)
(***************************************************************************)
\* A finalization lists the endpoints of its business once, before it inserts.
LEMMA StepQueueInv ==
  PaymentInv /\ QueueInv /\ [Next]_vars => QueueInv'
  <1> SUFFICES ASSUME TypeOK, RequestInv, QueueInv, [Next]_vars PROVE QueueInv'
    BY DEF PaymentInv
  <1>r. ASSUME NEW r \in PayRequests, NEW code, Refuse(r, code) PROVE QueueInv'
    BY <1>r DEF Refuse, Answer, Goto, tables, QueueInv, TypeOK
  <1>1. ASSUME NEW r \in PayRequests, Receive(r) PROVE QueueInv'
    BY <1>1, <1>r DEF Receive, Continue, Goto, tables, QueueInv, TypeOK
  <1>2. ASSUME NEW r \in PayRequests, GetIdempotencyKey(r) PROVE QueueInv'
    <2>1. ASSUME NEW s, Answer(r, saved[s], s),
                 UNCHANGED <<input, outcome, queued, vpc, target, tables, psp>>
          PROVE  QueueInv'
      BY <2>1 DEF Answer, Goto, tables, QueueInv, TypeOK
    <2>2. ASSUME Continue(r, "lockInvoice"), pc[r] = "getKey" PROVE QueueInv'
      BY <2>2 DEF Continue, Goto, tables, QueueInv, TypeOK
    <2>3. QED
      BY <1>2, <1>r, <2>1, <2>2 DEF GetIdempotencyKey
  <1>3. ASSUME NEW r \in PayRequests, GetInvoiceForPayment(r) PROVE QueueInv'
    BY <1>3, <1>r DEF GetInvoiceForPayment, Continue, Goto, tables, QueueInv, TypeOK
  <1>4. ASSUME NEW r \in PayRequests, CreateIdempotencyKey(r) PROVE QueueInv'
    BY <1>4, <1>r DEF CreateIdempotencyKey, Continue, Goto, tables, QueueInv, TypeOK
  <1>5. ASSUME NEW r \in PayRequests, CreatePaymentAttempt(r) PROVE QueueInv'
    BY <1>5, <1>r DEF CreatePaymentAttempt, Goto, QueueInv, TypeOK
  <1>6. ASSUME NEW r \in PayRequests, Charge(r) \/ PspDecide(r) PROVE QueueInv'
    BY <1>6 DEF Charge, SendCharge, ReceiveResult, ChargeError, ChargeReturns, PspDecide,
                Goto, handlers, tables, QueueInv, TypeOK
  <1>7. ASSUME NEW r \in PayRequests, MarkAttempt(r) PROVE QueueInv'
    BY <1>7, <1>r DEF MarkAttempt, Continue, Goto, tables, QueueInv, TypeOK
  <1>8. ASSUME NEW r \in PayRequests, MarkInvoicePaid(r) PROVE QueueInv'
    BY <1>8, <1>r DEF MarkInvoicePaid, Continue, Goto, tables, QueueInv, TypeOK
  <1>9. ASSUME NEW r \in PayRequests, ListEndpoints(r) PROVE QueueInv'
    BY <1>9 DEF ListEndpoints, ActiveEndpoints, RequestInv, Goto, tables, QueueInv, TypeOK
  <1>10. ASSUME NEW r \in PayRequests, InsertDeliveries(r) PROVE QueueInv'
    BY <1>10 DEF InsertDeliveries, Continue, Goto, tables, QueueInv, TypeOK
  <1>11. ASSUME NEW r \in PayRequests, CompleteIdempotencyKey(r) PROVE QueueInv'
    BY <1>11, <1>r DEF CompleteIdempotencyKey, Goto, QueueInv, TypeOK
  <1>12. ASSUME NEW r \in PayRequests, AnswerClient(r) PROVE QueueInv'
    BY <1>12 DEF AnswerClient, Answer, Goto, tables, QueueInv, TypeOK
  <1>13. ASSUME NEW r \in PayRequests, Abort(r) \/ DeadlockVictim(r) PROVE QueueInv'
    BY <1>13, <1>r DEF Abort, DeadlockVictim
  <1>14. ASSUME NEW v \in VoidRequests, Void(v) PROVE QueueInv'
    BY <1>14 DEF Void, VoidRead, VoidUpdate, tables, QueueInv
  <1>15. CASE RegisterEndpoint \/ UNCHANGED vars
    BY <1>15 DEF RegisterEndpoint, vars, handlers, tables, QueueInv
  <1>16. QED
    BY <1>1, <1>2, <1>3, <1>4, <1>5, <1>6, <1>7, <1>8, <1>9, <1>10, <1>11, <1>12,
       <1>13, <1>14, <1>15
       DEF Next, Serve, Claim, Finalize, Quiescent

\* Rows are added by the commit that resolves their attempt, and that one stays.
LEMMA StepOutboxInv ==
  PaymentInv /\ QueueInv /\ OutboxInv /\ [Next]_vars => OutboxInv'
  <1> SUFFICES ASSUME PaymentInv, QueueInv, OutboxInv, [Next]_vars PROVE OutboxInv'
    OBVIOUS
  <1> USE DEF OutboxInv, OutboxMatchesAttempts
  <1>1. UNCHANGED input
    BY LedgerWriters
  <1>2. CASE UNCHANGED <<invoice, idem, saved, attempt, outbox>>
    BY <1>1, <1>2
  <1>3. ASSUME NEW r \in PayRequests, CreatePaymentAttempt(r), ~HasUnresolved(r)
        PROVE  OutboxInv'
    <2>1. attempt[r] = "NONE"
      BY <1>3 DEF CreatePaymentAttempt, PaymentInv, RequestInv, ClaimPc
    <2>2. outbox' = outbox /\ attempt' = [attempt EXCEPT ![r] = "PROCESSING"]
      BY <1>3 DEF CreatePaymentAttempt
    <2>3. QED
      BY <1>1, <2>1, <2>2 DEF PaymentInv, TypeOK
  <1>4. ASSUME NEW r \in PayRequests, CompleteIdempotencyKey(r), idem[r] = "PROCESSING"
        PROVE  OutboxInv'
    <2>1. /\ attempt[r] = "PROCESSING"
          /\ outcome[r] \in {"succeeded", "failed", "error"}
          /\ pc[r] = "complete"
          /\ Owns(r)
      BY <1>4 DEF CompleteIdempotencyKey, PaymentInv, RequestInv, FinalizePc, TypeOK
    <2>2. /\ attempt' = [attempt EXCEPT ![r] = AttemptStatus(outcome[r])]
          /\ outbox' = outbox \cup DeliveriesOf(r)
      BY <1>4 DEF CompleteIdempotencyKey
    <2>3. \A d \in outbox : d.attempt # r /\ d.attempt \in PayRequests
      BY <2>1 DEF PaymentInv, TypeOK
    <2>4. attempt'[r] = AttemptStatus(outcome[r])
          /\ \A s \in PayRequests \ {r} : attempt'[s] = attempt[s]
      BY <2>2 DEF PaymentInv, TypeOK
    <2>5. \A d \in DeliveriesOf(r) :
             /\ d.attempt = r
             /\ d.event = EventType(outcome[r])
             /\ d.endpoint \in queued[r]
      BY DEF DeliveriesOf
    <2>6. \A d \in outbox' :
             attempt'[d.attempt] = IF d.event = "PAID" THEN "SUCCEEDED" ELSE "FAILED"
      <3>1. ASSUME NEW d \in DeliveriesOf(r)
            PROVE  attempt'[d.attempt] = IF d.event = "PAID" THEN "SUCCEEDED" ELSE "FAILED"
        BY <2>4, <2>5 DEF QueueInv, AttemptStatus, EventType
      <3>2. QED
        BY <2>2, <2>3, <2>4, <3>1
    <2>7. ASSUME NEW s \in PayRequests, NEW e \in InitialEndpoints,
                 attempt'[s] \in {"SUCCEEDED", "FAILED"}, EndpointOwner[e] = input[s].business
          PROVE  \E d \in outbox' : d.attempt = s /\ d.endpoint = e
      <3>1. CASE s # r
        BY <2>2, <2>4, <2>7, <3>1
      <3>2. CASE s = r
        <4>1. e \in queued[r]
          BY <2>1, <2>4, <2>7, <3>2 DEF QueueInv, AttemptStatus
        <4>2. [event |-> EventType(outcome[r]), attempt |-> r, endpoint |-> e] \in DeliveriesOf(r)
          BY <4>1 DEF DeliveriesOf
        <4>3. QED
          BY <2>2, <3>2, <4>2
      <3>3. QED
        BY <3>1, <3>2
    <2>8. \A d \in outbox' :
             EndpointOwner[d.endpoint] = InvoiceOwner[input[d.attempt].invoice]
      BY <2>1, <2>2, <2>5 DEF QueueInv, Owns
    <2>9. QED
      BY <1>1, <2>6, <2>7, <2>8
  <1>5. ASSUME NEW v \in VoidRequests, VoidUpdate(v) PROVE OutboxInv'
    BY <1>1, <1>5 DEF VoidUpdate
  <1>6. QED
    BY <1>2, <1>3, <1>4, <1>5, LedgerWriters

\* The outbox invariant holds in every reachable state.
THEOREM OutboxInvariant == Spec => [](QueueInv /\ OutboxInv)
  <1>1. Init => QueueInv /\ OutboxInv
    BY DEF Init, QueueInv, OutboxInv, OutboxMatchesAttempts
  <1>2. QED
    BY PaymentInvariant, <1>1, StepQueueInv, StepOutboxInv, PTL DEF Spec

\* Deliveries and resolved attempts correspond.
THEOREM OutboxIsTransactional == Spec => []OutboxMatchesAttempts
  <1>1. OutboxInv => OutboxMatchesAttempts
    BY DEF OutboxInv
  <1>2. QED
    BY OutboxInvariant, <1>1, PTL

\* No charge and no webhook crosses from one business to another.
THEOREM TenantsAreIsolated == Spec => []TenantIsolation
  <1>1. PaymentInv /\ OutboxInv => TenantIsolation
    BY DEF PaymentInv, RequestInv, OutboxInv, TenantIsolation
  <1>2. QED
    BY PaymentInvariant, OutboxInvariant, <1>1, PTL

(***************************************************************************)
(* Waiting.                                                                *)
(***************************************************************************)
\* Who waits, and for whom: a claim at the key for a claim at the attempt, which waits
\* for a finalization of its invoice, which waits for a claim that locked the invoice.
LEMMA WaitKinds ==
  ASSUME PaymentInv, NEW r \in PayRequests, NEW s \in PayRequests, WaitsFor(r, s)
  PROVE  /\ pc[s] \in {"insertKey", "insertAttempt"} \/ AttemptMarked(s)
         /\ pc[r] = "insertKey" => pc[s] = "insertAttempt"
         /\ pc[r] = "insertAttempt" => AttemptMarked(s) /\ SameInvoice(r, s)
         /\ AttemptMarked(r) =>
              pc[s] \in {"insertKey", "insertAttempt"} /\ SameInvoice(r, s)
  <1>1. pc[s] \in {"insertKey", "insertAttempt"} \/ AttemptMarked(s)
    BY DEF WaitsFor, Conflicting, LockHeld, LockWanted, KeyInserted, AttemptMarked, FinalizePc
  <1>2. pc[r] = "insertKey" => pc[s] = "insertAttempt"
    BY DEF WaitsFor, Conflicting, LockWanted, KeyInserted
  <1>3. pc[r] = "insertAttempt" => AttemptMarked(s) /\ SameInvoice(r, s)
    BY DEF WaitsFor, Conflicting, LockWanted
  <1>4. ASSUME AttemptMarked(r)
        PROVE  pc[s] \in {"insertKey", "insertAttempt"} /\ SameInvoice(r, s)
    <2>1. pc[r] \in FinalizePc /\ r # s
      BY <1>4 DEF AttemptMarked, WaitsFor
    <2>2. SameInvoice(r, s) /\ Conflicting(LockHeld(s), LockWanted(r))
      BY <2>1 DEF WaitsFor, FinalizePc
    <2>3. CASE LockHeld(s) = "update"
      BY <2>2, <2>3 DEF LockHeld
    <2>4. CASE LockHeld(s) # "update"
      <3>1. LockHeld(s) = "noKeyUpdate"
        BY <2>1, <2>2, <2>4 DEF Conflicting, LockHeld, LockWanted, FinalizePc
      <3>2. pc[s] \in FinalizePc
        BY <3>1 DEF LockHeld, FinalizePc
      <3>3. Live(r) /\ Live(s)
        BY <2>1, <3>2 DEF Live, Unresolved, PaymentInv, RequestInv
      <3>4. QED
        BY <2>1, <2>2, <3>3 DEF PaymentInv, LedgerInv
    <2>5. QED
      BY <2>2, <2>3, <2>4
  <1>5. QED
    BY <1>1, <1>2, <1>3, <1>4

\* Every set of requests that wait for each other, of any size and over any invoices
\* and keys, contains a deadlock of two.
THEOREM DeadlocksArePairs == Spec => []StuckIsDetected
  <1>1. PaymentInv => StuckIsDetected
    <2> SUFFICES ASSUME PaymentInv, NEW C \in SUBSET PayRequests, C # {},
                        \A r \in C : \E s \in C : WaitsFor(r, s)
                 PROVE  \E r \in C : DeadlockDetected(r)
      BY DEF StuckIsDetected
    <2>1. \E a \in C : pc[a] = "insertAttempt"
      <3>1. ASSUME NEW r \in C, pc[r] = "insertKey" PROVE \E a \in C : pc[a] = "insertAttempt"
        BY <3>1, WaitKinds
      <3>2. ASSUME NEW r \in C, AttemptMarked(r) PROVE \E a \in C : pc[a] = "insertAttempt"
        BY <3>1, <3>2, WaitKinds
      <3>3. PICK r \in C : TRUE
        OBVIOUS
      <3>4. PICK s \in C : WaitsFor(r, s)
        BY <3>3
      <3>5. QED
        BY <3>1, <3>2, <3>4, WaitKinds
    <2>2. PICK a \in C : pc[a] = "insertAttempt"
      BY <2>1
    <2>3. PICK f \in C : WaitsFor(a, f)
      BY <2>2
    <2>4. AttemptMarked(f) /\ SameInvoice(a, f)
      BY <2>2, <2>3, WaitKinds
    <2>5. PICK u \in C : WaitsFor(f, u)
      BY <2>3
    <2>6. pc[u] \in {"insertKey", "insertAttempt"} /\ SameInvoice(f, u)
      BY <2>4, <2>5, WaitKinds
    <2>7. u = a
      <3>1. LockHeld(a) = "update" /\ LockHeld(u) = "update"
        BY <2>2, <2>6 DEF LockHeld
      <3>2. SameInvoice(a, u)
        BY <2>4, <2>6 DEF SameInvoice
      <3>3. QED
        BY <3>1, <3>2 DEF PaymentInv, LockInv, Conflicting
    <2>8. QED
      BY <2>3, <2>5, <2>7 DEF DeadlockDetected
  <1>2. QED
    BY PaymentInvariant, <1>1, PTL
=============================================================================
