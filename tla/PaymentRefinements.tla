------------------------ MODULE PaymentRefinements ------------------------
(***************************************************************************)
(* What implements what.  Payment implements PaymentLedger: every step is  *)
(* a step of the ledger or leaves everything the ledger speaks of alone.   *)
(* PaymentDelivery implements Payment: the workers leave the payments as   *)
(* they are, and deliver nothing but what a payment has committed.  All    *)
(* for any sets of requests, invoices, keys, endpoints and workers.        *)
(***************************************************************************)
EXTENDS PaymentDelivery, PaymentProofs

(***************************************************************************)
(* The ledger.                                                             *)
(***************************************************************************)
\* A request that is not done has told nobody anything.
ReplyPending ==
    \A r \in PayRequests : pc[r] # "done" => reply[r] = [code |-> "none", attempt |-> r]

LedgerMapInv == PaymentInv /\ QueueInv /\ ReplyPending

LEMMA StepReplyPending == TypeOK /\ ReplyPending /\ [Next]_vars => ReplyPending'
  <1> SUFFICES ASSUME TypeOK, ReplyPending, [Next]_vars PROVE ReplyPending'
    OBVIOUS
  <1>a. ASSUME NEW r \in PayRequests, NEW code, NEW a, Answer(r, code, a) PROVE ReplyPending'
    BY <1>a DEF Answer, Goto, TypeOK, ReplyPending
  <1>r. ASSUME NEW r \in PayRequests, NEW code, Refuse(r, code) PROVE ReplyPending'
    BY <1>r, <1>a DEF Refuse
  <1>g. ASSUME NEW r \in PayRequests, NEW label, Goto(r, label), pc[r] # "done", UNCHANGED reply
        PROVE  ReplyPending'
    BY <1>g DEF Goto, TypeOK, ReplyPending
  <1>c. ASSUME NEW r \in PayRequests, NEW label, Continue(r, label), pc[r] # "done"
        PROVE  ReplyPending'
    BY <1>c, <1>g DEF Continue
  <1>1. ASSUME NEW r \in PayRequests, Receive(r) PROVE ReplyPending'
    BY <1>1, <1>r, <1>c DEF Receive
  <1>2. ASSUME NEW r \in PayRequests, Claim(r) PROVE ReplyPending'
    <2>1. CASE GetIdempotencyKey(r)
      BY <2>1, <1>r, <1>c, <1>a DEF GetIdempotencyKey
    <2>2. CASE GetInvoiceForPayment(r)
      BY <2>2, <1>r, <1>c DEF GetInvoiceForPayment
    <2>3. CASE CreateIdempotencyKey(r)
      BY <2>3, <1>r, <1>c DEF CreateIdempotencyKey
    <2>4. CASE CreatePaymentAttempt(r)
      BY <2>4, <1>r, <1>g DEF CreatePaymentAttempt
    <2>5. QED
      BY <1>2, <2>1, <2>2, <2>3, <2>4 DEF Claim
  <1>3. ASSUME NEW r \in PayRequests, Charge(r) PROVE ReplyPending'
    BY <1>3, <1>g DEF Charge, SendCharge, ReceiveResult, ChargeError, ChargeReturns
  <1>4. ASSUME NEW r \in PayRequests, Finalize(r) PROVE ReplyPending'
    <2>1. CASE MarkAttempt(r)
      BY <2>1, <1>r, <1>c DEF MarkAttempt
    <2>2. CASE MarkInvoicePaid(r)
      BY <2>2, <1>r, <1>c DEF MarkInvoicePaid
    <2>3. CASE ListEndpoints(r) \/ InsertDeliveries(r)
      BY <2>3, <1>g, <1>c DEF ListEndpoints, InsertDeliveries
    <2>4. CASE CompleteIdempotencyKey(r)
      BY <2>4, <1>r, <1>g DEF CompleteIdempotencyKey
    <2>5. CASE AnswerClient(r)
      BY <2>5, <1>a DEF AnswerClient
    <2>6. QED
      BY <1>4, <2>1, <2>2, <2>3, <2>4, <2>5 DEF Finalize
  <1>5. ASSUME NEW r \in PayRequests, Abort(r) \/ DeadlockVictim(r) PROVE ReplyPending'
    BY <1>5, <1>r DEF Abort, DeadlockVictim
  <1>6. ASSUME UNCHANGED <<pc, reply>> PROVE ReplyPending'
    BY <1>6 DEF ReplyPending
  <1>7. ASSUME NEW r \in PayRequests, PspDecide(r) PROVE ReplyPending'
    BY <1>7, <1>6 DEF PspDecide, handlers
  <1>8. ASSUME NEW v \in VoidRequests, Void(v) PROVE ReplyPending'
    BY <1>8, <1>6 DEF Void, VoidRead, VoidUpdate
  <1>9. CASE RegisterEndpoint \/ UNCHANGED vars
    BY <1>9, <1>6 DEF RegisterEndpoint, vars, handlers
  <1>10. QED
    BY <1>1, <1>2, <1>3, <1>4, <1>5, <1>7, <1>8, <1>9 DEF Next, Serve, Quiescent

THEOREM LedgerMapInvariant == Spec => []LedgerMapInv
  <1>1. Init => ReplyPending
    BY DEF Init, ReplyPending
  <1>2. PaymentInv => TypeOK
    BY DEF PaymentInv
  <1>3. Spec => []ReplyPending
    <2>1. PaymentInv /\ ReplyPending /\ [Next]_vars => ReplyPending'
      BY <1>2, StepReplyPending
    <2>2. QED
      BY <1>1, <2>1, PaymentInvariant, PTL DEF Spec
  <1>4. QED
    BY <1>3, PaymentInvariant, OutboxInvariant, PTL DEF LedgerMapInv

(***************************************************************************)
(* Steps the ledger does not see.                                          *)
(***************************************************************************)
LEMMA RefuseStutters ==
  ASSUME TypeOK, ReplyPending, NEW r \in PayRequests, NEW code \in ErrorCode,
         pc[r] # "done", Refuse(r, code)
  PROVE  UNCHANGED Ledger!vars
  <1>1. UNCHANGED <<input, invoice, attempt, psp, saved, outbox>>
    BY DEF Refuse, tables
  <1>2. MoneyMoved' = MoneyMoved
    BY <1>1 DEF MoneyMoved
  <1>3. ASSUME NEW x \in PayRequests PROVE OutcomeTold'[x] = OutcomeTold[x]
    <2>1. CASE x = r
      BY <2>1 DEF OutcomeTold, Refuse, Answer, ReplyPending, TypeOK, FinalCode, ErrorCode
    <2>2. CASE x # r
      BY <2>2 DEF OutcomeTold, Refuse, Answer, TypeOK
    <2>3. QED
      BY <2>1, <2>2
  <1>4. OutcomeTold' = OutcomeTold
    BY <1>3 DEF OutcomeTold
  <1>5. QED
    BY <1>1, <1>2, <1>4 DEF Ledger!vars

LEMMA QuietStutters ==
  ASSUME UNCHANGED <<input, reply, invoice, saved, attempt, outbox, psp>>
  PROVE  UNCHANGED Ledger!vars
  BY DEF Ledger!vars, MoneyMoved, OutcomeTold

LEMMA ContinueStutters ==
  ASSUME NEW r \in PayRequests, NEW label, Continue(r, label)
  PROVE  UNCHANGED Ledger!vars
  BY QuietStutters DEF Continue, tables

(***************************************************************************)
(* Steps of the ledger.                                                    *)
(***************************************************************************)
\* An answered outcome is the one stored for the very same payment.
LEMMA AnswerTells ==
  ASSUME TypeOK, ReplyPending, NEW r \in PayRequests, NEW q \in PayRequests,
         pc[r] # "done", Answer(r, saved[q], q), saved[q] \in FinalCode, input[r] = input[q],
         UNCHANGED <<input, invoice, attempt, psp, saved, outbox>>
  PROVE  Ledger!Tell(r)
  <1> DEFINE told == [code |-> saved[q], attempt |-> q]
  <1>1. OutcomeTold[r].code = "none"
    <2>1. reply[r] = [code |-> "none", attempt |-> r]
      BY DEF ReplyPending
    <2>2. reply[r].code \notin FinalCode
      BY <2>1 DEF FinalCode
    <2>3. OutcomeTold[r] = [code |-> "none", attempt |-> r]
      BY <2>2 DEF OutcomeTold
    <2>4. QED
      BY <2>3
  <1>2. reply' = [reply EXCEPT ![r] = told]
    BY DEF Answer
  <1>3. ASSUME NEW x \in PayRequests
        PROVE  OutcomeTold'[x] = [OutcomeTold EXCEPT ![r] = told][x]
    <2>1. CASE x = r
      BY <1>2, <2>1 DEF OutcomeTold, TypeOK
    <2>2. CASE x # r
      BY <1>2, <2>2 DEF OutcomeTold, TypeOK
    <2>3. QED
      BY <2>1, <2>2
  <1>4. OutcomeTold' = [OutcomeTold EXCEPT ![r] = told]
    BY <1>3 DEF OutcomeTold
  <1>5. MoneyMoved' = MoneyMoved
    BY DEF MoneyMoved
  <1>6. saved[q] # "none"
    BY DEF FinalCode
  <1>7. QED
    BY <1>1, <1>4, <1>5, <1>6 DEF Ledger!Tell

LEMMA ReplayTells ==
  ASSUME LedgerMapInv, NEW r \in PayRequests, NEW s \in PayRequests, pc[r] # "done",
         SameKey(r, s), Fingerprint(s) = Fingerprint(r), idem[s] = "COMPLETED",
         Answer(r, saved[s], s),
         UNCHANGED <<input, outcome, queued, vpc, target, tables, psp>>
  PROVE  Ledger!Tell(r)
  <1>1. saved[s] \in FinalCode
    BY DEF LedgerMapInv, PaymentInv, TypeOK, RequestInv, FinalCode
  <1>2. input[r] = input[s]
    <2>1. input[r] \in PayInput /\ input[s] \in PayInput
      BY InputsAssumption DEF LedgerMapInv, PaymentInv, TypeOK
    <2>2. QED
      BY <2>1 DEF SameKey, Fingerprint, PayInput
  <1>3. QED
    BY <1>1, <1>2, AnswerTells DEF LedgerMapInv, PaymentInv, tables

LEMMA AnswerClientTells ==
  ASSUME LedgerMapInv, NEW r \in PayRequests, AnswerClient(r)
  PROVE  Ledger!Tell(r)
  <1>1. saved[r] = ResponseCode(outcome[r]) /\ saved[r] \in FinalCode
    BY DEF LedgerMapInv, PaymentInv, TypeOK, RequestInv, AnswerClient, AttemptStatus,
           ResponseCode, FinalCode
  <1>2. QED
    BY <1>1, AnswerTells DEF LedgerMapInv, PaymentInv, AnswerClient, tables

\* What claim checked statement by statement is still true when it commits.
LEMMA ClaimBegins ==
  ASSUME LedgerMapInv, NEW r \in PayRequests, CreatePaymentAttempt(r), ~HasUnresolved(r)
  PROVE  Ledger!Begin(r)
  <1>1. pc[r] = "insertAttempt" /\ attempt[r] = "NONE"
    BY DEF CreatePaymentAttempt, LedgerMapInv, PaymentInv, RequestInv, ClaimPc
  <1>2. Owns(r) /\ invoice[input[r].invoice] = "OPEN"
    BY <1>1 DEF LedgerMapInv, PaymentInv, LockInv, LockHeld
  <1>3. ASSUME NEW q \in PayRequests, SameKey(r, q) PROVE attempt[q] = "NONE"
    <2>1. idem[r] = "NONE"
      BY <1>1 DEF LedgerMapInv, PaymentInv, RequestInv
    <2>2. idem[q] = "NONE"
      BY <1>1, <1>3, <2>1 DEF LedgerMapInv, PaymentInv, KeyInv, HasKey, KeyInserted
    <2>3. QED
      BY <2>2 DEF LedgerMapInv, PaymentInv, RequestInv, TypeOK
  <1>4. ASSUME NEW q \in PayRequests, SameInvoice(r, q) PROVE attempt[q] \in {"NONE", "FAILED"}
    <2>1. attempt[q] \notin Unresolved
      BY <1>4 DEF HasUnresolved, SameInvoice
    <2>2. attempt[q] # "SUCCEEDED"
      BY <1>2, <1>4 DEF LedgerMapInv, PaymentInv, LedgerInv, SameInvoice
    <2>3. QED
      BY <2>1, <2>2 DEF LedgerMapInv, PaymentInv, TypeOK, Unresolved
  <1>5. /\ attempt' = [attempt EXCEPT ![r] = "PROCESSING"]
        /\ UNCHANGED <<input, invoice, MoneyMoved, saved, OutcomeTold, outbox>>
    BY DEF CreatePaymentAttempt, MoneyMoved, OutcomeTold
  <1>6. QED
    BY <1>1, <1>2, <1>3, <1>4, <1>5
       DEF Ledger!Begin, Ledger!SameKey, Ledger!SameInvoice, SameKey, SameInvoice, Owns

LEMMA PspProvides ==
  ASSUME LedgerMapInv, NEW r \in PayRequests, PspDecide(r)
  PROVE  Ledger!Provide(r)
  <1>1. attempt[r] \in {"PROCESSING", "UNKNOWN"} /\ psp[r] = "sent"
    BY DEF PspDecide, LedgerMapInv, PaymentInv, RequestInv, TypeOK
  <1>2. PICK verdict \in {"charged", "declined"} : psp' = [psp EXCEPT ![r] = verdict]
    BY DEF PspDecide
  <1>3. MoneyMoved[r] = "none"
    BY <1>1 DEF MoneyMoved
  <1>4. MoneyMoved' = [MoneyMoved EXCEPT ![r] = verdict]
    <2>1. ASSUME NEW x \in PayRequests
          PROVE  MoneyMoved'[x] = [MoneyMoved EXCEPT ![r] = verdict][x]
      BY <1>2 DEF MoneyMoved, LedgerMapInv, PaymentInv, TypeOK
    <2>2. QED
      BY <2>1 DEF MoneyMoved
  <1>5. UNCHANGED <<input, invoice, attempt, saved, OutcomeTold, outbox>>
    BY DEF PspDecide, handlers, tables, OutcomeTold
  <1>6. QED
    BY <1>1, <1>3, <1>4, <1>5 DEF Ledger!Provide

\* The commit of a finalization settles the payment as the provider decided.
LEMMA FinalizationSettles ==
  ASSUME LedgerMapInv, NEW r \in PayRequests, CompleteIdempotencyKey(r), idem[r] = "PROCESSING"
  PROVE  Ledger!Succeed(r) \/ Ledger!Decline(r) \/ Ledger!GiveUp(r)
  <1>1. /\ pc[r] = "complete" /\ attempt[r] = "PROCESSING" /\ Owns(r)
        /\ outcome[r] \in {"succeeded", "failed", "error"}
    BY DEF CompleteIdempotencyKey, LedgerMapInv, PaymentInv, RequestInv, FinalizePc, TypeOK
  <1>2. /\ attempt' = [attempt EXCEPT ![r] = AttemptStatus(outcome[r])]
        /\ invoice' = [invoice EXCEPT ![input[r].invoice] = InvoiceAfter(r)]
        /\ outbox' = outbox \cup DeliveriesOf(r)
        /\ saved' = [saved EXCEPT ![r] = ResponseCode(outcome[r])]
        /\ UNCHANGED <<input, reply, psp>>
    BY DEF CompleteIdempotencyKey
  <1>3. UNCHANGED <<MoneyMoved, OutcomeTold>>
    BY <1>2 DEF MoneyMoved, OutcomeTold
  <1>4. ASSUME outcome[r] # "error"
        PROVE  Ledger!Announce(r, EventType(outcome[r]))
    <2>1. queued[r] \in SUBSET {e \in Endpoints : EndpointOwner[e] = input[r].business}
      BY DEF LedgerMapInv, QueueInv, PaymentInv, TypeOK
    <2>2. {e \in InitialEndpoints : EndpointOwner[e] = input[r].business} \subseteq queued[r]
      BY <1>1, <1>4 DEF LedgerMapInv, QueueInv
    <2>3. QED
      BY <1>2, <2>1, <2>2 DEF Ledger!Announce, DeliveriesOf
  <1>5. ASSUME outcome[r] # "succeeded" PROVE UNCHANGED invoice
    <2>1. input[r].invoice \in Invoices
      BY InputsAssumption DEF LedgerMapInv, PaymentInv, TypeOK, PayInput
    <2>2. QED
      BY <1>2, <1>5, <2>1 DEF InvoiceAfter, LedgerMapInv, PaymentInv, TypeOK
  <1>6. CASE outcome[r] = "succeeded"
    <2>1. MoneyMoved[r] = "charged"
      BY <1>6 DEF MoneyMoved, LedgerMapInv, PaymentInv, RequestInv
    <2>2. invoice[input[r].invoice] = "OPEN"
      BY <1>1, <1>6 DEF LedgerMapInv, PaymentInv, LockInv, LockHeld
    <2>3. QED
      BY <1>1, <1>2, <1>3, <1>4, <1>6, <2>1, <2>2
         DEF Ledger!Succeed, Ledger!Store, AttemptStatus, ResponseCode, InvoiceAfter, EventType
  <1>7. CASE outcome[r] = "failed"
    <2>1. MoneyMoved[r] = "declined"
      BY <1>7 DEF MoneyMoved, LedgerMapInv, PaymentInv, RequestInv
    <2>2. QED
      BY <1>1, <1>2, <1>3, <1>4, <1>5, <1>7, <2>1
         DEF Ledger!Decline, Ledger!Store, AttemptStatus, ResponseCode, EventType
  <1>8. CASE outcome[r] = "error"
    <2>1. queued[r] = {}
      BY <1>8 DEF LedgerMapInv, QueueInv
    <2>2. outbox' = outbox
      BY <1>2, <2>1 DEF DeliveriesOf
    <2>3. QED
      BY <1>1, <1>2, <1>3, <1>5, <1>8, <2>2
         DEF Ledger!GiveUp, Ledger!Store, AttemptStatus, ResponseCode
  <1>9. QED
    BY <1>1, <1>6, <1>7, <1>8

LEMMA VoidVoids ==
  ASSUME LedgerMapInv, NEW v \in VoidRequests, VoidUpdate(v)
  PROVE  \E i \in Invoices : Ledger!Void(i)
  <1>1. target[v].invoice \in Invoices
    BY InputsAssumption DEF LedgerMapInv, PaymentInv, TypeOK, VoidInput
  <1>2. UNCHANGED <<MoneyMoved, OutcomeTold>>
    BY DEF VoidUpdate, MoneyMoved, OutcomeTold
  <1>3. QED
    BY <1>1, <1>2 DEF VoidUpdate, Ledger!Void

(***************************************************************************)
(* The refinement.                                                         *)
(***************************************************************************)
LEMMA StepOfLedger ==
  LedgerMapInv /\ [Next]_vars => [Ledger!Next]_(Ledger!vars)
  <1> SUFFICES ASSUME LedgerMapInv, [Next]_vars
               PROVE  Ledger!Next \/ UNCHANGED Ledger!vars
    OBVIOUS
  <1>0. TypeOK /\ ReplyPending
    BY DEF LedgerMapInv, PaymentInv
  <1>r. ASSUME NEW r \in PayRequests, NEW code \in ErrorCode, pc[r] # "done", Refuse(r, code)
        PROVE  UNCHANGED Ledger!vars
    BY <1>0, <1>r, RefuseStutters
  <1> USE DEF ErrorCode
  <1>1. ASSUME NEW r \in PayRequests, Receive(r) PROVE UNCHANGED Ledger!vars
    BY <1>1, <1>r, ContinueStutters DEF Receive
  <1>2. ASSUME NEW r \in PayRequests, GetIdempotencyKey(r)
        PROVE  Ledger!Next \/ UNCHANGED Ledger!vars
    <2>1. ASSUME NEW s \in KeyRows(r), Fingerprint(s) = Fingerprint(r), idem[s] = "COMPLETED",
                 Answer(r, saved[s], s),
                 UNCHANGED <<input, outcome, queued, vpc, target, tables, psp>>
          PROVE  Ledger!Next
      <3>1. s \in PayRequests /\ SameKey(r, s) /\ pc[r] # "done"
        BY <1>2 DEF KeyRows, GetIdempotencyKey
      <3>2. Ledger!Tell(r)
        BY <2>1, <3>1, ReplayTells
      <3>3. QED
        BY <3>2 DEF Ledger!Next
    <2>2. QED
      BY <1>2, <1>r, <2>1, ContinueStutters DEF GetIdempotencyKey
  <1>3. ASSUME NEW r \in PayRequests, GetInvoiceForPayment(r) PROVE UNCHANGED Ledger!vars
    BY <1>3, <1>r, ContinueStutters DEF GetInvoiceForPayment
  <1>4. ASSUME NEW r \in PayRequests, CreateIdempotencyKey(r) PROVE UNCHANGED Ledger!vars
    BY <1>4, <1>r, ContinueStutters DEF CreateIdempotencyKey
  <1>5. ASSUME NEW r \in PayRequests, CreatePaymentAttempt(r)
        PROVE  Ledger!Next \/ UNCHANGED Ledger!vars
    <2>1. CASE HasUnresolved(r)
      BY <1>5, <1>r, <2>1 DEF CreatePaymentAttempt
    <2>2. CASE ~HasUnresolved(r)
      BY <1>5, <2>2, ClaimBegins DEF Ledger!Next
    <2>3. QED
      BY <2>1, <2>2
  <1>6. ASSUME NEW r \in PayRequests, SendCharge(r) PROVE UNCHANGED Ledger!vars
    <2>1. psp[r] = "none" /\ psp' = [psp EXCEPT ![r] = "sent"]
      BY <1>6 DEF SendCharge, LedgerMapInv, PaymentInv, RequestInv
    <2>2. ASSUME NEW x \in PayRequests PROVE MoneyMoved'[x] = MoneyMoved[x]
      BY <1>0, <2>1 DEF MoneyMoved, TypeOK
    <2>3. MoneyMoved' = MoneyMoved
      BY <2>2 DEF MoneyMoved
    <2>4. UNCHANGED <<input, reply, invoice, saved, attempt, outbox>>
      BY <1>6 DEF SendCharge, tables
    <2>5. QED
      BY <2>3, <2>4 DEF Ledger!vars, OutcomeTold
  <1>7. ASSUME NEW r \in PayRequests, ReceiveResult(r) \/ ChargeError(r)
        PROVE  UNCHANGED Ledger!vars
    BY <1>7, QuietStutters DEF ReceiveResult, ChargeError, ChargeReturns, tables
  <1>8. ASSUME NEW r \in PayRequests, PspDecide(r) PROVE Ledger!Next
    BY <1>8, PspProvides DEF Ledger!Next
  <1>9. ASSUME NEW r \in PayRequests, MarkAttempt(r) PROVE UNCHANGED Ledger!vars
    BY <1>9, <1>r, ContinueStutters DEF MarkAttempt
  <1>10. ASSUME NEW r \in PayRequests, MarkInvoicePaid(r) PROVE UNCHANGED Ledger!vars
    BY <1>10, <1>r, ContinueStutters DEF MarkInvoicePaid
  <1>11. ASSUME NEW r \in PayRequests, ListEndpoints(r) \/ InsertDeliveries(r)
         PROVE  UNCHANGED Ledger!vars
    BY <1>11, QuietStutters, ContinueStutters DEF ListEndpoints, InsertDeliveries, tables
  <1>12. ASSUME NEW r \in PayRequests, CompleteIdempotencyKey(r)
         PROVE  Ledger!Next \/ UNCHANGED Ledger!vars
    <2>1. CASE idem[r] # "PROCESSING"
      BY <1>12, <1>r, <2>1 DEF CompleteIdempotencyKey
    <2>2. CASE idem[r] = "PROCESSING"
      BY <1>12, <2>2, FinalizationSettles DEF Ledger!Next
    <2>3. QED
      BY <2>1, <2>2
  <1>13. ASSUME NEW r \in PayRequests, AnswerClient(r) PROVE Ledger!Next
    BY <1>13, AnswerClientTells DEF Ledger!Next
  <1>14. ASSUME NEW r \in PayRequests, Abort(r) \/ DeadlockVictim(r)
         PROVE  UNCHANGED Ledger!vars
    <2>1. CASE Abort(r)
      BY <2>1, <1>r DEF Abort
    <2>2. CASE DeadlockVictim(r)
      <3>1. pc[r] # "done"
        BY <2>2 DEF DeadlockVictim, DeadlockDetected, WaitsFor, LockWanted, Conflicting
      <3>2. QED
        BY <1>r, <2>2, <3>1 DEF DeadlockVictim
    <2>3. QED
      BY <1>14, <2>1, <2>2
  <1>15. ASSUME NEW v \in VoidRequests, Void(v)
         PROVE  Ledger!Next \/ UNCHANGED Ledger!vars
    <2>1. CASE VoidRead(v)
      BY <2>1, QuietStutters DEF VoidRead, tables
    <2>2. CASE VoidUpdate(v)
      BY <2>2, VoidVoids DEF Ledger!Next
    <2>3. QED
      BY <1>15, <2>1, <2>2 DEF Void
  <1>16. CASE RegisterEndpoint \/ UNCHANGED vars
    BY <1>16, QuietStutters DEF RegisterEndpoint, vars, handlers, tables
  <1>17. QED
    BY <1>1, <1>2, <1>3, <1>4, <1>5, <1>6, <1>7, <1>8, <1>9, <1>10, <1>11, <1>12, <1>13,
       <1>14, <1>15, <1>16
       DEF Next, Serve, Claim, Charge, Finalize, Quiescent

\* Paying, voiding, retrying and failing never do to an invoice, a payment, the
\* money, a stored or told outcome or the outbox what the ledger does not allow.
THEOREM PaymentImplementsLedger == Spec => ImplementsLedger
  <1>1. Init => Ledger!Init
    BY DEF Init, Ledger!Init, MoneyMoved, OutcomeTold, FinalCode
  <1>2. QED
    BY <1>1, StepOfLedger, LedgerMapInvariant, PTL DEF Spec, ImplementsLedger, Ledger!Spec

(***************************************************************************)
(* The payments of the pipeline.                                           *)
(***************************************************************************)
\* A step of the pipeline is a step of the payments, or invisible to them.
LEMMA StepOfPayments ==
    ASSUME [PipelineNext]_allVars
    PROVE  [Next]_vars
<1>1. ASSUME NEW r \in PayRequests, ServePayment(r) PROVE Next
  BY <1>1 DEF ServePayment, Next
<1>2. ASSUME NEW v \in VoidRequests, ServeVoid(v) PROVE Next
  BY <1>2 DEF ServeVoid, Next
<1>3. CASE Environment
  BY <1>3 DEF Environment, Next
<1>4. ASSUME NEW w \in Workers, Deliver(w) \/ DeliveryFault(w) PROVE UNCHANGED vars
  BY <1>4 DEF Deliver, DeliveryFault
<1>5. CASE TickDatabase \/ Settled \/ UNCHANGED allVars
  BY <1>5 DEF TickDatabase, Settled, Next, allVars
<1> QED
  BY <1>1, <1>2, <1>3, <1>4, <1>5 DEF PipelineNext

\* Payment, with the workers on its database, behaves as it does alone: all that is
\* proved of Payment holds of the pipeline.
THEOREM PipelineImplementsPayment == PipelineSpec => Spec
<1>1. PipelineInit => Init
  BY DEF PipelineInit
<1>2. [PipelineNext]_allVars => [Next]_vars
  BY StepOfPayments
<1> QED
  BY <1>1, <1>2, PTL DEF PipelineSpec, Spec

\* So what the ledger promises holds with the workers running.
COROLLARY PipelineImplementsLedger == PipelineSpec => ImplementsLedger
BY PipelineImplementsPayment, PaymentImplementsLedger, PTL

(***************************************************************************)
(* The deliveries of the pipeline.                                         *)
(***************************************************************************)
\* A worker has, and an endpoint has accepted, only what is in the outbox.
DeliveryInv ==
    /\ status = [d \in Deliveries |-> status[d]]
    /\ accepted = [d \in Deliveries |-> accepted[d]]
    /\ todo = [w \in Workers |-> todo[w]] /\ doing = [w \in Workers |-> doing[w]]
    /\ \A d \in Deliveries : status[d] # "ABSENT" => d \in outbox
    /\ \A d \in Deliveries : accepted[d] \in BOOLEAN /\ (accepted[d] => d \in outbox)
    /\ \A w \in Workers : \A c \in todo[w] \cup doing[w] : c.id \in outbox

\* A COMMIT makes PENDING the rows it adds.
LEMMA PublishStep == DeliveryInv /\ PublishDeliveries /\ outbox \subseteq outbox' => DeliveryInv'
<1> SUFFICES ASSUME DeliveryInv, PublishDeliveries, outbox \subseteq outbox' PROVE DeliveryInv'
  OBVIOUS
<1>1. \A d \in Deliveries : status'[d] # "ABSENT" => d \in outbox'
  BY DEF DeliveryInv, PublishDeliveries, NewDeliveries
<1>2. status' = [d \in Deliveries |-> status'[d]]
  BY DEF PublishDeliveries
<1> QED
  BY <1>1, <1>2 DEF DeliveryInv, PublishDeliveries

\* A worker claims what is there, posts what it claimed, and records what it posted.
LEMMA DeliverStep ==
    ASSUME TypeOK, DeliveryInv, NEW w \in Workers, Deliver(w)
    PROVE  DeliveryInv'
<1>1. outbox' = outbox /\ outbox \subseteq Deliveries
  BY DEF Deliver, vars, tables, TypeOK, Deliveries
<1>2. CASE W!Claim(w)
  <2>1. PICK B \in SUBSET Deliveries :
          /\ \A d \in B : status[d] # "ABSENT"
          /\ status' = [d \in Deliveries |-> IF d \in B THEN "PROCESSING" ELSE status[d]]
          /\ todo' = [todo EXCEPT ![w] = {[id |-> d, count |-> W!CountAfterClaim(d)] : d \in B}]
    BY <1>2 DEF W!Claim, W!Batches, W!Due
  <2>2. UNCHANGED <<doing, accepted>>
    BY <1>2 DEF W!Claim, W!endpoint
  <2>3. \A d \in B : d \in outbox
    BY <2>1 DEF DeliveryInv
  <2>4. \A v \in Workers : \A c \in todo'[v] : c.id \in outbox
    BY <2>1, <2>3 DEF DeliveryInv
  <2>5. /\ status' = [d \in Deliveries |-> status'[d]]
        /\ todo' = [v \in Workers |-> todo'[v]]
        /\ \A d \in Deliveries : status'[d] # "ABSENT" => d \in outbox
    BY <2>1, <2>3 DEF DeliveryInv
  <2> QED
    BY <1>1, <2>2, <2>4, <2>5 DEF DeliveryInv
<1>3. CASE W!Post(w) \/ W!FailRequest(w)
  <2>1. PICK c \in todo[w], ok \in BOOLEAN :
          /\ todo' = [todo EXCEPT ![w] = @ \ {c}]
          /\ doing' = [doing EXCEPT ![w] = {[id |-> c.id, count |-> c.count, ok |-> ok]}]
          /\ \/ accepted' = accepted
             \/ \E taken \in BOOLEAN : accepted' = [accepted EXCEPT ![c.id] = @ \/ taken]
    BY <1>3 DEF W!Post, W!FailRequest, W!Answer
  <2>2. status' = status
    BY <1>3 DEF W!Post, W!FailRequest, W!rows
  <2>3. c.id \in outbox /\ c.id \in Deliveries
    BY <1>1 DEF DeliveryInv
  <2>4. /\ accepted' = [d \in Deliveries |-> accepted'[d]]
        /\ \A d \in Deliveries : accepted'[d] \in BOOLEAN /\ (accepted'[d] => d \in outbox)
    BY <2>1, <2>3 DEF DeliveryInv
  <2>5. /\ todo' = [v \in Workers |-> todo'[v]] /\ doing' = [v \in Workers |-> doing'[v]]
        /\ \A v \in Workers : \A b \in todo'[v] \cup doing'[v] : b.id \in outbox
    <3> DEFINE e == [id |-> c.id, count |-> c.count, ok |-> ok]
    <3>1. e.id \in outbox
      BY <2>3
    <3> HIDE DEF e
    <3>2. todo' = [todo EXCEPT ![w] = @ \ {c}] /\ doing' = [doing EXCEPT ![w] = {e}]
      BY <2>1 DEF e
    <3> QED
      BY <3>1, <3>2 DEF DeliveryInv
  <2> QED
    BY <1>1, <2>2, <2>4, <2>5 DEF DeliveryInv
<1>4. ASSUME NEW c \in doing[w], NEW s, NEW n, W!Record(w, c, s, n)
      PROVE  DeliveryInv'
  <2>1. /\ status' = [status EXCEPT ![c.id] = s] /\ doing' = [doing EXCEPT ![w] = {}]
        /\ UNCHANGED <<todo, accepted>>
    BY <1>4 DEF W!Record, W!endpoint
  <2>2. c.id \in outbox
    BY DEF DeliveryInv
  <2> QED
    BY <1>1, <2>1, <2>2 DEF DeliveryInv
<1>5. CASE W!MarkDelivered(w) \/ W!MarkExhausted(w) \/ W!MarkRetry(w)
  BY <1>4, <1>5 DEF W!MarkDelivered, W!MarkExhausted, W!MarkRetry
<1> QED
  BY <1>2, <1>3, <1>5 DEF Deliver, W!Work

\* A fault and the clock touch no row's content.
LEMMA FaultStep ==
    ASSUME DeliveryInv, UNCHANGED allVars \/ TickDatabase \/ \E w \in Workers : DeliveryFault(w)
    PROVE  DeliveryInv'
<1>1. CASE UNCHANGED allVars
  BY <1>1 DEF DeliveryInv, allVars, vars, tables, delivering
<1>2. CASE TickDatabase
  BY <1>2 DEF TickDatabase, W!Tick, W!endpoint, DeliveryInv, vars, tables
<1>3. ASSUME NEW w \in Workers, DeliveryFault(w) PROVE DeliveryInv'
  <2>1. UNCHANGED <<status, accepted, outbox>>
    BY <1>3 DEF DeliveryFault, W!LoseRecord, W!Crash, W!rows, W!endpoint, vars, tables
  <2>2. /\ todo' = todo \/ todo' = [todo EXCEPT ![w] = {}]
        /\ doing' = [doing EXCEPT ![w] = {}]
    BY <1>3 DEF DeliveryFault, W!LoseRecord, W!Crash
  <2> QED
    BY <2>1, <2>2 DEF DeliveryInv
<1> QED
  BY <1>1, <1>2, <1>3

\* No row is ever deleted from the outbox.
LEMMA OutboxGrows == [Next]_vars => outbox \subseteq outbox'
<1> SUFFICES ASSUME [Next]_vars PROVE outbox \subseteq outbox'
  OBVIOUS
<1>1. ASSUME NEW r \in PayRequests, CompleteIdempotencyKey(r) PROVE outbox \subseteq outbox'
  BY <1>1 DEF CompleteIdempotencyKey, Refuse, tables
<1>2. ASSUME NEW r \in PayRequests, Claim(r) PROVE outbox' = outbox
  BY <1>2 DEF Claim, GetIdempotencyKey, GetInvoiceForPayment, CreateIdempotencyKey,
              CreatePaymentAttempt, Continue, Refuse, tables
<1>3. ASSUME NEW r \in PayRequests,
             Charge(r) \/ Receive(r) \/ Abort(r) \/ PspDecide(r) \/ DeadlockVictim(r)
      PROVE  outbox' = outbox
  BY <1>3 DEF Charge, SendCharge, ReceiveResult, ChargeError, ChargeReturns, Receive, Abort,
              PspDecide, DeadlockVictim, Continue, Refuse, tables
<1>4. ASSUME NEW r \in PayRequests,
             \/ MarkAttempt(r) \/ MarkInvoicePaid(r) \/ ListEndpoints(r)
             \/ InsertDeliveries(r) \/ AnswerClient(r)
      PROVE  outbox' = outbox
  BY <1>4 DEF MarkAttempt, MarkInvoicePaid, ListEndpoints, InsertDeliveries, AnswerClient,
              Continue, Refuse, tables
<1>5. ASSUME (\E v \in VoidRequests : Void(v)) \/ RegisterEndpoint \/ UNCHANGED vars
      PROVE  outbox' = outbox
  BY <1>5 DEF Void, VoidRead, VoidUpdate, RegisterEndpoint, vars, tables
<1> QED
  BY <1>1, <1>2, <1>3, <1>4, <1>5 DEF Next, Serve, Finalize, Quiescent

\* The invariant of the deliveries holds in every reachable state.
THEOREM DeliveryInvariant == PipelineSpec => []DeliveryInv
<1>1. PipelineInit => DeliveryInv
  BY DEF PipelineInit, W!Init, DeliveryInv
<1>2. TypeOK /\ DeliveryInv /\ [PipelineNext]_allVars => DeliveryInv'
  <2> SUFFICES ASSUME TypeOK, DeliveryInv, [PipelineNext]_allVars PROVE DeliveryInv'
    OBVIOUS
  <2>1. outbox \subseteq outbox'
    BY StepOfPayments, OutboxGrows
  <2>2. CASE PublishDeliveries
    BY <2>1, <2>2, PublishStep
  <2>3. ASSUME NEW w \in Workers, Deliver(w) PROVE DeliveryInv'
    BY <2>3, DeliverStep
  <2>4. CASE UNCHANGED allVars \/ TickDatabase \/ \E w \in Workers : DeliveryFault(w)
    BY <2>4, FaultStep
  <2>5. Settled => UNCHANGED allVars
    BY DEF Settled, Quiescent, allVars
  <2> QED
    BY <2>2, <2>3, <2>4, <2>5
    DEF PipelineNext, ServePayment, ServeVoid, Environment
<1> QED
  BY <1>1, <1>2, PipelineImplementsPayment, TypeCorrect, PTL DEF PipelineSpec

\* For the workers, a COMMIT of a payment queues the deliveries it adds, and anything
\* else a payment does is nothing: what holds of the workers holds of them here.
THEOREM PipelineImplementsWorkers == PipelineSpec => W!Spec
<1>1. PipelineInit => W!Init
  BY DEF PipelineInit
<1>2. DeliveryInv /\ [PipelineNext]_allVars => [W!Next]_(W!vars)
  <2> SUFFICES ASSUME DeliveryInv, [PipelineNext]_allVars PROVE W!Next \/ UNCHANGED W!vars
    OBVIOUS
  <2>1. CASE PublishDeliveries
    <3> DEFINE D == NewDeliveries \cap Deliveries
    <3>1. D \in SUBSET Deliveries /\ \A d \in D : status[d] = "ABSENT"
      BY DEF NewDeliveries, DeliveryInv
    <3>2. /\ status' = [d \in Deliveries |-> IF d \in D THEN "PENDING" ELSE status[d]]
          /\ UNCHANGED <<attempts, delay, todo, doing, posts, unmade, accepted, faults>>
      BY <2>1 DEF PublishDeliveries
    <3> HIDE DEF D
    <3>3. CASE D = {}
      <4>1. status' = status
        BY <3>2, <3>3 DEF DeliveryInv
      <4> QED
        BY <3>2, <4>1 DEF W!vars, W!rows, W!endpoint
    <3>4. CASE D # {}
      <4>1. W!Queue(D)
        BY <3>1, <3>2, <3>4 DEF W!Queue, W!endpoint
      <4> QED
        BY <3>1, <4>1 DEF W!Next
    <3> QED
      BY <3>3, <3>4
  <2>2. ASSUME NEW w \in Workers, Deliver(w) \/ DeliveryFault(w) PROVE W!Next
    BY <2>2 DEF Deliver, DeliveryFault, W!Next
  <2>3. CASE TickDatabase
    BY <2>3 DEF TickDatabase, W!Next
  <2>4. CASE Settled \/ UNCHANGED allVars
    BY <2>4 DEF Settled, allVars, delivering, W!vars, W!rows, W!endpoint
  <2> QED
    BY <2>1, <2>2, <2>3, <2>4 DEF PipelineNext, ServePayment, ServeVoid, Environment
<1> QED
  BY <1>1, <1>2, DeliveryInvariant, PTL DEF PipelineSpec, W!Spec

\* What an endpoint has accepted is true of the payment, and an invoice has at most one
\* PAID that anyone ever accepts.
THEOREM AcceptedWebhooksAreTrue == PipelineSpec => []AcceptedIsTrue
<1>1. PaymentInv /\ OutboxInv /\ DeliveryInv => AcceptedIsTrue
  <2> SUFFICES ASSUME PaymentInv, OutboxInv, DeliveryInv,
                      NEW d \in Deliveries, accepted[d]
               PROVE  /\ psp[d.attempt] = (IF d.event = "PAID" THEN "charged" ELSE "declined")
                      /\ attempt[d.attempt] = (IF d.event = "PAID" THEN "SUCCEEDED" ELSE "FAILED")
                      /\ d.event = "PAID" =>
                           /\ invoice[input[d.attempt].invoice] \in {"PAID", "VOID"}
                           /\ \A e \in Deliveries :
                                accepted[e] /\ e.event = "PAID" /\ SameInvoice(d.attempt, e.attempt)
                                => e.attempt = d.attempt
    BY DEF AcceptedIsTrue
  <2>1. \A e \in Deliveries : accepted[e] => e \in outbox
    BY DEF DeliveryInv
  <2>2. \A e \in Deliveries : accepted[e] =>
          attempt[e.attempt] = (IF e.event = "PAID" THEN "SUCCEEDED" ELSE "FAILED")
    BY <2>1 DEF OutboxInv, OutboxMatchesAttempts
  <2>3. \A e \in Deliveries : e.attempt \in PayRequests
    BY DEF Deliveries
  <2>4. psp[d.attempt] = (IF d.event = "PAID" THEN "charged" ELSE "declined")
    BY <2>2, <2>3 DEF PaymentInv, RequestInv
  <2>5. d.event = "PAID" => invoice[input[d.attempt].invoice] \in {"PAID", "VOID"}
    BY <2>2, <2>3 DEF PaymentInv, LedgerInv
  <2>6. ASSUME d.event = "PAID", NEW e \in Deliveries, accepted[e], e.event = "PAID",
               SameInvoice(d.attempt, e.attempt)
        PROVE  e.attempt = d.attempt
    BY <2>2, <2>3, <2>6 DEF PaymentInv, LedgerInv, Live
  <2> QED
    BY <2>2, <2>4, <2>5, <2>6
<1> QED
  BY <1>1, DeliveryInvariant, PipelineImplementsPayment, PaymentInvariant, OutboxInvariant, PTL
============================================================================
