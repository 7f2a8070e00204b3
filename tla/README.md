# Verification of the invoice and payment backend

TLA+ models of the concurrent core of this repository, the TLC instances that
check them, and TLAPS proofs of what matters most. Paths below are relative to
`src/`.

## 1. The system

One Go process (`cmd/api`) serves a JSON API and runs one webhook worker; any
number of processes may share one PostgreSQL database, which is the only
coordination between them. A payment service provider (PSP) is called over HTTP.

| component | state | operations | how it meets the others |
|---|---|---|---|
| payment handler (`internal/payment`) | `idempotency_keys`, `payment_attempts`, `invoices.state` | `PayInvoice` = `claim` (one transaction), PSP call, `finalize` (one transaction) | row locks and unique indexes against other payments, voids, endpoints; writes the outbox |
| PSP client (`internal/psp`), mock PSP (`cmd/mockpsp`) | whether a customer was charged | `Charge`, at most once per request, bounded by a timeout | answers late, never, or after the caller has given up |
| invoices (`internal/invoice`) | `invoices`, `invoice_items` | `CreateInvoice` (checks, transaction), `VoidInvoice` (read, then update), reads | void writes the row payments write; creation writes the outbox |
| outbox (`QueueDeliveries` in `internal/webhook`) | `webhook_deliveries` | insert one row per active endpoint, in the caller's transaction | called by payments and creations |
| webhook worker (`internal/webhook`) | status, attempt count and lease of a delivery | claim a batch, POST each, record the result | competes with the workers of other processes; the lease is its only protection |
| endpoint registry (`internal/webhook`) | `webhook_endpoints` | `CreateEndpoint`, list | read by the outbox |
| ids (`internal/idgen`) | last millisecond and sequence of a generator, under a mutex | `NextID` | every insert; all processes use node 1, and each has two generators |
| public ids (`internal/publicid`) | none: a keyed permutation and a base-62 codec | `Encode`, `Decode` | every answer and every path parameter |
| customers (`internal/customer`) | `customers` | create, get, list | ids, public ids, the tenant of the caller |
| bootstrap, authentication (`internal/auth`) | `businesses`, `api_keys` | check-then-create at start; key lookup per request | every process that starts; every request carries the business found |
| middleware, start and shutdown | none | | the worker and the bootstrap are started here |

Hard to get right here, and hard to test: two requests between the statements of
each other's transactions; waiting for a row lock, a unique index entry or a
deadlock; a charge that happens although its request has timed out; a retry while
the first request is half way, or after it died half way; a COMMIT whose
acknowledgement is lost; a void in between; a worker slower than its lease; a clock
set back; processes that start at once or die half way; integers at their bounds. `PROJECT.json` lists these hazards at their lines.

What makes each component correct: payments charge an invoice once and a key
once, answer what is stored and what happened, and change attempt, invoice,
outbox and key together; an invoice's stored total is the exact sum of its stored
items; what is stored is announced, to its own business; a delivery is never
stranded, counted for what was tried, and settled only for a reason; the ids of a
generator increase; a public id names one resource, to its own business; starts
reuse what earlier ones created, a key can be lost only with the start that drew it,
and what the logged keys open is known exactly.

## 2. Modules

| module | models | proofs |
|---|---|---|
| `Payment` | `PayInvoice`, `VoidInvoice`, the PSP, and the PostgreSQL locking they rely on | `PaymentProofs` |
| `PaymentLedger` | abstract: what paying promises about money; `Payment` implements it | `PaymentRefinements` |
| `WebhookWorker` | `Worker` of `internal/webhook` in several processes | `WebhookWorkerProofs` |
| `PaymentDelivery` | composition: `Payment` and an instance of `WebhookWorker` on one table; implements both | `PaymentRefinements` |
| `InvoiceCreation` | `CreateInvoice` with its int64 checks and its transaction | `InvoiceCreationProofs` |
| `IdSource` | abstract: what the rest may rely on in an id generator; used by `Resources` and `Bootstrap` | |
| `Snowflake` | `NextID` of `internal/idgen`; implements `IdSource` | `SnowflakeProofs` |
| `PublicId` | the codec of `internal/publicid`, as operators | `PublicIdProofs` |
| `Resources` | the create, get and list handlers of customers and webhook endpoints, over `PublicId` and `IdSource` | `ResourcesProofs` |
| `Bootstrap` | `BootstrapDemoData` of processes that start, `ParseAPIKey`, `Middleware` | `BootstrapProofs` |
| `MCPayment`, `MCPaymentDelivery`, `MCWebhookWorker`, `MCInvoiceCreation`, `MCSnowflake`, `MCResources`, `MCBootstrap` | values of the constants for TLC | |

An operator named "Mutation of X" is a plausible bug in the code X translates. No
specification uses it; putting it in the place of X breaks the property that
`PROJECT.json` pairs it with, which shows that the property depends on that code.

### Payment

One action is one SQL statement, one step of the PSP call, or the answer. `pc[r]`
is where request r is: `getKey`, `lockInvoice`, `insertKey`, `insertAttempt` are
the statements of `claim`; `charge` and `await` the HTTP call; `mark`,
`payInvoice`, `list`, `queue`, `complete` the statements of `finalize`.

- The table variables (`invoice`, `idem`, `saved`, `attempt`, `outbox`,
  `endpoints`) hold committed rows. A row inserted by r is named r. What an open
  transaction has written, and which lock it holds, is a function of `pc[r]`
  (`LockHeld`, `KeyInserted`, `AttemptMarked`): a rollback therefore changes
  nothing but `pc`, and the last action of a transaction publishes all of it.
- READ COMMITTED: every action reads the committed rows of the moment it runs. A
  statement that meets a conflicting row lock, or at a unique index a row that
  another open transaction has inserted or updated, waits (`WaitsFor`, `Granted`)
  and is evaluated on the row as it is afterwards. A cycle of waits ends with one
  of the transactions aborted (`DeadlockVictim`). The lock modes are those of
  `SELECT FOR UPDATE`, of an UPDATE that keeps the key, and of a foreign-key check.
- The early returns of `claim` are the disjuncts of its actions; each is a
  rollback and the error response `PayInvoice` gives. A unique violation of
  `CreateIdempotencyKey` is a 500, one of `CreatePaymentAttempt` a 409, as in the
  code.
- `PspDecide` may happen at any time after the request was sent, before or after
  the caller stopped waiting, or never. Everything `Charge` returns as an error is
  one outcome, `error`.
- `Abort` is a dead process, a disconnected client (the request's context is the
  context of its statements), a failed statement or a failed COMMIT; where a COMMIT
  has just taken effect it is the lost acknowledgement.
- `QueueDeliveries` ignores its error in the callers, but PostgreSQL has then
  aborted the transaction, so the next statement fails too: again `Abort`.

### PaymentLedger

No statement, lock, transaction, process or retry is left: a payment begins, the
provider acts once, the payment succeeds, is declined or given up, and a client is
told a stored outcome, each in one step whose guard is the rule it stands for.
`ImplementsLedger` maps `Payment` to it: the tables map to themselves; a provider
that has only received a request has done nothing yet (`MoneyMoved`), and an error
response promises nothing (`OutcomeTold`). Every other step of a handler is a
stutter, so the ledger's guards are what must hold when a transaction commits, not
when it read. In the ledger nothing leaves UNKNOWN and an unresolved payment keeps
every other one of its invoice out: that is what the code does, and it has no
reconciliation.

### WebhookWorker

`delay[d]` is `next_attempt_at` minus now, and `Tick` is the clock of the
database; nothing ties a worker's speed to it, since ten POSTs of up to five
seconds outlast a lease of thirty. A lease has any length of `Leases`, because the
worker computes its end on its own clock. `Queue` is the COMMIT of a transaction that
queued one row per endpoint, all due at once. `Claim` is the one statement
`ClaimDueWebhookDeliveries` (any set of due rows up to the batch size: SKIP LOCKED
may leave some out), `Post` a POST with or without a 2xx, accepted or not by the
endpoint, `FailRequest` the branch in which `http.NewRequest` refuses the endpoint's URL
and the attempt fails with nothing sent, `MarkDelivered`, `MarkExhausted`, `MarkRetry` the updates by id alone,
`LoseRecord` an update that fails and is logged, `Crash` a process that dies or is
shut down (main does not wait for the worker) and starts again.
`Unrequestable` are the rows of which `FailRequest` is taken. They exist because the URL
was checked at registration with `url.ParseRequestURI`, which does not look at a fragment
(`https://h/?a#%zz`), and the same URL never changes, so a row is of that kind for ever.
`posts` counts the POSTs handed to the HTTP client, `unmade` the requests that could not
be made; `attempt_count` does not tell one from the other.

### PaymentDelivery

`Payment` extended by the variables of `WebhookWorker`, whose deliveries are here
the rows payments may write. The COMMIT of a finalization makes its rows PENDING
and due (`PublishDeliveries`); the workers' actions leave the payments alone. It
answers what neither half can: that what an endpoint has accepted is true of the
payment (`AcceptedIsTrue`), and that a resolved payment is announced or exhausted
(`OutcomesAreAnnounced`).

### InvoiceCreation

`CheckItem` is one turn of the loop over the items. Amounts are `Half`-bounded
integers that wrap (`Wrap`), and the overflow checks are made on the wrapped
values with Go's division, as in the code. The transaction is invoice, items one
by one, deliveries, COMMIT. `Fail` is an error, a disconnect or a lost
acknowledgement at any statement.

### IdSource and Snowflake

`Lock`, `ReadClock`, `Sleep` and `Issue` are what the wall clock, or the end of the
process, can come between in `NextID`; the mutex is held from `Lock` to `Issue`, also
while a call sleeps until its millisecond is over. `lastTime` of a new generator is
1970, as in Go's zero value of the code's field. `StepBack` sets the clock back;
`Restart` makes a new generator that remembers nothing. The id is computed with the
shifts of the code as products, from bit widths that are constants.
`IdSource` keeps only that a living generator's ids increase. It says nothing of two
generators, because nothing in the code does: `cmd/api/main.go` creates two in each
process, both with node 1, and `DATABASE.md:13` asks for distinct nodes. The modules
that create rows therefore use `IdSource`, and the primary keys do the rest.

### PublicId and Resources

`PublicId` is parameterised by the size of a half word, the base, the multiplier and
any round keys; exclusive or is a parameter too, an operator that undoes itself, so
that theorems hold for it and TLC computes it bit by bit. A public id is a prefix
and a sequence of digits; a character outside the alphabet is the digit `Base`. `Decode`
refuses a wrong prefix, no digits, a foreign character and more than 64 bits, and
accepts zeros in front, as the code does.
In `Resources` a request is served by any process: `Generate` takes an id of its
generator, `Insert` is subject to the primary key, `AnswerCreated` shows the public id,
`Get` decodes one and reads with id and business, `List` reads with the business. `Fail`
may strike anywhere, at `encode` with the row already there.

### Bootstrap

One action per statement of `BootstrapDemoData`, each a transaction of its own, and
`LogKey`. A process draws its secret when none is configured, may die between any two
statements, and others start meanwhile. Texts are sequences of the words between their
underscores, since what the code asks of a token is where its last underscore is, and
what is left when white space at its ends is trimmed. White space is part of a word, and
`TrimLeft` and `TrimRight` are any operators on words: `TrimSpace` cuts the first word
and the last one. The bootstrap trims nothing. Secrets are taken to consist of characters
that a header can carry. A hash is its secret. `Authenticate` is the middleware's decision;
`Unlogged(p)` is a key that p has stored and not yet logged, and `lost` remembers those
of processes that died then, and no other death;
`Revoke` is an operator at the database, since no code sets `revoked_at`.

## 3. What the runs show

| run | instance | result |
|---|---|---|
| `payment_race` | 3 pay requests (same key, other key, other token, other invoice, other business), 1 void, 2 invoices in DRAFT or OPEN, an endpoint registering, every request may fail anywhere | all safety properties hold; the ledger is implemented |
| `payment_delivery` | 2 pay requests, 2 keys, 1 void, 1 invoice, 1 endpoint, 1 worker, 1 attempt per delivery and one more after a fault; one request may fail anywhere and the worker once | every request is answered, every resolved payment announced or exhausted; what was accepted is true |
| `payment_void_race` | 1 payment, 1 void | a void overwrites PAID |
| `payment_deadlock` | 2 payments of one invoice | a confirmed charge is never recorded |
| `payment_same_key` | the same request sent twice at once | the loser is answered 500 |
| `invoice_creation` | every list of up to 2 items with quantities -1..7 and amounts -1..7 in a 4-bit integer, 2 tenants, all states | totals exact, refusals justified, all or nothing |
| `webhook_workers` | 2 workers, 2 deliveries, one of an endpoint whose URL makes no request, batches of 2, 3 attempts, 1 fault | claims distinct, counts and settled rows truthful |
| `webhook_schedule` | 3 workers, 1 delivery, the 6 attempts of the code with growing intervals, leases 0 or 1, 2 faults | attempts bounded, every delivery settled for good |
| `webhook_stale_retry` | 2 workers, no fault | DELIVERED goes back to PENDING |
| `snowflake` | 2 generators with nodes of their own, 3 callers, 2 ids per millisecond, a clock set back once, one restart each | `IdSource` is implemented, ids are unique but for a restart behind the clock's own past, every call returns |
| `resources` | 3 requests of 2 businesses, 2 processes that restart, 3 ids, words of 4 bits in base 3, every alias and overflow of every public id | a public id names one resource and finds it, and nothing else is found |
| `bootstrap` | 3 starts of 2 processes with 6 configurations, 2 ids, dying anywhere | starts reuse, only overlapping starts collide, a logged key opens its key exactly when it should, a key is lost only with the start that died between storing and logging it |

**Bounds, and why they are enough.** Three pay requests are needed for the
hardest payment case (one that died or timed out, its retry, and a competitor under
another key); two void requests do not interact, since the second finds VOID. A
deadlock takes two transactions, because all requests of a cycle lock one invoice.
Keys, tokens and businesses are told apart only by equality, so two of each do.
Symmetry is used in safety runs only. `MCPayment!RaceInit` keeps, of the
choices of three inputs, those with the first one in it and no other one twice; the
others name keys, tokens or invoices differently, or concern requests that meet nowhere. In the worker, deliveries meet only inside a
batch, and what two workers can do to one row takes two leases; the third worker is
there for the bound of `AttemptsBounded`, which grows with their number (5 more
claims for 3 workers, 2 for 2; both bounds are attained). Faults are counted
(`MaxFaults`) so that attempts stay finite; `AttemptsBounded` has the count in its
bound. A row of `Unrequestable` behaves for everything but `posts` as one whose every POST
fails, which `Post` allows, so `webhook_schedule`, `webhook_stale_retry` and
`payment_delivery`, where nothing depends on the difference, have none; the proofs have
any. In `invoice_creation` `Half = 8`, and products wrap up to three times; the
width is irrelevant to the proofs.
In `payment_delivery` two payments suffice for `AllAnswered`: every ring of waits
contains a pair of one claim and one finalization of one invoice, which is the
theorem `DeadlocksArePairs`. `MCPaymentDelivery!NarrowInit` names the
requests and the keys without loss and leaves a draft invoice, on which nothing
happens, to `payment_race`. One worker with batches of one row is enough there: the race of
two workers is `webhook_schedule`'s, and the lease only delays.
In `snowflake` a millisecond has two ids, so that a third call finds it used up; the
clock starts before the epoch (negative ids), and calls stop early enough
(`LastCall`) that the clock outruns every wait. In `resources` three digits of base 3
exceed a word, as eleven of base 62 exceed 64 bits; the three ids have public ids of
one, two and three digits, one of them the single digit zero; three requests are a
create, a competing create and a get. In `bootstrap` the
third start meets what two left behind, alive or dead; the six configurations leave
the secret out, change it, split it with an underscore, end it in white space under
another name, or begin the prefix with white space. Two ids are enough for a process
to create a business and a key, and for another to meet them or be refused by them.

**Fairness.** `Payment!FairSpec`: each handler takes its enabled steps (the Go
scheduler; PostgreSQL runs statements that do not wait and resolves deadlocks; the
PSP client's timeout, 3 s by default, ends `await` by `ChargeError`). Nothing is
assumed of clients, of the provider, or of `Abort`. `WebhookWorker!FairSpec`: the
clock runs, the ticker starts a batch every second, and the HTTP client's timeout
ends every POST; nothing is assumed about endpoints. Crashes are finitely many.
`PaymentDelivery!PipelineSpec` assumes both, and no more. `Snowflake!FairSpec`: the
clock runs and every goroutine takes its steps. Weak fairness is enough for the mutex
because calls are bounded; with unbounded callers Go's mutex has its own guarantee
against starvation, which is not modelled.

**Where code and documents disagree.** Four runs find a behaviour that the
documents exclude:

1. `PaidIsTerminal`: `VoidInvoice` updates by id without a condition on the
   state (`internal/invoice/invoice.go:497`), after reading it outside a
   transaction; `DESIGN.md:41` calls PAID terminal. The other half,
   `VoidIsTerminal`, holds because `MarkInvoicePaid` has the condition.
2. `ConfirmedSuccessPays`: `finalize` locks attempt then invoice, `claim` invoice
   then, through the partial unique index, the attempt. When `finalize` is the
   deadlock victim (or when the invoice was voided meanwhile) a confirmed charge
   stays PROCESSING for ever, and its invoice unpaid; `DESIGN.md:45`.
3. `CompetitorGetsConflict`: two requests under one key can both pass
   `GetIdempotencyKey`; the unique violation of the second becomes 500;
   `DESIGN.md:69` promises a conflict.
4. `DeliveredStays`: the results of a worker are recorded by id, whatever the
   row has become; `DATABASE.md:464`.

Other things met on the way, without a run of their own: a worker that dies holding
the sixth attempt leaves the row to a seventh (`AttemptsBounded` has the exact bound;
`README.md:115` counts six);
with no secret configured, a process that dies between the INSERT of the key and
the log takes its secret with it, and every later start finds the key and logs
nothing (`lost`, the last alternative of `NoKeyIsLost`); a configured secret that differs
from the stored one is logged and does not work, and neither does one with an underscore
or with white space at its end, because it is stored as it is and the token is trimmed
and cut at its last underscore (`LoggedKeyWorks` says which of them open what); a URL
that passes the check at registration and makes no request is attempted six times
without a POST (`ExhaustedWasTried`); two starts at once create two businesses of one
name, or one of them is refused (`overlap`); two generators with node 1 can meet, and
the second INSERT is a 500.

The bootstrap also logs the plaintext key (`internal/auth/bootstrap.go:102`, and
`cmd/api/main.go:133` once more, for a configured secret at every start). `DATABASE.md:119`
says "Do not store or log the plaintext secret" and `DATABASE.md:499` "Never log
plaintext". `LoggedKeyWorks` and `NoKeyIsLost` describe what the code does, namely that
the log is how an operator learns a drawn secret; they do not say that it should. A
backend that followed the documents would have to hand a drawn secret over in another
way, or every drawn key would be lost.

## 4. What is proved

For all values of the constants, from the assumptions named in the modules
(owners are functions, inputs are well formed, bounds are numbers):

- **`PaymentProofs`**. `NoDoubleCharge` and the rest are not inductive. The
  strengthening `PaymentInv` says what a request's `pc` implies for its rows and
  for the provider (`RequestInv`); that locks held on one invoice are compatible and
  that a transaction holding one against writers found, and finds, the invoice OPEN
  (`LockInv`); that an invoice has at most one attempt that is unresolved or
  succeeded, an open claim included (`LedgerInv`); that a key has one row, an
  uncommitted one included (`KeyInv`); and that a final answer is the stored one
  (`ReplyInv`). The heart of the argument: a claim holds the row lock from reading
  OPEN to inserting the attempt; the partial unique index keeps it out while an
  attempt is unresolved; and once one succeeded the invoice is no longer OPEN, in
  the same commit. `QueueInv` and `OutboxInv` carry the outbox. Proved: `TypeOK`,
  `NoDoubleCharge`, `KeyChargesOnce`, `AnswerIsTruthful`, `ReplayAgrees`,
  `PaidExactlyOnce`, `VoidIsTerminal`, `OutboxMatchesAttempts`, `TenantIsolation`, and
  `StuckIsDetected`: a claim at its key waits for a claim at its attempt, that one for a
  finalization of its invoice, and a finalization only for the claim that has its
  invoice locked (`WaitKinds`).
- **`PaymentRefinements`**. `PaymentImplementsLedger`: with `PaymentInv` and `QueueInv`,
  and with an answer being the last thing a request does (`ReplyPending`), each commit
  is the ledger step it should be (`ClaimBegins`, `FinalizationSettles`, `VoidVoids`),
  the provider acts on an unsettled payment (`PspProvides`), answers tell
  (`AnswerTells`), and the rest stutters. The composition implements both its halves:
  `PipelineImplementsPayment` (the workers change nothing a payment reads, so every
  theorem of `Payment` holds in the pipeline, `PipelineImplementsLedger` among them) and
  `PipelineImplementsWorkers` (a COMMIT is `Queue` of the rows it adds). The latter needs
  `DeliveryInv`: what a worker holds, an endpoint has accepted or the table has is in the
  outbox, which only grows. With `OutboxInv` and `LedgerInv` it gives `AcceptedIsTrue`.
- **`WebhookWorkerProofs`**. A worker's memory can be stale, but what it says was
  true once and the facts it states are stable: a count never exceeds the row's, an
  answer was given (`ClaimsInv`); a new claim carries a count nobody holds
  (`HeldInv`); hence `ClaimsAreDistinct`, `DeliveredWasAccepted`,
  `ExhaustedWasTried`, and `TypeOK` (its lemma `RetryDelayType` shows that the
  code's clamps of the interval index never move it). `PostsAreCounted` and
  `AttemptsBounded` count workers, so `Workers` is assumed finite: a worker holds one
  claim of a delivery (`SingleInv`); claims are tries (`Tries`: POSTs, and requests that
  could not be made), claims in a batch, or faults (`PostsInv`); and past the limit a delivery pays for each further claim with a free
  worker, which only a fault gives back, or which the failure of an early claim
  gives back when it reopens an exhausted row, once for each claim below the limit
  (`BoundInv`, whose `Reopenings` is twice that sum). `AttemptsBounded` is what is left
  of it when nothing is held.
- **`InvoiceCreationProofs`**. `LineCheckIsExact` and `SumCheckIsExact`: the checks
  on wrapped values refuse exactly what does not fit, for any width; from them,
  that a running total never wraps (`TypeOK`). `CreationInv` gives
  `CreatedIsAnnounced`, `TenantIsolation` and `AnswersAreTruthful`. `SumInv` says that
  the running total is the exact sum of the items checked (`PartialSums`), that the
  loop has checked all of them before the transaction, and that the transaction stores
  all of them; it gives `TotalsAreExact` and `OverflowIsReal`, for lists of any length.
- **`PublicIdProofs`**. `PermutationIsInverted`: four rounds are undone in reverse
  order whatever the round function (`RoundInverse`, `BlockInverse`), and a word is
  its two halves (`SplitJoin`), so two ids of a resource never share a word.
  `SignIsKept`: int64 to uint64 and back. `DigitsAreInverted`: digits are read back as
  the word they were written for; `DigitsOfValue`: the digits written for a value are
  those it was read from, from the first that is not zero. Together
  `PublicIdsAreInverted`, `PublicIdsAreDistinct` and `DecodedIsItsValue`.
- **`ResourcesProofs`**. `RowsInv`: the primary key keeps rows of a kind apart, although
  `IdSource` lets two generators hand out one id, and a request has at most one row.
  `ShownInv`: what an answer shows is such a row, of the caller's business, and for a get
  the one its text decodes to. With the theorems of the codec: `PublicIdsNameOneResource`,
  `LookupIsExact`, `ShownIsFound`. Assumed: ids are 64-bit integers.
- **`BootstrapProofs`**. `KeyInv`: a prefix has one key, which some start made
  (`Made`). `LogInv`: what is logged, or about to be, is prefix and secret of a start, and
  the stored key of the prefix has that secret unless another one was configured (`Opens`). `SequentialInv`: as long as no two
  starts overlapped at most one process is at work, so what it looked up is still true
  when it inserts. Hence `LoggedKeyWorks` (for which `ParseOfReadable` shows that trimming
  and cutting at the last underscore undo the concatenation of a prefix and a secret that
  are `Readable`, and `ParseOfUnreadable` that nothing else does), `NoKeyIsLost` (a death
  with a key not yet logged puts it into `lost`, `LostStep`),
  `SequentialStartsReuse`, `OnlyRacesCollide` and `TypeOK`.
- **`SnowflakeProofs`**. `GeneratorsImplementIdSource`: the refinement, for any bit
  widths, nodes, callers and clock. `SnowflakeInv`: a call past the lock holds the mutex
  (`MutexInv`), times are within the clock's bound (`TimeInv`), and the last id is at
  most the largest of the last time, at most the current one while no call has raised
  the sequence, and less than the one about to be handed out (`IdInv`). The arithmetic is
  in `IdMonotone`, `IdLater` and `IdNext`. Also `TypeOK`. `UniqueIds` needs more,
  because a restart forgets the last time: `IssuedInv` (an id is built from some time,
  the generator's node and some sequence, and is at most the last id of its life) and
  `PastInv` (while the clock was never set back, an id of an earlier life is less than
  whatever the clock, or a call about to issue, can still give). Two generators of
  different nodes differ in a digit of the id (`NodeOfId`).

**Induction over data.** The induction theorems of the library have an operator as a
parameter, which the provers here cannot instantiate. `SetInduction` says the same of a
set of numbers, and is proved from the least element of what the set misses (`WFMin`,
`NatLessThanWellFounded`). With it a function that satisfies the equation of a recursive
definition is shown to exist (`SumsExist`, `ValuesExist`, `DigitsExist`), so that the
definition, which is a choice of such a function, satisfies it too (`SumsEquation`,
`ValuesEquation`, `DigitsEquation`); and what it computes is then proved by induction.
That is why `PartialSums`, `Values` and `ToDigits` are recursive functions.

Every invariant and every action property that a passing run checks is proved. Only
model-checked are the liveness properties (`AllAnswered`, `EventuallySettled`,
`OutcomesAreAnnounced`, `EveryCallReturns`), which need fairness and ENABLED, beyond the
provers; and the four violations, which are counterexamples.

## 5. Not modelled

The list and get handlers of invoices and deliveries, HTTP middleware, reading the
authorization header, signatures of webhooks: no state, or one library call. The AES
codec in `internal/idgen/idgen.go` and its default generator have no caller. Payload
contents, URLs, wording and the JSON of a replayed answer (JSONB keeps its value, not
its bytes). Timeouts are possible at any time instead of after a duration.
Serialization failures do not exist under READ COMMITTED. An INSERT that PostgreSQL
executes after its process has died is the death after it. Ids in `Payment` and
`InvoiceCreation` are the requests that insert the rows: that ids may collide, and that
the primary key then refuses, is modelled in `Resources` and `Bootstrap`; there it is
one of the failures of a statement.
PostgreSQL itself (that a commit is atomic and durable, that a unique index is
unique) is assumed. UNCOLLECTIBLE and DRAFT to OPEN are reachable by no code.
UNKNOWN attempts are never resolved by any code, so nothing is claimed of them but
that they block their invoice.

## 6. Plan

Done: the core (`Payment`, `WebhookWorker`, `InvoiceCreation`) with its theorems; the
abstract `PaymentLedger` and `IdSource` and what implements them; the composition
`PaymentDelivery`; ids, public ids, resources and the bootstrap.

Also done: a theorem for every invariant and action property of the passing runs, and
the refinements.

Left, in this order:

1. The safety half of liveness, as theorems: that a handler that is not done and waits
   for nobody has an enabled step, by stating the guards of its steps instead of
   ENABLED; the same for a worker with a due row and a call of `NextID`.
2. The theorems of `WebhookWorker` restated for the pipeline, through
   `PipelineImplementsWorkers`.
