--------------------------- MODULE WebhookWorker ---------------------------
(***************************************************************************)
(* The delivery workers of internal/webhook: each API process runs one     *)
(* (cmd/api/main.go), all of them on the webhook_deliveries table.  A      *)
(* worker claims a batch in one statement, then, row by row and outside    *)
(* any transaction, POSTs it and records the result with an UPDATE by id.  *)
(*                                                                         *)
(* Time is a countdown: delay[d] is how long next_attempt_at is from now,  *)
(* and Tick is the clock of the database.  Nothing relates a worker's speed*)
(* to the clock: ten POSTs of five seconds outlast a lease of thirty.      *)
(***************************************************************************)
EXTENDS Integers, FiniteSets

CONSTANTS
    Deliveries,      \* rows the domain transactions will queue
    Workers,         \* API processes
    BatchSize,       \* NewWorker's batchSize
    AttemptLimit,    \* the 6 of handleFailure
    RetryIntervals,  \* retryIntervals, indexed from 1
    Unrequestable,   \* rows whose endpoint's URL was accepted by url.ParseRequestURI
                     \* when it was registered and is refused by http.NewRequest
    Leases,          \* the lengths a lease may have on the database's clock:
                     \* the worker computes its end on its own clock
    MaxFaults        \* bound: crashes and lost updates in one execution

ASSUME WorkerAssumption ==
    /\ IsFiniteSet(Workers)
    /\ Unrequestable \subseteq Deliveries
    /\ BatchSize \in Nat \ {0}
    /\ AttemptLimit \in Nat \ {0}
    /\ AttemptLimit > 1 => RetryIntervals \in [1..(AttemptLimit - 1) -> Nat]
    /\ Leases \subseteq Nat
    /\ MaxFaults \in Nat

VARIABLES
    status, attempts, delay,   \* webhook_deliveries
    todo,                      \* per worker: rows of its batch not yet posted
    doing,                     \* per worker: the row it tried and has not yet recorded
    posts, unmade,             \* per row: POSTs handed to the HTTP client, requests
                               \* that could not be made
    accepted,                  \* whether the endpoint has accepted one
    faults

rows == <<status, attempts, delay>>
endpoint == <<posts, unmade, accepted>>
vars == <<rows, todo, doing, endpoint, faults>>

Terminal == {"DELIVERED", "EXHAUSTED"}

\* A claimed row: its id and the attempt_count the claim returned.
Claims == [id : Deliveries, count : Nat \ {0}]
Results == [id : Deliveries, count : Nat \ {0}, ok : BOOLEAN]

(***************************************************************************)
(* The producers and the clock.                                            *)
(***************************************************************************)
\* CreateWebhookDelivery, for each endpoint, committed with what it announces.
Queue(D) ==
    /\ D # {}
    /\ \A d \in D : status[d] = "ABSENT"
    /\ status' = [d \in Deliveries |-> IF d \in D THEN "PENDING" ELSE status[d]]
    /\ UNCHANGED <<attempts, delay, todo, doing, endpoint, faults>>

Tick ==
    /\ \E d \in Deliveries : delay[d] > 0
    /\ delay' = [d \in Deliveries |-> IF delay[d] > 0 THEN delay[d] - 1 ELSE 0]
    /\ UNCHANGED <<status, attempts, todo, doing, endpoint, faults>>

(***************************************************************************)
(* ProcessBatch.                                                           *)
(***************************************************************************)
\* Mutation of Due: a claimed row is never claimed again.
DuePending == {d \in Deliveries : status[d] = "PENDING" /\ delay[d] = 0}

Due == {d \in Deliveries : status[d] \in {"PENDING", "PROCESSING"} /\ delay[d] = 0}

\* The rows a claim may return: SKIP LOCKED leaves out those another statement
\* is working on.
Batches == {B \in SUBSET Due : B # {} /\ Cardinality(B) <= BatchSize}

\* Mutation of CountAfterClaim: the count is left to the failure handler.
CountNotRaised(d) == attempts[d]

CountAfterClaim(d) == attempts[d] + 1

\* ClaimDueWebhookDeliveries: one statement, one transaction.
Claim(w) ==
    /\ todo[w] = {} /\ doing[w] = {}
    /\ \E B \in Batches, lease \in Leases :
         /\ status' = [d \in Deliveries |-> IF d \in B THEN "PROCESSING" ELSE status[d]]
         /\ delay' = [d \in Deliveries |-> IF d \in B THEN lease ELSE delay[d]]
         /\ attempts' = [d \in Deliveries |-> IF d \in B THEN CountAfterClaim(d) ELSE attempts[d]]
         /\ todo' = [todo EXCEPT ![w] = {[id |-> d, count |-> CountAfterClaim(d)] : d \in B}]
    /\ UNCHANGED <<doing, endpoint, faults>>

\* The next row of the batch has its answer, and waits for it to be recorded.
Answer(w, c, ok) ==
    /\ doing[w] = {}
    /\ todo' = [todo EXCEPT ![w] = @ \ {c}]
    /\ doing' = [doing EXCEPT ![w] = {[id |-> c.id, count |-> c.count, ok |-> ok]}]

\* deliverOne up to client.Do: a 2xx, or anything else: a transport error (with
\* or without the endpoint having accepted), a timeout, another status.
Post(w) ==
    /\ \E c \in todo[w], ok \in BOOLEAN, taken \in BOOLEAN :
         /\ c.id \notin Unrequestable
         /\ ok => taken
         /\ Answer(w, c, ok)
         /\ posts' = [posts EXCEPT ![c.id] = @ + 1]
         /\ accepted' = [accepted EXCEPT ![c.id] = @ \/ taken]
    /\ UNCHANGED <<rows, unmade, faults>>

\* deliverOne, where http.NewRequest fails: a failure like the others, with no POST.
FailRequest(w) ==
    /\ \E c \in todo[w] :
         /\ c.id \in Unrequestable
         /\ Answer(w, c, FALSE)
         /\ unmade' = [unmade EXCEPT ![c.id] = @ + 1]
    /\ UNCHANGED <<rows, posts, accepted, faults>>

\* The three UPDATEs that record a result: by id alone, whatever the row has become.
Record(w, c, newStatus, newDelay) ==
    /\ status' = [status EXCEPT ![c.id] = newStatus]
    /\ delay' = [delay EXCEPT ![c.id] = newDelay]
    /\ doing' = [doing EXCEPT ![w] = {}]
    /\ UNCHANGED <<attempts, todo, endpoint, faults>>

\* Mutation of MarkDelivered: any answer counts as delivered.
MarkDeliveredAnyStatus(w) ==
    \E c \in doing[w] : Record(w, c, "DELIVERED", delay[c.id])

MarkDelivered(w) ==
    \E c \in doing[w] : c.ok /\ Record(w, c, "DELIVERED", delay[c.id])

\* Mutation of LastAttempt: the limit is compared one attempt early.
LastAttemptOffByOne(count) == count >= AttemptLimit - 1

\* Mutation of LastAttempt: no attempt is the last.
NoLastAttempt(count) == FALSE

\* handleFailure
LastAttempt(count) == count >= AttemptLimit

\* Mutation of MarkExhausted: a status outside delivery_status_enum.
MarkExhaustedFailed(w) ==
    \E c \in doing[w] : ~c.ok /\ LastAttempt(c.count) /\ Record(w, c, "FAILED", delay[c.id])

MarkExhausted(w) ==
    \E c \in doing[w] :
        /\ ~c.ok
        /\ LastAttempt(c.count)
        /\ Record(w, c, "EXHAUSTED", delay[c.id])

\* The delay before the next attempt; the index is clamped to the ends of the list.
IntervalIndex(count) ==
    IF count < 1 THEN 1 ELSE IF count < AttemptLimit THEN count ELSE AttemptLimit - 1

RetryDelay(count) == RetryIntervals[IntervalIndex(count)]

MarkRetry(w) ==
    \E c \in doing[w] :
        /\ ~c.ok
        /\ ~LastAttempt(c.count)
        /\ Record(w, c, "PENDING", RetryDelay(c.count))

\* The UPDATE fails; the error is logged and the worker goes on.
LoseRecord(w) ==
    /\ doing[w] # {} /\ faults < MaxFaults
    /\ doing' = [doing EXCEPT ![w] = {}]
    /\ faults' = faults + 1
    /\ UNCHANGED <<rows, todo, endpoint>>

\* The process dies, or is shut down with the batch unfinished, and starts again.
Crash(w) ==
    /\ todo[w] # {} \/ doing[w] # {}
    /\ faults < MaxFaults
    /\ todo' = [todo EXCEPT ![w] = {}]
    /\ doing' = [doing EXCEPT ![w] = {}]
    /\ faults' = faults + 1
    /\ UNCHANGED <<rows, endpoint>>

(***************************************************************************)
(* The specification.                                                      *)
(***************************************************************************)
Init ==
    /\ status = [d \in Deliveries |-> "ABSENT"]
    /\ attempts = [d \in Deliveries |-> 0]
    /\ delay = [d \in Deliveries |-> 0]
    /\ todo = [w \in Workers |-> {}]
    /\ doing = [w \in Workers |-> {}]
    /\ posts = [d \in Deliveries |-> 0]
    /\ unmade = [d \in Deliveries |-> 0]
    /\ accepted = [d \in Deliveries |-> FALSE]
    /\ faults = 0

Work(w) ==
    \/ Claim(w) \/ Post(w) \/ FailRequest(w)
    \/ MarkDelivered(w) \/ MarkExhausted(w) \/ MarkRetry(w)

\* Every row is delivered or exhausted, and no worker has anything left to do.
Quiescent ==
    /\ \A d \in Deliveries : status[d] \in Terminal /\ delay[d] = 0
    /\ \A w \in Workers : todo[w] = {} /\ doing[w] = {}
    /\ UNCHANGED vars

Next ==
    \/ \E D \in SUBSET Deliveries : Queue(D)
    \/ \E w \in Workers : Work(w) \/ LoseRecord(w) \/ Crash(w)
    \/ Tick
    \/ Quiescent

Spec == Init /\ [][Next]_vars

\* The ticker starts a batch every second, the HTTP client's timeout ends every
\* POST, and the clock runs.
FairSpec == Spec /\ WF_vars(Tick) /\ \A w \in Workers : WF_vars(Work(w))

(***************************************************************************)
(* Properties.                                                             *)
(***************************************************************************)
\* Every variable stays in its type.
TypeOK ==
    /\ status \in [Deliveries -> {"ABSENT", "PENDING", "PROCESSING"} \cup Terminal]
    /\ attempts \in [Deliveries -> Nat]
    /\ delay \in [Deliveries -> Nat]
    /\ todo \in [Workers -> SUBSET Claims]
    /\ doing \in [Workers -> SUBSET Results]
    /\ posts \in [Deliveries -> Nat]
    /\ unmade \in [Deliveries -> Nat]
    /\ accepted \in [Deliveries -> BOOLEAN]
    /\ faults \in 0..MaxFaults

Held(w) == {[id |-> c.id, count |-> c.count] : c \in todo[w] \cup doing[w]}

\* A claim is held by one worker: after a lease expired two workers may work on
\* one delivery, but as two attempts.
ClaimsAreDistinct ==
    \A w, v \in Workers : w # v => Held(w) \cap Held(v) = {}

\* attempt_count is the truth about what was tried, a POST or a request that could not
\* be made: never fewer than it counts but for claims still waiting in a batch or
\* lost to a fault, and never more, wherever a worker crashed, because it is raised
\* before the POST, not after.
Tries(d) == posts[d] + unmade[d]
Waiting(d) == {w \in Workers : \E c \in todo[w] : c.id = d}
PostsAreCounted ==
    \A d \in Deliveries :
        /\ Tries(d) <= attempts[d]
        /\ attempts[d] <= Tries(d) + Cardinality(Waiting(d)) + faults

\* A delivery recorded as DELIVERED was accepted by its endpoint.
DeliveredWasAccepted == \A d \in Deliveries : status[d] = "DELIVERED" => accepted[d]

\* A delivery is given up only after the last attempt of the schedule was claimed and
\* one was tried: POSTed, or, where the endpoint's URL makes no request, never POSTed.
ExhaustedWasTried ==
    \A d \in Deliveries :
        status[d] = "EXHAUSTED" =>
            /\ attempts[d] >= AttemptLimit
            /\ IF d \in Unrequestable THEN unmade[d] > 0 /\ posts[d] = 0 ELSE posts[d] > 0

\* The schedule is exceeded only by what crashes, lost updates and competing
\* workers add to it.  A fault frees one worker to claim the row once more.  A
\* stale retry reopens an EXHAUSTED row at most once per other worker, and after
\* the k-th time k + 1 workers are free to let each other's lease expire: in all
\* 2 + ... + W claims more for W workers.
AttemptsBounded ==
    LET W == Cardinality(Workers) IN
    \A d \in Deliveries :
        attempts[d] <= AttemptLimit + faults + ((W - 1) * (W + 2)) \div 2

\* Every queued delivery is delivered or given up in the end, and stays so: no
\* crash, lost update or expired lease strands one.
EventuallySettled ==
    \A d \in Deliveries : <>[](status[d] \in Terminal \cup {"ABSENT"})

(***************************************************************************)
(* What the documents say and the code does not do.                        *)
(***************************************************************************)
\* DATABASE.md: "success -> DELIVERED"; only a failed delivery is retried.
DeliveredStays ==
    [][\A d \in Deliveries : status[d] = "DELIVERED" => status'[d] = "DELIVERED"]_vars
=============================================================================
