------------------------ MODULE WebhookWorkerProofs ------------------------
(***************************************************************************)
(* Theorems of WebhookWorker, for any number of deliveries and processes,  *)
(* any batch size, schedule and lease, and any number of faults.           *)
(*                                                                         *)
(* The argument rests on what the memory of a worker says of the row:      *)
(* a claim never carries more attempts than the row counts, and a recorded *)
(* answer is an answer the endpoint gave, or none where no request could   *)
(* be made.                                                                *)
(***************************************************************************)
EXTENDS WebhookWorker, FiniteSetTheorems, TLAPS

\* One was tried: POSTed where the URL makes a request, and only there.
Tried(d) == IF d \in Unrequestable THEN unmade[d] > 0 /\ posts[d] = 0 ELSE posts[d] > 0

\* What a worker remembers of its batch agrees with the row, however stale.
ClaimsInv ==
    \A w \in Workers :
        /\ \A c \in todo[w] : c.count <= attempts[c.id]
        /\ \A c \in doing[w] :
             /\ c.count <= attempts[c.id]
             /\ Tried(c.id)
             /\ c.ok => accepted[c.id]

\* Only a URL that makes a request is POSTed to.
UnmadeInv == \A d \in Unrequestable : posts[d] = 0

\* One worker, one claim: also between what waits and what has been posted.
HeldInv ==
    \A w, v \in Workers : w # v => Held(w) \cap Held(v) = {}

\* What a settled row says happened did happen.
SettledInv ==
    \A d \in Deliveries :
        /\ status[d] = "DELIVERED" => accepted[d]
        /\ status[d] = "EXHAUSTED" => attempts[d] >= AttemptLimit /\ Tried(d)

(***************************************************************************)
(* Type correctness.                                                       *)
(***************************************************************************)
\* The interval of a retry is in the list, and the clamps of its index do not move it.
LEMMA RetryDelayType ==
    ASSUME NEW n \in Nat \ {0}, ~LastAttempt(n)
    PROVE  RetryDelay(n) \in Nat
<1>1. n \in 1..(AttemptLimit - 1) /\ AttemptLimit > 1
  BY WorkerAssumption DEF LastAttempt
<1>2. RetryIntervals \in [1..(AttemptLimit - 1) -> Nat]
  BY <1>1, WorkerAssumption
<1>3. IntervalIndex(n) = n
  BY <1>1, WorkerAssumption DEF IntervalIndex
<1> QED
  BY <1>1, <1>2, <1>3 DEF RetryDelay

\* Recording a result keeps every variable in its type.
LEMMA RecordType ==
    ASSUME TypeOK, NEW w \in Workers, NEW c \in doing[w],
           NEW s \in {"PENDING", "DELIVERED", "EXHAUSTED"}, NEW n \in Nat,
           Record(w, c, s, n)
    PROVE  TypeOK'
<1>1. c \in Results
  BY DEF TypeOK
<1>2. status' \in [Deliveries -> {"ABSENT", "PENDING", "PROCESSING"} \cup Terminal]
  BY <1>1 DEF TypeOK, Record, Results, Terminal
<1>3. delay' \in [Deliveries -> Nat]
  BY <1>1 DEF TypeOK, Record, Results
<1>4. doing' \in [Workers -> SUBSET Results]
  BY DEF TypeOK, Record
<1> QED
  BY <1>2, <1>3, <1>4 DEF TypeOK, Record, endpoint, Claims

\* An answer is of the row that was claimed.
LEMMA AnswerType ==
    ASSUME TypeOK, NEW w \in Workers, NEW c \in todo[w], NEW ok \in BOOLEAN, Answer(w, c, ok)
    PROVE  todo' \in [Workers -> SUBSET Claims] /\ doing' \in [Workers -> SUBSET Results]
<1>1. c \in Claims
  BY DEF TypeOK
<1>2. {[id |-> c.id, count |-> c.count, ok |-> ok]} \subseteq Results
  BY <1>1 DEF Claims, Results
<1> QED
  BY <1>2 DEF TypeOK, Answer

\* Every step keeps every variable in its type.
LEMMA TypeStep == TypeOK /\ [Next]_vars => TypeOK'
<1> SUFFICES ASSUME TypeOK, [Next]_vars PROVE TypeOK'
  OBVIOUS
<1>1. ASSUME NEW D \in SUBSET Deliveries, Queue(D) PROVE TypeOK'
  BY <1>1 DEF TypeOK, Queue, endpoint, Claims, Results, Terminal
<1>2. CASE Tick
  <2>1. delay' \in [Deliveries -> Nat]
    BY <1>2 DEF TypeOK, Tick
  <2> QED
    BY <1>2, <2>1 DEF TypeOK, Tick, endpoint, Claims, Results
<1>3. ASSUME NEW w \in Workers, Claim(w) PROVE TypeOK'
  <2>1. PICK B \in Batches, lease \in Leases :
          /\ status' = [d \in Deliveries |-> IF d \in B THEN "PROCESSING" ELSE status[d]]
          /\ delay' = [d \in Deliveries |-> IF d \in B THEN lease ELSE delay[d]]
          /\ attempts' = [d \in Deliveries |->
                            IF d \in B THEN CountAfterClaim(d) ELSE attempts[d]]
          /\ todo' = [todo EXCEPT ![w] =
                        {[id |-> d, count |-> CountAfterClaim(d)] : d \in B}]
    BY <1>3 DEF Claim
  <2>2. lease \in Nat /\ B \subseteq Deliveries
    BY <2>1, WorkerAssumption DEF Batches, Due
  <2>3. \A d \in Deliveries : CountAfterClaim(d) \in Nat \ {0}
    BY DEF TypeOK, CountAfterClaim
  <2>4. status' \in [Deliveries -> {"ABSENT", "PENDING", "PROCESSING"} \cup Terminal]
    BY <2>1 DEF TypeOK
  <2>5. delay' \in [Deliveries -> Nat] /\ attempts' \in [Deliveries -> Nat]
    BY <2>1, <2>2, <2>3 DEF TypeOK
  <2>6. {[id |-> d, count |-> CountAfterClaim(d)] : d \in B} \subseteq Claims
    BY <2>2, <2>3 DEF Claims
  <2>7. todo' \in [Workers -> SUBSET Claims]
    BY <2>1, <2>6 DEF TypeOK
  <2> QED
    BY <1>3, <2>4, <2>5, <2>7 DEF TypeOK, Claim, endpoint, Results
<1>4. ASSUME NEW w \in Workers, Post(w) PROVE TypeOK'
  <2>1. PICK c \in todo[w], ok \in BOOLEAN, taken \in BOOLEAN :
          /\ Answer(w, c, ok)
          /\ posts' = [posts EXCEPT ![c.id] = @ + 1]
          /\ accepted' = [accepted EXCEPT ![c.id] = @ \/ taken]
    BY <1>4 DEF Post
  <2>2. c.id \in Deliveries
    BY DEF TypeOK, Claims
  <2>3. todo' \in [Workers -> SUBSET Claims] /\ doing' \in [Workers -> SUBSET Results]
    BY <2>1, AnswerType
  <2>4. posts' \in [Deliveries -> Nat]
    BY <2>1, <2>2 DEF TypeOK
  <2>5. accepted' \in [Deliveries -> BOOLEAN]
    BY <2>1, <2>2 DEF TypeOK
  <2> QED
    BY <1>4, <2>3, <2>4, <2>5 DEF TypeOK, Post, rows, Terminal
<1>10. ASSUME NEW w \in Workers, FailRequest(w) PROVE TypeOK'
  <2>1. PICK c \in todo[w] :
          Answer(w, c, FALSE) /\ unmade' = [unmade EXCEPT ![c.id] = @ + 1]
    BY <1>10 DEF FailRequest
  <2>2. todo' \in [Workers -> SUBSET Claims] /\ doing' \in [Workers -> SUBSET Results]
    BY <2>1, AnswerType
  <2>3. unmade' \in [Deliveries -> Nat]
    BY <2>1 DEF TypeOK, Claims
  <2> QED
    BY <1>10, <2>2, <2>3 DEF TypeOK, FailRequest, rows, Terminal
<1>5. ASSUME NEW w \in Workers, MarkDelivered(w) PROVE TypeOK'
  <2>1. PICK c \in doing[w] : Record(w, c, "DELIVERED", delay[c.id])
    BY <1>5 DEF MarkDelivered
  <2>2. delay[c.id] \in Nat
    BY DEF TypeOK, Results
  <2> QED
    BY <2>1, <2>2, RecordType
<1>6. ASSUME NEW w \in Workers, MarkExhausted(w) PROVE TypeOK'
  <2>1. PICK c \in doing[w] : Record(w, c, "EXHAUSTED", delay[c.id])
    BY <1>6 DEF MarkExhausted
  <2>2. delay[c.id] \in Nat
    BY DEF TypeOK, Results
  <2> QED
    BY <2>1, <2>2, RecordType
<1>7. ASSUME NEW w \in Workers, MarkRetry(w) PROVE TypeOK'
  <2>1. PICK c \in doing[w] :
          ~LastAttempt(c.count) /\ Record(w, c, "PENDING", RetryDelay(c.count))
    BY <1>7 DEF MarkRetry
  <2>2. c.count \in Nat \ {0}
    BY DEF TypeOK, Results
  <2>3. RetryDelay(c.count) \in Nat
    BY <2>1, <2>2, RetryDelayType
  <2> QED
    BY <2>1, <2>3, RecordType
<1>8. ASSUME NEW w \in Workers, LoseRecord(w) \/ Crash(w) PROVE TypeOK'
  <2>1. todo' \in [Workers -> SUBSET Claims]
    BY <1>8 DEF TypeOK, LoseRecord, Crash
  <2>2. doing' \in [Workers -> SUBSET Results]
    BY <1>8 DEF TypeOK, LoseRecord, Crash
  <2>3. faults' \in 0..MaxFaults
    BY <1>8, WorkerAssumption DEF TypeOK, LoseRecord, Crash
  <2> QED
    BY <1>8, <2>1, <2>2, <2>3 DEF TypeOK, LoseRecord, Crash, rows, endpoint
<1>9. CASE UNCHANGED vars
  BY <1>9 DEF TypeOK, vars, rows, endpoint
<1> QED
  BY <1>1, <1>2, <1>3, <1>4, <1>5, <1>6, <1>7, <1>8, <1>9, <1>10 DEF Next, Work, Quiescent

\* Every variable stays in its type: handleFailure always has a delay to record.
THEOREM TypeCorrect == Spec => []TypeOK
<1>1. Init => TypeOK
  BY WorkerAssumption DEF Init, TypeOK, Terminal
<1> QED
  BY <1>1, TypeStep, PTL DEF Spec

(***************************************************************************)
(* The memory of the workers, and the rows they settle.                    *)
(***************************************************************************)
WorkerInv == ClaimsInv /\ UnmadeInv /\ HeldInv /\ SettledInv

\* A worker that does not claim holds nothing new.
LEMMA HeldShrinks ==
    ASSUME HeldInv, \A w \in Workers : Held(w)' \subseteq Held(w)
    PROVE  HeldInv'
BY DEF HeldInv

\* What a worker holds carries at most the attempts of the row.
LEMMA HeldCount ==
    ASSUME TypeOK, ClaimsInv, NEW w \in Workers, NEW h \in Held(w)
    PROVE  h.id \in Deliveries /\ h.count \in Nat /\ h.count <= attempts[h.id]
<1>1. PICK c \in todo[w] \cup doing[w] : h = [id |-> c.id, count |-> c.count]
  BY DEF Held
<1>2. c.id \in Deliveries /\ c.count \in Nat
  BY DEF TypeOK, Claims, Results
<1>3. c.count <= attempts[c.id]
  BY DEF ClaimsInv
<1> QED
  BY <1>1, <1>2, <1>3

\* Recording a result leaves the other workers' memory alone.
LEMMA RecordStep ==
    ASSUME TypeOK, WorkerInv, NEW w \in Workers, NEW c \in doing[w],
           NEW s \in {"PENDING", "DELIVERED", "EXHAUSTED"}, NEW n \in Nat,
           Record(w, c, s, n),
           s = "DELIVERED" => accepted[c.id],
           s = "EXHAUSTED" => attempts[c.id] >= AttemptLimit /\ Tried(c.id)
    PROVE  WorkerInv'
<1>1. \A v \in Workers : todo'[v] = todo[v] /\ doing'[v] \subseteq doing[v]
  BY DEF TypeOK, Record
<1>2. ClaimsInv'
  BY <1>1 DEF WorkerInv, ClaimsInv, Tried, Record, endpoint
<1>3. HeldInv'
  BY <1>1, HeldShrinks DEF WorkerInv, Held
<1>4. SettledInv'
  <2>1. \A d \in Deliveries : status'[d] = IF d = c.id THEN s ELSE status[d]
    BY DEF TypeOK, Record
  <2> QED
    BY <2>1 DEF WorkerInv, SettledInv, Tried, Record, endpoint
<1> QED
  BY <1>2, <1>3, <1>4 DEF WorkerInv, UnmadeInv, Record, endpoint

\* Claiming: the counts handed out are new.
LEMMA ClaimStep ==
    ASSUME TypeOK, WorkerInv, NEW w \in Workers, Claim(w)
    PROVE  WorkerInv'
<1>1. PICK B \in Batches, lease \in Leases :
        /\ status' = [d \in Deliveries |-> IF d \in B THEN "PROCESSING" ELSE status[d]]
        /\ attempts' = [d \in Deliveries |->
                          IF d \in B THEN CountAfterClaim(d) ELSE attempts[d]]
        /\ todo' = [todo EXCEPT ![w] =
                      {[id |-> d, count |-> CountAfterClaim(d)] : d \in B}]
  BY DEF Claim
<1>2. B \subseteq Deliveries
  BY DEF Batches, Due
<1>3. todo[w] = {} /\ doing[w] = {} /\ UNCHANGED <<doing, posts, unmade, accepted>>
  BY DEF Claim, endpoint
<1>4. \A d \in Deliveries : attempts[d] \in Nat /\ attempts'[d] \in Nat /\ attempts[d] <= attempts'[d]
  BY <1>1 DEF TypeOK, CountAfterClaim
<1>5. \A v \in Workers \ {w} : todo'[v] = todo[v]
  BY <1>1 DEF TypeOK
<1>6. todo'[w] = {[id |-> d, count |-> attempts[d] + 1] : d \in B}
  BY <1>1 DEF TypeOK, CountAfterClaim
<1>7. \A d \in B : attempts'[d] = attempts[d] + 1
  BY <1>1, <1>2 DEF CountAfterClaim
<1>8. ClaimsInv'
  <2>1. ASSUME NEW v \in Workers, NEW c \in todo'[v] PROVE c.count <= attempts'[c.id]
    <3>1. CASE v = w
      BY <1>2, <1>4, <1>6, <1>7, <2>1, <3>1
    <3>2. CASE v # w
      <4>1. c \in todo[v] /\ c \in Claims
        BY <1>5, <2>1, <3>2 DEF TypeOK
      <4> QED
        BY <1>4, <4>1 DEF WorkerInv, ClaimsInv, Claims
    <3> QED
      BY <3>1, <3>2
  <2>2. ASSUME NEW v \in Workers, NEW c \in doing'[v]
        PROVE  c.count <= attempts'[c.id] /\ Tried(c.id)' /\ (c.ok => accepted'[c.id])
    <3>1. c \in doing[v] /\ c \in Results
      BY <1>3, <2>2 DEF TypeOK
    <3> QED
      BY <1>3, <1>4, <3>1 DEF WorkerInv, ClaimsInv, Tried, Results
  <2> QED
    BY <2>1, <2>2 DEF ClaimsInv
<1>9. HeldInv'
  <2>1. \A v \in Workers \ {w} : Held(v)' = Held(v)
    BY <1>3, <1>5 DEF Held
  <2>2. ASSUME NEW h \in Held(w)' PROVE h.id \in Deliveries /\ h.count = attempts[h.id] + 1
    <3>1. PICK c \in todo'[w] \cup doing'[w] : h = [id |-> c.id, count |-> c.count]
      BY <2>2 DEF Held
    <3>2. c \in todo'[w]
      BY <1>3, <3>1
    <3> QED
      BY <1>2, <1>6, <3>1, <3>2
  <2>3. ASSUME NEW v \in Workers \ {w}, NEW h \in Held(v) PROVE h \notin Held(w)'
    <3>1. h.id \in Deliveries /\ h.count \in Nat /\ h.count <= attempts[h.id]
      BY <2>3, HeldCount DEF WorkerInv
    <3>2. attempts[h.id] \in Nat
      BY <1>4, <3>1
    <3> QED
      BY <2>2, <3>1, <3>2
  <2> QED
    BY <2>1, <2>3 DEF WorkerInv, HeldInv
<1>10. SettledInv'
  <2>1. ASSUME NEW d \in Deliveries, status'[d] \in Terminal
        PROVE  status[d] = status'[d] /\ attempts'[d] = attempts[d]
    BY <1>1, <2>1 DEF Terminal, TypeOK
  <2> QED
    BY <1>3, <2>1 DEF WorkerInv, SettledInv, Tried, Terminal
<1> QED
  BY <1>3, <1>8, <1>9, <1>10 DEF WorkerInv, UnmadeInv

\* What an answer adds to what is known of its row.
LEMMA TriedMore ==
    ASSUME TypeOK, UnmadeInv, NEW w \in Workers, Post(w) \/ FailRequest(w)
    PROVE  \E c \in todo[w], ok \in BOOLEAN :
             /\ Answer(w, c, ok) /\ Tried(c.id)' /\ (ok => accepted'[c.id])
             /\ \A d \in Deliveries : /\ Tried(d) => Tried(d)'
                                      /\ accepted[d] => accepted'[d]
             /\ UnmadeInv'
<1>1. CASE Post(w)
  <2>1. PICK c \in todo[w], ok \in BOOLEAN, taken \in BOOLEAN :
          /\ c.id \notin Unrequestable
          /\ ok => taken
          /\ Answer(w, c, ok)
          /\ posts' = [posts EXCEPT ![c.id] = @ + 1]
          /\ accepted' = [accepted EXCEPT ![c.id] = @ \/ taken]
    BY <1>1 DEF Post
  <2>2. c.id \in Deliveries /\ unmade' = unmade
    BY <1>1 DEF Post, TypeOK, Claims
  <2>3. Tried(c.id)' /\ \A d \in Deliveries : Tried(d) => Tried(d)'
    BY <2>1, <2>2 DEF Tried, TypeOK
  <2>4. (ok => accepted'[c.id]) /\ \A d \in Deliveries : accepted[d] => accepted'[d]
    BY <2>1, <2>2 DEF TypeOK
  <2>5. UnmadeInv'
    BY <2>1, <2>2, WorkerAssumption DEF UnmadeInv, TypeOK
  <2> QED
    BY <2>1, <2>3, <2>4, <2>5
<1>2. CASE FailRequest(w)
  <2>1. PICK c \in todo[w] :
          /\ c.id \in Unrequestable /\ Answer(w, c, FALSE)
          /\ unmade' = [unmade EXCEPT ![c.id] = @ + 1]
    BY <1>2 DEF FailRequest
  <2>2. c.id \in Deliveries /\ UNCHANGED <<posts, accepted>>
    BY <1>2 DEF FailRequest, TypeOK, Claims
  <2>3. Tried(c.id)' /\ \A d \in Deliveries : Tried(d) => Tried(d)'
    BY <2>1, <2>2 DEF Tried, UnmadeInv, TypeOK
  <2> QED
    BY <2>1, <2>2, <2>3 DEF UnmadeInv
<1> QED
  BY <1>1, <1>2

\* Posting, or failing to: the claim moves from the batch to the answer.
LEMMA PostStep ==
    ASSUME TypeOK, WorkerInv, NEW w \in Workers, Post(w) \/ FailRequest(w)
    PROVE  WorkerInv'
<1>1. PICK c \in todo[w], ok \in BOOLEAN :
        /\ Answer(w, c, ok) /\ Tried(c.id)' /\ (ok => accepted'[c.id])
        /\ \A d \in Deliveries : (Tried(d) => Tried(d)') /\ (accepted[d] => accepted'[d])
        /\ UnmadeInv'
  BY TriedMore DEF WorkerInv
<1>2. c.id \in Deliveries /\ c.count \in Nat
  BY DEF TypeOK, Claims
<1>3. attempts' = attempts /\ status' = status
  BY DEF Post, FailRequest, rows
<1>4. \A v \in Workers : todo'[v] \subseteq todo[v]
  BY <1>1 DEF TypeOK, Answer
<1>5. /\ doing'[w] = {[id |-> c.id, count |-> c.count, ok |-> ok]}
      /\ \A v \in Workers \ {w} : doing'[v] = doing[v]
  BY <1>1 DEF TypeOK, Answer
<1>6. ClaimsInv'
  <2>1. ASSUME NEW v \in Workers, NEW e \in todo'[v] PROVE e.count <= attempts'[e.id]
    BY <1>3, <1>4, <2>1 DEF WorkerInv, ClaimsInv
  <2>2. ASSUME NEW v \in Workers, NEW e \in doing'[v]
        PROVE  e.count <= attempts'[e.id] /\ Tried(e.id)' /\ (e.ok => accepted'[e.id])
    <3>1. CASE v = w
      <4>1. e.id = c.id /\ e.count = c.count /\ e.ok = ok
        BY <1>5, <2>2, <3>1
      <4>2. c.count <= attempts[c.id]
        BY DEF WorkerInv, ClaimsInv
      <4> QED
        BY <1>1, <1>3, <4>1, <4>2
    <3>2. CASE v # w
      <4>1. e \in doing[v] /\ e.id \in Deliveries
        BY <1>5, <2>2, <3>2 DEF TypeOK, Results
      <4> QED
        BY <1>1, <1>3, <4>1 DEF WorkerInv, ClaimsInv
    <3> QED
      BY <3>1, <3>2
  <2> QED
    BY <2>1, <2>2 DEF ClaimsInv
<1>7. HeldInv'
  <2>1. ASSUME NEW v \in Workers, NEW h \in Held(v)' PROVE h \in Held(v)
    <3>1. PICK e \in todo'[v] \cup doing'[v] : h = [id |-> e.id, count |-> e.count]
      BY <2>1 DEF Held
    <3>2. CASE e \in todo'[v]
      BY <1>4, <3>1, <3>2 DEF Held
    <3>3. CASE e \in doing'[v] /\ v # w
      BY <1>5, <3>1, <3>3 DEF Held
    <3>4. CASE e \in doing'[v] /\ v = w
      BY <1>5, <3>1, <3>4 DEF Held
    <3> QED
      BY <3>1, <3>2, <3>3, <3>4
  <2> QED
    BY <2>1, HeldShrinks DEF WorkerInv
<1>8. SettledInv'
  BY <1>1, <1>3 DEF WorkerInv, SettledInv
<1> QED
  BY <1>1, <1>6, <1>7, <1>8 DEF WorkerInv

\* Every step keeps the invariant.
LEMMA WorkerStep == TypeOK /\ WorkerInv /\ [Next]_vars => WorkerInv'
<1> SUFFICES ASSUME TypeOK, WorkerInv, [Next]_vars PROVE WorkerInv'
  OBVIOUS
<1>1. ASSUME NEW D \in SUBSET Deliveries, Queue(D) PROVE WorkerInv'
  <2>1. ClaimsInv'
    BY <1>1 DEF WorkerInv, ClaimsInv, Tried, Queue, endpoint
  <2>2. HeldInv'
    BY <1>1 DEF WorkerInv, HeldInv, Held, Queue
  <2>3. SettledInv'
    BY <1>1 DEF TypeOK, WorkerInv, SettledInv, Tried, Queue, endpoint
  <2> QED
    BY <1>1, <2>1, <2>2, <2>3 DEF WorkerInv, UnmadeInv, Queue, endpoint
<1>2. CASE Tick
  BY <1>2 DEF WorkerInv, ClaimsInv, UnmadeInv, HeldInv, Held, SettledInv, Tried, Tick, endpoint
<1>3. ASSUME NEW w \in Workers, Claim(w) PROVE WorkerInv'
  BY <1>3, ClaimStep
<1>4. ASSUME NEW w \in Workers, Post(w) \/ FailRequest(w) PROVE WorkerInv'
  BY <1>4, PostStep
<1>5. ASSUME NEW w \in Workers, MarkDelivered(w) PROVE WorkerInv'
  <2>1. PICK c \in doing[w] : c.ok /\ Record(w, c, "DELIVERED", delay[c.id])
    BY <1>5 DEF MarkDelivered
  <2>2. delay[c.id] \in Nat /\ accepted[c.id]
    BY <2>1 DEF TypeOK, Results, WorkerInv, ClaimsInv
  <2> QED
    BY <2>1, <2>2, RecordStep
<1>6. ASSUME NEW w \in Workers, MarkExhausted(w) PROVE WorkerInv'
  <2>1. PICK c \in doing[w] : LastAttempt(c.count) /\ Record(w, c, "EXHAUSTED", delay[c.id])
    BY <1>6 DEF MarkExhausted
  <2>2. delay[c.id] \in Nat /\ c.count \in Nat /\ attempts[c.id] \in Nat
    BY DEF TypeOK, Results
  <2>3. c.count <= attempts[c.id] /\ Tried(c.id)
    BY DEF WorkerInv, ClaimsInv
  <2>4. attempts[c.id] >= AttemptLimit
    BY <2>1, <2>2, <2>3, WorkerAssumption DEF LastAttempt
  <2> QED
    BY <2>1, <2>2, <2>3, <2>4, RecordStep
<1>7. ASSUME NEW w \in Workers, MarkRetry(w) PROVE WorkerInv'
  <2>1. PICK c \in doing[w] :
          ~LastAttempt(c.count) /\ Record(w, c, "PENDING", RetryDelay(c.count))
    BY <1>7 DEF MarkRetry
  <2>2. RetryDelay(c.count) \in Nat
    BY <2>1, RetryDelayType DEF TypeOK, Results
  <2> QED
    BY <2>1, <2>2, RecordStep
<1>8. ASSUME NEW w \in Workers, LoseRecord(w) \/ Crash(w) PROVE WorkerInv'
  <2>1. \A v \in Workers : todo'[v] \subseteq todo[v] /\ doing'[v] \subseteq doing[v]
    BY <1>8 DEF TypeOK, LoseRecord, Crash
  <2>2. UNCHANGED <<rows, endpoint>>
    BY <1>8 DEF LoseRecord, Crash
  <2>3. ClaimsInv'
    BY <2>1, <2>2 DEF WorkerInv, ClaimsInv, Tried, rows, endpoint
  <2>4. HeldInv'
    BY <2>1, HeldShrinks DEF WorkerInv, Held
  <2>5. SettledInv'
    BY <2>2 DEF WorkerInv, SettledInv, Tried, rows, endpoint
  <2> QED
    BY <2>2, <2>3, <2>4, <2>5 DEF WorkerInv, UnmadeInv, endpoint
<1>9. CASE UNCHANGED vars
  BY <1>9
  DEF WorkerInv, ClaimsInv, UnmadeInv, HeldInv, Held, SettledInv, Tried, vars, rows, endpoint
<1> QED
  BY <1>1, <1>2, <1>3, <1>4, <1>5, <1>6, <1>7, <1>8, <1>9 DEF Next, Work, Quiescent

\* The inductive invariant holds in every reachable state.
THEOREM WorkerInvariant == Spec => []WorkerInv
<1>1. Init => TypeOK /\ WorkerInv
  BY WorkerAssumption
  DEF Init, TypeOK, Terminal, WorkerInv, ClaimsInv, UnmadeInv, HeldInv, Held, SettledInv
<1>2. TypeOK /\ WorkerInv /\ [Next]_vars => (TypeOK /\ WorkerInv)'
  BY TypeStep, WorkerStep
<1> QED
  BY <1>1, <1>2, PTL DEF Spec

\* Two workers never hold the same attempt of a delivery, however late they are.
THEOREM ClaimsAreNeverShared == Spec => []ClaimsAreDistinct
<1>1. WorkerInv => ClaimsAreDistinct
  BY DEF WorkerInv, HeldInv, ClaimsAreDistinct
<1> QED
  BY <1>1, WorkerInvariant, PTL

\* DELIVERED is never recorded for a delivery its endpoint did not accept.
THEOREM DeliveredIsTruthful == Spec => []DeliveredWasAccepted
<1>1. WorkerInv => DeliveredWasAccepted
  BY DEF WorkerInv, SettledInv, DeliveredWasAccepted
<1> QED
  BY <1>1, WorkerInvariant, PTL

\* EXHAUSTED is never recorded before the last attempt of the schedule, nor of a delivery
\* that was not POSTed but for a URL that makes no request.
THEOREM ExhaustedIsTruthful == Spec => []ExhaustedWasTried
<1>1. WorkerInv => ExhaustedWasTried
  BY DEF WorkerInv, SettledInv, Tried, ExhaustedWasTried
<1> QED
  BY <1>1, WorkerInvariant, PTL

(***************************************************************************)
(* Counting.  Whom a delivery occupies: the workers with a claim of it in  *)
(* their batch (Waiting), posted or not (Holders), and those whose claim   *)
(* is not the last attempt, so that it can still end in a retry (Early).   *)
(***************************************************************************)
Holders(d) == {w \in Workers : \E c \in todo[w] \cup doing[w] : c.id = d}
Early(d) ==
    {w \in Workers : \E c \in todo[w] \cup doing[w] : c.id = d /\ ~LastAttempt(c.count)}

\* A worker has a row once: in its batch, or as the one it has posted.
SingleInv ==
    \A w \in Workers :
        /\ \A b, c \in todo[w] : b.id = c.id => b = c
        /\ \A c \in todo[w], e \in doing[w] : c.id # e.id
        /\ \A b, e \in doing[w] : b = e

\* Every claim counted was tried, is in a batch, or was lost to a fault.
PostsInv ==
    \A d \in Deliveries :
        /\ Tries(d) + Cardinality(Waiting(d)) <= attempts[d]
        /\ attempts[d] <= Tries(d) + Cardinality(Waiting(d)) + faults

\* Twice the claims that n early workers can still cause, of an exhausted row: the
\* first of them to fail reopens it for all who are free then, itself included.
Reopenings(n) == n * (2 * Cardinality(Workers) - n + 1)
Free(d) == IF status[d] \in Terminal THEN 0 ELSE Cardinality(Workers) - Cardinality(Holders(d))

\* Past the limit, the claims made and the claims that can still come are bounded.
BoundInv ==
    \A d \in Deliveries : attempts[d] >= AttemptLimit =>
        2 * attempts[d] + 2 * Free(d) + Reopenings(Cardinality(Early(d)))
          <= 2 * AttemptLimit + 2 * faults
             + (Cardinality(Workers) - 1) * (Cardinality(Workers) + 2)

CountInv == SingleInv /\ PostsInv /\ BoundInv

\* What a step that claims does to the memory of the workers and to the rows.
LEMMA ClaimMemory ==
    ASSUME TypeOK, NEW w \in Workers, Claim(w)
    PROVE  \E B \in SUBSET Due :
             /\ todo[w] = {} /\ doing[w] = {} /\ doing' = doing
             /\ todo'[w] = {[id |-> d, count |-> attempts[d] + 1] : d \in B}
             /\ \A v \in Workers \ {w} : todo'[v] = todo[v]
             /\ \A d \in B : attempts'[d] = attempts[d] + 1 /\ status'[d] = "PROCESSING"
             /\ \A d \in Deliveries \ B : attempts'[d] = attempts[d] /\ status'[d] = status[d]
             /\ UNCHANGED <<posts, unmade, faults>>
<1>1. PICK B \in Batches, lease \in Leases :
        /\ status' = [d \in Deliveries |-> IF d \in B THEN "PROCESSING" ELSE status[d]]
        /\ attempts' = [d \in Deliveries |->
                          IF d \in B THEN CountAfterClaim(d) ELSE attempts[d]]
        /\ todo' = [todo EXCEPT ![w] =
                      {[id |-> d, count |-> CountAfterClaim(d)] : d \in B}]
  BY DEF Claim
<1>2. B \in SUBSET Due /\ B \subseteq Deliveries
  BY DEF Batches, Due
<1>3. todo[w] = {} /\ doing[w] = {} /\ UNCHANGED <<doing, posts, unmade, faults>>
  BY DEF Claim, endpoint
<1>4. todo'[w] = {[id |-> d, count |-> attempts[d] + 1] : d \in B}
  BY <1>1 DEF TypeOK, CountAfterClaim
<1>5. \A v \in Workers \ {w} : todo'[v] = todo[v]
  BY <1>1 DEF TypeOK
<1>6. \A d \in B : attempts'[d] = attempts[d] + 1 /\ status'[d] = "PROCESSING"
  BY <1>1, <1>2 DEF CountAfterClaim
<1>7. \A d \in Deliveries \ B : attempts'[d] = attempts[d] /\ status'[d] = status[d]
  BY <1>1
<1> QED
  BY <1>2, <1>3, <1>4, <1>5, <1>6, <1>7

\* ... what a POST does, or the lack of one,
LEMMA PostMemory ==
    ASSUME TypeOK, NEW w \in Workers, Post(w) \/ FailRequest(w)
    PROVE  \E c \in todo[w], e \in Results :
             /\ e.id = c.id /\ e.count = c.count
             /\ doing[w] = {} /\ doing'[w] = {e} /\ todo'[w] = todo[w] \ {c}
             /\ \A v \in Workers \ {w} : todo'[v] = todo[v] /\ doing'[v] = doing[v]
             /\ \A d \in Deliveries : Tries(d)' = IF d = c.id THEN Tries(d) + 1 ELSE Tries(d)
             /\ UNCHANGED <<status, attempts, faults>>
<1>1. PICK c \in todo[w], ok \in BOOLEAN :
        /\ Answer(w, c, ok)
        /\ \/ posts' = [posts EXCEPT ![c.id] = @ + 1] /\ unmade' = unmade
           \/ unmade' = [unmade EXCEPT ![c.id] = @ + 1] /\ posts' = posts
  BY DEF Post, FailRequest
<1> DEFINE e == [id |-> c.id, count |-> c.count, ok |-> ok]
<1>2. c \in Claims
  BY DEF TypeOK
<1>3. e \in Results /\ e.id = c.id /\ e.count = c.count
  BY <1>2 DEF Claims, Results
<1>4. doing[w] = {} /\ UNCHANGED <<status, attempts, faults>>
  BY <1>1 DEF Post, FailRequest, Answer, rows
<1>5. doing'[w] = {e} /\ todo'[w] = todo[w] \ {c}
  BY <1>1 DEF TypeOK, Answer
<1>6. \A v \in Workers \ {w} : todo'[v] = todo[v] /\ doing'[v] = doing[v]
  BY <1>1 DEF TypeOK, Answer
<1>7. \A d \in Deliveries : Tries(d)' = IF d = c.id THEN Tries(d) + 1 ELSE Tries(d)
  BY <1>1 DEF TypeOK, Tries
<1> HIDE DEF e
<1> QED
  BY <1>3, <1>4, <1>5, <1>6, <1>7

\* ... what recording a result does,
LEMMA RecordMemory ==
    ASSUME TypeOK, SingleInv, NEW w \in Workers, NEW c \in doing[w],
           NEW s \in {"PENDING", "DELIVERED", "EXHAUSTED"}, NEW n \in Nat,
           Record(w, c, s, n)
    PROVE  /\ c.id \in Deliveries
           /\ doing[w] = {c} /\ doing'[w] = {} /\ todo' = todo
           /\ \A v \in Workers \ {w} : doing'[v] = doing[v]
           /\ \A d \in Deliveries : status'[d] = IF d = c.id THEN s ELSE status[d]
           /\ UNCHANGED <<attempts, posts, unmade, faults>>
<1>1. c.id \in Deliveries
  BY DEF TypeOK, Results
<1>2. doing[w] = {c}
  BY DEF SingleInv
<1>3. doing'[w] = {} /\ \A v \in Workers \ {w} : doing'[v] = doing[v]
  BY DEF TypeOK, Record
<1>4. \A d \in Deliveries : status'[d] = IF d = c.id THEN s ELSE status[d]
  BY DEF TypeOK, Record
<1> QED
  BY <1>1, <1>2, <1>3, <1>4 DEF Record, endpoint

\* ... and what a fault does.
LEMMA FaultMemory ==
    ASSUME TypeOK, NEW w \in Workers, LoseRecord(w) \/ Crash(w)
    PROVE  /\ todo'[w] \in {todo[w], {}} /\ doing'[w] = {}
           /\ \A v \in Workers \ {w} : todo'[v] = todo[v] /\ doing'[v] = doing[v]
           /\ faults' = faults + 1
           /\ UNCHANGED <<status, attempts, posts, unmade>>
<1>1. CASE LoseRecord(w)
  BY <1>1 DEF LoseRecord, TypeOK, rows, endpoint
<1>2. CASE Crash(w)
  BY <1>2 DEF Crash, TypeOK, rows, endpoint
<1> QED
  BY <1>1, <1>2

\* What the memory of the others says does not change with that of w.
LEMMA OthersHold ==
    ASSUME NEW w \in Workers, NEW d,
           \A v \in Workers \ {w} : todo'[v] = todo[v] /\ doing'[v] = doing[v]
    PROVE  /\ Waiting(d)' \ {w} = Waiting(d) \ {w}
           /\ Holders(d)' \ {w} = Holders(d) \ {w}
           /\ Early(d)' \ {w} = Early(d) \ {w}
BY DEF Waiting, Holders, Early

\* Claims stay single.
LEMMA SingleStep == TypeOK /\ SingleInv /\ [Next]_vars => SingleInv'
<1> SUFFICES ASSUME TypeOK, SingleInv, [Next]_vars PROVE SingleInv'
  OBVIOUS
<1>1. ASSUME NEW w \in Workers, Claim(w) PROVE SingleInv'
  <2>1. PICK B \in SUBSET Due :
          /\ doing[w] = {} /\ doing' = doing
          /\ todo'[w] = {[id |-> d, count |-> attempts[d] + 1] : d \in B}
          /\ \A v \in Workers \ {w} : todo'[v] = todo[v]
    BY <1>1, ClaimMemory
  <2>2. \A b, c \in todo'[w] : b.id = c.id => b = c
    BY <2>1
  <2> QED
    BY <2>1, <2>2 DEF SingleInv
<1>2. ASSUME NEW w \in Workers, Post(w) \/ FailRequest(w) PROVE SingleInv'
  <2>1. PICK c \in todo[w], e \in Results :
          /\ e.id = c.id
          /\ doing'[w] = {e} /\ todo'[w] = todo[w] \ {c}
          /\ \A v \in Workers \ {w} : todo'[v] = todo[v] /\ doing'[v] = doing[v]
    BY <1>2, PostMemory
  <2>2. \A b \in todo'[w] : b.id # e.id
    BY <2>1 DEF SingleInv
  <2> QED
    BY <2>1, <2>2 DEF SingleInv
<1>3. ASSUME NEW w \in Workers, MarkDelivered(w) \/ MarkExhausted(w) \/ MarkRetry(w)
      PROVE  SingleInv'
  <2>1. todo' = todo /\ \A v \in Workers : doing'[v] \subseteq doing[v]
    BY <1>3 DEF MarkDelivered, MarkExhausted, MarkRetry, Record, TypeOK
  <2> QED
    BY <2>1 DEF SingleInv
<1>4. ASSUME NEW w \in Workers, LoseRecord(w) \/ Crash(w) PROVE SingleInv'
  BY <1>4, FaultMemory DEF SingleInv
<1>5. CASE Tick \/ UNCHANGED vars \/ \E D \in SUBSET Deliveries : Queue(D)
  BY <1>5 DEF SingleInv, Tick, Queue, vars
<1> QED
  BY <1>1, <1>2, <1>3, <1>4, <1>5 DEF Next, Work, Quiescent

(***************************************************************************)
(* The sets that are counted, and how a step changes them.                 *)
(***************************************************************************)
\* Any set of workers has a count, of at most all of them.
LEMMA WorkerSets ==
    ASSUME NEW S \in SUBSET Workers
    PROVE  Cardinality(S) \in Nat /\ Cardinality(S) <= Cardinality(Workers)
BY WorkerAssumption, FS_Subset, FS_CardinalityType

\* They are finite, and a worker whose claim is early is a holder.
LEMMA Counted ==
    ASSUME NEW d
    PROVE  /\ IsFiniteSet(Waiting(d)) /\ Cardinality(Waiting(d)) \in Nat
           /\ IsFiniteSet(Holders(d)) /\ Cardinality(Holders(d)) \in Nat
           /\ IsFiniteSet(Early(d)) /\ Cardinality(Early(d)) \in Nat
           /\ Cardinality(Workers) \in Nat
           /\ Early(d) \subseteq Holders(d) /\ Cardinality(Early(d)) <= Cardinality(Holders(d))
           /\ Cardinality(Holders(d)) <= Cardinality(Workers)
<1>1. IsFiniteSet(Workers) /\ Cardinality(Workers) \in Nat
  BY WorkerAssumption, FS_CardinalityType
<1>2. /\ Waiting(d) \in SUBSET Workers /\ Holders(d) \in SUBSET Workers
      /\ Early(d) \in SUBSET Holders(d) /\ Early(d) \in SUBSET Workers
  BY DEF Waiting, Holders, Early
<1>3. /\ IsFiniteSet(Waiting(d)) /\ IsFiniteSet(Holders(d)) /\ IsFiniteSet(Early(d))
      /\ Cardinality(Holders(d)) <= Cardinality(Workers)
  BY <1>1, <1>2, FS_Subset
<1>4. Cardinality(Early(d)) <= Cardinality(Holders(d))
  BY <1>2, <1>3, FS_Subset
<1> QED
  BY <1>1, <1>2, <1>3, <1>4, FS_CardinalityType

\* A worker more counts one more, ...
LEMMA OneMore ==
    ASSUME NEW S, NEW T, NEW x, IsFiniteSet(S), x \notin S, T = S \cup {x}
    PROVE  Cardinality(T) = Cardinality(S) + 1
BY FS_AddElement

\* ... one less,
LEMMA OneLess ==
    ASSUME NEW S, NEW T, NEW x, IsFiniteSet(S), T = S \ {x}
    PROVE  Cardinality(T) = IF x \in S THEN Cardinality(S) - 1 ELSE Cardinality(S)
BY FS_RemoveElement

\* ... none or one less,
LEMMA AtMostOneLess ==
    ASSUME NEW S, NEW T, NEW x, IsFiniteSet(S), T \subseteq S, S \ {x} \subseteq T
    PROVE  Cardinality(T) \in {Cardinality(S), Cardinality(S) - 1}
<1>1. T = S \/ (x \in S /\ T = S \ {x})
  OBVIOUS
<1> QED
  BY <1>1, FS_RemoveElement

\* ... and sets that agree on all workers but w differ by w at most.
LEMMA SameButOne ==
    ASSUME NEW S, NEW T, NEW x, T \ {x} = S \ {x}
    PROVE  /\ (x \in T <=> x \in S) => T = S
           /\ x \notin T => T = S \ {x}
           /\ x \in T => T = S \cup {x}
OBVIOUS

\* A claim makes a holder of a free worker, of rows that are not settled, ...
LEMMA ClaimCounts ==
    ASSUME TypeOK, NEW w \in Workers, Claim(w), NEW d \in Deliveries
    PROVE  /\ UNCHANGED <<posts, unmade, faults>>
           /\ \/ /\ status'[d] = status[d] /\ attempts'[d] = attempts[d]
                 /\ Waiting(d)' = Waiting(d) /\ Holders(d)' = Holders(d) /\ Early(d)' = Early(d)
              \/ /\ status[d] \notin Terminal /\ status'[d] \notin Terminal
                 /\ attempts'[d] = attempts[d] + 1
                 /\ w \notin Waiting(d) /\ Waiting(d)' = Waiting(d) \cup {w}
                 /\ w \notin Holders(d) /\ Holders(d)' = Holders(d) \cup {w}
                 /\ Early(d)' = IF LastAttempt(attempts[d] + 1) THEN Early(d) ELSE Early(d) \cup {w}
<1>1. PICK B \in SUBSET Due :
        /\ todo[w] = {} /\ doing[w] = {} /\ doing' = doing
        /\ todo'[w] = {[id |-> x, count |-> attempts[x] + 1] : x \in B}
        /\ \A v \in Workers \ {w} : todo'[v] = todo[v]
        /\ \A x \in B : attempts'[x] = attempts[x] + 1 /\ status'[x] = "PROCESSING"
        /\ \A x \in Deliveries \ B : attempts'[x] = attempts[x] /\ status'[x] = status[x]
        /\ UNCHANGED <<posts, unmade, faults>>
  BY ClaimMemory
<1>2. /\ Waiting(d)' \ {w} = Waiting(d) \ {w}
      /\ Holders(d)' \ {w} = Holders(d) \ {w}
      /\ Early(d)' \ {w} = Early(d) \ {w}
  BY <1>1, OthersHold
<1>3. w \notin Waiting(d) /\ w \notin Holders(d) /\ w \notin Early(d)
  BY <1>1 DEF Waiting, Holders, Early
<1>4. CASE d \notin B
  <2>1. w \notin Waiting(d)' /\ w \notin Holders(d)' /\ w \notin Early(d)'
    BY <1>1, <1>4 DEF Waiting, Holders, Early
  <2>2. Waiting(d)' = Waiting(d) /\ Holders(d)' = Holders(d) /\ Early(d)' = Early(d)
    BY <1>2, <1>3, <2>1, SameButOne
  <2> QED
    BY <1>1, <1>4, <2>2
<1>5. CASE d \in B
  <2> DEFINE c == [id |-> d, count |-> attempts[d] + 1]
  <2>1. c \in todo'[w] /\ \A e \in todo'[w] \cup doing'[w] : e.id = d => e = c
    BY <1>1, <1>5
  <2>2. c.id = d /\ c.count = attempts[d] + 1
    OBVIOUS
  <2> HIDE DEF c
  <2>3. w \in Waiting(d)' /\ w \in Holders(d)'
    BY <2>1, <2>2 DEF Waiting, Holders
  <2>4. w \in Early(d)' <=> ~LastAttempt(attempts[d] + 1)
    BY <2>1, <2>2 DEF Early, LastAttempt
  <2>5. status[d] \notin Terminal /\ status'[d] \notin Terminal
    BY <1>1, <1>5 DEF Due, Terminal
  <2>6. Early(d)' = IF LastAttempt(attempts[d] + 1) THEN Early(d) ELSE Early(d) \cup {w}
    BY <1>2, <1>3, <2>4
  <2> QED
    BY <1>1, <1>2, <1>3, <1>5, <2>3, <2>5, <2>6
<1> QED
  BY <1>4, <1>5

\* ... a try takes the row out of the batch and keeps its worker, ...
LEMMA PostCounts ==
    ASSUME TypeOK, SingleInv, NEW w \in Workers, Post(w) \/ FailRequest(w), NEW d \in Deliveries
    PROVE  /\ UNCHANGED <<status, attempts, faults>>
           /\ Holders(d)' = Holders(d) /\ Early(d)' = Early(d)
           /\ \/ Tries(d)' = Tries(d) /\ Waiting(d)' = Waiting(d)
              \/ /\ Tries(d)' = Tries(d) + 1
                 /\ w \in Waiting(d) /\ Waiting(d)' = Waiting(d) \ {w}
<1>1. PICK c \in todo[w], e \in Results :
        /\ e.id = c.id /\ e.count = c.count
        /\ doing[w] = {} /\ doing'[w] = {e} /\ todo'[w] = todo[w] \ {c}
        /\ \A v \in Workers \ {w} : todo'[v] = todo[v] /\ doing'[v] = doing[v]
        /\ \A x \in Deliveries : Tries(x)' = IF x = c.id THEN Tries(x) + 1 ELSE Tries(x)
        /\ UNCHANGED <<status, attempts, faults>>
  BY PostMemory
<1>2. /\ Waiting(d)' \ {w} = Waiting(d) \ {w}
      /\ Holders(d)' \ {w} = Holders(d) \ {w}
      /\ Early(d)' \ {w} = Early(d) \ {w}
  BY <1>1, OthersHold
<1>3. w \in Holders(d)' <=> w \in Holders(d)
  BY <1>1 DEF Holders
<1>4. w \in Early(d)' <=> w \in Early(d)
  BY <1>1 DEF Early, LastAttempt
<1>5. CASE d # c.id
  <2>1. w \in Waiting(d)' <=> w \in Waiting(d)
    BY <1>1, <1>5 DEF Waiting
  <2>2. Waiting(d)' = Waiting(d) /\ Holders(d)' = Holders(d) /\ Early(d)' = Early(d)
    BY <1>2, <1>3, <1>4, <2>1, SameButOne
  <2> QED
    BY <1>1, <1>5, <2>2
<1>6. CASE d = c.id
  <2>1. w \in Waiting(d)
    BY <1>1, <1>6 DEF Waiting
  <2>2. w \notin Waiting(d)'
    BY <1>1, <1>6 DEF Waiting, SingleInv
  <2>3. /\ Waiting(d)' = Waiting(d) \ {w}
        /\ Holders(d)' = Holders(d) /\ Early(d)' = Early(d)
    BY <1>2, <1>3, <1>4, <2>2, SameButOne
  <2> QED
    BY <1>1, <1>6, <2>1, <2>3
<1> QED
  BY <1>5, <1>6

\* ... recording a result frees the worker, ...
LEMMA RecordCounts ==
    ASSUME TypeOK, SingleInv, NEW w \in Workers, NEW c \in doing[w],
           NEW s \in {"PENDING", "DELIVERED", "EXHAUSTED"}, NEW n \in Nat,
           Record(w, c, s, n), NEW d \in Deliveries
    PROVE  /\ UNCHANGED <<attempts, posts, unmade, faults>> /\ Waiting(d)' = Waiting(d)
           /\ \/ /\ status'[d] = status[d]
                 /\ Holders(d)' = Holders(d) /\ Early(d)' = Early(d)
              \/ /\ status'[d] = s
                 /\ w \in Holders(d) /\ Holders(d)' = Holders(d) \ {w}
                 /\ Early(d)' = Early(d) \ {w}
                 /\ w \in Early(d) <=> ~LastAttempt(c.count)
<1>1. /\ c.id \in Deliveries
      /\ doing[w] = {c} /\ doing'[w] = {} /\ todo' = todo
      /\ \A v \in Workers \ {w} : doing'[v] = doing[v]
      /\ \A x \in Deliveries : status'[x] = IF x = c.id THEN s ELSE status[x]
      /\ UNCHANGED <<attempts, posts, unmade, faults>>
  BY RecordMemory
<1>2. Holders(d)' \ {w} = Holders(d) \ {w} /\ Early(d)' \ {w} = Early(d) \ {w}
  BY <1>1, OthersHold
<1>3. Waiting(d)' = Waiting(d)
  BY <1>1 DEF Waiting
<1>4. CASE d # c.id
  <2>1. (w \in Holders(d)' <=> w \in Holders(d)) /\ (w \in Early(d)' <=> w \in Early(d))
    BY <1>1, <1>4 DEF Holders, Early
  <2> QED
    BY <1>1, <1>2, <1>3, <1>4, <2>1
<1>5. CASE d = c.id
  <2>1. w \in Holders(d) /\ \A e \in todo[w] : e.id # d
    BY <1>1, <1>5 DEF Holders, SingleInv
  <2>2. w \in Early(d) <=> ~LastAttempt(c.count)
    BY <1>1, <1>5, <2>1 DEF Early
  <2>3. w \notin Holders(d)' /\ w \notin Early(d)'
    BY <1>1, <2>1 DEF Holders, Early
  <2> QED
    BY <1>1, <1>2, <1>3, <1>5, <2>1, <2>2, <2>3
<1> QED
  BY <1>4, <1>5

\* ... and a fault may take it out of anything.
LEMMA FaultCounts ==
    ASSUME TypeOK, NEW w \in Workers, LoseRecord(w) \/ Crash(w), NEW d \in Deliveries
    PROVE  /\ UNCHANGED <<status, attempts, posts, unmade>> /\ faults' = faults + 1
           /\ Waiting(d)' \subseteq Waiting(d) /\ Waiting(d) \ {w} \subseteq Waiting(d)'
           /\ Holders(d)' \subseteq Holders(d) /\ Holders(d) \ {w} \subseteq Holders(d)'
           /\ Early(d)' \subseteq Early(d) /\ Early(d) \ {w} \subseteq Early(d)'
<1>1. /\ todo'[w] \in {todo[w], {}} /\ doing'[w] = {}
      /\ \A v \in Workers \ {w} : todo'[v] = todo[v] /\ doing'[v] = doing[v]
      /\ faults' = faults + 1
      /\ UNCHANGED <<status, attempts, posts, unmade>>
  BY FaultMemory
<1>2. /\ Waiting(d)' \ {w} = Waiting(d) \ {w}
      /\ Holders(d)' \ {w} = Holders(d) \ {w}
      /\ Early(d)' \ {w} = Early(d) \ {w}
  BY <1>1, OthersHold
<1>3. /\ w \in Waiting(d)' => w \in Waiting(d)
      /\ w \in Holders(d)' => w \in Holders(d)
      /\ w \in Early(d)' => w \in Early(d)
  BY <1>1 DEF Waiting, Holders, Early
<1> QED
  BY <1>1, <1>2, <1>3

(***************************************************************************)
(* The two counts are kept.                                                *)
(***************************************************************************)
\* The three ways to record a result, as one: only a retry leaves the row open.
LEMMA RecordCases ==
    ASSUME TypeOK, NEW w \in Workers, MarkDelivered(w) \/ MarkExhausted(w) \/ MarkRetry(w)
    PROVE  \E c \in doing[w], s \in {"PENDING", "DELIVERED", "EXHAUSTED"}, n \in Nat :
             Record(w, c, s, n) /\ (s = "PENDING" => ~LastAttempt(c.count))
<1>1. \A c \in doing[w] : delay[c.id] \in Nat /\ c.count \in Nat \ {0}
  BY DEF TypeOK, Results
<1>2. \A c \in doing[w] : ~LastAttempt(c.count) => RetryDelay(c.count) \in Nat
  BY <1>1, RetryDelayType
<1> QED
  BY <1>1, <1>2 DEF MarkDelivered, MarkExhausted, MarkRetry

\* A tick, a new row and a stutter disturb nothing that is counted.
LEMMA OtherSteps ==
    ASSUME TypeOK, Tick \/ UNCHANGED vars \/ (\E D \in SUBSET Deliveries : Queue(D)),
           NEW d \in Deliveries
    PROVE  /\ UNCHANGED <<attempts, posts, unmade, faults>>
           /\ Waiting(d)' = Waiting(d) /\ Holders(d)' = Holders(d) /\ Early(d)' = Early(d)
           /\ status'[d] \in Terminal <=> status[d] \in Terminal
<1>1. UNCHANGED <<attempts, posts, unmade, faults, todo, doing>>
  BY DEF Tick, Queue, vars, rows, endpoint
<1>2. status'[d] \in Terminal <=> status[d] \in Terminal
  BY DEF Tick, Queue, vars, rows, Terminal, TypeOK
<1> QED
  BY <1>1, <1>2 DEF Waiting, Holders, Early

\* No step tries or claims without counting.
LEMMA PostsStep == TypeOK /\ SingleInv /\ PostsInv /\ [Next]_vars => PostsInv'
<1> SUFFICES ASSUME TypeOK, SingleInv, PostsInv, [Next]_vars, NEW d \in Deliveries
             PROVE  /\ Tries(d)' + Cardinality(Waiting(d)') <= attempts'[d]
                    /\ attempts'[d] <= Tries(d)' + Cardinality(Waiting(d)') + faults'
  BY DEF PostsInv
<1> DEFINE n == Cardinality(Waiting(d))
           m == Cardinality(Waiting(d)')
<1>1. /\ Tries(d) \in Nat /\ attempts[d] \in Nat /\ faults \in Nat
      /\ n \in Nat /\ IsFiniteSet(Waiting(d))
  BY Counted, WorkerAssumption DEF TypeOK, Tries
<1>2. Tries(d) + n <= attempts[d] /\ attempts[d] <= Tries(d) + n + faults
  BY DEF PostsInv
<1> HIDE DEF n, m
<1>3. ASSUME NEW w \in Workers, Claim(w)
      PROVE  Tries(d)' + m <= attempts'[d] /\ attempts'[d] <= Tries(d)' + m + faults'
  <2>1. Tries(d)' = Tries(d) /\ faults' = faults
    BY <1>3, ClaimCounts DEF Tries
  <2>2. \/ attempts'[d] = attempts[d] /\ m = n
        \/ attempts'[d] = attempts[d] + 1 /\ m = n + 1
    BY <1>1, <1>3, ClaimCounts, OneMore DEF n, m
  <2> QED
    BY <1>1, <1>2, <2>1, <2>2
<1>4. ASSUME NEW w \in Workers, Post(w) \/ FailRequest(w)
      PROVE  Tries(d)' + m <= attempts'[d] /\ attempts'[d] <= Tries(d)' + m + faults'
  <2>1. attempts' = attempts /\ faults' = faults
    BY <1>4, PostCounts
  <2>2. \/ Tries(d)' = Tries(d) /\ m = n
        \/ Tries(d)' = Tries(d) + 1 /\ m = n - 1
    BY <1>1, <1>4, PostCounts, OneLess DEF n, m
  <2> QED
    BY <1>1, <1>2, <2>1, <2>2
<1>5. ASSUME NEW w \in Workers, MarkDelivered(w) \/ MarkExhausted(w) \/ MarkRetry(w)
      PROVE  Tries(d)' + m <= attempts'[d] /\ attempts'[d] <= Tries(d)' + m + faults'
  <2>1. Tries(d)' = Tries(d) /\ UNCHANGED <<attempts, faults>> /\ m = n
    BY <1>5, RecordCases, RecordCounts DEF n, m, Tries
  <2> QED
    BY <1>1, <1>2, <2>1
<1>6. ASSUME NEW w \in Workers, LoseRecord(w) \/ Crash(w)
      PROVE  Tries(d)' + m <= attempts'[d] /\ attempts'[d] <= Tries(d)' + m + faults'
  <2>1. Tries(d)' = Tries(d) /\ attempts' = attempts /\ faults' = faults + 1
    BY <1>6, FaultCounts DEF Tries
  <2>2. m \in {n, n - 1}
    BY <1>1, <1>6, FaultCounts, AtMostOneLess DEF n, m
  <2> QED
    BY <1>1, <1>2, <2>1, <2>2
<1>7. ASSUME Tick \/ UNCHANGED vars \/ \E D \in SUBSET Deliveries : Queue(D)
      PROVE  Tries(d)' + m <= attempts'[d] /\ attempts'[d] <= Tries(d)' + m + faults'
  <2>1. Tries(d)' = Tries(d) /\ UNCHANGED <<attempts, faults>> /\ m = n
    BY <1>7, OtherSteps DEF n, m, Tries
  <2> QED
    BY <1>1, <1>2, <2>1
<1> QED
  BY <1>3, <1>4, <1>5, <1>6, <1>7 DEF Next, Work, Quiescent, m

\* The failure of the n-th early worker accounts for a claim of its own and one of
\* every worker that is not early.
LEMMA ReopenLess ==
    ASSUME NEW n \in Nat \ {0}, NEW k \in Nat, n <= k, k = Cardinality(Workers)
    PROVE  Reopenings(n) = Reopenings(n - 1) + 2 * (k - n + 1)
<1>1. n * (2 * k - n + 1) = (n - 1) * (2 * k - (n - 1) + 1) + 2 * (k - n + 1)
  BY Z3
<1> QED
  BY <1>1 DEF Reopenings

\* All that the last attempt leaves to the workers, n of them early, is within the bound.
LEMMA ReopenFirst ==
    ASSUME NEW n \in Nat, NEW k \in Nat, NEW h \in Nat, n < h, h <= k, k = Cardinality(Workers)
    PROVE  Reopenings(n) + 2 * (k - h) <= (k - 1) * (k + 2)
<1>1. (k - n) * (k - n - 1) >= 0
  BY Z3
<1>2. (k - 1) * (k + 2) = n * (2 * k - n + 1) + 2 * (k - n - 1) + (k - n) * (k - n - 1)
  BY Z3
<1>3. n * (2 * k - n + 1) \in Int /\ (k - n) * (k - n - 1) \in Int
  BY Z3
<1> DEFINE r == n * (2 * k - n + 1)
           q == (k - n) * (k - n - 1)
           t == (k - 1) * (k + 2)
<1>4. r \in Int /\ q \in Int /\ q >= 0 /\ t = r + 2 * (k - n - 1) + q
  BY <1>1, <1>2, <1>3
<1> HIDE DEF r, q, t
<1>5. r + 2 * (k - h) <= t
  BY <1>4
<1> QED
  BY <1>5 DEF Reopenings, r, t

\* A claim past the limit uses up a free worker, a late retry an early one, and a
\* fault pays for the worker it frees.
LEMMA BoundStep == TypeOK /\ SingleInv /\ WorkerInv /\ BoundInv /\ [Next]_vars => BoundInv'
<1> DEFINE k == Cardinality(Workers)
           bound == (k - 1) * (k + 2)
           Bounded(a, settled, h, e, f) ==
               2 * a + 2 * (IF settled THEN 0 ELSE k - h) + Reopenings(e)
                 <= 2 * AttemptLimit + 2 * f + bound
<1> SUFFICES ASSUME TypeOK, SingleInv, WorkerInv, BoundInv, [Next]_vars,
                    NEW d \in Deliveries, attempts'[d] >= AttemptLimit
             PROVE  Bounded(attempts'[d], status'[d] \in Terminal, Cardinality(Holders(d)'),
                            Cardinality(Early(d)'), faults')
  BY DEF BoundInv, Free, Reopenings
<1> DEFINE h == Cardinality(Holders(d))
           e == Cardinality(Early(d))
           h1 == Cardinality(Holders(d)')
           e1 == Cardinality(Early(d)')
           settled == status[d] \in Terminal
           settled1 == status'[d] \in Terminal
           Goal == Bounded(attempts'[d], settled1, h1, e1, faults')
<1>1. /\ attempts[d] \in Nat /\ faults \in Nat /\ AttemptLimit \in Nat
      /\ k \in Nat /\ h \in Nat /\ e \in Nat /\ e <= h /\ h <= k
      /\ IsFiniteSet(Holders(d)) /\ IsFiniteSet(Early(d))
      /\ settled \in BOOLEAN
  BY Counted, WorkerAssumption DEF TypeOK
<1>2. attempts[d] >= AttemptLimit => Bounded(attempts[d], settled, h, e, faults)
  BY DEF BoundInv, Free
<1>3. bound \in Int /\ \A n \in Nat : Reopenings(n) \in Int
  <2>1. \A n \in Nat : n * (2 * k - n + 1) \in Int
    BY <1>1, Z3
  <2>2. (k - 1) * (k + 2) \in Int
    BY <1>1, Z3
  <2> QED
    BY <2>1, <2>2 DEF Reopenings
<1> HIDE DEF k, bound, h, e, h1, e1, settled, settled1
\* One early worker less leaves at most the bound.
<1>4. ASSUME e # 0 PROVE Reopenings(e) = Reopenings(e - 1) + 2 * (k - e + 1)
  BY <1>1, <1>4, ReopenLess DEF k
<1>5. ASSUME NEW w \in Workers, Claim(w) PROVE Goal
  <2>1. faults' = faults
    BY <1>5, ClaimCounts
  <2>2. CASE status'[d] = status[d] /\ attempts'[d] = attempts[d] /\ h1 = h /\ e1 = e
    BY <1>2, <2>1, <2>2 DEF settled, settled1
  <2>3. CASE /\ status[d] \notin Terminal /\ status'[d] \notin Terminal
             /\ attempts'[d] = attempts[d] + 1
             /\ w \notin Holders(d) /\ Holders(d)' = Holders(d) \cup {w}
             /\ Early(d)' = IF LastAttempt(attempts[d] + 1)
                            THEN Early(d) ELSE Early(d) \cup {w}
    <3>1. LastAttempt(attempts[d] + 1)
      BY <1>1, <2>3 DEF LastAttempt
    <3>2. h1 = h + 1 /\ e1 = e
      BY <1>1, <2>3, <3>1, OneMore DEF h, h1, e, e1
    <3>3. h1 <= k
      <4>1. Holders(d)' \in SUBSET Workers
        BY DEF Holders
      <4> QED
        BY <4>1, WorkerSets DEF h1, k
    <3>4. CASE attempts[d] >= AttemptLimit
      BY <1>1, <1>2, <1>3, <2>1, <2>3, <3>2, <3>4 DEF settled, settled1
    <3>5. CASE attempts[d] < AttemptLimit
      <4>1. attempts'[d] = AttemptLimit
        BY <1>1, <2>3, <3>5
      <4>2. h1 \in Nat /\ e1 \in Nat /\ e1 < h1 /\ h1 <= k
        BY <1>1, <3>2, <3>3
      <4>3. Reopenings(e1) + 2 * (k - h1) <= bound
        <5>1. k = Cardinality(Workers)
          BY DEF k
        <5> QED
          BY <1>1, <4>2, <5>1, ReopenFirst DEF bound
      <4> QED
        BY <1>1, <1>3, <2>1, <2>3, <3>2, <3>3, <4>1, <4>3 DEF settled1
    <3> QED
      BY <1>1, <3>4, <3>5
  <2> QED
    BY <1>5, <2>2, <2>3, ClaimCounts DEF h, h1, e, e1
<1>6. ASSUME NEW w \in Workers, Post(w) \/ FailRequest(w) PROVE Goal
  BY <1>2, <1>6, PostCounts DEF settled, settled1, h, h1, e, e1
<1>7. ASSUME NEW w \in Workers, MarkDelivered(w) \/ MarkExhausted(w) \/ MarkRetry(w)
      PROVE  Goal
  <2>1. PICK c \in doing[w], s \in {"PENDING", "DELIVERED", "EXHAUSTED"}, n \in Nat :
          Record(w, c, s, n) /\ (s = "PENDING" => ~LastAttempt(c.count))
    BY <1>7, RecordCases
  <2>2. attempts' = attempts /\ faults' = faults
    BY <2>1, RecordCounts
  <2>3. Bounded(attempts[d], settled, h, e, faults)
    BY <1>2, <2>2
  <2>4. CASE status'[d] = status[d] /\ Holders(d)' = Holders(d) /\ Early(d)' = Early(d)
    BY <2>2, <2>3, <2>4 DEF settled, settled1, h, h1, e, e1
  <2>5. CASE /\ status'[d] = s
             /\ w \in Holders(d) /\ Holders(d)' = Holders(d) \ {w}
             /\ Early(d)' = Early(d) \ {w}
             /\ w \in Early(d) <=> ~LastAttempt(c.count)
    <3>1. h1 = h - 1 /\ e1 = IF w \in Early(d) THEN e - 1 ELSE e
      BY <1>1, <2>5, OneLess DEF h, h1, e, e1
    <3>2. w \in Early(d) => e # 0
      BY <1>1, FS_EmptySet DEF e
    <3>3. Reopenings(e1) <= Reopenings(e)
      BY <1>1, <1>3, <1>4, <3>1, <3>2
    <3>4. CASE s = "PENDING"
      <4>1. e1 = e - 1 /\ e # 0 /\ ~settled1
        BY <2>1, <2>5, <3>1, <3>2, <3>4 DEF settled1, Terminal
      <4>2. Reopenings(e) = Reopenings(e1) + 2 * (k - e + 1)
        BY <1>4, <4>1
      <4>3. Reopenings(e) \in Int /\ Reopenings(e1) \in Int
        BY <1>1, <1>3, <4>1
      <4> QED
        BY <1>1, <1>3, <2>2, <2>3, <3>1, <4>1, <4>2, <4>3
    <3>5. CASE s # "PENDING"
      <4>1. settled1
        BY <2>1, <2>5, <3>5 DEF settled1, Terminal
      <4>2. Reopenings(e) \in Int /\ Reopenings(e1) \in Int
        BY <1>1, <1>3, <3>1, <3>2
      <4> QED
        BY <1>1, <1>3, <2>2, <2>3, <3>3, <4>1, <4>2
    <3> QED
      BY <3>4, <3>5
  <2> QED
    BY <2>1, <2>4, <2>5, RecordCounts
<1>8. ASSUME NEW w \in Workers, LoseRecord(w) \/ Crash(w) PROVE Goal
  <2>1. attempts' = attempts /\ faults' = faults + 1 /\ settled1 = settled
    BY <1>8, FaultCounts DEF settled, settled1
  <2>2. h1 \in {h, h - 1} /\ e1 \in {e, e - 1} /\ e1 \in Nat
    <3>1. h1 \in {h, h - 1}
      BY <1>1, <1>8, FaultCounts, AtMostOneLess DEF h, h1
    <3>2. e1 \in {e, e - 1}
      BY <1>1, <1>8, FaultCounts, AtMostOneLess DEF e, e1
    <3>3. e1 \in Nat
      <4>1. Early(d)' \in SUBSET Workers
        BY DEF Early
      <4> QED
        BY <4>1, WorkerSets DEF e1
    <3> QED
      BY <3>1, <3>2, <3>3
  <2>3. Reopenings(e1) <= Reopenings(e)
    BY <1>1, <1>3, <1>4, <2>2
  <2>4. Reopenings(e) \in Int /\ Reopenings(e1) \in Int
    BY <1>1, <1>3, <2>2
  <2>5. Bounded(attempts[d], settled, h, e, faults)
    BY <1>2, <2>1
  <2> QED
    BY <1>1, <1>3, <2>1, <2>2, <2>3, <2>4, <2>5
<1>9. ASSUME Tick \/ UNCHANGED vars \/ \E D \in SUBSET Deliveries : Queue(D) PROVE Goal
  <2>1. /\ attempts' = attempts /\ faults' = faults
        /\ settled1 = settled /\ h1 = h /\ e1 = e
    BY <1>9, OtherSteps DEF settled, settled1, h, h1, e, e1
  <2>2. attempts[d] >= AttemptLimit
    BY <2>1
  <2>3. Bounded(attempts[d], settled, h, e, faults)
    BY <1>2, <2>2
  <2>4. Reopenings(e) \in Int
    BY <1>1, <1>3
  <2> QED
    BY <1>1, <1>3, <2>1, <2>3, <2>4
<1> QED
  BY <1>5, <1>6, <1>7, <1>8, <1>9 DEF Next, Work, Quiescent, h1, e1, settled1

\* The counting invariant holds in every reachable state.
THEOREM CountInvariant == Spec => []CountInv
<1>1. Init => CountInv
  <2> SUFFICES ASSUME Init PROVE CountInv
    OBVIOUS
  <2>1. \A w \in Workers : todo[w] = {} /\ doing[w] = {}
    BY DEF Init
  <2>2. \A d \in Deliveries : Waiting(d) = {}
    BY <2>1 DEF Waiting
  <2>3. \A d \in Deliveries : attempts[d] = 0 /\ Tries(d) = 0 /\ faults = 0
    BY DEF Init, Tries
  <2>4. SingleInv
    BY <2>1 DEF SingleInv
  <2>5. PostsInv
    BY <2>2, <2>3, FS_EmptySet DEF PostsInv
  <2>6. BoundInv
    BY <2>3, WorkerAssumption DEF BoundInv
  <2> QED
    BY <2>4, <2>5, <2>6 DEF CountInv
<1>2. TypeOK /\ WorkerInv /\ CountInv /\ [Next]_vars => CountInv'
  BY SingleStep, PostsStep, BoundStep DEF CountInv
<1> QED
  BY <1>1, <1>2, TypeCorrect, WorkerInvariant, PTL DEF Spec

\* No worker tries what attempt_count does not count, and what it counts beyond the
\* POSTs and the requests that could not be made waits in a batch or was lost to a fault.
THEOREM PostsAreNeverUncounted == Spec => []PostsAreCounted
<1>1. TypeOK /\ CountInv => PostsAreCounted
  <2> SUFFICES ASSUME TypeOK, CountInv, NEW d \in Deliveries
               PROVE  /\ Tries(d) <= attempts[d]
                      /\ attempts[d] <= Tries(d) + Cardinality(Waiting(d)) + faults
    BY DEF PostsAreCounted
  <2>1. Tries(d) \in Nat /\ attempts[d] \in Nat /\ Cardinality(Waiting(d)) \in Nat
    BY Counted DEF TypeOK, Tries
  <2>2. /\ Tries(d) + Cardinality(Waiting(d)) <= attempts[d]
        /\ attempts[d] <= Tries(d) + Cardinality(Waiting(d)) + faults
    BY DEF CountInv, PostsInv
  <2> QED
    BY <2>1, <2>2
<1> QED
  BY <1>1, TypeCorrect, CountInvariant, PTL

\* A delivery is claimed at most AttemptLimit times, and once more for every fault
\* and for every claim that competing workers can add by a late retry.
THEOREM AttemptsAreBounded == Spec => []AttemptsBounded
<1>1. TypeOK /\ CountInv => AttemptsBounded
  <2> DEFINE k == Cardinality(Workers)
             over == (k - 1) * (k + 2)
  <2> SUFFICES ASSUME TypeOK, CountInv, NEW d \in Deliveries
               PROVE  attempts[d] <= AttemptLimit + faults + over \div 2
    BY DEF AttemptsBounded
  <2>1. /\ attempts[d] \in Nat /\ faults \in Nat /\ AttemptLimit \in Nat /\ k \in Nat
    <3>1. attempts[d] \in Nat /\ faults \in Nat
      BY DEF TypeOK
    <3> QED
      BY <3>1, WorkerAssumption, FS_CardinalityType
  <2>2. over \in Int /\ over >= -2
    <3>1. k = 0 \/ k >= 1
      BY <2>1
    <3>2. CASE k = 0
      BY <3>2
    <3>3. CASE k >= 1
      BY <2>1, <3>3, Z3
    <3> QED
      BY <3>1, <3>2, <3>3
  <2> HIDE DEF over
  <2>3. over \div 2 \in Int /\ over \div 2 >= -1 /\ over < 2 * (over \div 2) + 2
    BY <2>2
  <2>4. CASE attempts[d] < AttemptLimit
    BY <2>1, <2>3, <2>4
  <2>5. CASE attempts[d] >= AttemptLimit
    <3> DEFINE r == Reopenings(Cardinality(Early(d)))
    <3>1. Free(d) \in Nat
      BY <2>1, Counted DEF Free
    <3>2. r \in Int /\ r >= 0
      <4>1. \A n \in Nat : n <= k => n * (2 * k - n + 1) \in Int /\ n * (2 * k - n + 1) >= 0
        BY <2>1, Z3
      <4> HIDE DEF k
      <4>2. Cardinality(Early(d)) \in Nat /\ Cardinality(Early(d)) <= k
        <5>1. Early(d) \in SUBSET Workers
          BY DEF Early
        <5> QED
          BY <5>1, WorkerSets DEF k
      <4> QED
        BY <4>1, <4>2 DEF Reopenings, k
    <3>3. 2 * attempts[d] + 2 * Free(d) + r <= 2 * AttemptLimit + 2 * faults + over
      BY <2>5 DEF CountInv, BoundInv, over
    <3> HIDE DEF r
    <3> QED
      BY <2>1, <2>2, <2>3, <3>1, <3>2, <3>3
  <2> QED
    BY <2>1, <2>4, <2>5
<1> QED
  BY <1>1, TypeCorrect, CountInvariant, PTL
=============================================================================
