--------------------------- MODULE SnowflakeProofs ---------------------------
(***************************************************************************)
(* Theorems about Snowflake, for any generators, callers, nodes, bit widths*)
(* and epoch, and any behaviour of the clock: the ids of one generator     *)
(* increase, which is what IdSource asks.                                  *)
(***************************************************************************)
EXTENDS Snowflake, TLAPS

(***************************************************************************)
(* Ids as numbers.                                                         *)
(***************************************************************************)
Seqs == 0..(SeqSize - 1)
NodeIds == 0..(Nodes - 1)

LEMMA ProductMonotone ==
    \A a, b \in Int : \A k \in Nat : a <= b => a * k \in Int /\ b * k \in Int /\ a * k <= b * k
PROOF
<1> SUFFICES ASSUME NEW a \in Int, NEW b \in Int, NEW k \in Nat, a <= b
             PROVE  a * k \in Int /\ b * k \in Int /\ a * k <= b * k
    OBVIOUS
<1>1. (b - a) * k >= 0
    BY Z3
<1>2. (b - a) * k = b * k - a * k
    BY Z3
<1>3. a * k \in Int /\ b * k \in Int
    BY Z3
<1> QED BY <1>1, <1>2, <1>3

LEMMA IdType ==
    ASSUME NEW t \in Int, NEW n \in Int, NEW q \in Int
    PROVE  Id(t, n, q) \in Int
PROOF
<1>1. \A a, b \in Int : a * b \in Int
    BY Z3
<1> QED BY <1>1, SnowflakeAssumption DEF Id

\* An id grows with its time, its node and its sequence.
LEMMA IdMonotone ==
    ASSUME NEW t \in Int, NEW u \in Int, t <= u,
           NEW n \in NodeIds, NEW m \in NodeIds, n <= m,
           NEW q \in Seqs, NEW p \in Seqs, q <= p
    PROVE  Id(t, n, q) <= Id(u, m, p)
PROOF
<1> DEFINE x == (t - Epoch) * Nodes
           y == (u - Epoch) * Nodes
<1>0. Epoch \in Int /\ Nodes \in Nat /\ SeqSize \in Nat
    BY SnowflakeAssumption
<1>1. x \in Int /\ y \in Int /\ x <= y
    BY <1>0, ProductMonotone
<1> HIDE DEF x, y
<1>2. /\ (x + n) * SeqSize \in Int /\ (y + m) * SeqSize \in Int
      /\ (x + n) * SeqSize <= (y + m) * SeqSize
    <2>1. x + n \in Int /\ y + m \in Int /\ x + n <= y + m
        BY <1>1 DEF NodeIds
    <2> QED BY <1>0, <2>1, ProductMonotone
<1>3. (x + n) * SeqSize + q <= (y + m) * SeqSize + p
    BY <1>2 DEF Seqs
<1> QED BY <1>3 DEF Id, x, y

\* A later time outweighs any sequence.
LEMMA IdLater ==
    ASSUME NEW t \in Int, NEW u \in Int, t < u, NEW n \in NodeIds,
           NEW q \in Seqs, NEW p \in Seqs
    PROVE  Id(t, n, q) < Id(u, n, p)
PROOF
<1> DEFINE x == (t - Epoch) * Nodes
           y == (u - Epoch) * Nodes
<1>0. /\ Epoch \in Int /\ Nodes \in Nat /\ SeqSize \in Nat
      /\ Nodes >= 1 /\ SeqSize >= 1
    BY SnowflakeAssumption
<1>1. x \in Int /\ y \in Int /\ x + Nodes <= y
    <2>1. /\ x \in Int /\ y \in Int
          /\ (t - Epoch + 1) * Nodes <= y
        BY <1>0, ProductMonotone
    <2>2. (t - Epoch + 1) * Nodes = x + Nodes
        BY <1>0, Z3
    <2> QED BY <2>1, <2>2
<1> HIDE DEF x, y
<1>2. /\ (x + n) * SeqSize \in Int /\ (y + n) * SeqSize \in Int
      /\ (x + n + 1) * SeqSize <= (y + n) * SeqSize
    <2>1. x + n \in Int /\ y + n \in Int /\ x + n + 1 <= y + n
        BY <1>0, <1>1 DEF NodeIds
    <2> QED BY <1>0, <2>1, ProductMonotone
<1>3. (x + n + 1) * SeqSize = (x + n) * SeqSize + SeqSize
    BY <1>0, <1>1, Z3 DEF NodeIds
<1>4. (x + n) * SeqSize + q < (y + n) * SeqSize + p
    BY <1>0, <1>2, <1>3 DEF Seqs
<1> QED BY <1>4 DEF Id, x, y

\* The next of the sequence is the next id.
LEMMA IdNext ==
    ASSUME NEW t \in Int, NEW n \in NodeIds, NEW q \in Seqs, q + 1 \in Seqs
    PROVE  Id(t, n, q) < Id(t, n, q + 1)
PROOF
<1> DEFINE x == ((t - Epoch) * Nodes + n) * SeqSize
<1>1. x \in Int
    <2>1. \A a, b \in Int : a * b \in Int
        BY Z3
    <2> QED BY <2>1, SnowflakeAssumption DEF NodeIds
<1> HIDE DEF x
<1>2. x + q < x + (q + 1)
    BY <1>1 DEF Seqs
<1> QED BY <1>2 DEF Id, x

(***************************************************************************)
(* The inductive invariant.                                                *)
(***************************************************************************)
\* A call past the lock holds the mutex of its generator, and nobody else does.
MutexInv ==
    \A c \in Callers : pc[c] \in {"read", "wait", "issue"} <=> holder[GeneratorOf[c]] = c

\* Times are within the clock's bound.
TimeInv ==
    /\ clock \in 1..MaxClock
    /\ \A g \in Generators : lastTime[g] \in 0..MaxClock
    /\ \A c \in Callers : now[c] \in 0..MaxClock

\* No call of g is between reading the clock and handing its id out.
Settled(g) ==
    \A c \in Callers : GeneratorOf[c] = g => pc[c] \notin {"wait", "issue"}

\* The last id is of the last time; of no later sequence than the current one while
\* no call has raised it; and less than the id about to be handed out.
IdInv ==
    /\ \A g \in Generators :
         /\ Id(0, 0, 0) <= lastId[g]
         /\ lastId[g] <= Id(lastTime[g], NodeId[g], SeqSize - 1)
         /\ Settled(g) => lastId[g] <= Id(lastTime[g], NodeId[g], sequence[g])
    /\ \A c \in Callers : pc[c] = "issue" =>
         LET g == GeneratorOf[c] IN lastId[g] < Id(now[c], NodeId[g], sequence[g])

SnowflakeInv == TypeOK /\ MutexInv /\ TimeInv /\ IdInv

Zero == Id(0, 0, 0)

LEMMA ZeroLeast ==
    ASSUME NEW g \in Generators, NEW q \in Seqs
    PROVE  Zero \in Int /\ Zero <= Id(0, NodeId[g], q)
PROOF
<1>1. 0 \in NodeIds /\ 0 \in Seqs /\ NodeId[g] \in NodeIds
    BY SnowflakeAssumption DEF NodeIds, Seqs
<1>2. 0 <= NodeId[g] /\ 0 <= q
    BY <1>1 DEF NodeIds, Seqs
<1>3. Id(0, 0, 0) \in Int
    BY IdType
<1>4. Id(0, 0, 0) <= Id(0, NodeId[g], q)
    BY <1>1, <1>2, IdMonotone
<1> QED BY <1>3, <1>4 DEF Zero

(***************************************************************************)
(* Types.                                                                  *)
(***************************************************************************)
LEMMA InitType == Init => TypeOK
PROOF
<1> SUFFICES ASSUME Init PROVE TypeOK
    OBVIOUS
<1>1. Id(0, 0, 0) \in Int
    BY IdType
<1>2. 0 \in 0..(SeqSize - 1) /\ 0 \in 0..MaxRestarts /\ 0 \in 0..MaxStepsBack
    BY SnowflakeAssumption
<1> QED BY <1>1, <1>2, SnowflakeAssumption DEF Init, TypeOK

LEMMA NextType == TypeOK /\ [Next]_vars => TypeOK'
PROOF
<1> SUFFICES ASSUME TypeOK, [Next]_vars PROVE TypeOK'
    OBVIOUS
<1> USE SnowflakeAssumption
<1>1. ASSUME NEW c \in Callers, Call(c) PROVE TypeOK'
    BY <1>1 DEF TypeOK, Call, generator, history
<1>2. ASSUME NEW c \in Callers, Lock(c) PROVE TypeOK'
    BY <1>2 DEF TypeOK, Lock, history
<1>3. ASSUME NEW c \in Callers, ReadClock(c) PROVE TypeOK'
    <2> DEFINE g == GeneratorOf[c]
    <2>1. NextSequence(g) \in 0..(SeqSize - 1) /\ TimeRead(g) \in Nat
        BY DEF TypeOK, NextSequence, TimeRead
    <2>2. AfterRead(g) \in {"wait", "issue"}
        BY DEF AfterRead
    <2> QED BY <1>3, <2>1, <2>2 DEF TypeOK, ReadClock, history
<1>4. ASSUME NEW c \in Callers, Sleep(c) PROVE TypeOK'
    BY <1>4 DEF TypeOK, Sleep, generator, history
<1>5. ASSUME NEW c \in Callers, Issue(c) PROVE TypeOK'
    <2> DEFINE g == GeneratorOf[c]
               i == Id(now[c], NodeId[g], sequence[g])
    <2>1. i \in Int
        <3>1. now[c] \in Int /\ NodeId[g] \in Int /\ sequence[g] \in Int
            BY DEF TypeOK
        <3> QED BY <3>1, IdType
    <2>2. [id |-> i, generator |-> g, life |-> life[g]] \in [id : Int, generator : Generators, life : Nat]
        <3> HIDE DEF i
        <3> QED BY <2>1 DEF TypeOK
    <2>3. issued' \subseteq [id : Int, generator : Generators, life : Nat]
        BY <1>5, <2>2 DEF Issue, TypeOK
    <2>4. lastId' \in [Generators -> Int]
        <3> HIDE DEF i
        <3>1. lastId' = [lastId EXCEPT ![g] = i]
            BY <1>5 DEF Issue, i
        <3> QED BY <2>1, <3>1 DEF TypeOK
    <2>5. /\ lastTime' \in [Generators -> Nat]
          /\ calls' \in [Callers -> Nat]
          /\ holder' \in [Generators -> Callers \cup {"free"}]
          /\ pc' \in [Callers -> {"idle", "lock", "read", "wait", "issue"}]
          /\ now' \in [Callers -> Nat]
        BY <1>5 DEF Issue, TypeOK, HolderAfter
    <2>6. UNCHANGED <<clock, sequence, life, stepsBack>>
        BY <1>5 DEF Issue
    <2> QED BY <2>3, <2>4, <2>5, <2>6 DEF TypeOK
<1>6. ASSUME NEW g \in Generators, Restart(g) PROVE TypeOK'
    <2>1. lastId' \in [Generators -> Int]
        BY <1>6, IdType DEF Restart, TypeOK
    <2> QED BY <1>6, <2>1 DEF TypeOK, Restart
<1>7. CASE Advance
    BY <1>7 DEF TypeOK, Advance, generator, history
<1>8. CASE StepBack
    BY <1>8 DEF TypeOK, StepBack, generator, history
<1>9. CASE UNCHANGED vars
    BY <1>9 DEF TypeOK, vars, generator, history
<1> QED BY <1>1, <1>2, <1>3, <1>4, <1>5, <1>6, <1>7, <1>8, <1>9
        DEF Next, NextID, Quiescent

\* The variables of the generators and their callers keep their types.
THEOREM TypeCorrect == Spec => []TypeOK
PROOF BY InitType, NextType, PTL DEF Spec

(***************************************************************************)
(* The invariant is inductive.                                             *)
(***************************************************************************)
LEMMA InitInv == Init => MutexInv /\ TimeInv /\ IdInv
PROOF
<1> SUFFICES ASSUME Init PROVE MutexInv /\ TimeInv /\ IdInv
    OBVIOUS
<1>1. MutexInv
    <2>1. \A c \in Callers : GeneratorOf[c] \in Generators
        BY SnowflakeAssumption
    <2>2. \A c \in Callers : c # "free"
        BY SnowflakeAssumption
    <2> QED BY <2>1, <2>2 DEF Init, MutexInv
<1>2. TimeInv
    BY SnowflakeAssumption DEF Init, TimeInv
<1>3. IdInv
    <2>1. ASSUME NEW g \in Generators
          PROVE  /\ Zero <= lastId[g]
                 /\ lastId[g] <= Id(lastTime[g], NodeId[g], SeqSize - 1)
                 /\ lastId[g] <= Id(lastTime[g], NodeId[g], sequence[g])
        <3>1. lastId[g] = Zero /\ lastTime[g] = 0 /\ sequence[g] = 0
            BY DEF Init, Zero
        <3>2. 0 \in Seqs /\ SeqSize - 1 \in Seqs
            BY SnowflakeAssumption DEF Seqs
        <3> QED BY <3>1, <3>2, ZeroLeast
    <2>2. \A c \in Callers : pc[c] # "issue"
        BY DEF Init
    <2> QED BY <2>1, <2>2 DEF IdInv, Zero
<1> QED BY <1>1, <1>2, <1>3

\* A step that leaves the clocks, the generators' memory and the ids alone.
LEMMA IdInvKept ==
    ASSUME IdInv, UNCHANGED <<lastTime, sequence, lastId>>,
           \A c \in Callers : pc'[c] = "issue" => pc[c] = "issue" /\ now'[c] = now[c],
           \A c \in Callers : pc[c] \in {"wait", "issue"} => pc'[c] \in {"wait", "issue"}
    PROVE  IdInv'
PROOF
<1>1. \A g \in Generators : Settled(g)' => Settled(g)
    BY DEF Settled
<1> QED BY <1>1 DEF IdInv

LEMMA CallInv ==
    ASSUME SnowflakeInv, NEW c \in Callers, Call(c)
    PROVE  MutexInv' /\ TimeInv' /\ IdInv'
PROOF
<1>1. MutexInv'
    BY DEF Call, SnowflakeInv, TypeOK, MutexInv, generator
<1>2. TimeInv'
    BY DEF Call, SnowflakeInv, TimeInv, generator
<1>3. IdInv'
    BY IdInvKept DEF Call, SnowflakeInv, TypeOK, generator, history
<1> QED BY <1>1, <1>2, <1>3

LEMMA LockInv ==
    ASSUME SnowflakeInv, NEW c \in Callers, Lock(c)
    PROVE  MutexInv' /\ TimeInv' /\ IdInv'
PROOF
<1> USE DEF SnowflakeInv
<1>1. MutexInv'
    <2>1. ASSUME NEW x \in Callers
          PROVE  pc'[x] \in {"read", "wait", "issue"} <=> holder'[GeneratorOf[x]] = x
        <3>0. GeneratorOf[c] \in Generators /\ GeneratorOf[x] \in Generators /\ x # "free"
            BY SnowflakeAssumption
        <3>1. CASE x = c
            BY <3>0, <3>1 DEF Lock, TypeOK
        <3>2. CASE x # c
            BY <3>0, <3>2 DEF Lock, Free, TypeOK, MutexInv
        <3> QED BY <3>1, <3>2
    <2> QED BY <2>1 DEF MutexInv
<1>2. TimeInv'
    BY DEF Lock, TimeInv
<1>3. IdInv'
    BY IdInvKept DEF Lock, TypeOK, history
<1> QED BY <1>1, <1>2, <1>3

LEMMA ReadClockInv ==
    ASSUME SnowflakeInv, NEW c \in Callers, ReadClock(c)
    PROVE  MutexInv' /\ TimeInv' /\ IdInv'
PROOF
<1> DEFINE g == GeneratorOf[c]
<1> USE DEF SnowflakeInv
<1>0. /\ g \in Generators
      /\ pc[c] = "read" /\ holder[g] = c
      /\ pc' = [pc EXCEPT ![c] = AfterRead(g)]
      /\ now' = [now EXCEPT ![c] = TimeRead(g)]
      /\ sequence' = [sequence EXCEPT ![g] = NextSequence(g)]
      /\ UNCHANGED <<clock, lastTime, holder, lastId>>
    BY SnowflakeAssumption DEF ReadClock, MutexInv, history
<1>a. AfterRead(g) \in {"wait", "issue"}
    BY DEF AfterRead
<1>1. MutexInv'
    <2>1. ASSUME NEW x \in Callers
          PROVE  pc'[x] \in {"read", "wait", "issue"} <=> holder'[GeneratorOf[x]] = x
        <3>1. CASE x = c
            BY <1>0, <1>a, <3>1 DEF TypeOK
        <3>2. CASE x # c
            BY <1>0, <3>2 DEF TypeOK, MutexInv
        <3> QED BY <3>1, <3>2
    <2> QED BY <2>1 DEF MutexInv
<1>2. TimeInv'
    <2>1. TimeRead(g) \in 0..MaxClock
        BY <1>0 DEF TimeRead, TimeInv
    <2> QED BY <1>0, <2>1 DEF TimeInv, TypeOK
<1>3. ASSUME NEW h \in Generators
      PROVE  /\ Id(0, 0, 0) <= lastId'[h]
             /\ lastId'[h] <= Id(lastTime'[h], NodeId[h], SeqSize - 1)
             /\ Settled(h)' => lastId'[h] <= Id(lastTime'[h], NodeId[h], sequence'[h])
    <2>1. CASE h = g
        <3>1. ~Settled(h)'
            BY <1>0, <1>a, <2>1 DEF Settled, TypeOK
        <3> QED BY <1>0, <3>1 DEF IdInv
    <2>2. CASE h # g
        <3>1. Settled(h)' => Settled(h)
            BY <1>0, <2>2 DEF Settled, TypeOK
        <3>2. sequence'[h] = sequence[h]
            BY <1>0, <2>2 DEF TypeOK
        <3> QED BY <1>0, <3>1, <3>2 DEF IdInv
    <2> QED BY <2>1, <2>2
<1>4. ASSUME NEW x \in Callers, pc'[x] = "issue"
      PROVE  lastId'[GeneratorOf[x]] < Id(now'[x], NodeId[GeneratorOf[x]], sequence'[GeneratorOf[x]])
    <2>1. CASE x = c
        <3>0. /\ lastTime[g] \in Int /\ clock \in Int /\ NodeId[g] \in NodeIds
              /\ sequence[g] \in Seqs /\ SeqSize - 1 \in Seqs /\ 0 \in Seqs
              /\ lastId[g] \in Int
            <4>1. lastTime[g] \in Int /\ clock \in Int /\ sequence[g] \in Seqs /\ lastId[g] \in Int
                BY <1>0 DEF TypeOK, Seqs
            <4>2. NodeId[g] \in NodeIds
                BY <1>0, SnowflakeAssumption DEF NodeIds
            <4>3. SeqSize - 1 \in Seqs /\ 0 \in Seqs
                BY SnowflakeAssumption DEF Seqs
            <4> QED BY <4>1, <4>2, <4>3
        <3>1. /\ now'[x] = TimeRead(g) /\ sequence'[g] = NextSequence(g)
              /\ AfterRead(g) = "issue"
            BY <1>0, <1>4, <2>1 DEF TypeOK
        <3>2. CASE TimeRead(g) = lastTime[g]
            <4>1. NextSequence(g) = (sequence[g] + 1) % SeqSize /\ NextSequence(g) # 0
                BY <3>1, <3>2 DEF AfterRead, NextSequence
            <4>2. NextSequence(g) = sequence[g] + 1 /\ sequence[g] + 1 \in Seqs
                <5>1. \A q \in Seqs : (q + 1) % SeqSize # 0 =>
                        q + 1 \in Seqs /\ (q + 1) % SeqSize = q + 1
                    <6> SUFFICES ASSUME NEW q \in Seqs, (q + 1) % SeqSize # 0
                                 PROVE  q + 1 \in Seqs /\ (q + 1) % SeqSize = q + 1
                        OBVIOUS
                    <6>1. CASE q + 1 = SeqSize
                        <7>1. SeqSize % SeqSize = 0
                            BY SnowflakeAssumption
                        <7> QED BY <6>1, <7>1
                    <6>2. CASE q + 1 # SeqSize
                        BY <6>2, SnowflakeAssumption DEF Seqs
                    <6> QED BY <6>1, <6>2
                <5> QED BY <3>0, <4>1, <5>1
            <4>3. Id(lastTime[g], NodeId[g], sequence[g])
                    < Id(lastTime[g], NodeId[g], sequence[g] + 1)
                BY <3>0, <4>2, IdNext
            <4>4. lastId[g] <= Id(lastTime[g], NodeId[g], sequence[g])
                <5>1. Settled(g)
                    BY <1>0 DEF Settled, MutexInv
                <5> QED BY <1>0, <5>1 DEF IdInv
            <4>5. /\ Id(lastTime[g], NodeId[g], sequence[g]) \in Int
                  /\ Id(lastTime[g], NodeId[g], sequence[g] + 1) \in Int
                BY <3>0, <4>2, IdType DEF NodeIds, Seqs
            <4>6. lastId[g] < Id(lastTime[g], NodeId[g], sequence[g] + 1)
                BY <3>0, <4>3, <4>4, <4>5
            <4> QED BY <1>0, <2>1, <3>1, <3>2, <4>2, <4>6
        <3>3. CASE TimeRead(g) # lastTime[g]
            <4>1. TimeRead(g) = clock /\ lastTime[g] < clock /\ NextSequence(g) = 0
                BY <3>0, <3>3 DEF TimeRead, NextSequence
            <4>2. Id(lastTime[g], NodeId[g], SeqSize - 1) < Id(clock, NodeId[g], 0)
                BY <3>0, <4>1, IdLater
            <4>3. lastId[g] <= Id(lastTime[g], NodeId[g], SeqSize - 1)
                BY <1>0 DEF IdInv
            <4>4. /\ Id(lastTime[g], NodeId[g], SeqSize - 1) \in Int
                  /\ Id(clock, NodeId[g], 0) \in Int
                <5>1. NodeId[g] \in Int /\ SeqSize - 1 \in Int /\ 0 \in Int
                    BY <3>0 DEF NodeIds, Seqs
                <5> HIDE DEF g
                <5> QED BY <3>0, <5>1, IdType
            <4>5. lastId[g] < Id(clock, NodeId[g], 0)
                BY <3>0, <4>2, <4>3, <4>4
            <4> QED BY <1>0, <2>1, <3>1, <4>1, <4>5
        <3> QED BY <3>2, <3>3
    <2>2. CASE x # c
        <3>1. pc[x] = "issue" /\ now'[x] = now[x]
            BY <1>0, <1>4, <2>2 DEF TypeOK
        <3>2. GeneratorOf[x] # g
            BY <1>0, <2>2, <3>1 DEF MutexInv
        <3>3. sequence'[GeneratorOf[x]] = sequence[GeneratorOf[x]] /\ GeneratorOf[x] \in Generators
            BY <1>0, <3>2, SnowflakeAssumption DEF TypeOK
        <3> QED BY <1>0, <3>1, <3>3 DEF IdInv
    <2> QED BY <2>1, <2>2
<1>5. IdInv'
    BY <1>3, <1>4 DEF IdInv
<1> QED BY <1>1, <1>2, <1>5

LEMMA SleepInv ==
    ASSUME SnowflakeInv, NEW c \in Callers, Sleep(c)
    PROVE  MutexInv' /\ TimeInv' /\ IdInv'
PROOF
<1> DEFINE g == GeneratorOf[c]
<1> USE DEF SnowflakeInv
<1>0. /\ g \in Generators
      /\ pc[c] = "wait" /\ clock > lastTime[g]
      /\ pc' = [pc EXCEPT ![c] = "issue"] /\ now' = [now EXCEPT ![c] = clock]
      /\ UNCHANGED <<clock, lastTime, sequence, holder, lastId>>
    BY SnowflakeAssumption DEF Sleep, generator, history
<1>1. MutexInv'
    BY <1>0 DEF MutexInv, TypeOK
<1>2. TimeInv'
    <2>1. clock \in 0..MaxClock
        BY DEF TimeInv
    <2> QED BY <1>0, <2>1 DEF TimeInv, TypeOK
<1>3. \A h \in Generators : Settled(h)' => Settled(h)
    BY <1>0 DEF Settled, TypeOK
<1>4. ASSUME NEW x \in Callers, pc'[x] = "issue"
      PROVE  lastId'[GeneratorOf[x]] < Id(now'[x], NodeId[GeneratorOf[x]], sequence'[GeneratorOf[x]])
    <2>1. CASE x = c
        <3>1. lastTime[g] \in Int /\ clock \in Int /\ sequence[g] \in Seqs /\ lastId[g] \in Int
            BY <1>0 DEF TypeOK, Seqs
        <3>2. NodeId[g] \in NodeIds /\ SeqSize - 1 \in Seqs
            BY <1>0, SnowflakeAssumption DEF NodeIds, Seqs
        <3>3. lastTime[g] < clock
            BY <1>0, <3>1
        <3>4. Id(lastTime[g], NodeId[g], SeqSize - 1) < Id(clock, NodeId[g], sequence[g])
            BY <3>1, <3>2, <3>3, IdLater
        <3>5. lastId[g] <= Id(lastTime[g], NodeId[g], SeqSize - 1)
            BY <1>0 DEF IdInv
        <3>6. /\ Id(lastTime[g], NodeId[g], SeqSize - 1) \in Int
              /\ Id(clock, NodeId[g], sequence[g]) \in Int
            <4>1. NodeId[g] \in Int /\ SeqSize - 1 \in Int /\ sequence[g] \in Int
                BY <3>1, <3>2 DEF NodeIds, Seqs
            <4> HIDE DEF g
            <4> QED BY <3>1, <4>1, IdType
        <3>7. lastId[g] < Id(clock, NodeId[g], sequence[g])
            BY <3>1, <3>4, <3>5, <3>6
        <3>8. now'[c] = clock
            BY <1>0 DEF TypeOK
        <3> QED BY <1>0, <2>1, <3>7, <3>8
    <2>2. CASE x # c
        BY <1>0, <1>4, <2>2 DEF TypeOK, IdInv
    <2> QED BY <2>1, <2>2
<1>5. IdInv'
    BY <1>0, <1>3, <1>4 DEF IdInv
<1> QED BY <1>1, <1>2, <1>5

LEMMA IssueInv ==
    ASSUME SnowflakeInv, NEW c \in Callers, Issue(c)
    PROVE  MutexInv' /\ TimeInv' /\ IdInv'
PROOF
<1> DEFINE g == GeneratorOf[c]
           i == Id(now[c], NodeId[g], sequence[g])
<1> USE DEF SnowflakeInv
<1>0. /\ g \in Generators
      /\ pc[c] = "issue" /\ holder[g] = c
      /\ pc' = [pc EXCEPT ![c] = "idle"] /\ now' = [now EXCEPT ![c] = 0]
      /\ lastTime' = [lastTime EXCEPT ![g] = now[c]]
      /\ lastId' = [lastId EXCEPT ![g] = i]
      /\ holder' = [holder EXCEPT ![g] = "free"]
      /\ UNCHANGED <<clock, sequence>>
    BY SnowflakeAssumption DEF Issue, HolderAfter, MutexInv
<1> HIDE DEF i
<1>1. MutexInv'
    <2>1. ASSUME NEW x \in Callers
          PROVE  pc'[x] \in {"read", "wait", "issue"} <=> holder'[GeneratorOf[x]] = x
        <3>0. GeneratorOf[x] \in Generators /\ x # "free"
            BY SnowflakeAssumption
        <3>1. CASE x = c
            BY <1>0, <3>0, <3>1 DEF TypeOK
        <3>2. CASE x # c
            BY <1>0, <3>0, <3>2 DEF TypeOK, MutexInv
        <3> QED BY <3>1, <3>2
    <2> QED BY <2>1 DEF MutexInv
<1>2. TimeInv'
    <2>1. now[c] \in 0..MaxClock /\ 0 \in 0..MaxClock
        BY SnowflakeAssumption DEF TimeInv
    <2> QED BY <1>0, <2>1 DEF TimeInv, TypeOK
<1>3. /\ now[c] \in Int /\ sequence[g] \in Seqs /\ NodeId[g] \in NodeIds
      /\ SeqSize - 1 \in Seqs /\ i \in Int /\ lastId[g] \in Int
    <2>1. now[c] \in Int /\ sequence[g] \in Seqs /\ lastId[g] \in Int
        BY <1>0 DEF TypeOK, Seqs
    <2>2. NodeId[g] \in NodeIds /\ SeqSize - 1 \in Seqs
        BY <1>0, SnowflakeAssumption DEF NodeIds, Seqs
    <2>3. i \in Int
        <3>1. NodeId[g] \in Int /\ sequence[g] \in Int
            BY <2>1, <2>2 DEF NodeIds, Seqs
        <3> QED BY <2>1, <3>1, IdType DEF i
    <2> QED BY <2>1, <2>2, <2>3
<1>4. i <= Id(now[c], NodeId[g], SeqSize - 1)
    <2>1. sequence[g] <= SeqSize - 1 /\ NodeId[g] <= NodeId[g] /\ now[c] <= now[c]
        BY <1>3, SnowflakeAssumption DEF Seqs, NodeIds
    <2> QED BY <1>3, <2>1, IdMonotone DEF i
<1>5. Zero <= i
    <2>1. Zero <= lastId[g] /\ lastId[g] < i
        BY <1>0 DEF IdInv, Zero, i
    <2>2. Zero \in Int
        BY IdType DEF Zero
    <2> QED BY <1>3, <2>1, <2>2
<1>6. ASSUME NEW h \in Generators
      PROVE  /\ Zero <= lastId'[h]
             /\ lastId'[h] <= Id(lastTime'[h], NodeId[h], SeqSize - 1)
             /\ Settled(h)' => lastId'[h] <= Id(lastTime'[h], NodeId[h], sequence'[h])
    <2>1. CASE h = g
        <3>1. lastId'[h] = i /\ lastTime'[h] = now[c] /\ sequence'[h] = sequence[g]
            BY <1>0, <2>1 DEF TypeOK
        <3>2. i <= Id(now[c], NodeId[g], sequence[g])
            BY <1>3 DEF i
        <3> QED BY <1>4, <1>5, <2>1, <3>1, <3>2
    <2>2. CASE h # g
        <3>1. Settled(h)' => Settled(h)
            BY <1>0, <2>2 DEF Settled, TypeOK
        <3>2. lastId'[h] = lastId[h] /\ lastTime'[h] = lastTime[h] /\ sequence'[h] = sequence[h]
            BY <1>0, <2>2 DEF TypeOK
        <3> QED BY <3>1, <3>2 DEF IdInv, Zero
    <2> QED BY <2>1, <2>2
<1>7. ASSUME NEW x \in Callers, pc'[x] = "issue"
      PROVE  lastId'[GeneratorOf[x]] < Id(now'[x], NodeId[GeneratorOf[x]], sequence'[GeneratorOf[x]])
    <2>1. x # c /\ pc[x] = "issue" /\ now'[x] = now[x]
        BY <1>0, <1>7 DEF TypeOK
    <2>2. GeneratorOf[x] # g
        BY <1>0, <2>1 DEF MutexInv
    <2>3. lastId'[GeneratorOf[x]] = lastId[GeneratorOf[x]] /\ GeneratorOf[x] \in Generators
        BY <1>0, <2>2, SnowflakeAssumption DEF TypeOK
    <2> QED BY <1>0, <2>1, <2>3 DEF IdInv
<1>8. IdInv'
    BY <1>6, <1>7 DEF IdInv, Zero
<1> QED BY <1>1, <1>2, <1>8

LEMMA RestartInv ==
    ASSUME SnowflakeInv, NEW g \in Generators, Restart(g)
    PROVE  MutexInv' /\ TimeInv' /\ IdInv'
PROOF
<1> USE DEF SnowflakeInv
<1>1. MutexInv'
    <2>1. ASSUME NEW x \in Callers
          PROVE  pc'[x] \in {"read", "wait", "issue"} <=> holder'[GeneratorOf[x]] = x
        <3>0. GeneratorOf[x] \in Generators /\ x # "free"
            BY SnowflakeAssumption
        <3> QED BY <3>0 DEF Restart, TypeOK, MutexInv
    <2> QED BY <2>1 DEF MutexInv
<1>2. TimeInv'
    BY SnowflakeAssumption DEF Restart, TimeInv, TypeOK
<1>3. ASSUME NEW h \in Generators
      PROVE  /\ Zero <= lastId'[h]
             /\ lastId'[h] <= Id(lastTime'[h], NodeId[h], SeqSize - 1)
             /\ Settled(h)' => lastId'[h] <= Id(lastTime'[h], NodeId[h], sequence'[h])
    <2>1. CASE h = g
        <3>1. lastId'[h] = Zero /\ lastTime'[h] = 0 /\ sequence'[h] = 0
            BY <2>1 DEF Restart, TypeOK, Zero
        <3>2. 0 \in Seqs /\ SeqSize - 1 \in Seqs
            BY SnowflakeAssumption DEF Seqs
        <3> QED BY <3>1, <3>2, ZeroLeast
    <2>2. CASE h # g
        <3>1. Settled(h)' => Settled(h)
            BY <2>2 DEF Restart, Settled, TypeOK
        <3>2. lastId'[h] = lastId[h] /\ lastTime'[h] = lastTime[h] /\ sequence'[h] = sequence[h]
            BY <2>2 DEF Restart, TypeOK
        <3> QED BY <3>1, <3>2 DEF IdInv, Zero
    <2> QED BY <2>1, <2>2
<1>4. ASSUME NEW x \in Callers, pc'[x] = "issue"
      PROVE  lastId'[GeneratorOf[x]] < Id(now'[x], NodeId[GeneratorOf[x]], sequence'[GeneratorOf[x]])
    <2>1. GeneratorOf[x] # g /\ pc[x] = "issue" /\ now'[x] = now[x]
        BY <1>4 DEF Restart
    <2>2. /\ GeneratorOf[x] \in Generators
          /\ lastId'[GeneratorOf[x]] = lastId[GeneratorOf[x]]
          /\ sequence'[GeneratorOf[x]] = sequence[GeneratorOf[x]]
        BY <2>1, SnowflakeAssumption DEF Restart, TypeOK
    <2> QED BY <2>1, <2>2 DEF IdInv
<1>5. IdInv'
    BY <1>3, <1>4 DEF IdInv, Zero
<1> QED BY <1>1, <1>2, <1>5

LEMMA ClockInv ==
    ASSUME SnowflakeInv, Advance \/ StepBack \/ UNCHANGED vars
    PROVE  MutexInv' /\ TimeInv' /\ IdInv'
PROOF
<1> USE DEF SnowflakeInv
<1>1. UNCHANGED <<lastTime, sequence, holder, pc, now, lastId>>
    BY DEF Advance, StepBack, vars, generator, history
<1>2. clock' \in 1..MaxClock
    <2>1. clock \in 1..MaxClock /\ MaxClock \in Nat
        BY SnowflakeAssumption DEF TimeInv
    <2> QED BY <2>1 DEF Advance, StepBack, vars
<1>3. MutexInv'
    BY <1>1 DEF MutexInv
<1>4. TimeInv'
    BY <1>1, <1>2 DEF TimeInv
<1>5. IdInv'
    BY <1>1, IdInvKept
<1> QED BY <1>3, <1>4, <1>5

\* The invariant holds in every reachable state.
THEOREM GeneratorInvariant == Spec => []SnowflakeInv
PROOF
<1>1. Init => SnowflakeInv
    BY InitType, InitInv DEF SnowflakeInv
<1>2. SnowflakeInv /\ [Next]_vars => SnowflakeInv'
    <2> SUFFICES ASSUME SnowflakeInv, [Next]_vars PROVE SnowflakeInv'
        OBVIOUS
    <2>1. TypeOK'
        BY NextType DEF SnowflakeInv
    <2>2. MutexInv' /\ TimeInv' /\ IdInv'
        BY CallInv, LockInv, ReadClockInv, SleepInv, IssueInv, RestartInv, ClockInv
           DEF Next, NextID, Quiescent
    <2> QED BY <2>1, <2>2 DEF SnowflakeInv
<1> QED BY <1>1, <1>2, PTL DEF Spec

(***************************************************************************)
(* The refinement.                                                         *)
(***************************************************************************)
LEMMA IssueGenerates ==
    ASSUME SnowflakeInv, NEW c \in Callers, Issue(c)
    PROVE  \E g \in Generators :
               \E id \in (Id(0, 0, 0) + 1)..Id(MaxClock, Nodes - 1, SeqSize - 1) :
                   id > lastId[g] /\ lastId' = [lastId EXCEPT ![g] = id]
PROOF
<1> DEFINE g == GeneratorOf[c]
           i == Id(now[c], NodeId[g], sequence[g])
           most == Id(MaxClock, Nodes - 1, SeqSize - 1)
<1>1. g \in Generators /\ lastId' = [lastId EXCEPT ![g] = i] /\ pc[c] = "issue"
    BY SnowflakeAssumption DEF Issue
<1>2. now[c] \in Int /\ sequence[g] \in Seqs /\ lastId[g] \in Int /\ now[c] <= MaxClock
    BY <1>1, SnowflakeAssumption DEF SnowflakeInv, TypeOK, TimeInv, Seqs
<1>3. /\ NodeId[g] \in NodeIds /\ Nodes - 1 \in NodeIds /\ SeqSize - 1 \in Seqs
      /\ MaxClock \in Int
    BY <1>1, SnowflakeAssumption DEF NodeIds, Seqs
<1>4. NodeId[g] <= Nodes - 1 /\ sequence[g] <= SeqSize - 1
    BY <1>2, <1>3, SnowflakeAssumption DEF NodeIds, Seqs
<1>5. i <= most
    BY <1>2, <1>3, <1>4, IdMonotone
<1>6. i \in Int /\ most \in Int /\ Zero \in Int
    <2>1. /\ NodeId[g] \in Int /\ sequence[g] \in Int
          /\ Nodes - 1 \in Int /\ SeqSize - 1 \in Int
        BY <1>2, <1>3 DEF NodeIds, Seqs
    <2>2. i \in Int
        BY <1>2, <2>1, IdType
    <2>3. most \in Int
        BY <1>3, <2>1, IdType
    <2> QED BY <2>2, <2>3, IdType DEF Zero
<1>7. Zero <= lastId[g] /\ lastId[g] < i
    BY <1>1 DEF SnowflakeInv, IdInv, Zero
<1> HIDE DEF i, most, g
<1>8. i \in (Zero + 1)..most /\ i > lastId[g]
    BY <1>2, <1>5, <1>6, <1>7
<1> QED BY <1>1, <1>8 DEF Zero, most

\* The ids of one generator increase for as long as it lives, whatever its callers,
\* its sequence and the clock do (NextID in idgen.go).
THEOREM GeneratorsImplementIdSource == Spec => ImplementsIdSource
PROOF
<1>1. Init => Source!Init
    BY DEF Init, Source!Init
<1>2. SnowflakeInv /\ [Next]_vars => [Source!Next]_lastId
    <2> SUFFICES ASSUME SnowflakeInv, [Next]_vars PROVE Source!Next \/ UNCHANGED lastId
        BY DEF Source!Next
    <2>1. ASSUME NEW c \in Callers, Call(c) \/ Lock(c) \/ ReadClock(c) \/ Sleep(c)
          PROVE  UNCHANGED lastId
        BY <2>1 DEF Call, Lock, ReadClock, Sleep, history
    <2>2. ASSUME NEW c \in Callers, Issue(c)
          PROVE  Source!Next
        BY <2>2, IssueGenerates DEF Source!Next, Source!Generate
    <2>3. ASSUME NEW g \in Generators, Restart(g)
          PROVE  Source!Next
        BY <2>3 DEF Restart, Source!Next, Source!Create
    <2>4. CASE Advance \/ StepBack \/ UNCHANGED vars
        BY <2>4 DEF Advance, StepBack, vars, history
    <2> QED BY <2>1, <2>2, <2>3, <2>4 DEF Next, NextID, Quiescent
<1> QED BY <1>1, <1>2, GeneratorInvariant, PTL DEF Spec, ImplementsIdSource, Source!Spec

(***************************************************************************)
(* Ids of several generators and lives.                                    *)
(***************************************************************************)
LEMMA DigitUnique ==
    \A a, b \in Int : \A k \in Nat : \A q, p \in 0..(k - 1) :
        a * k + q = b * k + p => a = b /\ q = p
PROOF
<1> SUFFICES ASSUME NEW a \in Int, NEW b \in Int, NEW k \in Nat,
                    NEW q \in 0..(k - 1), NEW p \in 0..(k - 1),
                    a * k + q = b * k + p
             PROVE  a = b /\ q = p
    OBVIOUS
<1>1. ASSUME NEW x \in Int, NEW y \in Int, x < y PROVE x * k + k <= y * k
    <2>1. (x + 1) * k <= y * k
        BY <1>1, ProductMonotone
    <2>2. (x + 1) * k = x * k + k
        BY Z3
    <2> QED BY <2>1, <2>2
<1>2. a * k \in Int /\ b * k \in Int
    BY ProductMonotone
<1>3. ~(a < b)
    BY <1>1, <1>2
<1>4. ~(b < a)
    BY <1>1, <1>2
<1>5. a = b
    BY <1>3, <1>4
<1> QED BY <1>2, <1>5

\* The node can be read off an id.
LEMMA NodeOfId ==
    ASSUME NEW t \in Int, NEW u \in Int, NEW n \in NodeIds, NEW m \in NodeIds,
           NEW q \in Seqs, NEW p \in Seqs, Id(t, n, q) = Id(u, m, p)
    PROVE  n = m
PROOF
<1> DEFINE x == (t - Epoch) * Nodes
           y == (u - Epoch) * Nodes
<1>0. t - Epoch \in Int /\ u - Epoch \in Int /\ Nodes \in Nat /\ SeqSize \in Nat
    BY SnowflakeAssumption
<1>1. x \in Int /\ y \in Int
    BY <1>0, ProductMonotone
<1>2. x + n = y + m
    <2>1. (x + n) * SeqSize + q = (y + m) * SeqSize + p
        BY DEF Id
    <2>2. x + n \in Int /\ y + m \in Int
        BY <1>1 DEF NodeIds
    <2> HIDE DEF x, y
    <2> QED BY <1>0, <2>1, <2>2, DigitUnique DEF Seqs
<1> QED BY <1>0, <1>2, DigitUnique DEF NodeIds

\* What was issued was made from the node, and in the current life no later than the
\* last id.
IssuedInv ==
    \A x \in issued : LET g == x.generator IN
        /\ \E t \in Int, q \in Seqs : x.id = Id(t, NodeId[g], q)
        /\ x.life <= life[g]
        /\ x.life = life[g] => x.id <= lastId[g]

\* While the clock was never set back, no time used is ahead of it, and an id of an
\* earlier life is less than all that the clock, or a call that has read it, can give.
Older(x) == x.life < life[x.generator]
PastInv ==
    stepsBack = 0 =>
        /\ \A g \in Generators : lastTime[g] <= clock
        /\ \A c \in Callers : pc[c] = "issue" => now[c] <= clock
        /\ \A x \in issued : Older(x) =>
             /\ x.id < Id(clock, NodeId[x.generator], 0)
             /\ \A c \in Callers : pc[c] = "issue" /\ GeneratorOf[c] = x.generator =>
                  x.id < Id(now[c], NodeId[x.generator], sequence[x.generator])
        /\ \A x, y \in issued :
             x.generator = y.generator /\ x.life < y.life => x.id < y.id

LEMMA IdOfGenerator ==
    ASSUME NEW g \in Generators, NEW t \in Int, NEW q \in Seqs
    PROVE  NodeId[g] \in NodeIds /\ Id(t, NodeId[g], q) \in Int
PROOF
<1>1. NodeId[g] \in NodeIds
    BY SnowflakeAssumption DEF NodeIds
<1>2. NodeId[g] \in Int /\ q \in Int
    BY <1>1 DEF NodeIds, Seqs
<1> QED BY <1>1, <1>2, IdType

LEMMA ZeroSeq == 0 \in Seqs /\ SeqSize - 1 \in Seqs
PROOF BY SnowflakeAssumption DEF Seqs

\* A call that has read the clock, which was never set back, is past the earlier lives.
LEMMA ReadIsPast ==
    ASSUME SnowflakeInv, PastInv, stepsBack = 0,
           NEW x \in issued, Older(x), NEW q \in Seqs
    PROVE  x.id < Id(clock, NodeId[x.generator], q)
PROOF
<1> DEFINE g == x.generator
<1>1. x.id \in Int /\ g \in Generators /\ clock \in Int
    BY DEF SnowflakeInv, TypeOK
<1> HIDE DEF g
<1>2. 0 <= q /\ NodeId[g] <= NodeId[g] /\ clock <= clock
    BY <1>1, IdOfGenerator DEF Seqs, NodeIds
<1>3. Id(clock, NodeId[g], 0) <= Id(clock, NodeId[g], q)
    BY <1>1, <1>2, ZeroSeq, IdOfGenerator, IdMonotone
<1>4. x.id < Id(clock, NodeId[g], 0)
    BY DEF PastInv, g
<1>5. Id(clock, NodeId[g], 0) \in Int /\ Id(clock, NodeId[g], q) \in Int
    BY <1>1, ZeroSeq, IdOfGenerator
<1> QED BY <1>1, <1>3, <1>4, <1>5 DEF g

LEMMA ReadPast ==
    ASSUME SnowflakeInv, PastInv, NEW c \in Callers, ReadClock(c) \/ Sleep(c)
    PROVE  PastInv'
PROOF
<1> SUFFICES ASSUME stepsBack = 0 PROVE PastInv'
    BY DEF PastInv, ReadClock, Sleep
<1> DEFINE g == GeneratorOf[c]
<1>1. /\ g \in Generators
      /\ UNCHANGED <<clock, lastTime, issued, life>>
      /\ pc[c] \in {"read", "wait"}
      /\ \A h \in Generators \ {g} : sequence'[h] = sequence[h]
      /\ \A d \in Callers \ {c} : pc'[d] = pc[d] /\ now'[d] = now[d]
    BY SnowflakeAssumption DEF ReadClock, Sleep, SnowflakeInv, TypeOK, generator, history
<1>2. sequence'[g] \in Seqs
    BY <1>1, NextType DEF SnowflakeInv, TypeOK, Seqs, Next, NextID
<1>3. now'[c] = clock
    <2>1. lastTime[g] \in Nat /\ clock \in Nat /\ lastTime[g] <= clock
        BY <1>1 DEF PastInv, SnowflakeInv, TypeOK
    <2>2. TimeRead(g) = clock
        BY <2>1 DEF TimeRead
    <2>3. now' = [now EXCEPT ![c] = clock]
        BY <2>2 DEF ReadClock, Sleep
    <2> QED BY <2>3 DEF SnowflakeInv, TypeOK
<1>4. ASSUME NEW d \in Callers, d # c, pc[d] = "issue" PROVE GeneratorOf[d] # g
    BY <1>1, <1>4 DEF SnowflakeInv, MutexInv
<1>5. \A d \in Callers : pc'[d] = "issue" => now'[d] <= clock
    <2>1. clock <= clock
        BY DEF SnowflakeInv, TypeOK
    <2> QED BY <1>1, <1>3, <2>1 DEF PastInv
<1>6. ASSUME NEW x \in issued, Older(x), NEW d \in Callers, pc'[d] = "issue",
             GeneratorOf[d] = x.generator
      PROVE  x.id < Id(now'[d], NodeId[x.generator], sequence'[x.generator])
    <2>1. CASE d = c
        BY <1>2, <1>3, <1>6, <2>1, ReadIsPast
    <2>2. CASE d # c
        <3>1. x.generator \in Generators \ {g}
            BY <1>1, <1>4, <1>6, <2>2 DEF SnowflakeInv, TypeOK
        <3> QED BY <1>1, <1>6, <2>2, <3>1 DEF PastInv
    <2> QED BY <2>1, <2>2
<1>7. \A x \in issued : Older(x)' <=> Older(x)
    BY <1>1 DEF Older
<1> QED BY <1>1, <1>5, <1>6, <1>7 DEF PastInv

LEMMA IssueUnique ==
    ASSUME SnowflakeInv, IssuedInv, PastInv, NEW c \in Callers, Issue(c)
    PROVE  IssuedInv' /\ PastInv'
PROOF
<1> DEFINE g == GeneratorOf[c]
           i == Id(now[c], NodeId[g], sequence[g])
           new == [id |-> i, generator |-> g, life |-> life[g]]
<1>0. /\ g \in Generators /\ pc[c] = "issue" /\ holder[g] = c
      /\ pc' = [pc EXCEPT ![c] = "idle"] /\ now' = [now EXCEPT ![c] = 0]
      /\ lastTime' = [lastTime EXCEPT ![g] = now[c]]
      /\ lastId' = [lastId EXCEPT ![g] = i]
      /\ issued' = issued \cup {new}
      /\ UNCHANGED <<clock, sequence, life, stepsBack>>
    BY SnowflakeAssumption DEF Issue, SnowflakeInv, MutexInv
<1>1. /\ now[c] \in Int /\ sequence[g] \in Seqs /\ lastId[g] \in Int /\ life[g] \in Int
      /\ \A x \in issued : /\ x.id \in Int /\ x.life \in Int /\ x.generator \in Generators
    BY <1>0 DEF SnowflakeInv, TypeOK, Seqs
<1>2. i \in Int
    BY <1>0, <1>1, IdOfGenerator
<1>3. lastId[g] < i
    BY <1>0 DEF SnowflakeInv, IdInv
<1>4. \E t \in Int, q \in Seqs : i = Id(t, NodeId[g], q)
    BY <1>1
<1> HIDE DEF i
<1>5. /\ new.id = i /\ new.generator = g /\ new.life = life[g]
      /\ lastId'[g] = i /\ \A h \in Generators \ {g} : lastId'[h] = lastId[h]
    BY <1>0 DEF SnowflakeInv, TypeOK
<1> HIDE DEF new, g
<1>6. ASSUME NEW x \in issued'
      PROVE  /\ \E t \in Int, q \in Seqs : x.id = Id(t, NodeId[x.generator], q)
             /\ x.life <= life'[x.generator]
             /\ x.life = life'[x.generator] => x.id <= lastId'[x.generator]
    <2>1. CASE x \in issued
        <3>1. /\ \E t \in Int, q \in Seqs : x.id = Id(t, NodeId[x.generator], q)
              /\ x.life <= life[x.generator]
              /\ x.life = life[x.generator] => x.id <= lastId[x.generator]
            BY <2>1 DEF IssuedInv
        <3>2. x.life = life[x.generator] => x.id <= lastId'[x.generator]
            BY <1>1, <1>2, <1>3, <1>5, <2>1, <3>1
        <3> QED BY <1>0, <3>1, <3>2
    <2>2. CASE x = new
        BY <1>0, <1>1, <1>2, <1>4, <1>5, <2>2
    <2> QED BY <1>0, <2>1, <2>2
<1>7. IssuedInv'
    BY <1>6 DEF IssuedInv
<1>8. ASSUME stepsBack = 0
      PROVE  /\ \A h \in Generators : lastTime'[h] <= clock'
             /\ \A d \in Callers : pc'[d] = "issue" => now'[d] <= clock'
    BY <1>0, <1>8 DEF PastInv, SnowflakeInv, TypeOK
<1>9. ASSUME NEW x \in issued', Older(x)' PROVE x \in issued /\ Older(x)
    <2>1. new.life = life'[new.generator] /\ ~(new.life < new.life)
        BY <1>0, <1>1, <1>5
    <2> QED BY <1>0, <1>9, <2>1 DEF Older
<1>10. ASSUME stepsBack = 0, NEW x \in issued', Older(x)'
       PROVE  /\ x.id < Id(clock', NodeId[x.generator], 0)
              /\ \A d \in Callers : pc'[d] = "issue" /\ GeneratorOf[d] = x.generator =>
                   x.id < Id(now'[d], NodeId[x.generator], sequence'[x.generator])
    <2>1. \A d \in Callers : pc'[d] = "issue" => pc[d] = "issue" /\ now'[d] = now[d]
        BY <1>0 DEF SnowflakeInv, TypeOK
    <2> QED BY <1>0, <1>9, <1>10, <2>1 DEF PastInv
<1>11. ASSUME stepsBack = 0, NEW x \in issued', NEW y \in issued',
              x.generator = y.generator, x.life < y.life
       PROVE  x.id < y.id
    <2>1. CASE x \in issued /\ y \in issued
        BY <1>11, <2>1 DEF PastInv
    <2>2. CASE x \in issued /\ y = new
        <3>1. Older(x) /\ x.generator = g
            BY <1>5, <1>11, <2>2 DEF Older
        <3> QED BY <1>0, <1>5, <1>11, <2>2, <3>1 DEF PastInv, i, g
    <2>3. CASE x = new
        <3>1. y.life <= life[g]
            BY <1>0, <1>1, <1>5, <1>6, <1>11, <2>3
        <3>2. y.life \in Int
            BY <1>0, <1>1, <1>5
        <3> QED BY <1>1, <1>5, <1>11, <2>3, <3>1, <3>2
    <2> QED BY <1>0, <2>1, <2>2, <2>3
<1>12. PastInv'
    BY <1>0, <1>8, <1>10, <1>11 DEF PastInv
<1> QED BY <1>7, <1>12

LEMMA RestartUnique ==
    ASSUME SnowflakeInv, IssuedInv, PastInv, NEW g \in Generators, Restart(g)
    PROVE  IssuedInv' /\ PastInv'
PROOF
<1>0. /\ clock > lastTime[g] \/ stepsBack > 0
      /\ life' = [life EXCEPT ![g] = @ + 1]
      /\ UNCHANGED <<clock, issued, stepsBack>>
      /\ \A h \in Generators \ {g} :
           /\ lastTime'[h] = lastTime[h] /\ lastId'[h] = lastId[h]
           /\ sequence'[h] = sequence[h]
      /\ lastTime'[g] = 0
    BY DEF Restart, SnowflakeInv, TypeOK
<1>1. /\ \A h \in Generators : life[h] \in Int /\ lastTime[h] \in Int /\ lastId[h] \in Int
      /\ \A x \in issued : x.id \in Int /\ x.life \in Int /\ x.generator \in Generators
      /\ clock \in Nat
    BY DEF SnowflakeInv, TypeOK
<1>2. life'[g] = life[g] + 1 /\ \A h \in Generators \ {g} : life'[h] = life[h]
    BY <1>0 DEF SnowflakeInv, TypeOK
<1>3. IssuedInv'
    <2>1. ASSUME NEW x \in issued
          PROVE  /\ \E t \in Int, q \in Seqs : x.id = Id(t, NodeId[x.generator], q)
                 /\ x.life <= life'[x.generator]
                 /\ x.life = life'[x.generator] => x.id <= lastId'[x.generator]
        <3>1. /\ \E t \in Int, q \in Seqs : x.id = Id(t, NodeId[x.generator], q)
              /\ x.life <= life[x.generator]
              /\ x.life = life[x.generator] => x.id <= lastId[x.generator]
            BY DEF IssuedInv
        <3>2. CASE x.generator = g
            <4>1. life[g] \in Int /\ x.life \in Int
                BY <1>1
            <4> QED BY <1>2, <3>1, <3>2, <4>1
        <3>3. CASE x.generator # g
            BY <1>0, <1>1, <1>2, <3>1, <3>3
        <3> QED BY <3>2, <3>3
    <2> QED BY <1>0, <2>1 DEF IssuedInv
<1>4. PastInv'
    <2> SUFFICES ASSUME stepsBack = 0 PROVE PastInv'
        BY <1>0 DEF PastInv
    <2>1. \A h \in Generators : lastTime'[h] <= clock'
        BY <1>0, <1>1 DEF PastInv
    <2>2. \A d \in Callers : pc'[d] = "issue" =>
             pc[d] = "issue" /\ now'[d] = now[d] /\ GeneratorOf[d] # g
        BY DEF Restart
    <2>3. ASSUME NEW x \in issued, Older(x)', x.generator = g
          PROVE  x.id < Id(clock, NodeId[g], 0)
        <3>1. CASE Older(x)
            BY <2>3, <3>1 DEF PastInv
        <3>2. CASE ~Older(x)
            <4>1. x.life = life[g]
                BY <1>1, <2>3, <3>2 DEF IssuedInv, Older
            <4>2. x.id <= lastId[g] /\ lastId[g] <= Id(lastTime[g], NodeId[g], SeqSize - 1)
                BY <2>3, <4>1 DEF IssuedInv, SnowflakeInv, IdInv
            <4>3. lastTime[g] < clock
                BY <1>0, <1>1
            <4>4. Id(lastTime[g], NodeId[g], SeqSize - 1) < Id(clock, NodeId[g], 0)
                BY <1>1, <4>3, ZeroSeq, IdOfGenerator, IdLater
            <4>5. /\ Id(lastTime[g], NodeId[g], SeqSize - 1) \in Int
                  /\ Id(clock, NodeId[g], 0) \in Int
                BY <1>1, ZeroSeq, IdOfGenerator
            <4> QED BY <1>1, <4>2, <4>4, <4>5
        <3> QED BY <3>1, <3>2
    <2>4. ASSUME NEW x \in issued, Older(x)', x.generator # g PROVE Older(x)
        BY <1>1, <1>2, <2>4 DEF Older
    <2>5. ASSUME NEW x \in issued, Older(x)'
          PROVE  x.id < Id(clock', NodeId[x.generator], 0)
        BY <1>0, <2>3, <2>4, <2>5 DEF PastInv
    <2>6. ASSUME NEW x \in issued, Older(x)', NEW d \in Callers, pc'[d] = "issue",
                 GeneratorOf[d] = x.generator
          PROVE  x.id < Id(now'[d], NodeId[x.generator], sequence'[x.generator])
        <3>1. x.generator # g /\ pc[d] = "issue" /\ now'[d] = now[d]
            BY <2>2, <2>6
        <3>2. Older(x) /\ sequence'[x.generator] = sequence[x.generator]
            BY <1>0, <1>1, <2>4, <2>6, <3>1
        <3> QED BY <2>6, <3>1, <3>2 DEF PastInv
    <2>7. \A d \in Callers : pc'[d] = "issue" => now'[d] <= clock'
        BY <1>0, <2>2 DEF PastInv
    <2>8. \A x, y \in issued' : x.generator = y.generator /\ x.life < y.life => x.id < y.id
        BY <1>0 DEF PastInv
    <2> QED BY <1>0, <2>1, <2>5, <2>6, <2>7, <2>8 DEF PastInv
<1> QED BY <1>3, <1>4

\* Nothing is issued, and the clock stays or runs.
LEMMA QuietUnique ==
    ASSUME SnowflakeInv, IssuedInv, PastInv,
           UNCHANGED <<lastTime, sequence, now, issued, lastId, life, stepsBack>>,
           clock' \in Nat, clock <= clock',
           \A c \in Callers : pc'[c] = "issue" => pc[c] = "issue"
    PROVE  IssuedInv' /\ PastInv'
PROOF
<1>1. IssuedInv'
    BY DEF IssuedInv
<1>2. PastInv'
    <2> SUFFICES ASSUME stepsBack = 0 PROVE PastInv'
        BY DEF PastInv
    <2>1. \A h \in Generators : lastTime'[h] <= clock'
        BY DEF PastInv, SnowflakeInv, TypeOK
    <2>2. \A d \in Callers : pc'[d] = "issue" => now'[d] <= clock'
        BY DEF PastInv, SnowflakeInv, TypeOK
    <2>3. ASSUME NEW x \in issued, Older(x)
          PROVE  x.id < Id(clock', NodeId[x.generator], 0)
        <3> DEFINE g == x.generator
        <3>1. g \in Generators /\ x.id \in Int /\ clock \in Int /\ clock' \in Int
            BY DEF SnowflakeInv, TypeOK
        <3>2. x.id < Id(clock, NodeId[g], 0)
            BY <2>3 DEF PastInv
        <3> HIDE DEF g
        <3>3. NodeId[g] <= NodeId[g] /\ 0 <= 0
            BY <3>1, ZeroSeq, IdOfGenerator DEF NodeIds
        <3>4. Id(clock, NodeId[g], 0) <= Id(clock', NodeId[g], 0)
            BY <3>1, <3>3, ZeroSeq, IdOfGenerator, IdMonotone
        <3>5. Id(clock, NodeId[g], 0) \in Int /\ Id(clock', NodeId[g], 0) \in Int
            BY <3>1, ZeroSeq, IdOfGenerator
        <3> QED BY <3>1, <3>2, <3>4, <3>5 DEF g
    <2>4. \A x \in issued : Older(x)' <=> Older(x)
        BY DEF Older
    <2> QED BY <2>1, <2>2, <2>3, <2>4 DEF PastInv
<1> QED BY <1>1, <1>2

\* Both are invariants: the ids of a generator stay below its last one, and while the
\* clock is never set back every id of an earlier life is below all that Restart and
\* NextID can still hand out.
THEOREM IssuedInvariant == Spec => [](IssuedInv /\ PastInv)
PROOF
<1>1. Init => IssuedInv /\ PastInv
    <2> SUFFICES ASSUME Init PROVE IssuedInv /\ PastInv
        OBVIOUS
    <2>1. issued = {} /\ clock \in Nat /\ \A g \in Generators : lastTime[g] = 0
        BY SnowflakeAssumption DEF Init
    <2>2. \A c \in Callers : pc[c] # "issue"
        BY DEF Init
    <2> QED BY <2>1, <2>2 DEF IssuedInv, PastInv
<1>2. SnowflakeInv /\ IssuedInv /\ PastInv /\ [Next]_vars => (IssuedInv /\ PastInv)'
    <2> SUFFICES ASSUME SnowflakeInv, IssuedInv, PastInv, [Next]_vars
                 PROVE  IssuedInv' /\ PastInv'
        OBVIOUS
    <2>0. clock \in Nat /\ clock <= clock
        BY DEF SnowflakeInv, TypeOK
    <2>1. ASSUME NEW c \in Callers, Call(c) \/ Lock(c) PROVE IssuedInv' /\ PastInv'
        <3>1. UNCHANGED <<clock, lastTime, sequence, now, issued, lastId, life, stepsBack>>
            BY <2>1 DEF Call, Lock, generator, history
        <3>2. \A d \in Callers : pc'[d] = "issue" => pc[d] = "issue"
            BY <2>1 DEF Call, Lock, SnowflakeInv, TypeOK
        <3> QED BY <2>0, <3>1, <3>2, QuietUnique
    <2>2. ASSUME NEW c \in Callers, ReadClock(c) \/ Sleep(c) PROVE IssuedInv' /\ PastInv'
        <3>1. UNCHANGED <<issued, lastId, life>>
            BY <2>2 DEF ReadClock, Sleep, history
        <3> QED BY <2>2, <3>1, ReadPast DEF IssuedInv
    <2>3. ASSUME NEW c \in Callers, Issue(c) PROVE IssuedInv' /\ PastInv'
        BY <2>3, IssueUnique
    <2>4. ASSUME NEW g \in Generators, Restart(g) PROVE IssuedInv' /\ PastInv'
        BY <2>4, RestartUnique
    <2>5. CASE Advance \/ UNCHANGED vars
        <3>1. /\ UNCHANGED <<lastTime, sequence, now, issued, lastId, life, stepsBack, pc>>
              /\ clock' \in Nat /\ clock <= clock'
            BY <2>0, <2>5 DEF Advance, vars, generator, history
        <3> QED BY <3>1, QuietUnique
    <2>6. CASE StepBack
        <3>1. stepsBack' # 0 /\ UNCHANGED <<issued, lastId, life>>
            BY <2>6 DEF StepBack, SnowflakeInv, TypeOK, history
        <3> QED BY <3>1 DEF IssuedInv, PastInv
    <2> QED BY <2>1, <2>2, <2>3, <2>4, <2>5, <2>6 DEF Next, NextID, Quiescent
<1> QED BY <1>1, <1>2, GeneratorInvariant, PTL DEF Spec

\* Generators of different nodes, and the lives of one while the clock is never set
\* back, never issue the same id (NextID in idgen.go).
THEOREM UniqueIds == Spec => []IdsAreUnique
PROOF
<1>1. SnowflakeInv /\ IssuedInv /\ PastInv => IdsAreUnique
    <2> SUFFICES ASSUME SnowflakeInv, IssuedInv, PastInv,
                        NEW x \in issued, NEW y \in issued, x.id = y.id, x # y,
                        ~(x.generator = y.generator /\ x.life # y.life /\ stepsBack > 0)
                 PROVE  x.generator # y.generator /\ NodeId[x.generator] = NodeId[y.generator]
        BY DEF IdsAreUnique
    <2>0. /\ x \in [id : Int, generator : Generators, life : Nat]
          /\ y \in [id : Int, generator : Generators, life : Nat]
          /\ stepsBack \in Nat
        BY SnowflakeAssumption DEF SnowflakeInv, TypeOK
    <2>1. x.generator # y.generator
        <3> SUFFICES ASSUME x.generator = y.generator PROVE FALSE
            OBVIOUS
        <3>1. x.life # y.life
            BY <2>0
        <3>2. stepsBack = 0
            BY <2>0, <3>1
        <3>3. x.life < y.life \/ y.life < x.life
            BY <2>0, <3>1
        <3>4. x.id < y.id \/ y.id < x.id
            BY <3>2, <3>3 DEF PastInv
        <3> QED BY <2>0, <3>4
    <2>2. NodeId[x.generator] = NodeId[y.generator]
        <3>1. PICK t \in Int, q \in Seqs : x.id = Id(t, NodeId[x.generator], q)
            BY DEF IssuedInv
        <3>2. PICK u \in Int, p \in Seqs : y.id = Id(u, NodeId[y.generator], p)
            BY DEF IssuedInv
        <3>3. NodeId[x.generator] \in NodeIds /\ NodeId[y.generator] \in NodeIds
            BY <2>0, <3>1, IdOfGenerator
        <3>4. Id(t, NodeId[x.generator], q) = Id(u, NodeId[y.generator], p)
            BY <3>1, <3>2
        <3> DEFINE n == NodeId[x.generator]
                   m == NodeId[y.generator]
        <3>5. n \in NodeIds /\ m \in NodeIds /\ Id(t, n, q) = Id(u, m, p)
            BY <3>3, <3>4
        <3> HIDE DEF n, m
        <3>6. n = m
            BY <3>1, <3>2, <3>5, NodeOfId
        <3> QED BY <3>6 DEF n, m
    <2> QED BY <2>1, <2>2
<1> QED BY <1>1, GeneratorInvariant, IssuedInvariant, PTL
=============================================================================
