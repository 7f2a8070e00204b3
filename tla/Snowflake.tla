----------------------------- MODULE Snowflake -----------------------------
(***************************************************************************)
(* internal/idgen: the generators of 64-bit ids, each with the goroutines  *)
(* that call its NextID.  A call runs under the generator's mutex, so that *)
(* only the wall clock, and the end of the process, come between its steps:*)
(* reading the clock, sleeping until it moves, and handing the id out.     *)
(*                                                                         *)
(* Times are in milliseconds since 1970, which is what the zero lastTime of*)
(* a new generator stands for; the clock is past it.  It may be set back.  *)
(***************************************************************************)
EXTENDS Integers

CONSTANTS
    Generators,      \* one per process and use
    Callers,         \* goroutines that call NextID
    GeneratorOf,     \* Callers -> Generators
    NodeId,          \* Generators -> 0..Nodes-1
    Nodes,           \* 2^10
    SeqSize,         \* 2^12
    Epoch,           \* defaultEpoch
    Start,           \* the clock when the generators are created
    LastCall, MaxClock,  \* bounds: no call begins from LastCall on; the clock ends
    MaxCalls,        \* bound: Callers -> the calls each may make
    MaxStepsBack, MaxRestarts  \* bounds

ASSUME SnowflakeAssumption ==
    /\ GeneratorOf \in [Callers -> Generators] /\ "free" \notin Callers
    /\ NodeId \in [Generators -> 0..(Nodes - 1)]
    /\ Nodes \in Nat \ {0} /\ SeqSize \in Nat \ {0}
    /\ Epoch \in Nat
    /\ LastCall \in Nat /\ MaxClock \in Nat /\ Start \in 1..MaxClock
    /\ MaxCalls \in [Callers -> Nat]
    /\ MaxStepsBack \in Nat /\ MaxRestarts \in Nat

VARIABLES
    clock,           \* the wall clock
    lastTime, sequence,  \* of a generator
    holder,          \* of a generator's mutex: a caller, or "free"
    pc, now,         \* of a call
    calls,           \* of a caller: the calls that returned
    issued,          \* the ids handed out, by which generator and in which life
    lastId,          \* of a generator: the last id of this life
    life,            \* of a generator: how often its process was restarted
    stepsBack        \* how often the clock was set back

generator == <<lastTime, sequence, holder>>
history == <<issued, lastId>>
vars == <<clock, generator, pc, now, calls, history, life, stepsBack>>

\* Mutation of Id: the node is left out.
IdWithoutNode(time, node, seq) == (time - Epoch) * Nodes * SeqSize + seq

\* (now - epoch) << 22 | nodeID << 12 | sequence
Id(time, node, seq) == ((time - Epoch) * Nodes + node) * SeqSize + seq

(***************************************************************************)
(* NextID.                                                                 *)
(***************************************************************************)
Call(c) ==
    /\ pc[c] = "idle" /\ calls[c] < MaxCalls[c] /\ clock < LastCall
    /\ pc' = [pc EXCEPT ![c] = "lock"]
    /\ UNCHANGED <<clock, generator, now, calls, history, life, stepsBack>>

Free(g) == holder[g] = "free"

Lock(c) ==
    LET g == GeneratorOf[c] IN
    /\ pc[c] = "lock"
    /\ Free(g)
    /\ holder' = [holder EXCEPT ![g] = c]
    /\ pc' = [pc EXCEPT ![c] = "read"]
    /\ UNCHANGED <<clock, lastTime, sequence, now, calls, history, life, stepsBack>>

\* A clock that was set back reads as the last time used.
TimeRead(g) == IF clock < lastTime[g] THEN lastTime[g] ELSE clock

\* Mutation of NextSequence: the sequence is not cut to its bits.
SequenceUncut(g) == IF TimeRead(g) = lastTime[g] THEN sequence[g] + 1 ELSE 0

NextSequence(g) ==
    IF TimeRead(g) = lastTime[g] THEN (sequence[g] + 1) % SeqSize ELSE 0

\* Mutation of AfterRead: an exhausted sequence starts again in the same millisecond.
NeverWait(g) == "issue"

\* The sequence came round: its ids of this millisecond are used up.
AfterRead(g) ==
    IF TimeRead(g) = lastTime[g] /\ NextSequence(g) = 0 THEN "wait" ELSE "issue"

ReadClock(c) ==
    LET g == GeneratorOf[c] IN
    /\ pc[c] = "read"
    /\ now' = [now EXCEPT ![c] = TimeRead(g)]
    /\ sequence' = [sequence EXCEPT ![g] = NextSequence(g)]
    /\ pc' = [pc EXCEPT ![c] = AfterRead(g)]
    /\ UNCHANGED <<clock, lastTime, holder, calls, history, life, stepsBack>>

\* The loop that sleeps and reads the clock again, the mutex held.
Sleep(c) ==
    LET g == GeneratorOf[c] IN
    /\ pc[c] = "wait"
    /\ clock > lastTime[g]
    /\ now' = [now EXCEPT ![c] = clock]
    /\ pc' = [pc EXCEPT ![c] = "issue"]
    /\ UNCHANGED <<clock, generator, calls, history, life, stepsBack>>

\* Mutation of HolderAfter: the deferred unlock is missing.
StillHeld(g) == holder[g]

HolderAfter(g) == "free"

\* lastTime is stored, the id returned and the mutex released.
Issue(c) ==
    LET g == GeneratorOf[c] IN
    /\ pc[c] = "issue"
    /\ lastTime' = [lastTime EXCEPT ![g] = now[c]]
    /\ issued' = issued \cup
         {[id |-> Id(now[c], NodeId[g], sequence[g]), generator |-> g, life |-> life[g]]}
    /\ lastId' = [lastId EXCEPT ![g] = Id(now[c], NodeId[g], sequence[g])]
    /\ calls' = [calls EXCEPT ![c] = @ + 1]
    /\ holder' = [holder EXCEPT ![g] = HolderAfter(g)]
    /\ pc' = [pc EXCEPT ![c] = "idle"]
    /\ now' = [now EXCEPT ![c] = 0]
    /\ UNCHANGED <<clock, sequence, life, stepsBack>>

(***************************************************************************)
(* The clock, and processes that end and start again.                      *)
(***************************************************************************)
Advance ==
    /\ clock < MaxClock
    /\ clock' = clock + 1
    /\ UNCHANGED <<generator, pc, now, calls, history, life, stepsBack>>

StepBack ==
    /\ stepsBack < MaxStepsBack /\ clock <= LastCall
    /\ \E t \in 1..(clock - 1) : clock' = t
    /\ stepsBack' = stepsBack + 1
    /\ UNCHANGED <<generator, pc, now, calls, history, life>>

\* The process ends and a new one creates the generator again.  Starting takes
\* longer than a millisecond: unless it was set back, the clock is past the last
\* time the old one used.
Restart(g) ==
    /\ life[g] < MaxRestarts
    /\ clock > lastTime[g] \/ stepsBack > 0
    /\ lastTime' = [lastTime EXCEPT ![g] = 0]
    /\ sequence' = [sequence EXCEPT ![g] = 0]
    /\ holder' = [holder EXCEPT ![g] = "free"]
    /\ pc' = [c \in Callers |-> IF GeneratorOf[c] = g THEN "idle" ELSE pc[c]]
    /\ now' = [c \in Callers |-> IF GeneratorOf[c] = g THEN 0 ELSE now[c]]
    /\ life' = [life EXCEPT ![g] = @ + 1]
    /\ lastId' = [lastId EXCEPT ![g] = Id(0, 0, 0)]
    /\ UNCHANGED <<clock, calls, issued, stepsBack>>

(***************************************************************************)
(* The specification.                                                      *)
(***************************************************************************)
Init ==
    /\ clock = Start
    /\ lastTime = [g \in Generators |-> 0]
    /\ sequence = [g \in Generators |-> 0]
    /\ holder = [g \in Generators |-> "free"]
    /\ pc = [c \in Callers |-> "idle"]
    /\ now = [c \in Callers |-> 0]
    /\ calls = [c \in Callers |-> 0]
    /\ issued = {}
    /\ lastId = [g \in Generators |-> Id(0, 0, 0)]
    /\ life = [g \in Generators |-> 0]
    /\ stepsBack = 0

NextID(c) == Lock(c) \/ ReadClock(c) \/ Sleep(c) \/ Issue(c)

\* Time is up and every call has returned.
Quiescent ==
    /\ clock = MaxClock
    /\ \A c \in Callers : pc[c] = "idle"
    /\ UNCHANGED vars

Next ==
    \/ \E c \in Callers : Call(c) \/ NextID(c)
    \/ \E g \in Generators : Restart(g)
    \/ Advance \/ StepBack
    \/ Quiescent

Spec == Init /\ [][Next]_vars

\* The Go scheduler runs every goroutine and the clock runs.  Weak fairness of
\* taking the mutex is enough because calls are bounded.
FairSpec == Spec /\ WF_vars(Advance) /\ \A c \in Callers : WF_vars(NextID(c))

(***************************************************************************)
(* Properties.                                                             *)
(***************************************************************************)
\* Every variable stays in its type.
TypeOK ==
    /\ clock \in Nat \ {0}
    /\ lastTime \in [Generators -> Nat]
    /\ sequence \in [Generators -> 0..(SeqSize - 1)]
    /\ holder \in [Generators -> Callers \cup {"free"}]
    /\ pc \in [Callers -> {"idle", "lock", "read", "wait", "issue"}]
    /\ now \in [Callers -> Nat]
    /\ calls \in [Callers -> Nat]
    /\ issued \subseteq [id : Int, generator : Generators, life : Nat]
    /\ lastId \in [Generators -> Int]
    /\ life \in [Generators -> 0..MaxRestarts]
    /\ stepsBack \in 0..MaxStepsBack

\* The ids of one generator increase, whatever its callers, its sequence and the
\* clock do: also while the clock is behind the last id, and when a millisecond has
\* no ids left.
Source == INSTANCE IdSource WITH
    Ids <- (Id(0, 0, 0) + 1)..Id(MaxClock, Nodes - 1, SeqSize - 1),
    Below <- Id(0, 0, 0), last <- lastId
ImplementsIdSource == Source!Spec

\* Two generators never issue the same id, nor do two lives of one, but for generators
\* that share a node, and a process restarted behind its own past.  Within a life ids
\* increase.
IdsAreUnique ==
    \A x, y \in issued :
        x.id = y.id =>
            \/ x = y
            \/ x.generator # y.generator /\ NodeId[x.generator] = NodeId[y.generator]
            \/ x.generator = y.generator /\ x.life # y.life /\ stepsBack > 0

\* Every call returns: a call that waits for a used-up millisecond, however far
\* behind the clock was set, and the calls that wait for it to release the mutex.
EveryCallReturns == \A c \in Callers : pc[c] = "lock" ~> pc[c] = "idle"
=============================================================================
