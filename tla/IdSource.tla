------------------------------ MODULE IdSource ------------------------------
(***************************************************************************)
(* What the rest of the backend may rely on in an id generator: the ids it *)
(* hands out increase for as long as it lives.  A new generator knows      *)
(* nothing of the ids of another one, or of the one it replaces.           *)
(***************************************************************************)
EXTENDS Integers

CONSTANTS
    Generators,
    Ids,             \* what they may hand out, a set of integers
    Below            \* less than any of Ids

VARIABLE last        \* per generator, the last id it handed out, or Below

Init == last = [g \in Generators |-> Below]

Generate(g, id) ==
    /\ id > last[g]
    /\ last' = [last EXCEPT ![g] = id]

\* NewSnowflake, in a process that starts.
Create(g) == last' = [last EXCEPT ![g] = Below]

Next == \E g \in Generators : Create(g) \/ \E id \in Ids : Generate(g, id)

Spec == Init /\ [][Next]_last
=============================================================================
