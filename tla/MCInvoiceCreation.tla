------------------------- MODULE MCInvoiceCreation -------------------------
(***************************************************************************)
(* An instance of InvoiceCreation for TLC: every list of up to two items,  *)
(* with quantities and amounts on both sides of zero and of the largest    *)
(* integer, whose products wrap up to three times.                         *)
(***************************************************************************)
EXTENDS InvoiceCreation

CONSTANTS r1, b1, b2, c1, c2, e1, e2, e3

MCCustomerOwner == [c \in Customers |-> IF c = c1 THEN b1 ELSE b2]
MCEndpointOwner == [e \in Endpoints |-> IF e = e2 THEN b2 ELSE b1]

Quantities == {-1, 0, 1, 2, 3, 7}
Items == [quantity : Quantities, unit : -1..(Half - 1)]
ItemLists == {<<>>} \cup {<<i>> : i \in Items} \cup {<<i, j>> : i \in Items, j \in Items}

\* Any items from the owner of the customer; the other tenant and the other states
\* with a single item.
MCCreateInputs ==
    [business : {b1}, customer : {c1}, items : ItemLists, state : {"none"}]
    \cup [business : {b1}, customer : {c1, c2}, items : {<<i>> : i \in Items},
          state : {"none", "DRAFT", "OPEN", "other"}]
=============================================================================
