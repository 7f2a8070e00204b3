----------------------------- MODULE MCPayment -----------------------------
(***************************************************************************)
(* Instances of Payment for TLC: the invoices of b1, and another tenant b2. *)
(***************************************************************************)
EXTENDS Payment, TLC

CONSTANTS r1, r2, r3, b1, b2, i1, i2, k1, k2, t1, t2, e1, e2

MCInvoiceOwner == [i \in Invoices |-> b1]
MCEndpointOwner == [e \in Endpoints |-> IF e = e1 THEN b1 ELSE b2]

Pay(b, i, k, t) == [business |-> b, invoice |-> i, key |-> k, token |-> t]

\* Two payments of one invoice, and their retries.
OneKeyInputs == {Pay(b1, i1, k1, t1)}
TwoKeysInputs == OneKeyInputs \cup {Pay(b1, i1, k2, t1)}
\* ... and the key reused with another token.
OneInvoiceInputs == TwoKeysInputs \cup {Pay(b1, i1, k1, t2)}
\* ... and the key used again for another invoice, and by another business.
AllInputs == OneInvoiceInputs \cup {Pay(b1, i2, k1, t1), Pay(b2, i1, k1, t1)}

\* One request asks for the first of AllInputs, and no other one is sent again: two
\* that share another key or token are these two under other names.  An invoice
\* nobody asks for may as well be open.
RaceInit ==
    LET first == Pay(b1, i1, k1, t1)
        asked == {input[r].invoice : r \in PayRequests} \cup {target[v].invoice : v \in VoidRequests} IN
    /\ Init
    /\ \E r \in PayRequests : input[r] = first
    /\ \A r, s \in PayRequests : r # s /\ input[r] = input[s] => input[r] = first
    /\ \A i \in Invoices \ asked : invoice[i] = "OPEN"
RaceSpec == RaceInit /\ [][Next]_vars

OwnVoid == {[business |-> b1, invoice |-> i1]}

RequestSymmetry == Permutations({r1, r2, r3})
=============================================================================
