----------------------------- MODULE Resources -----------------------------
(***************************************************************************)
(* The resources of a business that one statement creates and one reads:   *)
(* customers (internal/customer) and webhook endpoints (internal/webhook). *)
(* A create takes an id of the generator of the process that serves it,    *)
(* inserts the row and answers with the row's public id; a get decodes the *)
(* public id it is given.  Any process may serve any request, and          *)
(* generators of two processes, or of two lives of one, may hand out the   *)
(* same id (IdSource): the primary key is what keeps rows apart.           *)
(***************************************************************************)
EXTENDS PublicId

CONSTANTS
    Requests,
    Businesses,
    Processes,
    Ids, Below,      \* what generators hand out, and less than any of it
    Inputs           \* what clients may ask, a subset of Input

VARIABLES
    pc, input, newId, reply,  \* of a request
    rows,            \* the tables, each row with the request that created it
    last             \* the generators

vars == <<pc, input, newId, reply, rows, last>>

Source == INSTANCE IdSource WITH Generators <- Processes

\* The business is the one the request was authenticated for.
Input == [op : {"create", "get", "list"}, business : Businesses, kind : Kinds,
          public : [prefix : Kinds, digits : Seq(0..Base)]]
NoInput == [op |-> "none"]

ASSUME ResourcesAssumption ==
    /\ Ids \subseteq Id64 /\ Below \in Int /\ \A id \in Ids : Below < id
    /\ Inputs \subseteq Input

\* A row as an answer shows it.
View(row) == [public |-> Encode(row.kind, row.id), by |-> row.by]

(***************************************************************************)
(* The handlers.                                                           *)
(***************************************************************************)
Goto(r, label) == pc' = [pc EXCEPT ![r] = label]

Answer(r, code, shown) ==
    /\ Goto(r, "done")
    /\ reply' = [reply EXCEPT ![r] = [code |-> code, shown |-> shown]]

\* Authentication has passed; the body of a create is bound and validated.
Receive(r) ==
    /\ pc[r] = "idle"
    /\ \E in \in Inputs :
         /\ input' = [input EXCEPT ![r] = in]
         /\ \/ /\ Goto(r, IF in.op = "create" THEN "generate" ELSE in.op)
               /\ UNCHANGED reply
            \/ in.op = "create" /\ Answer(r, "bad_request", {})
    /\ UNCHANGED <<newId, rows, last>>

\* idGen.NextID, in the process that serves the request.
Generate(r) ==
    /\ pc[r] = "generate"
    /\ \E p \in Processes, id \in Ids :
         /\ Source!Generate(p, id)
         /\ newId' = [newId EXCEPT ![r] = id]
    /\ Goto(r, "insert")
    /\ UNCHANGED <<input, reply, rows>>

\* Mutation of Taken: an INSERT that ignores a conflict on the primary key.
NeverTaken(kind, id) == FALSE

\* The primary key of a table.
Taken(kind, id) == \E row \in rows : row.kind = kind /\ row.id = id

NewRow(r) ==
    [kind |-> input[r].kind, id |-> newId[r], business |-> input[r].business, by |-> r]

\* CreateCustomer, CreateWebhookEndpoint
Insert(r) ==
    LET row == NewRow(r) IN
    /\ pc[r] = "insert"
    /\ \/ /\ Taken(row.kind, row.id)
          /\ Answer(r, "internal_error", {})
          /\ UNCHANGED rows
       \/ /\ ~Taken(row.kind, row.id)
          /\ rows' = rows \cup {row}
          /\ Goto(r, "encode")
          /\ UNCHANGED reply
    /\ UNCHANGED <<input, newId, last>>

AnswerCreated(r) ==
    /\ pc[r] = "encode"
    /\ Answer(r, "created", {View(row) : row \in {s \in rows : s.by = r}})
    /\ UNCHANGED <<input, newId, rows, last>>

\* WHERE business_id = $1
Visible(r) ==
    {row \in rows : row.kind = input[r].kind /\ row.business = input[r].business}

\* GetCustomerByID, GetWebhookEndpointByID: WHERE id = $1 AND business_id = $2
Found(r) == {row \in Visible(r) : row.id \in Decode(input[r].kind, input[r].public)}

Get(r) ==
    /\ pc[r] = "get"
    /\ Answer(r, IF Found(r) = {} THEN "not_found" ELSE "ok", {View(row) : row \in Found(r)})
    /\ UNCHANGED <<input, newId, rows, last>>

\* ListCustomersByBusinessID, ListWebhookEndpointsByBusinessID
List(r) ==
    /\ pc[r] = "list"
    /\ Answer(r, "ok", {View(row) : row \in Visible(r)})
    /\ UNCHANGED <<input, newId, rows, last>>

\* The process dies, the client disconnects or a statement fails; at "encode" the
\* row is there although its client is not told.
Fail(r) ==
    /\ pc[r] \notin {"idle", "done"}
    /\ Answer(r, "internal_error", {})
    /\ UNCHANGED <<input, newId, rows, last>>

Restart(p) == Source!Create(p) /\ UNCHANGED <<pc, input, newId, reply, rows>>

(***************************************************************************)
(* The specification.                                                      *)
(***************************************************************************)
Init ==
    /\ pc = [r \in Requests |-> "idle"]
    /\ input = [r \in Requests |-> NoInput]
    /\ newId = [r \in Requests |-> Below]
    /\ reply = [r \in Requests |-> [code |-> "none", shown |-> {}]]
    /\ rows = {}
    /\ Source!Init

Quiescent == (\A r \in Requests : pc[r] = "done") /\ UNCHANGED vars

Next ==
    \/ \E r \in Requests :
         \/ Receive(r) \/ Generate(r) \/ Insert(r) \/ AnswerCreated(r)
         \/ Get(r) \/ List(r) \/ Fail(r)
    \/ \E p \in Processes : Restart(p)
    \/ Quiescent

Spec == Init /\ [][Next]_vars

(***************************************************************************)
(* Properties.                                                             *)
(***************************************************************************)
\* Every variable stays in its type.
TypeOK ==
    /\ pc \in [Requests -> {"idle", "generate", "insert", "encode", "get", "list", "done"}]
    /\ input \in [Requests -> Inputs \cup {NoInput}]
    /\ newId \in [Requests -> Ids \cup {Below}]
    /\ \A r \in Requests :
         /\ reply[r].code \in {"none", "bad_request", "created", "ok", "not_found",
                               "internal_error"}
         /\ reply[r].shown \subseteq [public : [prefix : Kinds, digits : Seq(0..(Base - 1))],
                                      by : Requests]
    /\ rows \subseteq [kind : Kinds, id : Ids, business : Businesses, by : Requests]
    /\ last \in [Processes -> Ids \cup {Below}]

\* A public id names one resource for ever and a resource has one public id, in
\* every answer: generators that collide, the codec and both kinds included.
PublicIdsNameOneResource ==
    \A r, s \in Requests : \A v \in reply[r].shown, w \in reply[s].shown :
        v.public = w.public <=> v.by = w.by

\* The digits without the zeros they begin with.
Canonical(s) ==
    LET nonzero == {i \in DOMAIN s : s[i] # 0}
        first == IF nonzero = {} THEN Len(s) ELSE CHOOSE i \in nonzero : \A j \in nonzero : i <= j
    IN  SubSeq(s, first, Len(s))

\* What a get finds is what it was asked for: the public id of the resource, but for
\* zeros in front, never another resource's, and of the caller's own business.
LookupIsExact ==
    \A r \in Requests : \A v \in reply[r].shown :
        /\ \E row \in rows : row.by = v.by /\ row.business = input[r].business
        /\ input[r].op = "get" =>
             /\ v.public.prefix = input[r].public.prefix
             /\ v.public.digits = Canonical(input[r].public.digits)

\* Once a business has been shown a public id, every get of it by that business that
\* does not fail finds the resource, whichever process serves it.
ShownIsFound ==
    [][\A r, s \in Requests : \A v \in reply[s].shown :
         /\ pc[r] = "get" /\ pc'[r] = "done"
         /\ input[r].public = v.public /\ input[r].kind = v.public.prefix
         /\ input[r].business = input[s].business
         => reply'[r].code = "internal_error" \/ reply'[r].shown = {v}]_vars
=============================================================================
