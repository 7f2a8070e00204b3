--------------------------- MODULE ResourcesProofs ---------------------------
(***************************************************************************)
(* Theorems of Resources, for any requests, tenants, processes, 64-bit ids *)
(* and keys: what a public id shows and finds.  They rest on the codec's   *)
(* theorems and on the primary key, not on the generators.                 *)
(***************************************************************************)
EXTENDS Resources, PublicIdProofs

(***************************************************************************)
(* The invariant.                                                          *)
(***************************************************************************)
Codes == {"none", "bad_request", "created", "ok", "not_found", "internal_error"}
Shown == [public : [prefix : Kinds, digits : Seq(Digit)], by : Requests]
Row == [kind : Kinds, id : Ids, business : Businesses, by : Requests]

TypeInv ==
    /\ pc \in [Requests -> {"idle", "generate", "insert", "encode", "get", "list", "done"}]
    /\ input \in [Requests -> Inputs \cup {NoInput}]
    /\ newId \in [Requests -> Ids \cup {Below}]
    /\ reply \in [Requests -> [code : Codes, shown : SUBSET Shown]]
    /\ rows \subseteq Row
    /\ last \in [Processes -> Ids \cup {Below}]

\* What a request's pc implies.
RequestInv(r) ==
    /\ pc[r] # "idle" => input[r] \in Inputs
    /\ pc[r] \in {"generate", "insert", "encode"} => input[r].op = "create"
    /\ pc[r] \in {"get", "list"} => input[r].op = pc[r]
    /\ pc[r] = "insert" => newId[r] \in Ids
    /\ pc[r] # "done" => reply[r].shown = {}

\* A row is its request's; a request has one, and a kind has one of an id.
RowsInv ==
    /\ \A a \in rows : /\ pc[a.by] \in {"encode", "done"}
                       /\ a.business = input[a.by].business
    /\ \A a, b \in rows : (a.kind = b.kind /\ a.id = b.id) \/ a.by = b.by => a = b

\* What was shown is a row of the caller's business, and the one that was asked for.
ShownBy(r, row) ==
    /\ row.business = input[r].business
    /\ input[r].op = "get" =>
         row.kind = input[r].kind /\ row.id \in Decode(input[r].kind, input[r].public)

ShownInv(r) == \A v \in reply[r].shown : \E row \in rows : v = View(row) /\ ShownBy(r, row)

ResourcesInv ==
    /\ TypeInv
    /\ \A r \in Requests : RequestInv(r) /\ ShownInv(r)
    /\ RowsInv

(***************************************************************************)
(* Types.                                                                  *)
(***************************************************************************)
LEMMA ViewType ==
    ASSUME NEW row \in Row
    PROVE  View(row) \in Shown /\ View(row).by = row.by
                /\ View(row).public = Encode(row.kind, row.id)
<1>1. row.kind \in Kinds /\ row.id \in Id64 /\ row.by \in Requests
  BY ResourcesAssumption DEF Row
<1>2. Encode(row.kind, row.id) \in [prefix : Kinds, digits : Seq(Digit)]
  BY <1>1, EncodeType
<1> QED
  BY <1>1, <1>2 DEF View, Shown

\* A request's input, once it is read, is well formed.
LEMMA InputType ==
    ASSUME NEW r \in Requests, RequestInv(r), pc[r] # "idle"
    PROVE  /\ input[r].op \in {"create", "get", "list"}
           /\ input[r].business \in Businesses /\ input[r].kind \in Kinds
           /\ input[r].public \in [prefix : Kinds, digits : Seq(0..Base)]
BY ResourcesAssumption DEF RequestInv, Input

(***************************************************************************)
(* Steps.                                                                  *)
(***************************************************************************)
\* The others do not notice a step of r that adds at most a row.
LEMMA OthersKept ==
    ASSUME NEW s \in Requests, RequestInv(s), ShownInv(s),
           pc'[s] = pc[s], input'[s] = input[s], newId'[s] = newId[s], reply'[s] = reply[s],
           rows \subseteq rows'
    PROVE  RequestInv(s)' /\ ShownInv(s)'
BY DEF RequestInv, ShownInv, ShownBy, View

\* An answer that shows rows of the caller.
LEMMA AnswerStep ==
    ASSUME ResourcesInv, NEW r \in Requests, NEW code \in Codes, NEW found \in SUBSET rows,
           pc[r] # "idle", \A row \in found : ShownBy(r, row),
           Answer(r, code, {View(row) : row \in found}),
           UNCHANGED <<input, newId, rows, last>>
    PROVE  ResourcesInv'
<1> DEFINE shown == {View(row) : row \in found}
<1>1. shown \subseteq Shown
  BY ViewType DEF ResourcesInv, TypeInv
<1>2. reply' = [reply EXCEPT ![r] = [code |-> code, shown |-> shown]]
      /\ pc' = [pc EXCEPT ![r] = "done"]
  BY DEF Answer, Goto
<1>3. reply'[r].shown = shown /\ pc'[r] = "done"
  BY <1>2 DEF ResourcesInv, TypeInv
<1>4. \A v \in shown : \E row \in rows : v = View(row) /\ ShownBy(r, row)
  OBVIOUS
<1> HIDE DEF shown
<1>5. TypeInv'
  <2>1. [code |-> code, shown |-> shown] \in [code : Codes, shown : SUBSET Shown]
    BY <1>1
  <2> QED
    BY <1>2, <2>1 DEF ResourcesInv, TypeInv
<1>6. RequestInv(r)' /\ ShownInv(r)'
  BY <1>3, <1>4 DEF ResourcesInv, RequestInv, ShownInv, ShownBy, View
<1>7. ASSUME NEW s \in Requests, s # r PROVE RequestInv(s)' /\ ShownInv(s)'
  BY <1>2, <1>7, OthersKept DEF ResourcesInv, TypeInv
<1>8. RowsInv'
  BY <1>2 DEF ResourcesInv, TypeInv, RowsInv, Row
<1> QED
  BY <1>5, <1>6, <1>7, <1>8 DEF ResourcesInv

\* An answer that shows nothing.
LEMMA RefusalStep ==
    ASSUME ResourcesInv, NEW r \in Requests, NEW code \in Codes, pc[r] # "idle",
           Answer(r, code, {}), UNCHANGED <<input, newId, rows, last>>
    PROVE  ResourcesInv'
<1>1. {View(row) : row \in {}} = {}
  OBVIOUS
<1> QED
  BY <1>1, AnswerStep

LEMMA ReceiveStep ==
    ASSUME ResourcesInv, NEW r \in Requests, Receive(r)
    PROVE  ResourcesInv'
<1>1. PICK in \in Inputs :
        /\ input' = [input EXCEPT ![r] = in]
        /\ \/ /\ Goto(r, IF in.op = "create" THEN "generate" ELSE in.op)
              /\ UNCHANGED reply
           \/ in.op = "create" /\ Answer(r, "bad_request", {})
  BY DEF Receive
<1>2. pc[r] = "idle" /\ UNCHANGED <<newId, rows, last>> /\ in.op \in {"create", "get", "list"}
  BY ResourcesAssumption DEF Receive, Input
<1>3. /\ input'[r] = in /\ reply'[r].shown = {}
      /\ \/ pc'[r] = "generate" /\ in.op = "create"
         \/ pc'[r] = in.op /\ in.op \in {"get", "list"}
         \/ pc'[r] = "done"
  BY <1>1, <1>2 DEF ResourcesInv, TypeInv, RequestInv, Goto, Answer
<1>4. TypeInv'
  BY <1>1, <1>2 DEF ResourcesInv, TypeInv, Goto, Answer, Codes
<1>5. RequestInv(r)' /\ ShownInv(r)'
  BY <1>2, <1>3 DEF RequestInv, ShownInv
<1>6. ASSUME NEW s \in Requests, s # r PROVE RequestInv(s)' /\ ShownInv(s)'
  BY <1>1, <1>2, <1>6, OthersKept DEF ResourcesInv, TypeInv, Goto, Answer
<1>7. RowsInv'
  <2>1. ASSUME NEW a \in rows
        PROVE  pc'[a.by] \in {"encode", "done"} /\ a.business = input'[a.by].business
    <3>1. a.by \in Requests /\ a.by # r
      BY <1>2 DEF ResourcesInv, TypeInv, RowsInv, Row
    <3> QED
      BY <1>1, <3>1 DEF ResourcesInv, TypeInv, RowsInv, Goto, Answer
  <2> QED
    BY <1>2, <2>1 DEF ResourcesInv, RowsInv
<1> QED
  BY <1>4, <1>5, <1>6, <1>7 DEF ResourcesInv

LEMMA GenerateStep ==
    ASSUME ResourcesInv, NEW r \in Requests, Generate(r)
    PROVE  ResourcesInv'
<1>1. PICK p \in Processes, id \in Ids :
        last' = [last EXCEPT ![p] = id] /\ newId' = [newId EXCEPT ![r] = id]
  BY DEF Generate, Source!Generate
<1>2. pc[r] = "generate" /\ pc' = [pc EXCEPT ![r] = "insert"]
      /\ UNCHANGED <<input, reply, rows>>
  BY DEF Generate, Goto
<1>3. TypeInv'
  BY <1>1, <1>2 DEF ResourcesInv, TypeInv
<1>4. RequestInv(r)' /\ ShownInv(r)'
  BY <1>1, <1>2 DEF ResourcesInv, TypeInv, RequestInv, ShownInv
<1>5. ASSUME NEW s \in Requests, s # r PROVE RequestInv(s)' /\ ShownInv(s)'
  BY <1>1, <1>2, <1>5, OthersKept DEF ResourcesInv, TypeInv
<1>6. RowsInv'
  BY <1>2 DEF ResourcesInv, TypeInv, RowsInv, Row
<1> QED
  BY <1>3, <1>4, <1>5, <1>6 DEF ResourcesInv

\* The INSERT: the primary key and the request's own progress keep the rows apart.
LEMMA InsertStep ==
    ASSUME ResourcesInv, NEW r \in Requests, Insert(r)
    PROVE  ResourcesInv'
<1> DEFINE row == NewRow(r)
<1>0. pc[r] = "insert" /\ UNCHANGED <<input, newId, last>>
  BY DEF Insert
<1>1. CASE Answer(r, "internal_error", {}) /\ UNCHANGED rows
  BY <1>0, <1>1, RefusalStep DEF Codes
<1>2. ASSUME ~Taken(row.kind, row.id), rows' = rows \cup {row}, Goto(r, "encode"),
             UNCHANGED reply
      PROVE  ResourcesInv'
  <2>1. /\ row \in Row /\ row.by = r /\ row.business = input[r].business
        /\ row.kind = input[r].kind /\ row.id = newId[r]
    <3>1. newId[r] \in Ids /\ input[r].kind \in Kinds /\ input[r].business \in Businesses
      BY <1>0, InputType DEF ResourcesInv, RequestInv
    <3> QED
      BY <3>1 DEF NewRow, Row
  <2>2. pc' = [pc EXCEPT ![r] = "encode"]
    BY <1>2 DEF Goto
  <2>3. \A a \in rows : a.by # r /\ ~(a.kind = row.kind /\ a.id = row.id) /\ a.by \in Requests
    BY <1>0, <1>2 DEF ResourcesInv, TypeInv, RowsInv, Taken, Row
  <2> HIDE DEF row
  <2>4. TypeInv'
    BY <1>0, <1>2, <2>1, <2>2 DEF ResourcesInv, TypeInv
  <2>5. RequestInv(r)' /\ ShownInv(r)'
    BY <1>0, <1>2, <2>2 DEF ResourcesInv, TypeInv, RequestInv, ShownInv
  <2>6. ASSUME NEW s \in Requests, s # r PROVE RequestInv(s)' /\ ShownInv(s)'
    BY <1>0, <1>2, <2>2, <2>6, OthersKept DEF ResourcesInv, TypeInv
  <2>7. RowsInv'
    <3>1. ASSUME NEW a \in rows'
          PROVE  pc'[a.by] \in {"encode", "done"} /\ a.business = input'[a.by].business
      BY <1>0, <1>2, <2>1, <2>2, <2>3 DEF ResourcesInv, TypeInv, RowsInv
    <3>2. ASSUME NEW a \in rows', NEW b \in rows',
                 (a.kind = b.kind /\ a.id = b.id) \/ a.by = b.by
          PROVE  a = b
      BY <1>2, <2>1, <2>3, <3>2 DEF ResourcesInv, RowsInv
    <3> QED
      BY <3>1, <3>2 DEF RowsInv
  <2> QED
    BY <2>4, <2>5, <2>6, <2>7 DEF ResourcesInv
<1> QED
  BY <1>1, <1>2 DEF Insert

\* The three answers that show rows: of the request itself, or of its business.
LEMMA ShowStep ==
    ASSUME ResourcesInv, NEW r \in Requests, AnswerCreated(r) \/ Get(r) \/ List(r)
    PROVE  ResourcesInv'
<1>1. CASE AnswerCreated(r)
  <2>1. pc[r] = "encode" /\ input[r].op = "create" /\ UNCHANGED <<input, newId, rows, last>>
    BY <1>1 DEF ResourcesInv, RequestInv, AnswerCreated
  <2>2. \A row \in {s \in rows : s.by = r} : ShownBy(r, row)
    BY <2>1 DEF ResourcesInv, RowsInv, ShownBy
  <2> QED
    BY <1>1, <2>1, <2>2, AnswerStep DEF AnswerCreated, Codes
<1>2. CASE Get(r)
  <2>1. pc[r] = "get" /\ UNCHANGED <<input, newId, rows, last>>
    BY <1>2 DEF Get
  <2>2. \A row \in Found(r) : row \in rows /\ ShownBy(r, row)
    BY DEF Found, Visible, ShownBy
  <2> QED
    BY <1>2, <2>1, <2>2, AnswerStep DEF Get, Codes
<1>3. CASE List(r)
  <2>1. pc[r] = "list" /\ input[r].op = "list" /\ UNCHANGED <<input, newId, rows, last>>
    BY <1>3 DEF ResourcesInv, RequestInv, List
  <2>2. \A row \in Visible(r) : row \in rows /\ ShownBy(r, row)
    BY <2>1 DEF Visible, ShownBy
  <2> QED
    BY <1>3, <2>1, <2>2, AnswerStep DEF List, Codes
<1> QED
  BY <1>1, <1>2, <1>3

LEMMA InvStep == ResourcesInv /\ [Next]_vars => ResourcesInv'
<1> SUFFICES ASSUME ResourcesInv, [Next]_vars PROVE ResourcesInv'
  OBVIOUS
<1>1. ASSUME NEW r \in Requests, Fail(r) PROVE ResourcesInv'
  BY <1>1, RefusalStep DEF Fail, Codes
<1>2. ASSUME NEW p \in Processes, Restart(p) PROVE ResourcesInv'
  <2>1. last' = [last EXCEPT ![p] = Below] /\ UNCHANGED <<pc, input, newId, reply, rows>>
    BY <1>2 DEF Restart, Source!Create
  <2> QED
    BY <2>1 DEF ResourcesInv, TypeInv, RequestInv, RowsInv, ShownInv, ShownBy, View
<1>3. CASE UNCHANGED vars
  BY <1>3 DEF vars, ResourcesInv, TypeInv, RequestInv, RowsInv, ShownInv, ShownBy, View
<1> QED
  BY <1>1, <1>2, <1>3, ReceiveStep, GenerateStep, InsertStep, ShowStep DEF Next, Quiescent

(***************************************************************************)
(* Theorems.                                                               *)
(***************************************************************************)
\* The inductive invariant: rows have keys of their own, and answers show rows.
THEOREM ResourcesInvariant == Spec => []ResourcesInv
<1>1. Init => ResourcesInv
  BY DEF Init, Source!Init, ResourcesInv, TypeInv, RequestInv, RowsInv, ShownInv, Codes
<1> QED
  BY <1>1, InvStep, PTL DEF Spec

\* Every variable stays in its type; in particular an answer shows digits.
THEOREM TypeCorrect == Spec => []TypeOK
<1>1. ResourcesInv => TypeOK
  <2> SUFFICES ASSUME ResourcesInv PROVE TypeOK
    OBVIOUS
  <2>1. ASSUME NEW r \in Requests PROVE reply[r] \in [code : Codes, shown : SUBSET Shown]
    BY DEF ResourcesInv, TypeInv
  <2> QED
    BY <2>1 DEF ResourcesInv, TypeInv, TypeOK, Codes, Shown, Row, Digit
<1> QED
  BY <1>1, ResourcesInvariant, PTL

\* A public id names one resource for ever, and a resource has one, although the
\* generators of two processes may hand out the same id.
THEOREM PublicIdsNameOne == Spec => []PublicIdsNameOneResource
<1>1. ResourcesInv => PublicIdsNameOneResource
  <2> SUFFICES ASSUME ResourcesInv, NEW r \in Requests, NEW s \in Requests,
                      NEW v \in reply[r].shown, NEW w \in reply[s].shown
               PROVE  v.public = w.public <=> v.by = w.by
    BY DEF PublicIdsNameOneResource
  <2>1. PICK a \in rows : v = View(a)
    BY DEF ResourcesInv, ShownInv
  <2>2. PICK b \in rows : w = View(b)
    BY DEF ResourcesInv, ShownInv
  <2>3. /\ a \in Row /\ b \in Row /\ a.kind \in Kinds /\ b.kind \in Kinds
        /\ a.id \in Id64 /\ b.id \in Id64
    BY ResourcesAssumption DEF ResourcesInv, TypeInv, Row
  <2>4. /\ v.public = Encode(a.kind, a.id) /\ v.by = a.by
        /\ w.public = Encode(b.kind, b.id) /\ w.by = b.by
    BY <2>1, <2>2, <2>3, ViewType
  <2>5. v.public = w.public => a = b
    <3> SUFFICES ASSUME v.public = w.public PROVE a = b
      OBVIOUS
    <3>1. Encode(a.kind, a.id) = Encode(b.kind, b.id)
      BY <2>4
    <3>2. a.kind = b.kind /\ a.id = b.id
      BY <2>3, <3>1, PublicIdsAreDistinct
    <3> QED
      BY <3>2 DEF ResourcesInv, RowsInv
  <2>6. v.by = w.by => a = b
    BY <2>4 DEF ResourcesInv, RowsInv
  <2> QED
    BY <2>4, <2>5, <2>6
<1> QED
  BY <1>1, ResourcesInvariant, PTL

\* The digits of a value are those that say it, but for the zeros in front.
LEMMA CanonicalDigits ==
    ASSUME NEW s \in Seq(Digit), s # <<>>, FromDigits(s) \in Words
    PROVE  ToDigits[FromDigits(s)] = Canonical(s)
<1> DEFINE nonzero == {i \in DOMAIN s : s[i] # 0}
           first == IF nonzero = {} THEN Len(s)
                    ELSE CHOOSE i \in nonzero : \A j \in nonzero : i <= j
<1>1. DOMAIN s = 1..Len(s) /\ Len(s) \in Nat \ {0}
  OBVIOUS
<1>2. CASE nonzero = {}
  <2>1. first = Len(s) /\ first \in 1..Len(s) /\ \A i \in 1..(first - 1) : s[i] = 0
    BY <1>1, <1>2
  <2> QED
    BY <2>1, DigitsOfValue DEF Canonical
<1>3. CASE nonzero # {}
  <2>1. nonzero \subseteq Nat
    BY <1>1
  <2>2. \E i \in nonzero : \A j \in nonzero : i <= j
    <3>1. PICK i \in nonzero : \A j \in nonzero : ~(<<j, i>> \in OpToRel(<, Nat))
      BY <1>3, <2>1, WFMin, NatLessThanWellFounded, Zenon
    <3>2. \A j \in nonzero : ~(j < i)
      BY <2>1, <3>1 DEF OpToRel
    <3> HIDE DEF nonzero
    <3> QED
      BY <2>1, <3>2
  <2>3. first \in nonzero /\ \A j \in nonzero : first <= j
    <3> HIDE DEF nonzero
    <3> QED
      BY <1>3, <2>2
  <2> HIDE DEF first
  <2>4. first \in 1..Len(s) /\ s[first] # 0
    BY <1>1, <2>3
  <2>5. \A i \in 1..(first - 1) : s[i] = 0
    BY <1>1, <2>3, <2>4
  <2> QED
    BY <2>4, <2>5, DigitsOfValue DEF Canonical, first
<1> QED
  BY <1>2, <1>3

\* A get finds what was asked for: the resource of the public id, of the caller's own
\* business, whatever zeros stand in front of the digits.
THEOREM LookupsAreExact == Spec => []LookupIsExact
<1>1. ResourcesInv => LookupIsExact
  <2> SUFFICES ASSUME ResourcesInv, NEW r \in Requests, NEW v \in reply[r].shown
               PROVE  /\ \E row \in rows : row.by = v.by /\ row.business = input[r].business
                      /\ input[r].op = "get" =>
                           /\ v.public.prefix = input[r].public.prefix
                           /\ v.public.digits = Canonical(input[r].public.digits)
    BY DEF LookupIsExact
  <2>1. PICK row \in rows : v = View(row) /\ ShownBy(r, row)
    BY DEF ResourcesInv, ShownInv
  <2>2. row \in Row /\ v.by = row.by /\ v.public = Encode(row.kind, row.id)
    BY <2>1, ViewType DEF ResourcesInv, TypeInv
  <2>3. pc[r] # "idle"
    BY DEF ResourcesInv, RequestInv
  <2>4. ASSUME input[r].op = "get"
        PROVE  /\ v.public.prefix = input[r].public.prefix
               /\ v.public.digits = Canonical(input[r].public.digits)
    <3> DEFINE public == input[r].public
    <3>1. input[r].kind \in Kinds /\ public.digits \in Seq(0..Base)
      BY <2>3, InputType DEF ResourcesInv
    <3>2. row.kind = input[r].kind /\ row.id \in Decode(input[r].kind, public)
      BY <2>1, <2>4 DEF ShownBy
    <3> HIDE DEF public
    <3>3. /\ public.prefix = row.kind
          /\ public.digits \in Seq(Digit) /\ public.digits # <<>>
          /\ FromDigits(public.digits) \in Words
          /\ Encode(row.kind, row.id).digits = ToDigits[FromDigits(public.digits)]
      BY <3>1, <3>2, DecodedIsItsValue
    <3>4. ToDigits[FromDigits(public.digits)] = Canonical(public.digits)
      BY <3>3, CanonicalDigits
    <3>5. Encode(row.kind, row.id).prefix = row.kind
      BY DEF Encode
    <3> QED
      BY <2>2, <3>3, <3>4, <3>5 DEF public
  <2> QED
    BY <2>1, <2>2, <2>4 DEF ShownBy
<1> QED
  BY <1>1, ResourcesInvariant, PTL

\* Once shown to a business, a public id is found by every get of that business that
\* does not fail, and nothing else is.
THEOREM ShownStaysFound == Spec => ShownIsFound
<1>1. ResourcesInv /\ [Next]_vars =>
        \A r, s \in Requests : \A v \in reply[s].shown :
          /\ pc[r] = "get" /\ pc'[r] = "done"
          /\ input[r].public = v.public /\ input[r].kind = v.public.prefix
          /\ input[r].business = input[s].business
          => reply'[r].code = "internal_error" \/ reply'[r].shown = {v}
  <2> SUFFICES ASSUME ResourcesInv, [Next]_vars, NEW r \in Requests, NEW s \in Requests,
                      NEW v \in reply[s].shown, pc[r] = "get", pc'[r] = "done",
                      input[r].public = v.public, input[r].kind = v.public.prefix,
                      input[r].business = input[s].business
               PROVE  reply'[r].code = "internal_error" \/ reply'[r].shown = {v}
    OBVIOUS
  <2>1. Get(r) \/ Fail(r)
    BY DEF ResourcesInv, TypeInv, Next, Receive, Generate, Insert, AnswerCreated, Get, List,
           Fail, Restart, Quiescent, Answer, Goto, vars
  <2>2. CASE Fail(r)
    BY <2>2 DEF Fail, Answer, ResourcesInv, TypeInv
  <2>3. CASE Get(r)
    <3>1. PICK row \in rows : v = View(row) /\ ShownBy(s, row)
      BY DEF ResourcesInv, ShownInv
    <3>2. row \in Row /\ row.kind \in Kinds /\ row.id \in Id64
      BY ResourcesAssumption DEF ResourcesInv, TypeInv, Row
    <3>3. input[r].kind = row.kind /\ input[r].public = Encode(row.kind, row.id)
      BY <3>1, <3>2, ViewType DEF Encode
    <3>4. Decode(input[r].kind, input[r].public) = {row.id}
      BY <3>2, <3>3, PublicIdsAreInverted
    <3>5. input[r].business = row.business
      BY <3>1 DEF ShownBy
    <3>6. Found(r) = {row}
      BY <3>3, <3>4, <3>5 DEF Found, Visible, ResourcesInv, RowsInv
    <3>7. reply'[r].shown = {View(x) : x \in Found(r)}
      BY <2>3 DEF Get, Answer, ResourcesInv, TypeInv
    <3> QED
      BY <3>1, <3>6, <3>7
  <2> QED
    BY <2>1, <2>2, <2>3
<1> QED
  BY <1>1, ResourcesInvariant, PTL DEF Spec, ShownIsFound
=============================================================================
