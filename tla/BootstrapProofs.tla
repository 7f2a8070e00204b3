-------------------------- MODULE BootstrapProofs --------------------------
(***************************************************************************)
(* Theorems of Bootstrap, for any processes, ids, configurations and       *)
(* number of starts.                                                       *)
(***************************************************************************)
EXTENDS Bootstrap, SequenceTheorems, TLAPS

(***************************************************************************)
(* The inductive invariant.                                                *)
(***************************************************************************)
\* What a process at work knows of its configuration.
ProcessInv ==
    \A p \in Processes : Bootstrapping(p) =>
        /\ config[p] \in used /\ secret[p] \notin {<<>>, <<Empty>>}
        /\ config[p].secret # <<>> => secret[p] = config[p].secret
        /\ pc[p] \in {"getKey", "createKey"} =>
             \E b \in businesses : b.id = business[p] /\ b.name = config[p].name

\* A prefix has one key, which some start with that prefix made for its business,
\* with its secret if it had one.
Made(k, c) ==
    /\ c.prefix = k.prefix
    /\ c.secret # <<>> => k.secret = c.secret
    /\ \E b \in businesses : b.id = k.business /\ b.name = c.name
KeyInv ==
    /\ \A j, k \in apiKeys : j.prefix = k.prefix => j = k
    /\ \A k \in apiKeys : \E c \in used : Made(k, c)

\* The key of a start is there; it has the secret s of the start if the start drew it
\* or no start configured another.
Opens(c, s) ==
    \E k \in apiKeys : /\ k.prefix = c.prefix
                       /\ c.secret = <<>> \/ Agree(SecretOf, c.prefix) => k.secret = s
LogInv ==
    /\ \A t \in log : /\ t.token = t.config.prefix \o t.secret
                      /\ t.secret \notin {<<>>, <<Empty>>}
                      /\ Opens(t.config, t.secret)
    /\ \A p \in Processes : pc[p] = "log" =>
         /\ token[p] \in {<<>>, FullKey(p)}
         /\ token[p] # <<>> => Opens(config[p], secret[p])

\* As long as no two starts overlapped, what was looked up stays true.
SequentialInv ==
    ~overlap =>
        /\ \A p, q \in Processes : Bootstrapping(p) /\ Bootstrapping(q) => p = q
        /\ \A p \in Processes :
             /\ pc[p] # "prefixTaken"
             /\ pc[p] = "createBusiness" => BusinessesNamed(p) = {}
             /\ pc[p] = "createKey" => KeysFound(p) = {}
        /\ \A a, b \in businesses : a.name = b.name => a = b

BootstrapInv ==
    ProcessInv /\ KeyInv /\ LogInv /\ SequentialInv /\ NoKeyIsLost

(***************************************************************************)
(* Types.                                                                  *)
(***************************************************************************)
\* A start has a secret, the one it was configured with if there is one.
LEMMA SecretForType ==
    ASSUME NEW c \in Configs, NEW n \in 1..MaxStarts
    PROVE  /\ SecretFor(c, n) \in Seq(STRING) /\ SecretFor(c, n) \notin {<<>>, <<Empty>>}
           /\ c.secret # <<>> => SecretFor(c, n) = c.secret
<1>1. /\ c.secret \in Seq(STRING) /\ c.secret # <<Empty>>
      /\ Generated(n) \in STRING /\ Generated(n) # Empty
  BY BootstrapAssumption DEF Config
<1>2. <<Generated(n)>> \in Seq(STRING) /\ <<Generated(n)>> \notin {<<>>, <<Empty>>}
  BY <1>1
<1> HIDE DEF Config
<1>3. CASE c.secret = <<>>
  BY <1>2, <1>3 DEF SecretFor
<1>4. CASE c.secret # <<>>
  BY <1>1, <1>4 DEF SecretFor
<1> QED
  BY <1>3, <1>4

\* A process at work: its configuration and the key that it makes of it.
LEMMA AtWork ==
    ASSUME TypeOK, ProcessInv, NEW p \in Processes, Bootstrapping(p)
    PROVE  /\ config[p] \in used /\ config[p] \in Configs
           /\ config[p].name \in STRING /\ config[p].secret \in Seq(STRING)
           /\ config[p].prefix \in Seq(STRING) /\ config[p].prefix # <<>>
           /\ secret[p] \in Seq(STRING) /\ secret[p] \notin {<<>>, <<Empty>>}
           /\ FullKey(p) \in Seq(STRING) /\ FullKey(p) # <<>>
<1>1. config[p] \in used /\ config[p] \in Configs /\ secret[p] \in Seq(STRING)
      /\ secret[p] \notin {<<>>, <<Empty>>}
  BY DEF TypeOK, ProcessInv
<1>2. /\ config[p].name \in STRING /\ config[p].secret \in Seq(STRING)
      /\ config[p].prefix \in Seq(STRING) /\ config[p].prefix # <<>>
  BY <1>1, BootstrapAssumption DEF Config
<1>3. FullKey(p) \in Seq(STRING) /\ FullKey(p) # <<>>
  BY <1>1, <1>2 DEF FullKey
<1> QED
  BY <1>1, <1>2, <1>3

\* An id is generated or not, the generator keeps its type.
LEMMA GenerateType ==
    ASSUME TypeOK, NEW p \in Processes, NEW id \in Ids, Source!Generate(p, id)
    PROVE  last' \in [Processes -> Ids \cup {Below}]
BY DEF TypeOK, Source!Generate

\* Every step keeps the types.
LEMMA TypeStep == TypeOK /\ ProcessInv /\ [Next]_vars => TypeOK'
<1> SUFFICES ASSUME TypeOK, ProcessInv, [Next]_vars PROVE TypeOK'
  OBVIOUS
<1>1. ASSUME NEW p \in Processes, Start(p) PROVE TypeOK'
  <2>1. PICK c \in Configs :
          /\ config' = [config EXCEPT ![p] = c]
          /\ secret' = [secret EXCEPT ![p] = SecretFor(c, starts + 1)]
          /\ used' = used \cup {c}
    BY <1>1 DEF Start
  <2>2. starts' \in 0..MaxStarts /\ starts + 1 \in 1..MaxStarts
    BY <1>1, BootstrapAssumption DEF Start, TypeOK
  <2>3. SecretFor(c, starts + 1) \in Seq(STRING)
    BY <2>2, SecretForType
  <2>4. last' \in [Processes -> Ids \cup {Below}]
    BY <1>1 DEF Start, Source!Create, TypeOK
  <2>5. overlap' \in BOOLEAN
    BY <1>1 DEF Start, TypeOK
  <2> QED
    BY <1>1, <2>1, <2>2, <2>3, <2>4, <2>5 DEF Start, Goto, TypeOK, tables
<1>2. ASSUME NEW p \in Processes, GetBusinessByName(p) PROVE TypeOK'
  BY <1>2 DEF GetBusinessByName, BusinessesNamed, Goto, TypeOK, tables, history
<1>3. ASSUME NEW p \in Processes, CreateBusiness(p) PROVE TypeOK'
  <2>1. PICK id \in Ids :
          /\ Source!Generate(p, id)
          /\ \/ Goto(p, "idTaken") /\ UNCHANGED <<businesses, business>>
             \/ /\ businesses' = businesses \cup {NewBusiness(p, id)}
                /\ business' = [business EXCEPT ![p] = id]
                /\ Goto(p, "getKey")
    BY <1>3 DEF CreateBusiness
  <2>2. last' \in [Processes -> Ids \cup {Below}]
    BY <2>1, GenerateType
  <2>3. NewBusiness(p, id) \in [id : Ids, name : STRING]
    BY <1>3, AtWork DEF NewBusiness, CreateBusiness, Bootstrapping, Down
  <2>4. /\ businesses' \subseteq [id : Ids, name : STRING]
        /\ business' \in [Processes -> Ids \cup {Below}]
    BY <2>1, <2>3 DEF TypeOK
  <2>5. pc' \in [Processes -> Down \cup {"getBusiness", "createBusiness", "getKey",
                                       "createKey", "log", "up"}]
    BY <2>1 DEF Goto, Down, TypeOK
  <2> QED
    BY <1>3, <2>2, <2>4, <2>5 DEF CreateBusiness, TypeOK, history
<1>4. ASSUME NEW p \in Processes, GetApiKeyByPrefix(p) PROVE TypeOK'
  <2>1. KeyOfFound(p) \in Seq(STRING)
    BY <1>4, AtWork DEF KeyOfFound, GetApiKeyByPrefix, Bootstrapping, Down
  <2> QED
    BY <1>4, <2>1 DEF GetApiKeyByPrefix, Goto, TypeOK, tables, history
<1>5. ASSUME NEW p \in Processes, CreateApiKey(p) PROVE TypeOK'
  <2>1. PICK id \in Ids :
          /\ Source!Generate(p, id)
          /\ \/ Goto(p, "idTaken") /\ UNCHANGED <<apiKeys, token>>
             \/ Goto(p, "prefixTaken") /\ UNCHANGED <<apiKeys, token>>
             \/ /\ apiKeys' = apiKeys \cup {NewKey(p, id)}
                /\ token' = [token EXCEPT ![p] = KeyOfCreated(p)]
                /\ Goto(p, "log")
    BY <1>5 DEF CreateApiKey
  <2>2. last' \in [Processes -> Ids \cup {Below}]
    BY <2>1, GenerateType
  <2>3. Bootstrapping(p) /\ pc[p] = "createKey"
    BY <1>5 DEF CreateApiKey, Bootstrapping, Down
  <2>4. KeyOfCreated(p) \in Seq(STRING)
    BY <2>3, AtWork DEF KeyOfCreated
  <2>5. business[p] \in Ids
    BY <2>3 DEF ProcessInv, TypeOK
  <2>6. NewKey(p, id) \in [id : Ids, business : Ids, prefix : Seq(STRING),
                           secret : Seq(STRING) \ {<<>>}, revoked : BOOLEAN]
    BY <2>3, <2>5, AtWork DEF NewKey
  <2>7. token' \in [Processes -> Seq(STRING)]
    BY <2>1, <2>4 DEF TypeOK
  <2>8. apiKeys' \subseteq [id : Ids, business : Ids, prefix : Seq(STRING),
                           secret : Seq(STRING) \ {<<>>}, revoked : BOOLEAN]
    BY <2>1, <2>6 DEF TypeOK
  <2>9. pc' \in [Processes -> Down \cup {"getBusiness", "createBusiness", "getKey",
                                       "createKey", "log", "up"}]
    BY <2>1 DEF Goto, Down, TypeOK
  <2> QED
    BY <1>5, <2>2, <2>7, <2>8, <2>9 DEF CreateApiKey, TypeOK, history
<1>6. ASSUME NEW p \in Processes, LogKey(p) PROVE TypeOK'
  <2>1. [token |-> token[p], config |-> config[p], secret |-> secret[p]]
          \in [token : Seq(STRING), config : Configs, secret : Seq(STRING)]
    BY <1>6, AtWork DEF LogKey, Bootstrapping, Down, TypeOK
  <2> QED
    BY <1>6, <2>1 DEF LogKey, Goto, TypeOK, tables, history
<1>7. ASSUME NEW p \in Processes, Die(p) PROVE TypeOK'
  <2>1. Unlogged(p) \subseteq [prefix : Seq(STRING), secret : Seq(STRING)]
    BY <1>7, AtWork DEF Unlogged, Bootstrapping, Down
  <2>2. lost' \subseteq [prefix : Seq(STRING), secret : Seq(STRING)]
    BY <1>7, <2>1 DEF Die, TypeOK
  <2> QED
    BY <1>7, <2>2 DEF Die, Goto, TypeOK, Down, tables
<1>8. CASE Revoke
  BY <1>8 DEF Revoke, TypeOK, process, history
<1>9. CASE UNCHANGED vars
  BY <1>9 DEF TypeOK, vars, process, tables, history
<1> QED
  BY <1>1, <1>2, <1>3, <1>4, <1>5, <1>6, <1>7, <1>8, <1>9
  DEF Next, BootstrapDemoData, Quiescent

(***************************************************************************)
(* What a step leaves alone.                                               *)
(***************************************************************************)
\* A process writes only its own memory.
LEMMA OthersUnchanged ==
    ASSUME TypeOK, NEW p \in Processes, Start(p) \/ BootstrapDemoData(p) \/ Die(p),
           NEW q \in Processes \ {p}
    PROVE  /\ pc'[q] = pc[q] /\ config'[q] = config[q] /\ secret'[q] = secret[q]
           /\ business'[q] = business[q] /\ token'[q] = token[q]
<1>1. CASE Start(p)
  BY <1>1 DEF Start, Goto, TypeOK
<1>2. CASE Die(p)
  BY <1>2 DEF Die, Goto, TypeOK
<1>3. CASE GetBusinessByName(p) \/ CreateBusiness(p)
  BY <1>3 DEF GetBusinessByName, CreateBusiness, Goto, TypeOK
<1>4. CASE GetApiKeyByPrefix(p) \/ CreateApiKey(p) \/ LogKey(p)
  BY <1>4 DEF GetApiKeyByPrefix, CreateApiKey, LogKey, Goto, TypeOK
<1> QED
  BY <1>1, <1>2, <1>3, <1>4 DEF BootstrapDemoData

\* Only a start changes what a process was configured with.
LEMMA ConfigUnchanged ==
    ASSUME NEW p \in Processes, BootstrapDemoData(p) \/ Die(p)
    PROVE  /\ Bootstrapping(p) \/ Die(p)
           /\ UNCHANGED <<config, secret, used, starts, overlap>>
BY DEF BootstrapDemoData, GetBusinessByName, CreateBusiness, GetApiKeyByPrefix, CreateApiKey,
       LogKey, Die, history, Bootstrapping, Down

\* Nothing is deleted, and of a key only its revocation changes.
SameKey(j, k) == j.prefix = k.prefix /\ j.secret = k.secret /\ j.business = k.business

LEMMA NothingDeleted ==
    ASSUME TypeOK, [Next]_vars
    PROVE  /\ used \subseteq used' /\ businesses \subseteq businesses' /\ log \subseteq log'
           /\ \A k \in apiKeys : \E j \in apiKeys' : SameKey(j, k)
           /\ overlap => overlap'
           /\ lost \subseteq lost'
<1>1. ASSUME NEW p \in Processes, Start(p) \/ Die(p)
      PROVE  /\ used \subseteq used' /\ UNCHANGED <<businesses, apiKeys, log>>
             /\ (overlap => overlap') /\ lost \subseteq lost'
  <2>1. CASE Start(p)
    BY <2>1 DEF Start, tables
  <2>2. CASE Die(p)
    BY <2>2 DEF Die, tables
  <2> QED
    BY <1>1, <2>1, <2>2
<1>2. ASSUME NEW p \in Processes, GetBusinessByName(p) \/ GetApiKeyByPrefix(p) \/ LogKey(p)
      PROVE  /\ UNCHANGED <<used, businesses, apiKeys, overlap, lost>> /\ log \subseteq log'
  BY <1>2 DEF GetBusinessByName, GetApiKeyByPrefix, LogKey, tables, history
<1>3. ASSUME NEW p \in Processes, CreateBusiness(p) \/ CreateApiKey(p)
      PROVE  /\ UNCHANGED <<used, log, overlap, lost>>
             /\ businesses \subseteq businesses' /\ apiKeys \subseteq apiKeys'
  BY <1>3 DEF CreateBusiness, CreateApiKey, history
<1>4. ASSUME Revoke
      PROVE  /\ UNCHANGED <<used, businesses, log, overlap, lost>>
             /\ \A k \in apiKeys : \E j \in apiKeys' : SameKey(j, k)
  <2>1. PICK r \in apiKeys : apiKeys' = (apiKeys \ {r}) \cup {[r EXCEPT !.revoked = TRUE]}
    BY <1>4 DEF Revoke
  <2>2. SameKey([r EXCEPT !.revoked = TRUE], r)
    BY DEF SameKey, TypeOK
  <2>3. \A k \in apiKeys \ {r} : k \in apiKeys' /\ SameKey(k, k)
    BY <2>1 DEF SameKey
  <2> QED
    BY <1>4, <2>1, <2>2, <2>3 DEF Revoke, history
<1>5. ASSUME UNCHANGED vars
      PROVE  UNCHANGED <<used, businesses, apiKeys, log, overlap, lost>>
  BY <1>5 DEF vars, tables, history
<1> QED
  BY <1>1, <1>2, <1>3, <1>4, <1>5 DEF Next, BootstrapDemoData, Quiescent, SameKey

\* The steps by what they are of: a start, another one of a process, or neither.
LEMMA StepCases ==
    ASSUME [Next]_vars
    PROVE  \/ \E p \in Processes : Start(p) \/ BootstrapDemoData(p) \/ Die(p)
           \/ Revoke \/ UNCHANGED vars
BY DEF Next, Quiescent

(***************************************************************************)
(* The invariant, part by part.                                            *)
(***************************************************************************)
\* A process keeps to its configuration.
LEMMA ProcessStep == TypeOK /\ ProcessInv /\ [Next]_vars => ProcessInv'
<1> SUFFICES ASSUME TypeOK, ProcessInv, [Next]_vars, NEW q \in Processes, Bootstrapping(q)'
             PROVE  /\ config'[q] \in used' /\ secret'[q] \notin {<<>>, <<Empty>>}
                    /\ config'[q].secret # <<>> => secret'[q] = config'[q].secret
                    /\ pc'[q] \in {"getKey", "createKey"} =>
                         \E b \in businesses' : b.id = business'[q] /\ b.name = config'[q].name
  BY DEF ProcessInv
<1>1. used \subseteq used' /\ businesses \subseteq businesses'
  BY NothingDeleted
<1>2. CASE /\ pc'[q] = pc[q] /\ config'[q] = config[q] /\ secret'[q] = secret[q]
           /\ business'[q] = business[q]
  BY <1>1, <1>2 DEF ProcessInv, Bootstrapping
<1>3. ASSUME Start(q)
      PROVE  /\ config'[q] \in used' /\ secret'[q] \notin {<<>>, <<Empty>>}
             /\ pc'[q] = "getBusiness"
             /\ config'[q].secret # <<>> => secret'[q] = config'[q].secret
  <2>1. PICK c \in Configs :
          /\ config' = [config EXCEPT ![q] = c]
          /\ secret' = [secret EXCEPT ![q] = SecretFor(c, starts + 1)]
          /\ used' = used \cup {c}
    BY <1>3 DEF Start
  <2>2. starts + 1 \in 1..MaxStarts
    BY <1>3, BootstrapAssumption DEF Start, TypeOK
  <2>3. config'[q] = c /\ secret'[q] = SecretFor(c, starts + 1)
    BY <2>1 DEF TypeOK
  <2>4. pc'[q] = "getBusiness"
    BY <1>3 DEF Start, Goto, TypeOK
  <2> QED
    BY <2>1, <2>2, <2>3, <2>4, SecretForType
<1>4. ASSUME BootstrapDemoData(q) \/ Die(q)
      PROVE  /\ config'[q] \in used' /\ secret'[q] \notin {<<>>, <<Empty>>}
             /\ config'[q].secret # <<>> => secret'[q] = config'[q].secret
  <2>1. Bootstrapping(q)
    BY <1>4, ConfigUnchanged DEF Die, Goto, TypeOK, Bootstrapping, Down
  <2> QED
    BY <1>4, <2>1, ConfigUnchanged DEF ProcessInv
<1>5. ASSUME BootstrapDemoData(q) \/ Die(q), pc'[q] \in {"getKey", "createKey"}
      PROVE  \E b \in businesses' : b.id = business'[q] /\ b.name = config'[q].name
  <2>1. CASE GetBusinessByName(q)
    BY <1>5, <2>1 DEF GetBusinessByName, BusinessesNamed, Goto, TypeOK, tables
  <2>2. CASE CreateBusiness(q)
    <3>1. PICK id \in Ids :
            \/ Goto(q, "idTaken")
            \/ /\ businesses' = businesses \cup {NewBusiness(q, id)}
               /\ business' = [business EXCEPT ![q] = id]
      BY <2>2 DEF CreateBusiness
    <3>2. pc'[q] # "idTaken"
      BY <1>5
    <3>3. NewBusiness(q, id) \in businesses' /\ business'[q] = id
      BY <3>1, <3>2 DEF Goto, TypeOK
    <3> QED
      BY <1>5, <3>3, ConfigUnchanged DEF NewBusiness
  <2>3. CASE GetApiKeyByPrefix(q)
    BY <1>1, <2>3 DEF GetApiKeyByPrefix, ProcessInv, Bootstrapping, Down
  <2>4. CASE CreateApiKey(q) \/ LogKey(q) \/ Die(q)
    BY <1>5, <2>4 DEF CreateApiKey, LogKey, Die, Goto, TypeOK
  <2> QED
    BY <1>5, <2>1, <2>2, <2>3, <2>4 DEF BootstrapDemoData
<1>6. CASE Revoke \/ UNCHANGED vars
  BY <1>2, <1>6 DEF Revoke, vars, process
<1> QED
  BY <1>2, <1>3, <1>4, <1>5, <1>6, StepCases, OthersUnchanged

\* What a step does to the keys: it makes one of a prefix that has none, or revokes one.
LEMMA KeySteps ==
    ASSUME TypeOK, ProcessInv, KeyInv, [Next]_vars
    PROVE  \/ apiKeys' = apiKeys
           \/ /\ used' = used /\ businesses' = businesses
              /\ \E p \in Processes, n \in apiKeys' :
                   /\ Made(n, config[p]) /\ config[p] \in used
                   /\ apiKeys' = apiKeys \cup {n}
                   /\ \A k \in apiKeys : k.prefix # n.prefix
           \/ /\ \A j \in apiKeys' : \E k \in apiKeys : SameKey(j, k)
              /\ \A j, l \in apiKeys' : j.prefix = l.prefix => j = l
<1>1. ASSUME NEW p \in Processes, CreateApiKey(p)
      PROVE  \/ apiKeys' = apiKeys
             \/ /\ used' = used /\ businesses' = businesses
                /\ \E n \in apiKeys' :
                     /\ Made(n, config[p]) /\ config[p] \in used
                     /\ apiKeys' = apiKeys \cup {n}
                     /\ \A k \in apiKeys : k.prefix # n.prefix
  <2>1. PICK id \in Ids :
          \/ apiKeys' = apiKeys
          \/ /\ \A k \in apiKeys : k.prefix # config[p].prefix
             /\ apiKeys' = apiKeys \cup {NewKey(p, id)}
    BY <1>1 DEF CreateApiKey
  <2>2. pc[p] = "createKey" /\ Bootstrapping(p) /\ UNCHANGED <<used, businesses>>
    BY <1>1 DEF CreateApiKey, Bootstrapping, Down, history
  <2>3. Made(NewKey(p, id), config[p]) /\ config[p] \in used
    BY <2>2 DEF ProcessInv, Made, NewKey
  <2>4. NewKey(p, id).prefix = config[p].prefix
    BY DEF NewKey
  <2> QED
    BY <2>1, <2>2, <2>3, <2>4
<1>2. ASSUME Revoke, NEW j \in apiKeys', NEW l \in apiKeys'
      PROVE  /\ \E k \in apiKeys : SameKey(j, k)
             /\ j.prefix = l.prefix => j = l
  <2>1. PICK r \in apiKeys : apiKeys' = (apiKeys \ {r}) \cup {[r EXCEPT !.revoked = TRUE]}
    BY <1>2 DEF Revoke
  <2>2. SameKey([r EXCEPT !.revoked = TRUE], r) /\ \A k \in apiKeys : SameKey(k, k)
    BY DEF SameKey, TypeOK
  <2>3. \E k \in apiKeys : SameKey(j, k)
    BY <1>2, <2>1, <2>2
  <2>4. j.prefix = l.prefix => j = l
    BY <1>2, <2>1, <2>2 DEF KeyInv, SameKey
  <2> QED
    BY <2>3, <2>4
<1>3. ASSUME NEW p \in Processes, Start(p) \/ GetBusinessByName(p) \/ CreateBusiness(p)
                                  \/ GetApiKeyByPrefix(p) \/ LogKey(p) \/ Die(p)
      PROVE  apiKeys' = apiKeys
  BY <1>3 DEF Start, GetBusinessByName, CreateBusiness, GetApiKeyByPrefix, LogKey, Die, tables
<1>4. CASE UNCHANGED vars
  BY <1>4 DEF vars, tables
<1> QED
  BY <1>1, <1>2, <1>3, <1>4, StepCases DEF BootstrapDemoData

\* A prefix keeps its one key.
LEMMA KeyStep == TypeOK /\ ProcessInv /\ KeyInv /\ [Next]_vars => KeyInv'
<1> SUFFICES ASSUME TypeOK, ProcessInv, KeyInv, [Next]_vars PROVE KeyInv'
  OBVIOUS
<1>1. \A k \in apiKeys : \E c \in used' : Made(k, c)'
  BY NothingDeleted DEF KeyInv, Made
<1>2. CASE apiKeys' = apiKeys
  BY <1>1, <1>2 DEF KeyInv
<1>3. ASSUME NEW p \in Processes, NEW n \in apiKeys',
             used' = used, businesses' = businesses,
             Made(n, config[p]), config[p] \in used,
             apiKeys' = apiKeys \cup {n}, \A k \in apiKeys : k.prefix # n.prefix
      PROVE  KeyInv'
  <2>1. \E c \in used' : Made(n, c)'
    BY <1>3 DEF Made
  <2> QED
    BY <1>1, <1>3, <2>1 DEF KeyInv
<1>4. ASSUME \A j \in apiKeys' : \E k \in apiKeys : SameKey(j, k),
             \A j, l \in apiKeys' : j.prefix = l.prefix => j = l
      PROVE  KeyInv'
  <2>1. \A j \in apiKeys' : \E c \in used' : Made(j, c)'
    <3> TAKE j \in apiKeys'
    <3>1. PICK k \in apiKeys : SameKey(j, k)
      BY <1>4
    <3>2. PICK c \in used' : Made(k, c)'
      BY <1>1
    <3>3. Made(j, c)'
      BY <3>1, <3>2 DEF Made, SameKey
    <3> QED
      BY <3>3
  <2> QED
    BY <1>4, <2>1 DEF KeyInv
<1> QED
  BY <1>2, <1>3, <1>4, KeySteps

\* The key of a start stays there, with its secret.
LEMMA OpensPersists ==
    ASSUME TypeOK, [Next]_vars, NEW c, NEW s, Opens(c, s)
    PROVE  Opens(c, s)'
<1>1. PICK k \in apiKeys : /\ k.prefix = c.prefix
                           /\ c.secret = <<>> \/ Agree(SecretOf, c.prefix) => k.secret = s
  BY DEF Opens
<1>2. PICK j \in apiKeys' : SameKey(j, k)
  BY NothingDeleted
<1>3. Agree(SecretOf, c.prefix)' => Agree(SecretOf, c.prefix)
  BY NothingDeleted DEF Agree, SecretOf
<1> QED
  BY <1>1, <1>2, <1>3 DEF Opens, SameKey

\* What is about to be logged is there, and what is logged was.
LEMMA LogStep == TypeOK /\ ProcessInv /\ KeyInv /\ LogInv /\ [Next]_vars => LogInv'
<1> SUFFICES ASSUME TypeOK, ProcessInv, KeyInv, LogInv, [Next]_vars PROVE LogInv'
  OBVIOUS
<1>1. ASSUME NEW t \in log'
      PROVE  /\ t.token = t.config.prefix \o t.secret
             /\ t.secret \notin {<<>>, <<Empty>>}
             /\ Opens(t.config, t.secret)'
  <2>1. CASE t \in log
    BY <2>1, OpensPersists DEF LogInv
  <2>2. ASSUME NEW p \in Processes, LogKey(p), t \notin log
        PROVE  /\ t.token = t.config.prefix \o t.secret
               /\ t.secret \notin {<<>>, <<Empty>>}
               /\ Opens(t.config, t.secret)
    <3>1. /\ token[p] # <<>>
          /\ t = [token |-> token[p], config |-> config[p], secret |-> secret[p]]
      BY <2>2 DEF LogKey
    <3>2. token[p] = FullKey(p) /\ Opens(config[p], secret[p])
      BY <2>2, <3>1 DEF LogKey, LogInv
    <3>3. secret[p] \notin {<<>>, <<Empty>>}
      BY <2>2, AtWork DEF LogKey, Bootstrapping, Down
    <3> QED
      BY <3>1, <3>2, <3>3 DEF FullKey
  <2>3. (\E p \in Processes : LogKey(p)) \/ log' = log
    BY DEF Next, BootstrapDemoData, Quiescent, Start, GetBusinessByName, CreateBusiness,
           GetApiKeyByPrefix, CreateApiKey, Die, Revoke, vars
  <2> QED
    BY <2>1, <2>2, <2>3, OpensPersists
<1>2. ASSUME NEW q \in Processes, pc'[q] = "log"
      PROVE  /\ token'[q] \in {<<>>, FullKey(q)'}
             /\ token'[q] # <<>> => Opens(config[q], secret[q])'
  <2>1. CASE /\ pc'[q] = pc[q] /\ config'[q] = config[q] /\ secret'[q] = secret[q]
             /\ token'[q] = token[q]
    <3>1. FullKey(q)' = FullKey(q)
      BY <2>1 DEF FullKey
    <3>2. Opens(config[q], secret[q]) => Opens(config[q], secret[q])'
      <4>1. ASSUME NEW c, NEW s, c = config[q], s = secret[q], Opens(c, s)
            PROVE  Opens(config[q], secret[q])'
        <5>1. Opens(c, s)'
          BY <4>1, OpensPersists
        <5>2. c = config'[q] /\ s = secret'[q]
          BY <2>1, <4>1
        <5> QED
          BY <5>1, <5>2 DEF Opens, Agree
      <4> QED
        BY <4>1
    <3> QED
      BY <1>2, <2>1, <3>1, <3>2 DEF LogInv
  <2>2. CASE GetApiKeyByPrefix(q)
    <3>1. /\ KeysFound(q) # {} /\ token'[q] = KeyOfFound(q) /\ pc[q] = "getKey"
          /\ UNCHANGED <<config, secret, apiKeys, used>>
      BY <1>2, <2>2 DEF GetApiKeyByPrefix, Goto, TypeOK, tables, history
    <3>2. PICK k \in apiKeys : k.prefix = config[q].prefix
      BY <3>1 DEF KeysFound
    <3>3. /\ config[q] \in used
          /\ config[q].secret # <<>> => secret[q] = config[q].secret
      BY <3>1 DEF ProcessInv, Bootstrapping, Down
    <3>4. PICK c \in used : Made(k, c)
      BY DEF KeyInv
    <3>5. Agree(SecretOf, config[q].prefix) => c.secret = config[q].secret
      BY <3>2, <3>3, <3>4 DEF Agree, SecretOf, Made
    <3>6. config[q].secret # <<>> /\ Agree(SecretOf, config[q].prefix) => k.secret = secret[q]
      BY <3>3, <3>4, <3>5 DEF Made
    <3> QED
      BY <3>1, <3>2, <3>6 DEF KeyOfFound, FullKey, Opens, Agree
  <2>3. CASE CreateApiKey(q)
    <3>1. PICK id \in Ids : /\ apiKeys' = apiKeys \cup {NewKey(q, id)}
                            /\ token' = [token EXCEPT ![q] = KeyOfCreated(q)]
      BY <1>2, <2>3 DEF CreateApiKey, Goto, TypeOK
    <3>2. UNCHANGED <<config, secret>> /\ token'[q] = FullKey(q)
      BY <2>3, <3>1 DEF CreateApiKey, KeyOfCreated, TypeOK
    <3>3. NewKey(q, id).prefix = config[q].prefix /\ NewKey(q, id).secret = secret[q]
      BY DEF NewKey
    <3> QED
      BY <3>1, <3>2, <3>3 DEF FullKey, Opens
  <2>4. CASE Start(q) \/ GetBusinessByName(q) \/ CreateBusiness(q) \/ LogKey(q) \/ Die(q)
    BY <1>2, <2>4 DEF Start, GetBusinessByName, CreateBusiness, LogKey, Die, Goto, TypeOK
  <2>5. CASE Revoke \/ UNCHANGED vars
    BY <2>1, <2>5 DEF Revoke, vars, process
  <2> QED
    BY <2>1, <2>2, <2>3, <2>4, <2>5, StepCases, OthersUnchanged DEF BootstrapDemoData
<1> QED
  BY <1>1, <1>2 DEF LogInv

\* Who looks something up alone finds it unchanged when it acts on it.
LEMMA SequentialStep ==
    TypeOK /\ ProcessInv /\ KeyInv /\ SequentialInv /\ [Next]_vars => SequentialInv'
<1> SUFFICES ASSUME TypeOK, ProcessInv, KeyInv, SequentialInv, [Next]_vars, ~overlap'
             PROVE  /\ \A p, q \in Processes : Bootstrapping(p)' /\ Bootstrapping(q)' => p = q
                    /\ \A p \in Processes :
                         /\ pc'[p] # "prefixTaken"
                         /\ pc'[p] = "createBusiness" => BusinessesNamed(p)' = {}
                         /\ pc'[p] = "createKey" => KeysFound(p)' = {}
                    /\ \A a, b \in businesses' : a.name = b.name => a = b
  BY DEF SequentialInv
<1>1. ~overlap
  BY NothingDeleted
<1>2. ASSUME NEW p \in Processes, NEW q \in Processes, Bootstrapping(p), Bootstrapping(q)
      PROVE  p = q
  BY <1>1, <1>2 DEF SequentialInv
<1>3. \/ \E p \in Processes :
           Start(p) /\ \A q \in Processes : Bootstrapping(q)' => q = p
      \/ \A q \in Processes : Bootstrapping(q)' => Bootstrapping(q)
  <2>1. ASSUME NEW p \in Processes, Start(p), NEW q \in Processes, Bootstrapping(q)'
        PROVE  q = p
    BY <2>1, OthersUnchanged DEF Start, Bootstrapping
  <2>2. ASSUME NEW p \in Processes, BootstrapDemoData(p) \/ Die(p),
               NEW q \in Processes, Bootstrapping(q)'
        PROVE  Bootstrapping(q)
    BY <2>2, OthersUnchanged, ConfigUnchanged DEF Die, Goto, TypeOK, Bootstrapping, Down
  <2>3. CASE Revoke \/ UNCHANGED vars
    BY <2>3 DEF Revoke, vars, process, Bootstrapping
  <2> QED
    BY <2>1, <2>2, <2>3, StepCases
<1>4. ASSUME NEW p \in Processes, NEW q \in Processes, Bootstrapping(p)', Bootstrapping(q)'
      PROVE  p = q
  BY <1>2, <1>3, <1>4
<1>5. ASSUME NEW q \in Processes
      PROVE  /\ pc'[q] # "prefixTaken"
             /\ pc'[q] = "createBusiness" => BusinessesNamed(q)' = {}
             /\ pc'[q] = "createKey" => KeysFound(q)' = {}
  <2>1. /\ pc[q] # "prefixTaken"
        /\ pc[q] = "createBusiness" => BusinessesNamed(q) = {}
        /\ pc[q] = "createKey" => KeysFound(q) = {}
    BY <1>1 DEF SequentialInv
  <2>2. CASE Start(q)
    BY <2>2 DEF Start, Goto, TypeOK
  <2>3. CASE GetBusinessByName(q)
    BY <2>1, <2>3 DEF GetBusinessByName, BusinessesNamed, Goto, TypeOK, tables
  <2>4. CASE CreateBusiness(q)
    BY <2>4 DEF CreateBusiness, Goto, TypeOK
  <2>5. CASE GetApiKeyByPrefix(q)
    BY <2>1, <2>5 DEF GetApiKeyByPrefix, KeysFound, Goto, TypeOK, tables
  <2>6. CASE CreateApiKey(q)
    <3>1. ~\E k \in apiKeys : k.prefix = config[q].prefix
      BY <2>1, <2>6 DEF CreateApiKey, KeysFound
    <3> QED
      BY <2>6, <3>1 DEF CreateApiKey, Goto, TypeOK
  <2>7. CASE LogKey(q) \/ Die(q)
    BY <2>7 DEF LogKey, Die, Goto, TypeOK
  <2>8. ASSUME NEW p \in Processes \ {q}, Start(p) \/ BootstrapDemoData(p) \/ Die(p)
        PROVE  /\ pc'[q] # "prefixTaken"
               /\ pc'[q] = "createBusiness" => BusinessesNamed(q)' = {}
               /\ pc'[q] = "createKey" => KeysFound(q)' = {}
    <3>1. pc'[q] = pc[q] /\ config'[q] = config[q]
      BY <2>8, OthersUnchanged
    <3>2. CASE Bootstrapping(q)
      <4>1. ~CreateBusiness(p) /\ ~CreateApiKey(p)
        BY <1>2, <2>8, <3>2 DEF CreateBusiness, CreateApiKey, Bootstrapping, Down
      <4>2. UNCHANGED <<businesses, apiKeys>>
        BY <2>8, <4>1 DEF BootstrapDemoData, Start, GetBusinessByName, GetApiKeyByPrefix,
                          LogKey, Die, tables
      <4> QED
        BY <2>1, <3>1, <4>2 DEF BusinessesNamed, KeysFound
    <3>3. CASE ~Bootstrapping(q)
      BY <2>1, <3>1, <3>3 DEF Bootstrapping, Down
    <3> QED
      BY <3>2, <3>3
  <2>9. CASE Revoke
    <3>1. UNCHANGED <<pc, config, businesses>>
      BY <2>9 DEF Revoke, process
    <3>2. \A j \in apiKeys' : \E k \in apiKeys : j.prefix = k.prefix
      BY <2>9, KeySteps DEF Revoke, TypeOK, SameKey
    <3> QED
      BY <2>1, <3>1, <3>2 DEF BusinessesNamed, KeysFound
  <2>10. CASE UNCHANGED vars
    BY <2>1, <2>10 DEF vars, process, tables, BusinessesNamed, KeysFound
  <2> QED
    BY <2>2, <2>3, <2>4, <2>5, <2>6, <2>7, <2>8, <2>9, <2>10, StepCases DEF BootstrapDemoData
<1>6. ASSUME NEW a \in businesses', NEW b \in businesses', a.name = b.name
      PROVE  a = b
  <2>1. CASE businesses' = businesses
    BY <1>1, <1>6, <2>1 DEF SequentialInv
  <2>2. ASSUME NEW p \in Processes, CreateBusiness(p) PROVE a = b
    <3>1. PICK id \in Ids : \/ businesses' = businesses
                            \/ businesses' = businesses \cup {NewBusiness(p, id)}
      BY <2>2 DEF CreateBusiness
    <3>2. \A c \in businesses : c.name # NewBusiness(p, id).name
      BY <1>1, <2>2 DEF SequentialInv, CreateBusiness, BusinessesNamed, NewBusiness
    <3> QED
      BY <1>1, <1>6, <3>1, <3>2 DEF SequentialInv
  <2>3. (\E p \in Processes : CreateBusiness(p)) \/ businesses' = businesses
    BY DEF Next, BootstrapDemoData, Quiescent, Start, GetBusinessByName, LogKey,
           GetApiKeyByPrefix, CreateApiKey, Die, Revoke, vars, tables
  <2> QED
    BY <2>1, <2>2, <2>3
<1> QED
  BY <1>4, <1>5, <1>6

\* A secret goes from the process that drew it to the log, or down with the process.
LEMMA LostStep ==
    TypeOK /\ ProcessInv /\ LogInv /\ NoKeyIsLost /\ [Next]_vars => NoKeyIsLost'
<1> DEFINE Of(k) == [prefix |-> k.prefix, secret |-> k.secret]
           Known(k) ==
               \/ \E c \in used : c.prefix = k.prefix /\ c.secret = k.secret
               \/ \E t \in log : t.token = k.prefix \o k.secret
               \/ \E p \in Processes : Of(k) \in Unlogged(p)
               \/ Of(k) \in lost
<1> SUFFICES ASSUME TypeOK, ProcessInv, LogInv, NoKeyIsLost, [Next]_vars
             PROVE  \A k \in apiKeys' : Known(k)'
  BY DEF NoKeyIsLost
<1>1. ASSUME NEW k \in apiKeys PROVE Known(k)'
  <2>1. CASE \/ \E c \in used : c.prefix = k.prefix /\ c.secret = k.secret
             \/ \E t \in log : t.token = k.prefix \o k.secret
             \/ Of(k) \in lost
    BY <2>1, NothingDeleted
  <2>2. ASSUME NEW p \in Processes, Of(k) \in Unlogged(p)
        PROVE  Known(k)'
    <3>1. /\ pc[p] = "log" /\ token[p] # <<>>
          /\ config[p].prefix = k.prefix /\ secret[p] = k.secret
      BY <2>2 DEF Unlogged
    <3>2. CASE /\ pc'[p] = pc[p] /\ token'[p] = token[p]
               /\ config'[p] = config[p] /\ secret'[p] = secret[p]
      BY <3>1, <3>2 DEF Unlogged
    <3>3. CASE LogKey(p)
      <4>1. token[p] = k.prefix \o k.secret
        BY <3>1 DEF LogInv, FullKey
      <4>2. [token |-> token[p], config |-> config[p], secret |-> secret[p]] \in log'
        BY <3>1, <3>3 DEF LogKey
      <4> QED
        BY <4>1, <4>2
    <3>4. CASE Die(p)
      BY <2>2, <3>4 DEF Die
    <3>5. CASE Revoke \/ UNCHANGED vars
      BY <3>2, <3>5 DEF Revoke, vars, process
    <3>6. ~(\/ Start(p) \/ GetBusinessByName(p) \/ CreateBusiness(p)
            \/ GetApiKeyByPrefix(p) \/ CreateApiKey(p))
      BY <3>1 DEF Start, GetBusinessByName, CreateBusiness, GetApiKeyByPrefix, CreateApiKey, Down
    <3> QED
      BY <3>2, <3>3, <3>4, <3>5, <3>6, StepCases, OthersUnchanged DEF BootstrapDemoData
  <2> QED
    BY <2>1, <2>2 DEF NoKeyIsLost
<1>2. ASSUME NEW p \in Processes, CreateApiKey(p), NEW j \in apiKeys' \ apiKeys PROVE Known(j)'
  <2>1. PICK id \in Ids : /\ j = NewKey(p, id)
                          /\ token' = [token EXCEPT ![p] = KeyOfCreated(p)]
                          /\ Goto(p, "log")
    BY <1>2 DEF CreateApiKey
  <2>2. /\ token'[p] = FullKey(p) /\ pc'[p] = "log"
        /\ config'[p] = config[p] /\ secret'[p] = secret[p]
    BY <1>2, <2>1 DEF CreateApiKey, TypeOK, Goto, KeyOfCreated
  <2>3. FullKey(p) # <<>>
    BY <1>2, AtWork DEF CreateApiKey, Bootstrapping, Down
  <2>4. Of(j) \in Unlogged(p)'
    BY <2>1, <2>2, <2>3 DEF Unlogged, NewKey
  <2> QED
    BY <2>4
<1>3. ASSUME Revoke, NEW j \in apiKeys' PROVE Known(j)'
  <2>1. PICK r \in apiKeys : apiKeys' = (apiKeys \ {r}) \cup {[r EXCEPT !.revoked = TRUE]}
    BY <1>3 DEF Revoke
  <2>2. PICK k \in apiKeys : j.prefix = k.prefix /\ j.secret = k.secret
    BY <2>1 DEF TypeOK
  <2> QED
    BY <1>1, <2>2
<1>4. (\E p \in Processes : CreateApiKey(p)) \/ Revoke \/ apiKeys' = apiKeys
  BY DEF Next, BootstrapDemoData, Quiescent, Start, GetBusinessByName, LogKey,
         GetApiKeyByPrefix, CreateBusiness, Die, vars, tables
<1> QED
  BY <1>1, <1>2, <1>3, <1>4

(***************************************************************************)
(* The theorems.                                                           *)
(***************************************************************************)
\* The inductive invariant holds in every reachable state.
THEOREM BootstrapInvariant == Spec => [](TypeOK /\ BootstrapInv)
<1>1. Init => TypeOK /\ BootstrapInv
  <2> SUFFICES ASSUME Init PROVE TypeOK /\ BootstrapInv
    OBVIOUS
  <2>1. TypeOK
    <3>1. <<>> \in Seq(STRING) /\ 0 \in 0..MaxStarts
      BY BootstrapAssumption
    <3>2. /\ pc \in [Processes -> Down \cup {"getBusiness", "createBusiness", "getKey",
                                            "createKey", "log", "up"}]
          /\ config \in [Processes -> Configs \cup {NoConfig}]
          /\ secret \in [Processes -> Seq(STRING)]
          /\ business \in [Processes -> Ids \cup {Below}]
          /\ token \in [Processes -> Seq(STRING)]
          /\ last \in [Processes -> Ids \cup {Below}]
      BY <3>1 DEF Init, Down, Source!Init
    <3>3. /\ businesses = {} /\ apiKeys = {} /\ log = {} /\ used = {}
          /\ starts \in 0..MaxStarts /\ overlap \in BOOLEAN /\ lost = {}
      BY <3>1 DEF Init
    <3> QED
      BY <3>2, <3>3 DEF TypeOK
  <2>2. ProcessInv /\ KeyInv /\ LogInv /\ SequentialInv /\ NoKeyIsLost
    BY DEF Init, ProcessInv, KeyInv, LogInv, SequentialInv, NoKeyIsLost, Bootstrapping, Down
  <2> QED
    BY <2>1, <2>2 DEF BootstrapInv
<1>2. TypeOK /\ BootstrapInv /\ [Next]_vars => (TypeOK /\ BootstrapInv)'
  BY TypeStep, ProcessStep, KeyStep, LogStep, SequentialStep, LostStep DEF BootstrapInv
<1> QED
  BY <1>1, <1>2, PTL DEF Spec

\* Every variable stays in its type.
THEOREM TypeCorrect == Spec => []TypeOK
BY BootstrapInvariant, PTL

\* Starts one after the other share a business and its key, wherever one died.
THEOREM StartsAreRepeatable == Spec => []SequentialStartsReuse
<1>1. BootstrapInv => SequentialStartsReuse
  <2> SUFFICES ASSUME BootstrapInv, ~overlap
               PROVE  /\ \A a, b \in businesses : a.name = b.name => a = b
                      /\ \A k \in apiKeys : Agree(NameOf, k.prefix) =>
                           \E b \in businesses, c \in used :
                             b.id = k.business /\ c.prefix = k.prefix /\ b.name = c.name
    BY DEF SequentialStartsReuse
  <2>1. \A a, b \in businesses : a.name = b.name => a = b
    BY DEF BootstrapInv, SequentialInv
  <2>2. ASSUME NEW k \in apiKeys
        PROVE  \E b \in businesses, c \in used :
                 b.id = k.business /\ c.prefix = k.prefix /\ b.name = c.name
    BY DEF BootstrapInv, KeyInv, Made
  <2> QED
    BY <2>1, <2>2
<1> QED
  BY <1>1, BootstrapInvariant, PTL

\* The unique prefix refuses a start only if another one raced it.
THEOREM CollisionsAreRaces == Spec => []OnlyRacesCollide
<1>1. BootstrapInv => OnlyRacesCollide
  BY DEF BootstrapInv, SequentialInv, OnlyRacesCollide
<1> QED
  BY <1>1, BootstrapInvariant, PTL

\* The secret of a key is never lost but with the very process that drew it.
THEOREM KeysStayKnown == Spec => []NoKeyIsLost
<1>1. BootstrapInv => NoKeyIsLost
  BY DEF BootstrapInv
<1> QED
  BY <1>1, BootstrapInvariant, PTL

\* What trimming does to a token of several words.
LEMMA TrimSpaceOf ==
    ASSUME NEW t \in Seq(STRING), ~(Len(t) < 2)
    PROVE  /\ Len(Front(TrimSpace(t))) = Len(t) - 1
           /\ Front(TrimSpace(t))[1] = TrimLeft(t[1])
           /\ TrimSpace(t)[Len(t)] = TrimRight(t[Len(t)])
           /\ TrimLeft(t[1]) = t[1] /\ TrimRight(t[Len(t)]) = t[Len(t)] => TrimSpace(t) = t
<1> DEFINE s == TrimSpace(t)
           W == STRING \cup {TrimLeft(t[1]), TrimRight(t[Len(t)])}
<1>1. Len(t) \in Nat /\ Len(t) >= 2 /\ DOMAIN t = 1..Len(t)
  OBVIOUS
<1>2. \A i \in 1..Len(t) : s[i] = IF i = Len(t) THEN TrimRight(t[i])
                                  ELSE IF i = 1 THEN TrimLeft(t[i]) ELSE t[i]
  BY <1>1 DEF TrimSpace
<1>3. s \in [1..Len(t) -> W]
  <2>1. \A i \in 1..Len(t) : t[i] \in STRING
    OBVIOUS
  <2>2. \A i \in 1..Len(t) : s[i] \in W
    BY <1>2, <2>1
  <2>3. s = [i \in 1..Len(t) |-> s[i]]
    BY <1>1 DEF TrimSpace
  <2> QED
    BY <2>2, <2>3
<1> HIDE DEF W
<1>4. s \in Seq(W) /\ Len(s) = Len(t)
  BY <1>1, <1>3
<1> HIDE DEF s
<1>5. s[1] = TrimLeft(t[1]) /\ s[Len(t)] = TrimRight(t[Len(t)])
  <2>1. 1 \in 1..Len(t) /\ Len(t) \in 1..Len(t) /\ 1 # Len(t)
    BY <1>1
  <2> QED
    BY <1>2, <2>1
<1>6. (TrimLeft(t[1]) = t[1] /\ TrimRight(t[Len(t)]) = t[Len(t)]) => s = t
  <2> SUFFICES ASSUME TrimLeft(t[1]) = t[1], TrimRight(t[Len(t)]) = t[Len(t)] PROVE s = t
    OBVIOUS
  <2>1. \A i \in 1..Len(t) : s[i] = t[i]
    BY <1>2
  <2>2. s = [i \in 1..Len(t) |-> s[i]] /\ t = [i \in 1..Len(t) |-> t[i]]
    BY <1>1, <1>3
  <2> QED
    BY <2>1, <2>2
<1>7. Len(Front(s)) = Len(t) - 1 /\ Front(s)[1] = s[1]
  BY <1>1, <1>4 DEF Front
<1> QED
  BY <1>5, <1>6, <1>7 DEF s

\* The words of a joined key.
LEMMA WordsOfFullKey ==
    ASSUME NEW front \in Seq(STRING), front # <<>>, NEW word \in Seq(STRING), word # <<>>
    PROVE  /\ front \o word \in Seq(STRING) /\ ~(Len(front \o word) < 2)
           /\ Len(front \o word) = Len(front) + Len(word)
           /\ (front \o word)[1] = front[1]
           /\ (front \o word)[Len(front \o word)] = word[Len(word)]
<1>1. Len(front) \in Nat /\ Len(front) >= 1 /\ Len(word) \in Nat /\ Len(word) >= 1
  BY EmptySeq
<1>2. front \o word \in Seq(STRING) /\ Len(front \o word) = Len(front) + Len(word)
  BY ConcatProperties
<1>3. (front \o word)[1] = front[1]
  BY <1>1, ConcatProperties
<1>4. (front \o word)[Len(front) + Len(word)] = word[Len(word)]
  <2>1. /\ Len(front) + Len(word) \in 1 .. Len(front) + Len(word)
        /\ ~(Len(front) + Len(word) <= Len(front))
        /\ Len(front) + Len(word) - Len(front) = Len(word)
    BY <1>1
  <2> QED
    BY <2>1, ConcatProperties
<1> QED
  BY <1>1, <1>2, <1>3, <1>4

\* A sequence of one word.
LEMMA OneWord ==
    ASSUME NEW word \in Seq(STRING), Len(word) = 1
    PROVE  word = <<word[1]>>
<1>1. word[1] \in STRING
  <2>1. 1 \in 1 .. Len(word)
    OBVIOUS
  <2> QED
    BY <2>1, ElementOfSeq
<1>2. <<word[1]>> \in Seq(STRING) /\ Len(<<word[1]>>) = 1 /\ <<word[1]>>[1] = word[1]
  BY <1>1
<1> QED
  BY <1>2, SeqEqual

\* ParseAPIKey undoes what BootstrapDemoData joins, if the secret is one word and white
\* space is not at the ends.
LEMMA ParseOfReadable ==
    ASSUME NEW front \in Seq(STRING), front # <<>>, front # <<Empty>>,
           NEW word \in Seq(STRING), word # <<Empty>>, Readable(front, word)
    PROVE  Parse(front \o word) = {[prefix |-> front, secret |-> word]}
<1> DEFINE t == front \o word
<1>1. Len(word) = 1 /\ TrimRight(word[1]) = word[1] /\ TrimLeft(front[1]) = front[1]
  BY DEF Readable
<1>2. word # <<>> /\ word = <<word[1]>>
  BY <1>1, OneWord
<1>3. /\ t \in Seq(STRING) /\ ~(Len(t) < 2) /\ Len(t) = Len(front) + 1
      /\ t[1] = front[1] /\ t[Len(t)] = word[1]
  BY <1>1, <1>2, WordsOfFullKey
<1>4. Front(t) = front
  <2>1. Len(front) \in Nat /\ Len(t) - 1 = Len(front)
    BY <1>3
  <2>2. SubSeq(t, 1, Len(front)) = SubSeq(front, 1, Len(front))
    BY <2>1, SubSeqOfConcat1
  <2> QED
    BY <2>1, <2>2, SubSeqFull DEF Front
<1> HIDE DEF t
<1>5. TrimSpace(t) = t
  BY <1>1, <1>3, TrimSpaceOf
<1>6. t[Len(t)] # Empty
  BY <1>2, <1>3
<1>7. Parse(t) = {[prefix |-> Front(t), secret |-> <<t[Len(t)]>>]}
  BY <1>3, <1>4, <1>5, <1>6, Zenon DEF Parse
<1> QED
  BY <1>2, <1>3, <1>4, <1>7 DEF t

\* It gives back something else otherwise, if anything.
LEMMA ParseOfUnreadable ==
    ASSUME NEW front \in Seq(STRING), front # <<>>,
           NEW word \in Seq(STRING), word # <<>>,
           [prefix |-> front, secret |-> word] \in Parse(front \o word)
    PROVE  Readable(front, word)
<1> DEFINE t == front \o word
           s == TrimSpace(t)
<1>1. /\ t \in Seq(STRING) /\ ~(Len(t) < 2) /\ Len(t) = Len(front) + Len(word)
      /\ t[1] = front[1] /\ t[Len(t)] = word[Len(word)]
  BY WordsOfFullKey
<1> HIDE DEF t
<1>2. [prefix |-> front, secret |-> word] = [prefix |-> Front(s), secret |-> <<s[Len(t)]>>]
  BY Zenon DEF Parse, t
<1>3. front = Front(s) /\ word = <<s[Len(t)]>>
  BY <1>2
<1>4. /\ Len(Front(s)) = Len(t) - 1
      /\ Front(s)[1] = TrimLeft(t[1]) /\ s[Len(t)] = TrimRight(t[Len(t)])
  BY <1>1, TrimSpaceOf
<1> HIDE DEF s
<1>5. Len(word) = 1 /\ word[1] = s[Len(t)]
  BY <1>3
<1> QED
  BY <1>1, <1>3, <1>4, <1>5 DEF Readable

\* What the key in the log opens: that of its prefix if it has its secret, can be read and is
\* not revoked; and not it if it cannot.
THEOREM LoggedKeysAreAccepted == Spec => []LoggedKeyWorks
<1>1. TypeOK /\ BootstrapInv => LoggedKeyWorks
  <2> SUFFICES ASSUME TypeOK, BootstrapInv, NEW t \in log
               PROVE  \E k \in apiKeys :
                        LET readable == Readable(t.config.prefix, t.secret)
                            same == k.secret = t.secret
                        IN  /\ k.prefix = t.config.prefix
                            /\ t.config.secret = <<>> \/ Agree(SecretOf, t.config.prefix) => same
                            /\ readable => Authenticate(t.token) =
                                             IF same /\ ~k.revoked THEN {k} ELSE {}
                            /\ ~readable /\ same => k \notin Authenticate(t.token)
    BY DEF LoggedKeyWorks
  <2>1. /\ t.token = t.config.prefix \o t.secret
        /\ t.secret \notin {<<>>, <<Empty>>} /\ Opens(t.config, t.secret)
    BY DEF BootstrapInv, LogInv
  <2>2. PICK k \in apiKeys :
          /\ k.prefix = t.config.prefix
          /\ t.config.secret = <<>> \/ Agree(SecretOf, t.config.prefix) => k.secret = t.secret
    BY <2>1 DEF Opens
  <2>3. \A j \in apiKeys : j.prefix = k.prefix => j = k
    BY DEF BootstrapInv, KeyInv
  <2>4. /\ t.config.prefix \in Seq(STRING) /\ t.config.prefix \notin {<<>>, <<Empty>>}
        /\ t.secret \in Seq(STRING)
    BY BootstrapAssumption DEF TypeOK, Config
  <2>5. ASSUME Readable(t.config.prefix, t.secret)
        PROVE  Authenticate(t.token) =
                 IF k.secret = t.secret /\ ~k.revoked THEN {k} ELSE {}
    <3>1. Parse(t.token) = {[prefix |-> t.config.prefix, secret |-> t.secret]}
      BY <2>1, <2>4, <2>5, ParseOfReadable
    <3>2. Authenticate(t.token) =
            {j \in apiKeys : ~j.revoked /\ j.prefix = t.config.prefix /\ j.secret = t.secret}
      BY <3>1 DEF Authenticate
    <3> QED
      BY <2>2, <2>3, <3>2
  <2>6. ASSUME ~Readable(t.config.prefix, t.secret), k.secret = t.secret
        PROVE  k \notin Authenticate(t.token)
    <3>1. [prefix |-> t.config.prefix, secret |-> t.secret] \notin Parse(t.token)
      BY <2>1, <2>4, <2>6, ParseOfUnreadable
    <3> QED
      BY <2>2, <2>6, <3>1 DEF Authenticate
  <2> QED
    BY <2>2, <2>5, <2>6
<1> QED
  BY <1>1, BootstrapInvariant, PTL
=============================================================================
