----------------------------- MODULE Bootstrap -----------------------------
(***************************************************************************)
(* internal/auth: how a process that starts finds or creates the demo      *)
(* business and its API key (BootstrapDemoData, called by main of cmd/api),*)
(* and how a bearer token is matched with a key (ParseAPIKey, Middleware). *)
(* Every statement is a transaction of its own; a process may die between  *)
(* any two, and others may start meanwhile.                                *)
(*                                                                         *)
(* A text is the sequence of its words, the underscores between them left  *)
(* out; <<>> is the empty text, and so <<Empty>> is none.  White space is  *)
(* part of a word.  A key is stored with a hash of its secret, which is    *)
(* equal only for equal secrets.                                           *)
(***************************************************************************)
EXTENDS Integers, Sequences, SequencesExt

CONSTANTS
    Processes,
    Ids, Below,      \* what id generators hand out, and less than any of it
    Configs,         \* environments a process may be started with, a subset of Config
    Generated(_),    \* the word the n-th start draws from crypto/rand
    TrimLeft(_), TrimRight(_),   \* a word without white space at its beginning, its end
    MaxStarts        \* bound: starts in one execution

Empty == ""

\* What is unset is replaced, but for the secret.
Config == [name : STRING, prefix : Seq(STRING) \ {<<>>, <<Empty>>},
           secret : Seq(STRING) \ {<<Empty>>}]

ASSUME BootstrapAssumption ==
    /\ Ids \subseteq Int /\ Below \in Int /\ \A id \in Ids : Below < id
    /\ Configs \subseteq Config
    /\ MaxStarts \in Nat
    /\ \A n \in 1..MaxStarts : Generated(n) \in STRING \ {Empty}
    /\ \A m, n \in 1..MaxStarts : Generated(m) = Generated(n) => m = n
    /\ \A n \in 1..MaxStarts, c \in Configs : <<Generated(n)>> # c.secret

VARIABLES
    pc, config, secret, business, token,  \* the memory of a process
    last,            \* its id generator
    businesses, apiKeys,                  \* the tables
    log,             \* the keys the logs show, with the configuration of their start
    starts,          \* history: how many processes were started,
    used,            \*   with which configurations,
    overlap,         \*   whether one began while another was at it,
    lost             \*   and the keys with which a start died before it logged them

process == <<pc, config, secret, business, token, last>>
tables == <<businesses, apiKeys>>
history == <<starts, used, overlap, lost>>
vars == <<process, tables, log, history>>

Source == INSTANCE IdSource WITH Generators <- Processes

Down == {"down", "idTaken", "prefixTaken"}
Bootstrapping(p) == pc[p] \notin Down \cup {"up"}

(***************************************************************************)
(* Tokens.                                                                 *)
(***************************************************************************)
\* strings.TrimSpace: an underscore is no white space.
TrimSpace(t) == [t EXCEPT ![1] = TrimLeft(@), ![Len(t)] = TrimRight(@)]

\* Mutation of Parse: the first underscore separates prefix and secret.
ParseAtFirst(t) ==
    IF Len(t) < 2 THEN {}
    ELSE LET s == TrimSpace(t) IN {[prefix |-> SubSeq(s, 1, 1), secret |-> Tail(s)]}

\* ParseAPIKey: the token is trimmed, the last underscore separates prefix and secret,
\* and neither may be empty.
Parse(t) ==
    LET s == TrimSpace(t) IN
    IF Len(t) < 2 \/ s[Len(t)] = Empty \/ Front(s) = <<Empty>> THEN {}
    ELSE {[prefix |-> Front(s), secret |-> <<s[Len(t)]>>]}

\* Middleware: the key a bearer token is accepted for, if any.  It trims the token once
\* more than ParseAPIKey, which changes nothing.
Authenticate(t) ==
    {k \in apiKeys : ~k.revoked /\ [prefix |-> k.prefix, secret |-> k.secret] \in Parse(t)}

(***************************************************************************)
(* BootstrapDemoData.                                                      *)
(***************************************************************************)
Goto(p, label) == pc' = [pc EXCEPT ![p] = label]

\* Mutation of SecretFor: an unset secret is taken as it is.
SecretAsSet(c, n) == c.secret

SecretFor(c, n) == IF c.secret = <<>> THEN <<Generated(n)>> ELSE c.secret

\* main, up to the environment being read; the generator is new.
Start(p) ==
    /\ pc[p] \in Down /\ starts < MaxStarts
    /\ \E c \in Configs :
         /\ config' = [config EXCEPT ![p] = c]
         /\ secret' = [secret EXCEPT ![p] = SecretFor(c, starts + 1)]
         /\ used' = used \cup {c}
    /\ Source!Create(p)
    /\ Goto(p, "getBusiness")
    /\ starts' = starts + 1
    /\ overlap' = (overlap \/ \E q \in Processes : Bootstrapping(q))
    /\ UNCHANGED <<business, token, tables, log, lost>>

\* Mutation of BusinessesNamed: nothing is looked up before the INSERT.
NoBusinesses(p) == {}

BusinessesNamed(p) == {b \in businesses : b.name = config[p].name}

\* Nothing makes names unique: of several rows the query returns any.
GetBusinessByName(p) ==
    /\ pc[p] = "getBusiness"
    /\ \/ /\ BusinessesNamed(p) = {}
          /\ Goto(p, "createBusiness")
          /\ UNCHANGED business
       \/ \E b \in BusinessesNamed(p) :
            /\ business' = [business EXCEPT ![p] = b.id]
            /\ Goto(p, "getKey")
    /\ UNCHANGED <<config, secret, token, last, tables, log, history>>

NewBusiness(p, id) == [id |-> id, name |-> config[p].name]

CreateBusiness(p) ==
    /\ pc[p] = "createBusiness"
    /\ \E id \in Ids :
         /\ Source!Generate(p, id)
         /\ \/ /\ \E b \in businesses : b.id = id
               /\ Goto(p, "idTaken")
               /\ UNCHANGED <<businesses, business>>
            \/ /\ \A b \in businesses : b.id # id
               /\ businesses' = businesses \cup {NewBusiness(p, id)}
               /\ business' = [business EXCEPT ![p] = id]
               /\ Goto(p, "getKey")
    /\ UNCHANGED <<config, secret, token, apiKeys, log, history>>

\* Mutation of KeysFound: the key is looked up by its business.
KeysOfBusiness(p) == {k \in apiKeys : k.business = business[p]}

KeysFound(p) == {k \in apiKeys : k.prefix = config[p].prefix}

FullKey(p) == config[p].prefix \o secret[p]

\* A configured secret is returned unseen, a drawn one is not that of the row.
\* Also a mutation of KeyOfCreated: a key that was drawn is not returned.
KeyOfFound(p) == IF config[p].secret = <<>> THEN <<>> ELSE FullKey(p)

KeyOfCreated(p) == FullKey(p)

GetApiKeyByPrefix(p) ==
    /\ pc[p] = "getKey"
    /\ \/ /\ KeysFound(p) = {}
          /\ Goto(p, "createKey")
          /\ UNCHANGED token
       \/ /\ KeysFound(p) # {}
          /\ token' = [token EXCEPT ![p] = KeyOfFound(p)]
          /\ Goto(p, "log")
    /\ UNCHANGED <<config, secret, business, last, tables, log, history>>

NewKey(p, id) ==
    [id |-> id, business |-> business[p], prefix |-> config[p].prefix,
     secret |-> secret[p], revoked |-> FALSE]

\* INSERT, under the primary key and uq_api_keys_key_prefix.
CreateApiKey(p) ==
    LET prefixTaken == \E k \in apiKeys : k.prefix = config[p].prefix IN
    /\ pc[p] = "createKey"
    /\ \E id \in Ids :
         /\ Source!Generate(p, id)
         /\ \/ /\ \E k \in apiKeys : k.id = id
               /\ Goto(p, "idTaken")
               /\ UNCHANGED <<apiKeys, token>>
            \/ /\ prefixTaken
               /\ Goto(p, "prefixTaken")
               /\ UNCHANGED <<apiKeys, token>>
            \/ /\ ~prefixTaken /\ \A k \in apiKeys : k.id # id
               /\ apiKeys' = apiKeys \cup {NewKey(p, id)}
               /\ token' = [token EXCEPT ![p] = KeyOfCreated(p)]
               /\ Goto(p, "log")
    /\ UNCHANGED <<config, secret, business, businesses, log, history>>

\* slog.Info and log.Printf of the key, if there is one; then main goes on to serve.
LogKey(p) ==
    /\ pc[p] = "log"
    /\ log' = IF token[p] = <<>> THEN log
              ELSE log \cup {[token |-> token[p], config |-> config[p], secret |-> secret[p]]}
    /\ Goto(p, "up")
    /\ UNCHANGED <<config, secret, business, token, last, tables, history>>

(***************************************************************************)
(* The process ends: it is stopped or killed, or a statement fails, which  *)
(* main answers with log.Fatalf.                                           *)
(***************************************************************************)
\* The key that only p knows, between CreateApiKey and LogKey.
Unlogged(p) ==
    IF pc[p] = "log" /\ token[p] # <<>>
    THEN {[prefix |-> config[p].prefix, secret |-> secret[p]]} ELSE {}

Die(p) ==
    /\ pc[p] \notin Down
    /\ Goto(p, "down")
    /\ lost' = lost \cup Unlogged(p)
    /\ UNCHANGED <<config, secret, business, token, last, tables, log, starts, used, overlap>>

\* Nothing in the backend sets revoked_at: an operator does.
Revoke ==
    /\ \E k \in apiKeys :
         /\ ~k.revoked
         /\ apiKeys' = (apiKeys \ {k}) \cup {[k EXCEPT !.revoked = TRUE]}
    /\ UNCHANGED <<process, businesses, log, history>>

(***************************************************************************)
(* The specification.                                                      *)
(***************************************************************************)
NoConfig == [name |-> Empty, prefix |-> <<>>, secret |-> <<>>]

Init ==
    /\ pc = [p \in Processes |-> "down"]
    /\ config = [p \in Processes |-> NoConfig]
    /\ secret = [p \in Processes |-> <<>>]
    /\ business = [p \in Processes |-> Below]
    /\ token = [p \in Processes |-> <<>>]
    /\ Source!Init
    /\ businesses = {} /\ apiKeys = {} /\ log = {}
    /\ starts = 0 /\ used = {} /\ overlap = FALSE /\ lost = {}

Quiescent ==
    /\ starts = MaxStarts /\ \A p \in Processes : ~Bootstrapping(p)
    /\ UNCHANGED vars

BootstrapDemoData(p) ==
    \/ GetBusinessByName(p) \/ CreateBusiness(p)
    \/ GetApiKeyByPrefix(p) \/ CreateApiKey(p) \/ LogKey(p)

Next ==
    \/ \E p \in Processes : Start(p) \/ BootstrapDemoData(p) \/ Die(p)
    \/ Revoke
    \/ Quiescent

Spec == Init /\ [][Next]_vars

(***************************************************************************)
(* Properties.                                                             *)
(***************************************************************************)
\* Every variable stays in its type.
TypeOK ==
    /\ pc \in [Processes -> Down \cup {"getBusiness", "createBusiness", "getKey",
                                       "createKey", "log", "up"}]
    /\ config \in [Processes -> Configs \cup {NoConfig}]
    /\ secret \in [Processes -> Seq(STRING)]
    /\ business \in [Processes -> Ids \cup {Below}]
    /\ token \in [Processes -> Seq(STRING)]
    /\ last \in [Processes -> Ids \cup {Below}]
    /\ businesses \subseteq [id : Ids, name : STRING]
    /\ apiKeys \subseteq [id : Ids, business : Ids, prefix : Seq(STRING),
                          secret : Seq(STRING) \ {<<>>}, revoked : BOOLEAN]
    /\ log \subseteq [token : Seq(STRING), config : Configs, secret : Seq(STRING)]
    /\ starts \in 0..MaxStarts /\ used \subseteq Configs
    /\ overlap \in BOOLEAN
    /\ lost \subseteq [prefix : Seq(STRING), secret : Seq(STRING)]

\* Starts that share a prefix agree on what f says of them.
Agree(f(_), prefix) ==
    \A c, d \in used : c.prefix = prefix /\ d.prefix = prefix => f(c) = f(d)
NameOf(c) == c.name
SecretOf(c) == c.secret

\* Processes started one after the other share one business of a name, and its key is
\* of that business, wherever the ones before died.
SequentialStartsReuse ==
    ~overlap =>
        /\ \A a, b \in businesses : a.name = b.name => a = b
        /\ \A k \in apiKeys : Agree(NameOf, k.prefix) =>
             \E b \in businesses, c \in used :
                 b.id = k.business /\ c.prefix = k.prefix /\ b.name = c.name

\* A start is never refused by the unique prefix unless another one was at it at the
\* same time: not after a crash, a new name or a new secret.
OnlyRacesCollide == \A p \in Processes : pc[p] = "prefixTaken" => overlap

\* Cutting a token at its last underscore and trimming it give prefix and secret back.
Readable(prefix, word) ==
    Len(word) = 1 /\ TrimRight(word[1]) = word[1] /\ TrimLeft(prefix[1]) = prefix[1]

\* A key in the log has the secret of the key stored for its prefix if it was drawn, or if
\* all starts configured that secret; with that secret it opens the key until it is
\* revoked, but for white space at its ends or an underscore in the secret, with which
\* it never does; and one that can be read opens nothing else.  That plaintext keys are
\* logged is what the code does, against DATABASE.md:119 and :499.
LoggedKeyWorks ==
    \A t \in log : \E k \in apiKeys :
        LET readable == Readable(t.config.prefix, t.secret)
            same == k.secret = t.secret
        IN  /\ k.prefix = t.config.prefix
            /\ t.config.secret = <<>> \/ Agree(SecretOf, t.config.prefix) => same
            /\ readable => Authenticate(t.token) = IF same /\ ~k.revoked THEN {k} ELSE {}
            /\ ~readable /\ same => k \notin Authenticate(t.token)

\* Whoever runs the backend and reads its log knows the secret of every key: it was
\* configured, it is in the log (against DATABASE.md:119 and :499), the process that drew
\* it is about to log it, or that very process died between CreateApiKey and LogKey.
NoKeyIsLost ==
    \A k \in apiKeys :
        \/ \E c \in used : c.prefix = k.prefix /\ c.secret = k.secret
        \/ \E t \in log : t.token = k.prefix \o k.secret
        \/ \E p \in Processes : [prefix |-> k.prefix, secret |-> k.secret] \in Unlogged(p)
        \/ [prefix |-> k.prefix, secret |-> k.secret] \in lost
=============================================================================
