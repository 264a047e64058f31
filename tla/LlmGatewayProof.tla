--------------------------- MODULE LlmGatewayProof ---------------------------
(***************************************************************************)
(* What LlmGateway promises, for every number of workers, answers,          *)
(* configuration files, restarts and faults.  Three arguments share one     *)
(* local invariant: the look under the lock makes mints single-flight; a    *)
(* reply and what is owed for it come and go together; and the recordings   *)
(* under a normalised key can always be followed to an end, or a worker is  *)
(* about to record what is missing.                                        *)
(***************************************************************************)
EXTENDS LlmGateway, TLAPS

\* What every state of the gateway has besides its types: the running
\* configuration has passed load_config; only a worker that waits for an answer has
\* a request inside, and none has while the process is down; a request on its way
\* has a backend of that configuration, and a keyless one where it deals with
\* tokens; only a request that has been answered has a reply; replay mode forwards
\* nothing, and only replay mode answers with a miss.
Busy == {"token", "lock", "mint", "post"}

Proper(c) ==
  /\ ~Up => req[c] = Idle
  /\ req[c].pc # "idle" => conv[c].state = "ask"
  /\ req[c].pc \in Busy => req[c].backend \in Names(conf) /\ conf.mode # "replay"
  /\ req[c].pc \in Busy \ {"post"} => Scope(c) \in Scopes
  /\ req[c].pc # "reply" => req[c].reply = NoReply
  /\ req[c].reply.kind = "miss" => conf.mode = "replay"
  /\ conv[c].body # <<>>

Local == TypeOK /\ (Up => ConfigLoads(conf)) /\ \A c \in Clients : Proper(c)

\* A token counts as one mint, and the task that mints holds the lock of its scope
\* and has found no token there.
OneMint ==
  /\ \A s \in Scopes : minted[s] = IF token[s] THEN 1 ELSE 0
  /\ \A c \in Clients : req[c].pc = "mint" => Holds(c, Scope(c)) /\ ~token[Scope(c)]

\* The keys of normalised conversations, and the key of a body.
Norms == Seq({<<r>> : r \in Answers \cup {Opening}})
Key(body) == [i \in DOMAIN body |-> <<body[i].result>>]

\* A recorded answer can be replayed further: it ends the conversation, or the
\* request that follows it has been recorded as well.
Closed(k) ==
  \/ store[k].answer \in Final
  \/ Len(k) = MaxMessages
  \/ Append(k, <<store[k].answer>>) \in DOMAIN store

\* A worker is about to have that following request recorded: it is asking it, or
\* it has this answer and is yet to go on.
Covers(c, k) ==
  /\ conv[c].state = "ask"
  /\ \/ Key(conv[c].body) = Append(k, <<store[k].answer>>)
     \/ /\ Key(conv[c].body) = k
        /\ req[c].reply.kind = "ok" /\ req[c].reply.answer = store[k].answer

Complete ==
  ~broken => \A k \in DOMAIN store \cap Norms :
     Closed(k) \/ (Recording /\ conf.normalize /\ \E c \in Clients : Covers(c, k))

\* Where a worker's conversation is in the recordings.
Follows(c) ==
  /\ ~Up => Len(conv[c].body) = 1
  /\ Recording /\ conf.normalize /\ req[c].reply.kind = "ok"
     => Key(conv[c].body) \in DOMAIN store
  /\ Up /\ conf.mode = "replay" /\ conf.normalize =>
     /\ Len(conv[c].body) > 1 => Key(conv[c].body) \in DOMAIN store
     /\ req[c].reply.kind = "ok" =>
        /\ Key(conv[c].body) \in DOMAIN store
        /\ req[c].reply.answer = store[Key(conv[c].body)].answer
     /\ req[c].reply.kind = "miss" => Len(conv[c].body) = 1

Following == ~broken => \A c \in Clients : conv[c].state = "ask" => Follows(c)

-----------------------------------------------------------------------------
(* Operators *)

LEMMA BackendKnown ==
  ASSUME NEW f, NEW n \in Names(f)
  PROVE  Backend(f, n) \in Elements(f.backends) /\ Backend(f, n).name = n
BY DEF Names, Backend

LEMMA BackendParsed ==
  ASSUME NEW f, ConfigLoads(f), NEW n \in Names(f)
  PROVE  Backend(f, n).auth \in AuthModes
BY BackendKnown DEF ConfigLoads, BackendParses

LEMMA NamesKnown ==
  ASSUME NEW f \in Files
  PROVE  Names(f) \subseteq AllNames
BY DEF AllNames

LEMMA SelectKnown ==
  ASSUME conf \in Files, ConfigLoads(conf), NEW h \in Nat
  PROVE  Select(h) \in Names(conf)
<1> DEFINE o == conf.order
<1>1. o \in Seq({o[i] : i \in DOMAIN o}) /\ o # <<>>
  BY GatewayAssumption DEF ConfigLoads, PolicyParses
<1>2. Len(o) \in Nat /\ Len(o) # 0 /\ DOMAIN o = 1..Len(o)
  BY <1>1
<1>3. \A i \in 1..Len(o) : o[i] \in Names(conf)
  BY <1>2 DEF ConfigLoads, PolicyParses, Elements, Names
<1> QED BY <1>2, <1>3 DEF Select

LEMMA AttemptParsed ==
  ASSUME TypeOK, NEW c \in Clients
  PROVE  ParseAttempt(Header(c)) \in Nat
BY GatewayAssumption DEF TypeOK, Conversations, ParseAttempt, Header

LEMMA KeyTyped ==
  ASSUME NEW b \in Seq(Messages), b # <<>>
  PROVE  DeriveKey(b) \in Seq(KeyParts) \ {<<>>}
<1>1. Len(b) \in Nat /\ Len(b) # 0 /\ DOMAIN b = 1..Len(b) /\ \A i \in 1..Len(b) : b[i] \in Messages
  OBVIOUS
<1>2. \A m \in Messages : Kept(m) \in KeyParts
  <2> SUFFICES ASSUME NEW m \in Messages PROVE Kept(m) \in KeyParts
    OBVIOUS
  <2>1. m.result \in Answers \cup {Opening} /\ m.noise \in 0..MaxRuns
    BY DEF Messages
  <2> QED BY <2>1 DEF Kept, KeyParts
<1>3. DeriveKey(b) = [i \in 1..Len(b) |-> Kept(b[i])]
  BY <1>1 DEF DeriveKey
<1>4. DeriveKey(b) \in Seq(KeyParts) /\ Len(DeriveKey(b)) = Len(b)
  BY <1>1, <1>2, <1>3
<1> QED BY <1>4, <1>1

LEMMA EntryFound ==
  ASSUME TypeOK, NEW k, Lookup(k) # NoEntry
  PROVE  k \in DOMAIN store /\ Lookup(k) = store[k] /\ Lookup(k) \in Entries
BY DEF TypeOK, Lookup

LEMMA EntryMissing ==
  ASSUME TypeOK, NEW k, Lookup(k) = NoEntry
  PROVE  k \notin DOMAIN store
BY NoEntryAssumption DEF TypeOK, Lookup

LEMMA CostTyped == ASSUME NEW b PROVE CostOf(b) \in {1, NoCost}
BY DEF CostOf

LEMMA HitTyped ==
  ASSUME NEW e \in Entries
  PROVE  Hit(e) \in Replies /\ Hit(e).kind = "ok" /\ Hit(e).answer = e.answer /\ Hit(e).cost = 0
<1>1. Saving(e) \in BOOLEAN
  BY DEF Saving
<1>2. e.answer \in Answers /\ e.backend \in AllNames
  BY DEF Entries
<1> QED BY <1>1, <1>2 DEF Hit, Replies

LEMMA OkTyped ==
  ASSUME NEW a \in Answers, NEW n \in AllNames, NEW p \in {0, 1, NoCost}
  PROVE  [kind |-> "ok", answer |-> a, backend |-> n, cost |-> p, saved |-> FALSE] \in Replies
BY DEF Replies

LEMMA FailureTyped ==
  ASSUME NEW n \in AllNames
  PROVE  Failure(n) \in Replies /\ Failure(n).kind = "error"
BY DEF Failure, Replies

\* A request that has been answered.
LEMMA AnsweredTyped ==
  ASSUME req \in [Clients -> Requests], NEW c \in Clients, NEW r \in Replies, Answered(c, r)
  PROVE  /\ req' \in [Clients -> Requests]
         /\ req'[c] = [pc |-> "reply", backend |-> "none", reply |-> r]
         /\ \A d \in Clients \ {c} : req'[d] = req[d]
BY DEF Answered, Requests, Idle

\* A request moves on inside the gateway.
LEMMA MovedTyped ==
  ASSUME req \in [Clients -> Requests], NEW c \in Clients,
         NEW p \in {"token", "lock", "mint", "post"}, req' = [req EXCEPT ![c].pc = p]
  PROVE  /\ req' \in [Clients -> Requests]
         /\ req'[c].pc = p /\ req'[c].backend = req[c].backend /\ req'[c].reply = req[c].reply
         /\ \A d \in Clients \ {c} : req'[d] = req[d]
BY DEF Requests

LEMMA IdleTyped ==
  ASSUME req \in [Clients -> Requests], NEW c \in Clients, req' = [req EXCEPT ![c] = Idle]
  PROVE  /\ req' \in [Clients -> Requests] /\ req'[c] = Idle
         /\ \A d \in Clients \ {c} : req'[d] = req[d]
BY DEF Requests, Idle, NoReply, Replies

LEMMA IdleFields == Idle.pc = "idle" /\ Idle.reply = NoReply /\ NoReply.kind = "none" /\ Idle \in Requests
BY DEF Idle, NoReply, Requests, Replies

LEMMA ProperFrame ==
  ASSUME NEW d \in Clients, Proper(d), conf' = conf, req'[d] = req[d], conv'[d] = conv[d]
  PROVE  Proper(d)'
BY DEF Proper, Up, Scope

-----------------------------------------------------------------------------
(* The local invariant *)

LEMMA InitLocal == Init => Local
<1> SUFFICES ASSUME Init PROVE Local
  OBVIOUS
<1>1. conf = NoConf /\ store = [k \in {} |-> NoEntry] /\ DOMAIN store = {}
  BY DEF Init
<1>2. store \in [DOMAIN store -> Entries]
  BY <1>1
<1>3. Fresh(0, 0) \in Conversations /\ Fresh(0, 0).body # <<>>
  BY GatewayAssumption DEF Fresh, Conversations, Messages
<1>4. TypeOK
  <2>1. DOMAIN store \subseteq Seq(KeyParts) \ {<<>>}
    BY <1>1
  <2>2. lock \in [Scopes -> Seq(Clients)]
    BY DEF Init
  <2>3. req \in [Clients -> Requests] /\ conv \in [Clients -> Conversations]
    BY <1>3, IdleFields DEF Init
  <2>4. token \in [Scopes -> BOOLEAN] /\ minted \in [Scopes -> Nat] /\ owed \in [Clients -> Nat]
    BY DEF Init
  <2>5. runs \in 0..MaxRuns /\ faults \in 0..MaxFaults /\ starts \in 0..MaxStarts
    BY GatewayAssumption DEF Init
  <2>6. conf \in Files \cup {NoConf} /\ broken \in BOOLEAN
    BY <1>1 DEF Init
  <2> QED BY <1>2, <2>1, <2>2, <2>3, <2>4, <2>5, <2>6 DEF TypeOK
<1>5. \A c \in Clients : Proper(c)
  BY <1>1, <1>3, IdleFields DEF Init, Proper, Busy, Up
<1> QED BY <1>1, <1>4, <1>5 DEF Local, Up

LEMMA StartupLocal ==
  ASSUME Local, NEW f \in Files, Startup(f)
  PROVE  Local'
<1>1. TypeOK'
  <2>1. starts' \in 0..MaxStarts
    BY GatewayAssumption DEF Local, TypeOK, Startup
  <2>2. \/ token' = [s \in Scopes |-> FALSE] /\ minted' = [s \in Scopes |-> 0] /\ conf' = f
        \/ token' = token /\ minted' = minted /\ conf' = conf
    BY Zenon DEF Startup
  <2>3. token \in [Scopes -> BOOLEAN] /\ minted \in [Scopes -> Nat] /\ conf \in Files \cup {NoConf}
    BY DEF Local, TypeOK
  <2>4. token' \in [Scopes -> BOOLEAN]
    BY <2>2, <2>3
  <2>5. minted' \in [Scopes -> Nat] /\ conf' \in Files \cup {NoConf}
    BY <2>2, <2>3
  <2> QED BY <2>1, <2>4, <2>5 DEF Local, TypeOK, Startup
<1>2. Up' => ConfigLoads(conf')
  BY DEF Startup, Up
<1>3. \A c \in Clients : Proper(c)'
  BY IdleFields DEF Local, Startup, Proper, Busy, Up
<1> QED BY <1>1, <1>2, <1>3 DEF Local

LEMMA StopLocal ==
  ASSUME Local, Stop
  PROVE  Local'
<1>1. TypeOK'
  BY IdleFields DEF Local, TypeOK, Stop, bounds
<1>2. \A c \in Clients : Proper(c)'
  BY IdleFields DEF Local, Stop, Proper, Busy, Up
<1> QED BY <1>1, <1>2 DEF Local, Stop, Up

LEMMA ExpireLocal ==
  ASSUME Local, NEW s \in Scopes, Expire(s)
  PROVE  Local'
<1>1. TypeOK'
  <2>1. faults' \in 0..MaxFaults
    BY GatewayAssumption DEF Local, TypeOK, Expire
  <2>2. token' \in [Scopes -> BOOLEAN] /\ minted' \in [Scopes -> Nat]
    BY DEF Local, TypeOK, Expire
  <2> QED BY <2>1, <2>2 DEF Local, TypeOK, Expire
<1>2. \A c \in Clients : Proper(c)'
  BY ProperFrame DEF Local, Expire
<1> QED BY <1>1, <1>2 DEF Local, Expire, Up

\* A cache error, or what the cache held, decides between three things.
LEMMA HandleLocal ==
  ASSUME Local, Up, NEW c \in Clients, req[c].pc = "idle", conv[c].state = "ask",
         NEW e \in Entries \cup {NoEntry}, Handle(c, Header(c), e),
         UNCHANGED <<conf, conv>>
  PROVE  req' \in [Clients -> Requests] /\ \A d \in Clients : Proper(d)'
<1>1. req \in [Clients -> Requests] /\ conf \in Files /\ ConfigLoads(conf)
  BY DEF Local, TypeOK, Up
<1>2. Proper(c)
  BY DEF Local
<1>3. CASE e # NoEntry /\ Answered(c, Hit(e))
  <2>1. /\ req' \in [Clients -> Requests]
        /\ req'[c] = [pc |-> "reply", backend |-> "none", reply |-> Hit(e)]
        /\ \A d \in Clients \ {c} : req'[d] = req[d]
    BY <1>1, <1>3, HitTyped, AnsweredTyped
  <2>2. Proper(c)'
    BY <2>1, <1>2, <1>3, HitTyped DEF Proper, Busy, Up
  <2> QED BY <2>1, <2>2, ProperFrame DEF Local
<1>4. CASE e = NoEntry /\ conf.mode = "replay" /\ Answered(c, Miss409)
  <2>1. /\ req' \in [Clients -> Requests]
        /\ req'[c] = [pc |-> "reply", backend |-> "none", reply |-> Miss409]
        /\ \A d \in Clients \ {c} : req'[d] = req[d]
    BY <1>1, <1>4, AnsweredTyped DEF Replies
  <2>2. Proper(c)'
    BY <2>1, <1>2, <1>4 DEF Proper, Busy, Up
  <2> QED BY <2>1, <2>2, ProperFrame DEF Local
<1>5. CASE e = NoEntry /\ (Caching => conf.mode # "replay") /\ Forward(c, Header(c))
  <2> DEFINE b == Select(ParseAttempt(Header(c)))
             p == IF Backend(conf, b).auth \in Keyless THEN "token" ELSE "post"
  <2>1. b \in Names(conf) /\ b \in AllNames
    BY <1>1, SelectKnown, AttemptParsed, NamesKnown DEF Local
  <2>2. req' = [req EXCEPT ![c] = [pc |-> p, backend |-> b, reply |-> NoReply]]
    BY <1>5 DEF Forward
  <2> HIDE DEF b
  <2>3. /\ req' \in [Clients -> Requests]
        /\ req'[c] = [pc |-> p, backend |-> b, reply |-> NoReply]
        /\ \A d \in Clients \ {c} : req'[d] = req[d]
    BY <1>1, <2>1, <2>2 DEF Requests, Replies
  <2>4. conf.mode # "replay"
    BY <1>5 DEF Caching
  <2>5. p = "token" => Backend(conf, b).auth \in Scopes
    BY DEF Keyless, Scopes
  <2>6. Proper(c)'
    BY <2>1, <2>3, <2>4, <2>5, <1>2 DEF Proper, Busy, Up, Scope, NoReply
  <2> QED BY <2>3, <2>6, ProperFrame DEF Local
<1> QED BY <1>3, <1>4, <1>5 DEF Handle

LEMMA RequestLocal ==
  ASSUME Local, NEW c \in Clients, Request(c)
  PROVE  Local'
<1>1. PICK e \in Entries \cup {NoEntry} : Handle(c, Header(c), e)
  BY EntryFound DEF Request, Local
<1>2. req' \in [Clients -> Requests] /\ \A d \in Clients : Proper(d)'
  BY <1>1, HandleLocal DEF Request
<1>3. TypeOK'
  <2>1. faults' \in 0..MaxFaults /\ broken' \in BOOLEAN
    <3>1. \/ faults' = faults /\ broken' = broken
          \/ faults < MaxFaults /\ faults' = faults + 1 /\ broken' = TRUE
      BY Zenon DEF Request
    <3>2. faults' \in 0..MaxFaults
      BY <3>1, GatewayAssumption DEF Local, TypeOK
    <3>3. broken' \in BOOLEAN
      BY <3>1, Zenon DEF Local, TypeOK
    <3> QED BY <3>2, <3>3
  <2> QED BY <1>2, <2>1 DEF Local, TypeOK, Request
<1> QED BY <1>2, <1>3 DEF Local, Request, Up

LEMMA BusyFacts ==
  ASSUME Local, NEW c \in Clients, req[c].pc \in Busy
  PROVE  /\ Up /\ conf \in Files /\ ConfigLoads(conf) /\ conv[c].state = "ask"
         /\ req[c].reply = NoReply /\ req[c].reply.kind = "none"
         /\ req[c].backend \in Names(conf) /\ req[c].backend \in AllNames
         /\ conf.mode # "replay"
<1>1. Proper(c)
  BY DEF Local
<1>2. Up /\ conf \in Files
  BY <1>1, IdleFields DEF Proper, Busy, Local, TypeOK, Up
<1> QED BY <1>1, <1>2, IdleFields, NamesKnown DEF Proper, Busy, Local

\* A request that only moves on stays proper.
LEMMA MovedLocal ==
  ASSUME Local, NEW c \in Clients, NEW p \in Busy, req[c].pc \in Busy \ {"post"},
         req' = [req EXCEPT ![c].pc = p], UNCHANGED <<conf, conv>>
  PROVE  req' \in [Clients -> Requests] /\ \A d \in Clients : Proper(d)'
<1>1. /\ req' \in [Clients -> Requests]
      /\ req'[c].pc = p /\ req'[c].backend = req[c].backend /\ req'[c].reply = req[c].reply
      /\ \A d \in Clients \ {c} : req'[d] = req[d]
  BY MovedTyped DEF Local, TypeOK, Busy
<1>2. Proper(c)'
  BY <1>1, BusyFacts DEF Local, Proper, Busy, Up, Scope
<1> QED BY <1>1, <1>2, ProperFrame DEF Local

LEMMA FailedLocal ==
  ASSUME Local, NEW c \in Clients, req[c].pc \in Busy, Failed(c), UNCHANGED <<conf, conv>>
  PROVE  /\ req' \in [Clients -> Requests] /\ \A d \in Clients : Proper(d)'
         /\ req'[c].pc = "reply" /\ req'[c].reply.kind = "error"
         /\ \A d \in Clients \ {c} : req'[d] = req[d]
<1>1. Failure(req[c].backend) \in Replies /\ Failure(req[c].backend).kind = "error"
  BY BusyFacts, FailureTyped
<1>2. /\ req' \in [Clients -> Requests]
      /\ req'[c] = [pc |-> "reply", backend |-> "none", reply |-> Failure(req[c].backend)]
      /\ \A d \in Clients \ {c} : req'[d] = req[d]
  BY <1>1, AnsweredTyped DEF Local, TypeOK, Failed
<1>3. Proper(c)'
  BY <1>1, <1>2, BusyFacts DEF Local, Proper, Busy, Up
<1> QED BY <1>1, <1>2, <1>3, ProperFrame DEF Local

LEMMA GetTokenLocal ==
  ASSUME Local, NEW c \in Clients, GetToken(c)
  PROVE  Local'
<1>1. PICK p \in Busy : req' = [req EXCEPT ![c].pc = p]
  BY DEF GetToken, Busy
<1>2. req[c].pc \in Busy \ {"post"} /\ UNCHANGED <<conf, conv>>
  BY DEF GetToken, Busy
<1>3. req' \in [Clients -> Requests] /\ \A d \in Clients : Proper(d)'
  BY <1>1, <1>2, MovedLocal
<1>4. Scope(c) \in Scopes
  BY <1>2 DEF Local, Proper
<1>5. lock' \in [Scopes -> Seq(Clients)]
  <2>1. lock \in [Scopes -> Seq(Clients)]
    BY DEF Local, TypeOK
  <2>2. lock' = lock \/ lock' = [lock EXCEPT ![Scope(c)] = Append(@, c)]
    BY DEF GetToken
  <2>3. Append(lock[Scope(c)], c) \in Seq(Clients)
    BY <1>4, <2>1
  <2> QED BY <2>1, <2>2, <2>3
<1>6. TypeOK'
  BY <1>3, <1>5 DEF Local, TypeOK, GetToken, bounds, ghosts
<1> QED BY <1>2, <1>3, <1>6 DEF Local, Up

LEMMA ReleasedTyped ==
  ASSUME lock \in [Scopes -> Seq(Clients)], NEW s \in Scopes, lock[s] # <<>>, Released(s)
  PROVE  lock' \in [Scopes -> Seq(Clients)]
BY DEF Released

LEMMA LockedLocal ==
  ASSUME Local, NEW c \in Clients, Locked(c)
  PROVE  Local'
<1>1. PICK p \in Busy : req' = [req EXCEPT ![c].pc = p]
  BY DEF Locked, Busy
<1>2. req[c].pc \in Busy \ {"post"} /\ UNCHANGED <<conf, conv>>
  BY DEF Locked, Busy
<1>3. req' \in [Clients -> Requests] /\ \A d \in Clients : Proper(d)'
  BY <1>1, <1>2, MovedLocal
<1>4. Scope(c) \in Scopes
  BY <1>2 DEF Local, Proper
<1>5. lock' \in [Scopes -> Seq(Clients)]
  BY <1>4, ReleasedTyped DEF Locked, Holds, Local, TypeOK
<1>6. TypeOK'
  BY <1>3, <1>5 DEF Local, TypeOK, Locked, bounds, ghosts
<1> QED BY <1>2, <1>3, <1>6 DEF Local, Up

LEMMA MintedLocal ==
  ASSUME Local, NEW c \in Clients, Minted(c), lock[Scope(c)] # <<>>
  PROVE  Local'
<1>1. req' = [req EXCEPT ![c].pc = "post"] /\ "post" \in Busy
  BY DEF Minted, Busy
<1>2. req[c].pc \in Busy \ {"post"} /\ UNCHANGED <<conf, conv>>
  BY DEF Minted, Busy
<1>3. req' \in [Clients -> Requests] /\ \A d \in Clients : Proper(d)'
  BY <1>1, <1>2, MovedLocal
<1>4. Scope(c) \in Scopes
  BY <1>2 DEF Local, Proper
<1>5. lock' \in [Scopes -> Seq(Clients)]
  BY <1>4, ReleasedTyped DEF Minted, Local, TypeOK
<1>6. minted' \in [Scopes -> Nat]
  BY <1>4 DEF Minted, Local, TypeOK
<1>7. TypeOK'
  BY <1>3, <1>5, <1>6 DEF Local, TypeOK, Minted, bounds
<1> QED BY <1>2, <1>3, <1>7 DEF Local, Up

LEMMA MintFailsLocal ==
  ASSUME Local, NEW c \in Clients, MintFails(c), lock[Scope(c)] # <<>>
  PROVE  Local'
<1>1. req[c].pc \in Busy \ {"post"} /\ UNCHANGED <<conf, conv>> /\ Failed(c)
  BY DEF MintFails, Busy
<1>2. req' \in [Clients -> Requests] /\ \A d \in Clients : Proper(d)'
  BY <1>1, FailedLocal
<1>3. Scope(c) \in Scopes
  BY <1>1 DEF Local, Proper
<1>4. lock' \in [Scopes -> Seq(Clients)]
  BY <1>3, ReleasedTyped DEF MintFails, Local, TypeOK
<1>5. faults' \in 0..MaxFaults
  BY GatewayAssumption DEF MintFails, Local, TypeOK
<1>6. TypeOK'
  BY <1>2, <1>4, <1>5 DEF Local, TypeOK, MintFails, ghosts
<1> QED BY <1>1, <1>2, <1>6 DEF Local, Up

LEMMA PostFailsLocal ==
  ASSUME Local, NEW c \in Clients, PostFails(c)
  PROVE  Local'
<1>1. req[c].pc \in Busy /\ UNCHANGED <<conf, conv>> /\ Failed(c)
  BY DEF PostFails, Busy
<1>2. req' \in [Clients -> Requests] /\ \A d \in Clients : Proper(d)'
  BY <1>1, FailedLocal
<1>3. faults' \in 0..MaxFaults
  <2>1. faults' = faults \/ (faults < MaxFaults /\ faults' = faults + 1)
    BY Zenon DEF PostFails
  <2> QED BY <2>1, GatewayAssumption DEF Local, TypeOK
<1>4. TypeOK'
  BY <1>2, <1>3 DEF Local, TypeOK, PostFails, ghosts
<1> QED BY <1>1, <1>2, <1>4 DEF Local, Up

\* What a backend's answer is turned into.
Served(c, a) ==
  [kind |-> "ok", answer |-> a, backend |-> req[c].backend,
   cost |-> CostOf(Backend(conf, req[c].backend)), saved |-> FALSE]

LEMMA PostOkReply ==
  ASSUME Local, NEW c \in Clients, NEW a \in Answers, PostOk(c, a)
  PROVE  /\ req' \in [Clients -> Requests] /\ \A d \in Clients : Proper(d)'
         /\ req'[c] = [pc |-> "reply", backend |-> "none", reply |-> Served(c, a)]
         /\ req'[c].pc = "reply" /\ req'[c].reply = Served(c, a)
         /\ \A d \in Clients \ {c} : req'[d] = req[d]
<1>1. req[c].pc \in Busy /\ UNCHANGED <<conf, conv>> /\ Answered(c, Served(c, a))
  BY DEF PostOk, Busy, Served
<1>2. Served(c, a) \in Replies /\ Served(c, a).kind = "ok"
  BY <1>1, BusyFacts, CostTyped, OkTyped DEF Served
<1>3. /\ req' \in [Clients -> Requests]
      /\ req'[c] = [pc |-> "reply", backend |-> "none", reply |-> Served(c, a)]
      /\ \A d \in Clients \ {c} : req'[d] = req[d]
  BY <1>1, <1>2, AnsweredTyped DEF Local, TypeOK
<1>4. Proper(c)'
  BY <1>1, <1>2, <1>3, BusyFacts DEF Local, Proper, Busy, Up
<1> QED BY <1>1, <1>3, <1>4, ProperFrame DEF Local

\* Cache.put keeps every other row.
LEMMA PutKeeps ==
  ASSUME DOMAIN store \subseteq Seq(KeyParts) \ {<<>>}, store \in [DOMAIN store -> Entries],
         NEW k \in Seq(KeyParts) \ {<<>>}, NEW e \in Entries, Put(k, e)
  PROVE  /\ DOMAIN store' = DOMAIN store \cup {k}
         /\ DOMAIN store' \subseteq Seq(KeyParts) \ {<<>>} /\ store' \in [DOMAIN store' -> Entries]
         /\ store'[k] = e
         /\ \A l \in DOMAIN store \ {k} : store'[l] = store[l]
BY DEF Put

LEMMA PostOkStores ==
  ASSUME Local, NEW c \in Clients, NEW a \in Answers, PostOk(c, a)
  PROVE  \/ /\ Recording /\ broken' = broken /\ faults' = faults
            /\ Put(DeriveKey(conv[c].body), [answer |-> a, backend |-> req[c].backend])
         \/ Recording /\ broken' = TRUE /\ store' = store /\ faults < MaxFaults /\ faults' = faults + 1
         \/ ~Recording /\ broken' = broken /\ store' = store /\ faults' = faults
BY Zenon DEF PostOk

LEMMA PostOkEntry ==
  ASSUME Local, NEW c \in Clients, NEW a \in Answers, PostOk(c, a)
  PROVE  /\ DeriveKey(conv[c].body) \in Seq(KeyParts) \ {<<>>}
         /\ [answer |-> a, backend |-> req[c].backend] \in Entries
<1>1. req[c].pc \in Busy
  BY DEF PostOk, Busy
<1>2. conv[c].body \in Seq(Messages) /\ conv[c].body # <<>>
  BY DEF Local, TypeOK, Conversations, Proper
<1> QED BY <1>1, <1>2, BusyFacts, KeyTyped DEF Entries

LEMMA PostOkLocal ==
  ASSUME Local, NEW c \in Clients, NEW a \in Answers, PostOk(c, a)
  PROVE  Local'
<1>1. DOMAIN store' \subseteq Seq(KeyParts) \ {<<>>} /\ store' \in [DOMAIN store' -> Entries]
  BY PostOkStores, PostOkEntry, PutKeeps DEF Local, TypeOK
<1>2. faults' \in 0..MaxFaults
  <2>1. faults' = faults \/ (faults < MaxFaults /\ faults' = faults + 1)
    BY PostOkStores, Zenon
  <2> QED BY <2>1, GatewayAssumption DEF Local, TypeOK
<1>3. broken' \in BOOLEAN
  BY PostOkStores, Zenon DEF Local, TypeOK
<1>4. owed' \in [Clients -> Nat]
  <2> DEFINE p == CostOf(Backend(conf, req[c].backend))
             n == IF p = NoCost THEN 0 ELSE p
  <2>1. n \in Nat
    BY CostTyped
  <2>2. owed' = [owed EXCEPT ![c] = owed[c] + n]
    BY DEF PostOk
  <2> QED BY <2>1, <2>2 DEF Local, TypeOK
<1>5. TypeOK'
  BY <1>1, <1>2, <1>3, <1>4, PostOkReply DEF Local, TypeOK, PostOk
<1> QED BY <1>5, PostOkReply DEF Local, PostOk, Up

\* A reply is for a worker that asks, of a process that runs.
LEMMA ReplyFacts ==
  ASSUME Local, NEW c \in Clients, req[c].pc = "reply"
  PROVE  Up /\ conf \in Files /\ conv[c].state = "ask" /\ conv[c].body \in Seq(Messages)
         /\ conv[c] \in Conversations
<1>1. Proper(c)
  BY DEF Local
<1>2. Up
  BY <1>1, IdleFields DEF Proper
<1> QED BY <1>1, <1>2 DEF Proper, Local, TypeOK, Up, Conversations

\* The body the worker goes on with.
Longer(c, a) == Append(conv[c].body, [answer |-> a, result |-> a, noise |-> runs])

LEMMA LongerTyped ==
  ASSUME TypeOK, NEW c \in Clients, NEW a \in Answers
  PROVE  Longer(c, a) \in Seq(Messages) /\ Longer(c, a) # <<>>
         /\ Len(Longer(c, a)) = Len(conv[c].body) + 1
<1>1. conv[c].body \in Seq(Messages)
  BY DEF TypeOK, Conversations
<1>2. [answer |-> a, result |-> a, noise |-> runs] \in Messages
  BY DEF TypeOK, Messages
<1> QED BY <1>1, <1>2 DEF Longer

LEMMA ProceedsCases ==
  ASSUME TypeOK, NEW c \in Clients, NEW a \in Answers, Proceeds(c, a)
  PROVE  /\ \/ /\ a \in Final \/ Len(conv[c].body) = MaxMessages
               /\ conv'[c] = [conv[c] EXCEPT !.state = "done"]
            \/ /\ a \notin Final /\ Len(conv[c].body) # MaxMessages
               /\ conv'[c] = [conv[c] EXCEPT !.body = Longer(c, a)]
         /\ \A d \in Clients \ {c} : conv'[d] = conv[d]
         /\ conv' \in [Clients -> Conversations]
<1>1. conv \in [Clients -> Conversations]
  BY DEF TypeOK
<1>2. CASE a \in Final \/ Len(conv[c].body) = MaxMessages
  <2>1. conv' = [conv EXCEPT ![c] = [conv[c] EXCEPT !.state = "done"]]
    BY <1>2 DEF Proceeds
  <2>2. [conv[c] EXCEPT !.state = "done"] \in Conversations
    BY <1>1 DEF Conversations
  <2> QED BY <1>1, <1>2, <2>1, <2>2
<1>3. CASE ~(a \in Final \/ Len(conv[c].body) = MaxMessages)
  <2>1. conv' = [conv EXCEPT ![c] = [conv[c] EXCEPT !.body = Longer(c, a)]]
    <3>1. conv' = [conv EXCEPT ![c] = IF a \in Final \/ Len(conv[c].body) = MaxMessages
                                     THEN [conv[c] EXCEPT !.state = "done"]
                                     ELSE [conv[c] EXCEPT !.body = Longer(c, a)]]
      BY Zenon DEF Proceeds, Longer
    <3> QED BY <1>3, <3>1
  <2>2. [conv[c] EXCEPT !.body = Longer(c, a)] \in Conversations
    BY <1>1, LongerTyped DEF Conversations
  <2> QED BY <1>1, <1>3, <2>1, <2>2
<1> QED BY <1>2, <1>3

LEMMA OkReply ==
  ASSUME NEW r \in Replies, r.kind = "ok"
  PROVE  r.answer \in Answers /\ r.cost \in {0, 1, NoCost}
BY DEF Replies, NoReply, Miss409

\* A worker that is done with a reply is idle.
LEMMA IdleProper ==
  ASSUME NEW c \in Clients, req'[c] = Idle, conv'[c].body # <<>>
  PROVE  Proper(c)'
BY IdleFields DEF Proper, Busy

LEMMA ReceiveLocal ==
  ASSUME Local, HonestBill, NEW c \in Clients, Receive(c)
  PROVE  Local'
<1> DEFINE r == req[c].reply
<1>1. req[c].pc = "reply" /\ r.kind = "ok" /\ req' = [req EXCEPT ![c] = Idle]
      /\ Debited(c, r) /\ Proceeds(c, r.answer) /\ conf' = conf
  BY DEF Receive
<1>2. r \in Replies /\ r.answer \in Answers /\ r.cost \in {0, 1, NoCost}
  BY <1>1, OkReply DEF Local, TypeOK, Requests
<1>3. /\ req' \in [Clients -> Requests] /\ req'[c] = Idle
      /\ \A d \in Clients \ {c} : req'[d] = req[d]
  BY <1>1, IdleTyped DEF Local, TypeOK
<1>4. owed' \in [Clients -> Nat]
  <2> DEFINE n == IF r.cost = NoCost THEN 0 ELSE r.cost
  <2>1. owed' = [owed EXCEPT ![c] = owed[c] - n]
    BY <1>1 DEF Debited
  <2>2. owed[c] = n
    BY <1>1 DEF HonestBill
  <2>3. n \in Nat
    BY <1>2
  <2> QED BY <2>1, <2>2, <2>3 DEF Local, TypeOK
<1>5. conv' \in [Clients -> Conversations] /\ conv'[c].body # <<>>
      /\ \A d \in Clients \ {c} : conv'[d] = conv[d]
  <2>1. conv[c] \in Conversations /\ conv[c].body # <<>>
    BY DEF Local, TypeOK, Proper
  <2>2. Longer(c, r.answer) # <<>>
    BY <1>2, LongerTyped DEF Local
  <2>3. /\ \/ conv'[c] = [conv[c] EXCEPT !.state = "done"]
           \/ conv'[c] = [conv[c] EXCEPT !.body = Longer(c, r.answer)]
        /\ \A d \in Clients \ {c} : conv'[d] = conv[d]
        /\ conv' \in [Clients -> Conversations]
    BY <1>1, <1>2, ProceedsCases DEF Local
  <2> QED BY <2>1, <2>2, <2>3 DEF Conversations
<1>6. \A d \in Clients : Proper(d)'
  BY <1>1, <1>3, <1>5, IdleProper, ProperFrame DEF Local
<1>7. TypeOK'
  BY <1>3, <1>4, <1>5 DEF Local, TypeOK, Receive, bounds
<1> QED BY <1>1, <1>6, <1>7 DEF Local, Up

\* The state of a conversation changes, and its body does not.
LEMMA EndedTyped ==
  ASSUME conv \in [Clients -> Conversations], NEW c \in Clients,
         NEW s \in {"done", "failed", "gap"}, conv' = [conv EXCEPT ![c].state = s]
  PROVE  /\ conv' \in [Clients -> Conversations]
         /\ conv'[c].state = s /\ conv'[c].body = conv[c].body
         /\ \A d \in Clients \ {c} : conv'[d] = conv[d]
BY DEF Conversations

LEMMA ReceiveErrorLocal ==
  ASSUME Local, NEW c \in Clients, ReceiveError(c)
  PROVE  Local'
<1>1. req[c].pc = "reply" /\ req' = [req EXCEPT ![c] = Idle] /\ conf' = conf
      /\ (conv' = conv \/ conv' = [conv EXCEPT ![c].state = "failed"])
  BY Zenon DEF ReceiveError
<1>2. /\ req' \in [Clients -> Requests] /\ req'[c] = Idle
      /\ \A d \in Clients \ {c} : req'[d] = req[d]
  BY <1>1, IdleTyped DEF Local, TypeOK
<1>3. conv' \in [Clients -> Conversations] /\ conv'[c].body = conv[c].body
      /\ \A d \in Clients \ {c} : conv'[d] = conv[d]
  BY <1>1, EndedTyped DEF Local, TypeOK
<1>4. \A d \in Clients : Proper(d)'
  BY <1>1, <1>2, <1>3, IdleProper, ProperFrame DEF Local, Proper
<1>5. broken' \in BOOLEAN
  <2>1. broken' = broken \/ broken' = (broken \/ Recording)
    BY Zenon DEF ReceiveError, CutsShort
  <2> QED BY <2>1, Zenon DEF Local, TypeOK
<1>6. TypeOK'
  BY <1>2, <1>3, <1>5 DEF Local, TypeOK, ReceiveError, bounds
<1> QED BY <1>1, <1>4, <1>6 DEF Local, Up

LEMMA ReceiveMissLocal ==
  ASSUME Local, NEW c \in Clients, ReceiveMiss(c)
  PROVE  Local'
<1>1. req[c].pc = "reply" /\ req' = [req EXCEPT ![c] = Idle] /\ conf' = conf
      /\ conv' = [conv EXCEPT ![c].state = "gap"]
  BY DEF ReceiveMiss
<1>2. /\ req' \in [Clients -> Requests] /\ req'[c] = Idle
      /\ \A d \in Clients \ {c} : req'[d] = req[d]
  BY <1>1, IdleTyped DEF Local, TypeOK
<1>3. conv' \in [Clients -> Conversations] /\ conv'[c].body = conv[c].body
      /\ \A d \in Clients \ {c} : conv'[d] = conv[d]
  BY <1>1, EndedTyped DEF Local, TypeOK
<1>4. \A d \in Clients : Proper(d)'
  BY <1>1, <1>2, <1>3, IdleProper, ProperFrame DEF Local, Proper
<1>5. TypeOK'
  BY <1>2, <1>3 DEF Local, TypeOK, ReceiveMiss, bounds, ghosts
<1> QED BY <1>1, <1>4, <1>5 DEF Local, Up

LEMMA UnreachableLocal ==
  ASSUME Local, NEW c \in Clients, Unreachable(c)
  PROVE  Local'
<1>1. ~Up /\ req[c] = Idle /\ conv' = [conv EXCEPT ![c].state = "failed"] /\ UNCHANGED gateway
  BY DEF Unreachable, Local, Proper
<1>2. conv' \in [Clients -> Conversations] /\ conv'[c].body = conv[c].body
      /\ \A d \in Clients \ {c} : conv'[d] = conv[d]
  BY <1>1, EndedTyped DEF Local, TypeOK
<1>3. \A d \in Clients : Proper(d)'
  BY <1>1, <1>2, IdleProper, ProperFrame DEF Local, Proper, gateway
<1>4. TypeOK'
  BY <1>2 DEF Local, TypeOK, Unreachable, gateway, bounds, ghosts
<1> QED BY <1>1, <1>3, <1>4 DEF Local, Up, gateway

\* A conversation that begins anew was over before.
LEMMA AnewFacts ==
  ASSUME Local, NEW c \in Clients, NextAttempt(c) \/ NewRun(c)
  PROVE  /\ conv[c].state # "ask" /\ req[c].pc = "idle" /\ req[c].reply = NoReply
         /\ runs' \in 0..MaxRuns
         /\ conv' \in [Clients -> Conversations]
         /\ conv'[c].state = "ask" /\ Len(conv'[c].body) = 1 /\ conv'[c].body # <<>>
         /\ \A d \in Clients \ {c} : conv'[d] = conv[d]
         /\ UNCHANGED <<gateway, starts, faults, ghosts>>
<1>1. conv[c].state # "ask" /\ req[c].pc = "idle" /\ req[c].reply = NoReply
  BY DEF NextAttempt, NewRun, Local, Proper
<1>2. runs' \in 0..MaxRuns /\ UNCHANGED <<gateway, starts, faults, ghosts>>
  BY GatewayAssumption DEF NextAttempt, NewRun, Local, TypeOK, ghosts
<1>3. \E n \in 0..MaxAttempt : conv' = [conv EXCEPT ![c] = Fresh(n, runs')]
  <2>1. CASE NextAttempt(c)
    <3>1. conv' = [conv EXCEPT ![c] = Fresh(conv[c].attempt + 1, runs')]
      BY <2>1 DEF NextAttempt
    <3>2. conv[c].attempt + 1 \in 0..MaxAttempt
      BY <2>1, GatewayAssumption DEF NextAttempt, Local, TypeOK, Conversations
    <3> QED BY <3>1, <3>2
  <2>2. CASE NewRun(c)
    <3>1. conv' = [conv EXCEPT ![c] = Fresh(0, runs')]
      BY <2>2 DEF NewRun
    <3>2. 0 \in 0..MaxAttempt
      BY GatewayAssumption
    <3> QED BY <3>1, <3>2
  <2> QED BY <2>1, <2>2
<1>4. PICK n \in 0..MaxAttempt : conv' = [conv EXCEPT ![c] = Fresh(n, runs')]
  BY <1>3
<1>5. Fresh(n, runs') \in Conversations /\ Fresh(n, runs').state = "ask"
      /\ Len(Fresh(n, runs').body) = 1 /\ Fresh(n, runs').body # <<>>
  BY <1>2 DEF Fresh, Conversations, Messages
<1> QED BY <1>1, <1>2, <1>4, <1>5 DEF Local, TypeOK

LEMMA AnewLocal ==
  ASSUME Local, NEW c \in Clients, NextAttempt(c) \/ NewRun(c)
  PROVE  Local'
<1>1. \A d \in Clients \ {c} : Proper(d)'
  BY AnewFacts, ProperFrame DEF Local, gateway
<1>2. Proper(c)'
  BY AnewFacts, IdleFields DEF Local, Proper, gateway, Busy, Up
<1>3. TypeOK'
  BY AnewFacts DEF Local, TypeOK, gateway, ghosts
<1> QED BY <1>1, <1>2, <1>3, AnewFacts DEF Local, gateway, Up

-----------------------------------------------------------------------------
(* Single-flight mints *)

\* Who only answers, asks or reads leaves the tokens and the mints alone.
LEMMA MintFrame ==
  ASSUME OneMint, UNCHANGED <<conf, token, lock, minted>>,
         \A d \in Clients : req'[d].pc = "mint" => req'[d] = req[d]
  PROVE  OneMint'
BY DEF OneMint, Holds, Scope

LEMMA ScopeKnown ==
  ASSUME Local, NEW d \in Clients, req[d].pc \in Busy \ {"post"}
  PROVE  Scope(d) \in Scopes
BY DEF Local, Proper

LEMMA InitMint == Init => OneMint
BY IdleFields DEF Init, OneMint

LEMMA StartupMint ==
  ASSUME Local, OneMint, NEW f \in Files, Startup(f)
  PROVE  OneMint'
<1>1. \A d \in Clients : req'[d].pc = "idle"
  BY IdleFields DEF Startup, Local, Proper
<1>2. \A s \in Scopes : minted'[s] = IF token'[s] THEN 1 ELSE 0
  <2>1. \/ token' = [s \in Scopes |-> FALSE] /\ minted' = [s \in Scopes |-> 0]
        \/ token' = token /\ minted' = minted
    BY Zenon DEF Startup
  <2> QED BY <2>1 DEF OneMint
<1> QED BY <1>1, <1>2 DEF OneMint

LEMMA StopMint ==
  ASSUME OneMint, Stop
  PROVE  OneMint'
BY IdleFields DEF OneMint, Stop

LEMMA ExpireMint ==
  ASSUME Local, OneMint, NEW s \in Scopes, Expire(s)
  PROVE  OneMint'
<1>1. token' = [token EXCEPT ![s] = FALSE] /\ minted' = [minted EXCEPT ![s] = 0]
      /\ UNCHANGED <<conf, lock, req>>
  BY DEF Expire
<1>2. \A t \in Scopes : minted'[t] = IF token'[t] THEN 1 ELSE 0
  BY <1>1 DEF OneMint, Local, TypeOK
<1>3. ASSUME NEW d \in Clients, req'[d].pc = "mint"
      PROVE  Holds(d, Scope(d))' /\ ~token'[Scope(d)']
  <2>1. Scope(d)' = Scope(d) /\ req[d].pc = "mint" /\ Scope(d) \in Scopes
    BY <1>1, <1>3, ScopeKnown DEF Scope, Busy
  <2> QED BY <1>1, <2>1 DEF OneMint, Holds, Local, TypeOK
<1> QED BY <1>2, <1>3 DEF OneMint

LEMMA GetTokenMint ==
  ASSUME Local, OneMint, NEW c \in Clients, GetToken(c)
  PROVE  OneMint'
<1> DEFINE s == Scope(c)
<1>1. s \in Scopes /\ UNCHANGED <<conf, token, minted>>
  BY ScopeKnown DEF GetToken, Busy, ghosts
<1>2. PICK p \in {"post", "lock"} : req' = [req EXCEPT ![c].pc = p]
  BY DEF GetToken
<1>3. lock' = lock \/ lock' = [lock EXCEPT ![s] = Append(lock[s], c)]
  BY DEF GetToken
<1>4. req'[c].pc = p /\ \A d \in Clients \ {c} : req'[d] = req[d]
  BY <1>2, MovedTyped DEF Local, TypeOK
<1> HIDE DEF s
<1>5. ASSUME NEW d \in Clients, NEW t \in Scopes, Holds(d, t)
      PROVE  lock'[t] # <<>> /\ Head(lock'[t]) = d
  <2>1. lock \in [Scopes -> Seq(Clients)] /\ lock[t] # <<>> /\ Head(lock[t]) = d
    BY <1>5 DEF Local, TypeOK, Holds
  <2>2. \A q \in Seq(Clients) : q # <<>> => Append(q, c) # <<>> /\ Head(Append(q, c)) = Head(q)
    OBVIOUS
  <2>3. lock'[t] = lock[t] \/ lock'[t] = Append(lock[t], c)
    BY <1>1, <1>3, <2>1
  <2>4. lock[t] \in Seq(Clients)
    BY <2>1
  <2> QED BY <2>1, <2>2, <2>3, <2>4
<1>6. ASSUME NEW d \in Clients, req'[d].pc = "mint"
      PROVE  Holds(d, Scope(d))' /\ ~token'[Scope(d)']
  <2>1. d # c /\ req'[d] = req[d] /\ Scope(d)' = Scope(d)
    BY <1>1, <1>4, <1>6 DEF Scope
  <2>2. Scope(d) \in Scopes
    BY <1>6, <2>1, ScopeKnown DEF Busy
  <2> QED BY <1>1, <1>5, <1>6, <2>1, <2>2 DEF OneMint, Holds
<1> QED BY <1>1, <1>6 DEF OneMint

\* Leaving the block takes the lock from nobody else.
LEMMA ReleasedKeeps ==
  ASSUME lock \in [Scopes -> Seq(Clients)], NEW s \in Scopes, Released(s),
         NEW d, NEW t \in Scopes, Holds(d, t), t # s
  PROVE  lock'[t] # <<>> /\ Head(lock'[t]) = d
BY DEF Released, Holds

LEMMA LockedMint ==
  ASSUME Local, OneMint, NEW c \in Clients, Locked(c)
  PROVE  OneMint'
<1> DEFINE s == Scope(c)
<1>1. s \in Scopes /\ UNCHANGED <<conf, token, minted>> /\ Holds(c, s) /\ req[c].pc = "lock"
  BY ScopeKnown DEF Locked, Busy, ghosts
<1>2. PICK p \in {"post", "mint"} :
        /\ req' = [req EXCEPT ![c].pc = p]
        /\ p = "post" => Released(s)
        /\ p = "mint" => lock' = lock /\ ~token[s]
  BY Zenon DEF Locked
<1>3. /\ req'[c].pc = p /\ req'[c].backend = req[c].backend
      /\ \A d \in Clients \ {c} : req'[d] = req[d]
  BY <1>2, MovedTyped DEF Local, TypeOK
<1>4. Scope(c)' = s
  BY <1>1, <1>3 DEF Scope
<1> HIDE DEF s
<1>5. ASSUME NEW d \in Clients, req'[d].pc = "mint"
      PROVE  Holds(d, Scope(d))' /\ ~token'[Scope(d)']
  <2>1. CASE d = c
    BY <1>1, <1>2, <1>3, <1>4, <1>5, <2>1 DEF Holds
  <2>2. CASE d # c
    <3>1. req'[d] = req[d] /\ Scope(d)' = Scope(d)
      BY <1>1, <1>3, <2>2 DEF Scope
    <3>2. Scope(d) \in Scopes /\ Holds(d, Scope(d)) /\ ~token[Scope(d)]
      BY <1>5, <3>1, ScopeKnown DEF Busy, OneMint
    <3>3. Scope(d) # s
      BY <1>1, <3>2, <2>2 DEF Holds
    <3>4. lock'[Scope(d)] # <<>> /\ Head(lock'[Scope(d)]) = d
      BY <1>1, <1>2, <3>2, <3>3, ReleasedKeeps DEF Local, TypeOK, Holds
    <3> QED BY <1>1, <3>1, <3>2, <3>4 DEF Holds
  <2> QED BY <2>1, <2>2
<1> QED BY <1>1, <1>5 DEF OneMint

\* The task that mints holds the lock, and nobody else mints for its scope.
LEMMA MintsAlone ==
  ASSUME Local, OneMint, NEW c \in Clients, req[c].pc = "mint",
         NEW d \in Clients \ {c}, req[d].pc = "mint"
  PROVE  Scope(c) # Scope(d)
BY DEF OneMint, Holds

LEMMA MintedMint ==
  ASSUME Local, OneMint, NEW c \in Clients, Minted(c)
  PROVE  OneMint' /\ lock[Scope(c)] # <<>>
<1> DEFINE s == Scope(c)
<1>1. s \in Scopes /\ conf' = conf /\ req[c].pc = "mint" /\ Holds(c, s) /\ ~token[s]
  BY ScopeKnown DEF Minted, Busy, OneMint
<1>2. token' = [token EXCEPT ![s] = TRUE] /\ minted' = [minted EXCEPT ![s] = minted[s] + 1]
      /\ Released(s) /\ req' = [req EXCEPT ![c].pc = "post"]
  BY DEF Minted
<1>3. req'[c].pc = "post" /\ \A d \in Clients \ {c} : req'[d] = req[d]
  BY <1>2, MovedTyped DEF Local, TypeOK
<1> HIDE DEF s
<1>4. \A t \in Scopes : minted'[t] = IF token'[t] THEN 1 ELSE 0
  BY <1>1, <1>2 DEF OneMint, Local, TypeOK
<1>5. ASSUME NEW d \in Clients, req'[d].pc = "mint"
      PROVE  Holds(d, Scope(d))' /\ ~token'[Scope(d)']
  <2>1. d # c /\ req'[d] = req[d] /\ Scope(d)' = Scope(d)
    BY <1>1, <1>3, <1>5 DEF Scope
  <2>2. Scope(d) \in Scopes /\ Holds(d, Scope(d)) /\ ~token[Scope(d)]
    BY <1>5, <2>1, ScopeKnown DEF Busy, OneMint
  <2>3. Scope(d) # s
    BY <1>1, <1>5, <2>1, MintsAlone DEF s
  <2>4. lock'[Scope(d)] # <<>> /\ Head(lock'[Scope(d)]) = d
    BY <1>1, <1>2, <2>2, <2>3, ReleasedKeeps DEF Local, TypeOK
  <2>5. ~token'[Scope(d)]
    BY <1>2, <2>2, <2>3 DEF Local, TypeOK
  <2> QED BY <2>1, <2>4, <2>5 DEF Holds
<1>6. lock[Scope(c)] # <<>>
  BY <1>1 DEF Holds, s
<1> QED BY <1>4, <1>5, <1>6 DEF OneMint

LEMMA MintFailsMint ==
  ASSUME Local, OneMint, NEW c \in Clients, MintFails(c)
  PROVE  OneMint' /\ lock[Scope(c)] # <<>>
<1> DEFINE s == Scope(c)
<1>1. s \in Scopes /\ UNCHANGED <<conf, token, minted>> /\ req[c].pc = "mint" /\ Holds(c, s)
  BY ScopeKnown DEF MintFails, Busy, OneMint, ghosts
<1>2. Released(s)
  BY DEF MintFails
<1>3. req'[c].pc = "reply" /\ \A d \in Clients \ {c} : req'[d] = req[d]
  BY <1>1, FailedLocal DEF MintFails, Busy
<1> HIDE DEF s
<1>4. ASSUME NEW d \in Clients, req'[d].pc = "mint"
      PROVE  Holds(d, Scope(d))' /\ ~token'[Scope(d)']
  <2>1. d # c /\ req'[d] = req[d] /\ Scope(d)' = Scope(d)
    BY <1>1, <1>3, <1>4 DEF Scope
  <2>2. Scope(d) \in Scopes /\ Holds(d, Scope(d)) /\ ~token[Scope(d)]
    BY <1>4, <2>1, ScopeKnown DEF Busy, OneMint
  <2>3. Scope(d) # s
    BY <1>1, <1>4, <2>1, MintsAlone DEF s
  <2>4. lock'[Scope(d)] # <<>> /\ Head(lock'[Scope(d)]) = d
    BY <1>1, <1>2, <2>2, <2>3, ReleasedKeeps DEF Local, TypeOK
  <2> QED BY <1>1, <2>1, <2>2, <2>4 DEF Holds
<1>5. lock[Scope(c)] # <<>>
  BY <1>1 DEF Holds, s
<1> QED BY <1>1, <1>4, <1>5 DEF OneMint

-----------------------------------------------------------------------------
(* The bill *)

\* What chat_completions makes of a request.
LEMMA HandleCases ==
  ASSUME Local, NEW c \in Clients, NEW e \in Entries \cup {NoEntry}, Handle(c, Header(c), e)
  PROVE  /\ \A d \in Clients \ {c} : req'[d] = req[d]
         /\ \/ e # NoEntry /\ req'[c].pc = "reply" /\ req'[c].reply = Hit(e)
            \/ e = NoEntry /\ req'[c].pc = "reply" /\ req'[c].reply = Miss409 /\ conf.mode = "replay"
            \/ /\ e = NoEntry /\ req'[c].pc \in {"token", "post"} /\ req'[c].reply = NoReply
               /\ conf.mode # "replay"
<1>1. req \in [Clients -> Requests]
  BY DEF Local, TypeOK
<1>2. CASE e # NoEntry /\ Answered(c, Hit(e))
  <2>1. /\ req'[c] = [pc |-> "reply", backend |-> "none", reply |-> Hit(e)]
        /\ \A d \in Clients \ {c} : req'[d] = req[d]
    BY <1>1, <1>2, HitTyped, AnsweredTyped
  <2> QED BY <1>2, <2>1
<1>3. CASE e = NoEntry /\ Caching /\ conf.mode = "replay" /\ Answered(c, Miss409)
  <2>1. /\ req'[c] = [pc |-> "reply", backend |-> "none", reply |-> Miss409]
        /\ \A d \in Clients \ {c} : req'[d] = req[d]
    BY <1>1, <1>3, AnsweredTyped DEF Replies
  <2> QED BY <1>3, <2>1
<1>4. CASE e = NoEntry /\ (Caching => conf.mode # "replay") /\ Forward(c, Header(c))
  <2>1. PICK p \in {"token", "post"} : \E b :
           req' = [req EXCEPT ![c] = [pc |-> p, backend |-> b, reply |-> NoReply]]
    BY <1>4 DEF Forward
  <2> QED BY <1>1, <1>4, <2>1 DEF Caching
<1> QED BY <1>2, <1>3, <1>4 DEF Handle

LEMMA RequestCases ==
  ASSUME Local, NEW c \in Clients, Request(c)
  PROVE  LET k == DeriveKey(conv[c].body)
         IN  /\ \A d \in Clients \ {c} : req'[d] = req[d]
             /\ \/ /\ k \in DOMAIN store /\ conf.mode \in {"replay", "cache"}
                   /\ req'[c].pc = "reply" /\ req'[c].reply = Hit(store[k])
                \/ /\ ~broken' => k \notin DOMAIN store
                   /\ req'[c].pc = "reply" /\ req'[c].reply = Miss409 /\ conf.mode = "replay"
                \/ /\ req'[c].pc \in {"token", "post"} /\ req'[c].reply = NoReply
                   /\ conf.mode # "replay"
             /\ broken' = broken \/ broken' = TRUE
<1> DEFINE k == DeriveKey(conv[c].body)
           e == IF conf.mode \in {"replay", "cache"} THEN Lookup(k) ELSE NoEntry
<1>1. \/ Handle(c, Header(c), e) /\ broken' = broken
      \/ Handle(c, Header(c), NoEntry) /\ broken' = TRUE
  BY Zenon DEF Request
<1>2. e # NoEntry => conf.mode \in {"replay", "cache"} /\ k \in DOMAIN store
                     /\ e = store[k] /\ e \in Entries
  BY EntryFound DEF Local
<1>3. e = NoEntry /\ conf.mode = "replay" => k \notin DOMAIN store
  BY EntryMissing DEF Local
<1>4. e \in Entries \cup {NoEntry} /\ NoEntry \in Entries \cup {NoEntry}
  BY <1>2
<1> HIDE DEF e, k
<1>5. CASE Handle(c, Header(c), e) /\ broken' = broken
  BY <1>2, <1>3, <1>4, <1>5, HandleCases DEF k
<1>6. CASE Handle(c, Header(c), NoEntry) /\ broken' = TRUE
  <2>1. /\ \A d \in Clients \ {c} : req'[d] = req[d]
        /\ \/ req'[c].pc = "reply" /\ req'[c].reply = Miss409 /\ conf.mode = "replay"
           \/ /\ req'[c].pc \in {"token", "post"} /\ req'[c].reply = NoReply
              /\ conf.mode # "replay"
    BY <1>4, <1>6, HandleCases
  <2> QED BY <1>6, <2>1 DEF k
<1> QED BY <1>1, <1>5, <1>6

\* What a worker will debit itself for a reply.
Billed(r) == IF r.kind = "ok" /\ r.cost # NoCost THEN r.cost ELSE 0

LEMMA BillFrame ==
  ASSUME HonestBill, owed' = owed,
         \A d \in Clients : \/ req'[d].reply = req[d].reply
                            \/ Billed(req[d].reply) = 0 /\ Billed(req'[d].reply) = 0
  PROVE  HonestBill'
BY DEF HonestBill, Billed

LEMMA FreeReplies ==
  /\ Billed(NoReply) = 0 /\ Billed(Miss409) = 0
  /\ \A e \in Entries : Billed(Hit(e)) = 0
  /\ \A r : r.kind \in {"error", "miss", "none"} => Billed(r) = 0
<1>1. Billed(NoReply) = 0 /\ Billed(Miss409) = 0
  BY DEF Billed, NoReply, Miss409
<1>2. \A e \in Entries : Billed(Hit(e)) = 0
  BY HitTyped DEF Billed
<1> QED BY <1>1, <1>2 DEF Billed

LEMMA InitBill == Init => HonestBill
BY IdleFields DEF Init, HonestBill

LEMMA StopBill ==
  ASSUME Stop
  PROVE  HonestBill'
BY IdleFields DEF Stop, HonestBill

LEMMA RequestBill ==
  ASSUME Local, HonestBill, NEW c \in Clients, Request(c)
  PROVE  HonestBill'
<1>1. owed' = owed /\ req[c].reply = NoReply
  BY DEF Request, Local, Proper
<1>2. \A k \in DOMAIN store : store[k] \in Entries
  BY DEF Local, TypeOK
<1>3. Billed(req'[c].reply) = 0
  BY <1>2, RequestCases, FreeReplies
<1>4. \A d \in Clients \ {c} : req'[d] = req[d]
  BY RequestCases
<1> QED BY <1>1, <1>3, <1>4, FreeReplies, BillFrame

LEMMA MovedBill ==
  ASSUME Local, HonestBill, NEW c \in Clients, NEW p \in Busy, req' = [req EXCEPT ![c].pc = p],
         owed' = owed
  PROVE  HonestBill'
<1>1. req'[c].reply = req[c].reply /\ \A d \in Clients \ {c} : req'[d] = req[d]
  BY MovedTyped DEF Local, TypeOK, Busy
<1> QED BY <1>1, BillFrame

LEMMA FailedBill ==
  ASSUME Local, HonestBill, NEW c \in Clients, req[c].pc \in Busy, Failed(c),
         UNCHANGED <<conf, conv>>, owed' = owed
  PROVE  HonestBill'
<1>1. req'[c].reply.kind = "error" /\ \A d \in Clients \ {c} : req'[d] = req[d]
  BY FailedLocal
<1>2. req[c].reply = NoReply
  BY BusyFacts
<1> QED BY <1>1, <1>2, FreeReplies, BillFrame

LEMMA PostOkBill ==
  ASSUME Local, HonestBill, NEW c \in Clients, NEW a \in Answers, PostOk(c, a)
  PROVE  HonestBill'
<1> DEFINE p == CostOf(Backend(conf, req[c].backend))
           n == IF p = NoCost THEN 0 ELSE p
<1>1. owed' = [owed EXCEPT ![c] = owed[c] + n] /\ p \in {1, NoCost}
  BY CostTyped DEF PostOk
<1>2. req[c].reply.kind = "none"
  BY BusyFacts DEF PostOk, Busy
<1>3. owed[c] = 0
  BY <1>2 DEF HonestBill
<1>4. req'[c].reply.kind = "ok" /\ req'[c].reply.cost = p /\ \A d \in Clients \ {c} : req'[d] = req[d]
  <2>1. req'[c].reply = Served(c, a) /\ \A d \in Clients \ {c} : req'[d] = req[d]
    BY PostOkReply
  <2>2. Served(c, a).kind = "ok" /\ Served(c, a).cost = p
    BY DEF Served
  <2> QED BY <2>1, <2>2
<1> HIDE DEF p
<1>5. owed'[c] = n /\ \A d \in Clients \ {c} : owed'[d] = owed[d]
  BY <1>1, <1>3 DEF Local, TypeOK
<1> QED BY <1>4, <1>5 DEF HonestBill

LEMMA ReceiveBill ==
  ASSUME Local, HonestBill, NEW c \in Clients, Receive(c)
  PROVE  HonestBill'
<1> DEFINE r == req[c].reply
           n == IF r.cost = NoCost THEN 0 ELSE r.cost
<1>1. r.kind = "ok" /\ owed' = [owed EXCEPT ![c] = owed[c] - n] /\ req' = [req EXCEPT ![c] = Idle]
  BY DEF Receive, Debited
<1>2. req'[c] = Idle /\ \A d \in Clients \ {c} : req'[d] = req[d]
  BY <1>1, IdleTyped DEF Local, TypeOK
<1>3. n \in Nat /\ owed[c] = n
  <2>1. r \in Replies
    BY DEF Local, TypeOK, Requests
  <2> QED BY <1>1, <2>1, OkReply DEF HonestBill
<1>4. owed'[c] = 0 /\ \A d \in Clients \ {c} : owed'[d] = owed[d]
  BY <1>1, <1>3 DEF Local, TypeOK
<1> QED BY <1>2, <1>4, IdleFields DEF HonestBill

LEMMA DroppedBill ==
  ASSUME Local, HonestBill, NEW c \in Clients, req[c].reply.kind \in {"error", "miss"},
         req' = [req EXCEPT ![c] = Idle], owed' = owed
  PROVE  HonestBill'
<1>1. req'[c] = Idle /\ \A d \in Clients \ {c} : req'[d] = req[d]
  BY IdleTyped DEF Local, TypeOK
<1> QED BY <1>1, IdleFields, FreeReplies, BillFrame

-----------------------------------------------------------------------------
(* Types, mints and bills together *)

Accounted == Local /\ OneMint /\ HonestBill

LEMMA ProcessAccounted ==
  ASSUME Accounted,
         (\E f \in Files : Startup(f)) \/ Stop \/ (\E s \in Scopes : Expire(s))
  PROVE  Accounted'
<1>1. ASSUME NEW f \in Files, Startup(f)
      PROVE  Accounted'
  <2>1. HonestBill'
    BY <1>1, BillFrame DEF Startup, Accounted
  <2> QED BY <1>1, <2>1, StartupLocal, StartupMint DEF Accounted
<1>2. CASE Stop
  BY <1>2, StopLocal, StopMint, StopBill DEF Accounted
<1>3. ASSUME NEW s \in Scopes, Expire(s)
      PROVE  Accounted'
  <2>1. HonestBill'
    BY <1>3, BillFrame DEF Expire, Accounted
  <2> QED BY <1>3, <2>1, ExpireLocal, ExpireMint DEF Accounted
<1> QED BY <1>1, <1>2, <1>3

LEMMA RequestAccounted ==
  ASSUME Accounted, NEW c \in Clients, Request(c)
  PROVE  Accounted'
<1>1. req'[c].pc # "mint" /\ \A d \in Clients \ {c} : req'[d] = req[d]
  BY RequestCases DEF Accounted
<1>2. OneMint'
  BY <1>1, MintFrame DEF Accounted, Request
<1> QED BY <1>2, RequestLocal, RequestBill DEF Accounted

LEMMA ServeAccounted ==
  ASSUME Accounted, NEW c \in Clients, Serve(c)
  PROVE  Accounted'
<1>1. CASE GetToken(c)
  <2>1. HonestBill'
    BY <1>1, MovedBill DEF GetToken, Busy, ghosts, Accounted
  <2> QED BY <1>1, <2>1, GetTokenLocal, GetTokenMint DEF Accounted
<1>2. CASE Locked(c)
  <2>1. HonestBill'
    BY <1>2, MovedBill DEF Locked, Busy, ghosts, Accounted
  <2> QED BY <1>2, <2>1, LockedLocal, LockedMint DEF Accounted
<1>3. CASE Minted(c)
  <2>1. HonestBill'
    BY <1>3, MovedBill DEF Minted, Busy, Accounted
  <2> QED BY <1>3, <2>1, MintedLocal, MintedMint DEF Accounted
<1>4. CASE MintFails(c)
  <2>1. HonestBill'
    BY <1>4, FailedBill DEF MintFails, Busy, ghosts, Accounted
  <2> QED BY <1>4, <2>1, MintFailsLocal, MintFailsMint DEF Accounted
<1>5. ASSUME NEW a \in Answers, PostOk(c, a)
      PROVE  Accounted'
  <2>1. req'[c].pc # "mint" /\ \A d \in Clients \ {c} : req'[d] = req[d]
    BY <1>5, PostOkReply DEF Accounted
  <2>2. OneMint'
    BY <1>5, <2>1, MintFrame DEF Accounted, PostOk
  <2> QED BY <1>5, <2>2, PostOkLocal, PostOkBill DEF Accounted
<1>6. CASE PostFails(c)
  <2>1. req[c].pc \in Busy /\ Failed(c) /\ UNCHANGED <<conf, conv, token, lock, minted, owed>>
    BY <1>6 DEF PostFails, Busy, ghosts
  <2>2. req'[c].pc # "mint" /\ \A d \in Clients \ {c} : req'[d] = req[d]
    BY <2>1, FailedLocal DEF Accounted
  <2>3. OneMint'
    BY <2>1, <2>2, MintFrame DEF Accounted
  <2>4. HonestBill'
    BY <2>1, FailedBill DEF Accounted
  <2> QED BY <1>6, <2>3, <2>4, PostFailsLocal DEF Accounted
<1> QED BY <1>1, <1>2, <1>3, <1>4, <1>5, <1>6 DEF Serve

LEMMA WorkerAccounted ==
  ASSUME Accounted, NEW c \in Clients,
         \/ Receive(c) \/ ReceiveError(c) \/ ReceiveMiss(c)
         \/ Unreachable(c) \/ NextAttempt(c) \/ NewRun(c)
  PROVE  Accounted'
<1>1. CASE Receive(c) \/ ReceiveError(c) \/ ReceiveMiss(c)
  <2>1. req' = [req EXCEPT ![c] = Idle] /\ UNCHANGED <<conf, token, lock, minted>>
    BY <1>1 DEF Receive, ReceiveError, ReceiveMiss, ghosts
  <2>2. req'[c] = Idle /\ \A d \in Clients \ {c} : req'[d] = req[d]
    BY <2>1, IdleTyped DEF Accounted, Local, TypeOK
  <2>3. OneMint'
    BY <2>1, <2>2, IdleFields, MintFrame DEF Accounted
  <2>4. HonestBill'
    BY <1>1, <2>1, ReceiveBill, DroppedBill DEF Accounted, ReceiveError, ReceiveMiss, ghosts
  <2>5. Local'
    BY <1>1, ReceiveLocal, ReceiveErrorLocal, ReceiveMissLocal DEF Accounted
  <2> QED BY <2>3, <2>4, <2>5 DEF Accounted
<1>2. CASE Unreachable(c) \/ NextAttempt(c) \/ NewRun(c)
  <2>1. UNCHANGED <<gateway, ghosts>>
    BY <1>2, AnewFacts DEF Unreachable, Accounted
  <2>2. OneMint' /\ HonestBill'
    BY <2>1, MintFrame, BillFrame DEF gateway, ghosts, Accounted
  <2>3. Local'
    BY <1>2, UnreachableLocal, AnewLocal DEF Accounted
  <2> QED BY <2>2, <2>3 DEF Accounted
<1> QED BY <1>1, <1>2

LEMMA StutterAccounted == Accounted /\ UNCHANGED vars => Accounted'
<1> SUFFICES ASSUME Accounted, UNCHANGED vars PROVE Accounted'
  OBVIOUS
<1>1. UNCHANGED <<conf, store, token, lock, req, conv, starts, runs, faults, minted, owed, broken>>
  BY DEF vars, gateway, bounds, ghosts
<1>2. OneMint' /\ HonestBill'
  BY <1>1, MintFrame, BillFrame DEF Accounted
<1>3. \A d \in Clients : Proper(d)'
  BY <1>1, ProperFrame DEF Accounted, Local
<1>4. TypeOK'
  BY <1>1 DEF Accounted, Local, TypeOK
<1> QED BY <1>1, <1>2, <1>3, <1>4 DEF Accounted, Local, Up

LEMMA NextAccounted == Accounted /\ [Next]_vars => Accounted'
BY ProcessAccounted, RequestAccounted, ServeAccounted, WorkerAccounted, StutterAccounted DEF Next

LEMMA InitAccounted == Init => Accounted
BY InitLocal, InitMint, InitBill DEF Accounted

\* Types, and what holds of a request at each point of chat_completions: for every
\* set of workers, answers and configuration files and every number of restarts and
\* faults, a request on its way has a backend of the running configuration, only
\* keyless ones deal with tokens, and nothing is forwarded in replay mode.
THEOREM GatewayAccounts == Spec => []Accounted
<1>1. Init => Accounted
  BY InitAccounted
<1>2. Accounted /\ [Next]_vars => Accounted'
  BY NextAccounted
<1> QED BY <1>1, <1>2, PTL DEF Spec

\* The look under the lock (azure_auth.py, gcp_auth.py) makes a burst mint once:
\* between two expiries at most one mint of a scope succeeds, for any number of
\* workers and whatever fails.
THEOREM GatewaySingleFlight == Spec => []SingleFlight
<1>1. Accounted => SingleFlight
  BY DEF Accounted, OneMint, SingleFlight
<1> QED BY <1>1, GatewayAccounts, PTL

\* A worker debits its run with exactly what the backends' priced answers to it
\* cost, through hits, failures, unknown prices and restarts of the gateway.
THEOREM GatewayHonestBill == Spec => []HonestBill
<1>1. Accounted => HonestBill
  BY DEF Accounted
<1> QED BY <1>1, GatewayAccounts, PTL

-----------------------------------------------------------------------------
(* Recordings that can be replayed *)

LEMMA KeyOfBody ==
  ASSUME NEW b \in Seq(Messages)
  PROVE  /\ Key(b) \in Norms /\ Len(Key(b)) = Len(b)
         /\ conf.normalize => DeriveKey(b) = Key(b)
<1>1. Len(b) \in Nat /\ DOMAIN b = 1..Len(b) /\ \A i \in 1..Len(b) : b[i] \in Messages
  OBVIOUS
<1>2. \A i \in 1..Len(b) : <<b[i].result>> \in {<<r>> : r \in Answers \cup {Opening}}
  BY <1>1 DEF Messages
<1>3. Key(b) = [i \in 1..Len(b) |-> <<b[i].result>>]
  BY <1>1 DEF Key
<1>4. conf.normalize => DeriveKey(b) = Key(b)
  BY DEF DeriveKey, Kept, Key
<1> QED BY <1>1, <1>2, <1>3, <1>4 DEF Norms

LEMMA KeyOfLonger ==
  ASSUME TypeOK, NEW c \in Clients, NEW a \in Answers
  PROVE  Key(Longer(c, a)) = Append(Key(conv[c].body), <<a>>)
<1> DEFINE b == conv[c].body
           m == [answer |-> a, result |-> a, noise |-> runs]
<1>1. b \in Seq(Messages) /\ m \in Messages /\ m.result = a
  BY DEF TypeOK, Conversations, Messages
<1>2. Longer(c, a) = Append(b, m)
  BY DEF Longer
<1> HIDE DEF b, m
<1>3. Len(b) \in Nat /\ DOMAIN b = 1..Len(b) /\ DOMAIN Append(b, m) = 1..(Len(b) + 1)
      /\ \A i \in 1..Len(b) : Append(b, m)[i] = b[i]
  BY <1>1
<1>4. Append(b, m)[Len(b) + 1] = m
  BY <1>1
<1>5. Key(Append(b, m)) = [i \in 1..(Len(b) + 1) |-> <<Append(b, m)[i].result>>]
  BY <1>3 DEF Key
<1>6. Key(b) = [i \in 1..Len(b) |-> <<b[i].result>>] /\ Key(b) \in Norms /\ Len(Key(b)) = Len(b)
  BY <1>1, <1>3, KeyOfBody DEF Key
<1>7. Append(Key(b), <<a>>) = [i \in 1..(Len(b) + 1) |-> IF i <= Len(b) THEN Key(b)[i] ELSE <<a>>]
  BY <1>3, <1>6 DEF Norms
<1>8. \A i \in 1..(Len(b) + 1) :
         <<Append(b, m)[i].result>> = IF i <= Len(b) THEN Key(b)[i] ELSE <<a>>
  BY <1>1, <1>3, <1>4, <1>6
<1>9. Key(Append(b, m)) = Append(Key(b), <<a>>)
  BY <1>5, <1>7, <1>8
<1> QED BY <1>2, <1>9 DEF b

\* Without normalisation the key of a request is none of the normalised ones.
LEMMA RawKey ==
  ASSUME NEW b \in Seq(Messages), b # <<>>, ~conf.normalize
  PROVE  DeriveKey(b) \notin Norms
<1>1. Len(b) \in Nat /\ Len(b) # 0 /\ DOMAIN b = 1..Len(b) /\ 1 \in DOMAIN b
  OBVIOUS
<1>2. DeriveKey(b)[1] = <<b[1].result, b[1].noise>>
  BY <1>1 DEF DeriveKey, Kept
<1>3. DeriveKey(b) = [i \in 1..Len(b) |-> Kept(b[i])]
  BY <1>1 DEF DeriveKey
<1>4. SUFFICES ASSUME DeriveKey(b) \in Norms PROVE FALSE
  OBVIOUS
<1>5. DeriveKey(b)[1] \in {<<r>> : r \in Answers \cup {Opening}}
  BY <1>1, <1>3, <1>4 DEF Norms
<1>6. PICK r : DeriveKey(b)[1] = <<r>>
  BY <1>5
<1>7. \A p, q : <<r>> # <<p, q>>
  OBVIOUS
<1> QED BY ONLY <1>2, <1>6, <1>7

LEMMA BodyTyped ==
  ASSUME Local, NEW c \in Clients
  PROVE  conv[c].body \in Seq(Messages) /\ conv[c].body # <<>> /\ Len(conv[c].body) \in Nat \ {0}
BY DEF Local, TypeOK, Conversations, Proper

\* Closed and Covers say the same as long as the row and the worker are the same.
LEMMA ClosedKept ==
  ASSUME NEW k, Closed(k), store'[k] = store[k], DOMAIN store \subseteq DOMAIN store'
  PROVE  Closed(k)'
BY DEF Closed

LEMMA CoversKept ==
  ASSUME NEW c, NEW k, Covers(c, k), store'[k] = store[k], conv'[c] = conv[c],
         req'[c].reply = req[c].reply \/ req[c].reply.kind # "ok"
  PROVE  Covers(c, k)'
BY DEF Covers

\* While nothing is being recorded, every row is closed.
LEMMA AllClosed ==
  ASSUME Complete, ~broken, ~Recording, NEW k \in DOMAIN store \cap Norms
  PROVE  Closed(k)
BY DEF Complete

\* Who changes no conversation and drops no answer keeps the recordings complete.
LEMMA CompleteFrame ==
  ASSUME Complete, UNCHANGED <<conf, store, conv>>, ~broken' => ~broken,
         \A d \in Clients : req'[d].reply = req[d].reply \/ req[d].reply.kind # "ok"
  PROVE  Complete'
<1> SUFFICES ASSUME ~broken', NEW k \in DOMAIN store \cap Norms
             PROVE  Closed(k)' \/ (Recording /\ conf.normalize /\ \E c \in Clients : Covers(c, k))'
  BY DEF Complete, Norms
<1>1. Closed(k) => Closed(k)'
  BY ClosedKept
<1>2. ASSUME NEW c \in Clients, Covers(c, k)
      PROVE  Covers(c, k)'
  BY <1>2, CoversKept
<1>3. Recording' = Recording
  BY DEF Recording, Up
<1> QED BY <1>1, <1>2, <1>3 DEF Complete

\* Who stops nobody but itself, while nothing is being recorded, keeps them too.
LEMMA ClosedFrame ==
  ASSUME Complete, ~broken' => ~broken, ~broken' => ~Recording, store' = store
  PROVE  Complete'
<1> SUFFICES ASSUME ~broken', NEW k \in DOMAIN store \cap Norms
             PROVE  Closed(k)'
  BY DEF Complete, Norms
<1> QED BY AllClosed, ClosedKept

LEMMA FollowsFrame ==
  ASSUME NEW d \in Clients, Follows(d), UNCHANGED <<conf, store>>,
         conv'[d].body = conv[d].body,
         req'[d].reply = req[d].reply \/ req'[d].reply.kind \in {"none", "error"}
  PROVE  Follows(d)'
BY DEF Follows, Recording, Up

LEMMA FollowingFrame ==
  ASSUME Following, UNCHANGED <<conf, store>>, ~broken' => ~broken,
         \A d \in Clients :
            conv'[d].state = "ask" =>
              /\ conv[d].state = "ask" /\ conv'[d].body = conv[d].body
              /\ req'[d].reply = req[d].reply \/ req'[d].reply.kind \in {"none", "error"}
  PROVE  Following'
<1> SUFFICES ASSUME ~broken', NEW d \in Clients, conv'[d].state = "ask"
             PROVE  Follows(d)'
  BY DEF Following
<1> QED BY FollowsFrame DEF Following

Replayable == Complete /\ Following

LEMMA InitReplay == Init => Replayable
<1> SUFFICES ASSUME Init PROVE Replayable
  OBVIOUS
<1>1. DOMAIN store = {} /\ conf = NoConf
  BY DEF Init
<1>2. \A c \in Clients : Len(conv[c].body) = 1 /\ req[c].reply.kind = "none"
  BY IdleFields DEF Init, Fresh
<1>3. \A c \in Clients : Follows(c)
  BY <1>1, <1>2 DEF Follows, Recording, Up
<1> QED BY <1>1, <1>3 DEF Replayable, Complete, Following

LEMMA StartupReplay ==
  ASSUME Accounted, Replayable, NEW f \in Files, Startup(f)
  PROVE  Replayable'
<1>1. ~Up /\ UNCHANGED <<store, req, conv, broken>>
  BY DEF Startup
<1>2. Complete'
  BY <1>1, ClosedFrame DEF Replayable, Recording
<1>3. ASSUME ~broken', NEW d \in Clients, conv'[d].state = "ask"
      PROVE  Follows(d)'
  <2>1. Len(conv[d].body) = 1 /\ req[d].reply.kind = "none"
    BY <1>1, <1>3, IdleFields DEF Replayable, Following, Follows, Accounted, Local, Proper
  <2> QED BY <1>1, <2>1 DEF Follows
<1>4. Following'
  BY <1>3 DEF Following
<1> QED BY <1>2, <1>4 DEF Replayable

\* A stop that cuts no conversation short finds nothing left to record.
LEMMA StopReplay ==
  ASSUME Accounted, Replayable, Stop
  PROVE  Replayable'
<1>1. conf' = NoConf /\ req' = [c \in Clients |-> Idle] /\ UNCHANGED <<store, conv>>
      /\ broken' = (broken \/ \E c \in Clients : UnderWay(c))
  BY DEF Stop
<1>2. ASSUME ~broken'
      PROVE  ~broken /\ \A c \in Clients : conv[c].state = "ask" =>
                Len(conv[c].body) = 1 /\ req[c].pc = "idle" /\ req[c].reply.kind = "none"
  <2>1. ~broken /\ \A c \in Clients : ~UnderWay(c)
    BY <1>1, <1>2, Zenon
  <2>2. \A c \in Clients : Len(conv[c].body) \in Nat \ {0} /\ (req[c].pc = "idle" => req[c].reply.kind = "none")
    BY BodyTyped, IdleFields DEF Accounted, Local, Proper
  <2>3. ASSUME NEW c \in Clients, conv[c].state = "ask"
        PROVE  Len(conv[c].body) = 1 /\ req[c].pc = "idle" /\ req[c].reply.kind = "none"
    <3>1. ~(Len(conv[c].body) > 1) /\ req[c].pc = "idle"
      BY <2>1, <2>3 DEF UnderWay
    <3>2. \A n \in Nat \ {0} : ~(n > 1) => n = 1
      OBVIOUS
    <3> QED BY <2>2, <3>1, <3>2
  <2> QED BY <2>1, <2>3
<1>3. ASSUME ~broken', NEW k \in DOMAIN store \cap Norms
      PROVE  Closed(k)'
  <2>1. Closed(k) \/ \E c \in Clients : Covers(c, k)
    BY <1>2, <1>3 DEF Replayable, Complete
  <2>2. ASSUME NEW c \in Clients, Covers(c, k)
        PROVE  FALSE
    <3>1. conv[c].state = "ask" /\ Len(conv[c].body) = 1 /\ req[c].reply.kind = "none"
      BY <1>2, <1>3, <2>2 DEF Covers
    <3>2. Key(conv[c].body) = Append(k, <<store[k].answer>>) /\ Len(Key(conv[c].body)) = 1
      BY <2>2, <3>1, BodyTyped, KeyOfBody DEF Covers, Accounted
    <3>3. k \in Seq(KeyParts) /\ k # <<>>
      BY <1>3 DEF Accounted, Local, TypeOK
    <3>4. Len(Append(k, <<store[k].answer>>)) = Len(k) + 1 /\ Len(k) \in Nat \ {0}
      BY <3>3
    <3> QED BY <3>2, <3>4
  <2> QED BY <1>1, <2>1, <2>2, ClosedKept
<1>4. Complete'
  BY <1>1, <1>3 DEF Complete, Norms
<1>5. ASSUME ~broken', NEW d \in Clients, conv'[d].state = "ask"
      PROVE  Follows(d)'
  BY <1>1, <1>2, <1>5, IdleFields DEF Follows, Recording, Up
<1>6. Following'
  BY <1>5 DEF Following
<1> QED BY <1>4, <1>6 DEF Replayable

\* A worker asks: a hit is what the store holds, and a miss has no row.
LEMMA RequestReplay ==
  ASSUME Accounted, Replayable, NEW c \in Clients, Request(c)
  PROVE  Replayable'
<1> DEFINE k == DeriveKey(conv[c].body)
<1>1. UNCHANGED <<conf, store, conv>> /\ (broken' = broken \/ broken' = TRUE) /\ Up
      /\ conv[c].state = "ask" /\ req[c].reply.kind = "none"
  BY RequestCases, IdleFields DEF Request, Accounted, Local, Proper
<1>2. \A d \in Clients \ {c} : req'[d] = req[d]
  BY RequestCases DEF Accounted
<1>3. \/ k \in DOMAIN store /\ req'[c].reply = Hit(store[k])
      \/ (~broken' => k \notin DOMAIN store) /\ req'[c].reply = Miss409
      \/ req'[c].reply = NoReply
  BY RequestCases DEF Accounted
<1> HIDE DEF k
<1>4. Complete'
  BY <1>1, <1>2, CompleteFrame DEF Replayable
<1>5. ASSUME ~broken', NEW d \in Clients \ {c}, conv'[d].state = "ask"
      PROVE  Follows(d)'
  BY <1>1, <1>2, <1>5, FollowsFrame DEF Replayable, Following
<1>6. ASSUME ~broken'
      PROVE  Follows(c)'
  <2>1. Follows(c) /\ ~broken
    BY <1>1, <1>6 DEF Replayable, Following
  <2>2. conf.normalize => k = Key(conv[c].body)
    BY KeyOfBody, BodyTyped DEF k, Accounted
  <2>3. CASE k \in DOMAIN store /\ req'[c].reply = Hit(store[k])
    <3>1. Hit(store[k]).kind = "ok" /\ Hit(store[k]).answer = store[k].answer
      BY <2>3, HitTyped DEF Accounted, Local, TypeOK
    <3> QED BY <1>1, <2>1, <2>2, <2>3, <3>1 DEF Follows, Recording, Up
  <2>4. CASE k \notin DOMAIN store /\ req'[c].reply = Miss409
    <3>1. Miss409.kind = "miss"
      BY DEF Miss409
    <3>2. Len(conv[c].body) > 1 \/ Len(conv[c].body) = 1
      <4>1. Len(conv[c].body) \in Nat \ {0}
        BY BodyTyped DEF Accounted
      <4>2. \A n \in Nat \ {0} : n > 1 \/ n = 1
        OBVIOUS
      <4> QED BY <4>1, <4>2
    <3> QED BY <1>1, <2>1, <2>2, <2>4, <3>1, <3>2 DEF Follows, Recording, Up
  <2>5. CASE req'[c].reply = NoReply
    BY <1>1, <2>1, <2>5, IdleFields, FollowsFrame
  <2> QED BY <1>3, <1>6, <2>3, <2>4, <2>5
<1>7. Following'
  BY <1>5, <1>6 DEF Following
<1> QED BY <1>4, <1>7 DEF Replayable

\* On the way to the backend nothing is recorded and nobody is answered.
LEMMA QuietReplay ==
  ASSUME Replayable, UNCHANGED <<conf, store, conv, broken>>,
         \A d \in Clients : \/ req'[d].reply = req[d].reply
                            \/ req[d].reply.kind # "ok" /\ req'[d].reply.kind \in {"none", "error"}
  PROVE  Replayable'
<1>1. Complete'
  BY CompleteFrame DEF Replayable
<1>2. Following'
  BY FollowingFrame DEF Replayable
<1> QED BY <1>1, <1>2 DEF Replayable

LEMMA MovedReplay ==
  ASSUME Accounted, Replayable, NEW c \in Clients, NEW p \in Busy,
         req' = [req EXCEPT ![c].pc = p], UNCHANGED <<conf, store, conv, broken>>
  PROVE  Replayable'
<1>1. req'[c].reply = req[c].reply /\ \A d \in Clients \ {c} : req'[d] = req[d]
  BY MovedTyped DEF Accounted, Local, TypeOK, Busy
<1> QED BY <1>1, QuietReplay

LEMMA FailedReplay ==
  ASSUME Accounted, Replayable, NEW c \in Clients, req[c].pc \in Busy, Failed(c),
         UNCHANGED <<conf, store, conv, broken>>
  PROVE  Replayable'
<1>1. req'[c].reply.kind = "error" /\ \A d \in Clients \ {c} : req'[d] = req[d]
  BY FailedLocal DEF Accounted
<1>2. req[c].reply.kind = "none"
  BY BusyFacts DEF Accounted
<1> QED BY <1>1, <1>2, QuietReplay

\* A recorded answer is one its worker is about to follow; a row that is replaced
\* was followed by nobody who is not still on its way.
LEMMA PostOkReplay ==
  ASSUME Accounted, Replayable, NEW c \in Clients, NEW a \in Answers, PostOk(c, a)
  PROVE  Replayable'
<1> DEFINE k == DeriveKey(conv[c].body)
           e == [answer |-> a, backend |-> req[c].backend]
<1>1. UNCHANGED <<conf, conv>> /\ req[c].reply.kind = "none" /\ conv[c].state = "ask"
      /\ conf.mode # "replay" /\ Up
  BY BusyFacts DEF PostOk, Busy, Accounted
<1>2. /\ req'[c].reply.kind = "ok" /\ req'[c].reply.answer = a
      /\ \A d \in Clients \ {c} : req'[d] = req[d]
  <2>1. req'[c].reply = Served(c, a) /\ \A d \in Clients \ {c} : req'[d] = req[d]
    BY PostOkReply DEF Accounted
  <2>2. Served(c, a).kind = "ok" /\ Served(c, a).answer = a
    BY DEF Served
  <2> QED BY <2>1, <2>2
<1>3. CASE Recording /\ broken' = broken /\ Put(k, e)
  <2>1. /\ DOMAIN store' = DOMAIN store \cup {k} /\ store'[k] = e
        /\ \A l \in DOMAIN store \ {k} : store'[l] = store[l]
    BY <1>3, PostOkEntry, PutKeeps DEF Accounted, Local, TypeOK
  <2>2. /\ conf.normalize => k = Key(conv[c].body)
        /\ ~conf.normalize => k \notin Norms
    BY BodyTyped, KeyOfBody, RawKey DEF Accounted
  <2>3. e.answer = a
    OBVIOUS
  <2>4. Recording'
    BY <1>1, <1>3 DEF Recording, Up
  <2> HIDE DEF k, e
  <2>5. ASSUME ~broken', NEW l \in DOMAIN store' \cap Norms
        PROVE  Closed(l)' \/ (conf'.normalize /\ \E d \in Clients : Covers(d, l)')
    <3>1. CASE l = k
      <4>1. conf.normalize
        BY <2>2, <2>5, <3>1
      <4>2. Covers(c, l)'
        BY <1>1, <1>2, <2>1, <2>2, <2>3, <3>1, <4>1 DEF Covers
      <4> QED BY <1>1, <3>1, <4>1, <4>2
    <3>2. CASE l # k
      <4>1. l \in DOMAIN store \cap Norms /\ store'[l] = store[l] /\ ~broken
        BY <1>3, <2>1, <2>5, <3>2
      <4>2. Closed(l) \/ (conf.normalize /\ \E d \in Clients : Covers(d, l))
        BY <4>1 DEF Replayable, Complete
      <4>3. Closed(l) => Closed(l)'
        BY <2>1, <4>1, ClosedKept
      <4>4. ASSUME NEW d \in Clients, Covers(d, l)
            PROVE  Covers(d, l)'
        BY <1>1, <1>2, <4>1, <4>4, CoversKept
      <4> QED BY <1>1, <4>2, <4>3, <4>4
    <3> QED BY <3>1, <3>2
  <2>6. Complete'
    BY <2>4, <2>5 DEF Complete, Norms
  <2>7. ASSUME ~broken', NEW d \in Clients, conv'[d].state = "ask"
        PROVE  Follows(d)'
    <3>1. Follows(d) /\ (d = c => k \in DOMAIN store')
      BY <1>1, <1>3, <2>1, <2>7 DEF Replayable, Following
    <3>2. conv'[d] = conv[d] /\ (d # c => req'[d] = req[d]) /\ DOMAIN store \subseteq DOMAIN store'
      BY <1>1, <1>2, <2>1
    <3> QED BY <1>1, <1>3, <2>2, <2>4, <3>1, <3>2 DEF Follows, Recording, Up
  <2>8. Following'
    BY <2>7 DEF Following
  <2> QED BY <2>6, <2>8 DEF Replayable
<1>4. CASE broken' = TRUE
  BY <1>4 DEF Replayable, Complete, Following
<1>5. CASE ~Recording /\ broken' = broken /\ store' = store
  <2>1. Complete'
    BY <1>5, ClosedFrame DEF Replayable
  <2>2. ASSUME ~broken', NEW d \in Clients, conv'[d].state = "ask"
        PROVE  Follows(d)'
    BY <1>1, <1>5 DEF Follows, Recording, Up
  <2>3. Following'
    BY <2>2 DEF Following
  <2> QED BY <2>1, <2>3 DEF Replayable
<1> QED BY <1>3, <1>4, <1>5, PostOkStores DEF Accounted

\* A worker goes on from its answer: what it will ask next is what the row it
\* followed leads to.
LEMMA ReceiveReplay ==
  ASSUME Accounted, Replayable, NEW c \in Clients, Receive(c)
  PROVE  Replayable'
<1> DEFINE b == conv[c].body
           a == req[c].reply.answer
<1>1. /\ req[c].pc = "reply" /\ req[c].reply.kind = "ok" /\ req' = [req EXCEPT ![c] = Idle]
      /\ Proceeds(c, a) /\ UNCHANGED <<conf, store, broken>>
  BY DEF Receive
<1>2. a \in Answers
  BY <1>1, OkReply DEF Accounted, Local, TypeOK, Requests
<1>3. /\ req'[c].reply.kind = "none" /\ \A d \in Clients \ {c} : req'[d] = req[d]
  BY <1>1, IdleTyped, IdleFields DEF Accounted, Local, TypeOK
<1>4. Up /\ conv[c].state = "ask" /\ conv[c] \in Conversations /\ b \in Seq(Messages)
  BY <1>1, ReplyFacts DEF Accounted
<1>5. /\ \/ /\ a \in Final \/ Len(b) = MaxMessages
            /\ conv'[c].state = "done"
         \/ /\ a \notin Final /\ Len(b) # MaxMessages
            /\ conv'[c].state = "ask" /\ conv'[c].body = Longer(c, a)
      /\ \A d \in Clients \ {c} : conv'[d] = conv[d]
  <2>1. /\ \/ /\ a \in Final \/ Len(b) = MaxMessages
              /\ conv'[c] = [conv[c] EXCEPT !.state = "done"]
           \/ /\ a \notin Final /\ Len(b) # MaxMessages
              /\ conv'[c] = [conv[c] EXCEPT !.body = Longer(c, a)]
        /\ \A d \in Clients \ {c} : conv'[d] = conv[d]
    BY <1>1, <1>2, ProceedsCases DEF Accounted, Local
  <2> QED BY <1>4, <2>1 DEF Conversations
<1>6. Key(b) \in Norms /\ Len(Key(b)) = Len(b) /\ Key(Longer(c, a)) = Append(Key(b), <<a>>)
  BY <1>2, <1>4, KeyOfBody, KeyOfLonger DEF Accounted, Local
<1>7. Len(Longer(c, a)) = Len(b) + 1 /\ Len(b) \in Nat
  BY <1>2, <1>4, LongerTyped DEF Accounted, Local
<1>8. ~broken => Follows(c)
  BY <1>4 DEF Replayable, Following
<1>9. Recording' = Recording
  BY <1>1 DEF Recording, Up
<1> HIDE DEF a, b
<1>10. ASSUME ~broken', NEW k \in DOMAIN store \cap Norms
       PROVE  Closed(k)' \/ (Recording' /\ conf'.normalize /\ \E d \in Clients : Covers(d, k)')
  <2>1. Closed(k) => Closed(k)'
    BY <1>1, ClosedKept
  <2>2. Closed(k) \/ (Recording /\ conf.normalize /\ \E d \in Clients : Covers(d, k))
    BY <1>1, <1>10 DEF Replayable, Complete
  <2>3. ASSUME Recording, conf.normalize, NEW d \in Clients, Covers(d, k)
        PROVE  Closed(k) \/ Covers(d, k)'
    <3>1. CASE d # c
      BY <1>1, <1>3, <1>5, <2>3, <3>1, CoversKept
    <3>2. CASE d = c /\ Key(b) = Append(k, <<store[k].answer>>)
      <4>1. Key(b) \in DOMAIN store
        BY <1>1, <1>8, <1>10, <2>3 DEF Follows, b
      <4> QED BY <3>2, <4>1 DEF Closed
    <3>3. CASE d = c /\ Key(b) = k /\ a = store[k].answer
      <4>1. CASE a \in Final \/ Len(b) = MaxMessages
        BY <1>6, <3>3, <4>1 DEF Closed
      <4>2. CASE conv'[c].state = "ask" /\ conv'[c].body = Longer(c, a)
        BY <1>1, <1>6, <3>3, <4>2 DEF Covers
      <4> QED BY <1>5, <4>1, <4>2
    <3> QED BY <2>3, <3>1, <3>2, <3>3 DEF Covers, a, b
  <2> QED BY <1>1, <1>9, <2>1, <2>2, <2>3
<1>11. Complete'
  BY <1>1, <1>10 DEF Complete, Norms
<1>12. ASSUME ~broken', NEW d \in Clients \ {c}, conv'[d].state = "ask"
       PROVE  Follows(d)'
  BY <1>1, <1>3, <1>5, <1>12, FollowsFrame DEF Replayable, Following
<1>13. ASSUME ~broken', conv'[c].state = "ask"
       PROVE  Follows(c)'
  <2>1. a \notin Final /\ Len(b) # MaxMessages /\ conv'[c].body = Longer(c, a)
    BY <1>5, <1>13
  <2>2. ASSUME conf.mode = "replay", conf.normalize
        PROVE  Key(Longer(c, a)) \in DOMAIN store
    <3>1. Key(b) \in DOMAIN store /\ a = store[Key(b)].answer
      BY <1>1, <1>4, <1>8, <1>13, <2>2 DEF Follows, a, b
    <3>2. ~Recording
      BY <2>2 DEF Recording
    <3>3. Closed(Key(b))
      BY <1>1, <1>6, <1>13, <3>1, <3>2, AllClosed DEF Replayable
    <3> QED BY <1>6, <2>1, <3>1, <3>3 DEF Closed
  <2> QED BY <1>1, <1>3, <1>4, <2>1, <2>2 DEF Follows, Up
<1>14. Following'
  BY <1>12, <1>13 DEF Following
<1> QED BY <1>11, <1>14 DEF Replayable

\* Giving up while recording is a cut; otherwise there is nothing to record.
LEMMA ReceiveErrorReplay ==
  ASSUME Accounted, Replayable, NEW c \in Clients, ReceiveError(c)
  PROVE  Replayable'
<1>1. req[c].reply.kind = "error" /\ req' = [req EXCEPT ![c] = Idle] /\ UNCHANGED <<conf, store>>
  BY DEF ReceiveError
<1>2. req'[c].reply.kind = "none" /\ \A d \in Clients \ {c} : req'[d] = req[d]
  BY <1>1, IdleTyped, IdleFields DEF Accounted, Local, TypeOK
<1>3. CASE UNCHANGED <<conv, broken>>
  BY <1>1, <1>2, <1>3, QuietReplay
<1>4. CASE conv' = [conv EXCEPT ![c].state = "failed"] /\ broken' = (broken \/ Recording)
  <2>1. ~broken' => ~broken /\ ~Recording
    BY <1>4, Zenon
  <2>2. conv'[c].state = "failed" /\ \A d \in Clients \ {c} : conv'[d] = conv[d]
    BY <1>4, EndedTyped DEF Accounted, Local, TypeOK
  <2>3. Complete'
    BY <1>1, <2>1, ClosedFrame DEF Replayable
  <2>4. Following'
    BY <1>1, <1>2, <2>1, <2>2, FollowingFrame DEF Replayable
  <2> QED BY <2>3, <2>4 DEF Replayable
<1> QED BY <1>3, <1>4, Zenon DEF ReceiveError, CutsShort

LEMMA ReceiveMissReplay ==
  ASSUME Accounted, Replayable, NEW c \in Clients, ReceiveMiss(c)
  PROVE  Replayable'
<1>1. /\ req[c].reply.kind = "miss" /\ req' = [req EXCEPT ![c] = Idle]
      /\ UNCHANGED <<conf, store, broken>> /\ conv' = [conv EXCEPT ![c].state = "gap"]
  BY DEF ReceiveMiss, ghosts
<1>2. ~Recording
  BY <1>1 DEF Recording, Accounted, Local, Proper
<1>3. \A d \in Clients \ {c} : req'[d] = req[d] /\ conv'[d] = conv[d]
  BY <1>1, IdleTyped, EndedTyped DEF Accounted, Local, TypeOK
<1>4. conv'[c].state = "gap"
  BY <1>1, EndedTyped DEF Accounted, Local, TypeOK
<1>5. Complete'
  BY <1>1, <1>2, ClosedFrame DEF Replayable
<1>6. Following'
  BY <1>1, <1>3, <1>4, FollowingFrame DEF Replayable
<1> QED BY <1>5, <1>6 DEF Replayable

LEMMA UnreachableReplay ==
  ASSUME Accounted, Replayable, NEW c \in Clients, Unreachable(c)
  PROVE  Replayable'
<1>1. ~Recording /\ UNCHANGED <<conf, store, req, broken>> /\ conv' = [conv EXCEPT ![c].state = "failed"]
  BY DEF Unreachable, Recording, gateway, ghosts
<1>2. conv'[c].state = "failed" /\ \A d \in Clients \ {c} : conv'[d] = conv[d]
  BY <1>1, EndedTyped DEF Accounted, Local, TypeOK
<1>3. Complete'
  BY <1>1, ClosedFrame DEF Replayable
<1>4. Following'
  BY <1>1, <1>2, FollowingFrame DEF Replayable
<1> QED BY <1>3, <1>4 DEF Replayable

LEMMA AnewReplay ==
  ASSUME Accounted, Replayable, NEW c \in Clients, NextAttempt(c) \/ NewRun(c)
  PROVE  Replayable'
<1>1. /\ conv[c].state # "ask" /\ req[c].reply.kind = "none" /\ Len(conv'[c].body) = 1
      /\ \A d \in Clients \ {c} : conv'[d] = conv[d]
      /\ UNCHANGED <<conf, store, req, broken>>
  BY AnewFacts, IdleFields DEF Accounted, gateway, ghosts
<1>2. ASSUME ~broken', NEW k \in DOMAIN store \cap Norms
      PROVE  Closed(k)' \/ (Recording /\ conf.normalize /\ \E d \in Clients : Covers(d, k)')
  <2>1. Closed(k) => Closed(k)'
    BY <1>1, ClosedKept
  <2>2. ASSUME NEW d \in Clients, Covers(d, k)
        PROVE  Covers(d, k)'
    <3>1. d # c
      BY <1>1, <2>2 DEF Covers
    <3> QED BY <1>1, <2>2, <3>1, CoversKept
  <2> QED BY <1>1, <1>2, <2>1, <2>2 DEF Replayable, Complete
<1>3. Complete'
  BY <1>1, <1>2 DEF Complete, Norms, Recording, Up
<1>4. ASSUME ~broken', NEW d \in Clients \ {c}, conv'[d].state = "ask"
      PROVE  Follows(d)'
  BY <1>1, <1>4, FollowsFrame DEF Replayable, Following
<1>5. Follows(c)'
  BY <1>1 DEF Follows
<1>6. Following'
  BY <1>4, <1>5 DEF Following
<1> QED BY <1>3, <1>6 DEF Replayable

LEMMA ServeReplay ==
  ASSUME Accounted, Replayable, NEW c \in Clients, Serve(c)
  PROVE  Replayable'
<1>1. CASE GetToken(c)
  BY <1>1, MovedReplay DEF GetToken, Busy, ghosts
<1>2. CASE Locked(c)
  BY <1>2, MovedReplay DEF Locked, Busy, ghosts
<1>3. CASE Minted(c)
  BY <1>3, MovedReplay DEF Minted, Busy
<1>4. CASE MintFails(c)
  BY <1>4, FailedReplay DEF MintFails, Busy, ghosts
<1>5. CASE PostFails(c)
  BY <1>5, FailedReplay DEF PostFails, Busy, ghosts
<1> QED BY <1>1, <1>2, <1>3, <1>4, <1>5, PostOkReplay DEF Serve

LEMMA NextReplay == Accounted /\ Replayable /\ [Next]_vars => Replayable'
<1> SUFFICES ASSUME Accounted, Replayable, [Next]_vars PROVE Replayable'
  OBVIOUS
<1>1. ASSUME NEW s \in Scopes, Expire(s)
      PROVE  Replayable'
  BY <1>1, QuietReplay DEF Expire
<1>2. CASE UNCHANGED vars
  BY <1>2, QuietReplay DEF vars, gateway, ghosts
<1> QED BY <1>1, <1>2, StartupReplay, StopReplay, RequestReplay, ServeReplay, ReceiveReplay,
           ReceiveErrorReplay, ReceiveMissReplay, UnreachableReplay, AnewReplay DEF Next

\* The promise behind replay mode: with normalised keys, and unless a recording was
\* cut short or a cache access failed, a conversation whose opening was recorded is
\* never answered with a miss; for any number of workers, conversations of any
\* length, any mixture of configurations and any order in which the recordings
\* overwrote each other.
THEOREM GatewayReplayNeverMisses == Spec => []ReplayNeverMisses
<1>1. Init => Accounted /\ Replayable
  BY InitAccounted, InitReplay
<1>2. Accounted /\ Replayable /\ [Next]_vars => Accounted' /\ Replayable'
  BY NextAccounted, NextReplay
<1>3. Accounted /\ Replayable => ReplayNeverMisses
  <2> SUFFICES ASSUME Accounted, Replayable, NEW c \in Clients, req[c].reply.kind = "miss",
                      Len(conv[c].body) > 1, ~broken, conf.normalize
               PROVE  FALSE
    BY DEF ReplayNeverMisses
  <2>1. req[c].pc = "reply" /\ conf.mode = "replay"
    BY IdleFields DEF Accounted, Local, Proper
  <2>2. Up /\ conv[c].state = "ask"
    BY <2>1, ReplyFacts DEF Accounted
  <2>3. Len(conv[c].body) = 1
    BY <2>1, <2>2 DEF Replayable, Following, Follows
  <2> QED BY <2>3
<1> QED BY <1>1, <1>2, <1>3, PTL DEF Spec
=============================================================================
