----------------------------- MODULE LlmGateway -----------------------------
(***************************************************************************)
(* The LLM gateway (src/llm_gateway) between the workers' conversations    *)
(* and the model backends: configuration and its validation, the ordered   *)
(* inference policy, the response cache in its four modes, the key derived *)
(* from a request, the forward with its narrow retry, the bearer tokens    *)
(* minted under a per-scope lock, and the price reported to the worker.    *)
(*                                                                         *)
(* One asyncio process serves every client.  A handler runs without        *)
(* interruption between two awaits, so each action below is the code       *)
(* between two awaits.  The sqlite file outlives the process; everything   *)
(* else is lost when it dies.                                              *)
(*                                                                         *)
(* A request body is the list of the messages the worker sent.  A message  *)
(* is the assistant's answer that led to it, what the tool reported, and   *)
(* the volatile rest of the text (time stamps, run and call identifiers),  *)
(* which the number of the run stands for.                                 *)
(***************************************************************************)
EXTENDS Naturals, Sequences, FiniteSets

CONSTANTS
    Clients,        \* the workers that talk to the gateway
    Minis,          \* those of them that send no X-Sdlcma-Attempt header
    Answers,        \* what a model can answer
    Final,          \* the answers that end a conversation
    Files,          \* the configuration files the gateway can be started with
    NoConf,         \* the process is not running
    NoEntry,        \* the cache has no entry for a key
    NoCost,         \* the cost of a call is not known
    NoHeader,       \* a request without X-Sdlcma-Attempt
    MaxMessages,    \* bound: messages of a conversation (the worker's MAX_STEPS)
    MaxAttempt,     \* bound: entries into the worker's loop after the first
    MaxStarts,      \* bound: starts of the gateway process
    MaxRuns,        \* bound: conversations a client begins anew
    MaxFaults       \* bound: failed calls, mints, cache accesses, expired tokens

ASSUME GatewayAssumption ==
    /\ Minis \subseteq Clients
    /\ Final \subseteq Answers
    /\ MaxMessages \in Nat \ {0}
    /\ MaxAttempt \in Nat /\ MaxStarts \in Nat /\ MaxRuns \in Nat /\ MaxFaults \in Nat
    /\ NoConf \notin Files
    /\ \A f \in Files : /\ f.order \in Seq({f.order[i] : i \in DOMAIN f.order})
                        /\ f.backends \in Seq({f.backends[i] : i \in DOMAIN f.backends})

VARIABLES
    conf,       \* _state["config"], or NoConf
    store,      \* the rows of cache_entries: request key |-> entry
    token,      \* scope |-> the provider holds a token that is still valid
    lock,       \* scope |-> the tasks at its asyncio.Lock, the holder first
    req,        \* client |-> its request inside the gateway
    conv,       \* client |-> its conversation
    starts, runs, faults,   \* counters of the bounds
    \* What the properties compare with:
    minted,     \* scope |-> tokens minted since the last one expired
    owed,       \* client |-> priced upstream answers not yet debited by the worker
    broken      \* a recording was cut short, or a cache access failed

gateway == <<conf, store, token, lock, req>>
ghosts  == <<minted, owed, broken>>
bounds  == <<starts, runs, faults>>
vars    == <<gateway, conv, bounds, ghosts>>

-----------------------------------------------------------------------------
(* Configuration: config.py *)

AuthModes  == {"api_key", "entra", "gcp"}
Keyless    == {"entra", "gcp"}
CacheModes == {"disabled", "record", "replay", "cache"}
Profiles   == {"chat", "reasoning"}

Elements(s) == {s[i] : i \in DOMAIN s}
NoDuplicate(s) == Cardinality(Elements(s)) = Len(s)

(* _parse_backend: one entry of the `backends` list.  A key beside keyless *)
(* authentication is refused; a missing key means a self-hosted backend.   *)
BackendParses(b) ==
    /\ b.auth \in AuthModes
    /\ b.auth \in Keyless => ~b.key
    /\ b.profile \in Profiles

(* _parse_policy: a non-empty order of known names, each at most once.     *)
PolicyParses(f) ==
    /\ f.order # <<>>
    /\ Elements(f.order) \subseteq {b.name : b \in Elements(f.backends)}
    /\ NoDuplicate(f.order)

(* _parse_cache: an enabled cache names its database file.                 *)
CacheParses(f) == f.mode \in CacheModes /\ (f.mode # "disabled" => f.db)

(* load_config; any error aborts the process at startup.                   *)
ConfigLoads(f) ==
    /\ f.backends # <<>>
    /\ \A b \in Elements(f.backends) : BackendParses(b)
    /\ NoDuplicate([i \in DOMAIN f.backends |-> f.backends[i].name])
    /\ PolicyParses(f)
    /\ CacheParses(f)

Names(f) == {b.name : b \in Elements(f.backends)}
Backend(f, name) == CHOOSE b \in Elements(f.backends) : b.name = name
AllNames == UNION {Names(f) : f \in Files}
Entries == [answer : Answers, backend : AllNames]
ASSUME NoEntryAssumption == NoEntry \notin Entries

Caching == conf.mode # "disabled"

-----------------------------------------------------------------------------
(* The policy: policy.py *)

(* parse_attempt_header: absent or malformed means 0.                      *)
ParseAttempt(header) == IF header = NoHeader THEN 0 ELSE header

(* InferencePolicy.select                                                  *)
Select(attempt) ==
    LET last == Len(conf.order) - 1
        idx  == IF ~conf.advance THEN 0
                ELSE IF attempt < last THEN attempt ELSE last
    IN  conf.order[idx + 1]

-----------------------------------------------------------------------------
(* The key: keying.py *)

(* _normalize_messages drops the assistant's messages and the call ids;    *)
(* _normalize_volatile_content drops the rest of what differs between runs *)
(* when the configuration asks for it.  The model name, the tools and the  *)
(* parameters are the same in every request of a worker.                   *)
Kept(m) == IF conf.normalize THEN <<m.result>> ELSE <<m.result, m.noise>>
DeriveKeyWithAnswers(body) ==
    [i \in DOMAIN body |-> <<body[i].answer, body[i].result, body[i].noise>>]
DeriveKey(body) == [i \in DOMAIN body |-> Kept(body[i])]

-----------------------------------------------------------------------------
(* Cost: cost.py, PricingConfig *)

(* cost_of: None when the backend declares no pricing or the upstream      *)
(* reported no usage; one unit stands for the priced tokens of a call.     *)
CostOf(b) == IF b.reports /\ b.priced THEN 1 ELSE NoCost

(* _record_cache_saving: a hit is priced with the backend that served it,  *)
(* when the configuration still has it.                                    *)
Saving(entry) ==
    /\ entry.backend \in Names(conf)
    /\ CostOf(Backend(conf, entry.backend)) # NoCost

-----------------------------------------------------------------------------
(* Clients: the worker's conversation, react_loop and services/llm_client *)

Opening == "trace"
Messages == [answer : Answers \cup {"none"},
             result : Answers \cup {Opening}, noise : 0..MaxRuns]

(* A new entry into the loop builds the messages anew.                     *)
Fresh(attempt, n) ==
    [attempt |-> attempt, state |-> "ask",
     body |-> <<[answer |-> "none", result |-> Opening, noise |-> n]>>]

NoReply == [kind |-> "none"]
Idle == [pc |-> "idle", backend |-> "none", reply |-> NoReply]
Up == conf # NoConf

Recording == Up /\ conf.mode \in {"record", "cache"}
(* Abandoning a conversation that is being recorded leaves a gap.          *)
CutsShort == broken' = (broken \/ Recording)
UnderWay(c) == conv[c].state = "ask" /\ (Len(conv[c].body) > 1 \/ req[c].pc # "idle")

-----------------------------------------------------------------------------
(* The process *)

Scopes == {"entra", "gcp"}

Init ==
    /\ conf = NoConf
    /\ store = [k \in {} |-> NoEntry]
    /\ token = [s \in Scopes |-> FALSE]
    /\ lock = [s \in Scopes |-> <<>>]
    /\ req = [c \in Clients |-> Idle]
    /\ conv = [c \in Clients |-> Fresh(0, 0)]
    /\ starts = 0 /\ runs = 0 /\ faults = 0
    /\ minted = [s \in Scopes |-> 0]
    /\ owed = [c \in Clients |-> 0]
    /\ broken = FALSE

(* _startup: a file that does not load leaves the process down; otherwise  *)
(* new token providers and the cache file reopened.                         *)
Startup(f) ==
    /\ ~Up
    /\ starts < MaxStarts
    /\ starts' = starts + 1
    /\ IF ConfigLoads(f)
       THEN /\ conf' = f
            /\ token' = [s \in Scopes |-> FALSE]
            /\ minted' = [s \in Scopes |-> 0]
       ELSE UNCHANGED <<conf, token, minted>>
    /\ UNCHANGED <<store, lock, req, conv, runs, faults, owed, broken>>

(* The process ends, by _shutdown or by a crash: requests inside it are    *)
(* never answered, and their clients see the connection break.  A          *)
(* conversation under way then is not one recording, nor one replay.       *)
Stop ==
    /\ Up
    /\ starts < MaxStarts
    /\ conf' = NoConf
    /\ lock' = [s \in Scopes |-> <<>>]
    /\ req' = [c \in Clients |-> Idle]
    /\ owed' = [c \in Clients |-> 0]
    /\ broken' = (broken \/ \E c \in Clients : UnderWay(c))
    /\ UNCHANGED <<store, token, conv, bounds, minted>>

-----------------------------------------------------------------------------
(* chat_completions *)

Answered(c, r) == req' = [req EXCEPT ![c] = [Idle EXCEPT !.pc = "reply", !.reply = r]]

HitBilled(entry) ==
    [kind |-> "ok", answer |-> entry.answer, backend |-> entry.backend,
     cost |-> CostOf(Backend(conf, entry.backend)), saved |-> Saving(entry)]
Hit(entry) == [kind |-> "ok", answer |-> entry.answer, backend |-> entry.backend,
               cost |-> 0, saved |-> Saving(entry)]
Failure(b) == [kind |-> "error", backend |-> b]
Miss409 == [kind |-> "miss"]

(* Cache.get: a row, no row, or an sqlite error that reads as no row.      *)
Lookup(key) == IF key \in DOMAIN store THEN store[key] ELSE NoEntry

(* Selection and the start of _forward: the bearer of a static key is at   *)
(* hand, the others come from a provider.                                  *)
Forward(c, header) ==
    LET b == Select(ParseAttempt(header))
    IN  req' = [req EXCEPT ![c] =
                   [pc |-> IF Backend(conf, b).auth \in Keyless THEN "token" ELSE "post",
                    backend |-> b, reply |-> NoReply]]

(* What the handler does with the row the cache returned.                  *)
Handle(c, header, entry) ==
    \/ /\ entry # NoEntry
       /\ Answered(c, Hit(entry))
    \/ /\ entry = NoEntry /\ Caching /\ conf.mode = "replay"
       /\ Answered(c, Miss409)
    \/ /\ entry = NoEntry /\ (Caching => conf.mode # "replay")
       /\ Forward(c, header)

Header(c) == IF c \in Minis THEN NoHeader ELSE conv[c].attempt

Request(c) ==
    /\ Up
    /\ req[c].pc = "idle" /\ conv[c].state = "ask"
    /\ \/ /\ Handle(c, Header(c), IF conf.mode \in {"replay", "cache"}
                                  THEN Lookup(DeriveKey(conv[c].body))
                                  ELSE NoEntry)
          /\ UNCHANGED <<faults, broken>>
       \/ /\ conf.mode \in {"replay", "cache"}
          /\ faults < MaxFaults /\ faults' = faults + 1 /\ broken' = TRUE
          /\ Handle(c, Header(c), NoEntry)
    /\ UNCHANGED <<conf, store, token, lock, conv, starts, runs,
                   minted, owed>>

Scope(c) == Backend(conf, req[c].backend).auth

(* get_token, the path without the lock.                                   *)
GetToken(c) ==
    /\ req[c].pc = "token"
    /\ LET s == Scope(c)
       IN  IF token[s]
           THEN /\ req' = [req EXCEPT ![c].pc = "post"]
                /\ UNCHANGED lock
           ELSE /\ req' = [req EXCEPT ![c].pc = "lock"]
                /\ lock' = [lock EXCEPT ![s] = Append(@, c)]
    /\ UNCHANGED <<conf, store, token, conv, bounds, ghosts>>

Holds(c, s) == lock[s] # <<>> /\ Head(lock[s]) = c
Released(s) == lock' = [lock EXCEPT ![s] = Tail(@)]

(* get_token, once the lock is held: look again, then mint in a thread.    *)
LockedNoRecheck(c) ==
    /\ req[c].pc = "lock"
    /\ Holds(c, Scope(c))
    /\ req' = [req EXCEPT ![c].pc = "mint"]
    /\ UNCHANGED <<conf, store, token, lock, conv, bounds, ghosts>>
Locked(c) ==
    /\ req[c].pc = "lock"
    /\ LET s == Scope(c)
       IN  /\ Holds(c, s)
           /\ IF token[s]
              THEN req' = [req EXCEPT ![c].pc = "post"] /\ Released(s)
              ELSE req' = [req EXCEPT ![c].pc = "mint"] /\ UNCHANGED lock
    /\ UNCHANGED <<conf, store, token, conv, bounds, ghosts>>

(* _mint came back: the token is kept, and leaving the block releases.     *)
Minted(c) ==
    /\ req[c].pc = "mint"
    /\ LET s == Scope(c)
       IN  /\ token' = [token EXCEPT ![s] = TRUE]
           /\ minted' = [minted EXCEPT ![s] = @ + 1]
           /\ Released(s)
    /\ req' = [req EXCEPT ![c].pc = "post"]
    /\ UNCHANGED <<conf, store, conv, bounds, owed, broken>>

(* The failure branch of chat_completions.                                 *)
Failed(c) == Answered(c, Failure(req[c].backend))

(* _mint raised: GatewayAuthError or GcpAuthError, which _forward turns    *)
(* into a failure without a retry.                                         *)
MintFailsKeepingLock(c) ==
    /\ req[c].pc = "mint"
    /\ faults < MaxFaults /\ faults' = faults + 1
    /\ Failed(c)
    /\ UNCHANGED <<conf, store, token, lock, conv, starts, runs, ghosts>>
MintFails(c) ==
    /\ req[c].pc = "mint"
    /\ faults < MaxFaults /\ faults' = faults + 1
    /\ Released(Scope(c))
    /\ Failed(c)
    /\ UNCHANGED <<conf, store, token, conv, starts, runs, ghosts>>

(* A token comes within its refresh margin of its expiry.                  *)
Expire(s) ==
    /\ token[s]
    /\ faults < MaxFaults /\ faults' = faults + 1
    /\ token' = [token EXCEPT ![s] = FALSE]
    /\ minted' = [minted EXCEPT ![s] = 0]
    /\ UNCHANGED <<conf, store, lock, req, conv, starts, runs,
                   owed, broken>>

-----------------------------------------------------------------------------
(* _forward *)

MaxTries == 3       \* 1 + len(_TRANSIENT_RETRY_DELAYS)
TempParams == {"temperature"}
WorkerParams == {"temperature", "timeout"}

(* apply_param_profile: what a reasoning model rejects is not sent.        *)
Profiled(b) == IF b.profile = "reasoning" THEN WorkerParams \ TempParams ELSE WorkerParams
Rejects(b) == b.profile = "reasoning" /\ Profiled(b) \cap TempParams # {}

(* The loop of _forward: post until a result is not transient, at most     *)
(* MaxTries times; the last result is the outcome.                         *)
Posts == [1..MaxTries -> {"ok", "transient", "permanent"}]
Outcome(posts) ==
    LET settled == {i \in 1..MaxTries : posts[i] # "transient"}
    IN  IF settled = {} THEN "transient"
        ELSE posts[CHOOSE i \in settled : \A j \in settled : i <= j]
Outcomes == {Outcome(posts) : posts \in Posts}

(* Cache.put, an upsert: the latest recording wins.                        *)
Put(key, entry) ==
    store' = [k \in DOMAIN store \cup {key} |-> IF k = key THEN entry ELSE store[k]]

(* A response below 400: the call is metered, the answer is stored in the *)
(* modes that record, and returned.                                        *)
PostOk(c, a) ==
    /\ req[c].pc = "post"
    /\ "ok" \in Outcomes
    /\ LET name == req[c].backend
           b    == Backend(conf, name)
           cost == CostOf(b)
       IN  /\ ~Rejects(b)
           /\ owed' = [owed EXCEPT ![c] = @ + (IF cost = NoCost THEN 0 ELSE cost)]
           /\ Answered(c, [kind |-> "ok", answer |-> a, backend |-> name,
                           cost |-> cost, saved |-> FALSE])
           /\ \/ /\ Recording
                 /\ Put(DeriveKey(conv[c].body),
                        [answer |-> a, backend |-> name])
                 /\ UNCHANGED <<faults, broken>>
              \/ /\ Recording
                 /\ faults < MaxFaults /\ faults' = faults + 1 /\ broken' = TRUE
                 /\ UNCHANGED store
              \/ ~Recording /\ UNCHANGED <<store, faults, broken>>
    /\ UNCHANGED <<conf, token, lock, conv, starts, runs, minted>>

(* Every post met a network error or a status worth retrying, or one met   *)
(* another status or httpx error, which fails at once.                     *)
PostFails(c) ==
    /\ req[c].pc = "post"
    /\ \/ Rejects(Backend(conf, req[c].backend)) /\ UNCHANGED faults
       \/ /\ Outcomes # {"ok"}
          /\ faults < MaxFaults /\ faults' = faults + 1
    /\ Failed(c)
    /\ UNCHANGED <<conf, store, token, lock, conv, starts, runs, ghosts>>

-----------------------------------------------------------------------------
(* The worker *)

(* _on_response keeps the backend and the cost of the call; cost_of_call   *)
(* debits the run with it, unless it is unknown.                           *)
Debited(c, r) ==
    owed' = [owed EXCEPT ![c] = @ - (IF r.cost = NoCost THEN 0 ELSE r.cost)]

Proceeds(c, a) ==
    conv' = [conv EXCEPT ![c] =
        IF a \in Final \/ Len(@.body) = MaxMessages
        THEN [@ EXCEPT !.state = "done"]
        ELSE [@ EXCEPT !.body = Append(conv[c].body, [answer |-> a, result |-> a, noise |-> runs])]]

(* An answer: the loop runs the tool and asks again, or it is through.     *)
Receive(c) ==
    LET r == req[c].reply
    IN  /\ req[c].pc = "reply" /\ r.kind = "ok"
        /\ Debited(c, r)
        /\ Proceeds(c, r.answer)
        /\ req' = [req EXCEPT ![c] = Idle]
        /\ UNCHANGED <<conf, store, token, lock, bounds, minted, broken>>

(* An error: the worker's own retry asks again, or the run gives up.       *)
ReceiveError(c) ==
    /\ req[c].pc = "reply" /\ req[c].reply.kind = "error"
    /\ req' = [req EXCEPT ![c] = Idle]
    /\ \/ UNCHANGED <<conv, broken>>
       \/ conv' = [conv EXCEPT ![c].state = "failed"] /\ CutsShort
    /\ UNCHANGED <<conf, store, token, lock, bounds, minted, owed>>

(* 409: a cache gap, which no retry cures.                                 *)
ReceiveMiss(c) ==
    /\ req[c].pc = "reply" /\ req[c].reply.kind = "miss"
    /\ req' = [req EXCEPT ![c] = Idle]
    /\ conv' = [conv EXCEPT ![c].state = "gap"]
    /\ UNCHANGED <<conf, store, token, lock, bounds, ghosts>>

(* The gateway cannot be reached and the worker's retries run out.         *)
Unreachable(c) ==
    /\ ~Up /\ conv[c].state = "ask"
    /\ conv' = [conv EXCEPT ![c].state = "failed"]
    /\ UNCHANGED <<gateway, bounds, ghosts>>

(* The graph enters the loop once more, with the counter behind            *)
(* X-Sdlcma-Attempt one higher and the same opening messages.              *)
NextAttempt(c) ==
    /\ conv[c].state = "done" /\ conv[c].attempt < MaxAttempt
    /\ runs < MaxRuns /\ runs' = runs + 1
    /\ conv' = [conv EXCEPT ![c] = Fresh(@.attempt + 1, runs')]
    /\ UNCHANGED <<gateway, starts, faults, ghosts>>

(* Another run of the same fixture.                                        *)
NewRun(c) ==
    /\ conv[c].state \in {"done", "failed", "gap"}
    /\ runs < MaxRuns /\ runs' = runs + 1
    /\ conv' = [conv EXCEPT ![c] = Fresh(0, runs')]
    /\ UNCHANGED <<gateway, starts, faults, minted, owed, broken>>

-----------------------------------------------------------------------------
Serve(c) ==
    \/ GetToken(c) \/ Locked(c) \/ Minted(c) \/ MintFails(c)
    \/ \E a \in Answers : PostOk(c, a)
    \/ PostFails(c)

Next ==
    \/ \E f \in Files : Startup(f)
    \/ Stop
    \/ \E s \in Scopes : Expire(s)
    \/ \E c \in Clients :
          \/ Request(c)
          \/ Serve(c)
          \/ ReceiveError(c) \/ ReceiveMiss(c) \/ Unreachable(c)
          \/ Receive(c) \/ NextAttempt(c) \/ NewRun(c)

Spec == Init /\ [][Next]_vars

(* The event loop runs every task that is ready, an asyncio.Lock serves    *)
(* its waiters in turn, a mint returns and a post is bounded by            *)
(* request_timeout.  Nothing is assumed of the process's life or of what   *)
(* the clients decide to ask.                                              *)
FairSpec == Spec /\ \A c \in Clients : WF_vars(Serve(c))

-----------------------------------------------------------------------------
Replies == {NoReply, Miss409} \cup [kind : {"error"}, backend : AllNames]
           \cup [kind : {"ok"}, answer : Answers, backend : AllNames,
                 cost : {0, 1, NoCost}, saved : BOOLEAN]

Requests == [pc : {"idle", "token", "lock", "mint", "post", "reply"},
             backend : AllNames \cup {"none"}, reply : Replies]
Conversations == [attempt : 0..MaxAttempt, state : {"ask", "done", "failed", "gap"},
                  body : Seq(Messages)]
KeyParts == {<<r>> : r \in Answers \cup {Opening}}
            \cup ((Answers \cup {Opening}) \X (0..MaxRuns))

(* Every variable has its type.                                            *)
TypeOK ==
    /\ conf \in Files \cup {NoConf}
    /\ DOMAIN store \subseteq Seq(KeyParts) \ {<<>>} /\ store \in [DOMAIN store -> Entries]
    /\ token \in [Scopes -> BOOLEAN]
    /\ lock \in [Scopes -> Seq(Clients)]
    /\ req \in [Clients -> Requests]
    /\ conv \in [Clients -> Conversations]
    /\ runs \in 0..MaxRuns /\ faults \in 0..MaxFaults /\ starts \in 0..MaxStarts
    /\ minted \in [Scopes -> Nat] /\ owed \in [Clients -> Nat] /\ broken \in BOOLEAN

(* A replay is deterministic and complete (the promise behind replay mode, *)
(* keying.py 3-9): when the keys are normalised and no recording was cut   *)
(* short, a conversation whose opening was recorded is never answered with *)
(* a miss, whatever the interleaving of the recordings that overwrote each *)
(* other.                                                                  *)
ReplayNeverMisses ==
    \A c \in Clients :
        req[c].reply.kind = "miss" /\ Len(conv[c].body) > 1 => broken \/ ~conf.normalize

(* A burst on a stale token mints one token, not one per request           *)
(* (azure_auth.py 100-102, gcp_auth.py 151-155): between two expiries at   *)
(* most one mint of a scope succeeds.                                      *)
SingleFlight == \A s \in Scopes : minted[s] <= 1

(* The worker debits its run with exactly what the backends' priced        *)
(* answers to it cost: a hit costs nothing, an unknown cost debits         *)
(* nothing, a failed call is not billed (app.py, cost.py 14-15).           *)
HonestBill ==
    \A c \in Clients :
        owed[c] = IF req[c].reply.kind = "ok" /\ req[c].reply.cost # NoCost
                  THEN req[c].reply.cost ELSE 0

(* Every request the gateway takes is answered while the process lives:    *)
(* no failed mint, expired token or queue at a lock leaves one behind.     *)
EveryRequestAnswered ==
    \A c \in Clients : req[c].pc # "idle" ~> req[c].pc \in {"reply", "idle"}
=============================================================================
