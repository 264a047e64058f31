------------------------------- MODULE Intake -------------------------------
(***************************************************************************)
(* The way of an event from the webhook to the orchestrator's handler: the *)
(* gateway authenticates a post with keys it caches and forwards it to a   *)
(* Redis stream; the stream consumer reads it through a consumer group,    *)
(* hands it to the orchestrator, which spawns a worker or routes a CI      *)
(* result to one, and acknowledges it or moves it to the dead letters.     *)
(*                                                                         *)
(* An entry of the stream is the post it carries.  A Redis error may hit a *)
(* call before or after the server has executed it.                        *)
(***************************************************************************)
EXTENDS Integers, Sequences, FiniteSets, SequencesExt

CONSTANTS
  Posts,        \* the posts to /webhook
  Content,      \* what each of them carries
  OldKeys, NewKeys,  \* the signing keys of the issuer before and after a rotation
  AuthMode,     \* webhook_auth_mode: "none", "oidc", or anything else
  Configured,   \* OIDC_ISSUER and OIDC_AUDIENCE are set
  Pull,         \* the spawner is the dispatcher of pull mode
  MaxLen,       \* gateway_stream_maxlen
  Count,        \* entries per XREADGROUP
  MaxPasses,    \* max_passes of _drain_pending
  MaxCrashes, MaxErrors  \* bounds on faults

ASSUME IntakeAssumption ==
  /\ MaxLen \in Nat \ {0} /\ Count \in Nat \ {0} /\ MaxPasses \in Nat \ {0}
  /\ MaxCrashes \in Nat /\ MaxErrors \in Nat
  /\ Configured \in BOOLEAN /\ Pull \in BOOLEAN

VARIABLES
  gpc,        \* the gateway's handling of each post
  published,  \* the keys at the issuer's JWKS url
  cached,     \* the cached key set, {} if there is none
  recent      \* a forced refresh is less than min_refresh_seconds ago

VARIABLES
  log,        \* the posts ever added to the stream
  first,      \* position of the oldest one that has not been trimmed
  next,       \* position behind the last one delivered to the group
  pel,        \* delivered and not acknowledged
  dead, blank \* dead letters with the post's data, and without

VARIABLES
  cpc,        \* the consumer: "down", "group", "drain" or "loop"
  passes,     \* passes of _drain_pending
  batch,      \* entries in hand
  step,       \* what is next for the first of them
  registry,   \* status of the worker of a reported bug
  running     \* reported bugs whose worker runs

VARIABLES
  handled,    \* history: times the handler came to its end for the post
  cuts,       \* history: times a post was handled or buried and not acknowledged
  missed,     \* history: CI results that no inbox took although the worker runs
  crashes, errors

gateway  == <<gpc, published, cached, recent>>
stream   == <<log, first, next, pel, dead, blank>>
consumer == <<cpc, passes, batch, step>>
work     == <<registry, running>>
history  == <<handled, cuts, missed>>
faults   == <<crashes, errors>>
vars     == <<gateway, stream, consumer, work, history, faults>>

Init ==
  /\ gpc = [p \in Posts |-> "new"] /\ published = OldKeys /\ cached = {} /\ recent = FALSE
  /\ log = <<>> /\ first = 1 /\ next = 1 /\ pel = {} /\ dead = {} /\ blank = {}
  /\ cpc = "down" /\ passes = 0 /\ batch = <<>> /\ step = "none"
  /\ registry = [p \in Posts |-> "none"] /\ running = {}
  /\ handled = [p \in Posts |-> 0] /\ cuts = [p \in Posts |-> 0] /\ missed = {}
  /\ crashes = 0 /\ errors = 0

Error == errors < MaxErrors /\ errors' = errors + 1 /\ UNCHANGED crashes

-----------------------------------------------------------------------------
(* parse_message(): what the orchestrator takes a body for.                *)

ParseMessage(b) ==
  IF ~b.attributes                              THEN "error"
  ELSE IF b.ref = "fix"                         THEN "validation"
  ELSE IF b.ref # "auto" /\ b.pipeline /\ b.failed THEN "bug"
  ELSE "other"

Kind(p) == ParseMessage(Content[p].body)

-----------------------------------------------------------------------------
(* The gateway.                                                            *)

\* jwt.decode() with the key, then authorize_project().
Verdict(p) ==
  IF Content[p].claims # "ok"         THEN "401"
  ELSE IF Content[p].project # "same" THEN "403"
  ELSE "admitted"

Pass(p, to) == gpc' = [gpc EXCEPT ![p] = to]

\* The CI of a fix branch runs after its bug's worker was started.
Caused(p) == Kind(p) = "validation" => handled[Content[p].body.of] > 0

\* webhook() up to the gate.
Arrive(p) ==
  /\ gpc[p] = "new" /\ Caused(p)
  /\ Pass(p, IF AuthMode = "none"        THEN "admitted"
             ELSE IF AuthMode # "oidc"   THEN "500"
             ELSE IF ~Content[p].bearer  THEN "401"
             ELSE IF ~Configured         THEN "500"
             ELSE "lookup")
  /\ UNCHANGED <<published, cached, recent, stream, consumer, work, history, faults>>

\* signing_key(), fast path: the cached set, fetched if there is none.  An error
\* of the fetch is swallowed.
Lookup(p) ==
  /\ gpc[p] = "lookup"
  /\ \/ /\ cached' = IF cached = {} THEN published ELSE cached
        /\ UNCHANGED faults
     \/ cached = {} /\ Error /\ UNCHANGED cached
  /\ Pass(p, IF Content[p].kid \in cached' THEN Verdict(p) ELSE "throttle")
  /\ UNCHANGED <<published, recent, stream, consumer, work, history>>

\* The throttle, under the resolver's lock.
Throttle(p) ==
  /\ gpc[p] = "throttle"
  /\ recent' = TRUE
  /\ Pass(p, IF recent THEN "unknown_key" ELSE "fetch")
  /\ UNCHANGED <<published, cached, stream, consumer, work, history, faults>>

\* Mutant: the cached set is all that is looked at.
FetchKeyCached(p) ==
  /\ gpc[p] = "fetch"
  /\ Pass(p, IF Content[p].kid \in cached THEN Verdict(p) ELSE "unknown_key")
  /\ UNCHANGED <<published, cached, recent, stream, consumer, work, history, faults>>

\* get_signing_key_from_jwt(): the cached set once more, then a fetch.  A fetch
\* that fails leaves no cached set.
FetchKey(p) ==
  /\ gpc[p] = "fetch"
  /\ \/ /\ cached' = IF Content[p].kid \in cached THEN cached ELSE published
        /\ Pass(p, IF Content[p].kid \in cached' THEN Verdict(p) ELSE "unknown_key")
        /\ UNCHANGED faults
     \/ /\ Content[p].kid \notin cached
        /\ Error /\ cached' = {} /\ Pass(p, "unknown_key")
  /\ UNCHANGED <<published, recent, stream, consumer, work, history>>

\* XADD with MAXLEN ~ n: once the stream is longer, its oldest entries may go,
\* whether they have been delivered or not.
AddEntry(p) ==
  /\ log' = log \o <<p>>
  /\ \E f \in first..(Len(log) + 1) :
       /\ first' = f
       /\ f > first => Len(log) + 1 - first + 1 > MaxLen /\ Len(log) + 2 - f >= MaxLen

Forward(p) ==
  /\ gpc[p] = "admitted" /\ Pass(p, "sent") /\ AddEntry(p)
  /\ UNCHANGED <<published, cached, recent, next, pel, dead, blank>>
  /\ UNCHANGED <<consumer, work, history, faults>>

\* The client gets a 500, and the event may be in the stream all the same.
ForwardFails(p) ==
  /\ gpc[p] = "admitted" /\ Pass(p, "500") /\ Error
  /\ \/ AddEntry(p)
     \/ UNCHANGED <<log, first>>
  /\ UNCHANGED <<published, cached, recent, next, pel, dead, blank, consumer, work, history>>

\* "retry shortly": the job posts again.
Repost(p) ==
  /\ gpc[p] = "unknown_key" /\ Pass(p, "new")
  /\ UNCHANGED <<published, cached, recent, stream, consumer, work, history, faults>>

Rotate ==
  /\ published # NewKeys /\ published' = NewKeys
  /\ UNCHANGED <<gpc, cached, recent, stream, consumer, work, history, faults>>

\* lifespan of the cached set, min_refresh_seconds.
CacheExpires ==
  /\ cached # {} /\ cached' = {}
  /\ UNCHANGED <<gpc, published, recent, stream, consumer, work, history, faults>>

ThrottleEnds ==
  /\ recent /\ recent' = FALSE
  /\ UNCHANGED <<gpc, published, cached, stream, consumer, work, history, faults>>

-----------------------------------------------------------------------------
(* The consumer's task.                                                    *)

Position(p) == CHOOSE k \in 1..Len(log) : log[k] = p
Trimmed(p)  == Position(p) < first
Take(s)     == SubSeq(s, 1, IF Len(s) < Count THEN Len(s) ELSE Count)

\* run() and start(): the task runs, in a process without memory of the last one.
Start ==
  /\ cpc = "down" /\ cpc' = "group"
  /\ UNCHANGED <<gateway, stream, passes, batch, step, work, history, faults>>

\* _ensure_group(); an error of it is retried after a second.
EnsureGroup ==
  /\ cpc = "group" /\ cpc' = "drain"
  /\ UNCHANGED <<gateway, stream, passes, batch, step, work, history, faults>>

Begin(entries) == batch' = entries /\ step' = IF entries = <<>> THEN "none" ELSE "handle"

\* Mutant: the consumer does not ask for what was delivered to it before.
DrainNothing ==
  /\ cpc = "drain" /\ batch = <<>> /\ cpc' = "loop"
  /\ UNCHANGED <<gateway, stream, passes, batch, step, work, history, faults>>

\* The first Count pending entries, in the order of the stream.
Oldest(s) ==
  /\ \A i, j \in DOMAIN s : i < j => Position(s[i]) < Position(s[j])
  /\ \A p \in pel \ ToSet(s) :
       Len(s) = Count /\ \A i \in DOMAIN s : Position(s[i]) < Position(p)

\* _drain_pending(): a pass over what an earlier process was given.
DrainRead ==
  /\ cpc = "drain" /\ batch = <<>>
  /\ IF pel = {} \/ passes = MaxPasses
       THEN cpc' = "loop" /\ passes' = 0 /\ UNCHANGED <<batch, step>>
       ELSE /\ \E s \in SeqOf(pel, Count) : Oldest(s) /\ Begin(s)
            /\ passes' = passes + 1 /\ UNCHANGED cpc
  /\ UNCHANGED <<gateway, stream, work, history, faults>>

\* An error of that read: "continuing to main loop".
DrainFails ==
  /\ cpc = "drain" /\ batch = <<>> /\ Error /\ cpc' = "loop" /\ passes' = 0
  /\ UNCHANGED <<gateway, stream, batch, step, work, history>>

\* _consume_loop(): new entries only.  Trimmed ones are passed over.
ReadNew ==
  /\ cpc = "loop" /\ batch = <<>>
  /\ LET from == IF next < first THEN first ELSE next
         new  == Take(SubSeq(log, from, Len(log)))
     IN /\ new # <<>> /\ Begin(new)
        /\ next' = from + Len(new) /\ pel' = pel \cup ToSet(new)
  /\ UNCHANGED <<gateway, log, first, dead, blank, cpc, passes, work, history, faults>>

Entry == Head(batch)

\* The next entry of the batch.
Done == batch' = Tail(batch) /\ step' = IF Len(batch) = 1 THEN "none" ELSE "handle"

\* Mutant: a worker is reachable once the monitor has seen its heartbeat.
ReachableWarm(b) == IF Pull THEN b \in running ELSE registry[b] = "running"

\* route(): the registry has the worker as active, or a daemon owns the task.
Reachable(b) == IF Pull THEN b \in running ELSE registry[b] \in {"warmup", "running"}

\* spawn() registers a worker under a new bug_id; route() writes to the inbox of
\* the bug's worker or drops the result.
Effect(p) ==
  CASE Kind(p) = "bug" ->
         /\ registry' = [registry EXCEPT ![p] = IF Pull THEN "none" ELSE "warmup"]
         /\ running' = running \cup {p} /\ UNCHANGED missed
    [] Kind(p) = "validation" ->
         /\ missed' = LET b == Content[p].body.of
                      IN IF b \in running /\ ~Reachable(b) THEN missed \cup {p} ELSE missed
         /\ UNCHANGED work
    [] OTHER -> UNCHANGED <<work, missed>>

\* _handle_message().
Handle ==
  /\ step = "handle" /\ Kind(Entry) # "error"
  /\ cpc = "drain" => ~Trimmed(Entry)
  /\ Effect(Entry) /\ step' = "ack"
  /\ handled' = [handled EXCEPT ![Entry] = @ + 1]
  /\ UNCHANGED <<gateway, stream, cpc, passes, batch, cuts, faults>>

\* It raises: no data, no event, or an error of the spawner or of Redis.
HandleRaises ==
  /\ step = "handle" /\ step' = "bury"
  /\ \/ Kind(Entry) = "error" /\ UNCHANGED faults
     \/ cpc = "drain" /\ Trimmed(Entry) /\ UNCHANGED faults
     \/ Error
  /\ UNCHANGED <<gateway, stream, cpc, passes, batch, work, history>>

Cut(p) == cuts' = [cuts EXCEPT ![p] = @ + 1]

\* Mutant: another entry is acknowledged than the one that was handled.
AckOther ==
  /\ step = "ack" /\ Done
  /\ UNCHANGED <<gateway, stream, cpc, passes, work, history, faults>>

\* XACK, and an error of it, which the handler's except clause takes for a failure
\* to handle the event.
Ack ==
  /\ step = "ack" /\ pel' = pel \ {Entry} /\ Done
  /\ UNCHANGED <<gateway, log, first, next, dead, blank, cpc, passes, work, history, faults>>

AckFails ==
  /\ step = "ack" /\ Error /\ step' = "bury" /\ Cut(Entry)
  /\ pel' \in {pel, pel \ {Entry}}
  /\ UNCHANGED <<gateway, log, first, next, dead, blank, cpc, passes, batch, work>>
  /\ UNCHANGED <<handled, missed>>

\* Mutant: the entry is acknowledged and then written to the dead letters.
AckThenBury ==
  /\ step = "bury" /\ step' = "buried" /\ pel' = pel \ {Entry}
  /\ UNCHANGED <<gateway, log, first, next, dead, blank, cpc, passes, batch, work, history, faults>>

\* XADD of the data to the dead letters.
Bury ==
  /\ step = "bury" /\ step' = "buried"
  /\ IF cpc = "drain" /\ Trimmed(Entry)
       THEN blank' = blank \cup {Entry} /\ UNCHANGED dead
       ELSE dead' = dead \cup {Entry} /\ UNCHANGED blank
  /\ UNCHANGED <<gateway, log, first, next, pel, cpc, passes, batch, work, history, faults>>

BuryAck ==
  /\ step = "buried" /\ pel' = pel \ {Entry} /\ Done
  /\ UNCHANGED <<gateway, log, first, next, dead, blank, cpc, passes, work, history, faults>>

\* "dead-letter push failed": logged, and the entry stays pending.
BuryFails ==
  /\ step \in {"bury", "buried"} /\ Error /\ Done
  /\ IF step = "buried" THEN Cut(Entry) ELSE UNCHANGED cuts
  /\ UNCHANGED <<gateway, stream, cpc, passes, work, handled, missed>>

\* The orchestrator dies, or is stopped: its task is cancelled at an await.
Crash ==
  /\ cpc # "down" /\ crashes < MaxCrashes /\ crashes' = crashes + 1
  /\ cpc' = "down" /\ batch' = <<>> /\ step' = "none" /\ passes' = 0
  /\ registry' = [p \in Posts |-> "none"]
  /\ IF step \in {"ack", "buried"} THEN Cut(Entry) ELSE UNCHANGED cuts
  /\ UNCHANGED <<gateway, stream, running, handled, missed, errors>>

\* The health monitor sees a worker's first heartbeat; a worker ends.
FirstHeartbeat(p) ==
  /\ registry[p] = "warmup" /\ registry' = [registry EXCEPT ![p] = "running"]
  /\ UNCHANGED <<gateway, stream, consumer, running, history, faults>>

WorkerEnds(p) ==
  /\ p \in running /\ running' = running \ {p}
  /\ registry' = [registry EXCEPT ![p] = "none"]
  /\ UNCHANGED <<gateway, stream, consumer, history, faults>>

-----------------------------------------------------------------------------
\* A job's post, and the thread that serves it.
Request(p) ==
  \/ Arrive(p) \/ Lookup(p) \/ Throttle(p) \/ FetchKey(p) \/ Forward(p) \/ Repost(p)

Gateway ==
  \/ Rotate \/ CacheExpires \/ ThrottleEnds
  \/ \E p \in Posts : Request(p) \/ ForwardFails(p)

Consume ==
  \/ Start \/ EnsureGroup \/ DrainRead \/ ReadNew
  \/ Handle \/ HandleRaises \/ Ack \/ Bury \/ BuryAck

Next ==
  \/ Gateway \/ Consume
  \/ DrainFails \/ AckFails \/ BuryFails \/ Crash
  \/ \E p \in Posts : FirstHeartbeat(p) \/ WorkerEnds(p)

Spec == Init /\ [][Next]_vars

\* Threads and the event loop run, a supervisor restarts the orchestrator, a job
\* posts again, and min_refresh_seconds pass.  The cached keys may be long-lived.
Fairness ==
  /\ WF_vars(Consume) /\ WF_vars(ThrottleEnds)
  /\ \A p \in Posts : WF_vars(Request(p))

FairSpec == Spec /\ Fairness
-----------------------------------------------------------------------------
\* Every variable has its type.
TypeOK ==
  /\ gpc \in [Posts -> {"new", "lookup", "throttle", "fetch", "unknown_key",
                        "admitted", "sent", "401", "403", "500"}]
  /\ published \in {OldKeys, NewKeys} /\ cached \in {{}, OldKeys, NewKeys}
  /\ recent \in BOOLEAN
  /\ log \in Seq(Posts) /\ first \in Nat \ {0} /\ next \in Nat \ {0}
  /\ pel \subseteq Posts /\ dead \subseteq Posts /\ blank \subseteq Posts
  /\ cpc \in {"down", "group", "drain", "loop"} /\ passes \in 0..MaxPasses
  /\ batch \in Seq(Posts) /\ step \in {"none", "handle", "ack", "bury", "buried"}
  /\ step = "none" <=> batch = <<>>
  /\ registry \in [Posts -> {"none", "warmup", "running"}] /\ running \subseteq Posts
  /\ handled \in [Posts -> Nat] /\ cuts \in [Posts -> Nat] /\ missed \subseteq Posts
  /\ crashes \in 0..MaxCrashes /\ errors \in 0..MaxErrors

Undelivered(p) == \E k \in first..Len(log) : k >= next /\ log[k] = p

\* The promise of Delivery, kept through crashes and Redis errors: an entry that
\* has been acknowledged was handled or is a dead letter, and only an entry that
\* nobody has read is dropped by the stream.
Status(p) ==
  IF p \notin ToSet(log)                   THEN "absent"
  ELSE IF p \in pel \/ Undelivered(p)      THEN "held"
  ELSE IF handled[p] > 0                   THEN "done"
  ELSE IF p \in dead \cup blank            THEN "buried"
  ELSE "evicted"

D == INSTANCE Delivery WITH Events <- Posts, status <- [p \in Posts |-> Status(p)],
                            times <- handled
Delivered == D!Spec

\* A bug gets a second worker, or an event that was handled is a dead letter too,
\* only if the process died or XACK failed between an outcome and its XACK.
SpawnsAccounted ==
  \A p \in Posts : /\ handled[p] <= 1 + cuts[p]
                   /\ p \in dead /\ handled[p] > 0 => cuts[p] > 0

\* The CI result of a running worker's branch reaches its inbox, from the spawn on,
\* unless the orchestrator has died since and its registry with it.
ResultsRouted == missed # {} => crashes > 0 /\ ~Pull

Valid(p) == /\ Content[p].bearer /\ Content[p].claims = "ok" /\ Content[p].project = "same"
            /\ Content[p].kid \in NewKeys

\* A rotation of the issuer's keys is transparent: whatever the cache holds and
\* whoever has used up the refresh, a valid post that is repeated is admitted.
ValidAdmitted ==
  []<>(published = NewKeys =>
         \A p \in Posts : Valid(p) /\ Caused(p) => gpc[p] \in {"admitted", "sent", "500"})

Settled == \A p \in Posts : Status(p) # "held"

\* Again and again every event in the stream has been handled, is a dead letter, or
\* was dropped by the stream unread, although the orchestrator dies at any point;
\* as long as Redis answers.
EveryEventSettles == []<>(Settled \/ errors > 0)
=============================================================================
