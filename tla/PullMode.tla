------------------------------ MODULE PullMode ------------------------------
(***************************************************************************)
(* Distributed pull mode: the dispatcher hands jobs to worker daemons      *)
(* through Redis streams, the daemons accept or reject them, and the       *)
(* daemon monitor dispatches again what was left pending, was rejected or  *)
(* lies in the inbox of a daemon that is taken for dead.                   *)
(*                                                                         *)
(* A stream is its undelivered entries and those delivered to the one      *)
(* consumer of its group and not acknowledged.  The order of entries is    *)
(* left open.  Choosing a daemon and XADD are one step: nothing is decided *)
(* between them.                                                           *)
(***************************************************************************)
EXTENDS Integers, FiniteSets

CONSTANTS
  NDaemons,       \* daemon ids are 1..NDaemons
  Jobs,
  Concurrency,    \* slots of a daemon
  MaxFaults,      \* bound: ticks of the monitor cut short, and failures of daemons
  Faulty,         \* daemons that may die, stop, stall, or fail to spawn
  Tight           \* daemons whose host may be short of memory or CPU

ASSUME PullAssumption ==
  /\ NDaemons \in Nat /\ Concurrency \in Nat /\ MaxFaults \in Nat
  /\ Faulty \subseteq 1..NDaemons /\ Tight \subseteq 1..NDaemons
  /\ "none" \notin Jobs

Daemons == 1..NDaemons
PENDING_STREAM  == 0
REJECTED_STREAM == -1
Streams == Daemons \cup {PENDING_STREAM, REJECTED_STREAM}
NoJob   == "none"

VARIABLES
  todo,      \* jobs the orchestrator has not been told of
  cache,     \* _daemon_cache: what the dispatcher believes of each daemon
  fresh,     \* the cache is younger than cache_ttl
  pointer,   \* _judge_pointer
  mon        \* the daemon monitor: position, daemons to look at, entries in hand

VARIABLES
  members,   \* the set worker-daemons
  hash,      \* the heartbeat of each daemon: "absent", "full" or "free"
  streams,   \* inboxes, the pending and the rejected stream
  owner      \* task:owner:{bug_id}, 0 if there is none

VARIABLES
  dpc,       \* what each daemon is doing
  hand,      \* the job of the inbox entry it is handling
  active,    \* _active: the jobs that occupy its slots
  workers    \* worker processes it has started that still run

VARIABLES
  started,    \* history: workers started for each job
  again,      \* history: times the job was sent on although it had been before
  dropped,    \* history: jobs in an inbox when it was deleted
  faults      \* what has gone wrong so far

orch    == <<cache, fresh, pointer, mon>>
redis   == <<members, hash, streams, owner>>
daemons == <<dpc, hand, active, workers>>
history == <<started, again, dropped, faults>>
vars    == <<todo, orch, redis, daemons, history>>

-----------------------------------------------------------------------------
NoEntries == [j \in Jobs |-> 0]
Idle == [at |-> "idle", left |-> {}, d |-> 0, s |-> PENDING_STREAM,
         batch |-> NoEntries, sent |-> NoJob]

Init ==
  /\ todo = Jobs
  /\ cache = [d \in Daemons |-> "absent"] /\ fresh = FALSE /\ pointer = 0
  /\ mon = Idle
  /\ members = {} /\ hash = [d \in Daemons |-> "absent"]
  /\ streams = [s \in Streams |-> [new |-> NoEntries, pel |-> NoEntries]]
  /\ owner = [j \in Jobs |-> 0]
  /\ dpc = [d \in Daemons |-> "off"] /\ hand = [d \in Daemons |-> NoJob]
  /\ active = [d \in Daemons |-> {}]
  /\ workers = [d \in Daemons |-> NoEntries]
  /\ started = NoEntries /\ again = NoEntries /\ dropped = {}
  /\ faults = 0

OneMoreFault == faults < MaxFaults /\ faults' = faults + 1
Fault(d) == d \in Faulty /\ OneMoreFault

-----------------------------------------------------------------------------
(* The dispatcher.                                                         *)

\* _maybe_refresh_cache(): a registered daemon without a heartbeat is left out.
CacheView ==
  IF fresh THEN cache
  ELSE [d \in Daemons |-> IF d \in members THEN hash[d] ELSE "absent"]

\* _choose_daemon(): the daemons of the cache in the order of their ids, the
\* pointer at one of them (at the first, if there are fewer by now).
Known(c) == {d \in Daemons : c[d] # "absent"}
Free(c)  == {d \in Daemons : c[d] = "free"}
Index(c, d) == Cardinality({e \in Known(c) : e < d})
Start(c) == IF pointer >= Cardinality(Known(c)) THEN 0 ELSE pointer

\* The offset at which the loop looks at a daemon.
Offset(c, d) ==
  LET n == Cardinality(Known(c)) IN (Index(c, d) + n - Start(c)) % n

\* The first daemon that can accept, by what the cache says, and the pointer
\* behind it; or nobody, and the pointer one further.
Choose(c, to) ==
  LET n == Cardinality(Known(c))
  IN \/ /\ to \in Free(c) /\ \A d \in Free(c) : Offset(c, to) <= Offset(c, d)
        /\ pointer' = (Index(c, to) + 1) % n
     \/ /\ Free(c) = {} /\ to = PENDING_STREAM
        /\ pointer' = IF n = 0 THEN pointer ELSE (Start(c) + 1) % n

\* XADD to the chosen inbox, or to the pending stream.
SpawnRaw(j) ==
  /\ cache' = CacheView /\ fresh' = TRUE
  /\ \E to \in Streams :
       /\ Choose(CacheView, to)
       /\ streams' = [streams EXCEPT ![to].new[j] = @ + 1]

\* spawn(), called by the handler of a bug report.
Spawn(j) ==
  /\ j \in todo /\ todo' = todo \ {j}
  /\ SpawnRaw(j)
  /\ UNCHANGED <<mon, members, hash, owner, daemons, history>>

\* cache_ttl has passed: what the cache holds is not used any more.
CacheAges ==
  /\ fresh /\ fresh' = FALSE /\ cache' = [d \in Daemons |-> "absent"]
  /\ UNCHANGED <<todo, pointer, mon, redis, daemons, history>>

-----------------------------------------------------------------------------
(* The daemon monitor: one tick.                                           *)

\* SMEMBERS worker-daemons.
TickStarts ==
  /\ mon.at = "idle"
  /\ mon' = [mon EXCEPT !.at = "scan", !.left = members]
  /\ UNCHANGED <<todo, cache, fresh, pointer, redis, daemons, history>>

\* It has expired: XPENDING of the inbox.  Nothing delivered and unacknowledged
\* there ends the recovery, and the inbox stays.
FoundDead(d) ==
  /\ mon.at = "scan" /\ d \in mon.left /\ hash[d] = "absent"
  /\ mon' = [mon EXCEPT !.left = @ \ {d}, !.d = d, !.batch = streams[d].pel,
                        !.at = IF streams[d].pel = NoEntries THEN "forget" ELSE "recover"]
  /\ UNCHANGED <<todo, cache, fresh, pointer, redis, daemons, history>>

\* An entry is dispatched again.  XRANGE finds it even if the daemon, slow and
\* not dead, has acknowledged it meanwhile or is about to.
Redispatched(j) == \/ streams[mon.d].pel[j] < mon.batch[j]
                   \/ dpc[mon.d] # "off" /\ hand[mon.d] = j

RecoverSends(j) ==
  /\ mon.at = "recover" /\ mon.sent = NoJob /\ mon.batch[j] > 0
  /\ SpawnRaw(j)
  /\ mon' = [mon EXCEPT !.sent = j]
  /\ again' = [again EXCEPT ![j] = IF Redispatched(j) THEN @ + 1 ELSE @]
  /\ UNCHANGED <<todo, members, hash, owner, daemons, started, dropped, faults>>

\* XACK in the inbox.
RecoverAcks ==
  /\ mon.at = "recover" /\ mon.sent # NoJob
  /\ streams' = [streams EXCEPT ![mon.d].pel[mon.sent] = IF @ > 0 THEN @ - 1 ELSE 0]
  /\ mon' = [mon EXCEPT !.batch[mon.sent] = @ - 1, !.sent = NoJob]
  /\ UNCHANGED <<todo, cache, fresh, pointer, members, hash, owner, daemons, history>>

\* DEL of the inbox, with whatever has not been delivered yet.
DeleteInbox ==
  /\ mon.at = "recover" /\ mon.sent = NoJob /\ mon.batch = NoEntries
  /\ dropped' = dropped \cup
       {j \in Jobs : streams[mon.d].new[j] + streams[mon.d].pel[j] > 0}
  /\ streams' = [streams EXCEPT ![mon.d] = [new |-> NoEntries, pel |-> NoEntries]]
  /\ mon' = [mon EXCEPT !.at = "forget"]
  /\ UNCHANGED <<todo, cache, fresh, pointer, members, hash, owner, daemons>>
  /\ UNCHANGED <<started, again, faults>>

\* SREM and DEL of the heartbeat.
Forget ==
  /\ mon.at = "forget"
  /\ members' = members \ {mon.d} /\ hash' = [hash EXCEPT ![mon.d] = "absent"]
  /\ mon' = [mon EXCEPT !.at = "scan", !.d = 0]
  /\ UNCHANGED <<todo, cache, fresh, pointer, streams, owner, daemons, history>>

\* EXISTS of the other heartbeats: their daemons are alive.
ScanEnds ==
  /\ mon.at = "scan" /\ \A d \in mon.left : hash[d] # "absent"
  /\ mon' = [mon EXCEPT !.at = "claim", !.left = {}, !.s = PENDING_STREAM]
  /\ UNCHANGED <<todo, cache, fresh, pointer, redis, daemons, history>>

InHand == mon.batch # NoEntries \/ mon.sent # NoJob

\* Mutant: only new entries are read.
ClaimNothing ==
  /\ mon.at = "claim" /\ ~InHand /\ UNCHANGED vars

\* XAUTOCLAIM of what an interrupted tick has left unacknowledged, unless it has
\* been idle for less than min_idle_time.
Claim ==
  /\ mon.at = "claim" /\ ~InHand /\ streams[mon.s].pel # NoEntries
  /\ mon' = [mon EXCEPT !.batch = streams[mon.s].pel]
  /\ UNCHANGED <<todo, cache, fresh, pointer, redis, daemons, history>>

\* Then XREADGROUP of the new entries.
ReadNew ==
  /\ mon.at = "claim" /\ ~InHand /\ streams[mon.s].new # NoEntries
  /\ LET st == streams[mon.s]
     IN /\ streams' = [streams EXCEPT ![mon.s] =
                         [new |-> NoEntries, pel |-> [j \in Jobs |-> st.pel[j] + st.new[j]]]]
        /\ mon' = [mon EXCEPT !.at = "retry", !.batch = st.new]
  /\ UNCHANGED <<todo, cache, fresh, pointer, members, hash, owner, daemons, history>>

\* spawn_raw() of an entry in hand.
RetrySends(j) ==
  /\ mon.at \in {"claim", "retry"} /\ mon.sent = NoJob /\ mon.batch[j] > 0
  /\ SpawnRaw(j)
  /\ mon' = [mon EXCEPT !.sent = j]
  /\ UNCHANGED <<todo, members, hash, owner, daemons, history>>

\* Mutant: the entry that was sent on is not acknowledged.
NoAck ==
  /\ mon.at \in {"claim", "retry"} /\ mon.sent # NoJob
  /\ mon' = [mon EXCEPT !.batch[mon.sent] = @ - 1, !.sent = NoJob]
  /\ UNCHANGED <<todo, cache, fresh, pointer, redis, daemons, history>>

\* XACK of it.
RetryAcks ==
  /\ mon.at \in {"claim", "retry"} /\ mon.sent # NoJob
  /\ streams' = [streams EXCEPT ![mon.s].pel[mon.sent] = @ - 1]
  /\ mon' = [mon EXCEPT !.batch[mon.sent] = @ - 1, !.sent = NoJob]
  /\ UNCHANGED <<todo, cache, fresh, pointer, members, hash, owner, daemons, history>>

\* _retry_pending() is followed by _retry_rejected(), and that by the next tick.
RetryEnds ==
  /\ ~InHand
  /\ \/ mon.at = "retry"
     \/ mon.at = "claim" /\ streams[mon.s].new = NoEntries
  /\ mon' = IF mon.s = PENDING_STREAM
              THEN [mon EXCEPT !.at = "claim", !.s = REJECTED_STREAM] ELSE Idle
  /\ UNCHANGED <<todo, cache, fresh, pointer, redis, daemons, history>>

\* The tick is cut short, by an error of a Redis call (_run goes on with the next
\* tick) or by the death of the orchestrator, whose memory is then lost.
Interrupt ==
  /\ mon.at # "idle" /\ OneMoreFault /\ mon' = Idle
  /\ again' = IF mon.sent # NoJob THEN [again EXCEPT ![mon.sent] = @ + 1] ELSE again
  /\ \/ UNCHANGED <<cache, fresh, pointer>>
     \/ cache' = [d \in Daemons |-> "absent"] /\ fresh' = FALSE /\ pointer' = 0
  /\ UNCHANGED <<todo, redis, daemons, started, dropped>>

-----------------------------------------------------------------------------
(* A worker daemon.                                                        *)

Up(d) == dpc[d] \in {"idle", "got", "spawned", "rejected", "deaf"}

\* _register(): SADD, the consumer group, the first heartbeat.
Register(d) ==
  /\ dpc[d] = "off" /\ dpc' = [dpc EXCEPT ![d] = "idle"]
  /\ members' = members \cup {d} /\ hash' = [hash EXCEPT ![d] = "free"]
  /\ UNCHANGED <<todo, orch, streams, owner, hand, active, workers, history>>

HasSlot(d) == Cardinality(active[d]) < Concurrency

\* _write_heartbeat(): whether it can accept a job.
Heartbeat(d) ==
  /\ Up(d) /\ hash' = [hash EXCEPT ![d] = IF HasSlot(d) THEN "free" ELSE "full"]
  /\ hash' # hash
  /\ UNCHANGED <<todo, orch, members, streams, owner, daemons, history>>

\* _inbox_loop(): XREADGROUP of one new entry.
ReadInbox(d, j) ==
  /\ dpc[d] = "idle" /\ streams[d].new[j] > 0
  /\ streams' = [streams EXCEPT ![d].new[j] = @ - 1, ![d].pel[j] = @ + 1]
  /\ dpc' = [dpc EXCEPT ![d] = "got"] /\ hand' = [hand EXCEPT ![d] = j]
  /\ UNCHANGED <<todo, orch, members, hash, owner, active, workers, history>>

\* Mutant: the owner key is written only if there is none.
AcceptUnowned(d) ==
  /\ dpc[d] = "got" /\ HasSlot(d)
  /\ LET j == hand[d]
     IN /\ workers' = [workers EXCEPT ![d][j] = @ + 1]
        /\ active' = [active EXCEPT ![d] = @ \cup {j}]
        /\ started' = [started EXCEPT ![j] = @ + 1]
  /\ dpc' = [dpc EXCEPT ![d] = "spawned"]
  /\ UNCHANGED <<todo, orch, redis, hand, again, dropped, faults>>

\* _accept(): the owner key, the subprocess, the slot.
Accept(d) ==
  /\ dpc[d] = "got" /\ HasSlot(d)
  /\ LET j == hand[d]
     IN /\ owner' = [owner EXCEPT ![j] = d]
        /\ workers' = [workers EXCEPT ![d][j] = @ + 1]
        /\ active' = [active EXCEPT ![d] = @ \cup {j}]
        /\ started' = [started EXCEPT ![j] = @ + 1]
  /\ dpc' = [dpc EXCEPT ![d] = "spawned"]
  /\ UNCHANGED <<todo, orch, members, hash, streams, hand, again, dropped, faults>>

\* An error in it, or in _reject(), ends the inbox task; the heartbeat goes on.
HandlingFails(d) ==
  /\ dpc[d] = "got" /\ Fault(d)
  /\ dpc' = [dpc EXCEPT ![d] = "deaf"] /\ hand' = [hand EXCEPT ![d] = NoJob]
  /\ UNCHANGED <<todo, orch, redis, active, workers, started, again, dropped>>

\* Mutant: the job is acknowledged without being passed on.
RejectSilently(d) ==
  /\ dpc[d] = "got" /\ (HasSlot(d) => d \in Tight)
  /\ dpc' = [dpc EXCEPT ![d] = "rejected"]
  /\ UNCHANGED <<todo, orch, redis, hand, active, workers, history>>

\* _reject(): no slot, or _resources_ok() fails.
Reject(d) ==
  /\ dpc[d] = "got" /\ (HasSlot(d) => d \in Tight)
  /\ streams' = [streams EXCEPT ![REJECTED_STREAM].new[hand[d]] = @ + 1]
  /\ dpc' = [dpc EXCEPT ![d] = "rejected"]
  /\ UNCHANGED <<todo, orch, members, hash, owner, hand, active, workers, history>>

\* XACK of the inbox entry (a no-op if the inbox has been deleted).
AckInbox(d) ==
  /\ dpc[d] \in {"spawned", "rejected"}
  /\ streams' = [streams EXCEPT ![d].pel[hand[d]] = IF @ > 0 THEN @ - 1 ELSE 0]
  /\ dpc' = [dpc EXCEPT ![d] = "idle"] /\ hand' = [hand EXCEPT ![d] = NoJob]
  /\ UNCHANGED <<todo, orch, members, hash, owner, active, workers, history>>

\* A worker exits and _reap() frees its slot and clears its ownership.  If a
\* second worker of the job has taken over the slot, one of the two finds it gone.
WorkerExits(d, j) ==
  /\ workers[d][j] > 0
  /\ workers' = [workers EXCEPT ![d][j] = @ - 1]
  /\ active' = [active EXCEPT ![d] = @ \ {j}]
  /\ owner' = IF j \in active[d] THEN [owner EXCEPT ![j] = 0] ELSE owner
  /\ UNCHANGED <<todo, orch, members, hash, streams, dpc, hand, history>>

\* What has been done about an entry in hand is not recorded by an XACK.
LeftUnacked(d) ==
  again' = IF dpc[d] \in {"spawned", "rejected"}
             THEN [again EXCEPT ![hand[d]] = @ + 1] ELSE again

\* SIGTERM: both loops are cancelled and _shutdown() deregisters the daemon.
Stop(d) ==
  /\ Up(d) /\ Fault(d) /\ LeftUnacked(d)
  /\ dpc' = [dpc EXCEPT ![d] = "draining"] /\ hand' = [hand EXCEPT ![d] = NoJob]
  /\ members' = members \ {d} /\ hash' = [hash EXCEPT ![d] = "absent"]
  /\ UNCHANGED <<todo, orch, streams, owner, active, workers, started, dropped>>

\* Its workers have been waited for, or are killed after DRAIN_TIMEOUT.
Drained(d) ==
  /\ dpc[d] = "draining"
  /\ dpc' = [dpc EXCEPT ![d] = "off"]
  /\ active' = [active EXCEPT ![d] = {}] /\ workers' = [workers EXCEPT ![d] = NoEntries]
  /\ owner' = [j \in Jobs |-> IF j \in active[d] THEN 0 ELSE owner[j]]
  /\ UNCHANGED <<todo, orch, members, hash, streams, hand, history>>

\* The daemon's host dies, its workers with it.
Die(d) ==
  /\ dpc[d] # "off" /\ Fault(d) /\ LeftUnacked(d)
  /\ dpc' = [dpc EXCEPT ![d] = "off"] /\ hand' = [hand EXCEPT ![d] = NoJob]
  /\ active' = [active EXCEPT ![d] = {}] /\ workers' = [workers EXCEPT ![d] = NoEntries]
  /\ UNCHANGED <<todo, orch, redis, started, dropped>>

\* EXPIRE of the heartbeat: the daemon is dead, or too slow.
Expire(d) ==
  /\ hash[d] # "absent" /\ hash' = [hash EXCEPT ![d] = "absent"]
  /\ \/ dpc[d] = "off" /\ UNCHANGED faults
     \/ Up(d) /\ Fault(d)
  /\ UNCHANGED <<todo, orch, members, streams, owner, daemons>>
  /\ UNCHANGED <<started, again, dropped>>

-----------------------------------------------------------------------------
Dispatcher == CacheAges \/ \E j \in Jobs : Spawn(j)

Monitor ==
  \/ TickStarts \/ ScanEnds \/ RecoverAcks \/ DeleteInbox \/ Forget
  \/ Claim \/ ReadNew \/ RetryAcks \/ RetryEnds
  \/ \E d \in Daemons : FoundDead(d)
  \/ \E j \in Jobs : RecoverSends(j) \/ RetrySends(j)

Daemon(d) ==
  \/ Register(d) \/ Heartbeat(d) \/ Accept(d) \/ Reject(d) \/ AckInbox(d)
  \/ \E j \in Jobs : ReadInbox(d, j) \/ WorkerExits(d, j)
  \/ HandlingFails(d) \/ Stop(d) \/ Drained(d) \/ Die(d) \/ Expire(d)

Next ==
  \/ Dispatcher \/ Monitor \/ Interrupt
  \/ \E d \in Daemons : Daemon(d)

Spec == Init /\ [][Next]_vars

\* The event loops run the monitor and the daemons' tasks, workers end, ttls
\* pass, entries come of age, and memory is not short for ever.
Fairness ==
  /\ WF_vars(Monitor) /\ SF_vars(Claim) /\ WF_vars(CacheAges)
  /\ \A d \in Daemons :
       /\ WF_vars(Register(d)) /\ WF_vars(AckInbox(d)) /\ WF_vars(Drained(d))
       /\ WF_vars(Heartbeat(d)) /\ SF_vars(Accept(d))
       /\ WF_vars(Accept(d) \/ Reject(d)) /\ WF_vars(Expire(d))
       /\ \A j \in Jobs : WF_vars(ReadInbox(d, j)) /\ WF_vars(WorkerExits(d, j))

FairSpec == Spec /\ Fairness

-----------------------------------------------------------------------------
\* Every variable has its type.
TypeOK ==
  /\ todo \subseteq Jobs
  /\ cache \in [Daemons -> {"absent", "full", "free"}] /\ fresh \in BOOLEAN
  /\ pointer \in 0..NDaemons
  /\ mon \in [at : {"idle", "scan", "recover", "forget", "claim", "retry"},
              left : SUBSET Daemons, d : Daemons \cup {0},
              s : {PENDING_STREAM, REJECTED_STREAM},
              batch : [Jobs -> Nat], sent : Jobs \cup {NoJob}]
  /\ members \subseteq Daemons /\ hash \in [Daemons -> {"absent", "full", "free"}]
  /\ streams \in [Streams -> [new : [Jobs -> Nat], pel : [Jobs -> Nat]]]
  /\ owner \in [Jobs -> Daemons \cup {0}]
  /\ dpc \in [Daemons -> {"off", "idle", "got", "spawned", "rejected", "deaf", "draining"}]
  /\ hand \in [Daemons -> Jobs \cup {NoJob}]
  /\ active \in [Daemons -> SUBSET Jobs] /\ workers \in [Daemons -> [Jobs -> Nat]]
  /\ started \in [Jobs -> Nat] /\ again \in [Jobs -> Nat]
  /\ dropped \subseteq Jobs

\* README "Mode 7": a job is started once.  A second worker of it comes only from
\* a cut between sending the job on and acknowledging its entry: of the monitor,
\* of a daemon, or of a daemon wrongly taken for dead.
StartsAccounted == \A j \in Jobs : started[j] <= 1 + again[j]

Somewhere(j) == j \in todo \/ started[j] > 0 \/
                \E s \in Streams : streams[s].new[j] + streams[s].pel[j] > 0

\* A job that has not been started lies in a stream, whatever fails and whoever is
\* interrupted; only the deletion of a dead daemon's inbox takes it out of there.
LostOnlyByDelete == \A j \in Jobs : Somewhere(j) \/ j \in dropped

\* A running worker's job has its daemon's owner key, by which the router finds
\* the worker's inbox; a job with two workers is the exception.
OwnerKnown ==
  \A d \in Daemons, j \in Jobs :
    workers[d][j] > 0 /\ again[j] = 0 => owner[j] = d

\* As long as no daemon fails, every reported job is started, although ticks are
\* cut short, the cache is stale, and daemons are full or short of memory.
EveryJobStarts == \A j \in Jobs : j \notin todo ~> started[j] > 0
=============================================================================
