----------------------------- MODULE WorkerHealth -----------------------------
(***************************************************************************)
(* Supervision of the worker of one bug: the orchestrator's health monitor *)
(* and registry entry, the spawner that replaces a worker, the worker      *)
(* process with its heartbeat and completion keys in Redis, and the faults *)
(* of its surroundings (kills, signals, stalls, Redis errors).             *)
(*                                                                         *)
(*   orchestrator/monitor.py    HealthMonitor                              *)
(*   orchestrator/registry.py   WorkerRegistry, one entry                  *)
(*   orchestrator/spawner.py    spawn() and restart()                      *)
(*   bf_worker/bf_worker.py     BugFixWorker.run() and main()              *)
(*                                                                         *)
(* Every await of the monitor and of the worker's teardown ends an action. *)
(* Wall-clock time is abstracted to what may have passed: the grace period *)
(* of an entry, the ttl of the heartbeat key.                              *)
(***************************************************************************)
EXTENDS Integers, FiniteSets

CONSTANTS
  MaxRestarts,    \* MAX_WORKER_RESTARTS
  WaitsForExit,   \* restart() waits for the old worker (subprocess spawner),
                  \* FALSE: it only asks for its end (ECS and K8s spawners)
  QuickBoot,      \* a replacement's first heartbeat comes before the key of
                  \* its predecessor expires
  MayKill,        \* a worker may be killed (OOM killer, operator, node)
  MaySignal,      \* a worker may receive SIGTERM from outside (eviction, drain)
  MayStall,       \* a live worker may miss its heartbeats for a whole ttl
  RedisMayFail    \* a Redis call may raise

ASSUME HealthAssumption ==
  /\ MaxRestarts \in Nat
  /\ {WaitsForExit, QuickBoot, MayKill, MaySignal, MayStall, RedisMayFail} \subseteq BOOLEAN

\* The registry entry and the monitor.
VARIABLES
  status,    \* entry.status; "none" before spawn(), "swept" after sweep_stale()
  restarts,  \* entry.restart_count
  cur,       \* entry.process, 0 if there is none
  overdue,   \* the entry's warmup_deadline has passed
  mon,       \* where the monitor is (see MonitorPcs)
  sawTtl,    \* the ttl it read was positive
  late       \* its "now" is past the warmup_deadline

\* The worker processes and their keys in Redis.
VARIABLES
  starts,    \* processes started so far: process p is the p-th one
  st,        \* st[p]: what process p is doing (see ProcStates)
  rc,        \* rc[p]: exit code of process p
  termed,    \* termed[p]: SIGTERM has been sent and not yet handled
  beats,     \* beats[p]: its heartbeat task has not died of an error
  hb,        \* the heartbeat key: the process that wrote it, 0 if absent
  completed  \* the completion key is set

\* History, read by the properties only.
VARIABLES
  finished,  \* finished[p]: process p came to the end of its graph
  harmed     \* harmed[p]: process p was killed, signalled, stalled or cut off from Redis

entry   == <<status, restarts, cur, overdue>>
monitor == <<mon, sawTtl, late>>
procs   == <<starts, st, rc, termed, beats, hb, completed, finished, harmed>>
vars    == <<entry, monitor, procs>>

-----------------------------------------------------------------------------
\* One process more than the cap allows, so that the cap has something to stop.
Procs      == 1..(MaxRestarts + 2)
ProcStates == {"none", "boot", "work", "setkey", "delhb", "exit",
               "unwind", "linger", "dead"}
MonitorPcs == {"idle", "ttl", "look", "exists", "await", "start", "crashed"}
Active     == {"warmup", "running"}

Live(p) == st[p] \notin {"none", "dead"}

\* The agent's graph is being executed, by the executor thread of process p.
Executes(p) == st[p] \in {"work", "unwind", "linger"}

Init ==
  /\ status = "none" /\ restarts = 0 /\ cur = 0 /\ overdue = FALSE
  /\ mon = "idle" /\ sawTtl = FALSE /\ late = FALSE
  /\ starts = 0
  /\ st = [p \in Procs |-> "none"] /\ rc = [p \in Procs |-> "none"]
  /\ termed = [p \in Procs |-> FALSE] /\ beats = [p \in Procs |-> TRUE]
  /\ hb = 0 /\ completed = FALSE
  /\ finished = [p \in Procs |-> FALSE] /\ harmed = [p \in Procs |-> FALSE]

-----------------------------------------------------------------------------
(* The spawner.                                                            *)

\* A process is started and a new entry registered for it.
Register(count) ==
  /\ starts' = starts + 1 /\ st' = [st EXCEPT ![starts + 1] = "boot"]
  /\ status' = "warmup" /\ restarts' = count /\ cur' = starts + 1 /\ overdue' = FALSE
  /\ UNCHANGED <<rc, termed, beats, hb, completed, finished, harmed>>

\* spawn(): the bug has been reported.
Spawn ==
  /\ status = "none"
  /\ Register(0)
  /\ UNCHANGED monitor

\* Mutant: restart_count is not carried over to the new entry.
RestartUncounted ==
  /\ mon = "start" /\ starts + 1 \in Procs
  /\ Register(0)
  /\ mon' = "idle" /\ UNCHANGED <<sawTtl, late>>

\* restart(), once the old process has been dealt with: the replacement.
StartReplacement ==
  /\ mon = "start" /\ starts + 1 \in Procs
  /\ Register(restarts + 1)
  /\ mon' = "idle" /\ UNCHANGED <<sawTtl, late>>

\* The replacement cannot be started: _restart marks the bug failed.
RestartFails ==
  /\ mon = "start"
  /\ status' = "failed" /\ mon' = "idle"
  /\ UNCHANGED <<restarts, cur, overdue, sawTtl, late, procs>>

\* wait() returned in time.
AwaitExit ==
  /\ mon = "await" /\ st[cur] = "dead"
  /\ mon' = "start"
  /\ UNCHANGED <<entry, sawTtl, late, procs>>

\* Mutant: the timeout of wait() is not followed by kill().
AwaitGivesUp ==
  /\ mon = "await" /\ Live(cur)
  /\ mon' = "start"
  /\ UNCHANGED <<entry, sawTtl, late, procs>>

\* wait() timed out: kill().
AwaitTimeout ==
  /\ mon = "await" /\ Live(cur)
  /\ st' = [st EXCEPT ![cur] = "dead"] /\ rc' = [rc EXCEPT ![cur] = "other"]
  /\ mon' = "start"
  /\ UNCHANGED <<entry, sawTtl, late>>
  /\ UNCHANGED <<starts, termed, beats, hb, completed, finished, harmed>>

-----------------------------------------------------------------------------
(* The monitor: _run() and _check_all().                                   *)

\* A tick: now is taken, old terminal entries are swept, active ones examined.
Tick ==
  /\ mon = "idle" /\ status \in Active
  /\ mon' = "ttl" /\ late' = overdue
  /\ UNCHANGED <<entry, sawTtl, procs>>

Sweep ==
  /\ mon = "idle" /\ status \in {"done", "failed"}
  /\ status' = "swept"
  /\ UNCHANGED <<restarts, cur, overdue, monitor, procs>>

\* await redis.ttl(hb_key)
ReadTtl ==
  /\ mon = "ttl"
  /\ sawTtl' = (hb # 0) /\ mon' = "look"
  /\ UNCHANGED <<entry, late, procs>>

\* An exception of a Redis call ends the monitor's task: _run does not catch it.
MonitorCrashes ==
  /\ RedisMayFail /\ mon \in {"ttl", "exists"}
  /\ mon' = "crashed"
  /\ UNCHANGED <<entry, sawTtl, late, procs>>

\* What the spawner reports as the exit code; the report of a death may lag.
Returncodes == IF Live(cur) THEN {"none"} ELSE {"none", rc[cur]}

\* Mutant: the exit code itself is recorded as the status.
ExitCodeAsStatus ==
  /\ mon = "look"
  /\ \E r \in Returncodes \ {"none"} : status' = r
  /\ mon' = "idle"
  /\ UNCHANGED <<restarts, cur, overdue, sawTtl, late, procs>>

\* The process has exited: rc 0 means done, the completion key decides the rest.
LookExited ==
  /\ mon = "look"
  /\ \E r \in Returncodes \ {"none"} :
       IF r = "zero" THEN status' = "done" /\ mon' = "idle"
                     ELSE UNCHANGED status /\ mon' = "exists"
  /\ UNCHANGED <<restarts, cur, overdue, sawTtl, late, procs>>

\* No exit is reported and there is a heartbeat, whoever wrote it.
LookHealthy ==
  /\ mon = "look" /\ "none" \in Returncodes /\ sawTtl
  /\ status' = "running" /\ mon' = "idle"
  /\ UNCHANGED <<restarts, cur, overdue, sawTtl, late, procs>>

\* Mutant: only an exit code makes a running worker suspect.
SilentIgnored ==
  /\ mon = "look" /\ "none" \in Returncodes /\ ~sawTtl
  /\ status' = IF status = "warmup" /\ late THEN "failed" ELSE status
  /\ mon' = "idle"
  /\ UNCHANGED <<restarts, cur, overdue, sawTtl, late, procs>>

\* No exit is reported and there is no heartbeat.
LookSilent ==
  /\ mon = "look" /\ "none" \in Returncodes /\ ~sawTtl
  /\ \/ status = "warmup" /\ ~late /\ UNCHANGED status /\ mon' = "idle"
     \/ status = "warmup" /\ late /\ status' = "failed" /\ mon' = "idle"
     \/ status = "running" /\ UNCHANGED status /\ mon' = "exists"
  /\ UNCHANGED <<restarts, cur, overdue, sawTtl, late, procs>>

\* The completion key is there: nothing to recover.
FoundCompleted ==
  /\ mon = "exists" /\ completed
  /\ status' = "done" /\ mon' = "idle"
  /\ UNCHANGED <<restarts, cur, overdue, sawTtl, late, procs>>

\* It is not, and the cap is reached.
GiveUp ==
  /\ mon = "exists" /\ ~completed /\ restarts >= MaxRestarts
  /\ status' = "failed" /\ mon' = "idle"
  /\ UNCHANGED <<restarts, cur, overdue, sawTtl, late, procs>>

\* It is not: _restart() calls spawner.restart(), which terminates the process.
Terminate ==
  /\ mon = "exists" /\ ~completed /\ restarts < MaxRestarts
  /\ termed' = [termed EXCEPT ![cur] = Live(cur)]
  /\ mon' = IF WaitsForExit THEN "await" ELSE "start"
  /\ UNCHANGED <<entry, sawTtl, late>>
  /\ UNCHANGED <<starts, st, rc, beats, hb, completed, finished, harmed>>

-----------------------------------------------------------------------------
(* The worker: main(), run() and _heartbeat_loop().                        *)

Goto(p, s) == st' = [st EXCEPT ![p] = s]

Exits(p, code) == Goto(p, "dead") /\ rc' = [rc EXCEPT ![p] = code]

\* Imports and set-up are over: run() starts the heartbeat and the graph.
Boot(p) ==
  /\ st[p] = "boot" /\ Goto(p, "work")
  /\ UNCHANGED <<entry, monitor, starts, rc, termed, beats, hb, completed, finished, harmed>>

\* SETEX of the heartbeat key.
Beat(p) ==
  /\ st[p] = "work" /\ beats[p] /\ hb # p
  /\ hb' = p
  /\ UNCHANGED <<entry, monitor, starts, st, rc, termed, beats, completed, finished, harmed>>

\* An error in SETEX ends the heartbeat task; nobody notices.
BeatFails(p) ==
  /\ RedisMayFail /\ st[p] = "work" /\ beats[p]
  /\ beats' = [beats EXCEPT ![p] = FALSE]
  /\ harmed' = [harmed EXCEPT ![p] = TRUE]
  /\ UNCHANGED <<entry, monitor, starts, st, rc, termed, hb, completed, finished>>

\* The graph returns or raises; run()'s finally cancels the heartbeat.  If its
\* task had failed, awaiting it raises and the rest of the finally is skipped.
FinishGraph(p) ==
  /\ st[p] = "work"
  /\ finished' = [finished EXCEPT ![p] = TRUE]
  /\ IF beats[p] THEN Goto(p, "setkey") /\ UNCHANGED rc ELSE Exits(p, "zero")
  /\ UNCHANGED <<entry, monitor, starts, termed, beats, hb, completed, harmed>>

\* Mutant: the heartbeat is cleared before the completion key is set.
DelFirst(p) ==
  /\ st[p] = "setkey"
  /\ IF hb # 0 THEN hb' = 0 /\ UNCHANGED <<st, completed>>
               ELSE Goto(p, "delhb") /\ completed' = TRUE /\ UNCHANGED hb
  /\ UNCHANGED <<entry, monitor, starts, rc, termed, beats, finished, harmed>>

\* SET of the completion key; a failure is logged only.
SetKey(p) ==
  /\ st[p] = "setkey" /\ Goto(p, "delhb")
  /\ \/ completed' = TRUE /\ UNCHANGED harmed
     \/ RedisMayFail /\ UNCHANGED completed /\ harmed' = [harmed EXCEPT ![p] = TRUE]
  /\ UNCHANGED <<entry, monitor, starts, rc, termed, beats, hb, finished>>

\* DEL of the heartbeat key, whoever wrote it; a failure ends run() all the same.
DelHb(p) ==
  /\ st[p] = "delhb" /\ Goto(p, "exit")
  /\ hb' = 0 \/ (RedisMayFail /\ UNCHANGED hb)
  /\ UNCHANGED <<entry, monitor, starts, rc, termed, beats, completed, finished, harmed>>

\* The process ends by itself: 0, or the code of a preflight's SystemExit.
Exit(p) ==
  /\ st[p] = "exit"
  /\ \E code \in {"zero", "other"} : Exits(p, code)
  /\ UNCHANGED <<entry, monitor, starts, termed, beats, hb, completed, finished, harmed>>

\* SIGTERM while the graph runs: interrupted is set and run() is cancelled.
\* Before main() has installed its handler, the signal simply kills.
HandleTerm(p) ==
  /\ termed[p] /\ termed' = [termed EXCEPT ![p] = FALSE]
  /\ \/ st[p] = "boot" /\ Exits(p, "other")
     \/ st[p] = "work" /\ Goto(p, "unwind") /\ UNCHANGED rc
  /\ UNCHANGED <<entry, monitor, starts, beats, hb, completed, finished, harmed>>

\* SIGTERM during the teardown: the await in progress is cancelled, and whether
\* Redis has applied it is open.
TermInTeardown(p) ==
  /\ termed[p] /\ termed' = [termed EXCEPT ![p] = FALSE]
  /\ \/ st[p] = "setkey" /\ completed' \in {completed, TRUE} /\ UNCHANGED hb
     \/ st[p] = "delhb" /\ hb' \in {hb, 0} /\ UNCHANGED completed
     \/ st[p] = "exit" /\ UNCHANGED <<hb, completed>>
  /\ Exits(p, "other")
  /\ UNCHANGED <<entry, monitor, starts, beats, finished, harmed>>

\* Mutant: the completion key is set on every exit path.
UnwindCompleted(p) ==
  /\ st[p] = "unwind" /\ Goto(p, "linger")
  /\ completed' = TRUE /\ hb' = 0
  /\ UNCHANGED <<entry, monitor, starts, rc, termed, beats, finished, harmed>>

\* The finally of an interrupted run(): no completion key, the heartbeat goes.
Unwind(p) ==
  /\ st[p] = "unwind" /\ Goto(p, "linger")
  /\ hb' = 0 \/ ((~beats[p] \/ RedisMayFail) /\ UNCHANGED hb)
  /\ UNCHANGED <<entry, monitor, starts, rc, termed, beats, completed, finished, harmed>>

\* asyncio.run() joins the executor thread, which still executes the graph; the
\* process ends with 143 when that is over.
LingerEnds(p) ==
  /\ st[p] = "linger" /\ Exits(p, "other")
  /\ UNCHANGED <<entry, monitor, starts, termed, beats, hb, completed, finished, harmed>>

-----------------------------------------------------------------------------
(* Surroundings.                                                           *)

\* SIGKILL; after terminate() the container runtime's own deadline sends it too.
Kill(p) ==
  /\ MayKill /\ Live(p) /\ Exits(p, "other")
  /\ harmed' = [harmed EXCEPT ![p] = TRUE]
  /\ UNCHANGED <<entry, monitor, starts, termed, beats, hb, completed, finished>>

Signal(p) ==
  /\ MaySignal /\ Live(p) /\ ~termed[p]
  /\ termed' = [termed EXCEPT ![p] = TRUE] /\ harmed' = [harmed EXCEPT ![p] = TRUE]
  /\ UNCHANGED <<entry, monitor, starts, st, rc, beats, hb, completed, finished>>

\* The ttl of the heartbeat key passes without a refresh.  A live writer that
\* lets that happen has stalled.
Expire ==
  /\ hb # 0 /\ hb' = 0
  /\ Live(hb) /\ beats[hb] => MayStall
  /\ QuickBoot /\ hb # cur => ~Live(cur)
  /\ harmed' = [harmed EXCEPT ![hb] = @ \/ Live(hb)]
  /\ UNCHANGED <<entry, monitor, starts, st, rc, termed, beats, completed, finished>>

\* WARMUP_GRACE passes.
GraceEnds ==
  /\ status \in Active /\ ~overdue
  /\ overdue' = TRUE
  /\ UNCHANGED <<status, restarts, cur, monitor, procs>>

-----------------------------------------------------------------------------
Monitor ==
  \/ Tick \/ Sweep \/ ReadTtl \/ MonitorCrashes
  \/ LookExited \/ LookHealthy \/ LookSilent
  \/ FoundCompleted \/ GiveUp \/ Terminate
  \/ AwaitExit \/ AwaitTimeout \/ StartReplacement \/ RestartFails

Worker(p) ==
  \/ Boot(p) \/ Beat(p) \/ BeatFails(p) \/ FinishGraph(p)
  \/ SetKey(p) \/ DelHb(p) \/ Exit(p)
  \/ HandleTerm(p) \/ TermInTeardown(p) \/ Unwind(p) \/ LingerEnds(p)

Time == Expire \/ GraceEnds

\* The entry has been swept and no process is left: the monitor ticks on.
Settled ==
  /\ status = "swept" \/ mon = "crashed"
  /\ \A p \in Procs : ~Live(p)
  /\ UNCHANGED vars

Next ==
  \/ Spawn \/ Monitor \/ Time \/ Settled
  \/ \E p \in Procs : Worker(p) \/ Kill(p) \/ Signal(p)

Spec == Init /\ [][Next]_vars

\* The event loop runs the monitor's task and time passes; the worker owes
\* nothing, it may hang in any state.
FairSpec == Spec /\ WF_vars(Monitor) /\ WF_vars(Expire) /\ WF_vars(GraceEnds)

-----------------------------------------------------------------------------
(* Properties.                                                             *)

\* Every variable has its type.
TypeOK ==
  /\ status \in Active \cup {"none", "done", "failed", "swept"}
  /\ restarts \in Nat /\ cur \in Procs \cup {0} /\ overdue \in BOOLEAN
  /\ mon \in MonitorPcs /\ sawTtl \in BOOLEAN /\ late \in BOOLEAN
  /\ starts \in Procs \cup {0}
  /\ st \in [Procs -> ProcStates] /\ rc \in [Procs -> {"none", "zero", "other"}]
  /\ termed \in [Procs -> BOOLEAN] /\ beats \in [Procs -> BOOLEAN]
  /\ hb \in Procs \cup {0} /\ completed \in BOOLEAN
  /\ finished \in [Procs -> BOOLEAN] /\ harmed \in [Procs -> BOOLEAN]

\* README "capped at 3": over both triggers, a bug gets one worker and at most
\* MAX_WORKER_RESTARTS replacements, however its workers die.
RestartsCapped == starts <= MaxRestarts + 1

\* A bug is recorded as done only if a worker came to the end of its graph;
\* otherwise "the run is abandoned mid-flight while being recorded as finished"
\* (bf_worker.py, on the completion key).
DoneIsReal == status = "done" => \E p \in Procs : finished[p]

\* Restart has exactly one owner: there are never "two workers on one bug_id",
\* that is, two processes executing the bug's graph in the same containers.
OneWorker == Cardinality({p \in Procs : Executes(p)}) <= 1

\* A worker that nobody killed, signalled, starved or cut off from Redis is
\* never replaced: the
\* completion key is set "BEFORE clearing the heartbeat so the Monitor never
\* sees heartbeat gone + completion absent", and a worker has its grace period
\* to write the first heartbeat.
OnlyHarmedReplaced == [][starts' > starts /\ cur # 0 => harmed[cur]]_vars

\* A worker that is silent, because it is dead or because it hangs, is noticed
\* as long as the monitor's own task lives (a Redis error ends it): the entry
\* does not stay active for ever without a heartbeat.
SilenceIsNoticed ==
  (status \in Active /\ hb = 0) ~> (status \notin Active \/ hb # 0 \/ mon = "crashed")

=============================================================================
