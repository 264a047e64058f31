------------------------------ MODULE Spawners ------------------------------
(***************************************************************************)
(* The four worker spawners (src/orchestrator/spawner.py) on the runtimes  *)
(* they drive: a child process, a Docker container, an ECS task and a      *)
(* Kubernetes Job.  Each wraps what it started in a proxy with a return    *)
(* code, and the health monitor restarts the worker through it.            *)
(*                                                                         *)
(* One bug is followed: workers of different bugs share nothing here.  A   *)
(* unit is one worker the spawner started for it.  The runtimes are        *)
(* external and modelled by what the proxies can observe of them: a unit   *)
(* is scheduled late, stops late after it was told to, is not yet or no    *)
(* longer listed, and any call to a runtime may fail.                      *)
(* The monitor's own interleavings with the worker are in WorkerHealth.    *)
(***************************************************************************)
EXTENDS Naturals, Sequences

CONSTANTS
    Kinds,          \* the spawners of the deployments considered
    Nodes,          \* the nodes of the cluster
    NoNode,         \* a node is not known
    NoCode,         \* a return code is not known
    Affinities,     \* the values of K8S_WORKER_RESUME_AFFINITY considered
    MaxWorkerRestarts,  \* MAX_WORKER_RESTARTS
    MaxNodeLookups, \* K8sJobProxy._MAX_NODE_LOOKUPS
    MaxUnits,       \* bound: workers, of which an orchestrator restart keeps room for
                    \* the next ones
    MaxFaults       \* bound: failed calls, stalls, deletions from outside and
                    \* restarts of the orchestrator

ASSUME SpawnersAssumption ==
    /\ Kinds \subseteq {"process", "docker", "ecs", "k8s"}
    /\ Affinities \subseteq {"preferred", "required", "off"}
    /\ NoNode \notin Nodes /\ \A c \in {0, 1} : c # NoCode
    /\ MaxWorkerRestarts \in Nat /\ MaxNodeLookups \in Nat
    /\ MaxUnits \in Nat /\ MaxFaults \in Nat

VARIABLES
    kind,       \* the spawner of this deployment
    affinity,   \* its resume affinity; intra-loop resume is on
    units,      \* every worker started for the bug, in order, each with its proxy
    entry,      \* its WorkerEntry in the registry
    step,       \* where the monitor is: "watch", "stopping" or "starting"
    beat,       \* the heartbeat key exists
    completed,  \* the completion key exists
    forgot,     \* how many units there were when the orchestrator restarted, or 0
    faults      \* bound counter

vars == <<kind, affinity, units, entry, step, beat, completed, forgot, faults>>

Codes == {NoCode, 0, 1}     \* 1 stands for every code other than 0
Active == entry.status \in {"warmup", "running"}
Fault == faults < MaxFaults /\ faults' = faults + 1

-----------------------------------------------------------------------------
(* A unit.  Of the runtime: pod, the process itself; exit, its exit code;  *)
(* listed, the API shows the object; lost, it is gone for good; told, it   *)
(* was asked to stop; node, where it runs; name, the restart count in its  *)
(* name; hint, the node its spec asks for.  Of the proxy: rc, the return   *)
(* code; seen, the cached node; lookups.                                   *)
Unit(name, hint) ==
    [pod |-> IF kind \in {"ecs", "k8s"} THEN "pending" ELSE "up", exit |-> NoCode,
     listed |-> kind # "ecs", lost |-> FALSE, told |-> FALSE, node |-> NoNode,
     name |-> name, hint |-> hint, rc |-> NoCode, seen |-> NoNode, lookups |-> 0]

NoEntry == [status |-> "none", unit |-> 0, count |-> 0]

(* K8S_WORKER_RESUME_AFFINITY: a value that is none of the three does not  *)
(* come past the spawner's constructor.                                    *)
Affinity == IF kind = "k8s" THEN Affinities ELSE {"off"}

Init ==
    /\ kind \in Kinds
    /\ affinity \in Affinity
    /\ units = <<>>
    /\ entry = NoEntry
    /\ step = "watch"
    /\ beat = FALSE /\ completed = FALSE
    /\ forgot = 0 /\ faults = 0

(* The units that hold the name a start asks for.  A container is named    *)
(* after the bug alone and is never removed; a Job's name carries the      *)
(* restart count; a process and a task get an identity of their own.       *)
Holders(count) ==
    {i \in DOMAIN units : /\ kind \in {"docker", "k8s"} /\ units[i].listed
                          /\ kind = "k8s" => units[i].name = count}

(* _start_process, _start_container, _start_task, _start_job: a new unit,  *)
(* or for a Job whose name is taken the one that holds it, with a proxy of *)
(* its own either way.                                                     *)
Created(count, hint) ==
    /\ Holders(count) = {}
    /\ units' = Append(units, Unit(count, hint))
    /\ entry' = [status |-> "warmup", unit |-> Len(units) + 1, count |-> count]
    /\ UNCHANGED faults
Adopted(count) ==
    /\ kind = "k8s"
    /\ \E i \in Holders(count) :
          /\ units' = [units EXCEPT ![i].rc = NoCode, ![i].seen = NoNode, ![i].lookups = 0]
          /\ entry' = [status |-> "warmup", unit |-> i, count |-> count]
    /\ UNCHANGED faults
Raises(count) ==
    /\ UNCHANGED units
    /\ \/ kind = "docker" /\ Holders(count) # {} /\ UNCHANGED faults
       \/ Fault

(* spawn, with no active entry of the bug in the registry: an exception    *)
(* reaches the consumer, and nothing is registered.                        *)
Spawn ==
    /\ entry.status = "none"
    /\ Created(0, NoNode) \/ Adopted(0) \/ (Raises(0) /\ UNCHANGED entry)
    /\ UNCHANGED <<kind, affinity, step, beat, completed, forgot>>

(* The orchestrator restarts: its registry is in memory, its workers live  *)
(* on.  The event of the bug is then delivered again.                      *)
Forget ==
    /\ forgot = 0 /\ Active /\ Fault
    /\ Len(units) + 1 + MaxWorkerRestarts <= MaxUnits
    /\ entry' = NoEntry
    /\ step' = "watch"
    /\ forgot' = Len(units)
    /\ UNCHANGED <<kind, affinity, units, beat, completed>>

-----------------------------------------------------------------------------
(* The runtimes *)

Over(u) == u.pod = "exited"
(* Nobody looks at them any more once the entry is terminal.               *)
Watched == entry.status \notin {"done", "failed"}
Alone == Watched /\ UNCHANGED <<kind, affinity, entry, step, forgot>>

(* A task or a pod is placed.  A required affinity admits only the node    *)
(* hinted at; a preferred one can be overruled by the scheduler.           *)
Schedule(i, n) ==
    /\ units[i].pod = "pending" /\ ~units[i].told
    /\ units[i].hint = NoNode \/ affinity # "required" \/ n = units[i].hint
    /\ units' = [units EXCEPT ![i].pod = "up",
                              ![i].node = IF kind = "k8s" THEN n ELSE NoNode]
    /\ Alone /\ UNCHANGED <<beat, completed, faults>>

(* describe_tasks catches up with run_task, for the one task asked about.  *)
Appear(i) ==
    /\ i = entry.unit
    /\ ~units[i].listed /\ ~units[i].lost
    /\ units' = [units EXCEPT ![i].listed = TRUE]
    /\ Alone /\ UNCHANGED <<beat, completed, faults>>

(* A worker ends, and has set the completion key or not, or dies.          *)
Exit(i, code) ==
    /\ units[i].pod = "up" /\ ~units[i].told
    /\ units' = [units EXCEPT ![i].pod = "exited", ![i].exit = code]
    /\ completed' \in {completed, TRUE}
    /\ Alone /\ UNCHANGED <<beat, faults>>

(* A unit that was told to stop does, or ends first.                       *)
Obey(i) ==
    /\ units[i].told /\ ~Over(units[i])
    /\ units' = [units EXCEPT ![i].pod = "exited", ![i].exit = 1]
    /\ completed' \in {completed, TRUE}
    /\ Alone /\ UNCHANGED <<beat, faults>>

(* The object leaves the API: a Job by its TTL, a task some time after it  *)
(* stopped (of interest for the one asked about); or a Job that still runs *)
(* is deleted from outside.                                                *)
Vanish(i) ==
    /\ kind = "k8s" \/ (kind = "ecs" /\ i = entry.unit)
    /\ units[i].listed
    /\ \/ Over(units[i]) /\ UNCHANGED faults
       \/ kind = "k8s" /\ ~Over(units[i]) /\ Fault
    /\ units' = [units EXCEPT ![i].listed = FALSE, ![i].lost = TRUE,
                              ![i].told = @ \/ ~Over(units[i])]
    /\ Alone /\ UNCHANGED <<beat, completed>>

(* The heartbeat key: set by a worker that runs; expired when none does,   *)
(* or when the ones that do are stalled.                                   *)
Working == \E i \in DOMAIN units : units[i].pod = "up"
Beat ==
    /\ Working /\ ~beat
    /\ beat' = TRUE
    /\ Alone /\ UNCHANGED <<units, completed, faults>>
BeatExpires ==
    /\ beat /\ beat' = FALSE
    /\ \/ ~Working /\ UNCHANGED faults
       \/ Working /\ Fault
    /\ Alone /\ UNCHANGED <<units, completed>>

-----------------------------------------------------------------------------
(* reload_status of the four proxies *)

(* K8sJobProxy.lookup_node: read once, asked at most MaxNodeLookups times. *)
(* The pod of a deleted Job is not found.                                  *)
LookupNode(u) ==
    IF u.seen # NoNode \/ u.lookups >= MaxNodeLookups THEN u
    ELSE [u EXCEPT !.lookups = @ + 1, !.seen = IF u.lost THEN NoNode ELSE u.node]

ReadProcess(u) == [u EXCEPT !.rc = u.exit]
ReadContainer(u) == IF Over(u) THEN [u EXCEPT !.rc = u.exit] ELSE u
ReadTaskAnyEmpty(u) ==
    CASE ~u.listed          -> [u EXCEPT !.rc = 1]
      [] u.listed /\ Over(u) -> [u EXCEPT !.rc = u.exit]
      [] OTHER              -> u
ReadTask(u) ==
    IF u.lost THEN [u EXCEPT !.rc = 1]      \* reason MISSING
    ELSE IF u.listed /\ Over(u) THEN [u EXCEPT !.rc = u.exit]
    ELSE u
ReadJob(u) ==
    CASE ~u.listed           -> [u EXCEPT !.rc = IF @ = NoCode THEN 0 ELSE @]
      [] u.listed /\ Over(u) -> [u EXCEPT !.rc = u.exit]
      [] OTHER               -> LookupNode(u)

Reloaded(u) == CASE kind = "process" -> ReadProcess(u)
                 [] kind = "docker"  -> ReadContainer(u)
                 [] kind = "ecs"     -> ReadTask(u)
                 [] kind = "k8s"     -> ReadJob(u)

(* The same with the call failing: Docker takes it for an exit, the others *)
(* learn nothing; a failed look-up of the node counts as one.              *)
Unread(u) ==
    CASE kind = "docker" -> {[u EXCEPT !.rc = 1]}
      [] kind = "k8s"    -> {u, [LookupNode(u) EXCEPT !.seen = u.seen]}
      [] OTHER           -> {u}

-----------------------------------------------------------------------------
(* terminate: stop() of a container returns when it has stopped; a Job is  *)
(* deleted at once and its pod later; a process and a task are signalled.  *)
Terminated(u) ==
    CASE kind = "docker" -> [u EXCEPT !.told = TRUE, !.pod = "exited",
                                      !.exit = IF @ = NoCode THEN 1 ELSE @]
      [] kind = "k8s"    -> [u EXCEPT !.told = TRUE, !.listed = FALSE, !.lost = TRUE]
      [] OTHER           -> [u EXCEPT !.told = TRUE]

(* restart up to its first await: the node of a Job is read before the Job *)
(* is deleted.                                                             *)
Hinted(u) == IF kind = "k8s" THEN LookupNode(u) ELSE u
StopOldUntold(u) == Hinted(u)
StopOldFirst(u) == Hinted(Terminated(u))
StopOld(u) == Terminated(Hinted(u))

Enter(status) == entry' = [entry EXCEPT !.status = status]
Leave(u) == units' = [units EXCEPT ![entry.unit] = u] /\ UNCHANGED step

(* HealthMonitor._restart and the restart of the spawner behind it.  A     *)
(* call to a runtime can fail to stop the worker, the more so after a      *)
(* failed reload (f > faults): it is swallowed.                            *)
Restart(u, f) ==
    \/ /\ entry.count >= MaxWorkerRestarts
       /\ Enter("failed") /\ Leave(u) /\ faults' = f
    \/ /\ entry.count < MaxWorkerRestarts
       /\ \/ units' = [units EXCEPT ![entry.unit] = StopOld(u)] /\ faults' = f
          \/ /\ units' = [units EXCEPT ![entry.unit] = Hinted(u)]
             /\ \/ f > faults /\ faults' = f
                \/ kind # "process" /\ f < MaxFaults /\ faults' = f + 1
       /\ step' = IF kind \in {"process", "docker"} THEN "stopping" ELSE "starting"
       /\ UNCHANGED entry

(* No heartbeat yet: before or past the warm-up deadline.                  *)
WarmUpWaits == Enter("warmup")
WarmUp == Enter("warmup") \/ Enter("failed")

(* HealthMonitor._check_all on the entry, u being its unit as reloaded:    *)
(* the return code first, then the heartbeat.                              *)
Dead(u) == u.rc # NoCode
Silent(u) == ~Dead(u) /\ ~beat
Verdict(u, f) ==
    \/ /\ \/ Dead(u) /\ (u.rc = 0 \/ completed)
          \/ Silent(u) /\ entry.status = "running" /\ completed
       /\ Enter("done") /\ Leave(u) /\ faults' = f
    \/ /\ \/ Dead(u) /\ u.rc # 0 /\ ~completed
          \/ Silent(u) /\ entry.status = "running" /\ ~completed
       /\ Restart(u, f)
    \/ /\ ~Dead(u) /\ beat
       /\ Enter("running") /\ Leave(u) /\ faults' = f
    \/ /\ Silent(u) /\ entry.status = "warmup"
       /\ WarmUp /\ Leave(u) /\ faults' = f

Check ==
    /\ Active /\ step = "watch"
    /\ \/ Verdict(Reloaded(units[entry.unit]), faults)
       \/ /\ kind # "process" /\ faults < MaxFaults
          /\ \E u \in Unread(units[entry.unit]) : Verdict(u, faults + 1)
    /\ UNCHANGED <<kind, affinity, beat, completed, forgot>>

(* wait_for(process.wait()): the old worker is gone, or the wait times out *)
(* and it is killed; a container that could not be stopped may survive.    *)
AwaitExit ==
    /\ step = "stopping"
    /\ \/ Over(units[entry.unit]) /\ UNCHANGED <<units, faults>>
       \/ /\ ~Over(units[entry.unit])
          /\ units' = [units EXCEPT ![entry.unit].pod = "exited", ![entry.unit].exit = 1]
          /\ UNCHANGED faults
       \/ /\ ~Over(units[entry.unit]) /\ ~units[entry.unit].told
          /\ UNCHANGED <<units, faults>>
    /\ step' = "starting"
    /\ UNCHANGED <<kind, affinity, entry, beat, completed, forgot>>

(* _resume_affinity_spec: no hint where the operator turned it off.        *)
Hint == IF affinity # "off" THEN units[entry.unit].seen ELSE NoNode

Replace ==
    /\ step = "starting"
    /\ step' = "watch"
    /\ \/ Created(entry.count + 1, Hint)
       \/ Adopted(entry.count + 1)
       \/ Raises(entry.count + 1) /\ Enter("failed")
    /\ UNCHANGED <<kind, affinity, beat, completed, forgot>>

Runtime(i) ==
    \/ \E n \in Nodes : Schedule(i, n)
    \/ Appear(i) \/ Obey(i) \/ Vanish(i)
    \/ \E code \in {0, 1} : Exit(i, code)

Next ==
    \/ Spawn \/ Forget \/ Check \/ AwaitExit \/ Replace
    \/ Beat \/ BeatExpires
    \/ \E i \in DOMAIN units : Runtime(i)

Spec == Init /\ [][Next]_vars

(* The monitor's loop goes on and its warm-up deadline passes; a worker    *)
(* ends some day, and a heartbeat nobody renews expires.                   *)
GivesUp == Check /\ entry'.status \notin {"warmup", "running"}
Stops(i) == Obey(i) \/ \E code \in {0, 1} : Exit(i, code)
FairSpec ==
    /\ Spec
    /\ WF_vars(Check) /\ SF_vars(GivesUp)
    /\ WF_vars(AwaitExit \/ Replace)
    /\ WF_vars(BeatExpires)
    /\ WF_vars(\E i \in DOMAIN units : Stops(i))

-----------------------------------------------------------------------------
MaybeNode == Nodes \cup {NoNode}
Units == [pod : {"pending", "up", "exited"}, exit : Codes, listed : BOOLEAN,
          lost : BOOLEAN, told : BOOLEAN, node : MaybeNode,
          name : 0..MaxWorkerRestarts, hint : MaybeNode, rc : Codes,
          seen : MaybeNode, lookups : 0..MaxNodeLookups]

(* Every variable has its type; the monitor is in the middle of a restart  *)
(* only for an active entry.                                               *)
TypeOK ==
    /\ kind \in Kinds /\ affinity \in Affinities \cup {"off"}
    /\ units \in Seq(Units)
    /\ entry \in [status : {"none", "warmup", "running", "done", "failed"},
                  unit : 0..Len(units), count : 0..MaxWorkerRestarts]
    /\ entry.status # "none" => entry.unit > 0
    /\ step \in {"watch", "stopping", "starting"}
    /\ step # "watch" => Active
    /\ beat \in BOOLEAN /\ completed \in BOOLEAN
    /\ forgot \in 0..Len(units) /\ faults \in 0..MaxFaults

(* One owner of the bug (spawner.py 1015-1024, 1126-1131): with no call to *)
(* a runtime failing, every worker but the registered one is over or on    *)
(* its way out.  An orchestrator that restarts keeps this for containers,  *)
(* whose name refuses a second one, and for a first Job, which it adopts.  *)
OneOwner ==
    /\ faults = IF forgot > 0 THEN 1 ELSE 0
    /\ forgot > 0 => kind = "docker" \/ (kind = "k8s" /\ forgot = 1)
    /\ entry.status # "none"
    => \A i \in DOMAIN units : i # entry.unit => Over(units[i]) \/ units[i].told

(* An answer that is late or missing never condemns a worker (spawner.py   *)
(* 414-426, 435-439): except under Docker, a proxy has a return code only  *)
(* once its unit is over or its object gone for good.                      *)
CodeIsEarned ==
    \A i \in DOMAIN units :
       kind # "docker" /\ units[i].rc # NoCode => Over(units[i]) \/ units[i].lost

(* "ORDER MATTERS" (spawner.py 845-849): a restarted Job asks for the node *)
(* its predecessor was placed on, where the records and the evaluation     *)
(* container are, and gets it where that is required; unless the look-ups  *)
(* were used up before the predecessor was placed.                         *)
SteeredBack ==
    /\ kind = "k8s" /\ affinity # "off" /\ faults = 0
    => \A i \in 2..Len(units) :
          \/ /\ units[i].hint = units[i - 1].node
             /\ affinity = "required" /\ units[i].hint # NoNode
                => units[i].node \in {NoNode, units[i - 1].node}
          \/ units[i].hint = NoNode /\ units[i - 1].lookups = MaxNodeLookups

(* Whatever dies, stalls or cannot be reached, the registry entry reaches  *)
(* a terminal status: the restarts are capped and a worker that never      *)
(* shows a heartbeat is given up (monitor.py 127-132, 153-167).            *)
BugSettles == Active ~> ~Active
=============================================================================
