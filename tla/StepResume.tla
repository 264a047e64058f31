------------------------------ MODULE StepResume ------------------------------
(***************************************************************************)
(* The resumable ReAct loop of one bug-fix run (workflow ver99): a worker  *)
(* process that may be killed at any point and restarted by the            *)
(* orchestrator, the step-checkpoint store on its disk (one "env" and one  *)
(* "agent-0" document) and the detached docker container in which the      *)
(* agent's shell commands run, with its per-command ledger.                *)
(*                                                                         *)
(*   bf_worker/agents/mini_resume.py        ResumableAgent                 *)
(*   bf_worker/agents/mini_resume_env.py    ResumableDockerEnvironment     *)
(*   bf_worker/agents/vendor/mini/agent.py  the loop, run() and step()     *)
(*   bf_worker/agents/mini_swe_agent.py     fix(): release, keep records   *)
(*   bf_worker/services/step_checkpoint.py  FileStore                      *)
(*                                                                         *)
(* The conversation is abstracted to the list of commands with what the    *)
(* model was told about each; the model's answers are arbitrary.  A crash  *)
(* drops everything the process holds in memory, and nothing else.         *)
(***************************************************************************)
EXTENDS Integers, Sequences, FiniteSets

CONSTANTS
  Cmd,                 \* shell commands the model may ask for
  SubmitCmd,           \* the commands whose output is mini's submission
  Cid,                 \* container ids docker may hand out
  None,                \* "no container", "no command"
  MaxActions,          \* bound: actions in one assistant message
  MaxSeq,              \* bound: commands issued to one container
  StepLimit,           \* mini's config.step_limit
  MaxRestarts,         \* the orchestrator's cap on worker restarts
  Ledger,              \* BF_STEP_LEDGER is "ledger" (FALSE: "marker")
  RestartOnAmbiguous,  \* BF_STEP_ON_AMBIGUOUS is "restart" (FALSE: "rerun")
  WriteMayFail,        \* a checkpoint write may raise (disk full, ...)
  ReadMayFail,         \* a stored document may be unreadable
  DockerMayFail,       \* a docker CLI call may fail though the container is up
  RecordsMayExpire,    \* a restart may come after the records' ttl
  ContainerMayDie      \* the container may vanish under the run

ASSUME ConstantsAssumption ==
  /\ SubmitCmd \subseteq Cmd
  /\ None \notin Cmd /\ None \notin Cid
  /\ MaxActions \in Nat \ {0} /\ MaxSeq \in Nat
  /\ StepLimit \in Nat \ {0} /\ MaxRestarts \in Nat
  /\ {Ledger, RestartOnAmbiguous, WriteMayFail, ReadMayFail, DockerMayFail,
      RecordsMayExpire, ContainerMayDie} \subseteq BOOLEAN

\* The worker process.
VARIABLES
  pc,        \* where the process is (see Pcs); "down" when there is none
  starts,    \* processes started so far for this run
  cur,       \* env.container_id
  attached,  \* env._attached
  seq,       \* env._seq: commands issued to this container
  conv,      \* observed commands of the conversation
  acts,      \* actions of the assistant message being executed, <<>> if none
  outs,      \* observations collected so far for acts
  calls,     \* n_calls
  replayed,  \* ctx.replayed_commands
  exit       \* exit status of the loop, "no" while it runs

\* The step-checkpoint store and the containers: they survive the process.
VARIABLES
  envRec,    \* the "env" document
  agRec,     \* the "agent-0" document
  up,        \* containers that are running
  used,      \* containers ever started
  slot,      \* slot[c][n]: ledger directory n of container c and its process
  marker     \* marker[c]: the step marker file of container c

\* History, read by the properties only.
VARIABLES
  ran,       \* ran[c][n]: how often command number n was run in container c
  llm        \* answers the model was paid for, over all processes

worker  == <<pc, starts, cur, attached, seq, conv, acts, outs, calls, replayed, exit>>
records == <<envRec, agRec>>
docker  == <<up, used, slot, marker, ran>>
vars    == <<worker, records, docker, llm>>

-----------------------------------------------------------------------------
Seqs   == 0..MaxSeq
Slots  == 1..MaxSeq
Obs    == [cmd : Cmd, out : {"done", "timeout", "gone"}]
Exits  == {"no", "submitted", "limits", "error", "mismatch", "aborted"}
Pcs    == {"down", "start", "boot", "save_env", "enter", "loop", "asked", "exec",
           "issue", "launch", "wait", "exiting", "returned", "tail", "over"}

\* What an assistant message may ask for: one to MaxActions commands.
Answers == UNION {[1..n -> Cmd] : n \in 1..MaxActions}

\* The two documents.  An absent document is one whose cid is None or whose
\* status is "none"; pend is <<>> in a record with no pending message.
NoEnv   == [cid |-> None, marker |-> FALSE]
NoAgent == [status |-> "none", seq |-> 0, conv |-> <<>>, pend |-> <<>>,
            calls |-> 0, replayed |-> 0, exit |-> "no"]

\* A ledger directory: "written" has cmd, "started" has the started file,
\* "running" has its detached session, "finished" has rc.
Absent == [cmd |-> None, st |-> "absent"]
SlotStates == [cmd : Cmd \cup {None},
               st : {"absent", "written", "started", "running", "finished"}]

Records == [status : {"none", "running", "done"}, seq : Seqs, conv : Seq(Obs),
            pend : Seq(Cmd), calls : Nat, replayed : Nat, exit : Exits]

\* The command being executed while pc is "issue", "launch" or "wait".
Current == acts[Len(outs) + 1]

Init ==
  /\ pc = "down" /\ starts = 0 /\ cur = None /\ attached = FALSE
  /\ seq = 0 /\ conv = <<>> /\ acts = <<>> /\ outs = <<>>
  /\ calls = 0 /\ replayed = 0 /\ exit = "no"
  /\ envRec = NoEnv /\ agRec = NoAgent
  /\ up = {} /\ used = {}
  /\ slot = [c \in Cid |-> [n \in Slots |-> Absent]]
  /\ marker = [c \in Cid |-> 0]
  /\ ran = [c \in Cid |-> [n \in Slots |-> 0]]
  /\ llm = 0

-----------------------------------------------------------------------------
(* Starting a process and its environment: _start_container().             *)

\* The orchestrator spawns the worker, or restarts it at most MaxRestarts times.
StartProcess ==
  /\ pc = "down" /\ starts <= MaxRestarts
  /\ pc' = "start" /\ starts' = starts + 1
  /\ UNCHANGED <<cur, attached, seq, conv, acts, outs, calls, replayed, exit>>
  /\ UNCHANGED <<records, docker, llm>>

\* The "env" document names a container that still runs: attach to it.
Attach ==
  /\ pc = "start" /\ envRec.cid \in up
  /\ cur' = envRec.cid /\ attached' = TRUE /\ pc' = "enter"
  /\ UNCHANGED <<starts, seq, conv, acts, outs, calls, replayed, exit>>
  /\ UNCHANGED <<records, docker, llm>>

\* Mutant: only a half-executed message counts as unfinished.
SeesPendingOnly(sees) == agRec.status = "running" /\ agRec.pend # <<>> /\ sees

\* _has_unfinished_agent_records: an unreadable document does not count.
SeesUnfinished(sees) == agRec.status = "running" /\ sees

\* The named container cannot be used: unfinished conversations are purged with
\* it, finished ones are kept for replay.
Unusable ==
  /\ pc = "start" /\ envRec # NoEnv
  /\ envRec.cid \notin up \/ DockerMayFail
  /\ \E sees \in {TRUE, ~ReadMayFail} :
       IF SeesUnfinished(sees)
         THEN envRec' = NoEnv /\ agRec' = NoAgent
         ELSE UNCHANGED records
  /\ pc' = "boot"
  /\ UNCHANGED <<starts, cur, attached, seq, conv, acts, outs, calls, replayed, exit>>
  /\ UNCHANGED <<docker, llm>>

\* No "env" document, or one that cannot be read.
NoEnvRecord ==
  /\ pc = "start"
  /\ envRec = NoEnv \/ ReadMayFail
  /\ pc' = "boot"
  /\ UNCHANGED <<starts, cur, attached, seq, conv, acts, outs, calls, replayed, exit>>
  /\ UNCHANGED <<records, docker, llm>>

\* The "env" document is older than the store's ttl: load() purges the run.  The
\* ttl exceeds the lifetime of a container, so this one is no longer running.
ExpiredRecords ==
  /\ RecordsMayExpire
  /\ pc = "start" /\ envRec # NoEnv /\ envRec.cid \notin up
  /\ envRec' = NoEnv /\ agRec' = NoAgent /\ pc' = "boot"
  /\ UNCHANGED <<starts, cur, attached, seq, conv, acts, outs, calls, replayed, exit>>
  /\ UNCHANGED <<docker, llm>>

\* docker run: a fresh container, whose marker the self-test sets to 0.
StartContainer ==
  /\ pc = "boot"
  /\ \E c \in Cid \ used :
       cur' = c /\ up' = up \cup {c} /\ used' = used \cup {c}
  /\ attached' = FALSE /\ pc' = "save_env"
  /\ UNCHANGED <<starts, seq, conv, acts, outs, calls, replayed, exit>>
  /\ UNCHANGED <<records, slot, marker, ran, llm>>

\* The container is recorded, with the outcome of the marker self-test.
SaveEnv ==
  /\ pc = "save_env"
  /\ \E ok \in BOOLEAN : envRec' = [cid |-> cur, marker |-> ok]
  /\ pc' = "enter"
  /\ UNCHANGED <<starts, cur, attached, seq, conv, acts, outs, calls, replayed, exit>>
  /\ UNCHANGED <<agRec, docker, llm>>

\* docker run fails, or the record cannot be written: fix() raises, the container
\* is not released, and the graph goes on to its failure branch.
BootFails ==
  /\ \/ pc = "boot" /\ DockerMayFail
     \/ pc = "save_env" /\ WriteMayFail
  /\ exit' = "error" /\ pc' = "tail"
  /\ UNCHANGED <<starts, cur, attached, seq, conv, acts, outs, calls, replayed>>
  /\ UNCHANGED <<records, docker, llm>>

-----------------------------------------------------------------------------
(* Entering the loop: ResumableAgent.run() and _sdlcma_resume().           *)

\* Mutants: the numbering is off by one, is not aligned; n_calls is not restored.
RestoreOffByOne ==
  /\ conv' = agRec.conv /\ calls' = agRec.calls /\ seq' = agRec.seq - 1 /\ outs' = <<>>
RestoreUnaligned ==
  /\ conv' = agRec.conv /\ calls' = agRec.calls /\ seq' = 0 /\ outs' = <<>>
RestoreUncounted ==
  /\ conv' = agRec.conv /\ calls' = 0 /\ seq' = agRec.seq /\ outs' = <<>>

\* _restore: the prefix comes back from the record.
Restore ==
  /\ conv' = agRec.conv /\ calls' = agRec.calls /\ seq' = agRec.seq
  /\ outs' = <<>>

\* No usable record: the conversation starts over, whatever the container holds.
EnterFresh ==
  /\ pc = "enter"
  /\ agRec.status = "none" \/ ReadMayFail
  /\ pc' = "loop"
  /\ UNCHANGED <<starts, cur, attached, seq, conv, acts, outs, calls, replayed, exit>>
  /\ UNCHANGED <<records, docker, llm>>

\* Mutant: the loop is entered whatever the status of the record.
EnterLoopAnyway ==
  /\ pc = "enter" /\ agRec.status = "done"
  /\ Restore /\ acts' = <<>> /\ replayed' = agRec.replayed /\ pc' = "loop"
  /\ UNCHANGED <<starts, cur, attached, exit, records, docker, llm>>

\* A finished record is replayed without taking a step of the loop.
EnterReplay ==
  /\ pc = "enter" /\ agRec.status = "done"
  /\ conv' = agRec.conv /\ calls' = agRec.calls /\ replayed' = agRec.replayed
  /\ exit' = agRec.exit /\ pc' = "returned"
  /\ UNCHANGED <<starts, cur, attached, seq, acts, outs, records, docker, llm>>

\* A pending message is executed again from its first command, unasked.
EnterPending ==
  /\ pc = "enter" /\ agRec.status = "running" /\ agRec.pend # <<>>
  /\ Restore /\ acts' = agRec.pend /\ replayed' = agRec.replayed
  /\ pc' = "exec"
  /\ UNCHANGED <<starts, cur, attached, exit, records, docker, llm>>

\* reconcile(): what the marker file m (-1: unreadable) says of the record.
Verdict(m) ==
  IF ~attached \/ ~envRec.marker THEN "unknown"
  ELSE IF m = -1 THEN (IF agRec.seq > 0 THEN "mismatch" ELSE "clean")
  ELSE IF m <= agRec.seq THEN "clean" ELSE "ambiguous"

\* What reading the marker file may return.
MarkerReads ==
  (IF cur \in up THEN {marker[cur]} ELSE {})
    \cup (IF cur \notin up \/ DockerMayFail THEN {-1} ELSE {})

\* A boundary record: go on, counting the commands that may run again, ...
EnterBoundary ==
  /\ pc = "enter" /\ agRec.status = "running" /\ agRec.pend = <<>>
  /\ \E m \in MarkerReads :
       \/ /\ Verdict(m) \in {"clean", "unknown"}
          /\ replayed' = agRec.replayed
       \/ /\ Verdict(m) = "ambiguous" /\ ~RestartOnAmbiguous
          /\ replayed' = agRec.replayed + (m - agRec.seq)
  /\ Restore /\ acts' = <<>> /\ pc' = "loop"
  /\ UNCHANGED <<starts, cur, attached, exit, records, docker, llm>>

\* ... or purge the run and raise StepResumeAborted before the loop.
EnterAborted ==
  /\ pc = "enter" /\ agRec.status = "running" /\ agRec.pend = <<>>
  /\ \E m \in MarkerReads :
       \/ Verdict(m) = "mismatch"
       \/ Verdict(m) = "ambiguous" /\ RestartOnAmbiguous
  /\ Restore /\ replayed' = agRec.replayed /\ acts' = <<>>
  /\ envRec' = NoEnv /\ agRec' = NoAgent
  /\ exit' = "aborted" /\ pc' = "returned"
  /\ UNCHANGED <<starts, cur, attached, docker, llm>>

-----------------------------------------------------------------------------
(* One iteration: query(), _write_pending(), execute_actions().            *)

\* store.save(): the document is replaced, or the failure is only logged.
Save(doc) == agRec' = doc \/ (WriteMayFail /\ UNCHANGED agRec)

Doc(status, cv, pend, n, ex) ==
  [status |-> status, seq |-> seq, conv |-> cv, pend |-> pend,
   calls |-> n, replayed |-> replayed, exit |-> ex]

\* Mutant: the snapshot is taken before the observations are added.
BoundaryTooEarly(cv, n) == Doc("running", conv, <<>>, n, "no")

\* The document of a completed iteration.
Boundary(cv, n) == Doc("running", cv, <<>>, n, "no")

\* LimitsExceeded: no call is made.
Limits ==
  /\ pc = "loop" /\ calls >= StepLimit
  /\ exit' = "limits" /\ pc' = "exiting"
  /\ UNCHANGED <<starts, cur, attached, seq, conv, acts, outs, calls, replayed>>
  /\ UNCHANGED <<records, docker, llm>>

\* The model answers; its message is in memory only.
Query ==
  /\ pc = "loop" /\ calls < StepLimit
  /\ \E a \in Answers : seq + Len(a) <= MaxSeq /\ acts' = a
  /\ calls' = calls + 1 /\ llm' = llm + 1 /\ outs' = <<>>
  /\ pc' = "asked"
  /\ UNCHANGED <<starts, cur, attached, seq, conv, replayed, exit, records, docker>>

\* FormatError: the answer had no action; the model is told so, and the
\* iteration ends with a boundary checkpoint.
QueryFormatError ==
  /\ pc = "loop" /\ calls < StepLimit
  /\ calls' = calls + 1 /\ llm' = llm + 1
  /\ Save(Boundary(conv, calls + 1))
  /\ UNCHANGED <<pc, starts, cur, attached, seq, conv, acts, outs, replayed, exit>>
  /\ UNCHANGED <<envRec, docker>>

\* Any other exception of the model ends the loop.
QueryError ==
  /\ pc = "loop" /\ calls < StepLimit
  /\ calls' = calls + 1 /\ exit' = "error" /\ pc' = "exiting"
  /\ UNCHANGED <<starts, cur, attached, seq, conv, acts, outs, replayed>>
  /\ UNCHANGED <<records, docker, llm>>

\* Mutant: the message is persisted with its observations only.
NeverPending ==
  /\ pc = "asked" /\ pc' = "exec" /\ UNCHANGED agRec
  /\ UNCHANGED <<starts, cur, attached, seq, conv, acts, outs, calls, replayed, exit>>
  /\ UNCHANGED <<envRec, docker, llm>>

\* The half step is persisted before its first command, with the ledger on.
WritePending ==
  /\ pc = "asked"
  /\ IF Ledger THEN Save(Doc("running", conv, acts, calls, "no"))
               ELSE UNCHANGED agRec
  /\ pc' = "exec"
  /\ UNCHANGED <<starts, cur, attached, seq, conv, acts, outs, calls, replayed, exit>>
  /\ UNCHANGED <<envRec, docker, llm>>

-----------------------------------------------------------------------------
(* execute() with the ledger: probe, write, launch, wait.                  *)

Executing == pc = "exec" /\ Len(outs) < Len(acts)

\* A probe that docker fails to run reads like a slot that does not exist.
ProbeFails == cur \notin up \/ DockerMayFail

\* Mutant: a command counts as launched only once it has finished.
UnlaunchedUnlessDone(s) == s.st # "finished"

\* parse_probe: the slot has no started file.
Unlaunched(s) == s.st \in {"absent", "written"}

\* The slot holds another command: purge the run and raise LedgerMismatch.
ProbeMismatch ==
  /\ Executing /\ Ledger /\ cur \in up
  /\ slot[cur][seq + 1].cmd \notin {None, Current}
  /\ seq' = seq + 1
  /\ envRec' = NoEnv /\ agRec' = NoAgent
  /\ exit' = "mismatch" /\ pc' = "exiting"
  /\ UNCHANGED <<starts, cur, attached, conv, acts, outs, calls, replayed, docker, llm>>

\* The slot is empty, or was written and never launched: issue the command.
ProbeUnstarted ==
  /\ Executing /\ Ledger
  /\ \/ /\ cur \in up
        /\ slot[cur][seq + 1].cmd \in {None, Current}
        /\ Unlaunched(slot[cur][seq + 1])
     \/ ProbeFails
  /\ seq' = seq + 1 /\ pc' = "issue"
  /\ UNCHANGED <<starts, cur, attached, conv, acts, outs, calls, replayed, exit>>
  /\ UNCHANGED <<records, docker, llm>>

\* The command was started by an earlier process: only its result is awaited.
ProbeStarted ==
  /\ Executing /\ Ledger /\ cur \in up
  /\ slot[cur][seq + 1].cmd = Current
  /\ ~Unlaunched(slot[cur][seq + 1])
  /\ seq' = seq + 1 /\ pc' = "wait"
  /\ UNCHANGED <<starts, cur, attached, conv, acts, outs, calls, replayed, exit>>
  /\ UNCHANGED <<records, docker, llm>>

\* Slot n of container c reaches state st with the command it holds.
Reaches(c, n, st) == [slot EXCEPT ![c][n] = [cmd |-> slot[c][n].cmd, st |-> st]]

\* First exec of _issue: clear the slot and write the command body.
WriteCmd ==
  /\ pc = "issue" /\ cur \in up
  /\ slot' = [slot EXCEPT ![cur][seq] = [cmd |-> Current, st |-> "written"]]
  /\ pc' = "launch"
  /\ UNCHANGED <<starts, cur, attached, seq, conv, acts, outs, calls, replayed, exit>>
  /\ UNCHANGED <<records, up, used, marker, ran, llm>>

\* Second exec: the marker, then the started file; the session is detached
\* by the container (Detach).  A client that times out raises LedgerMismatch
\* though the container did launch the command.
Launch ==
  /\ pc = "launch" /\ cur \in up
  /\ slot' = Reaches(cur, seq, "started")
  /\ marker' = [marker EXCEPT ![cur] = IF envRec.marker THEN seq ELSE @]
  /\ \/ pc' = "wait" /\ UNCHANGED exit
     \/ DockerMayFail /\ pc' = "exiting" /\ exit' = "error"
  /\ UNCHANGED <<starts, cur, attached, seq, conv, acts, outs, calls, replayed>>
  /\ UNCHANGED <<records, up, used, ran, llm>>

\* Either exec fails: LedgerMismatch is raised and nothing is purged.
IssueFails ==
  /\ pc \in {"issue", "launch"} /\ ProbeFails
  /\ exit' = "error" /\ pc' = "exiting"
  /\ UNCHANGED <<starts, cur, attached, seq, conv, acts, outs, calls, replayed>>
  /\ UNCHANGED <<records, docker, llm>>

\* execute() without the ledger: one docker exec, prefixed with the marker.
ExecuteMarker ==
  /\ Executing /\ ~Ledger /\ cur \in up
  /\ seq' = seq + 1 /\ pc' = "wait"
  /\ slot' = [slot EXCEPT ![cur][seq + 1] = [cmd |-> Current, st |-> "running"]]
  /\ marker' = [marker EXCEPT ![cur] = IF envRec.marker THEN seq + 1 ELSE @]
  /\ ran' = [ran EXCEPT ![cur][seq + 1] = @ + 1]
  /\ UNCHANGED <<starts, cur, attached, conv, acts, outs, calls, replayed, exit>>
  /\ UNCHANGED <<records, up, used, llm>>

\* The same in a container that is gone: docker's error is the observation.
ExecuteMarkerGone ==
  /\ Executing /\ ~Ledger /\ cur \notin up
  /\ seq' = seq + 1
  /\ outs' = Append(outs, [cmd |-> Current, out |-> "gone"])
  /\ UNCHANGED <<pc, starts, cur, attached, conv, acts, calls, replayed, exit>>
  /\ UNCHANGED <<records, docker, llm>>

\* The command has finished: its output is the observation, and mini's
\* _check_finished raises Submitted when it is the submission.
WaitFinished ==
  /\ pc = "wait" /\ cur \in up /\ slot[cur][seq].st = "finished"
  /\ IF Current \in SubmitCmd
       THEN exit' = "submitted" /\ pc' = "exiting" /\ UNCHANGED outs
       ELSE /\ outs' = Append(outs, [cmd |-> Current, out |-> "done"])
            /\ pc' = "exec" /\ UNCHANGED exit
  /\ UNCHANGED <<starts, cur, attached, seq, conv, acts, calls, replayed>>
  /\ UNCHANGED <<records, docker, llm>>

\* Mutant: the deadline is applied to a command seen running only.
TimeoutIfRunning ==
  /\ pc = "wait" /\ cur \in up /\ slot[cur][seq].st = "running"
  /\ outs' = Append(outs, [cmd |-> Current, out |-> "timeout"])
  /\ pc' = "exec"
  /\ UNCHANGED <<starts, cur, attached, seq, conv, acts, calls, replayed, exit>>
  /\ UNCHANGED <<records, docker, llm>>

\* The deadline has passed; rc decides first, so only an unfinished command
\* (or one whose probe failed) is reported as timed out.  Nothing is killed.
WaitTimeout ==
  /\ pc = "wait" /\ cur \in up
  /\ slot[cur][seq].st # "finished" \/ DockerMayFail
  /\ outs' = Append(outs, [cmd |-> Current, out |-> "timeout"])
  /\ pc' = "exec"
  /\ UNCHANGED <<starts, cur, attached, seq, conv, acts, calls, replayed, exit>>
  /\ UNCHANGED <<records, docker, llm>>

\* The container vanished while the command was awaited.
WaitGone ==
  /\ pc = "wait" /\ cur \notin up
  /\ outs' = Append(outs, [cmd |-> Current, out |-> "gone"])
  /\ pc' = "exec"
  /\ UNCHANGED <<starts, cur, attached, seq, conv, acts, calls, replayed, exit>>
  /\ UNCHANGED <<records, docker, llm>>

-----------------------------------------------------------------------------
(* Ends: of an iteration, of the loop, of fix(), of the run.               *)

\* All observations are added and the boundary record is written.
EndIteration ==
  /\ pc = "exec" /\ Len(outs) = Len(acts)
  /\ conv' = conv \o outs /\ acts' = <<>> /\ outs' = <<>>
  /\ Save(Boundary(conv \o outs, calls))
  /\ pc' = "loop"
  /\ UNCHANGED <<starts, cur, attached, seq, calls, replayed, exit, envRec, docker, llm>>

\* The exit message is added; the loop's finally writes a "done" record.
EndLoop ==
  /\ pc = "exiting"
  /\ Save(Doc("done", conv, <<>>, calls, exit))
  /\ pc' = "returned"
  /\ UNCHANGED <<starts, cur, attached, seq, conv, acts, outs, calls, replayed, exit>>
  /\ UNCHANGED <<envRec, docker, llm>>

\* fix() returns: the container is released, the records are kept.
Release ==
  /\ pc = "returned"
  /\ up' = up \ {cur} \/ (DockerMayFail /\ UNCHANGED up)
  /\ pc' = "tail"
  /\ UNCHANGED <<starts, cur, attached, seq, conv, acts, outs, calls, replayed, exit>>
  /\ UNCHANGED <<records, used, slot, marker, ran, llm>>

\* The graph finishes in this process: purge_run_records.
Complete ==
  /\ pc = "tail"
  /\ envRec' = NoEnv /\ agRec' = NoAgent /\ pc' = "over"
  /\ UNCHANGED <<starts, cur, attached, seq, conv, acts, outs, calls, replayed, exit>>
  /\ UNCHANGED <<docker, llm>>

\* The worker is killed, or unwinds on SIGTERM: memory is lost.
Crash ==
  /\ pc \notin {"down", "over"}
  /\ pc' = "down" /\ cur' = None /\ attached' = FALSE
  /\ seq' = 0 /\ conv' = <<>> /\ acts' = <<>> /\ outs' = <<>>
  /\ calls' = 0 /\ replayed' = 0 /\ exit' = "no"
  /\ UNCHANGED <<starts, records, docker, llm>>

-----------------------------------------------------------------------------
(* The container, which runs on while no worker does.                      *)

\* setsid: the command really starts.
Detach(c, n) ==
  /\ c \in up /\ slot[c][n].st = "started"
  /\ slot' = Reaches(c, n, "running")
  /\ ran' = [ran EXCEPT ![c][n] = @ + 1]
  /\ UNCHANGED <<worker, records, up, used, marker, llm>>

\* The detached session writes rc.
Finish(c, n) ==
  /\ c \in up /\ slot[c][n].st = "running"
  /\ slot' = Reaches(c, n, "finished")
  /\ UNCHANGED <<worker, records, up, used, marker, ran, llm>>

ContainerDies(c) ==
  /\ ContainerMayDie /\ c \in up
  /\ up' = up \ {c}
  /\ UNCHANGED <<worker, records, used, slot, marker, ran, llm>>

-----------------------------------------------------------------------------
Environment ==
  \/ StartProcess \/ Attach \/ Unusable \/ NoEnvRecord \/ ExpiredRecords
  \/ StartContainer \/ SaveEnv \/ BootFails
  \/ EnterFresh \/ EnterReplay \/ EnterPending \/ EnterBoundary \/ EnterAborted

Loop ==
  \/ Limits \/ Query \/ QueryFormatError \/ QueryError \/ WritePending
  \/ ProbeMismatch \/ ProbeUnstarted \/ ProbeStarted
  \/ WriteCmd \/ Launch \/ IssueFails \/ ExecuteMarker \/ ExecuteMarkerGone
  \/ WaitFinished \/ WaitTimeout \/ WaitGone
  \/ EndIteration \/ EndLoop \/ Release \/ Complete

Container ==
  \E c \in Cid :
    \/ ContainerDies(c)
    \/ \E n \in Slots : Detach(c, n) \/ Finish(c, n)

\* The run is over, or the orchestrator has given it up.
Ended == pc = "over" \/ (pc = "down" /\ starts > MaxRestarts)

Terminated == Ended /\ UNCHANGED vars

Next == Environment \/ Loop \/ Crash \/ Container \/ Terminated

Spec == Init /\ [][Next]_vars

\* A process that runs keeps running until it ends or is killed, and the
\* orchestrator restarts a dead one; the container owes nothing.
FairSpec == Spec /\ WF_vars(Environment \/ Loop)

-----------------------------------------------------------------------------
(* Properties.                                                             *)

\* The process is inside the loop, with a conversation in memory.
InLoop == pc \in {"loop", "asked", "exec", "issue", "launch", "wait"}

\* Every variable has its type.
TypeOK ==
  /\ pc \in Pcs /\ starts \in Nat /\ cur \in Cid \cup {None} /\ attached \in BOOLEAN
  /\ seq \in Seqs /\ conv \in Seq(Obs) /\ acts \in Seq(Cmd) /\ outs \in Seq(Obs)
  /\ calls \in Nat /\ replayed \in Nat /\ exit \in Exits
  /\ envRec \in [cid : Cid \cup {None}, marker : BOOLEAN]
  /\ agRec \in Records
  /\ up \subseteq used /\ used \subseteq Cid
  /\ slot \in [Cid -> [Slots -> SlotStates]]
  /\ marker \in [Cid -> Seqs]
  /\ ran \in [Cid -> [Slots -> Nat]] /\ llm \in Nat

\* README "tool execution exactly-once across the restart", its safety half:
\* however often the worker is killed, no ledger slot's command is run twice.
AtMostOnce == \A c \in Cid, n \in Slots : ran[c][n] <= 1

\* The conversation tells the truth about the container it continues in
\* (mini_resume_env.py: otherwise it "would be a pack of lies about a container
\* that no longer exists"): every command it reports as done has been run by
\* this container, under that number.
TrueAccount ==
  InLoop => \A i \in 1..Len(conv) :
              conv[i].out = "done" =>
                slot[cur][i].cmd = conv[i].cmd /\ ran[cur][i] >= 1

\* No step runs again a command that the stored record covers and the container
\* has run.
RunsNoCompleted ==
  \A n \in Slots :
    agRec.status = "running" /\ envRec.cid # None /\ n <= agRec.seq
      => ran[envRec.cid][n] = 0 \/ ran'[envRec.cid][n] = ran[envRec.cid][n]

\* A resumed worker continues "from the last completed step instead of
\* re-running the trajectory": a command that the stored record covers and the
\* container has run is never run again.  Without the ledger that is so even if
\* docker calls and checkpoint writes fail.
CompletedStepsNotRerun == [][RunsNoCompleted]_vars

\* The model is never asked again for a step whose commands the container has
\* seen (step(): persisting the message before its commands run "is what makes
\* exactly-once meaningful").
NoOrphanCommand ==
  pc = "loop" => \A n \in Slots : n > seq => slot[cur][n] = Absent

\* A finished loop is replayed "for zero LLM calls": as long as a done record
\* is stored, no process asks the model anything.
ReplayIsFree == [][agRec.status = "done" => llm' = llm]_vars

\* A kill costs at most one paid answer (the one not yet persisted); all the
\* others are in the restored n_calls that step_limit is compared with.
KillCostsOneCall == InLoop => llm <= calls + (starts - 1)

\* Neither kills nor resumed, half-written or lost records make the run hang:
\* it completes, or the orchestrator has used up its restarts.
EventuallyEnds == <>Ended

-----------------------------------------------------------------------------
(* The inductive invariant behind AtMostOnce and TrueAccount.              *)

\* Numbering: a message is taken up only if its commands have slots, and a
\* process that executes has a container.
Bounds ==
  /\ pc \notin {"down", "start", "boot", "tail", "over"} => cur \in Cid
  /\ pc = "asked" => outs = <<>>
  /\ pc \in {"asked", "exec"} =>
       Len(outs) <= Len(acts) /\ seq + (Len(acts) - Len(outs)) <= MaxSeq
  /\ pc \in {"issue", "launch", "wait"} =>
       Len(outs) < Len(acts) /\ 1 <= seq /\ seq + (Len(acts) - Len(outs)) <= MaxSeq + 1
  /\ agRec.seq + Len(agRec.pend) <= MaxSeq

\* With reliable docker calls the ledger is exact: the commands that were run
\* are those whose slot says so, and only a slot that was never launched is
\* about to be written.
LedgerExact ==
  /\ \A c \in Cid, n \in Slots :
       ran[c][n] = IF slot[c][n].st \in {"running", "finished"} THEN 1 ELSE 0
  /\ pc = "issue" /\ cur \in up => slot[cur][seq].st \in {"absent", "written"}
  /\ pc = "launch" /\ cur \in up => slot[cur][seq].st = "written"

\* Ledger l, of one container, confirms the observations cv.
Confirms(l, cv) ==
  \A i \in Slots : i <= Len(cv) /\ cv[i].out = "done" =>
    l[i].cmd = cv[i].cmd /\ l[i].st \in {"running", "finished"}

\* An unfinished record speaks of the recorded container, and of as many
\* commands as it numbers; no container is started while there is one.
RecordExact ==
  agRec.status = "running" =>
    /\ pc \notin {"boot", "save_env"} /\ envRec.cid \in Cid
    /\ Len(agRec.conv) = agRec.seq
    /\ Confirms(slot[envRec.cid], agRec.conv)

\* So does the memory of the process, up to the command being executed.
MemoryExact ==
  /\ pc \in {"down", "start", "boot", "save_env", "enter"} =>
       seq = 0 /\ conv = <<>> /\ outs = <<>>
  /\ pc = "enter" => envRec.cid = cur
  /\ InLoop => envRec.cid = cur /\ Confirms(slot[cur], conv \o outs)
  /\ pc \in {"loop", "asked"} => seq = Len(conv) /\ outs = <<>>
  /\ pc = "exec" => seq = Len(conv) + Len(outs)
  /\ pc \in {"issue", "launch", "wait"} => seq = Len(conv) + Len(outs) + 1
  /\ pc \in {"launch", "wait"} /\ cur \in up => slot[cur][seq].cmd = Current

\* The whole invariant, inductive when the ledger is on and docker calls and
\* reads are reliable; kills, failing writes and dying containers are allowed.
LedgerInv == TypeOK /\ Bounds /\ LedgerExact /\ RecordExact /\ MemoryExact

=============================================================================
