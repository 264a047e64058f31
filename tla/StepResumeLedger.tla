-------------------------- MODULE StepResumeLedger --------------------------
(***************************************************************************)
(* What the command ledger guarantees, for every value of the constants:   *)
(*                                                                         *)
(*   AtMostOnceHolds         needs reliable docker calls (ExactInv)        *)
(*   TrueAccountHolds        needs reliable reads as well (AccountInv)     *)
(*   NoOrphanCommandHolds    and reliable checkpoint writes (FrontierInv)  *)
(*   KillCostsOneCallHolds   and no fault but kills (BillInv)              *)
(*   ReplayIsFreeHolds       needs reliable reads only (DoneInv)           *)
(*   CompletedStepsNotRerunHolds  with the ledger needs reliable docker    *)
(*                           calls, without it reliable reads (MarkerInv)  *)
(*                                                                         *)
(* Kills at any point are part of the specification in all of them, and so *)
(* is every fault that a theorem does not exclude.                         *)
(***************************************************************************)
EXTENDS StepResumeTypes

\* The states of a slot whose command has been run.
Ran == {"running", "finished"}

ExactInv == TypeInv /\ LedgerExact

\* Ledger k still holds every command that ledger l says was run.
Keeps(l, k) == \A i \in Slots : l[i].st \in Ran => k[i].cmd = l[i].cmd /\ k[i].st \in Ran

AccountInv == ExactInv /\ RecordExact /\ MemoryExact

\* BF_STEP_LEDGER=ledger, with docker calls and reads that do not fail.
Reliable == Ledger /\ ~DockerMayFail /\ ~ReadMayFail

\* Where a process can be while a finished record is stored.
DoneInv ==
  agRec.status = "done" => pc \notin {"loop", "asked", "exec", "issue", "launch", "wait",
    "exiting"}

\* Ledger l and marker m of a container hold nothing that the document doc does
\* not speak of: no slot beyond its pending message, in the slots of that
\* message nothing but its commands, and no later command in the marker.
Covers(doc, l, m) ==
  /\ m <= doc.seq + Len(doc.pend)
  /\ \A n \in Slots : n > doc.seq + Len(doc.pend) => l[n] = Absent
  /\ \A n \in Slots : n > doc.seq /\ n <= doc.seq + Len(doc.pend) =>
       l[n].cmd \in {None, doc.pend[n - doc.seq]}

\* The stored record covers the recorded container; a container that was never
\* recorded is blank.
Covered ==
  /\ agRec.status # "done" /\ envRec.cid \in Cid =>
       Covers(agRec, slot[envRec.cid], marker[envRec.cid])
  /\ \A c \in Cid : c \notin used \/ (pc = "save_env" /\ c = cur) =>
       Covers(NoAgent, slot[c], marker[c])

\* With reliable writes the record is never behind the memory of the process by
\* more than the answer that was just paid for.
Persisted ==
  /\ agRec.status = "none" => agRec = NoAgent
  /\ pc \in {"down", "start", "boot", "save_env", "enter"} => calls = 0
  /\ pc \in {"loop", "asked"} => agRec.pend = <<>> /\ agRec.seq = seq
  /\ pc = "loop" => agRec.calls = calls
  /\ pc = "asked" => agRec.calls = calls - 1
  /\ pc \in {"exec", "issue", "launch", "wait"} =>
       /\ agRec.status = "running" /\ agRec.pend = acts
       /\ agRec.seq = Len(conv) /\ agRec.calls = calls

FrontierInv == AccountInv /\ DoneInv /\ Covered /\ Persisted

\* Kills are the only faults: nothing else is lost, on the disk or in docker.
KillsOnly == Reliable /\ ~WriteMayFail /\ ~RecordsMayExpire /\ ~ContainerMayDie

\* Then the container lives as long as a process or a record needs it.
Held ==
  /\ pc \in {"save_env", "enter"} \/ InLoop => cur \in up
  /\ agRec.status = "running" => envRec.cid \in up /\ pc \notin {"returned", "tail"}

\* And what the model was paid for is in the stored n_calls, but for one answer
\* per process that was killed.
Billed ==
  /\ pc \in {"down", "asked"} => llm <= agRec.calls + starts
  /\ pc \notin {"down", "asked", "over"} => llm <= agRec.calls + (starts - 1)
  /\ pc = "exiting" => agRec.calls <= calls

BillInv == FrontierInv /\ Held /\ Billed

\* Without the ledger nothing is issued or detached, and the numbering never
\* falls behind an unfinished record.
MarkerInv ==
  /\ pc \notin {"issue", "launch"}
  /\ \A c \in Cid, n \in Slots : slot[c][n].st # "started"
  /\ agRec.status = "running" /\ InLoop => agRec.seq <= seq

-----------------------------------------------------------------------------
(* The ledger is exact: ExactInv is inductive.                             *)

\* One slot is replaced by one that says the same of ran.
LEMMA SlotReplaced ==
  ASSUME TypeInv, LedgerExact, NEW c \in Cid, NEW n \in Slots, NEW v,
         slot' = [slot EXCEPT ![c][n] = v], UNCHANGED ran,
         v.st \in {"running", "finished"} <=> slot[c][n].st \in {"running", "finished"}
  PROVE  \A d \in Cid, m \in Slots :
           ran'[d][m] = IF slot'[d][m].st \in {"running", "finished"} THEN 1 ELSE 0
<1> SUFFICES ASSUME NEW d \in Cid, NEW m \in Slots
             PROVE  ran'[d][m] = IF slot'[d][m].st \in {"running", "finished"} THEN 1 ELSE 0
  OBVIOUS
<1>1. CASE d = c /\ m = n
  BY <1>1 DEF LedgerExact, TypeInv, TypeOK
<1>2. CASE ~(d = c /\ m = n)
  <2>1. slot'[d][m] = slot[d][m]
    BY <1>2 DEF TypeInv, TypeOK
  <2> QED
    BY <2>1 DEF LedgerExact
<1> QED
  BY <1>1, <1>2

\* A step that leaves the ledger alone and does not start to issue.
LEMMA ExactQuiet ==
  ASSUME LedgerExact, UNCHANGED <<slot, ran>>, pc' \notin {"issue", "launch"}
  PROVE  LedgerExact'
  BY DEF LedgerExact

\* A probe that answers tells the truth about the slot.
LEMMA ExactProbe ==
  ASSUME ExactInv, ~DockerMayFail, ProbeUnstarted PROVE LedgerExact'
  BY DEF ProbeUnstarted, ProbeFails, Unlaunched, ExactInv, LedgerExact, docker

\* _issue clears a slot only if its command was never launched.
LEMMA ExactWrite ==
  ASSUME ExactInv, WriteCmd PROVE LedgerExact'
<1>1. cur \in Cid /\ seq \in Slots
  BY SlotType DEF WriteCmd, ExactInv
<1>2. slot[cur][seq].st \in {"absent", "written"}
  BY DEF WriteCmd, ExactInv, LedgerExact
<1>3. \A d \in Cid, m \in Slots :
        ran'[d][m] = IF slot'[d][m].st \in {"running", "finished"} THEN 1 ELSE 0
  BY <1>1, <1>2, SlotReplaced DEF WriteCmd, ExactInv
<1>4. slot'[cur][seq].st = "written"
  BY <1>1 DEF WriteCmd, ExactInv, TypeInv, TypeOK
<1> QED
  BY <1>3, <1>4 DEF WriteCmd, LedgerExact

\* The launch moves a slot that was just written.
LEMMA ExactLaunch ==
  ASSUME ExactInv, Launch PROVE LedgerExact'
<1>1. cur \in Cid /\ seq \in Slots
  BY SlotType DEF Launch, ExactInv
<1>2. slot[cur][seq].st = "written"
  BY DEF Launch, ExactInv, LedgerExact
<1>3. \A d \in Cid, m \in Slots :
        ran'[d][m] = IF slot'[d][m].st \in {"running", "finished"} THEN 1 ELSE 0
  BY <1>1, <1>2, SlotReplaced DEF Launch, ExactInv, Reaches
<1> QED
  BY <1>3 DEF Launch, LedgerExact

\* setsid: the one step that runs a command; its slot was only started.
LEMMA ExactDetach ==
  ASSUME ExactInv, NEW c \in Cid, NEW n \in Slots, Detach(c, n)
  PROVE  LedgerExact'
<1>1. slot' = [slot EXCEPT ![c][n] = [cmd |-> slot[c][n].cmd, st |-> "running"]]
  BY DEF Detach, Reaches
<1>2. slot'[c][n].st = "running" /\ ran'[c][n] = 1
  <2>1. slot'[c][n].st = "running"
    BY <1>1 DEF ExactInv, TypeInv, TypeOK
  <2>2. ran[c][n] = 0 /\ slot[c][n].st = "started"
    BY DEF Detach, ExactInv, LedgerExact
  <2>3. ran'[c][n] = ran[c][n] + 1
    BY DEF Detach, ExactInv, TypeInv, TypeOK
  <2> QED
    BY <2>1, <2>2, <2>3
<1>3. ASSUME NEW d \in Cid, NEW m \in Slots, ~(d = c /\ m = n)
      PROVE  slot'[d][m] = slot[d][m] /\ ran'[d][m] = ran[d][m]
  BY <1>1, <1>3 DEF Detach, ExactInv, TypeInv, TypeOK
<1>4. \A d \in Cid, m \in Slots :
        ran'[d][m] = IF slot'[d][m].st \in {"running", "finished"} THEN 1 ELSE 0
  BY <1>2, <1>3 DEF ExactInv, LedgerExact
<1>5. pc' = pc /\ cur' = cur /\ up' = up /\ seq' = seq /\ slot[c][n].st = "started"
  BY DEF Detach, worker
<1>6. pc \in {"issue", "launch"} => cur \in Cid /\ seq \in Slots
  BY SlotType DEF ExactInv
<1> QED
  BY <1>3, <1>4, <1>5, <1>6 DEF ExactInv, LedgerExact

\* rc is written by a command that was running.
LEMMA ExactFinish ==
  ASSUME ExactInv, NEW c \in Cid, NEW n \in Slots, Finish(c, n)
  PROVE  LedgerExact'
<1>1. slot' = [slot EXCEPT ![c][n] = [cmd |-> slot[c][n].cmd, st |-> "finished"]]
  BY DEF Finish, Reaches
<1>2. \A d \in Cid, m \in Slots :
        ran'[d][m] = IF slot'[d][m].st \in {"running", "finished"} THEN 1 ELSE 0
  BY <1>1, SlotReplaced DEF Finish, ExactInv
<1>3. ASSUME NEW d \in Cid, NEW m \in Slots, ~(d = c /\ m = n)
      PROVE  slot'[d][m] = slot[d][m]
  BY <1>1, <1>3 DEF ExactInv, TypeInv, TypeOK
<1>5. pc' = pc /\ cur' = cur /\ up' = up /\ seq' = seq /\ slot[c][n].st = "running"
  BY DEF Finish, worker
<1>6. pc \in {"issue", "launch"} => cur \in Cid /\ seq \in Slots
  BY SlotType DEF ExactInv
<1> QED
  BY <1>2, <1>3, <1>5, <1>6 DEF ExactInv, LedgerExact

\* The inductive step.
LEMMA ExactStep ==
  ASSUME Ledger, ~DockerMayFail, ExactInv, [Next]_vars PROVE LedgerExact'
<1>1. CASE Environment
  BY <1>1, ExactQuiet DEF Environment, ExactInv, StartProcess, Attach, Unusable,
     NoEnvRecord, ExpiredRecords, BootFails, StartContainer,
  SaveEnv, EnterFresh, EnterReplay, EnterPending, EnterBoundary, EnterAborted, docker
<1>2. CASE Limits \/ Query \/ QueryFormatError \/ QueryError \/ WritePending \/
           ProbeMismatch \/ ProbeStarted \/ IssueFails
  BY <1>2, ExactQuiet DEF ExactInv, Limits, Query, QueryFormatError, QueryError,
     WritePending,
     ProbeMismatch, ProbeStarted, IssueFails, docker
<1>3. CASE ExecuteMarkerGone \/ WaitFinished \/ WaitTimeout \/ WaitGone \/ EndIteration \/
           EndLoop \/ Release \/ Complete \/ Crash
  BY <1>3, ExactQuiet DEF ExactInv, ExecuteMarkerGone, Executing, WaitFinished,
     WaitTimeout, WaitGone, EndIteration,
     EndLoop, Release, Complete, Crash, docker
<1>4. CASE ProbeUnstarted
  BY <1>4, ExactProbe
<1>5. CASE WriteCmd
  BY <1>5, ExactWrite
<1>6. CASE Launch
  BY <1>6, ExactLaunch
<1>7. ~ExecuteMarker
  BY DEF ExecuteMarker
<1>8. CASE Container
  <2> PICK c \in Cid : ContainerDies(c) \/ \E n \in Slots : Detach(c, n) \/ Finish(c, n)
    BY <1>8 DEF Container
  <2>1. CASE ContainerDies(c)
    BY <2>1 DEF ContainerDies, ExactInv, LedgerExact, worker
  <2> QED
    BY <2>1, ExactDetach, ExactFinish
<1>9. CASE UNCHANGED vars
  BY <1>9 DEF ExactInv, LedgerExact, vars, worker, docker
<1> QED
  BY <1>1, <1>2, <1>3, <1>4, <1>5, <1>6, <1>7, <1>8, <1>9 DEF Next, Loop, Terminated

\* No command was run initially.
LEMMA ExactInit == Init => ExactInv
<1> SUFFICES ASSUME Init PROVE LedgerExact
  BY TypeInit DEF ExactInv
<1> QED
  BY DEF Init, LedgerExact, Absent

\* Exactly-once, its safety half: with the ledger on and docker calls that do not
\* fail, no command number is run twice in a container, for any number of kills,
\* restarts, lost checkpoint writes, unreadable records and dying containers.
THEOREM AtMostOnceHolds == Ledger /\ ~DockerMayFail /\ Spec => []AtMostOnce
<1> SUFFICES ASSUME Ledger, ~DockerMayFail PROVE Spec => []AtMostOnce
  OBVIOUS
<1>1. ExactInv /\ [Next]_vars => ExactInv'
  BY ExactStep, TypeStep DEF ExactInv
<1>2. ExactInv => AtMostOnce
  BY DEF ExactInv, LedgerExact, AtMostOnce
<1> QED
  BY <1>1, <1>2, ExactInit, PTL DEF Spec

-----------------------------------------------------------------------------
(* The record and the memory are truthful: AccountInv is inductive.        *)

\* Appending to the observations appends to the conversation.
LEMMA AppendAssoc == ASSUME NEW S, NEW s \in Seq(S), NEW t \in Seq(S), NEW o \in S
  PROVE s \o Append(t, o) = Append(s \o t, o)
  OBVIOUS

\* An iteration with no observation adds nothing.
LEMMA ConcatEmpty == ASSUME NEW S, NEW s \in Seq(S) PROVE s \o <<>> = s
  OBVIOUS

\* A ledger that confirms cv confirms one more true observation.
LEMMA ConfirmsAppend ==
  ASSUME NEW l, NEW cv \in Seq(Obs), NEW o \in Obs, Confirms(l, cv),
         o.out = "done" => l[Len(cv) + 1].cmd = o.cmd /\ l[Len(cv) + 1].st \in Ran
  PROVE Confirms(l, Append(cv, o))
  BY DEF Confirms, Slots, Ran

\* What a ledger confirms, a later one that keeps its commands confirms.
LEMMA ConfirmsKept ==
  ASSUME NEW l, NEW k, NEW cv, Confirms(l, cv), Keeps(l, k)
  PROVE Confirms(k, cv)
  BY DEF Confirms, Keeps, Ran

\* Replacing a slot that was not run keeps all that were.
LEMMA KeepsReplaced ==
  ASSUME TypeOK, NEW c \in Cid, NEW n \in Slots, NEW v \in SlotStates,
         slot' = [slot EXCEPT ![c][n] = v],
         slot[c][n].st \in Ran => v.cmd = slot[c][n].cmd /\ v.st \in Ran
  PROVE \A d \in Cid : Keeps(slot[d], slot'[d])
<1> SUFFICES ASSUME NEW d \in Cid, NEW i \in Slots, slot[d][i].st \in Ran
             PROVE slot'[d][i].cmd = slot[d][i].cmd /\ slot'[d][i].st \in Ran
  BY DEF Keeps
<1>1. CASE d = c /\ i = n
  BY <1>1 DEF TypeOK
<1>2. CASE ~(d = c /\ i = n)
  BY <1>2 DEF TypeOK
<1> QED
  BY <1>1, <1>2

\* No step of anyone forgets a command that was run.
LEMMA LedgerKept ==
  ASSUME Ledger, ~DockerMayFail, ExactInv, [Next]_vars
  PROVE \A d \in Cid : Keeps(slot[d], slot'[d])
<1>1. CASE UNCHANGED slot
  BY <1>1 DEF Keeps
<1>2. CASE WriteCmd
  <2>1. cur \in Cid /\ seq \in Slots /\ Current \in Cmd
    BY <1>2, SlotType, CurrentType DEF WriteCmd, ExactInv
  <2>2. [cmd |-> Current, st |-> "written"] \in SlotStates
    BY <2>1 DEF SlotStates
  <2>3. slot[cur][seq].st \notin Ran
    BY <1>2 DEF WriteCmd, ExactInv, LedgerExact, Ran
  <2> QED
    BY <1>2, <2>1, <2>2, <2>3, KeepsReplaced DEF WriteCmd, ExactInv, TypeInv
<1>3. ASSUME NEW c \in Cid, NEW n \in Slots, NEW st \in {"started", "running", "finished"},
             slot' = Reaches(c, n, st), slot[c][n].st \in Ran => st \in Ran
      PROVE  \A d \in Cid : Keeps(slot[d], slot'[d])
  <2>1. [cmd |-> slot[c][n].cmd, st |-> st] \in SlotStates
    BY DEF ExactInv, TypeInv, TypeOK, SlotStates
  <2> QED
    BY <1>3, <2>1, KeepsReplaced DEF Reaches, ExactInv, TypeInv
<1>4. CASE Launch
  <2>1. cur \in Cid /\ seq \in Slots
    BY <1>4, SlotType DEF Launch, ExactInv
  <2>2. slot[cur][seq].st \notin Ran
    BY <1>4 DEF Launch, ExactInv, LedgerExact, Ran
  <2> QED
    BY <1>3, <1>4, <2>1, <2>2 DEF Launch
<1>5. CASE Container
  BY <1>1, <1>3, <1>5 DEF Container, ContainerDies, Detach, Finish, Ran
<1>6. CASE Environment \/ Crash
  BY <1>1, <1>6 DEF Environment, StartProcess, Attach, Unusable, NoEnvRecord,
     ExpiredRecords, BootFails,
     StartContainer,
       SaveEnv, EnterFresh, EnterReplay, EnterPending, EnterBoundary, EnterAborted, Crash,
         docker
<1>7. CASE Loop
  <2>1. CASE Limits \/ Query \/ QueryFormatError \/ QueryError \/ WritePending
             \/ ProbeMismatch \/ ProbeUnstarted \/ ProbeStarted \/ IssueFails
    BY <1>1, <2>1 DEF Limits, Query, QueryFormatError, QueryError, WritePending,
         ProbeMismatch, ProbeUnstarted, ProbeStarted, IssueFails, docker
  <2>2. CASE ExecuteMarkerGone \/ WaitFinished \/ WaitTimeout \/ WaitGone
             \/ EndIteration \/ EndLoop \/ Release \/ Complete
    BY <1>1, <2>2 DEF ExecuteMarkerGone, WaitFinished, WaitTimeout, WaitGone,
         EndIteration, EndLoop, Release, Complete, docker
  <2>3. ~ExecuteMarker
    BY DEF ExecuteMarker
  <2> QED
    BY <1>2, <1>4, <1>7, <2>1, <2>2, <2>3 DEF Loop
<1>8. CASE UNCHANGED vars
  BY <1>1, <1>8 DEF vars, docker
<1> QED
  BY <1>5, <1>6, <1>7, <1>8 DEF Next, Terminated

\* The record is untouched and no container is being started.
LEMMA RecordKept ==
  ASSUME ExactInv, RecordExact, \A d \in Cid : Keeps(slot[d], slot'[d]),
         agRec' = agRec, envRec'.cid = envRec.cid, pc' \notin {"boot", "save_env"}
  PROVE  RecordExact'
<1> SUFFICES ASSUME agRec'.status = "running"
             PROVE  Confirms(slot'[envRec.cid], agRec.conv) /\ envRec.cid \in Cid /\
                    Len(agRec.conv) = agRec.seq
  BY DEF RecordExact, Confirms
<1>1. envRec.cid \in Cid /\ Confirms(slot[envRec.cid], agRec.conv) /\ Len(agRec.conv) =
      agRec.seq
  BY DEF RecordExact
<1> QED
  BY <1>1, ConfirmsKept

\* The record is purged or finished.
LEMMA RecordDropped ==
  ASSUME agRec'.status # "running" PROVE RecordExact'
  BY DEF RecordExact

\* A document is written that numbers what it tells.
LEMMA RecordSaved ==
  ASSUME NEW st, NEW cv, NEW pd, NEW n, NEW ex, agRec' = Doc(st, cv, pd, n, ex), envRec' =
         envRec,
   slot' = slot, pc' \notin {"boot", "save_env"}, envRec.cid \in Cid, Len(cv) = seq,
     Confirms(slot[envRec.cid], cv)
  PROVE RecordExact'
  BY DEF RecordExact, Doc, Confirms

\* Every step keeps the stored record truthful.
LEMMA RecordStep ==
  ASSUME Reliable, AccountInv, [Next]_vars
  PROVE  RecordExact'
<1>0. ExactInv /\ RecordExact /\ \A d \in Cid : Keeps(slot[d], slot'[d])
  BY LedgerKept DEF Reliable, AccountInv
<1>0a. NoAgent.status # "running" /\ envRec.cid \in Cid \cup {None} /\ NoEnv.cid \notin Cid
  BY ConstantsAssumption DEF NoAgent, NoEnv, AccountInv, ExactInv, TypeInv, TypeOK
<1>1. CASE Unusable
  BY <1>0, <1>0a, <1>1, RecordKept, RecordDropped DEF Unusable, SeesUnfinished,
     Reliable, records
<1>2. CASE NoEnvRecord
  BY <1>0, <1>0a, <1>2 DEF NoEnvRecord, Reliable, RecordExact, records
<1>3. CASE StartContainer \/ SaveEnv
  BY <1>0, <1>3 DEF StartContainer, SaveEnv, RecordExact, records
<1>4. CASE ExpiredRecords \/ EnterAborted \/ ProbeMismatch \/ Complete
  BY <1>0a, <1>4, RecordDropped DEF ExpiredRecords, EnterAborted, ProbeMismatch, Complete
<1>5. CASE StartProcess \/ Attach \/ EnterFresh \/ EnterReplay \/ EnterPending \/
           EnterBoundary \/ Crash
  BY <1>0, <1>5, RecordKept DEF StartProcess, Attach, EnterFresh, EnterReplay,
     EnterPending,
    EnterBoundary, Crash, records
<1>6. CASE Limits \/ Query \/ QueryError \/ ProbeUnstarted \/ ProbeStarted \/ WriteCmd \/
           Launch \/ IssueFails
  BY <1>0, <1>6, RecordKept DEF Limits, Query, QueryError, ProbeUnstarted, ProbeStarted,
    WriteCmd, Launch, IssueFails, records
<1>7. CASE WaitFinished \/ WaitTimeout \/ WaitGone \/ Release \/ BootFails
  BY <1>0, <1>7, RecordKept DEF BootFails, WaitFinished, WaitTimeout, WaitGone, Release,
     records
<1>7a. ~ExecuteMarker /\ ~ExecuteMarkerGone
  BY DEF ExecuteMarker, ExecuteMarkerGone, Reliable
<1>8. pc \in {"loop", "asked", "exec"} => envRec.cid = cur /\ cur \in Cid /\
      Confirms(slot[cur], conv \o outs)
  BY DEF AccountInv, MemoryExact, InLoop, ExactInv, TypeInv, Bounds
<1>9. pc \in {"loop", "asked"} => Len(conv) = seq /\ Confirms(slot[cur], conv)
  <2>1. conv \o <<>> = conv
    BY ConcatEmpty DEF AccountInv, ExactInv, TypeInv, TypeOK
  <2> QED
    BY <1>8, <2>1 DEF AccountInv, MemoryExact
<1>10. CASE QueryFormatError
  BY <1>0, <1>8, <1>9, <1>10, RecordSaved, RecordKept DEF QueryFormatError, Save,
     Boundary, docker
<1>11. CASE WritePending
  BY <1>0, <1>8, <1>9, <1>11, RecordSaved, RecordKept DEF WritePending, Save, docker
<1>12. CASE EndIteration
  <2>0. conv \in Seq(Obs) /\ outs \in Seq(Obs)
    BY DEF AccountInv, ExactInv, TypeInv, TypeOK
  <2>1. Len(conv \o outs) = Len(conv) + Len(outs)
    BY <2>0
  <2> QED
    BY <1>0, <1>8, <1>12, <2>1, RecordSaved, RecordKept
    DEF EndIteration, Save, Boundary, docker, AccountInv, MemoryExact
<1>13. CASE EndLoop
  BY <1>0, <1>13, RecordDropped, RecordKept DEF EndLoop, Save, Doc, docker
<1>14. CASE Container \/ UNCHANGED vars
  BY <1>0, <1>14, RecordKept DEF Container, ContainerDies, Detach, Finish, vars,
     worker, records, RecordExact
<1> QED
  BY <1>1, <1>2, <1>3, <1>4, <1>5, <1>6, <1>7, <1>7a, <1>10, <1>11, <1>12, <1>13, <1>14
  DEF Next, Environment, Loop, Terminated

\* Outside the loop nothing is claimed.
LEMMA MemoryOut ==
  ASSUME pc' \in {"exiting", "returned", "tail", "over"} PROVE MemoryExact'
  BY DEF MemoryExact, InLoop

\* Before the loop the memory is empty.
LEMMA MemoryEmpty ==
  ASSUME pc' \in {"down", "start", "boot", "save_env", "enter"}, pc' = "enter" =>
         envRec'.cid = cur',
         seq' = 0 /\ conv' = <<>> /\ outs' = <<>>
  PROVE MemoryExact'
  BY DEF MemoryExact, InLoop

\* Entering, or starting an iteration: no observation is outstanding.
LEMMA MemoryLoop ==
  ASSUME pc' \in {"loop", "asked", "exec"}, envRec'.cid = cur', conv' \in Seq(Obs), outs'
         = <<>>,
         seq' = Len(conv'), Confirms(slot'[cur'], conv')
  PROVE MemoryExact'
<1>1. conv' \o outs' = conv'
  BY ConcatEmpty
<1> QED
  BY <1>1 DEF MemoryExact, Confirms

\* The observation of the awaited command is added.
LEMMA MemoryObserved ==
  ASSUME AccountInv, NEW o \in Obs, pc = "wait", pc' = "exec", outs' = Append(outs, o),
         UNCHANGED <<cur, conv, seq, slot, envRec>>,
         o.out = "done" => slot[cur][seq].cmd = o.cmd /\ slot[cur][seq].st \in Ran
  PROVE MemoryExact'
<1>0. conv \in Seq(Obs) /\ outs \in Seq(Obs)
  BY DEF AccountInv, ExactInv, TypeInv, TypeOK
<1>1. envRec.cid = cur /\ Confirms(slot[cur], conv \o outs) /\ seq = Len(conv) + Len(outs)
      + 1
  BY DEF AccountInv, MemoryExact, InLoop
<1>2. conv \o outs \in Seq(Obs) /\ Len(conv \o outs) = Len(conv) + Len(outs)
  BY <1>0
<1>3. Confirms(slot[cur], Append(conv \o outs, o))
  BY <1>1, <1>2, ConfirmsAppend
<1>4. conv' \o outs' = Append(conv \o outs, o)
  BY <1>0, AppendAssoc
<1>5. Len(outs') = Len(outs) + 1
  BY <1>0
<1>6. Confirms(slot[cur], conv \o outs)'
  BY <1>3, <1>4 DEF Confirms
<1>7. Len(conv) \in Nat /\ Len(outs) \in Nat /\ Len(outs') = Len(outs) + 1
  BY <1>0
<1>8. seq' = Len(conv') + Len(outs')
  BY <1>1, <1>7
<1> QED
  BY <1>1, <1>6, <1>8 DEF MemoryExact, InLoop

\* Every step keeps the memory of the process truthful.
LEMMA MemoryStep ==
  ASSUME Reliable, AccountInv, [Next]_vars
  PROVE  MemoryExact'
<1>0. ExactInv /\ MemoryExact /\ \A d \in Cid : Keeps(slot[d], slot'[d])
  BY LedgerKept DEF Reliable, AccountInv
<1>0a. TypeOK /\ Bounds
  BY <1>0 DEF ExactInv, TypeInv
<1>1. CASE \/ StartProcess \/ Attach \/ Unusable \/ NoEnvRecord \/ ExpiredRecords
           \/ StartContainer \/ SaveEnv
  <2>1. pc \in {"down", "start", "boot", "save_env"} /\ UNCHANGED <<seq, conv, outs>>
    BY <1>1 DEF StartProcess, Attach, Unusable, NoEnvRecord, ExpiredRecords,
       StartContainer, SaveEnv
  <2>2. seq' = 0 /\ conv' = <<>> /\ outs' = <<>>
    BY <1>0, <2>1 DEF MemoryExact
  <2>3. pc' = "enter" => envRec'.cid = cur'
    BY <1>1 DEF StartProcess, Attach, Unusable, NoEnvRecord, ExpiredRecords, StartContainer,
       SaveEnv, records
  <2>4. pc' \in {"start", "boot", "save_env", "enter"}
    BY <1>1 DEF StartProcess, Attach, Unusable, NoEnvRecord, ExpiredRecords,
       StartContainer, SaveEnv
  <2> QED
    BY <2>2, <2>3, <2>4, MemoryEmpty
<1>2. CASE EnterFresh
  <2>1. Confirms(slot[cur], <<>>)
    BY ConstantsAssumption DEF Confirms, Slots
  <2> QED
    BY <1>0, <1>0a, <1>2, <2>1, MemoryLoop DEF EnterFresh, MemoryExact, records,
       docker, TypeOK
<1>3. CASE EnterPending \/ EnterBoundary
  <2>1. agRec.conv \in Seq(Obs)
    BY <1>0a DEF TypeOK, Records
  <2>2. agRec.status = "running" /\ pc = "enter"
    BY <1>3 DEF EnterPending, EnterBoundary
  <2>3. envRec.cid = cur /\ Len(agRec.conv) = agRec.seq /\ Confirms(slot[cur], agRec.conv)
    BY <2>2 DEF AccountInv, RecordExact, MemoryExact
  <2> QED
    BY <1>3, <2>1, <2>3, MemoryLoop DEF EnterPending, EnterBoundary, Restore,
       records, docker
<1>4. CASE EnterReplay \/ EnterAborted \/ Limits \/ QueryError \/ ProbeMismatch \/
           IssueFails
           \/ EndLoop \/ Release \/ Complete \/ BootFails
  BY <1>4, MemoryOut DEF BootFails, EnterReplay, EnterAborted, Limits, QueryError,
     ProbeMismatch, IssueFails,
     EndLoop, Release, Complete
<1>5. CASE Crash
  BY <1>5, MemoryEmpty DEF Crash
<1>6. pc \in {"loop", "asked"} => /\ envRec.cid = cur /\ conv \in Seq(Obs) /\ outs = <<>>
                                  /\ seq = Len(conv) /\ Confirms(slot[cur], conv)
  <2>1. conv \o <<>> = conv
    BY <1>0a, ConcatEmpty DEF TypeOK
  <2> QED
    BY <1>0, <1>0a, <2>1 DEF MemoryExact, InLoop, TypeOK
<1>7. CASE Query \/ QueryFormatError \/ WritePending
  BY <1>6, <1>7, MemoryLoop DEF Query, QueryFormatError, WritePending, records, docker
<1>8. CASE EndIteration
  <2>0. conv \in Seq(Obs) /\ outs \in Seq(Obs)
    BY <1>0a DEF TypeOK
  <2>1. conv \o outs \in Seq(Obs) /\ Len(conv \o outs) = Len(conv) + Len(outs)
    BY <2>0
  <2> QED
    BY <1>0, <1>8, <2>1, MemoryLoop DEF EndIteration, MemoryExact, InLoop, docker
<1>9. CASE ProbeUnstarted
  BY <1>0, <1>9 DEF ProbeUnstarted, Executing, MemoryExact, InLoop, Confirms,
     records, docker
<1>10. CASE ProbeStarted
  BY <1>0, <1>10 DEF ProbeStarted, Executing, MemoryExact, InLoop, Confirms,
     Current, records, docker
<1>11. CASE WriteCmd
  <2>1. cur \in Cid /\ seq \in Slots
    BY <1>0a, <1>11, ConstantsAssumption DEF WriteCmd, TypeOK, Bounds, Seqs, Slots
  <2>2. slot'[cur][seq].cmd = Current
    BY <1>0a, <1>11, <2>1 DEF WriteCmd, TypeOK
  <2>3. Confirms(slot'[cur], conv \o outs)
    BY <1>0, <1>11, <2>1, ConfirmsKept DEF WriteCmd, MemoryExact, InLoop
  <2> QED
    BY <1>0, <1>11, <2>2, <2>3 DEF WriteCmd, MemoryExact, InLoop, Confirms,
       Current, records
<1>12. CASE Launch
  <2>1. cur \in Cid /\ seq \in Slots
    BY <1>0a, <1>12, ConstantsAssumption DEF Launch, TypeOK, Bounds, Seqs, Slots
  <2>2. slot'[cur][seq].cmd = slot[cur][seq].cmd
    BY <1>0a, <1>12, <2>1 DEF Launch, Reaches, TypeOK
  <2>3. Confirms(slot'[cur], conv \o outs)
    BY <1>0, <1>12, <2>1, ConfirmsKept DEF Launch, MemoryExact, InLoop
  <2> QED
    BY <1>0, <1>12, <2>2, <2>3 DEF Launch, MemoryExact, InLoop, Confirms, Current,
       records
<1>13. CASE WaitFinished
  <2>1. Current \in Cmd
    BY <1>13, <1>0, CurrentType DEF WaitFinished, ExactInv
  <2>2. [cmd |-> Current, out |-> "done"] \in Obs
    BY <2>1 DEF Obs
  <2>3. slot[cur][seq].cmd = Current
    BY <1>0, <1>13 DEF MemoryExact, WaitFinished
  <2> QED
    BY <1>13, <2>2, <2>3, MemoryOut, MemoryObserved DEF WaitFinished, records,
       docker, Ran
<1>14. CASE WaitTimeout \/ WaitGone
  <2>1. Current \in Cmd
    BY <1>14, <1>0, CurrentType DEF WaitTimeout, WaitGone, ExactInv
  <2>2. [cmd |-> Current, out |-> "timeout"] \in Obs /\ [cmd |-> Current, out |-> "gone"]
        \in Obs
    BY <2>1 DEF Obs
  <2> QED
    BY <1>14, <2>2, MemoryObserved DEF WaitTimeout, WaitGone, records, docker
<1>15. ~ExecuteMarker /\ ~ExecuteMarkerGone
  BY DEF ExecuteMarker, ExecuteMarkerGone, Reliable
<1>16. CASE Container \/ UNCHANGED vars
  <2>1. UNCHANGED worker /\ UNCHANGED records /\ up' \subseteq up
    BY <1>16 DEF Container, ContainerDies, Detach, Finish, vars, docker
  <2>2. pc \in {"launch", "wait"} => cur \in Cid /\ seq \in Slots
    BY <1>0a, ConstantsAssumption DEF TypeOK, Bounds, Seqs, Slots
  <2>3. \A c \in Cid, n \in Slots : slot'[c][n].cmd = slot[c][n].cmd
    <3>1. ASSUME NEW d \in Cid, NEW m \in Slots, NEW st, slot' = Reaches(d, m, st)
          PROVE  \A c \in Cid, n \in Slots : slot'[c][n].cmd = slot[c][n].cmd
      BY <1>0a, <3>1 DEF Reaches, TypeOK
    <3>2. CASE UNCHANGED slot
      BY <3>2
    <3> QED
      BY <1>16, <3>1, <3>2 DEF Container, ContainerDies, Detach, Finish, vars, docker
  <2>4. InLoop => Confirms(slot'[cur], conv \o outs)
    BY <1>0, <1>0a, ConfirmsKept DEF MemoryExact, InLoop, Bounds
  <2> QED
    BY <1>0, <2>1, <2>2, <2>3, <2>4 DEF MemoryExact, InLoop, Confirms, Current,
       worker, records
<1> QED
  BY <1>1, <1>2, <1>3, <1>4, <1>5, <1>7, <1>8, <1>9, <1>10, <1>11, <1>12, <1>13,
     <1>14, <1>15, <1>16
  DEF Next, Environment, Loop, Terminated

\* Nothing is recorded or remembered initially.
LEMMA AccountInit == Init => AccountInv
<1> SUFFICES ASSUME Init PROVE RecordExact /\ MemoryExact
  BY ExactInit DEF AccountInv
<1>1. RecordExact
  BY DEF Init, RecordExact, NoAgent
<1>2. MemoryExact
  BY DEF Init, MemoryExact, InLoop
<1> QED
  BY <1>1, <1>2

\* The inductive step.
LEMMA AccountStep == Reliable /\ AccountInv /\ [Next]_vars => AccountInv'
  BY ExactStep, TypeStep, RecordStep, MemoryStep DEF AccountInv, ExactInv, Reliable

\* An exact ledger and a truthful memory give a true account.
LEMMA AccountTrue == AccountInv => TrueAccount
<1> SUFFICES ASSUME AccountInv, InLoop, NEW i \in 1..Len(conv), conv[i].out = "done"
             PROVE  slot[cur][i].cmd = conv[i].cmd /\ ran[cur][i] >= 1
  BY DEF TrueAccount
<1>1. conv \in Seq(Obs) /\ outs \in Seq(Obs) /\ cur \in Cid
  BY DEF AccountInv, ExactInv, TypeInv, TypeOK, Bounds, InLoop
<1>2. Len(conv) <= seq /\ seq <= MaxSeq
  <2>1. Len(conv) \in Nat /\ Len(outs) \in Nat /\ seq \in 0..MaxSeq
    BY <1>1 DEF AccountInv, ExactInv, TypeInv, TypeOK, Seqs
  <2> QED
    BY <2>1, ConstantsAssumption DEF AccountInv, MemoryExact, InLoop
<1>3. i \in Slots
  BY <1>1, <1>2, ConstantsAssumption DEF Slots, AccountInv, ExactInv, TypeInv,
     TypeOK, Seqs
<1>4. (conv \o outs)[i] = conv[i] /\ i <= Len(conv \o outs)
  BY <1>1
<1>5. Confirms(slot[cur], conv \o outs)
  BY DEF AccountInv, MemoryExact
<1>6. slot[cur][i].cmd = conv[i].cmd /\ slot[cur][i].st \in {"running", "finished"}
  BY <1>3, <1>4, <1>5 DEF Confirms
<1>7. ran[cur][i] = 1
  BY <1>1, <1>3, <1>6 DEF AccountInv, ExactInv, LedgerExact
<1> QED
  BY <1>6, <1>7

\* The conversation tells the truth: whatever is killed or lost, every command
\* the model was told had finished was run, under that number, by the container
\* the loop continues in.
THEOREM TrueAccountHolds == Reliable /\ Spec => []TrueAccount
<1> SUFFICES ASSUME Reliable PROVE Spec => []TrueAccount
  OBVIOUS
<1>1. AccountInv /\ [Next]_vars => AccountInv'
  BY AccountStep
<1> QED
  BY <1>1, AccountInit, AccountTrue, PTL DEF Spec

\* The invariant that the model checker confirms on small instances.
THEOREM LedgerInvHolds == Reliable /\ Spec => []LedgerInv
<1> SUFFICES ASSUME Reliable PROVE Spec => []LedgerInv
  OBVIOUS
<1>1. AccountInv /\ [Next]_vars => AccountInv'
  BY AccountStep
<1>2. AccountInv => LedgerInv
  BY DEF AccountInv, ExactInv, TypeInv, LedgerInv
<1> QED
  BY <1>1, <1>2, AccountInit, PTL DEF Spec

-----------------------------------------------------------------------------
(* A finished record is never followed by a model call.                    *)

\* While a finished record is stored, no process is inside the loop.
LEMMA DoneStep ==
  ASSUME ~ReadMayFail, DoneInv, [Next]_vars
  PROVE  DoneInv'
<1>1. CASE Environment
  BY <1>1 DEF DoneInv, Environment, StartProcess, Attach, Unusable, NoEnvRecord,
     ExpiredRecords, BootFails,
     StartContainer, SaveEnv,
       EnterFresh, EnterReplay, EnterPending, EnterBoundary, EnterAborted, NoAgent, records
<1>2. CASE Limits \/ Query \/ QueryFormatError \/ QueryError \/ WritePending
  BY <1>2 DEF DoneInv, Limits, Query, QueryFormatError, QueryError, WritePending,
     Save, Boundary, Doc, records
<1>3. CASE ProbeMismatch \/ ProbeUnstarted \/ ProbeStarted \/ WriteCmd \/ Launch \/
           IssueFails
  BY <1>3 DEF DoneInv, ProbeMismatch, ProbeUnstarted, ProbeStarted, WriteCmd,
     Launch, IssueFails,
       Executing, NoAgent, records
<1>4. CASE ExecuteMarker \/ ExecuteMarkerGone \/ WaitFinished \/ WaitTimeout \/ WaitGone
  BY <1>4 DEF DoneInv, ExecuteMarker, ExecuteMarkerGone, WaitFinished,
     WaitTimeout, WaitGone, Executing, records
<1>5. CASE EndIteration \/ EndLoop \/ Release \/ Complete \/ Crash
  BY <1>5 DEF DoneInv, EndIteration, EndLoop, Release, Complete, Crash, Save,
     Boundary, Doc, NoAgent, records
<1>6. CASE Container \/ UNCHANGED vars
  BY <1>6 DEF DoneInv, Container, ContainerDies, Detach, Finish, vars, worker, records
<1> QED
  BY <1>1, <1>2, <1>3, <1>4, <1>5, <1>6 DEF Next, Loop, Terminated

\* The only two steps that pay for an answer are taken inside the loop.
LEMMA OnlyLoopPays ==
  ASSUME [Next]_vars, pc # "loop" PROVE llm' = llm
<1>1. CASE Environment \/ Crash \/ Container \/ UNCHANGED vars
  BY <1>1 DEF Environment, StartProcess, Attach, Unusable, NoEnvRecord, ExpiredRecords,
     BootFails,
     StartContainer, SaveEnv, EnterFresh,
       EnterReplay, EnterPending, EnterBoundary, EnterAborted, Crash, Container,
         ContainerDies, Detach,
       Finish, vars
<1>2. CASE Loop
  BY <1>2 DEF Loop, Limits, Query, QueryFormatError, QueryError, WritePending,
     ProbeMismatch, ProbeUnstarted,
       ProbeStarted, WriteCmd, Launch, IssueFails, ExecuteMarker, ExecuteMarkerGone,
         WaitFinished,
       WaitTimeout, WaitGone, EndIteration, EndLoop, Release, Complete
<1> QED
  BY <1>1, <1>2 DEF Next, Terminated

\* A finished loop is replayed for zero LLM calls: if records can be read, no
\* process that finds a done record asks the model anything, however often the
\* worker is killed after the loop.
THEOREM ReplayIsFreeHolds == ~ReadMayFail /\ Spec => ReplayIsFree
<1> SUFFICES ASSUME ~ReadMayFail PROVE Spec => ReplayIsFree
  OBVIOUS
<1>1. Init => DoneInv
  BY DEF Init, DoneInv, NoAgent
<1>2. DoneInv /\ [Next]_vars => DoneInv'
  BY DoneStep
<1>3. DoneInv /\ [Next]_vars => [agRec.status = "done" => llm' = llm]_vars
  BY OnlyLoopPays DEF DoneInv
<1> QED
  BY <1>1, <1>2, <1>3, PTL DEF Spec, ReplayIsFree

-----------------------------------------------------------------------------
(* The record covers the container: FrontierInv is inductive.              *)

\* Every part of a typed record has its type.
LEMMA RecordType ==
  ASSUME TypeOK
  PROVE  /\ agRec.seq \in Nat /\ agRec.pend \in Seq(Cmd) /\ agRec.calls \in Nat
         /\ agRec.conv \in Seq(Obs) /\ Len(agRec.pend) \in Nat
  BY ConstantsAssumption DEF TypeOK, Records, Seqs

\* A document that is about to cover more: a message is made pending.
LEMMA CoversPending ==
  ASSUME NEW old, NEW new, NEW l, NEW m \in Nat, old.seq \in Nat, new.pend \in Seq(Cmd),
         Covers(old, l, m), old.pend = <<>>, new.seq = old.seq
  PROVE  Covers(new, l, m)
<1>1. Len(old.pend) = 0 /\ Len(new.pend) \in Nat
  OBVIOUS
<1>2. m <= new.seq + Len(new.pend)
  BY <1>1 DEF Covers
<1>3. \A n \in Slots : n > new.seq => l[n] = Absent
  BY <1>1 DEF Covers
<1> QED
  BY <1>1, <1>2, <1>3, ConstantsAssumption DEF Covers, Slots, Absent

\* A document that covers as much: the pending message has been executed.
LEMMA CoversBoundary ==
  ASSUME NEW old, NEW new, NEW l, NEW m \in Nat, old.seq \in Nat, old.pend \in Seq(Cmd),
         Covers(old, l, m), new.pend = <<>>, new.seq = old.seq + Len(old.pend)
  PROVE  Covers(new, l, m)
<1>1. Len(new.pend) = 0 /\ Len(old.pend) \in Nat
  OBVIOUS
<1> QED
  BY <1>1, ConstantsAssumption DEF Covers, Slots

\* A slot that is not absent changes its state only: what covered the ledger
\* still does.
LEMMA CoversReached ==
  ASSUME TypeOK, NEW c \in Cid, NEW n \in Slots, NEW st,
         slot' = Reaches(c, n, st), slot[c][n].st # "absent",
         NEW d \in Cid, NEW doc, NEW m, Covers(doc, slot[d], m)
  PROVE  Covers(doc, slot'[d], m)
<1>1. ASSUME NEW k \in Slots
      PROVE  slot'[d][k].cmd = slot[d][k].cmd /\ (slot[d][k] = Absent => slot'[d][k] = Absent)
  <2>1. CASE d = c /\ k = n
    BY <2>1 DEF TypeOK, Reaches, Absent
  <2>2. CASE ~(d = c /\ k = n)
    <3>1. slot'[d][k] = slot[d][k]
      BY <2>2 DEF TypeOK, Reaches
    <3> QED
      BY <3>1
  <2> QED
    BY <2>1, <2>2
<1> QED
  BY <1>1 DEF Covers

\* The ledger, the marker and the record are left alone, or the record of the
\* container is dropped.
LEMMA CoveredQuiet ==
  ASSUME TypeOK, Covered, UNCHANGED <<slot, marker, used, agRec>>, pc' # "save_env",
         envRec'.cid \in {envRec.cid, None}
  PROVE  Covered'
  BY ConstantsAssumption DEF Covered, Covers

\* The records are purged, or the loop's last document is written.
LEMMA CoveredPurged ==
  ASSUME Covered, UNCHANGED <<slot, marker, used>>, pc' # "save_env",
         envRec' = NoEnv \/ agRec'.status = "done"
  PROVE  Covered'
  BY ConstantsAssumption DEF Covered, Covers, NoEnv

\* A document is written that covers the recorded container.
LEMMA CoveredSaved ==
  ASSUME Covered, UNCHANGED <<slot, marker, used, envRec>>, pc' # "save_env",
         envRec.cid \in Cid => Covers(agRec', slot[envRec.cid], marker[envRec.cid])
  PROVE  Covered'
  BY DEF Covered, Covers

\* Every step keeps the ledger covered by the stored record: a command is written
\* to a slot only after the record that holds it, under that number.
LEMMA CoveredStep ==
  ASSUME Reliable, ~WriteMayFail, FrontierInv, [Next]_vars
  PROVE  Covered'
<1>0. /\ TypeInv /\ TypeOK /\ Covered /\ Persisted /\ DoneInv
      /\ LedgerExact /\ RecordExact /\ MemoryExact
  BY DEF FrontierInv, AccountInv, ExactInv, TypeInv
<1>0a. /\ agRec.seq \in Nat /\ agRec.pend \in Seq(Cmd) /\ Len(agRec.pend) \in Nat
       /\ envRec.cid \in Cid \cup {None} /\ NoEnv.cid = None /\ \A c \in Cid : marker[c] \in Nat
  BY <1>0, RecordType, ConstantsAssumption DEF TypeOK, NoEnv, Seqs
<1>1. CASE StartProcess \/ Attach \/ NoEnvRecord \/ BootFails \/ EnterFresh \/ EnterReplay
           \/ EnterPending \/ EnterBoundary \/ Crash
  BY <1>0, <1>1, CoveredQuiet DEF StartProcess, Attach, NoEnvRecord, BootFails, EnterFresh,
     EnterReplay, EnterPending, EnterBoundary, Crash, records, docker
<1>2. CASE Unusable \/ ExpiredRecords \/ EnterAborted \/ ProbeMismatch \/ Complete
  <2>1. UNCHANGED <<slot, marker, used>> /\ pc' # "save_env"
    BY <1>2 DEF Unusable, ExpiredRecords, EnterAborted, ProbeMismatch, Complete, docker
  <2>2. envRec' = NoEnv \/ UNCHANGED <<agRec, envRec>>
    BY <1>2 DEF Unusable, ExpiredRecords, EnterAborted, ProbeMismatch, Complete, records
  <2> QED
    BY <1>0, <2>1, <2>2, CoveredQuiet, CoveredPurged
<1>3. CASE StartContainer
  <2>1. PICK c \in Cid \ used : cur' = c /\ used' = used \cup {c}
    BY <1>3 DEF StartContainer
  <2>2. Covers(NoAgent, slot[c], marker[c])
    BY <1>0, <2>1 DEF Covered
  <2> QED
    BY <1>0, <1>3, <2>1, <2>2 DEF StartContainer, Covered, Covers, records
<1>4. CASE SaveEnv
  <2>1. cur \in Cid /\ Covers(NoAgent, slot[cur], marker[cur])
    BY <1>0, <1>4 DEF SaveEnv, Covered, TypeInv, Bounds
  <2>2. agRec.status # "done" => agRec = NoAgent
    BY <1>0, <1>4 DEF SaveEnv, RecordExact, Persisted, TypeOK, Records
  <2>3. envRec'.cid = cur /\ UNCHANGED <<slot, marker, used, agRec>> /\ pc' = "enter"
    BY <1>4 DEF SaveEnv, docker
  <2> QED
    BY <1>0, <2>1, <2>2, <2>3 DEF Covered, Covers
<1>5. CASE Limits \/ Query \/ QueryError \/ ProbeUnstarted \/ ProbeStarted \/ IssueFails
           \/ WaitFinished \/ WaitTimeout \/ WaitGone \/ Release
  BY <1>0, <1>5, CoveredQuiet DEF Limits, Query, QueryError, ProbeUnstarted, ProbeStarted,
     IssueFails, WaitFinished, WaitTimeout, WaitGone, Release, records, docker
<1>6. ~ExecuteMarker /\ ~ExecuteMarkerGone
  BY DEF ExecuteMarker, ExecuteMarkerGone, Reliable
<1>7. InLoop => envRec.cid = cur /\ cur \in Cid /\ Covers(agRec, slot[cur], marker[cur])
  BY <1>0 DEF InLoop, MemoryExact, TypeInv, Bounds, Covered, DoneInv
<1>8. CASE QueryFormatError
  <2>1. /\ agRec'.seq = agRec.seq /\ agRec'.pend = <<>> /\ agRec.pend = <<>>
        /\ UNCHANGED <<slot, marker, used, envRec, pc>> /\ pc = "loop"
    BY <1>0, <1>8 DEF QueryFormatError, Save, Boundary, Doc, Persisted, docker
  <2>2. Covers(agRec', slot[envRec.cid], marker[envRec.cid])
    BY <1>0a, <1>7, <2>1, CoversPending DEF InLoop
  <2> QED
    BY <1>0, <2>1, <2>2, CoveredSaved
<1>9. CASE WritePending
  <2>1. /\ agRec'.seq = agRec.seq /\ agRec'.pend = acts /\ agRec.pend = <<>>
        /\ UNCHANGED <<slot, marker, used, envRec>> /\ pc = "asked" /\ pc' = "exec"
    BY <1>0, <1>9 DEF WritePending, Save, Doc, Persisted, Reliable, docker
  <2>2. Covers(agRec', slot[envRec.cid], marker[envRec.cid])
    BY <1>0, <1>0a, <1>7, <2>1, CoversPending DEF InLoop, TypeOK
  <2> QED
    BY <1>0, <2>1, <2>2, CoveredSaved
<1>10. CASE EndIteration
  <2>1. /\ agRec'.seq = seq /\ agRec'.pend = <<>> /\ Len(outs) = Len(acts)
        /\ UNCHANGED <<slot, marker, used, envRec>> /\ pc = "exec" /\ pc' = "loop"
    BY <1>0, <1>10 DEF EndIteration, Save, Boundary, Doc, docker
  <2>2. seq = agRec.seq + Len(agRec.pend)
    BY <1>0, <2>1 DEF Persisted, MemoryExact
  <2>3. Covers(agRec', slot[envRec.cid], marker[envRec.cid])
    BY <1>0a, <1>7, <2>1, <2>2, CoversBoundary DEF InLoop
  <2> QED
    BY <1>0, <2>1, <2>3, CoveredSaved
<1>11. CASE EndLoop
  BY <1>0, <1>11, CoveredPurged DEF EndLoop, Save, Doc, docker
<1>12. ASSUME WriteCmd \/ Launch
       PROVE  /\ cur \in Cid /\ seq \in Slots /\ cur \in used /\ agRec.seq < seq
              /\ seq <= agRec.seq + Len(agRec.pend) /\ Current = agRec.pend[seq - agRec.seq]
  <2>1. pc \in {"issue", "launch"} /\ cur \in up
    BY <1>12 DEF WriteCmd, Launch
  <2>2. cur \in Cid /\ seq \in Slots /\ cur \in used
    BY <1>0, <2>1, SlotType DEF TypeOK
  <2>3. agRec.pend = acts /\ agRec.seq = Len(conv) /\ seq = Len(conv) + Len(outs) + 1
    BY <1>0, <2>1 DEF Persisted, MemoryExact
  <2>4. Len(outs) < Len(acts) /\ Len(outs) \in Nat /\ Len(acts) \in Nat /\ Len(conv) \in Nat
    BY <1>0, <2>1 DEF TypeInv, TypeOK, Bounds
  <2>5. seq - agRec.seq = Len(outs) + 1
    BY <2>3, <2>4
  <2> QED
    BY <2>2, <2>3, <2>4, <2>5 DEF Current
<1>13. CASE WriteCmd
  <2>1. slot' = [slot EXCEPT ![cur][seq] = [cmd |-> Current, st |-> "written"]]
    BY <1>13 DEF WriteCmd
  <2>2. UNCHANGED <<marker, used, agRec, envRec>> /\ pc' = "launch" /\ pc = "issue"
    BY <1>13 DEF WriteCmd, records
  <2>3. \A d \in Cid \ {cur} : slot'[d] = slot[d]
    BY <1>0, <2>1 DEF TypeOK
  <2>4. /\ slot'[cur][seq].cmd = Current
        /\ \A k \in Slots \ {seq} : slot'[cur][k] = slot[cur][k]
    BY <1>0, <1>12, <1>13, <2>1 DEF TypeOK
  <2>5. Covers(agRec, slot'[cur], marker[cur])
    <3>1. Covers(agRec, slot[cur], marker[cur])
      BY <1>7, <2>2 DEF InLoop
    <3>2. ASSUME NEW k \in Slots, k > agRec.seq + Len(agRec.pend)
          PROVE  slot'[cur][k] = Absent
      BY <1>0a, <1>12, <1>13, <2>4, <3>1, <3>2 DEF Covers, Slots
    <3>3. ASSUME NEW k \in Slots, k > agRec.seq, k <= agRec.seq + Len(agRec.pend)
          PROVE  slot'[cur][k].cmd \in {None, agRec.pend[k - agRec.seq]}
      BY <1>12, <1>13, <2>4, <3>1, <3>3 DEF Covers
    <3> QED
      BY <3>1, <3>2, <3>3 DEF Covers
  <2>6. envRec.cid = cur /\ cur \in used
    BY <1>7, <1>12, <1>13, <2>2 DEF InLoop
  <2> QED
    BY <1>0, <2>2, <2>3, <2>5, <2>6 DEF Covered, Covers
<1>14. CASE Launch
  <2>1. slot' = Reaches(cur, seq, "started") /\ slot[cur][seq].st # "absent"
    BY <1>0, <1>14 DEF Launch, LedgerExact
  <2>2. UNCHANGED <<used, agRec, envRec>> /\ pc' # "save_env" /\ pc = "launch"
    BY <1>14 DEF Launch, records
  <2>3. /\ \A d \in Cid \ {cur} : marker'[d] = marker[d]
        /\ marker'[cur] \in {marker[cur], seq}
    BY <1>0, <1>12, <1>14 DEF Launch, TypeOK
  <2>4. Covers(agRec, slot'[cur], marker[cur])
    BY <1>0, <1>7, <1>12, <1>14, <2>1, <2>2, CoversReached DEF InLoop
  <2>5. Covers(agRec, slot'[cur], marker'[cur])
    BY <1>12, <1>14, <2>3, <2>4 DEF Covers
  <2>6. ASSUME NEW d \in Cid \ {cur}, NEW doc, Covers(doc, slot[d], marker[d])
        PROVE  Covers(doc, slot'[d], marker'[d])
    BY <1>0, <1>12, <1>14, <2>1, <2>3, <2>6, CoversReached
  <2>7. envRec.cid = cur /\ cur \in used
    BY <1>7, <1>12, <1>14, <2>2 DEF InLoop
  <2> QED
    BY <1>0, <2>2, <2>5, <2>6, <2>7 DEF Covered, Covers
<1>15. CASE Container
  <2>1. UNCHANGED <<marker, used, agRec, envRec, pc, cur>>
    BY <1>15 DEF Container, ContainerDies, Detach, Finish, worker, records
  <2>2. ASSUME NEW d \in Cid, NEW doc, Covers(doc, slot[d], marker[d])
        PROVE  Covers(doc, slot'[d], marker[d])
    <3>1. CASE UNCHANGED slot
      BY <2>2, <3>1
    <3>2. ASSUME NEW c \in Cid, NEW n \in Slots, Detach(c, n) \/ Finish(c, n)
          PROVE  Covers(doc, slot'[d], marker[d])
      <4>1. slot[c][n].st # "absent"
        BY <3>2 DEF Detach, Finish
      <4>2. slot' = Reaches(c, n, "running") \/ slot' = Reaches(c, n, "finished")
        BY <3>2 DEF Detach, Finish
      <4> QED
        BY <1>0, <2>2, <4>1, <4>2, CoversReached
    <3> QED
      BY <1>15, <3>1, <3>2 DEF Container, ContainerDies
  <2> QED
    BY <1>0, <2>1, <2>2 DEF Covered, Covers
<1>16. CASE UNCHANGED vars
  BY <1>0, <1>16 DEF vars, worker, records, docker, Covered, Covers
<1> QED
  BY <1>1, <1>2, <1>3, <1>4, <1>5, <1>6, <1>8, <1>9, <1>10, <1>11, <1>13, <1>14, <1>15, <1>16
  DEF Next, Environment, Loop, Terminated

\* Outside the loop nothing is claimed of the memory.
LEMMA PersistedOut ==
  ASSUME agRec'.status = "none" => agRec' = NoAgent,
         pc' \in {"exiting", "returned", "tail", "over"}
  PROVE  Persisted'
  BY DEF Persisted

\* Before the loop no call has been counted.
LEMMA PersistedEmpty ==
  ASSUME agRec'.status = "none" => agRec' = NoAgent, calls' = 0,
         pc' \in {"down", "start", "boot", "save_env", "enter"}
  PROVE  Persisted'
  BY DEF Persisted

\* While a message is executed the record holds it.
LEMMA PersistedExec ==
  ASSUME Persisted, pc \in {"exec", "issue", "launch", "wait"},
         pc' \in {"exec", "issue", "launch", "wait"},
         UNCHANGED <<agRec, acts, conv, calls>>
  PROVE  Persisted'
  BY DEF Persisted

\* Every step keeps the record up to date with the memory of the process.
LEMMA PersistedStep ==
  ASSUME Reliable, ~WriteMayFail, FrontierInv, [Next]_vars
  PROVE  Persisted'
<1>0. TypeOK /\ Persisted /\ DoneInv /\ RecordExact /\ MemoryExact
  BY DEF FrontierInv, AccountInv, ExactInv, TypeInv
<1>0a. agRec.status = "none" => agRec = NoAgent
  BY <1>0 DEF Persisted
<1>1. CASE \/ StartProcess \/ Attach \/ Unusable \/ NoEnvRecord \/ ExpiredRecords
           \/ StartContainer \/ SaveEnv \/ Crash
  <2>1. calls' = 0
    BY <1>0, <1>1 DEF StartProcess, Attach, Unusable, NoEnvRecord, ExpiredRecords,
       StartContainer, SaveEnv, Crash, Persisted
  <2>2. agRec' = NoAgent \/ agRec' = agRec
    BY <1>1 DEF StartProcess, Attach, Unusable, NoEnvRecord, ExpiredRecords,
       StartContainer, SaveEnv, Crash, records
  <2>3. pc' \in {"down", "start", "boot", "save_env", "enter"}
    BY <1>1 DEF StartProcess, Attach, Unusable, NoEnvRecord, ExpiredRecords,
       StartContainer, SaveEnv, Crash
  <2> QED
    BY <1>0a, <2>1, <2>2, <2>3, PersistedEmpty
<1>2. CASE EnterFresh
  <2>1. agRec = NoAgent /\ calls = 0 /\ seq = 0
    BY <1>0, <1>2 DEF EnterFresh, Reliable, Persisted, MemoryExact
  <2>2. pc' = "loop" /\ UNCHANGED <<agRec, calls, seq>>
    BY <1>2 DEF EnterFresh, records
  <2> QED
    BY <2>1, <2>2 DEF Persisted, NoAgent
<1>3. CASE EnterPending
  BY <1>0, <1>3 DEF EnterPending, Restore, Persisted, RecordExact, records
<1>4. CASE EnterBoundary
  BY <1>0, <1>4 DEF EnterBoundary, Restore, Persisted, records
<1>5. CASE EnterReplay \/ EnterAborted \/ BootFails \/ ProbeMismatch \/ Complete \/ Release
  <2>1. agRec' = NoAgent \/ agRec' = agRec
    BY <1>5 DEF EnterReplay, EnterAborted, BootFails, ProbeMismatch, Complete, Release, records
  <2>2. pc' \in {"exiting", "returned", "tail", "over"}
    BY <1>5 DEF EnterReplay, EnterAborted, BootFails, ProbeMismatch, Complete, Release
  <2> QED
    BY <1>0a, <2>1, <2>2, PersistedOut
<1>6. CASE Limits \/ QueryError \/ IssueFails \/ EndLoop
  BY <1>0a, <1>6, PersistedOut DEF Limits, QueryError, IssueFails, EndLoop, Save, Doc, records
<1>7. CASE Query
  <2>1. agRec.calls = calls /\ calls \in Nat /\ agRec.pend = <<>> /\ agRec.seq = seq
    BY <1>0, <1>7 DEF Query, Persisted, TypeOK
  <2>2. pc' = "asked" /\ calls' = calls + 1 /\ UNCHANGED <<agRec, seq>>
    BY <1>7 DEF Query, records
  <2>3. agRec'.calls = calls' - 1
    BY <2>1, <2>2
  <2> QED
    BY <1>0a, <2>1, <2>2, <2>3 DEF Persisted
<1>8. CASE QueryFormatError
  BY <1>0, <1>8 DEF QueryFormatError, Save, Boundary, Doc, Persisted
<1>9. CASE WritePending
  <2>1. seq = Len(conv)
    BY <1>0, <1>9 DEF WritePending, MemoryExact
  <2> QED
    BY <1>0, <1>9, <2>1 DEF WritePending, Reliable, Save, Doc, Persisted
<1>10. CASE ProbeUnstarted \/ ProbeStarted \/ WriteCmd \/ WaitTimeout \/ WaitGone
  BY <1>0, <1>10, PersistedExec DEF ProbeUnstarted, ProbeStarted, Executing, WriteCmd,
     WaitTimeout, WaitGone, records
<1>11. CASE Launch \/ WaitFinished
  <2>1. /\ pc \in {"launch", "wait"} /\ pc' \in {"wait", "exec", "exiting"}
        /\ UNCHANGED <<agRec, acts, conv, calls>>
    BY <1>11 DEF Launch, WaitFinished, records
  <2> QED
    BY <1>0, <1>0a, <2>1, PersistedExec, PersistedOut
<1>12. ~ExecuteMarker /\ ~ExecuteMarkerGone
  BY DEF ExecuteMarker, ExecuteMarkerGone, Reliable
<1>13. CASE EndIteration
  BY <1>13 DEF EndIteration, Save, Boundary, Doc, Persisted
<1>14. CASE Container \/ UNCHANGED vars
  <2>1. UNCHANGED <<agRec, acts, conv, calls, pc, seq>>
    BY <1>14 DEF Container, ContainerDies, Detach, Finish, vars, worker, records
  <2> QED
    BY <1>0, <2>1 DEF Persisted
<1> QED
  BY <1>1, <1>2, <1>3, <1>4, <1>5, <1>6, <1>7, <1>8, <1>9, <1>10, <1>11, <1>12, <1>13, <1>14
  DEF Next, Environment, Loop, Terminated

\* The store is empty and every container blank initially.
LEMMA FrontierInit == Init => FrontierInv
<1> SUFFICES ASSUME Init PROVE DoneInv /\ Covered /\ Persisted
  BY AccountInit DEF FrontierInv
<1>1. DoneInv
  BY DEF Init, DoneInv
<1>2. \A c \in Cid : Covers(NoAgent, slot[c], marker[c])
  BY ConstantsAssumption DEF Init, Covers, NoAgent, Slots
<1>3. Covered
  BY <1>2 DEF Init, Covered, NoAgent
<1>4. Persisted
  BY DEF Init, Persisted
<1> QED
  BY <1>1, <1>3, <1>4

\* The inductive step.
LEMMA FrontierStep ==
  Reliable /\ ~WriteMayFail /\ FrontierInv /\ [Next]_vars => FrontierInv'
  BY AccountStep, DoneStep, CoveredStep, PersistedStep DEF FrontierInv, Reliable

\* The model is never asked again for a step whose commands the container has
\* seen: when a process, resumed or not, is about to call the model, its
\* container holds no command beyond the last one that the conversation tells
\* of.  Kills, dying containers and expired records are part of it; a lost
\* checkpoint write is not.
THEOREM NoOrphanCommandHolds ==
  Reliable /\ ~WriteMayFail /\ Spec => []NoOrphanCommand
<1> SUFFICES ASSUME Reliable, ~WriteMayFail PROVE Spec => []NoOrphanCommand
  OBVIOUS
<1>1. FrontierInv /\ [Next]_vars => FrontierInv'
  BY FrontierStep
<1>2. FrontierInv => NoOrphanCommand
  <2> SUFFICES ASSUME FrontierInv, pc = "loop", NEW n \in Slots, n > seq
               PROVE  slot[cur][n] = Absent
    BY DEF NoOrphanCommand
  <2>1. agRec.status # "done" /\ envRec.cid = cur /\ cur \in Cid
    BY DEF FrontierInv, DoneInv, AccountInv, MemoryExact, InLoop, ExactInv, TypeInv, Bounds
  <2>2. Covers(agRec, slot[cur], marker[cur])
    BY <2>1 DEF FrontierInv, Covered
  <2>3. agRec.seq + Len(agRec.pend) = seq
    BY DEF FrontierInv, Persisted, AccountInv, ExactInv, TypeInv, TypeOK, Seqs
  <2> QED
    BY <2>2, <2>3 DEF Covers
<1> QED
  BY <1>1, <1>2, FrontierInit, PTL DEF Spec

-----------------------------------------------------------------------------
(* Kills cost one call each: BillInv is inductive.                         *)

\* A slot about to be probed is free or holds the very command that the record
\* numbers so: LedgerMismatch is never raised.
LEMMA NeverMismatch ==
  ASSUME FrontierInv, ProbeMismatch PROVE FALSE
<1>1. pc = "exec" /\ Len(outs) < Len(acts) /\ slot[cur][seq + 1].cmd \notin {None, Current}
  BY DEF ProbeMismatch, Executing
<1>2. /\ cur \in Cid /\ Len(outs) \in Nat /\ Len(acts) \in Nat /\ Len(conv) \in Nat
      /\ seq + (Len(acts) - Len(outs)) <= MaxSeq /\ seq \in Nat
  BY <1>1, ConstantsAssumption DEF FrontierInv, AccountInv, ExactInv, TypeInv, TypeOK, Bounds, Seqs
<1>3. seq + 1 \in Slots
  BY <1>1, <1>2, ConstantsAssumption DEF Slots
<1>4. agRec.pend = acts /\ agRec.seq = Len(conv) /\ agRec.status = "running"
  BY <1>1 DEF FrontierInv, Persisted
<1>5. seq = Len(conv) + Len(outs) /\ envRec.cid = cur
  BY <1>1 DEF FrontierInv, AccountInv, MemoryExact, InLoop
<1>6. Covers(agRec, slot[cur], marker[cur])
  BY <1>2, <1>4, <1>5 DEF FrontierInv, Covered
<1>7. (seq + 1) - agRec.seq = Len(outs) + 1 /\ seq + 1 > agRec.seq /\
      seq + 1 <= agRec.seq + Len(agRec.pend)
  BY <1>1, <1>2, <1>4, <1>5
<1>8. slot[cur][seq + 1].cmd \in {None, agRec.pend[Len(outs) + 1]}
  BY <1>3, <1>6, <1>7 DEF Covers
<1> QED
  BY <1>1, <1>4, <1>8 DEF Current

\* The marker never outruns the record of a completed step: reconcile() finds
\* nothing ambiguous, and no resumed run is given up.
LEMMA NeverAborted ==
  ASSUME ~DockerMayFail, FrontierInv, Held, EnterAborted PROVE FALSE
<1>1. /\ pc = "enter" /\ agRec.status = "running" /\ agRec.pend = <<>>
      /\ \E m \in MarkerReads : Verdict(m) \in {"mismatch", "ambiguous"}
  BY DEF EnterAborted
<1>2. cur \in up /\ cur \in Cid /\ envRec.cid = cur
  BY <1>1 DEF Held, FrontierInv, AccountInv, MemoryExact, ExactInv, TypeInv, Bounds
<1>3. MarkerReads = {marker[cur]}
  BY <1>2 DEF MarkerReads
<1>4. Covers(agRec, slot[cur], marker[cur])
  BY <1>1, <1>2 DEF FrontierInv, Covered
<1>5. marker[cur] <= agRec.seq /\ marker[cur] \in Nat
  BY <1>1, <1>2, <1>4, ConstantsAssumption
  DEF Covers, FrontierInv, AccountInv, ExactInv, TypeInv, TypeOK, Records, Seqs
<1>6. Verdict(marker[cur]) \in {"unknown", "clean"}
  BY <1>5 DEF Verdict
<1> QED
  BY <1>1, <1>3, <1>6

\* The container outlives the kills.
LEMMA HeldStep ==
  ASSUME KillsOnly, FrontierInv, Held, [Next]_vars
  PROVE  Held'
<1>0. TypeOK /\ Persisted /\ DoneInv /\ RecordExact /\ MemoryExact
  BY DEF FrontierInv, AccountInv, ExactInv, TypeInv
<1>0a. NoAgent.status # "running" /\ ~ExecuteMarker /\ ~ExecuteMarkerGone /\ ~BootFails
  BY DEF NoAgent, KillsOnly, Reliable, ExecuteMarker, ExecuteMarkerGone, BootFails
<1>1. CASE StartProcess \/ Attach \/ Unusable \/ NoEnvRecord \/ ExpiredRecords
  BY <1>0, <1>0a, <1>1 DEF Held, InLoop, StartProcess, Attach, Unusable, SeesUnfinished,
     NoEnvRecord, ExpiredRecords, records, docker
<1>2. CASE StartContainer \/ SaveEnv
  BY <1>0, <1>2 DEF Held, InLoop, StartContainer, SaveEnv, RecordExact, records, docker
<1>3. CASE EnterFresh \/ EnterPending \/ EnterBoundary
  BY <1>3 DEF Held, InLoop, EnterFresh, EnterPending, EnterBoundary, records, docker
<1>4. CASE EnterReplay \/ EnterAborted \/ ProbeMismatch
  BY <1>0a, <1>4 DEF Held, InLoop, EnterReplay, EnterAborted, ProbeMismatch, records, docker
<1>5. CASE Limits \/ Query \/ QueryError \/ ProbeUnstarted \/ ProbeStarted \/ WriteCmd \/
           IssueFails
  BY <1>5 DEF Held, InLoop, Limits, Query, QueryError, ProbeUnstarted, ProbeStarted, Executing,
     WriteCmd, IssueFails, records, docker
<1>6. CASE Launch \/ WaitFinished \/ WaitTimeout \/ WaitGone
  <2>1. InLoop /\ UNCHANGED <<cur, up, agRec, envRec>> /\ pc' \notin {"returned", "tail"}
    BY <1>6 DEF InLoop, Launch, WaitFinished, WaitTimeout, WaitGone, records, docker
  <2> QED
    BY <2>1 DEF Held
<1>7. CASE QueryFormatError \/ WritePending \/ EndIteration
  <2>1. InLoop /\ envRec.cid = cur /\ cur \in up
    BY <1>0, <1>7 DEF Held, InLoop, MemoryExact, QueryFormatError, WritePending, EndIteration
  <2>2. UNCHANGED <<cur, up, envRec>> /\ pc' \notin {"returned", "tail"}
    BY <1>7, <2>1 DEF InLoop, QueryFormatError, WritePending, EndIteration, docker
  <2> QED
    BY <2>1, <2>2 DEF Held
<1>8. CASE EndLoop
  BY <1>8 DEF EndLoop, Held, InLoop, Save, Doc, KillsOnly
<1>9. CASE Release \/ Complete
  BY <1>0a, <1>9 DEF Release, Complete, Held, InLoop, records
<1>10. CASE Crash
  BY <1>10 DEF Crash, Held, InLoop, records, docker
<1>11. CASE Container \/ UNCHANGED vars
  <2>1. UNCHANGED <<pc, cur, up, agRec, envRec>>
    BY <1>11 DEF Container, ContainerDies, Detach, Finish, KillsOnly, vars, worker,
       records, docker
  <2> QED
    BY <2>1 DEF Held, InLoop
<1> QED
  BY <1>0a, <1>1, <1>2, <1>3, <1>4, <1>5, <1>6, <1>7, <1>8, <1>9, <1>10, <1>11
  DEF Next, Environment, Loop, Terminated

\* Every paid answer stays accounted for.
LEMMA BilledStep ==
  ASSUME KillsOnly, BillInv, [Next]_vars
  PROVE  Billed'
<1>0. /\ TypeOK /\ Persisted /\ DoneInv /\ RecordExact /\ Held /\ Billed
      /\ llm \in Nat /\ starts \in Nat /\ calls \in Nat /\ agRec.calls \in Nat
  BY RecordType DEF BillInv, FrontierInv, AccountInv, ExactInv, TypeInv, TypeOK
<1>0a. /\ ~ProbeMismatch /\ ~EnterAborted /\ ~ExecuteMarker /\ ~ExecuteMarkerGone
       /\ ~BootFails /\ ~ExpiredRecords
  BY NeverMismatch, NeverAborted DEF BillInv, KillsOnly, Reliable, ExecuteMarker,
     ExecuteMarkerGone, BootFails, ExpiredRecords
<1>1. CASE StartProcess
  BY <1>0, <1>1 DEF StartProcess, Billed, records
<1>2. CASE Unusable
  <2>1. UNCHANGED agRec
    BY <1>0, <1>2 DEF Unusable, SeesUnfinished, Held, KillsOnly, Reliable, records
  <2> QED
    BY <1>0, <1>2, <2>1 DEF Unusable, Billed
<1>3. CASE Attach \/ NoEnvRecord \/ StartContainer \/ SaveEnv \/ EnterFresh \/ EnterReplay \/
           EnterPending \/ EnterBoundary
  BY <1>0, <1>3 DEF Attach, NoEnvRecord, StartContainer, SaveEnv, EnterFresh, EnterReplay,
     EnterPending, EnterBoundary, Billed, records
<1>4. CASE Limits \/ QueryError
  <2>1. /\ pc = "loop" /\ pc' = "exiting" /\ calls' \in {calls, calls + 1}
        /\ UNCHANGED <<agRec, llm, starts>>
    BY <1>4 DEF Limits, QueryError, records
  <2>2. agRec.calls = calls
    BY <1>0, <2>1 DEF Persisted
  <2> QED
    BY <1>0, <2>1, <2>2 DEF Billed
<1>5. CASE Query
  <2>1. pc = "loop" /\ pc' = "asked" /\ llm' = llm + 1 /\ UNCHANGED <<agRec, starts>>
    BY <1>5 DEF Query, records
  <2> QED
    BY <1>0, <2>1 DEF Billed
<1>6. CASE QueryFormatError
  BY <1>0, <1>6 DEF QueryFormatError, Save, Boundary, Doc, KillsOnly, Billed, Persisted
<1>7. CASE WritePending
  BY <1>0, <1>7 DEF WritePending, Save, Doc, KillsOnly, Reliable, Billed, Persisted
<1>8. CASE ProbeUnstarted \/ ProbeStarted \/ WriteCmd \/ Launch \/ IssueFails \/
           WaitFinished \/ WaitTimeout \/ WaitGone
  <2>1. /\ pc \in {"exec", "issue", "launch", "wait"}
        /\ pc' \in {"exec", "issue", "launch", "wait", "exiting"}
        /\ UNCHANGED <<agRec, calls, llm, starts>>
    BY <1>8 DEF ProbeUnstarted, ProbeStarted, Executing, WriteCmd, Launch, IssueFails,
       WaitFinished, WaitTimeout, WaitGone, records
  <2>2. agRec.calls = calls
    BY <1>0, <2>1 DEF Persisted
  <2> QED
    BY <1>0, <2>1, <2>2 DEF Billed
<1>9. CASE EndIteration
  BY <1>0, <1>9 DEF EndIteration, Save, Boundary, Doc, KillsOnly, Billed, Persisted
<1>10. CASE EndLoop
  BY <1>0, <1>10 DEF EndLoop, Save, Doc, KillsOnly, Billed
<1>11. CASE Release \/ Complete
  BY <1>0, <1>11 DEF Release, Complete, Billed, records
<1>12. CASE Crash
  BY <1>0, <1>12 DEF Crash, Billed, records
<1>13. CASE Container \/ UNCHANGED vars
  <2>1. UNCHANGED <<pc, calls, llm, starts, agRec>>
    BY <1>13 DEF Container, ContainerDies, Detach, Finish, vars, worker, records
  <2> QED
    BY <1>0, <2>1 DEF Billed
<1> QED
  BY <1>0a, <1>1, <1>2, <1>3, <1>4, <1>5, <1>6, <1>7, <1>8, <1>9, <1>10, <1>11, <1>12, <1>13
  DEF Next, Environment, Loop, Terminated

\* A kill costs at most one paid answer: however often the worker is killed and
\* resumed, what the model was paid for exceeds the n_calls that step_limit is
\* compared with by no more than the number of earlier processes.
THEOREM KillCostsOneCallHolds == KillsOnly /\ Spec => []KillCostsOneCall
<1> SUFFICES ASSUME KillsOnly PROVE Spec => []KillCostsOneCall
  OBVIOUS
<1>1. Init => BillInv
  <2> SUFFICES ASSUME Init PROVE Held /\ Billed
    BY FrontierInit DEF BillInv
  <2>1. Held
    BY DEF Init, Held, InLoop, NoAgent
  <2>2. Billed
    BY DEF Init, Billed, NoAgent
  <2> QED
    BY <2>1, <2>2
<1>2. BillInv /\ [Next]_vars => BillInv'
  BY FrontierStep, HeldStep, BilledStep DEF BillInv, KillsOnly
<1>3. BillInv => KillCostsOneCall
  <2> SUFFICES ASSUME BillInv, InLoop PROVE llm <= calls + (starts - 1)
    BY DEF KillCostsOneCall
  <2>1. /\ Persisted /\ Billed
        /\ llm \in Nat /\ starts \in Nat /\ calls \in Nat /\ agRec.calls \in Nat
    BY RecordType DEF BillInv, FrontierInv, AccountInv, ExactInv, TypeInv, TypeOK
  <2> QED
    BY <2>1 DEF Persisted, Billed, InLoop
<1> QED
  BY <1>1, <1>2, <1>3, PTL DEF Spec

-----------------------------------------------------------------------------
(* A completed step is not run again.                                      *)

\* MarkerInv is inductive.
LEMMA MarkerStep ==
  ASSUME ~Ledger, ~ReadMayFail, TypeInv, MarkerInv, [Next]_vars
  PROVE  MarkerInv'
<1>0. TypeOK /\ agRec.seq \in Nat /\ seq \in Nat
  BY RecordType, ConstantsAssumption DEF TypeInv, TypeOK, Seqs
<1>0a. NoAgent.status # "running" /\ ~Launch /\ ~WriteCmd /\ ~ProbeMismatch /\
       ~ProbeUnstarted /\ ~ProbeStarted /\ ~IssueFails
  BY DEF NoAgent, MarkerInv, Launch, WriteCmd, ProbeMismatch, ProbeUnstarted, ProbeStarted,
     IssueFails
<1>1. CASE \/ StartProcess \/ Attach \/ Unusable \/ NoEnvRecord \/ ExpiredRecords
           \/ StartContainer \/ SaveEnv \/ BootFails \/ Crash
  BY <1>1 DEF MarkerInv, InLoop, StartProcess, Attach, Unusable, NoEnvRecord, ExpiredRecords,
     StartContainer, SaveEnv, BootFails, Crash, docker
<1>2. CASE EnterFresh \/ EnterReplay \/ EnterPending \/ EnterBoundary \/ EnterAborted
  BY <1>0, <1>2 DEF MarkerInv, InLoop, EnterFresh, EnterReplay, EnterPending, EnterBoundary,
     EnterAborted, Restore, records, docker
<1>3. CASE Limits \/ Query \/ QueryError \/ WritePending \/ WaitFinished \/ WaitTimeout \/
           WaitGone
  <2>1. InLoop /\ UNCHANGED <<agRec, seq, slot>> /\ pc' \notin {"issue", "launch"}
    BY <1>3 DEF InLoop, Limits, Query, QueryError, WritePending, WaitFinished, WaitTimeout,
       WaitGone, records, docker
  <2> QED
    BY <2>1 DEF MarkerInv
<1>4. CASE QueryFormatError \/ EndIteration
  <2>1. /\ InLoop /\ UNCHANGED <<seq, slot>> /\ pc' \notin {"issue", "launch"}
        /\ agRec' = agRec \/ agRec'.seq = seq
    BY <1>4 DEF InLoop, QueryFormatError, EndIteration, Save, Boundary, Doc, docker
  <2> QED
    BY <1>0, <2>1 DEF MarkerInv
<1>5. CASE ExecuteMarkerGone
  BY <1>0, <1>5 DEF ExecuteMarkerGone, Executing, MarkerInv, InLoop, records, docker
<1>6. CASE ExecuteMarker
  <2>1. \A c \in Cid, n \in Slots : slot'[c][n].st # "started"
    <3> SUFFICES ASSUME NEW c \in Cid, NEW n \in Slots PROVE slot'[c][n].st # "started"
      OBVIOUS
    <3>1. slot' = [slot EXCEPT ![cur][seq + 1] = [cmd |-> Current, st |-> "running"]]
      BY <1>6 DEF ExecuteMarker
    <3>2. CASE c = cur /\ n = seq + 1
      BY <1>0, <3>1, <3>2 DEF TypeOK
    <3>3. CASE ~(c = cur /\ n = seq + 1)
      <4>1. slot'[c][n] = slot[c][n]
        BY <1>0, <3>1, <3>3 DEF TypeOK
      <4> QED
        BY <4>1 DEF MarkerInv
    <3> QED
      BY <3>2, <3>3
  <2>2. pc = "exec" /\ pc' = "wait" /\ seq' = seq + 1 /\ UNCHANGED agRec
    BY <1>6 DEF ExecuteMarker, Executing, records
  <2> QED
    BY <1>0, <2>1, <2>2 DEF MarkerInv, InLoop
<1>7. CASE EndLoop \/ Release \/ Complete
  BY <1>7 DEF EndLoop, Release, Complete, MarkerInv, InLoop, docker
<1>8. CASE Container
  <2>1. UNCHANGED <<pc, agRec, seq>>
    BY <1>8 DEF Container, ContainerDies, Detach, Finish, worker, records
  <2>2. \A c \in Cid, n \in Slots : slot'[c][n].st # "started"
    <3>1. CASE UNCHANGED slot
      BY <3>1 DEF MarkerInv
    <3>2. ASSUME NEW c \in Cid, NEW n \in Slots, NEW st \in {"running", "finished"},
                 slot' = Reaches(c, n, st), NEW d \in Cid, NEW m \in Slots
          PROVE  slot'[d][m].st # "started"
      <4>1. CASE d = c /\ m = n
        BY <1>0, <3>2, <4>1 DEF TypeOK, Reaches
      <4>2. CASE ~(d = c /\ m = n)
        <5>1. slot'[d][m] = slot[d][m]
          BY <1>0, <3>2, <4>2 DEF TypeOK, Reaches
        <5> QED
          BY <5>1 DEF MarkerInv
      <4> QED
        BY <4>1, <4>2
    <3> QED
      BY <1>8, <3>1, <3>2 DEF Container, ContainerDies, Detach, Finish
  <2> QED
    BY <2>1, <2>2 DEF MarkerInv, InLoop
<1>9. CASE UNCHANGED vars
  BY <1>9 DEF vars, worker, records, docker, MarkerInv, InLoop
<1> QED
  BY <1>0a, <1>1, <1>2, <1>3, <1>4, <1>5, <1>6, <1>7, <1>8, <1>9
  DEF Next, Environment, Loop, Terminated

\* Commands are run by two steps only: a detached session's first, and the
\* docker exec of the marker mode.
LEMMA OnlyRuns ==
  ASSUME [Next]_vars, ~ExecuteMarker, \A c \in Cid, n \in Slots : ~Detach(c, n)
  PROVE  ran' = ran
<1>1. CASE Environment \/ Crash \/ UNCHANGED vars
  BY <1>1 DEF Environment, StartProcess, Attach, Unusable, NoEnvRecord, ExpiredRecords,
     BootFails, StartContainer, SaveEnv, EnterFresh, EnterReplay, EnterPending, EnterBoundary,
     EnterAborted, Crash, vars, docker
<1>2. CASE Container
  BY <1>2 DEF Container, ContainerDies, Finish
<1>3. CASE Loop
  BY <1>3 DEF Loop, Limits, Query, QueryFormatError, QueryError, WritePending,
     ProbeMismatch, ProbeUnstarted, ProbeStarted, WriteCmd, Launch, IssueFails,
     ExecuteMarkerGone, WaitFinished, WaitTimeout, WaitGone, EndIteration, EndLoop, Release,
     Complete, docker
<1> QED
  BY <1>1, <1>2, <1>3 DEF Next, Terminated

\* With the ledger, a detached session starts only from a slot that was not run.
LEMMA LedgerNoRerun ==
  ASSUME Ledger, ExactInv, [Next]_vars PROVE RunsNoCompleted
<1> SUFFICES ASSUME NEW n \in Slots, envRec.cid # None
             PROVE  ran[envRec.cid][n] = 0 \/ ran'[envRec.cid][n] = ran[envRec.cid][n]
  BY DEF RunsNoCompleted
<1>0. envRec.cid \in Cid /\ ran \in [Cid -> [Slots -> Nat]]
  BY DEF ExactInv, TypeInv, TypeOK
<1>1. ~ExecuteMarker
  BY DEF ExecuteMarker
<1>2. ASSUME NEW c \in Cid, NEW m \in Slots, Detach(c, m)
      PROVE  ran[envRec.cid][n] = 0 \/ ran'[envRec.cid][n] = ran[envRec.cid][n]
  <2>1. ran[c][m] = 0
    BY <1>2 DEF Detach, ExactInv, LedgerExact
  <2>2. ran' = [ran EXCEPT ![c][m] = @ + 1]
    BY <1>2 DEF Detach
  <2> QED
    BY <1>0, <2>1, <2>2
<1> QED
  BY <1>1, <1>2, OnlyRuns

\* Without it, the only command that is run has the next number, which is above
\* all that the record covers.
LEMMA MarkerNoRerun ==
  ASSUME ~Ledger, TypeInv, MarkerInv, [Next]_vars PROVE RunsNoCompleted
<1> SUFFICES ASSUME NEW n \in Slots, agRec.status = "running", envRec.cid # None,
                    n <= agRec.seq
             PROVE  ran'[envRec.cid][n] = ran[envRec.cid][n]
  BY DEF RunsNoCompleted
<1>0. envRec.cid \in Cid /\ ran \in [Cid -> [Slots -> Nat]] /\ seq \in Nat /\ agRec.seq \in Nat
  BY RecordType, ConstantsAssumption DEF TypeInv, TypeOK, Seqs
<1>1. \A c \in Cid, m \in Slots : ~Detach(c, m)
  BY DEF Detach, MarkerInv
<1>2. CASE ExecuteMarker
  <2>1. agRec.seq <= seq /\ ran' = [ran EXCEPT ![cur][seq + 1] = @ + 1]
    BY <1>2 DEF ExecuteMarker, Executing, MarkerInv, InLoop
  <2>2. n # seq + 1
    BY <1>0, <2>1 DEF Slots
  <2> QED
    BY <1>0, <2>1, <2>2
<1> QED
  BY <1>1, <1>2, OnlyRuns

\* A resumed worker continues from the last completed step: a command that the
\* stored record covers and the container has run is not run again.  With the
\* ledger this needs docker calls that do not fail; with the marker alone it
\* holds whatever docker and the checkpoint writes do, if stored documents can
\* be read.
THEOREM CompletedStepsNotRerunHolds ==
  (IF Ledger THEN ~DockerMayFail ELSE ~ReadMayFail) /\ Spec => CompletedStepsNotRerun
<1>1. ASSUME Ledger, ~DockerMayFail PROVE Spec => CompletedStepsNotRerun
  <2>1. ExactInv /\ [Next]_vars => ExactInv'
    BY <1>1, ExactStep, TypeStep DEF ExactInv
  <2>2. ExactInv /\ [Next]_vars => [RunsNoCompleted]_vars
    BY <1>1, LedgerNoRerun
  <2> QED
    BY <2>1, <2>2, ExactInit, PTL DEF Spec, CompletedStepsNotRerun
<1>2. ASSUME ~Ledger, ~ReadMayFail PROVE Spec => CompletedStepsNotRerun
  <2>1. Init => TypeInv /\ MarkerInv
    <3> SUFFICES ASSUME Init PROVE MarkerInv
      BY TypeInit
    <3> QED
      BY DEF Init, MarkerInv, InLoop, Absent
  <2>2. TypeInv /\ MarkerInv /\ [Next]_vars => (TypeInv /\ MarkerInv)'
    BY <1>2, TypeStep, MarkerStep
  <2>3. TypeInv /\ MarkerInv /\ [Next]_vars => [RunsNoCompleted]_vars
    BY <1>2, MarkerNoRerun
  <2> QED
    BY <2>1, <2>2, <2>3, PTL DEF Spec, CompletedStepsNotRerun
<1> QED
  BY <1>1, <1>2
=============================================================================
