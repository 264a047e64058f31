--------------------------- MODULE StepResumeTypes ---------------------------
(***************************************************************************)
(* Type correctness of StepResume, for every value of its constants.       *)
(* TypeOK is not inductive: that a command number stays below MaxSeq, and  *)
(* that a process which executes has a container and a command to execute, *)
(* comes from Bounds.  The two together are.                               *)
(***************************************************************************)
EXTENDS StepResume, TLAPS

TypeInv == TypeOK /\ Bounds

-----------------------------------------------------------------------------
(* The records and the ledger slots the actions build.                     *)

\* The absent agent record is a record that covers no command.
LEMMA NoAgentType == NoAgent \in Records /\ NoAgent.seq = 0 /\ NoAgent.pend = <<>>
  BY ConstantsAssumption DEF NoAgent, Records, Seqs, Exits

\* The absent env record is typed.
LEMMA NoEnvType == NoEnv \in [cid : Cid \cup {None}, marker : BOOLEAN]
  BY DEF NoEnv

\* Every document _write_pending or _sdlcma_checkpoint builds is a record.
LEMMA DocType ==
  ASSUME TypeOK, NEW st \in {"none", "running", "done"}, NEW cv \in Seq(Obs),
         NEW pd \in Seq(Cmd), NEW n \in Nat, NEW ex \in Exits
  PROVE  Doc(st, cv, pd, n, ex) \in Records
  BY DEF TypeOK, Doc, Records

\* So is the boundary document of a completed iteration.
LEMMA BoundaryType ==
  ASSUME TypeOK, NEW cv \in Seq(Obs), NEW n \in Nat
  PROVE  Boundary(cv, n) \in Records
<1>1. "running" \in {"none", "running", "done"} /\ <<>> \in Seq(Cmd) /\ "no" \in Exits
  BY DEF Exits
<1> HIDE DEF Exits, Records
<1> QED
  BY <1>1, DocType DEF Boundary

\* While a command is issued, launched or awaited, there is one.
LEMMA CurrentType == ASSUME TypeInv, pc \in {"issue", "launch", "wait"} PROVE Current \in
      Cmd
  BY DEF TypeInv, TypeOK, Bounds, Current

\* A command that is executed has a container and a slot.
LEMMA SlotType ==
  ASSUME TypeInv, pc \in {"issue", "launch", "wait"}
  PROVE  cur \in Cid /\ seq \in Slots
<1>1. cur \in Cid
  BY DEF TypeInv, Bounds
<1>2. seq \in 0..MaxSeq /\ 1 <= seq
  BY DEF TypeInv, TypeOK, Bounds, Seqs
<1> QED
  BY <1>1, <1>2, ConstantsAssumption DEF Slots

\* Replacing one slot keeps the ledger typed.
LEMMA SlotUpdate ==
  ASSUME TypeOK, NEW c \in Cid, NEW n \in Slots, NEW v \in SlotStates
  PROVE  [slot EXCEPT ![c][n] = v] \in [Cid -> [Slots -> SlotStates]]
  BY DEF TypeOK

\* So does moving one slot to a later state.
LEMMA StateUpdate ==
  ASSUME TypeOK, NEW c \in Cid, NEW n \in Slots, NEW st \in {"started", "running",
         "finished"}
  PROVE  Reaches(c, n, st) \in [Cid -> [Slots -> SlotStates]]
<1>1. slot[c][n] \in SlotStates
  BY DEF TypeOK
<1>2. [cmd |-> slot[c][n].cmd, st |-> st] \in SlotStates
  BY <1>1 DEF SlotStates
<1> QED
  BY <1>2, SlotUpdate DEF Reaches

-----------------------------------------------------------------------------
(* Every step preserves TypeOK and Bounds.                                 *)

\* A step of the process, or its death, keeps every variable typed.
LEMMA TypeOKStep == TypeInv /\ (Environment \/ Loop \/ Crash) => TypeOK'
<1> SUFFICES ASSUME TypeInv, Environment \/ Loop \/ Crash PROVE TypeOK'
  OBVIOUS
<1>1. CASE StartProcess
  BY <1>1, ConstantsAssumption DEF TypeInv, TypeOK, Bounds, Pcs, Exits,
     StartProcess, records, docker
<1>2. CASE Attach
  BY <1>2, ConstantsAssumption DEF TypeInv, TypeOK, Bounds, Pcs, Exits, Attach,
     records, docker
<1>3. CASE Unusable
  <2>1. agRec' \in Records /\ envRec' \in [cid : Cid \cup {None}, marker : BOOLEAN]
    BY <1>3, NoAgentType, NoEnvType DEF TypeInv, TypeOK, Unusable, records
  <2> QED
    BY <1>3, <2>1 DEF TypeInv, TypeOK, Pcs, Unusable, docker
<1>4. CASE NoEnvRecord
  BY <1>4, ConstantsAssumption DEF TypeInv, TypeOK, Bounds, Pcs, Exits, NoEnvRecord,
     records, docker
<1>5. CASE StartContainer
  BY <1>5, ConstantsAssumption DEF TypeInv, TypeOK, Bounds, Pcs, Exits,
     StartContainer, records, docker
<1>6. CASE SaveEnv
  BY <1>6, ConstantsAssumption DEF TypeInv, TypeOK, Bounds, Pcs, Exits, SaveEnv,
     records, docker
<1>7. CASE EnterFresh
  BY <1>7, ConstantsAssumption DEF TypeInv, TypeOK, Bounds, Pcs, Exits, EnterFresh,
     records, docker
<1>8. CASE EnterReplay
  BY <1>8, ConstantsAssumption DEF TypeInv, TypeOK, Bounds, Pcs, Exits, EnterReplay,
     Records, records, docker
<1>9. CASE EnterPending
  BY <1>9, ConstantsAssumption DEF TypeInv, TypeOK, Bounds, Pcs, Exits,
     EnterPending, Restore, Records, records, docker
<1>10. CASE EnterBoundary
  BY <1>10, ConstantsAssumption DEF TypeInv, TypeOK, Bounds, Pcs, Exits,
     EnterBoundary, Restore, Records, MarkerReads, Verdict, Seqs, records, docker
<1>11. CASE EnterAborted
  BY <1>11, ConstantsAssumption DEF TypeInv, TypeOK, Bounds, Pcs, Exits,
     EnterAborted, Restore, Records, Seqs, NoEnv, NoAgent, records, docker
<1>12. CASE Limits
  BY <1>12, ConstantsAssumption DEF TypeInv, TypeOK, Bounds, Pcs, Exits, Limits,
     records, docker
<1>13. CASE Query
  BY <1>13, ConstantsAssumption, SMTT(30) DEF TypeInv, TypeOK, Bounds, Pcs, Exits, Query,
     Answers, Seqs, records, docker
<1>14. CASE QueryFormatError
  <2>1. conv \in Seq(Obs) /\ calls + 1 \in Nat
    BY <1>14 DEF TypeInv, TypeOK
  <2>2. Boundary(conv, calls + 1) \in Records
    BY <1>14, <2>1, BoundaryType DEF TypeInv
  <2> QED
    BY <1>14, <2>2 DEF TypeInv, TypeOK, Pcs, QueryFormatError, Save, docker
<1>15. CASE QueryError
  BY <1>15, ConstantsAssumption DEF TypeInv, TypeOK, Bounds, Pcs, Exits, QueryError,
     records, docker
<1>16. CASE WritePending
  <2>2. Doc("running", conv, acts, calls, "no") \in Records
    BY <1>16, DocType DEF TypeInv, TypeOK, Exits
  <2> QED
    BY <1>16, <2>2 DEF TypeInv, TypeOK, Pcs, WritePending, Save, docker
<1>17. CASE ProbeMismatch
  <2>0. Len(outs) \in Nat /\ Len(acts) \in Nat /\ seq \in Nat /\ MaxSeq \in Nat
    BY <1>17, ConstantsAssumption DEF TypeInv, TypeOK, Seqs
  <2>1. seq' \in Seqs
    BY <1>17, <2>0 DEF TypeInv, Bounds, ProbeMismatch, Executing, Seqs
  <2> QED
    BY <1>17, <2>1, NoAgentType, NoEnvType DEF TypeInv, TypeOK, Pcs, Exits,
       ProbeMismatch, docker
<1>18. CASE ProbeUnstarted
  BY <1>18, ConstantsAssumption DEF TypeInv, TypeOK, Bounds, Pcs, Exits,
     ProbeUnstarted, Executing, Seqs, records, docker
<1>19. CASE ProbeStarted
  BY <1>19, ConstantsAssumption DEF TypeInv, TypeOK, Bounds, Pcs, Exits,
     ProbeStarted, Executing, Seqs, records, docker
<1>20. CASE WriteCmd
  <2>1. Current \in Cmd /\ seq \in Slots /\ cur \in Cid
    BY <1>20, ConstantsAssumption DEF TypeInv, TypeOK, Bounds, WriteCmd, Current,
       Slots, Seqs
  <2>2. slot' \in [Cid -> [Slots -> SlotStates]]
    BY <1>20, <2>1, SlotUpdate DEF WriteCmd, SlotStates, TypeInv
  <2> QED
    BY <1>20, <2>2 DEF TypeInv, TypeOK, Pcs, WriteCmd, records
<1>21. CASE Launch
  <2>1. seq \in Slots /\ cur \in Cid
    BY <1>21, ConstantsAssumption DEF TypeInv, TypeOK, Bounds, Launch, Slots, Seqs
  <2>4. slot' \in [Cid -> [Slots -> SlotStates]]
    BY <1>21, <2>1, StateUpdate DEF TypeInv, Launch
  <2>5. marker' \in [Cid -> Seqs]
    BY <1>21, <2>1 DEF TypeInv, TypeOK, Launch
  <2> QED
    BY <1>21, <2>4, <2>5 DEF TypeInv, TypeOK, Pcs, Exits, Launch, records
<1>22. CASE IssueFails
  BY <1>22, ConstantsAssumption DEF TypeInv, TypeOK, Bounds, Pcs, Exits, IssueFails,
     records, docker
<1>23. CASE ExecuteMarker
  <2>1. Current \in Cmd /\ seq + 1 \in Slots /\ cur \in Cid /\ seq + 1 \in Seqs
    BY <1>23, ConstantsAssumption DEF TypeInv, TypeOK, Bounds, ExecuteMarker,
       Executing, Current, Slots, Seqs
  <2>2. slot' \in [Cid -> [Slots -> SlotStates]]
    BY <1>23, <2>1, SlotUpdate DEF ExecuteMarker, SlotStates, TypeInv
  <2>3. ran' \in [Cid -> [Slots -> Nat]] /\ marker' \in [Cid -> Seqs]
    BY <1>23, <2>1 DEF ExecuteMarker, TypeInv, TypeOK
  <2> QED
    BY <1>23, <2>1, <2>2, <2>3 DEF TypeInv, TypeOK, Pcs, ExecuteMarker, records
<1>24. CASE ExecuteMarkerGone
  BY <1>24, ConstantsAssumption DEF TypeInv, TypeOK, Bounds, Pcs, Exits,
     ExecuteMarkerGone, Executing, Current, Seqs, Obs, records, docker
<1>25. CASE WaitFinished
  <2>1. Current \in Cmd 
    BY <1>25, CurrentType DEF WaitFinished
  <2>2. [cmd |-> Current, out |-> "done"] \in Obs
    BY <1>25, <2>1 DEF Obs
  <2>3. Append(outs, [cmd |-> Current, out |-> "done"]) \in Seq(Obs)
    BY <1>25, <2>2 DEF TypeInv, TypeOK
  <2>4. CASE Current \in SubmitCmd
    BY <1>25, <2>4 DEF TypeInv, TypeOK, Pcs, Exits, WaitFinished, docker, records
  <2>5. CASE Current \notin SubmitCmd
    BY <1>25, <2>3, <2>5 DEF TypeInv, TypeOK, Pcs, Exits, WaitFinished, docker, records
  <2> QED
    BY <1>25, <2>4, <2>5
<1>26. CASE WaitTimeout
  BY <1>26, ConstantsAssumption DEF TypeInv, TypeOK, Bounds, Pcs, Exits,
     WaitTimeout, Current, Obs, records, docker
<1>27. CASE WaitGone
  BY <1>27, ConstantsAssumption DEF TypeInv, TypeOK, Bounds, Pcs, Exits, WaitGone,
     Current, Obs, records, docker
<1>28. CASE EndIteration
  <2>1. conv \o outs \in Seq(Obs)  /\ calls \in Nat
    BY <1>28 DEF TypeInv, TypeOK
  <2>2. Boundary(conv \o outs, calls) \in Records
    BY <1>28, <2>1, BoundaryType DEF TypeInv
  <2> QED
    BY <1>28, <2>1, <2>2 DEF TypeInv, TypeOK, Pcs, EndIteration, Save, docker
<1>29. CASE EndLoop
  <2>1. "done" \in {"none", "running", "done"} /\ <<>> \in Seq(Cmd) /\ exit \in Exits /\
        conv \in Seq(Obs) /\ calls \in Nat
    BY <1>29 DEF TypeInv, TypeOK
  <2>2. Doc("done", conv, <<>>, calls, exit) \in Records
    BY <1>29, <2>1, DocType DEF TypeInv
  <2> QED
    BY <1>29, <2>2 DEF TypeInv, TypeOK, Pcs, EndLoop, Save, docker
<1>30. CASE Release
  BY <1>30, ConstantsAssumption DEF TypeInv, TypeOK, Bounds, Pcs, Exits, Release,
     records, docker
<1>31. CASE Complete
  BY <1>31, ConstantsAssumption, SMTT(30) DEF TypeInv, TypeOK, Bounds, Pcs, Exits, Complete,
     NoEnv, NoAgent, Records, Seqs, records, docker
<1>32. CASE Crash
  <2>1. <<>> \in Seq(Obs) /\ <<>> \in Seq(Cmd) /\ 0 \in Seqs /\ "down" \in Pcs /\ "no" \in
        Exits
    BY <1>32, ConstantsAssumption DEF Pcs, Exits, Seqs
  <2> QED
    BY <1>32, <2>1 DEF TypeInv, TypeOK, Crash, records, docker
<1>33. CASE ExpiredRecords
  BY <1>33, NoAgentType, NoEnvType DEF TypeInv, TypeOK, Pcs, ExpiredRecords, docker
<1>34. CASE BootFails
  BY <1>34 DEF TypeInv, TypeOK, Pcs, Exits, BootFails, records, docker
<1> QED
  BY <1>1, <1>2, <1>3, <1>4, <1>5, <1>6, <1>7, <1>8, <1>9, <1>10, <1>11,
     <1>12, <1>13, <1>14, <1>15, <1>16, <1>17, <1>18, <1>19, <1>20, <1>21,
     <1>22, <1>23, <1>24, <1>25, <1>26, <1>27, <1>28, <1>29, <1>30, <1>31,
     <1>32, <1>33, <1>34 DEF Environment, Loop

\* A step of the process, or its death, keeps the numbering within bounds.
LEMMA BoundsStep == TypeInv /\ (Environment \/ Loop \/ Crash) => Bounds'
<1> SUFFICES ASSUME TypeInv, Environment \/ Loop \/ Crash PROVE Bounds'
  OBVIOUS
<1>1. CASE StartProcess
  BY <1>1, ConstantsAssumption DEF TypeInv, TypeOK, Bounds, StartProcess, records,
     docker
<1>2. CASE Attach
  BY <1>2, ConstantsAssumption DEF TypeInv, TypeOK, Bounds, Attach, records, docker
<1>3. CASE Unusable
  BY <1>3, ConstantsAssumption DEF TypeInv, TypeOK, Bounds, Unusable,
     SeesUnfinished, NoEnv, NoAgent, records, docker
<1>4. CASE NoEnvRecord
  BY <1>4, ConstantsAssumption DEF TypeInv, TypeOK, Bounds, NoEnvRecord, records, docker
<1>5. CASE StartContainer
  BY <1>5, ConstantsAssumption DEF TypeInv, TypeOK, Bounds, StartContainer, records,
     docker
<1>6. CASE SaveEnv
  BY <1>6, ConstantsAssumption DEF TypeInv, TypeOK, Bounds, SaveEnv, records, docker
<1>7. CASE EnterFresh
  BY <1>7, ConstantsAssumption DEF TypeInv, TypeOK, Bounds, EnterFresh, records, docker
<1>8. CASE EnterReplay
  BY <1>8, ConstantsAssumption DEF TypeInv, TypeOK, Bounds, EnterReplay, records, docker
<1>9. CASE EnterPending
  BY <1>9, ConstantsAssumption DEF TypeInv, TypeOK, Bounds, EnterPending, Restore,
     Records, Seqs, records, docker
<1>10. CASE EnterBoundary
  BY <1>10, ConstantsAssumption DEF TypeInv, TypeOK, Bounds, EnterBoundary, Restore,
     Records, records, docker
<1>11. CASE EnterAborted
  BY <1>11, ConstantsAssumption DEF TypeInv, TypeOK, Bounds, EnterAborted, Restore,
     NoEnv, NoAgent, records, docker
<1>12. CASE Limits
  BY <1>12, ConstantsAssumption DEF TypeInv, TypeOK, Bounds, Limits, records, docker
<1>13. CASE Query
  BY <1>13, ConstantsAssumption DEF TypeInv, TypeOK, Bounds, Query, Answers, Seqs,
     records, docker
<1>14. CASE QueryFormatError
  BY <1>14, ConstantsAssumption DEF TypeInv, TypeOK, Bounds, QueryFormatError, Save,
     Boundary, Doc, Seqs, docker
<1>15. CASE QueryError
  BY <1>15, ConstantsAssumption DEF TypeInv, TypeOK, Bounds, QueryError, records, docker
<1>16. CASE WritePending
  <2>1. Len(outs) \in Nat /\ Len(acts) \in Nat /\ seq \in Nat /\ MaxSeq \in Nat
    BY <1>16, ConstantsAssumption DEF TypeInv, TypeOK, Seqs
  <2>2. seq + Len(acts) <= MaxSeq
    BY <1>16, <2>1 DEF TypeInv, Bounds, WritePending
  <2>3. agRec'.seq + Len(agRec'.pend) <= MaxSeq
    BY <1>16, <2>1, <2>2 DEF WritePending, Save, Doc, TypeInv, Bounds
  <2> QED
    BY <1>16, <2>3 DEF TypeInv, Bounds, WritePending
<1>17. CASE ProbeMismatch
  BY <1>17, ConstantsAssumption DEF TypeInv, TypeOK, Bounds, ProbeMismatch,
     Executing, Seqs, NoEnv, NoAgent, records, docker
<1>18. CASE ProbeUnstarted
  BY <1>18, ConstantsAssumption, SMTT(30) DEF TypeInv, TypeOK, Bounds, ProbeUnstarted,
     Executing, Seqs, records, docker
<1>19. CASE ProbeStarted
  BY <1>19, ConstantsAssumption DEF TypeInv, TypeOK, Bounds, ProbeStarted,
     Executing, Seqs, records, docker
<1>20. CASE WriteCmd
  BY <1>20, ConstantsAssumption DEF TypeInv, TypeOK, Bounds, WriteCmd, records, docker
<1>21. CASE Launch
  BY <1>21, ConstantsAssumption DEF TypeInv, TypeOK, Bounds, Launch, records, docker
<1>22. CASE IssueFails
  BY <1>22, ConstantsAssumption DEF TypeInv, TypeOK, Bounds, IssueFails, records, docker
<1>23. CASE ExecuteMarker
  BY <1>23, ConstantsAssumption DEF TypeInv, TypeOK, Bounds, ExecuteMarker,
     Executing, Seqs, records, docker
<1>24. CASE ExecuteMarkerGone
  BY <1>24, ConstantsAssumption DEF TypeInv, TypeOK, Bounds, ExecuteMarkerGone,
     Executing, Seqs, records, docker
<1>25. CASE WaitFinished
  BY <1>25, ConstantsAssumption, SMTT(30) DEF TypeInv, TypeOK, Bounds, WaitFinished, Seqs,
     records, docker
<1>26. CASE WaitTimeout
  BY <1>26, ConstantsAssumption DEF TypeInv, TypeOK, Bounds, WaitTimeout, Seqs,
     records, docker
<1>27. CASE WaitGone
  BY <1>27, ConstantsAssumption DEF TypeInv, TypeOK, Bounds, WaitGone, Seqs,
     records, docker
<1>28. CASE EndIteration
  BY <1>28, ConstantsAssumption DEF TypeInv, TypeOK, Bounds, EndIteration, Save,
     Boundary, Doc, Seqs, docker
<1>29. CASE EndLoop
  BY <1>29, ConstantsAssumption DEF TypeInv, TypeOK, Bounds, EndLoop, Save, Doc, Seqs
<1>30. CASE Release
  BY <1>30, ConstantsAssumption DEF TypeInv, TypeOK, Bounds, Release, records, docker
<1>31. CASE Complete
  BY <1>31, ConstantsAssumption DEF TypeInv, TypeOK, Bounds, Complete, NoEnv,
     NoAgent, records, docker
<1>32. CASE Crash
  BY <1>32, ConstantsAssumption DEF TypeInv, TypeOK, Bounds, Crash, records, docker
<1>33. CASE ExpiredRecords
  BY <1>33, ConstantsAssumption, NoAgentType DEF TypeInv, Bounds, ExpiredRecords
<1>34. CASE BootFails
  BY <1>34 DEF TypeInv, Bounds, BootFails, records
<1> QED
  BY <1>1, <1>2, <1>3, <1>4, <1>5, <1>6, <1>7, <1>8, <1>9, <1>10, <1>11,
     <1>12, <1>13, <1>14, <1>15, <1>16, <1>17, <1>18, <1>19, <1>20, <1>21,
     <1>22, <1>23, <1>24, <1>25, <1>26, <1>27, <1>28, <1>29, <1>30, <1>31,
     <1>32, <1>33, <1>34 DEF Environment, Loop

\* The container's own steps touch neither the process nor the store.
LEMMA ContainerTypes == TypeInv /\ Container => TypeInv'
<1> SUFFICES ASSUME TypeInv, Container PROVE TypeInv'
  OBVIOUS
<1> PICK c \in Cid : ContainerDies(c) \/ \E n \in Slots : Detach(c, n) \/ Finish(c, n)
  BY DEF Container
<1>1. CASE ContainerDies(c)
  BY <1>1 DEF TypeInv, TypeOK, Bounds, ContainerDies, worker, records
<1>2. ASSUME NEW n \in Slots, Detach(c, n) PROVE TypeInv'
  <2>1. slot' \in [Cid -> [Slots -> SlotStates]]
    BY <1>2, StateUpdate DEF TypeInv, Detach
  <2>2. ran' \in [Cid -> [Slots -> Nat]]
    BY <1>2 DEF TypeInv, TypeOK, Detach
  <2> QED
    BY <1>2, <2>1, <2>2 DEF TypeInv, TypeOK, Bounds, Detach, worker, records
<1>3. ASSUME NEW n \in Slots, Finish(c, n) PROVE TypeInv'
  <2>1. slot' \in [Cid -> [Slots -> SlotStates]]
    BY <1>3, StateUpdate DEF TypeInv, Finish
  <2> QED
    BY <1>3, <2>1 DEF TypeInv, TypeOK, Bounds, Finish, worker, records
<1> QED
  BY <1>1, <1>2, <1>3

\* Initially nothing is recorded and no container exists.
LEMMA TypeInit == Init => TypeInv
<1> SUFFICES ASSUME Init PROVE TypeInv
  OBVIOUS
<1>1. slot \in [Cid -> [Slots -> SlotStates]]
  BY DEF Init, Absent, SlotStates
<1>2. <<>> \in Seq(Obs) /\ <<>> \in Seq(Cmd) /\ 0 \in Seqs /\ "no" \in Exits /\ "down" \in
      Pcs
  BY ConstantsAssumption DEF Seqs, Exits, Pcs
<1>3. TypeOK
  BY <1>1, <1>2, NoAgentType, NoEnvType DEF TypeOK, Init
<1>4. Bounds
  BY ConstantsAssumption, NoAgentType DEF Bounds, Init
<1> QED
  BY <1>3, <1>4 DEF TypeInv

\* The inductive step.
LEMMA TypeStep == TypeInv /\ [Next]_vars => TypeInv'
<1> SUFFICES ASSUME TypeInv, [Next]_vars PROVE TypeInv'
  OBVIOUS
<1>1. CASE Environment \/ Loop \/ Crash
  BY <1>1, TypeOKStep, BoundsStep DEF TypeInv
<1>2. CASE Container
  BY <1>2, ContainerTypes
<1>3. CASE UNCHANGED vars
  BY <1>3 DEF TypeInv, TypeOK, Bounds, vars, worker, records, docker
<1> QED
  BY <1>1, <1>2, <1>3 DEF Next, Terminated

\* Whatever is killed, lost or unreadable, the worker, the step records and the
\* ledger stay within their types: command numbers never leave 0..MaxSeq, and a
\* restored record can always be executed.
THEOREM TypeCorrect == Spec => []TypeOK
<1>1. TypeInv => TypeOK
  BY DEF TypeInv
<1> QED
  BY <1>1, TypeInit, TypeStep, PTL DEF Spec

\* The same for the whole inductive invariant, which the ledger proofs need.
THEOREM TypeInvariant == Spec => []TypeInv
  BY TypeInit, TypeStep, PTL DEF Spec

=============================================================================
