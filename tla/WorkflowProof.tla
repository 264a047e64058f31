---------------------------- MODULE WorkflowProof ----------------------------
(***************************************************************************)
(* Theorems about Workflow, for every set of patches and deployments, every *)
(* retry cap and budget, and any number of kills and failed calls.          *)
(***************************************************************************)
EXTENDS Workflow, TLAPS

\* What the routes guarantee of the state at a node.
Position ==
    /\ pc \in {"create_fix_branch", "apply_change_and_test"} => st.llm_result # NoPatch
    /\ pc \in {"apply_change_and_test", "code_review", "commit_change", "wait_ci_result",
              "create_mr"} => st.fix_branch_name # NoName
    /\ pc \in {"code_review", "commit_change"} \/ conf.scm = "local" => clone # NoClone

\* A verdict in the worker's inbox.
Verdicts == [push : Push, status : {"success", "failed"}]

-----------------------------------------------------------------------------
(* Updates of the state and of the working copy that stay in their types.   *)

LEMMA FlagUpdates ==
    ASSUME NEW s \in State, NEW b \in BOOLEAN, NEW p \in Patches \cup {NoPatch}
    PROVE  /\ [s EXCEPT !.already_fixed = b] \in State
           /\ [s EXCEPT !.error = b] \in State
           /\ [s EXCEPT !.llm_result = p] \in State
           /\ [s EXCEPT !.llm_result = p, !.error = b] \in State
           /\ [s EXCEPT !.code_review_status = "recorded"] \in State
           /\ [s EXCEPT !.code_review_status = "recorded", !.code_review_note = b] \in State
           /\ [s EXCEPT !.test_passed = TRUE, !.apply_error = FALSE, !.test_output = TRUE] \in State
           /\ [s EXCEPT !.test_passed = FALSE, !.apply_error = TRUE, !.test_output = TRUE,
                        !.error = TRUE] \in State
  BY ZenonT(40) DEF State

LEMMA CounterUpdates ==
    ASSUME NEW s \in State
    PROVE  /\ [s EXCEPT !.fix_retry_count = 0] \in State
           /\ [s EXCEPT !.reflection_note = TRUE, !.reflection_count = @ + 1] \in State
           /\ [s EXCEPT !.code_review_status = "escalated", !.code_review_rounds = @ + 1,
                        !.code_review_note = TRUE] \in State
  <1>1. s.reflection_count + 1 \in Nat /\ s.code_review_rounds + 1 \in Nat
    BY DEF State
  <1>2. [s EXCEPT !.fix_retry_count = 0] \in State
    BY DEF State
  <1>3. ASSUME NEW n \in Nat
        PROVE  [s EXCEPT !.reflection_note = TRUE, !.reflection_count = n] \in State
    BY DEF State
  <1>4. ASSUME NEW n \in Nat
        PROVE  [s EXCEPT !.code_review_status = "escalated", !.code_review_rounds = n,
                         !.code_review_note = TRUE] \in State
    BY DEF State
  <1>5. QED
    BY <1>1, <1>2, <1>3, <1>4

LEMMA VerdictUpdates ==
    ASSUME NEW s \in State, NEW v \in {"none", "success", "failed", "timeout"}
    PROVE  [s EXCEPT !.ci_status = v] \in State
  BY DEF State

LEMMA BranchUpdates ==
    ASSUME NEW s \in State, NEW n \in Names, NEW b \in BOOLEAN
    PROVE  /\ [s EXCEPT !.fix_branch_name = n] \in State
           /\ [s EXCEPT !.fix_branch_name = n, !.already_fixed = b] \in State
  BY DEF State

LEMMA ResultUpdates ==
    ASSUME NEW s \in State, NEW p \in Patches \cup {NoPatch}, NEW n \in Nat
    PROVE  [s EXCEPT !.llm_result = p, !.no_fix_retry_count = n, !.test_passed = FALSE,
                     !.test_output = FALSE, !.apply_error = FALSE] \in State
  BY DEF State

LEMMA FailureUpdates ==
    ASSUME NEW s \in State, NEW b \in BOOLEAN, NEW n \in Nat
    PROVE  [s EXCEPT !.test_passed = FALSE, !.apply_error = b, !.test_output = TRUE,
                     !.fix_retry_count = n] \in State
  BY DEF State

LEMMA CloneTypes ==
    ASSUME TypeOK
    PROVE  /\ Cloned \in Clone /\ RepoReady \in Clone
           /\ Kept(clone) = NoClone \/ Kept(clone) \in Clone
  BY DEF TypeOK, Clone, Cloned, RepoReady, Kept

\* ReactExit, Reflected and FailsWith lead to a state.
LEMMA ReactExitType ==
    ASSUME TypeOK, NEW p \in Patches \cup {NoPatch}, ReactExit(p)
    PROVE  st' \in State
  <1>1. (IF p = NoPatch THEN st.no_fix_retry_count + 1 ELSE st.no_fix_retry_count) \in Nat
    BY DEF TypeOK, State
  <1>2. QED
    BY <1>1, ResultUpdates DEF ReactExit, TypeOK

LEMMA ReflectedType ==
    ASSUME TypeOK, NEW s \in State, Reflected(s)
    PROVE  st' \in State /\ calls' \in Nat
  <1>1. calls' \in Nat
    BY DEF Reflected, TypeOK
  <1>2. st' \in {s, [s EXCEPT !.reflection_note = TRUE, !.reflection_count = @ + 1]}
    BY DEF Reflected
  <1>3. QED
    BY <1>1, <1>2, CounterUpdates

LEMMA FailsWithType ==
    ASSUME TypeOK, NEW e \in BOOLEAN, NEW k \in BOOLEAN, FailsWith(e, k)
    PROVE  st' \in State /\ calls' \in Nat
  <1>1. (IF k THEN st.fix_retry_count + 1 ELSE st.fix_retry_count) \in Nat
    BY DEF TypeOK, State
  <1>2. QED
    BY <1>1, FailureUpdates, ReflectedType DEF FailsWith, TypeOK

LEMMA PatchedType ==
    ASSUME TypeOK, st.llm_result # NoPatch
    PROVE  Patched \in Clone
  BY CloneTypes DEF Patched, Clone, Trees, TypeOK, State

LEMMA QueueTypes ==
    ASSUME NEW S, NEW q \in Seq(S), NEW e \in S
    PROVE  /\ q # <<>> => Head(q) \in S /\ Tail(q) \in Seq(S)
           /\ Append(q, e) \in Seq(S)
  OBVIOUS

LEMMA MovedType ==
    ASSUME NEW v \in Names
    PROVE  Moved(v) \in Names
  BY BoundsAssumption DEF Moved, Names

LEMMA CommitClone ==
    ASSUME TypeOK, Position, CommitChange
    PROVE  clone' \in Clone
  <1>1. CASE GitlabCommit
    BY <1>1, CloneTypes DEF GitlabCommit, Clone
  <1>2. CASE LocalCommit
    <2>1. clone \in Clone
      BY <1>2 DEF LocalCommit, TypeOK, Position
    <2>2. Moved(clone.ver) \in Names
      BY <2>1, MovedType DEF Clone
    <2>3. clone.ver > 0 => Reset(clone) \in Clone
      <3>1. clone.ver > 0 => clone.ver - 1 \in Names
        BY <2>1, BoundsAssumption DEF Clone, Names
      <3>2. {} \in Trees
        BY DEF Trees
      <3>3. ASSUME NEW v \in Names
            PROVE  [clone EXCEPT !.ver = v, !.head = {}, !.tree = {}] \in Clone
        BY <2>1, <3>2 DEF Clone
      <3>4. QED
        BY <3>1, <3>3 DEF Reset
    <2>4. clone.ver > 0 => [Reset(clone) EXCEPT !.ver = Moved(@)] \in Clone
      <3>1. ASSUME NEW c \in Clone, NEW v \in Names
            PROVE  [c EXCEPT !.ver = v] \in Clone /\ c.ver \in Names
        BY DEF Clone
      <3>2. SUFFICES ASSUME Reset(clone) \in Clone
                     PROVE  [Reset(clone) EXCEPT !.ver = Moved(Reset(clone).ver)] \in Clone
        BY <2>3
      <3>3. Moved(Reset(clone).ver) \in Names
        BY <3>1, <3>2, MovedType DEF Clone
      <3>4. QED
        BY <3>1, <3>2, <3>3
    <2>5. [clone EXCEPT !.head = clone.tree, !.ver = Moved(@)] \in Clone
      BY <2>1, <2>2 DEF Clone
    <2>6. QED
      BY <1>2, <2>1, <2>3, <2>4, <2>5 DEF LocalCommit
  <1>3. CASE PlainCommit
    BY <1>3, CloneTypes DEF PlainCommit
  <1>4. QED
    BY <1>1, <1>2, <1>3 DEF CommitChange

-----------------------------------------------------------------------------
(* Type correctness, with what the routes guarantee.                        *)

LEMMA TypeInit == Init => TypeOK /\ Position
  <1> SUFFICES ASSUME Init PROVE TypeOK /\ Position
    OBVIOUS
  <1> USE BoundsAssumption, ConfsAssumption DEF Init
  <1>1. conf \in Conf /\ conf.depth \in Names
    OBVIOUS
  <1>2. st \in State
    BY DEF State, Blank
  <1>3. base \in [ver : Names, tree : Trees]
    BY <1>1 DEF Trees
  <1>4. Cloned \in Clone
    BY <1>3 DEF Cloned, Clone
  <1>5. clone = NoClone \/ clone \in Clone
    BY <1>4 DEF Kept
  <1>6. Position
    BY <1>4, AbsentAssumption DEF Position, Kept
  <1>7. QED
    BY <1>1, <1>2, <1>3, <1>5, <1>6 DEF TypeOK, Nodes

LEMMA TypeStep ==
    ASSUME TypeOK, Position, [Next]_vars
    PROVE  TypeOK'
  <1> USE BoundsAssumption, AbsentAssumption
  <1>a. Cloned \in Clone /\ RepoReady \in Clone
    BY CloneTypes
  <1>b. Kept(clone) = NoClone \/ Kept(clone) \in Clone
    BY CloneTypes
  <1>c. conf.scm = "local" => clone \in Clone
    BY DEF TypeOK, Position
  <1>d. inbox \in Seq(Verdicts)
    BY DEF TypeOK, Verdicts
  <1>1. CASE Preflight
    BY <1>1 DEF Preflight, Fine, OneMoreFault, Goto, TypeOK, server, hist, Nodes
  <1>2. CASE PrecheckAlreadyFixed
    <2>1. (st.already_fixed \/ (conf.token # "dead" /\ MergedSomewhere)) \in BOOLEAN
      BY DEF TypeOK, State
    <2>2. st' \in State
      BY <1>2, <2>1, FlagUpdates DEF PrecheckAlreadyFixed, TypeOK
    <2>3. QED
      BY <1>2, <2>2, SMTT(30) DEF PrecheckAlreadyFixed, Fine, OneMoreFault, Goto, RouteAfterPrecheck,
         TypeOK, server, hist, Nodes
  <1>3. CASE FetchTrace
    BY <1>3, <1>a DEF FetchTrace, GitlabTrace, LocalTrace, Interrupted, Fails, Fine, Raise,
       OneMoreFault, Goto, RouteAfterFetchTrace, TypeOK, server, hist, Nodes
  <1>4. CASE ParseTrace \/ FetchSourceFile
    BY <1>4 DEF ParseTrace, FetchSourceFile, Raise, Goto, RouteAfterParse, TypeOK, server,
       hist, Nodes
  <1>5. CASE MiniReactLoop
    <2>1. st' \in State
      <3>1. st \in State
        BY DEF TypeOK
      <3>2. \E p \in Patches \cup {NoPatch} :
               st' \in {[st EXCEPT !.llm_result = p],
                       [st EXCEPT !.llm_result = p, !.error = TRUE]}
        BY <1>5 DEF MiniReactLoop
      <3>3. QED
        BY <3>1, <3>2, FlagUpdates
    <2>2. QED
      BY <1>5, <2>1, SMTT(30) DEF MiniReactLoop, Fine, OneMoreFault, Goto, RouteAfterMini, TypeOK,
         server, hist, Nodes
  <1>6. CASE ReactStart
    <2>1. prompt' \subseteq {"reflection", "code_review", "prior_patch", "apply_error",
                            "test_output"}
      BY <1>6, Zenon DEF ReactStart, RetryFeedback
    <2>2. QED
      BY <1>6, <2>1 DEF ReactStart, Goto, TypeOK, server, hist, Nodes
  <1>7. CASE ReactCall
    <2>1. CASE GoesOn \/ FetchTool
      <3>1. steps' \in 0..MaxSteps /\ calls' \in Nat
        BY <1>7, <2>1 DEF ReactCall, GoesOn, FetchTool, TypeOK
      <3>2. pc' \in Nodes \cup {"done"} /\ outcome' \in {outcome, "error"} /\ UNCHANGED <<st, prompt>>
        BY <1>7, <2>1 DEF ReactCall, GoesOn, FetchTool, Raise, Goto, Nodes
      <3>3. QED
        BY <1>7, <3>1, <3>2 DEF ReactCall, TypeOK, server, hist
    <2>2. ASSUME NEW p \in Patches \cup {NoPatch}, ReactExit(p)
          PROVE  TypeOK'
      <3>1. st' \in State
        BY <2>2, ReactExitType
      <3>2. QED
        BY <1>7, <2>2, <3>1 DEF ReactCall, ReactExit, RouteAfterReact, Goto, TypeOK, server,
           hist, Nodes
    <2>3. QED
      BY <1>7, <2>1, <2>2 DEF ReactCall, Answered
  <1>8. CASE ReactCallFails
    BY <1>8 DEF ReactCallFails, Fails, Raise, OneMoreFault, TypeOK, server, hist, Nodes
  <1>9. CASE ReactStop
    <2>1. st' \in State
      BY <1>9, ReactExitType DEF ReactStop
    <2>2. QED
      BY <1>9, <2>1 DEF ReactStop, ReactExit, RouteAfterReact, Goto, TypeOK, server, hist, Nodes
  <1>10. CASE CreateFixBranch
    <2>1. BranchName \in Names
      BY <1>c, SMTT(30) DEF BranchName, TypeOK, Names, Clone, Conf
    <2>2. st' \in State
      <3>1. CASE UNCHANGED st
        BY <3>1 DEF TypeOK
      <3>2. CASE CutLocalBranch
        BY <3>2, <2>1, BranchUpdates DEF CutLocalBranch, TypeOK
      <3>3. ASSUME NEW f \in BOOLEAN, CutBranch(f)
            PROVE  st' \in State
        <4>1. (st.already_fixed \/ (f /\ remote[BranchName] # NoTree
                                     /\ FoundMR(BranchName) = "merged")) \in BOOLEAN
          BY DEF TypeOK, State
        <4>2. QED
          BY <3>3, <4>1, <2>1, BranchUpdates DEF CutBranch, TypeOK
      <3>4. QED
        BY <1>10, <3>1, <3>2, <3>3 DEF CreateFixBranch, ReuseBranch
    <2>3. clone' = NoClone \/ clone' \in Clone
      <3>1. CASE UNCHANGED clone
        BY <3>1 DEF TypeOK
      <3>2. CASE CutLocalBranch
        BY <3>2, <2>1, <1>a, <1>c DEF CutLocalBranch, Clone
      <3>3. ASSUME NEW f \in BOOLEAN, CutBranch(f)
            PROVE  clone' \in Clone
        BY <3>3, <2>1, <1>a DEF CutBranch, Clone
      <3>4. CASE st.fix_branch_name # NoName /\ ReuseBranch(st.fix_branch_name)
        <4>1. st.fix_branch_name \in Names
          BY <3>4 DEF TypeOK, State
        <4>2. remote[st.fix_branch_name] # NoTree => remote[st.fix_branch_name] \in Trees
          BY <4>1 DEF TypeOK
        <4>3. QED
          BY <3>4, <4>1, <4>2, <1>a, <1>c DEF ReuseBranch, Clone
      <3>5. QED
        BY <1>10, <3>1, <3>2, <3>3, <3>4 DEF CreateFixBranch
    <2>4. /\ pc' \in Nodes \cup {"done"} /\ outcome' \in {outcome, "error"}
          /\ faults' \in 0..MaxFaults
      <3>1. (Goto(RouteAfterBranch(st')) \/ Raise) /\ (Fine \/ OneMoreFault)
        BY <1>10 DEF CreateFixBranch, Fails
      <3>2. QED
        BY <3>1 DEF Fine, OneMoreFault, Raise, Goto, RouteAfterBranch, TypeOK, Nodes
    <2>5. QED
      BY <1>10, <2>2, <2>3, <2>4 DEF CreateFixBranch, TypeOK, server, hist
  <1>11. CASE ApplyChangeAndTest
    <2>1. Patched \in Clone
      BY <1>11, PatchedType DEF ApplyChangeAndTest, Position
    <2>2. clone' \in Clone
      BY <1>11, <1>a, <2>1 DEF ApplyChangeAndTest, PatchAndTest, PathMissing, OutOfScope,
         AnchorMissing, WriteFails, RunTests, ApplyModelPatch, Patched
    <2>3. st' \in State /\ calls' \in Nat /\ tested' \in SUBSET Trees /\ green' = green
      <3>1. CASE UNCHANGED <<st, calls, hist>>
        BY <3>1 DEF TypeOK, hist
      <3>2. ASSUME NEW e \in BOOLEAN, NEW k \in BOOLEAN, FailsWith(e, k)
            PROVE  st' \in State /\ calls' \in Nat /\ UNCHANGED hist
        BY <3>2, FailsWithType DEF FailsWith
      <3>3. CASE Passes(Patched.tree)
        <4>1. Patched.tree \in Trees
          BY <2>1 DEF Clone
        <4>2. st' \in State
          BY <3>3, FlagUpdates DEF Passes, TypeOK
        <4>3. QED
          BY <3>3, <4>1, <4>2 DEF Passes, TypeOK
      <3>4. CASE PatchAndTest
        BY <3>2, <3>3, <3>4 DEF PatchAndTest, PathMissing, OutOfScope, AnchorMissing,
           WriteFails, RunTests, hist, TypeOK
      <3>5. CASE ApplyModelPatch
        <4>1. CASE Passes(clone'.tree) /\ clone' = Patched
          BY <3>3, <4>1
        <4>2. CASE UNCHANGED hist /\ Reflected([st EXCEPT !.test_passed = FALSE,
                     !.apply_error = TRUE, !.test_output = TRUE, !.error = TRUE])
          <5>1. [st EXCEPT !.test_passed = FALSE, !.apply_error = TRUE,
                           !.test_output = TRUE, !.error = TRUE] \in State
            BY FlagUpdates DEF TypeOK
          <5>2. QED
            BY <4>2, <5>1, ReflectedType DEF hist, TypeOK
        <4>3. QED
          BY <3>5, <4>1, <4>2 DEF ApplyModelPatch, Patched
      <3>6. QED
        BY <1>11, <3>1, <3>4, <3>5 DEF ApplyChangeAndTest
    <2>4. /\ pc' \in Nodes \cup {"done"} /\ outcome' \in {outcome, "error"}
          /\ faults' \in 0..MaxFaults
      <3>1. (Goto(RouteAfterApply(st')) \/ Raise) /\ (Fine \/ OneMoreFault)
        BY <1>11 DEF ApplyChangeAndTest, Fails
      <3>2. QED
        BY <3>1, SMTT(30) DEF Fine, OneMoreFault, Raise, Goto, RouteAfterApply, TypeOK, Nodes
    <2>5. QED
      BY <1>11, <2>2, <2>3, <2>4 DEF ApplyChangeAndTest, TypeOK, server
  <1>12. CASE CodeReview
    <2>1. st \in State
      BY DEF TypeOK
    <2>2. st' \in State
      BY <1>12, <2>1, FlagUpdates, CounterUpdates, ZenonT(40) DEF CodeReview, Escalates, Records
    <2>3. calls' \in Nat
      BY <1>12, SMTT(30) DEF CodeReview, Escalates, Records, TypeOK
    <2>4. QED
      BY <1>12, <2>2, <2>3 DEF CodeReview, RouteAfterReview, Goto, TypeOK, server, hist, Nodes
  <1>13. CASE CommitChange
    <2>1. clone' \in Clone
      BY <1>13, CommitClone
    <2>2. /\ base' \in [ver : Names, tree : Trees] /\ remote' \in [Names -> {NoTree} \cup Trees]
          /\ pipelines' \subseteq Push /\ mr' = mr
      <3>1. CASE UNCHANGED server
        BY <3>1 DEF server, TypeOK
      <3>2. CASE PushHead /\ GitlabCommit
        <4>1. clone \in Clone
          BY <1>13 DEF CommitChange, Position, TypeOK
        <4>2. clone.tree \in Trees /\ clone.branch \in Names \cup {BaseBranch}
          BY <4>1 DEF Clone
        <4>3. Moved(base.ver) \in Names
          BY MovedType DEF TypeOK
        <4>4. QED
          BY <3>2, <4>2, <4>3 DEF PushHead, TypeOK, Push
      <3>3. CASE PlainCommit
        <4>1. RepoReady.tree \in Trees /\ 0 \in Names
          BY <1>a DEF Clone, Names
        <4>2. QED
          BY <3>3, <4>1 DEF PlainCommit, TypeOK
      <3>4. QED
        BY <1>13, <3>1, <3>2, <3>3 DEF CommitChange, GitlabCommit, LocalCommit
    <2>3. /\ pc' \in Nodes \cup {"done"} /\ outcome' \in {outcome, "error"}
          /\ faults' \in 0..MaxFaults
      <3>1. (Goto("wait_ci_result") \/ Raise) /\ (Fine \/ OneMoreFault)
        BY <1>13 DEF CommitChange, GitlabCommit, LocalCommit, PlainCommit, Fails, Interrupted
      <3>2. QED
        BY <3>1 DEF Fine, OneMoreFault, Raise, Goto, TypeOK, Nodes
    <2>4. QED
      BY <1>13, <2>1, <2>2, <2>3 DEF CommitChange, TypeOK, hist
  <1>14. CASE SkipCI \/ WaitCIResult \/ WaitTimesOut
    <2>1. inbox # <<>> => Head(inbox).status \in {"success", "failed"} /\ Tail(inbox) \in
                              Seq(Verdicts)
      <3>1. inbox # <<>> => /\ Head(inbox) \in Verdicts
                            /\ Tail(inbox) \in Seq(Verdicts)
        BY <1>d, QueueTypes
      <3>2. QED
        BY <3>1 DEF Verdicts
    <2>2. st' \in State
      BY <1>14, <2>1, VerdictUpdates DEF SkipCI, WaitCIResult, WaitTimesOut, TypeOK
    <2>3. inbox' \in Seq(Verdicts)
      BY <1>d, <1>14, <2>1 DEF SkipCI, WaitCIResult, WaitTimesOut
    <2>4. faults' \in 0..MaxFaults /\ Goto(RouteAfterCI(st'))
      BY <1>14, SMTT(30) DEF SkipCI, WaitCIResult, WaitTimesOut, Fine, OneMoreFault, TypeOK
    <2>5. QED
      BY <1>14, <2>2, <2>3, <2>4 DEF SkipCI, WaitCIResult, WaitTimesOut, RouteAfterCI, Goto, Verdicts,
         TypeOK, server, hist, Nodes
  <1>15. CASE CreateMR
    <2>1. mr' \in [Names -> {"none", "opened", "merged", "closed"}]
      BY <1>15 DEF CreateMR, PostMR, TypeOK
    <2>2. (Goto("END") \/ Raise) /\ (Fine \/ OneMoreFault)
      BY <1>15 DEF CreateMR, Interrupted, Fails
    <2>3. faults' \in 0..MaxFaults
      BY <2>2 DEF Fine, OneMoreFault, TypeOK
    <2>4. pc' \in Nodes \cup {"done"} /\ outcome' \in {outcome, "error"}
      BY <2>2 DEF Goto, Raise, Nodes
    <2>5. QED
      BY <1>15, <2>1, <2>3, <2>4 DEF CreateMR, TypeOK, hist
  <1>16. CASE LocalReview
    BY <1>16 DEF LocalReview, Goto, TypeOK, server, hist, Nodes
  <1>17. CASE HandleFailure
    <2>1. st' \in State
      BY <1>17, FlagUpdates DEF HandleFailure, TypeOK
    <2>2. QED
      BY <1>17, <2>1 DEF HandleFailure, Goto, TypeOK, server, hist, Nodes
  <1>18. CASE Finish
    BY <1>18, <1>b DEF Finish, OutcomeOf, TypeOK, server, hist, Nodes
  <1>19. CASE Crash
    BY <1>19, <1>b DEF Crash, TypeOK, server, hist, Nodes
  <1>20. CASE Restart
    <2>1. st' \in State
      <3>1. Blank \in State
        BY DEF Blank, State
      <3>2. QED
        BY <1>20, <3>1, CounterUpdates DEF Restart, Started, TypeOK
    <2>2. QED
      BY <1>20, <2>1 DEF Restart, TypeOK, server, hist, Nodes
  <1>21. CASE PipelineEnds
    <2>1. PICK p \in pipelines, verdict \in {"success", "failed"} :
            /\ pipelines' = pipelines \ {p}
            /\ green' = IF verdict = "success" THEN green \cup {p} ELSE green
            /\ \/ inbox' = Append(inbox, [push |-> p, status |-> verdict]) /\ Fine
               \/ UNCHANGED inbox /\ OneMoreFault
            /\ UNCHANGED <<conf, run, base, remote, mr, crashes, tested>>
      BY <1>21 DEF PipelineEnds
    <2>2. p \in Push
      BY DEF TypeOK
    <2>3. inbox' \in Seq(Verdicts)
      <3>1. [push |-> p, status |-> verdict] \in Verdicts
        BY <2>2 DEF Verdicts
      <3>2. QED
        BY <1>d, <2>1, <3>1, QueueTypes
    <2>4. pipelines' \subseteq Push /\ green' \subseteq Push
      BY <2>1, <2>2 DEF TypeOK
    <2>5. faults' \in 0..MaxFaults
      BY <2>1 DEF Fine, OneMoreFault, TypeOK
    <2>6. QED
      BY <2>1, <2>3, <2>4, <2>5 DEF TypeOK, run, Verdicts
  <1>22. CASE Merge
    <2>1. PICK b \in Names :
            /\ mr[b] = "opened" /\ remote[b] # NoTree
            /\ mr' = [mr EXCEPT ![b] = "merged"]
            /\ base' = [ver |-> Moved(base.ver), tree |-> base.tree \cup remote[b]]
            /\ remote' = [remote EXCEPT ![b] = NoTree]
      BY <1>22 DEF Merge
    <2>2. Moved(base.ver) \in Names
      BY MovedType DEF TypeOK
    <2>3. base' \in [ver : Names, tree : Trees]
      BY <2>1, <2>2 DEF TypeOK, Trees
    <2>4. /\ mr' \in [Names -> {"none", "opened", "merged", "closed"}]
          /\ remote' \in [Names -> {NoTree} \cup Trees]
      BY <2>1 DEF TypeOK
    <2>5. QED
      BY <1>22, <2>3, <2>4 DEF Merge, TypeOK, run, hist
  <1>23. CASE Close
    <2>1. PICK b \in Names : mr' = [mr EXCEPT ![b] = "closed"]
      BY <1>23 DEF Close
    <2>1a. mr' \in [Names -> {"none", "opened", "merged", "closed"}]
      BY <2>1 DEF TypeOK
    <2>2. QED
      BY <1>23, <2>1a DEF Close, TypeOK, run, hist
  <1>24. CASE AcceptPatch
    <2>1. base' \in [ver : Names, tree : Trees]
      <3>1. 0 \in Names /\ remote[0] # NoTree
        BY <1>24 DEF AcceptPatch, Names
      <3>2. remote[0] \in Trees
        BY <3>1 DEF TypeOK
      <3>3. QED
        BY <1>24, <3>2 DEF AcceptPatch, TypeOK
    <2>2. QED
      BY <1>24, <2>1 DEF AcceptPatch, TypeOK, run, hist
  <1>25. CASE UNCHANGED vars
    BY <1>25 DEF vars, TypeOK
  <1> QED
    BY <1>1, <1>2, <1>3, <1>4, <1>5, <1>6, <1>7, <1>8, <1>9, <1>10, <1>11, <1>12, <1>13,
       <1>14, <1>15, <1>16, <1>17, <1>18, <1>19, <1>20, <1>21, <1>22, <1>23, <1>24, <1>25
       DEF Next, WorkerStep

LEMMA RouteTypes ==
    ASSUME NEW s \in State
    PROVE  /\ RouteAfterReact(s) = "create_fix_branch" => s.llm_result # NoPatch
           /\ RouteAfterReact(s) = "apply_change_and_test" =>
                s.llm_result # NoPatch /\ s.fix_branch_name # NoName
           /\ RouteAfterReact(s) \in {"apply_change_and_test", "create_fix_branch",
                                    "react_loop", "handle_failure"}
  BY DEF RouteAfterReact

-----------------------------------------------------------------------------
(* What the steps at the nodes leave alone in the state.                    *)

LEMMA ReflectedFrame ==
    ASSUME NEW s \in State, Reflected(s), calls \in Nat
    PROVE  /\ st'.fix_branch_name = s.fix_branch_name /\ st'.test_passed = s.test_passed
           /\ st'.ci_status = s.ci_status
           /\ calls' = calls \/ (calls' = calls + 1 /\ ~Exhausted)
  <1>1. s.reflection_count + 1 \in Nat
    BY DEF State
  <1>2. ASSUME NEW n \in Nat
        PROVE  LET t == [s EXCEPT !.reflection_note = TRUE, !.reflection_count = n]
               IN  /\ t.fix_branch_name = s.fix_branch_name /\ t.test_passed = s.test_passed
                   /\ t.ci_status = s.ci_status
    BY DEF State
  <1>3. CASE st' = [s EXCEPT !.reflection_note = TRUE, !.reflection_count = @ + 1]
    BY <1>1, <1>2, <1>3 DEF Reflected
  <1>4. CASE st' = s
    BY <1>4 DEF Reflected
  <1>5. QED
    BY <1>3, <1>4 DEF Reflected

LEMMA FailsFrame ==
    ASSUME TypeOK, NEW e \in BOOLEAN, NEW k \in BOOLEAN, FailsWith(e, k)
    PROVE  /\ st'.fix_branch_name = st.fix_branch_name /\ ~st'.test_passed
           /\ st'.ci_status = st.ci_status
           /\ calls' = calls \/ (calls' = calls + 1 /\ ~Exhausted)
  <1> DEFINE n == IF k THEN st.fix_retry_count + 1 ELSE st.fix_retry_count
             t == [st EXCEPT !.test_passed = FALSE, !.apply_error = e, !.test_output = TRUE,
                             !.fix_retry_count = n]
  <1>1. st \in State /\ calls \in Nat
    BY DEF TypeOK
  <1>2. n \in Nat
    BY <1>1 DEF State
  <1>3. Reflected(t)
    BY DEF FailsWith
  <1> HIDE DEF n
  <1>4. t \in State
    BY <1>1, <1>2, FailureUpdates
  <1>5. /\ t.fix_branch_name = st.fix_branch_name /\ ~t.test_passed
        /\ t.ci_status = st.ci_status
    BY <1>1, <1>2 DEF State
  <1> HIDE DEF t
  <1>6. QED
    BY <1>1, <1>3, <1>4, <1>5, ReflectedFrame

LEMMA ModelPatchFrame ==
    ASSUME TypeOK, Reflected([st EXCEPT !.test_passed = FALSE, !.apply_error = TRUE,
                                        !.test_output = TRUE, !.error = TRUE])
    PROVE  /\ st'.fix_branch_name = st.fix_branch_name /\ ~st'.test_passed
           /\ st'.ci_status = st.ci_status
           /\ calls' = calls \/ (calls' = calls + 1 /\ ~Exhausted)
  <1> DEFINE t == [st EXCEPT !.test_passed = FALSE, !.apply_error = TRUE, !.test_output = TRUE,
                             !.error = TRUE]
  <1>1. st \in State /\ calls \in Nat
    BY DEF TypeOK
  <1>2. t \in State
    BY <1>1, FlagUpdates
  <1>3. /\ t.fix_branch_name = st.fix_branch_name /\ ~t.test_passed
        /\ t.ci_status = st.ci_status
    BY <1>1 DEF State
  <1>4. Reflected(t)
    OBVIOUS
  <1> HIDE DEF t
  <1>5. QED
    BY <1>1, <1>2, <1>3, <1>4, ReflectedFrame

LEMMA PassesFrame ==
    ASSUME TypeOK, NEW t, Passes(t)
    PROVE  /\ st'.fix_branch_name = st.fix_branch_name /\ st'.ci_status = st.ci_status
           /\ tested' = tested \cup {t} /\ calls' = calls /\ green' = green
  <1>1. st \in State
    BY DEF TypeOK
  <1>2. QED
    BY <1>1 DEF Passes, State

LEMMA ApplyStep ==
    ASSUME TypeOK, Position, ApplyChangeAndTest
    PROVE  /\ clone' \in Clone
           /\ st'.fix_branch_name = st.fix_branch_name /\ st'.ci_status = st.ci_status
           /\ calls' = calls \/ (calls' = calls + 1 /\ ~Exhausted)
           /\ tested \subseteq tested' /\ green' = green
           /\ pc' \in {"code_review", "react_loop", "handle_failure", "done"}
           /\ pc' = "code_review" => clone'.tree \in tested'
  <1> USE AbsentAssumption
  <1>1. pc' \in {"code_review", "react_loop", "handle_failure", "done"}
    BY DEF ApplyChangeAndTest, Fails, Raise, Goto, RouteAfterApply
  <1>2. RepoReady \in Clone /\ Patched \in Clone
    BY CloneTypes, PatchedType DEF ApplyChangeAndTest, Position
  <1>3. CASE UNCHANGED <<st, calls, hist>> /\ Raise /\ clone' \in {RepoReady, Patched}
    BY <1>1, <1>2, <1>3 DEF Raise, hist
  <1>4. ASSUME NEW e \in BOOLEAN, NEW k \in BOOLEAN, FailsWith(e, k),
               clone' \in {RepoReady, Patched}, Goto(RouteAfterApply(st'))
        PROVE  /\ st'.fix_branch_name = st.fix_branch_name /\ st'.ci_status = st.ci_status
               /\ calls' = calls \/ (calls' = calls + 1 /\ ~Exhausted)
               /\ UNCHANGED hist /\ pc' # "code_review" /\ clone' \in Clone
    <2>1. ~st'.test_passed
      BY <1>4, FailsFrame
    <2>2. pc' # "code_review"
      BY <1>4, <2>1 DEF Goto, RouteAfterApply
    <2>3. QED
      BY <1>2, <1>4, <2>2, FailsFrame DEF FailsWith
  <1>5. ASSUME Passes(Patched.tree), clone' = Patched
        PROVE  /\ st'.fix_branch_name = st.fix_branch_name /\ st'.ci_status = st.ci_status
               /\ calls' = calls /\ clone' \in Clone /\ green' = green
               /\ tested \subseteq tested' /\ clone'.tree \in tested'
    BY <1>2, <1>5, PassesFrame
  <1>6. ASSUME PatchAndTest, Goto(RouteAfterApply(st'))
        PROVE  \/ Passes(Patched.tree) /\ clone' = Patched
               \/ \E e, k \in BOOLEAN : FailsWith(e, k) /\ clone' \in {RepoReady, Patched}
    BY <1>6 DEF PatchAndTest, PathMissing, OutOfScope, AnchorMissing, WriteFails, RunTests
  <1>7. CASE PatchAndTest /\ Goto(RouteAfterApply(st'))
    BY <1>1, <1>4, <1>5, <1>6, <1>7 DEF hist
  <1>8. CASE ApplyModelPatch /\ Goto(RouteAfterApply(st'))
    <2>1. CASE Passes(clone'.tree) /\ clone' = Patched
      BY <1>1, <1>5, <2>1
    <2>2. CASE /\ clone' = RepoReady /\ UNCHANGED hist
               /\ Reflected([st EXCEPT !.test_passed = FALSE, !.apply_error = TRUE,
                                       !.test_output = TRUE, !.error = TRUE])
      <3>1. ~st'.test_passed
        BY <2>2, ModelPatchFrame
      <3>2. pc' # "code_review"
        BY <1>8, <3>1 DEF Goto, RouteAfterApply
      <3>3. QED
        BY <1>1, <1>2, <2>2, <3>2, ModelPatchFrame DEF hist
    <2>3. QED
      BY <1>8, <2>1, <2>2 DEF ApplyModelPatch, Patched
  <1>9. QED
    BY <1>3, <1>7, <1>8 DEF ApplyChangeAndTest, Fails

LEMMA BranchStep ==
    ASSUME TypeOK, Position, CreateFixBranch
    PROVE  /\ st'.llm_result = st.llm_result /\ st'.ci_status = st.ci_status
           /\ st' = st \/ st'.fix_branch_name \in Names
           /\ pc' = "apply_change_and_test" => st'.fix_branch_name # NoName
  <1> USE AbsentAssumption
  <1>1. BranchName \in Names
    BY BoundsAssumption DEF BranchName, TypeOK, Names, Clone, Conf, Position
  <1>2. ASSUME NEW f \in BOOLEAN, CutBranch(f)
        PROVE  \E b \in BOOLEAN :
                 st' = [st EXCEPT !.fix_branch_name = BranchName, !.already_fixed = b]
    BY <1>2 DEF CutBranch, TypeOK, State
  <1>3. CASE CutBranch(TRUE) \/ CutBranch(FALSE) \/ CutLocalBranch
    <2>1. st \in State
      BY DEF TypeOK
    <2>2. ASSUME NEW b \in BOOLEAN, NEW n \in Names,
                 \/ st' = [st EXCEPT !.fix_branch_name = n]
                 \/ st' = [st EXCEPT !.fix_branch_name = n, !.already_fixed = b]
          PROVE  /\ st'.fix_branch_name = n /\ st'.llm_result = st.llm_result
                 /\ st'.ci_status = st.ci_status
      BY <2>1, <2>2 DEF State
    <2>3. /\ st'.fix_branch_name = BranchName /\ st'.llm_result = st.llm_result
          /\ st'.ci_status = st.ci_status
      BY <1>1, <1>2, <1>3, <2>2 DEF CutLocalBranch
    <2>4. QED
      BY <1>1, <2>3
  <1>4. CASE st.fix_branch_name # NoName /\ UNCHANGED st
    BY <1>4
  <1>5. CASE Fails /\ UNCHANGED st
    BY <1>5 DEF Fails, Raise
  <1>6. QED
    BY <1>3, <1>4, <1>5 DEF CreateFixBranch, ReuseBranch

LEMMA ReviewStep ==
    ASSUME TypeOK, CodeReview
    PROVE  /\ st'.fix_branch_name = st.fix_branch_name /\ st'.ci_status = st.ci_status
           /\ calls' = calls \/ (calls' = calls + 1 /\ ~Exhausted)
  <1>1. st \in State
    BY DEF TypeOK
  <1>2. CASE Escalates
    <2>1. CASE st.code_review_rounds < MaxRounds
      BY <1>1, <1>2, <2>1 DEF Escalates, State
    <2>2. CASE ~(st.code_review_rounds < MaxRounds)
      BY <1>1, <1>2, <2>2 DEF Escalates, State
    <2>3. QED
      BY <2>1, <2>2
  <1>3. CASE Records
    BY <1>1, <1>3 DEF Records, State
  <1>4. QED
    BY <1>2, <1>3 DEF CodeReview

LEMMA PositionStep ==
    ASSUME TypeOK, TypeOK', Position, [Next]_vars
    PROVE  Position'
  <1> USE AbsentAssumption
  <1>a. Cloned # NoClone /\ RepoReady # NoClone
    BY CloneTypes
  <1>b. conf.scm = "local" => Kept(clone) = clone
    BY DEF Kept
  <1>1. CASE Preflight \/ ParseTrace \/ FetchSourceFile \/ ReactStart \/ ReactCallFails
    BY <1>1 DEF Preflight, ParseTrace, FetchSourceFile, ReactStart, ReactCallFails, Fails,
       Raise, Goto, RouteAfterParse, Position
  <1>2. CASE PrecheckAlreadyFixed
    BY <1>2 DEF PrecheckAlreadyFixed, Goto, RouteAfterPrecheck, Position
  <1>3. CASE FetchTrace
    BY <1>3, <1>a DEF FetchTrace, GitlabTrace, LocalTrace, Interrupted, Fails, Raise, Goto,
       RouteAfterFetchTrace, Position
  <1>4. CASE MiniReactLoop
    BY <1>4 DEF MiniReactLoop, Goto, RouteAfterMini, Position
  <1>5. ASSUME NEW p, ReactExit(p), UNCHANGED <<conf, clone>>
        PROVE  Position'
    BY <1>5, RouteTypes DEF ReactExit, RouteAfterReact, Goto, Position
  <1>6. CASE ReactCall
    <2>1. CASE GoesOn \/ FetchTool
      BY <1>6, <2>1 DEF ReactCall, GoesOn, FetchTool, Raise, Goto, Position
    <2>2. QED
      BY <1>5, <1>6, <2>1 DEF ReactCall, Answered
  <1>7. CASE ReactStop
    BY <1>5, <1>7 DEF ReactStop
  <1>8. CASE CreateFixBranch
    <2>1. UNCHANGED conf /\ st.llm_result # NoPatch
      BY <1>8 DEF CreateFixBranch, Position
    <2>2. st'.llm_result # NoPatch
      BY <1>8, <2>1, BranchStep
    <2>3. conf.scm = "local" => BranchName \in Names
      BY DEF BranchName, TypeOK, Clone, Position
    <2>4. pc' = "apply_change_and_test" => st'.fix_branch_name # NoName
      BY <1>8, BranchStep
    <2>5. conf.scm = "local" => clone' # NoClone
      <3>1. ASSUME clone \in Clone, NEW b \in Names
            PROVE  /\ [clone EXCEPT !.branch = b] \in Clone
                   /\ [clone EXCEPT !.branch = b, !.tree = clone.head] \in Clone
        BY <3>1 DEF Clone
      <3>2. st.fix_branch_name # NoName => st.fix_branch_name \in Names
        BY DEF TypeOK, State
      <3>3. SUFFICES ASSUME conf.scm = "local" PROVE clone' # NoClone
        OBVIOUS
      <3>4. clone \in Clone
        BY <3>3 DEF TypeOK, Position
      <3>5. QED
        BY <1>8, <2>3, <3>1, <3>2, <3>3, <3>4 DEF CreateFixBranch, ReuseBranch, CutBranch,
           CutLocalBranch
    <2>6. pc' \in {"END", "apply_change_and_test", "done"}
      BY <1>8 DEF CreateFixBranch, Fails, Raise, Goto, RouteAfterBranch
    <2>7. QED
      BY <2>1, <2>2, <2>4, <2>5, <2>6 DEF Position
  <1>9. CASE ApplyChangeAndTest
    BY <1>9, ApplyStep DEF ApplyChangeAndTest, Position
  <1>10. CASE CodeReview
    <2>1. pc' \in {"react_loop", "commit_change"}
      BY <1>10 DEF CodeReview, Goto, RouteAfterReview
    <2>2. QED
      BY <1>10, <2>1, ReviewStep DEF CodeReview, Position
  <1>11. CASE CommitChange
    <2>1. pc' \in {"wait_ci_result", "done"}
      BY <1>11 DEF CommitChange, GitlabCommit, LocalCommit, PlainCommit, Fails, Interrupted,
         Raise, Goto
    <2>2. conf.scm = "local" => clone' # NoClone
      BY <1>11, CommitClone
    <2>3. QED
      BY <1>11, <2>1, <2>2 DEF CommitChange, Position
  <1>12. CASE SkipCI \/ WaitCIResult \/ WaitTimesOut
    <2>1. st'.fix_branch_name = st.fix_branch_name
      <3>1. st \in State
        BY DEF TypeOK
      <3>2. PICK v : st' = [st EXCEPT !.ci_status = v]
        BY <1>12 DEF SkipCI, WaitCIResult, WaitTimesOut
      <3>3. QED
        BY <3>1, <3>2 DEF State
    <2>2. pc' \in {"create_mr", "handle_failure"}
      BY <1>12 DEF SkipCI, WaitCIResult, WaitTimesOut, Goto, RouteAfterCI
    <2>3. QED
      BY <1>12, <2>1, <2>2 DEF SkipCI, WaitCIResult, WaitTimesOut, Position
  <1>13. CASE CreateMR \/ LocalReview \/ HandleFailure
    BY <1>13 DEF CreateMR, LocalReview, HandleFailure, Interrupted, Fails, Raise, Goto, Position
  <1>14. CASE Finish \/ Crash \/ Restart
    BY <1>14, <1>b DEF Finish, Crash, Restart, Position
  <1>15. CASE PipelineEnds \/ Merge \/ Close \/ AcceptPatch \/ UNCHANGED vars
    BY <1>15 DEF PipelineEnds, Merge, Close, AcceptPatch, vars, run, Position
  <1> QED
    BY <1>1, <1>2, <1>3, <1>4, <1>6, <1>7, <1>8, <1>9, <1>10, <1>11, <1>12, <1>13, <1>14,
       <1>15 DEF Next, WorkerStep

\* Type correctness of a run, for every deployment and under all faults.
THEOREM WorkflowTypes == Spec => [](TypeOK /\ Position)
  <1>1. Init => TypeOK /\ Position
    BY TypeInit
  <1>2. TypeOK /\ Position /\ [Next]_vars => (TypeOK /\ Position)'
    BY TypeStep, PositionStep
  <1>3. QED
    BY <1>1, <1>2, PTL DEF Spec

-----------------------------------------------------------------------------
(* The budget and the checks before it is spent.                            *)

LEMMA Monotone ==
    ASSUME TypeOK, [Next]_vars
    PROVE  conf' = conf /\ (faults' = 0 => faults = 0) /\ (crashes' = 0 => crashes = 0)
  <1> USE BoundsAssumption DEF TypeOK
  <1>1. ASSUME Fine \/ OneMoreFault PROVE faults' = 0 => faults = 0
    BY <1>1 DEF Fine, OneMoreFault
  <1>2. CASE WorkerStep
    <2>1. CASE Preflight \/ PrecheckAlreadyFixed \/ FetchTrace \/ ParseTrace \/ FetchSourceFile
               \/ MiniReactLoop \/ ReactStart \/ ReactCall \/ ReactCallFails \/ ReactStop
      BY <1>1, <2>1 DEF Preflight, PrecheckAlreadyFixed, FetchTrace, GitlabTrace, LocalTrace,
         ParseTrace, FetchSourceFile, MiniReactLoop, ReactStart, ReactCall, ReactCallFails,
         ReactStop, Fails, Interrupted
    <2>2. CASE CreateFixBranch \/ ApplyChangeAndTest \/ CodeReview \/ CommitChange
      BY <1>1, <2>2 DEF CreateFixBranch, ApplyChangeAndTest, CodeReview, CommitChange,
         GitlabCommit, LocalCommit, PlainCommit, Fails, Interrupted
    <2>3. CASE SkipCI \/ WaitCIResult \/ WaitTimesOut \/ CreateMR \/ LocalReview
               \/ HandleFailure \/ Finish
      BY <1>1, <2>3 DEF SkipCI, WaitCIResult, WaitTimesOut, CreateMR, LocalReview,
         HandleFailure, Finish, Fails, Interrupted
    <2>4. QED
      BY <1>2, <2>1, <2>2, <2>3 DEF WorkerStep
  <1>3. CASE Crash \/ Restart \/ Merge \/ Close \/ AcceptPatch \/ UNCHANGED vars
    BY <1>3 DEF Crash, Restart, Merge, Close, AcceptPatch, vars
  <1>4. CASE PipelineEnds
    BY <1>1, <1>4 DEF PipelineEnds
  <1>5. QED
    BY <1>2, <1>3, <1>4 DEF Next

\* Where calls are made: in the graph, and never at an exhausted budget.
LEMMA CallsStep ==
    ASSUME TypeOK, Position, [Next]_vars
    PROVE  \/ calls' = calls
           \/ calls' = 0
           \/ calls' = calls + 1 /\ ~Exhausted /\ pc \in Nodes \ {"preflight"}
  <1>1. CASE ReactCall
    BY <1>1 DEF ReactCall, Nodes
  <1>2. CASE ApplyChangeAndTest
    BY <1>2, ApplyStep DEF ApplyChangeAndTest, Nodes
  <1>3. CASE CodeReview
    BY <1>3, ReviewStep DEF CodeReview, Nodes
  <1>4. CASE Preflight \/ PrecheckAlreadyFixed \/ FetchTrace \/ ParseTrace \/ FetchSourceFile
             \/ MiniReactLoop \/ ReactStart \/ ReactCallFails \/ ReactStop
             \/ CreateFixBranch \/ CommitChange \/ SkipCI \/ WaitCIResult \/ WaitTimesOut
             \/ CreateMR \/ LocalReview \/ HandleFailure \/ Finish
    BY <1>4 DEF Preflight, PrecheckAlreadyFixed, FetchTrace, ParseTrace, FetchSourceFile,
       MiniReactLoop, ReactStart, ReactCallFails, ReactStop, CreateFixBranch, CommitChange,
       SkipCI, WaitCIResult, WaitTimesOut, CreateMR, LocalReview, HandleFailure, Finish
  <1>5. CASE Crash \/ Restart \/ PipelineEnds \/ Merge \/ Close \/ AcceptPatch \/ UNCHANGED vars
    BY <1>5 DEF Crash, Restart, PipelineEnds, Merge, Close, AcceptPatch, vars, run
  <1>6. QED
    BY <1>1, <1>2, <1>3, <1>4, <1>5 DEF Next, WorkerStep

\* For every budget, no process of the run makes more calls than it allows,
\* though the loop, the reviewer and the reflection hook draw on it in turn.
THEOREM BudgetHoldsTheorem == Spec => []BudgetHolds
  <1>1. Init => BudgetHolds
    BY BoundsAssumption DEF Init, BudgetHolds
  <1>2. TypeOK /\ Position /\ BudgetHolds /\ [Next]_vars => BudgetHolds'
    BY CallsStep, BoundsAssumption DEF TypeOK, BudgetHolds, Exhausted
  <1>3. QED
    BY <1>1, <1>2, WorkflowTypes, PTL DEF Spec

\* The deployment is one that the checks before the graph let through.
Cleared ==
    /\ conf.scm = "gitlab" => conf.token = "ok"
    /\ ~conf.gateway => conf.model = "match"

\* Until a probe has gone unanswered, only such a deployment is in the graph.
Admitted == faults = 0 /\ (pc \in Nodes \ {"preflight"} \/ calls > 0) => Cleared

LEMMA AdmittedStep ==
    ASSUME TypeOK, Position, Admitted, [Next]_vars
    PROVE  Admitted'
  <1>1. SUFFICES ASSUME faults' = 0, pc' \in Nodes \ {"preflight"} \/ calls' > 0, ~Cleared
                 PROVE  FALSE
    BY Monotone DEF Admitted, Cleared
  <1>2. faults = 0
    BY <1>1, Monotone
  <1>3. pc \notin Nodes \ {"preflight"} /\ ~(calls > 0)
    BY <1>1, <1>2 DEF Admitted
  <1>4. calls' = 0
    BY <1>3, CallsStep, BoundsAssumption DEF TypeOK
  <1>5. pc' \in Nodes \ {"preflight"}
    BY <1>1, <1>4
  <1>6. Preflight
    BY <1>3, <1>5 DEF Next, WorkerStep, Nodes, PrecheckAlreadyFixed, FetchTrace, ParseTrace,
       FetchSourceFile, MiniReactLoop, ReactStart, ReactCall, ReactCallFails, ReactStop,
       CreateFixBranch, ApplyChangeAndTest, CodeReview, CommitChange, SkipCI, WaitCIResult,
       WaitTimesOut, CreateMR, LocalReview, HandleFailure, Finish, Crash, Restart,
       PipelineEnds, Merge, Close, AcceptPatch, vars, run
  <1>7. PICK identity \in BOOLEAN, project \in BOOLEAN, model \in BOOLEAN :
          /\ IF identity /\ project /\ model THEN Fine ELSE OneMoreFault
          /\ IF TokenRefused(identity, project) \/ ModelRefused(model)
             THEN pc' = "done" /\ outcome' = "refused"
             ELSE Goto("precheck_already_fixed")
    BY <1>6 DEF Preflight
  <1>8. identity /\ project /\ model
    BY <1>1, <1>2, <1>7 DEF OneMoreFault
  <1>9. ~TokenRefused(identity, project) /\ ~ModelRefused(model)
    BY <1>5, <1>7 DEF Nodes
  <1>10. Cleared
    BY <1>8, <1>9 DEF TokenRefused, IdentityRefused, ProjectRefused, ModelRefused, Cleared,
       TypeOK, Conf
  <1>11. QED
    BY <1>1, <1>10

\* Unless a probe got no answer, a deployment whose token cannot push or whose
\* backend serves another model never makes a call, in any process of the bug.
THEOREM RefusedBeforeSpendingTheorem == Spec => []RefusedBeforeSpending
  <1>1. Init => Admitted
    BY BoundsAssumption DEF Init, Admitted
  <1>2. TypeOK /\ Position /\ Admitted /\ [Next]_vars => Admitted'
    BY AdmittedStep
  <1>3. Admitted => RefusedBeforeSpending
    BY DEF Admitted, RefusedBeforeSpending, Cleared
  <1>4. QED
    BY <1>1, <1>2, <1>3, WorkflowTypes, PTL DEF Spec

-----------------------------------------------------------------------------
(* Nothing untested leaves the worker.                                      *)

\* The working copy under review, or about to be committed, has passed.
Accepted ==
    /\ pc \in {"code_review", "commit_change"} => clone.tree \in tested
    /\ PushedWasTested

LEMMA AcceptedStep ==
    ASSUME TypeOK, Position, Accepted, [Next]_vars
    PROVE  Accepted'
  <1> USE AbsentAssumption
  <1>1. CASE Preflight \/ PrecheckAlreadyFixed \/ FetchTrace \/ ParseTrace \/ FetchSourceFile
             \/ MiniReactLoop \/ ReactStart \/ ReactCallFails
    <2>1. pc' \notin {"code_review", "commit_change"}
      BY <1>1 DEF Preflight, PrecheckAlreadyFixed, FetchTrace, GitlabTrace, LocalTrace,
         ParseTrace, FetchSourceFile, MiniReactLoop, ReactStart, ReactCallFails, Interrupted,
         Fails, Raise, Goto, RouteAfterPrecheck, RouteAfterFetchTrace, RouteAfterParse,
         RouteAfterMini
    <2>2. UNCHANGED <<remote, tested>>
      BY <1>1 DEF Preflight, PrecheckAlreadyFixed, FetchTrace, ParseTrace, FetchSourceFile,
         MiniReactLoop, ReactStart, ReactCallFails, server, hist
    <2>3. QED
      BY <2>1, <2>2 DEF Accepted, PushedWasTested
  <1>2. CASE ReactCall \/ ReactStop \/ CreateFixBranch
    <2>1. pc' \notin {"code_review", "commit_change"}
      BY <1>2 DEF ReactCall, Answered, GoesOn, FetchTool, ReactStop, ReactExit,
         RouteAfterReact, CreateFixBranch, RouteAfterBranch, Fails, Raise, Goto
    <2>2. UNCHANGED <<remote, tested>>
      BY <1>2 DEF ReactCall, ReactStop, CreateFixBranch, server, hist
    <2>3. QED
      BY <2>1, <2>2 DEF Accepted, PushedWasTested
  <1>3. CASE ApplyChangeAndTest
    <2>1. remote' = remote
      BY <1>3 DEF ApplyChangeAndTest, server
    <2>2. QED
      BY <1>3, <2>1, ApplyStep DEF Accepted, PushedWasTested
  <1>4. CASE CodeReview
    BY <1>4 DEF CodeReview, server, hist, Accepted, PushedWasTested
  <1>5. CASE CommitChange
    <2>1. pc' \notin {"code_review", "commit_change"}
      BY <1>5 DEF CommitChange, GitlabCommit, LocalCommit, PlainCommit, Fails, Interrupted,
         Raise, Goto
    <2>2. tested' = tested /\ clone.tree \in tested /\ RepoReady = clone
      BY <1>5 DEF CommitChange, Accepted, hist, RepoReady, Position
    <2>3. CASE PushHead
      BY <2>1, <2>2, <2>3 DEF PushHead, Accepted, PushedWasTested, TypeOK
    <2>4. CASE UNCHANGED server
      BY <2>1, <2>2, <2>4 DEF server, Accepted, PushedWasTested
    <2>5. CASE PlainCommit
      BY <2>1, <2>2, <2>5 DEF PlainCommit, Accepted, PushedWasTested, TypeOK
    <2>6. QED
      BY <1>5, <2>3, <2>4, <2>5 DEF CommitChange, GitlabCommit, LocalCommit
  <1>6. CASE SkipCI \/ WaitCIResult \/ WaitTimesOut
    BY <1>6 DEF SkipCI, WaitCIResult, WaitTimesOut, RouteAfterCI, Goto, server, hist, Accepted,
       PushedWasTested
  <1>7. CASE CreateMR \/ LocalReview \/ HandleFailure \/ Finish
    BY <1>7 DEF CreateMR, LocalReview, HandleFailure, Finish, Interrupted, Fails, Raise, Goto,
       server, hist, Accepted, PushedWasTested
  <1>8. CASE Crash \/ Restart \/ UNCHANGED vars
    BY <1>8 DEF Crash, Restart, vars, server, hist, Accepted, PushedWasTested
  <1>9. CASE PipelineEnds \/ Close \/ AcceptPatch
    BY <1>9 DEF PipelineEnds, Close, AcceptPatch, run, hist, Accepted, PushedWasTested
  <1>10. CASE Merge
    <2>1. PICK b \in Names : remote' = [remote EXCEPT ![b] = NoTree]
      BY <1>10 DEF Merge
    <2>2. UNCHANGED <<pc, clone, tested>>
      BY <1>10 DEF Merge, run, hist
    <2>3. QED
      BY <2>1, <2>2 DEF Accepted, PushedWasTested, TypeOK
  <1> QED
    BY <1>1, <1>2, <1>3, <1>4, <1>5, <1>6, <1>7, <1>8, <1>9, <1>10 DEF Next, WorkerStep

\* A fix branch on the server, and a plain run's patch file, always holds a tree
\* that apply_change_and_test accepted, whatever was killed, reused or merged.
THEOREM PushedWasTestedTheorem == Spec => []PushedWasTested
  <1>1. Init => Accepted
    BY DEF Init, Accepted, PushedWasTested
  <1>2. TypeOK /\ Position /\ Accepted /\ [Next]_vars => Accepted'
    BY AcceptedStep
  <1>3. Accepted => PushedWasTested
    BY DEF Accepted
  <1>4. QED
    BY <1>1, <1>2, <1>3, WorkflowTypes, PTL DEF Spec

-----------------------------------------------------------------------------
(* What a run reports, and what happens to requests and to the base branch. *)

\* A run at its end without an error and without an earlier fix has read a
\* success and has a request; so has one that reported itself fixed.
Reviewed ==
    /\ st.ci_status = "success" /\ st.fix_branch_name \in Names
    /\ mr[st.fix_branch_name] # "none"

Reported ==
    conf.scm = "gitlab" =>
      /\ pc = "create_mr" => st.ci_status = "success"
      /\ pc = "END" /\ OutcomeOf(st) = "fixed" => Reviewed
      /\ outcome = "fixed" => pc = "done" /\ Reviewed

\* Requests change only where one is created, merged or closed.
LEMMA RequestsKept ==
    ASSUME [Next]_vars, mr' # mr
    PROVE  CreateMR \/ Merge \/ Close
  <1>1. CASE WorkerStep /\ ~CreateMR
    BY <1>1 DEF WorkerStep, Preflight, PrecheckAlreadyFixed, FetchTrace, ParseTrace,
       FetchSourceFile, MiniReactLoop, ReactStart, ReactCall, ReactCallFails, ReactStop,
       CreateFixBranch, ApplyChangeAndTest, CodeReview, CommitChange, GitlabCommit,
       LocalCommit, PlainCommit, PushHead, SkipCI, WaitCIResult, WaitTimesOut, LocalReview,
       HandleFailure, Finish, server
  <1>2. CASE Crash \/ Restart \/ PipelineEnds \/ AcceptPatch \/ UNCHANGED vars
    BY <1>2 DEF Crash, Restart, PipelineEnds, AcceptPatch, vars, server
  <1>3. QED
    BY <1>1, <1>2 DEF Next

LEMMA RequestsRemain ==
    ASSUME TypeOK, NEW b \in Names, mr[b] # "none", [Next]_vars
    PROVE  mr'[b] # "none"
  <1>1. CASE CreateMR
    BY <1>1 DEF CreateMR, PostMR, TypeOK
  <1>2. CASE Merge
    BY <1>2 DEF Merge, TypeOK
  <1>3. CASE Close
    BY <1>3 DEF Close, TypeOK
  <1>4. QED
    BY <1>1, <1>2, <1>3, RequestsKept

LEMMA ReportedStep ==
    ASSUME TypeOK, Position, Reported, [Next]_vars
    PROVE  Reported'
  <1> USE AbsentAssumption
  <1>1. SUFFICES ASSUME conf.scm = "gitlab"
                 PROVE  /\ pc' = "create_mr" => st'.ci_status = "success"
                        /\ pc' = "END" /\ OutcomeOf(st') = "fixed" => Reviewed'
                        /\ outcome' = "fixed" => pc' = "done" /\ Reviewed'
    BY Monotone DEF Reported
  <1>2. ASSUME UNCHANGED st, Reviewed
        PROVE  Reviewed'
    BY <1>2, RequestsRemain DEF Reviewed
  <1>3. CASE pc \in Nodes /\ outcome' \in {outcome, "error", "refused"}
             /\ pc' \notin {"create_mr", "END"}
    BY <1>1, <1>3 DEF Reported, Nodes
  <1>4. CASE Preflight \/ FetchTrace \/ ParseTrace \/ FetchSourceFile \/ MiniReactLoop
             \/ ReactStart \/ ReactCall \/ ReactCallFails \/ ReactStop
    <2>1. pc \in Nodes
      BY <1>4 DEF Preflight, FetchTrace, ParseTrace, FetchSourceFile, MiniReactLoop,
         ReactStart, ReactCall, ReactCallFails, ReactStop, Nodes
    <2>2. outcome' \in {outcome, "error", "refused"} /\ pc' \notin {"create_mr", "END"}
      BY <1>4 DEF Preflight, FetchTrace, GitlabTrace, LocalTrace, ParseTrace,
         FetchSourceFile, MiniReactLoop, ReactStart, ReactCall, ReactCallFails, ReactStop,
         Answered, GoesOn, FetchTool, ReactExit, Interrupted, Fails, Raise, Goto,
         RouteAfterFetchTrace, RouteAfterParse, RouteAfterMini, RouteAfterReact
    <2>3. QED
      BY <1>3, <2>1, <2>2
  <1>5. CASE ApplyChangeAndTest \/ CodeReview \/ CommitChange
    <2>1. pc \in Nodes
      BY <1>5 DEF ApplyChangeAndTest, CodeReview, CommitChange, Nodes
    <2>2. outcome' \in {outcome, "error", "refused"} /\ pc' \notin {"create_mr", "END"}
      BY <1>5 DEF ApplyChangeAndTest, CodeReview, CommitChange, GitlabCommit, LocalCommit,
         PlainCommit, Interrupted, Fails, Raise, Goto, RouteAfterApply, RouteAfterReview
    <2>3. QED
      BY <1>3, <2>1, <2>2
  <1>6. ASSUME pc \in Nodes, outcome' \in {outcome, "error"},
               pc' = "END" => OutcomeOf(st') # "fixed" \/ Reviewed',
               pc' = "create_mr" => st'.ci_status = "success"
        PROVE  /\ pc' = "create_mr" => st'.ci_status = "success"
               /\ pc' = "END" /\ OutcomeOf(st') = "fixed" => Reviewed'
               /\ outcome' = "fixed" => pc' = "done" /\ Reviewed'
    BY <1>1, <1>6 DEF Reported, Nodes
  <1>7. CASE PrecheckAlreadyFixed \/ CreateFixBranch
    <2>1. pc \in Nodes
      BY <1>7 DEF PrecheckAlreadyFixed, CreateFixBranch, Nodes
    <2>2. /\ outcome' \in {outcome, "error"} /\ pc' # "create_mr"
          /\ pc' = "END" => st'.already_fixed
      BY <1>7 DEF PrecheckAlreadyFixed, CreateFixBranch, Fails, Raise, Goto,
         RouteAfterPrecheck, RouteAfterBranch
    <2>3. QED
      BY <1>6, <2>1, <2>2 DEF OutcomeOf
  <1>8. CASE SkipCI \/ WaitCIResult \/ WaitTimesOut
    <2>1. pc \in Nodes
      BY <1>8 DEF SkipCI, WaitCIResult, WaitTimesOut, Nodes
    <2>2. /\ outcome' = outcome /\ pc' # "END"
          /\ pc' = "create_mr" => st'.ci_status = "success"
      BY <1>8 DEF SkipCI, WaitCIResult, WaitTimesOut, Goto, RouteAfterCI
    <2>3. QED
      BY <1>6, <2>1, <2>2
  <1>9. CASE CreateMR
    <2>1. pc \in Nodes /\ UNCHANGED st /\ st.ci_status = "success"
      BY <1>1, <1>9 DEF CreateMR, Nodes, Reported
    <2>2. st.fix_branch_name \in Names
      BY <1>9 DEF CreateMR, Position, TypeOK, State
    <2>3. outcome' \in {outcome, "error"} /\ pc' # "create_mr"
      BY <1>9 DEF CreateMR, Interrupted, Fails, Raise, Goto
    <2>4. ASSUME pc' = "END" PROVE mr'[st.fix_branch_name] # "none"
      BY <1>9, <2>2, <2>4 DEF CreateMR, PostMR, FoundMR, Interrupted, Fails, Raise, TypeOK
    <2>5. QED
      BY <1>6, <2>1, <2>2, <2>3, <2>4 DEF Reviewed
  <1>10. CASE LocalReview
    BY <1>1, <1>10 DEF LocalReview
  <1>11. CASE HandleFailure
    <2>1. st'.error
      BY <1>11 DEF HandleFailure, TypeOK, State
    <2>2. QED
      BY <1>6, <1>11, <2>1 DEF HandleFailure, Goto, Nodes, OutcomeOf
  <1>12. CASE Finish
    BY <1>1, <1>2, <1>12 DEF Finish, Reported
  <1>13. CASE Crash \/ Restart
    BY <1>1, <1>13 DEF Crash, Restart, Reported, Nodes
  <1>14. CASE PipelineEnds \/ Merge \/ Close \/ AcceptPatch \/ UNCHANGED vars
    <2>1. UNCHANGED <<pc, st, outcome>>
      BY <1>14 DEF PipelineEnds, Merge, Close, AcceptPatch, vars, run
    <2>2. QED
      BY <1>1, <1>2, <2>1 DEF Reported, OutcomeOf
  <1> QED
    BY <1>4, <1>5, <1>7, <1>8, <1>9, <1>10, <1>11, <1>12, <1>13, <1>14 DEF Next, WorkerStep

\* A run that reports itself fixed read a success from the pipeline and its
\* branch has a request, whatever an earlier process left in the thread.
THEOREM FixedMeansReviewedTheorem == Spec => []FixedMeansReviewed
  <1>1. Init => Reported
    BY DEF Init, Reported
  <1>2. TypeOK /\ Position /\ Reported /\ [Next]_vars => Reported'
    BY ReportedStep
  <1>3. Reported => FixedMeansReviewed
    BY DEF Reported, FixedMeansReviewed, Reviewed
  <1>4. QED
    BY <1>1, <1>2, <1>3, WorkflowTypes, PTL DEF Spec

\* As long as no look-up failed, no step takes a merged request back: neither
\* a worker that pushed its branch again nor a person reopens it.
THEOREM MergedStaysTheorem == Spec => MergedStays
  <1>1. ASSUME TypeOK, [Next]_vars, NEW b \in Names, mr[b] = "merged", faults' = 0
        PROVE  mr'[b] = "merged"
    <2>1. CASE CreateMR
      <3>1. faults = 0
        BY <1>1, Monotone
      <3>2. ~OneMoreFault
        BY <1>1, <3>1 DEF OneMoreFault
      <3>3. CASE PostMR(st.fix_branch_name) /\ FoundMR(st.fix_branch_name) = "none"
        BY <1>1, <3>3 DEF PostMR, FoundMR, TypeOK
      <3>4. QED
        BY <1>1, <2>1, <3>2, <3>3 DEF CreateMR, Interrupted, Fails
    <2>2. CASE Merge
      BY <1>1, <2>2 DEF Merge, TypeOK
    <2>3. CASE Close
      BY <1>1, <2>3 DEF Close, TypeOK
    <2>4. QED
      BY <1>1, <2>1, <2>2, <2>3, RequestsKept
  <1>2. TypeOK /\ Position /\ [Next]_vars
          => [\A b \in Names : mr[b] = "merged" /\ faults' = 0 => mr'[b] = "merged"]_vars
    BY <1>1
  <1>3. QED
    BY <1>2, WorkflowTypes, PTL DEF Spec, MergedStays

-----------------------------------------------------------------------------
(* The base branch.                                                         *)

\* The name of the branch is set where it is cut, and lost with the thread.
LEMMA BranchNameKept ==
    ASSUME TypeOK, Position, [Next]_vars, ~CreateFixBranch, ~Restart
    PROVE  st'.fix_branch_name = st.fix_branch_name
  <1>1. st \in State
    BY DEF TypeOK
  <1>2. CASE UNCHANGED st
    BY <1>2
  <1>3. CASE PrecheckAlreadyFixed \/ MiniReactLoop
    BY <1>1, <1>3 DEF PrecheckAlreadyFixed, MiniReactLoop, State
  <1>4. ASSUME NEW r, ReactExit(r) PROVE st'.fix_branch_name = st.fix_branch_name
    BY <1>1, <1>4 DEF ReactExit, State
  <1>5. CASE ReactCall \/ ReactStop
    BY <1>2, <1>4, <1>5 DEF ReactCall, ReactStop, Answered, GoesOn, FetchTool
  <1>6. CASE ApplyChangeAndTest
    BY <1>6, ApplyStep
  <1>7. CASE CodeReview
    BY <1>7, ReviewStep
  <1>8. CASE SkipCI \/ WaitCIResult \/ WaitTimesOut \/ HandleFailure
    <2>1. PICK v : st' = [st EXCEPT !.ci_status = v] \/ st' = [st EXCEPT !.error = v]
      BY <1>8 DEF SkipCI, WaitCIResult, WaitTimesOut, HandleFailure
    <2>2. QED
      BY <1>1, <2>1 DEF State
  <1>9. CASE Preflight \/ FetchTrace \/ ParseTrace \/ FetchSourceFile \/ ReactStart
             \/ ReactCallFails \/ CommitChange \/ CreateMR \/ LocalReview \/ Finish
    BY <1>9 DEF Preflight, FetchTrace, ParseTrace, FetchSourceFile, ReactStart,
       ReactCallFails, CommitChange, CreateMR, LocalReview, Finish
  <1>10. CASE Crash \/ PipelineEnds \/ Merge \/ Close \/ AcceptPatch \/ UNCHANGED vars
    BY <1>10 DEF Crash, PipelineEnds, Merge, Close, AcceptPatch, vars, run
  <1> QED
    BY <1>3, <1>5, <1>6, <1>7, <1>8, <1>9, <1>10 DEF Next, WorkerStep

\* A step of the process leads to a node or ends the run.
LEMMA NeverDown ==
    ASSUME WorkerStep
    PROVE  pc' # "down"
  <1>1. CASE Preflight \/ PrecheckAlreadyFixed \/ FetchTrace \/ ParseTrace \/ FetchSourceFile
             \/ MiniReactLoop \/ ReactStart \/ ReactCallFails
    BY <1>1 DEF Preflight, PrecheckAlreadyFixed, FetchTrace, GitlabTrace, LocalTrace,
       ParseTrace, FetchSourceFile, MiniReactLoop, ReactStart, ReactCallFails, Interrupted,
       Fails, Raise, Goto, RouteAfterPrecheck, RouteAfterFetchTrace, RouteAfterParse,
       RouteAfterMini
  <1>2. CASE ReactCall \/ ReactStop \/ CreateFixBranch
    BY <1>2 DEF ReactCall, Answered, GoesOn, FetchTool, ReactStop, ReactExit,
       RouteAfterReact, CreateFixBranch, RouteAfterBranch, Fails, Raise, Goto
  <1>3. CASE ApplyChangeAndTest \/ CodeReview \/ CommitChange
    BY <1>3 DEF ApplyChangeAndTest, CodeReview, CommitChange, GitlabCommit, LocalCommit,
       PlainCommit, Interrupted, Fails, Raise, Goto, RouteAfterApply, RouteAfterReview
  <1>4. CASE SkipCI \/ WaitCIResult \/ WaitTimesOut \/ CreateMR \/ LocalReview
             \/ HandleFailure \/ Finish
    BY <1>4 DEF SkipCI, WaitCIResult, WaitTimesOut, CreateMR, LocalReview, HandleFailure,
       Finish, Interrupted, Fails, Raise, Goto, RouteAfterCI
  <1> QED
    BY <1>1, <1>2, <1>3, <1>4 DEF WorkerStep

\* A worker that never lost its clone, or lost the thread with it, has a branch
\* of the fix checked out once it has cut one.
OnItsBranch ==
    /\ pc = "down" => crashes > 0
    /\ conf.scm = "gitlab" /\ pc \in Nodes /\ st.fix_branch_name # NoName
         /\ (crashes = 0 \/ ~conf.checkpoint)
         => clone # NoClone /\ clone.branch \in Names

LEMMA OnItsBranchStep ==
    ASSUME TypeOK, Position, OnItsBranch, [Next]_vars
    PROVE  OnItsBranch'
  <1> USE AbsentAssumption
  <1>1. CASE Crash
    BY <1>1, BoundsAssumption DEF Crash, OnItsBranch, TypeOK, Nodes
  <1>2. CASE Restart
    BY <1>2, BoundsAssumption DEF Restart, OnItsBranch, Started, Blank, TypeOK
  <1>3. ASSUME ~Crash, ~Restart
        PROVE  /\ crashes' = crashes
               /\ pc' = "down" => pc = "down"
               /\ pc' \in Nodes => pc \in Nodes
    <2>1. ASSUME WorkerStep PROVE pc \in Nodes /\ pc' # "down"
      <3>1. pc \in Nodes
        BY <2>1 DEF WorkerStep, Nodes, Preflight, PrecheckAlreadyFixed, FetchTrace, ParseTrace,
           FetchSourceFile, MiniReactLoop, ReactStart, ReactCall, ReactCallFails, ReactStop,
           CreateFixBranch, ApplyChangeAndTest, CodeReview, CommitChange, SkipCI, WaitCIResult,
           WaitTimesOut, CreateMR, LocalReview, HandleFailure, Finish
      <3>2. pc' # "down"
        BY <2>1, <3>1, NeverDown
      <3>3. QED
        BY <3>1, <3>2
    <2>2. CASE WorkerStep
      <3>1. crashes' = crashes
        BY <2>2 DEF WorkerStep, Preflight, PrecheckAlreadyFixed, FetchTrace, ParseTrace,
           FetchSourceFile, MiniReactLoop, ReactStart, ReactCall, ReactCallFails, ReactStop,
           CreateFixBranch, ApplyChangeAndTest, CodeReview, CommitChange, SkipCI, WaitCIResult,
           WaitTimesOut, CreateMR, LocalReview, HandleFailure, Finish
      <3>2. QED
        BY <2>1, <2>2, <3>1
    <2>3. CASE PipelineEnds \/ Merge \/ Close \/ AcceptPatch \/ UNCHANGED vars
      BY <2>3 DEF PipelineEnds, Merge, Close, AcceptPatch, vars, run
    <2>4. QED
      BY <1>3, <2>2, <2>3 DEF Next
  <1>4. SUFFICES ASSUME ~Crash, ~Restart, conf.scm = "gitlab", pc \in Nodes, pc' \in Nodes,
                        st'.fix_branch_name # NoName, crashes = 0 \/ ~conf.checkpoint
                 PROVE  clone' # NoClone /\ clone'.branch \in Names
    BY <1>1, <1>2, <1>3, Monotone DEF OnItsBranch
  <1>5. CASE CreateFixBranch
    <2>1. ASSUME NEW b \in Names, NEW c \in Clone
          PROVE  /\ [c EXCEPT !.branch = b] \in Clone /\ [c EXCEPT !.branch = b].branch = b
                 /\ \A t \in Trees : [c EXCEPT !.branch = b, !.cut = "fix", !.head = t,
                                               !.tree = t] \in Clone
                 /\ \A t \in Trees : [c EXCEPT !.branch = b, !.cut = "fix", !.head = t,
                                               !.tree = t].branch = b
      BY DEF Clone
    <2>2. CASE ReuseBranch(st.fix_branch_name) /\ st.fix_branch_name # NoName
      <3>1. st.fix_branch_name \in Names
        BY <2>2 DEF TypeOK, State
      <3>2. clone # NoClone /\ clone.branch \in Names /\ RepoReady = clone /\ clone \in Clone
        BY <1>4, <2>2 DEF OnItsBranch, RepoReady, TypeOK
      <3>3. CASE remote[st.fix_branch_name] # NoTree
        <4>1. remote[st.fix_branch_name] \in Trees
          BY <3>1, <3>3 DEF TypeOK
        <4>2. clone' = [clone EXCEPT !.branch = st.fix_branch_name, !.cut = "fix",
                          !.head = remote[st.fix_branch_name],
                          !.tree = remote[st.fix_branch_name]]
          BY <1>4, <2>2, <3>2, <3>3 DEF ReuseBranch
        <4>3. clone' \in Clone /\ clone'.branch = st.fix_branch_name
          BY <2>1, <3>1, <3>2, <4>1, <4>2
        <4>4. QED
          BY <3>1, <4>3
      <3>4. CASE remote[st.fix_branch_name] = NoTree
        BY <1>4, <2>2, <3>2, <3>4 DEF ReuseBranch
      <3>5. QED
        BY <3>3, <3>4
    <2>3. CASE CutBranch(TRUE) \/ CutBranch(FALSE)
      <3>1. BranchName \in Names
        BY <1>4 DEF BranchName, TypeOK
      <3>2. Cloned \in Clone
        BY CloneTypes
      <3>3. clone' = [Cloned EXCEPT !.branch = BranchName]
        BY <2>3 DEF CutBranch
      <3>4. clone' \in Clone /\ clone'.branch = BranchName
        BY <2>1, <3>1, <3>2, <3>3
      <3>5. QED
        BY <3>1, <3>4
    <2>4. QED
      BY <1>4, <1>5, <2>2, <2>3 DEF CreateFixBranch, CutLocalBranch, Fails, Raise, Nodes
  <1>6. CASE ~CreateFixBranch
    <2>1. clone # NoClone /\ clone.branch \in Names
      BY <1>4, <1>6, BranchNameKept DEF OnItsBranch
    <2>2. clone \in Clone /\ RepoReady = clone
      BY <2>1 DEF RepoReady, TypeOK
    <2>3. CASE clone' = clone
      BY <2>1, <2>3
    <2>4. CASE ApplyChangeAndTest
      <3>1. clone' = clone \/ clone' = Patched
        BY <2>2, <2>4 DEF ApplyChangeAndTest, PatchAndTest, PathMissing, OutOfScope,
           AnchorMissing, WriteFails, RunTests, ApplyModelPatch, Patched
      <3>2. QED
        BY <2>1, <2>2, <2>4, <3>1, ApplyStep DEF Patched, Clone
    <2>5. CASE CommitChange
      <3>1. clone' = clone \/ clone' = [clone EXCEPT !.head = clone.tree]
        BY <1>4, <2>2, <2>5 DEF CommitChange, GitlabCommit, LocalCommit, PlainCommit
      <3>2. QED
        BY <2>1, <2>2, <2>5, <3>1, CommitClone DEF Clone
    <2>6. CASE Finish
      BY <1>4, <2>6 DEF Finish, Nodes
    <2>7. QED
      BY <1>4, <1>6, <2>3, <2>4, <2>5, <2>6 DEF Next, WorkerStep, Preflight,
         PrecheckAlreadyFixed, FetchTrace, GitlabTrace, LocalTrace, ParseTrace,
         FetchSourceFile, MiniReactLoop, ReactStart, ReactCall, ReactCallFails, ReactStop,
         CodeReview, SkipCI, WaitCIResult, WaitTimesOut, CreateMR, LocalReview, HandleFailure,
         PipelineEnds, Merge, Close, AcceptPatch, vars, run
  <1> QED
    BY <1>5, <1>6

\* The base branch moves by a merged request, or by the push of a worker that
\* was restarted with the thread but without the clone; a plain directory only
\* changes to a tree that passed.
THEOREM BaseMovesByMergeTheorem == Spec => BaseMovesByMerge
  <1>1. ASSUME TypeOK, Position, Accepted, OnItsBranch, Next, base' # base
        PROVE  \/ \E b \in Names : mr[b] = "opened" /\ mr'[b] = "merged"
               \/ conf.scm = "plain" /\ base'.tree \in tested
               \/ crashes > 0 /\ conf.checkpoint /\ clone.branch = BaseBranch
                    /\ st.fix_branch_name # NoName
    <2>1. CASE CommitChange
      <3>1. clone \in Clone /\ RepoReady = clone /\ st.fix_branch_name # NoName /\ pc \in Nodes
        BY <1>1, <2>1 DEF CommitChange, Position, TypeOK, RepoReady, Nodes
      <3>2. conf.scm = "gitlab" /\ PushHead /\ clone.branch = BaseBranch
        BY <1>1, <2>1 DEF CommitChange, GitlabCommit, LocalCommit, PlainCommit, PushHead, server
      <3>3. ~(crashes = 0 \/ ~conf.checkpoint)
        BY <1>1, <3>1, <3>2, AbsentAssumption DEF OnItsBranch
      <3>4. QED
        BY <1>1, <3>1, <3>2, <3>3, BoundsAssumption DEF TypeOK, Conf
    <2>2. CASE Merge
      BY <1>1, <2>2 DEF Merge, TypeOK
    <2>3. CASE AcceptPatch
      <3>1. 0 \in Names
        BY BoundsAssumption DEF Names
      <3>2. QED
        BY <1>1, <2>3, <3>1 DEF AcceptPatch, Accepted, PushedWasTested, TypeOK
    <2>4. QED
      BY <1>1, <2>1, <2>2, <2>3 DEF Next, WorkerStep, server, Preflight, PrecheckAlreadyFixed,
         FetchTrace, ParseTrace, FetchSourceFile, MiniReactLoop, ReactStart, ReactCall,
         ReactCallFails, ReactStop, CreateFixBranch, ApplyChangeAndTest, CodeReview, SkipCI,
         WaitCIResult, WaitTimesOut, CreateMR, LocalReview, HandleFailure, Finish, Crash,
         Restart, PipelineEnds, Close
  <1>2. Init => OnItsBranch
    BY DEF Init, OnItsBranch, Blank
  <1>3. TypeOK /\ Position /\ OnItsBranch /\ [Next]_vars => OnItsBranch'
    BY OnItsBranchStep
  <1>4. Init => Accepted
    BY DEF Init, Accepted, PushedWasTested
  <1>5. TypeOK /\ Position /\ Accepted /\ [Next]_vars => Accepted'
    BY AcceptedStep
  <1>6. TypeOK /\ Position /\ Accepted /\ OnItsBranch /\ [Next]_vars
          => [base' # base =>
                \/ \E b \in Names : mr[b] = "opened" /\ mr'[b] = "merged"
                \/ conf.scm = "plain" /\ base'.tree \in tested
                \/ crashes > 0 /\ conf.checkpoint /\ clone.branch = BaseBranch
                     /\ st.fix_branch_name # NoName]_vars
    BY <1>1
  <1>7. QED
    BY <1>2, <1>3, <1>4, <1>5, <1>6, WorkflowTypes, PTL DEF Spec, BaseMovesByMerge

-----------------------------------------------------------------------------
(* Without a kill, requests show what a pipeline accepted.                  *)

\* The nodes up to the push.
Early == Nodes \ {"wait_ci_result", "create_mr", "handle_failure", "END"}

NoRequests == \A b \in Names : mr[b] = "none"
Unpushed   == (\A b \in Names : remote[b] = NoTree) /\ pipelines = {} /\ inbox = <<>>
PushesAre(S) == \A b \in Names : remote[b] # NoTree => [name |-> b, tree |-> remote[b]] \in S

\* What is on the server while a verdict is awaited is the one push it is about.
Awaited ==
    /\ \A p \in pipelines : PushesAre({p})
    /\ \A i \in 1..Len(inbox) :
          /\ PushesAre({inbox[i].push})
          /\ inbox[i].status = "success" => inbox[i].push \in green

\* A run that was never killed pushes once, then reads the verdict on it.
PushedOnce ==
    crashes = 0 =>
      /\ pc \notin {"END", "done"} \/ conf.scm # "gitlab" => NoRequests
      /\ conf.scm = "gitlab" /\ pc \in Early => Unpushed
      /\ conf.scm = "gitlab" /\ pc = "wait_ci_result" => Awaited
      /\ conf.scm = "gitlab" /\ pc = "create_mr" => PushesAre(green)
      /\ RequestsAreGreen

LEMMA EarlyStep ==
    ASSUME TypeOK, Position,
           Preflight \/ PrecheckAlreadyFixed \/ FetchTrace \/ ParseTrace \/ FetchSourceFile
             \/ MiniReactLoop \/ ReactStart \/ ReactCall \/ ReactCallFails \/ ReactStop
             \/ CreateFixBranch \/ ApplyChangeAndTest \/ CodeReview
    PROVE  /\ pc \in Early /\ pc' \notin {"wait_ci_result", "create_mr"}
           /\ UNCHANGED <<conf, remote, mr, pipelines, inbox, crashes, green>>
  <1>1. CASE Preflight \/ PrecheckAlreadyFixed \/ FetchTrace \/ ParseTrace \/ FetchSourceFile
             \/ MiniReactLoop \/ ReactStart \/ ReactCallFails
    <2>1. pc' \notin {"wait_ci_result", "create_mr"}
      BY <1>1 DEF Preflight, PrecheckAlreadyFixed, FetchTrace, GitlabTrace, LocalTrace,
         ParseTrace, FetchSourceFile, MiniReactLoop, ReactStart, ReactCallFails, Interrupted,
         Fails, Raise, Goto, RouteAfterPrecheck, RouteAfterFetchTrace, RouteAfterParse,
         RouteAfterMini
    <2>2. QED
      BY <1>1, <2>1 DEF Preflight, PrecheckAlreadyFixed, FetchTrace, ParseTrace,
         FetchSourceFile, MiniReactLoop, ReactStart, ReactCallFails, server, hist, Early, Nodes
  <1>2. CASE ReactCall \/ ReactStop \/ CreateFixBranch
    <2>1. pc' \notin {"wait_ci_result", "create_mr"}
      BY <1>2 DEF ReactCall, Answered, GoesOn, FetchTool, ReactStop, ReactExit,
         RouteAfterReact, CreateFixBranch, RouteAfterBranch, Fails, Raise, Goto
    <2>2. QED
      BY <1>2, <2>1 DEF ReactCall, ReactStop, CreateFixBranch, server, hist, Early, Nodes
  <1>3. CASE ApplyChangeAndTest
    BY <1>3, ApplyStep DEF ApplyChangeAndTest, server, Early, Nodes
  <1>4. CASE CodeReview
    BY <1>4 DEF CodeReview, Goto, RouteAfterReview, server, hist, Early, Nodes
  <1> QED
    BY <1>1, <1>2, <1>3, <1>4

LEMMA CommitStep ==
    ASSUME TypeOK, Position, PushedOnce, CommitChange, crashes = 0, conf.scm = "gitlab"
    PROVE  Awaited' /\ NoRequests'
  <1> USE AbsentAssumption
  <1>1. Unpushed /\ NoRequests
    BY DEF PushedOnce, CommitChange, Early, Nodes
  <1>2. CASE UNCHANGED server
    BY <1>1, <1>2 DEF CommitChange, server, Unpushed, NoRequests, Awaited
  <1>3. CASE PushHead
    <2>1. clone \in Clone /\ UNCHANGED <<mr, inbox>>
      BY <1>3 DEF CommitChange, Position, TypeOK, PushHead
    <2>2. CASE clone.branch = BaseBranch
      BY <1>1, <1>3, <2>1, <2>2 DEF PushHead, Unpushed, NoRequests, Awaited
    <2>3. CASE clone.branch \in Names
      <3>1. /\ remote' = [remote EXCEPT ![clone.branch] = clone.tree]
            /\ pipelines' \subseteq {[name |-> clone.branch, tree |-> clone.tree]}
        BY <1>1, <1>3, <2>3 DEF PushHead, Unpushed
      <3>2. \A b \in Names : remote'[b] # NoTree => b = clone.branch /\ remote'[b] = clone.tree
        BY <1>1, <2>3, <3>1 DEF Unpushed, TypeOK
      <3>3. QED
        BY <1>1, <2>1, <3>1, <3>2 DEF Awaited, PushesAre, Unpushed, NoRequests
    <2>4. QED
      BY <2>1, <2>2, <2>3 DEF Clone
  <1>4. QED
    BY <1>2, <1>3 DEF CommitChange, GitlabCommit, LocalCommit, PlainCommit

LEMMA VerdictStep ==
    ASSUME TypeOK, Awaited, NEW p \in pipelines, NEW verdict \in {"success", "failed"},
           UNCHANGED remote, pipelines' = pipelines \ {p},
           green' = IF verdict = "success" THEN green \cup {p} ELSE green,
           inbox' \in {inbox, Append(inbox, [push |-> p, status |-> verdict])}
    PROVE  Awaited'
  <1>1. inbox \in Seq(Verdicts) /\ [push |-> p, status |-> verdict] \in Verdicts
    BY DEF TypeOK, Verdicts
  <1>2. \A q \in pipelines' : PushesAre({q})
    BY DEF Awaited
  <1>3. green \subseteq green' /\ (verdict = "success" => p \in green')
    OBVIOUS
  <1>4. ASSUME NEW i \in 1..Len(inbox')
        PROVE  /\ PushesAre({inbox'[i].push})
               /\ inbox'[i].status = "success" => inbox'[i].push \in green'
    <2>1. CASE inbox' = inbox
      BY <1>3, <1>4, <2>1 DEF Awaited
    <2>2. CASE inbox' = Append(inbox, [push |-> p, status |-> verdict])
      <3>1. CASE i \in 1..Len(inbox)
        BY <1>1, <1>3, <2>2, <3>1 DEF Awaited
      <3>2. CASE i = Len(inbox) + 1
        <4>1. inbox'[i].push = p /\ inbox'[i].status = verdict
          BY <1>1, <2>2, <3>2
        <4>2. QED
          BY <1>3, <4>1 DEF Awaited
      <3>3. Len(inbox') = Len(inbox) + 1 /\ Len(inbox) \in Nat
        BY <1>1, <2>2
      <3>4. i \in 1..Len(inbox) \/ i = Len(inbox) + 1
        BY <1>4, <3>3
      <3>5. QED
        BY <3>1, <3>2, <3>4
    <2>3. QED
      BY <2>1, <2>2
  <1>5. QED
    BY <1>2, <1>4 DEF Awaited, PushesAre

LEMMA PushedOnceStep ==
    ASSUME TypeOK, Position, OnItsBranch, PushedOnce, [Next]_vars
    PROVE  PushedOnce'
  <1> USE AbsentAssumption
  <1>1. SUFFICES ASSUME crashes' = 0
                 PROVE  PushedOnce'
    BY DEF PushedOnce
  <1>2. crashes = 0 /\ conf' = conf
    BY <1>1, Monotone
  <1>a. ASSUME NoRequests' PROVE RequestsAreGreen'
    BY <1>a DEF NoRequests, RequestsAreGreen
  <1>3. CASE Preflight \/ PrecheckAlreadyFixed \/ FetchTrace \/ ParseTrace \/ FetchSourceFile
             \/ MiniReactLoop \/ ReactStart \/ ReactCall \/ ReactCallFails \/ ReactStop
             \/ CreateFixBranch \/ ApplyChangeAndTest \/ CodeReview
    <2>1. /\ pc \in Early /\ pc' \notin {"wait_ci_result", "create_mr"}
          /\ UNCHANGED <<conf, remote, mr, pipelines, inbox, crashes, green>>
      BY <1>3, EarlyStep
    <2>2. NoRequests'
      BY <1>2, <2>1 DEF PushedOnce, NoRequests, Early, Nodes
    <2>3. QED
      BY <1>2, <1>a, <2>1, <2>2 DEF PushedOnce, Unpushed
  <1>4. CASE CommitChange
    <2>1. pc' \in {"wait_ci_result", "done"}
      BY <1>4 DEF CommitChange, GitlabCommit, LocalCommit, PlainCommit, Fails, Interrupted,
         Raise, Goto
    <2>2. CASE conf.scm = "gitlab"
      BY <1>2, <1>4, <1>a, <2>1, <2>2, CommitStep DEF PushedOnce, Early, Nodes
    <2>3. CASE conf.scm # "gitlab"
      <3>1. mr' = mr
        BY <1>4, <2>3 DEF CommitChange, GitlabCommit, LocalCommit, PlainCommit, server
      <3>2. NoRequests'
        BY <1>2, <2>3, <3>1 DEF PushedOnce, NoRequests
      <3>3. QED
        BY <1>2, <1>a, <2>3, <3>2 DEF PushedOnce
    <2>4. QED
      BY <2>2, <2>3
  <1>5. CASE SkipCI \/ WaitCIResult \/ WaitTimesOut
    <2>1. /\ pc' \in {"create_mr", "handle_failure"} /\ pc = "wait_ci_result"
          /\ UNCHANGED <<remote, mr, green>>
      BY <1>5 DEF SkipCI, WaitCIResult, WaitTimesOut, Goto, RouteAfterCI, server, hist
    <2>2. NoRequests'
      BY <1>2, <2>1 DEF PushedOnce, NoRequests
    <2>3. ASSUME pc' = "create_mr", conf.scm = "gitlab" PROVE PushesAre(green)'
      <3>1. WaitCIResult /\ Head(inbox).status = "success"
        BY <1>5, <2>3 DEF SkipCI, WaitCIResult, WaitTimesOut, Goto, RouteAfterCI, TypeOK, State
      <3>2. inbox \in Seq(Verdicts) /\ inbox # <<>>
        BY <3>1 DEF TypeOK, Verdicts, WaitCIResult
      <3>3. 1 \in 1..Len(inbox) /\ Head(inbox) = inbox[1]
        BY <3>2
      <3>4. QED
        BY <1>2, <2>1, <2>3, <3>1, <3>3 DEF PushedOnce, Awaited, PushesAre
    <2>4. QED
      BY <1>2, <1>a, <2>1, <2>2, <2>3 DEF PushedOnce, Early, Nodes
  <1>6. CASE CreateMR
    <2>1. /\ pc' \in {"END", "done"} /\ conf.scm = "gitlab" /\ pc = "create_mr"
          /\ UNCHANGED <<remote, green>>
      BY <1>6 DEF CreateMR, Interrupted, Fails, Raise, Goto, hist
    <2>2. RequestsAreGreen'
      BY <1>2, <2>1 DEF PushedOnce, PushesAre, RequestsAreGreen
    <2>3. QED
      BY <1>2, <2>1, <2>2 DEF PushedOnce, Early, Nodes
  <1>7. CASE LocalReview \/ HandleFailure \/ Finish
    <2>1. pc' \in {"END", "done"} /\ UNCHANGED <<remote, mr, green>>
      BY <1>7 DEF LocalReview, HandleFailure, Finish, Goto, server, hist
    <2>2. QED
      BY <1>2, <2>1 DEF PushedOnce, Early, Nodes, NoRequests, RequestsAreGreen
  <1>8. CASE Crash \/ Restart
    BY <1>1, <1>2, <1>8, BoundsAssumption DEF Crash, Restart, OnItsBranch, TypeOK
  <1>9. CASE PipelineEnds
    <2>1. PICK p \in pipelines, verdict \in {"success", "failed"} :
            /\ pipelines' = pipelines \ {p}
            /\ green' = IF verdict = "success" THEN green \cup {p} ELSE green
            /\ inbox' \in {inbox, Append(inbox, [push |-> p, status |-> verdict])}
            /\ UNCHANGED <<conf, run, base, remote, mr, crashes, tested>>
      BY <1>9 DEF PipelineEnds
    <2>2. UNCHANGED <<pc, remote, mr>> /\ green \subseteq green' /\ pipelines # {}
      BY <2>1 DEF run
    <2>3. RequestsAreGreen'
      BY <1>2, <2>2 DEF PushedOnce, RequestsAreGreen
    <2>4. Awaited => Awaited'
      BY <2>1, <2>2, VerdictStep
    <2>5. QED
      BY <1>2, <2>2, <2>3, <2>4 DEF PushedOnce, PushesAre, NoRequests, Unpushed
  <1>10. CASE Merge
    <2>1. PICK b \in Names :
            /\ mr[b] = "opened"
            /\ mr' = [mr EXCEPT ![b] = "merged"]
            /\ remote' = [remote EXCEPT ![b] = NoTree]
            /\ UNCHANGED <<conf, run, pipelines, inbox, crashes, faults, hist>>
      BY <1>10 DEF Merge
    <2>2. pc \in {"END", "done"} /\ conf.scm = "gitlab" /\ pc' = pc /\ green' = green
      BY <1>2, <2>1 DEF PushedOnce, NoRequests, run, hist
    <2>3. RequestsAreGreen'
      BY <1>2, <2>1, <2>2 DEF PushedOnce, RequestsAreGreen, TypeOK
    <2>4. QED
      BY <1>2, <2>2, <2>3 DEF PushedOnce, Early, Nodes
  <1>11. CASE Close
    <2>1. PICK b \in Names :
            /\ mr[b] = "opened"
            /\ mr' = [mr EXCEPT ![b] = "closed"]
            /\ UNCHANGED <<conf, run, base, remote, pipelines, inbox, crashes, faults, hist>>
      BY <1>11 DEF Close
    <2>2. pc \in {"END", "done"} /\ conf.scm = "gitlab" /\ UNCHANGED <<pc, remote, green>>
      BY <1>2, <2>1 DEF PushedOnce, NoRequests, run, hist
    <2>3. RequestsAreGreen'
      BY <1>2, <2>1, <2>2 DEF PushedOnce, RequestsAreGreen, TypeOK
    <2>4. QED
      BY <1>2, <2>2, <2>3 DEF PushedOnce, Early, Nodes
  <1>12. CASE AcceptPatch \/ UNCHANGED vars
    <2>1. UNCHANGED <<pc, remote, mr, pipelines, inbox, crashes, green>>
      BY <1>12 DEF AcceptPatch, vars, run, hist
    <2>2. QED
      BY <1>2, <2>1 DEF PushedOnce, NoRequests, Unpushed, Awaited, PushesAre, RequestsAreGreen
  <1> QED
    BY <1>3, <1>4, <1>5, <1>6, <1>7, <1>8, <1>9, <1>10, <1>11, <1>12 DEF Next, WorkerStep

\* Without a kill, a request on the server shows a tree whose own pipeline
\* succeeded: no route from a failed, late or missing verdict opens one.
THEOREM RequestsAreGreenTheorem == Spec => []RequestsAreGreen
  <1>1. Init => OnItsBranch /\ PushedOnce
    BY DEF Init, OnItsBranch, Blank, PushedOnce, NoRequests, Unpushed, RequestsAreGreen
  <1>2. TypeOK /\ Position /\ OnItsBranch /\ PushedOnce /\ [Next]_vars
          => (OnItsBranch /\ PushedOnce)'
    BY OnItsBranchStep, PushedOnceStep
  <1>3. PushedOnce => RequestsAreGreen
    BY DEF PushedOnce, RequestsAreGreen
  <1>4. QED
    BY <1>1, <1>2, <1>3, WorkflowTypes, PTL DEF Spec
=============================================================================
