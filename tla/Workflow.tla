------------------------------ MODULE Workflow ------------------------------
(***************************************************************************)
(* One bug's run through the fix workflow: the LangGraph nodes and routes   *)
(* of bf_worker/graph, driven by LangGraphAgent.fix after the credential and *)
(* model checks, over the GitLab provider (the worker's clone, the remote   *)
(* branches, the merge requests and the CI pipelines whose verdicts reach   *)
(* the worker's inbox stream) or over one of the two local providers.  The  *)
(* process may be killed anywhere; the health monitor starts a worker again *)
(* under the same bug_id until it has set its completion key, and a person  *)
(* may start a standalone run again.                                        *)
(*                                                                          *)
(* A tree is the set of submitted patches it contains.  A fix branch is     *)
(* named for the version of the base branch it was cut from.  LangGraph     *)
(* itself (external) keeps the state of a thread between invocations and    *)
(* writes it at every node boundary.                                        *)
(***************************************************************************)
EXTENDS Naturals, Sequences, FiniteSets

CONSTANTS
    Patches,          \* what the model may submit
    MaxSteps,         \* react_loop.MAX_STEPS
    MaxCalls,         \* RunBudget.max_calls
    MaxFixRetries,    \* routing.MAX_FIX_RETRIES, also the reflection cap
    NoFixMaxRetries,  \* routing.NO_FIX_MAX_RETRIES
    MaxRounds,        \* CodeReviewConfig.max_rounds
    MaxCrashes,       \* bound: kills of the process
    MaxFaults,        \* bound: failed calls, lost verdicts and lost answers
    MaxBase,          \* bound: how often the base branch moves
    Confs,            \* the deployments looked at, a subset of Conf
    NoName, NoPatch, NoTree, NoClone,  \* what is absent
    BaseBranch        \* the branch checked out in a fresh clone

ASSUME BoundsAssumption ==
    /\ MaxSteps \in Nat \ {0} /\ MaxCalls \in Nat /\ MaxFixRetries \in Nat
    /\ NoFixMaxRetries \in Nat /\ MaxRounds \in Nat /\ MaxCrashes \in Nat
    /\ MaxFaults \in Nat /\ MaxBase \in Nat

\* The provider (GitLab, the user's git repository, a copy of a plain
\* directory) and, for a git repository, whether its HEAD has a parent;
\* workflow_ver, cfg.llm_via_gateway, the reviewer's mode, whether the
\* reflection hook is registered, whether a checkpoint store survives, what
\* the GitLab token may do, and whether a self-hosted backend serves the model
\* the environment names.
Conf == [scm : {"gitlab", "local", "plain"}, depth : {0, 1}, ver : {0, 99},
         gateway : BOOLEAN, review : {"off", "shadow", "acting"},
         reflect : BOOLEAN, checkpoint : BOOLEAN,
         token : {"dead", "weak", "ok"}, model : {"match", "mismatch"}]

Names == 0..MaxBase                  \* auto/bf/{bug_id}-{base commit}

ASSUME ConfsAssumption == Confs \subseteq Conf /\ \A c \in Confs : c.depth \in Names

Trees == SUBSET Patches

Nodes == {"preflight", "precheck_already_fixed", "fetch_trace", "parse_trace",
          "fetch_source_file", "mini_react_loop", "react_loop", "react_calls",
          "create_fix_branch", "apply_change_and_test", "code_review",
          "commit_change", "wait_ci_result", "create_mr", "handle_failure",
          "END"}

VARIABLES
    conf,       \* this deployment
    pc,         \* the node about to run, "down" (killed) or "done"
    st,         \* BugFixState, as checkpointed at the last node boundary
    steps,      \* step_count of this react_loop
    calls,      \* RunBudget.calls of this process
    prompt,     \* the retry feedback this react_loop shows the model
    clone,      \* this process's working copy
    base,       \* the base branch: its version and its tree
    remote,     \* the fix branches on the server; 0 is a plain run's patch file
    mr,         \* the merge request of each fix branch
    pipelines,  \* pushes of fix branches whose pipeline has not ended
    inbox,      \* verdicts in the worker's inbox stream, not yet read
    outcome,    \* FixOutput.outcome
    crashes, faults,
    tested,     \* history: trees apply_change_and_test accepted
    green       \* history: pushes whose own pipeline succeeded

run    == <<pc, st, steps, calls, prompt, clone, outcome>>
server == <<base, remote, mr, pipelines>>
hist   == <<tested, green>>
vars   == <<conf, pc, st, steps, calls, prompt, clone, base, remote, mr,
            pipelines, inbox, outcome, crashes, faults, tested, green>>

Push == [name : Names, tree : Trees]

State == [fix_branch_name : Names \cup {NoName},
          llm_result : Patches \cup {NoPatch},
          fix_retry_count : Nat, no_fix_retry_count : Nat,
          test_passed : BOOLEAN, test_output : BOOLEAN, apply_error : BOOLEAN,
          reflection_count : Nat, reflection_note : BOOLEAN,
          code_review_status : {"none", "escalated", "recorded"},
          code_review_rounds : Nat, code_review_note : BOOLEAN,
          ci_status : {"none", "success", "failed", "timeout"},
          already_fixed : BOOLEAN, error : BOOLEAN]

Clone == [branch : Names \cup {BaseBranch}, cut : {"base", "fix"}, ver : Names,
          head : Trees, tree : Trees]

ASSUME AbsentAssumption ==
    /\ NoPatch \notin Patches /\ NoName \notin Names /\ BaseBranch \notin Names
    /\ (\A t \in Trees : t # NoTree) /\ (\A c \in Clone : c # NoClone)

-----------------------------------------------------------------------------
(* The state, the budget, the routes.                                       *)

Blank == [fix_branch_name |-> NoName, llm_result |-> NoPatch,
          fix_retry_count |-> 0, no_fix_retry_count |-> 0,
          test_passed |-> FALSE, test_output |-> FALSE, apply_error |-> FALSE,
          reflection_count |-> 0, reflection_note |-> FALSE,
          code_review_status |-> "none", code_review_rounds |-> 0,
          code_review_note |-> FALSE, ci_status |-> "none",
          already_fixed |-> FALSE, error |-> FALSE]

\* fix() invokes the graph with initial_state, so the graph starts at its
\* entry; keys that initial_state does not name keep what the thread had.
Started(s) == IF conf.checkpoint THEN [s EXCEPT !.fix_retry_count = 0] ELSE Blank

Exhausted == calls >= MaxCalls

OneMoreFault == faults < MaxFaults /\ faults' = faults + 1

RouteAfterPrecheck(s) == IF s.already_fixed THEN "END" ELSE "fetch_trace"

RouteAfterFetchTrace == IF conf.ver = 99 THEN "mini_react_loop" ELSE "parse_trace"

RouteAfterParse(suspect) == IF suspect THEN "fetch_source_file" ELSE "react_loop"

RouteAfterMini(s) ==
    IF s.llm_result # NoPatch THEN "create_fix_branch" ELSE "handle_failure"

RouteAfterReact(s) ==
    CASE s.llm_result # NoPatch /\ s.fix_branch_name # NoName -> "apply_change_and_test"
      [] s.llm_result # NoPatch /\ s.fix_branch_name = NoName -> "create_fix_branch"
      [] OTHER -> IF conf.gateway /\ s.no_fix_retry_count <= NoFixMaxRetries
                  THEN "react_loop" ELSE "handle_failure"

RouteAfterBranch(s) == IF s.already_fixed THEN "END" ELSE "apply_change_and_test"

\* a retry that skips the tests' verdict once the retries are spent
RouteUntested(s) ==
    IF s.test_passed \/ s.fix_retry_count >= MaxFixRetries THEN "code_review" ELSE "react_loop"

RouteAfterApply(s) ==
    CASE s.test_passed -> "code_review"
      [] ~s.test_passed /\ conf.ver # 99 /\ s.fix_retry_count < MaxFixRetries -> "react_loop"
      [] OTHER -> "handle_failure"

RouteAfterReview(s) ==
    IF s.code_review_status = "escalated" THEN "react_loop" ELSE "commit_change"

\* a route that forgets the verdict and looks only at whether one arrived
RouteAnyVerdict(s) == IF s.ci_status # "timeout" THEN "create_mr" ELSE "handle_failure"

RouteAfterCI(s) == IF s.ci_status = "success" THEN "create_mr" ELSE "handle_failure"

Goto(node) == pc' = node /\ UNCHANGED outcome

\* The errors that leave a provider call, and classify_transient.
Errors == {"http", "os", "git", "refused"}
Transient(e) == e \in {"http", "os"}

\* An exception leaves the node: fix() reports the run as an error.
Raise == pc' = "done" /\ outcome' = "error"

\* Another request or command of this process fails, up to the fault budget.
Fails == OneMoreFault /\ Raise
Fine  == UNCHANGED faults

\* with_transient_retry: a transient error is tried again, which may run out;
\* any other is raised at once.
Interrupted(e, again) == OneMoreFault /\ ((Transient(e) /\ Goto(again)) \/ Raise)

-----------------------------------------------------------------------------
(* Before the graph: the checks of the credential and of the served model.  *)

\* _probe_identity and _probe_project: a probe that gets no answer decides
\* nothing, and the next one is asked.
IdentityRefused(answered) == answered /\ conf.token = "dead"

\* a check that forgets the role
ProjectRefusedDead(answered) == answered /\ conf.token = "dead"

ProjectRefused(answered) == answered /\ conf.token \in {"dead", "weak"}

TokenRefused(identity, project) ==
    conf.scm = "gitlab" /\ (IdentityRefused(identity) \/ ProjectRefused(project))

\* Only a self-hosted backend without a gateway in front is asked what it serves.
ModelRefused(answered) == ~conf.gateway /\ answered /\ conf.model = "mismatch"

\* SystemExit: the worker's finally still sets the completion key.
Preflight ==
    /\ pc = "preflight"
    /\ \E identity, project, model \in BOOLEAN :
          /\ IF identity /\ project /\ model THEN Fine ELSE OneMoreFault
          /\ IF TokenRefused(identity, project) \/ ModelRefused(model)
             THEN pc' = "done" /\ outcome' = "refused"
             ELSE Goto("precheck_already_fixed")
    /\ UNCHANGED <<conf, st, steps, calls, prompt, clone, server, inbox, crashes, hist>>

-----------------------------------------------------------------------------
(* The working copy.                                                        *)

\* Repo.ensure_repo_ready: a clone has the base branch checked out; a plain
\* run copies the source directory.
Cloned == [branch |-> BaseBranch, cut |-> "base", ver |-> base.ver,
           head |-> base.tree, tree |-> base.tree]

\* ensure_repo_ready makes its copy once per process; a local run works in the
\* user's own repository.
RepoReady == IF clone = NoClone THEN Cloned ELSE clone

\* What outlives the process: the user's repository, with the edits in it.
Kept(c) == IF conf.scm = "local" THEN c ELSE NoClone

-----------------------------------------------------------------------------
(* From the report to a proposed patch.                                     *)

\* A merged request of any base, by the prefix of its branch.
MergedSomewhere == \E b \in Names : mr[b] = "merged"

\* A failed probe passes through; the route still reads the thread's state.
PrecheckAlreadyFixed ==
    /\ pc = "precheck_already_fixed"
    /\ \/ /\ Fine
          /\ st' = [st EXCEPT !.already_fixed = @ \/ (conf.token # "dead" /\ MergedSomewhere)]
       \/ conf.scm = "gitlab" /\ OneMoreFault /\ UNCHANGED st
    /\ Goto(RouteAfterPrecheck(st'))
    /\ UNCHANGED <<conf, steps, calls, prompt, clone, server, inbox, crashes, hist>>

\* The job's trace from GitLab, or an answer that the token is dead.
GitlabTrace ==
    /\ conf.scm = "gitlab" /\ UNCHANGED clone
    /\ \/ conf.token # "dead" /\ Fine /\ Goto(RouteAfterFetchTrace)
       \/ conf.token = "dead" /\ Fine /\ Raise
       \/ \E e \in {"http", "refused"} : Interrupted(e, RouteAfterFetchTrace) /\ conf.token # "dead"

\* A local run reads a trace file or runs the tests, a plain one in its copy;
\* a failing venv or pip command raises.
LocalTrace ==
    /\ conf.scm # "gitlab"
    /\ clone' \in {clone, RepoReady}
    /\ (Fine /\ Goto(RouteAfterFetchTrace)) \/ Fails

FetchTrace ==
    /\ pc = "fetch_trace"
    /\ GitlabTrace \/ LocalTrace
    /\ UNCHANGED <<conf, st, steps, calls, prompt, server, inbox, crashes, hist>>

\* services.parse_trace: an error line and, below it, the path of a file.
Traces == {"empty", "no_error", "no_path", "error_and_path"}
SuspectFound(trace) == trace = "error_and_path"

\* Without both the loop works from the raw trace; an empty trace raises.
ParseTrace ==
    /\ pc = "parse_trace"
    /\ \E trace \in Traces :
          IF trace = "empty" THEN Raise ELSE Goto(RouteAfterParse(SuspectFound(trace)))
    /\ UNCHANGED <<conf, st, steps, calls, prompt, clone, server, inbox, crashes, faults, hist>>

\* A file that cannot be read is not an error: the loop works from the trace.
FetchSourceFile ==
    /\ pc = "fetch_source_file"
    /\ Goto("react_loop")
    /\ UNCHANGED <<conf, st, steps, calls, prompt, clone, server, inbox, crashes, faults, hist>>

\* mini's own loop is modelled by StepResume; here it ends with a diff, with
\* none, or with an error that the node records.  llm_result stands for
\* model_patch on this path.
MiniReactLoop ==
    /\ pc = "mini_react_loop"
    /\ \/ Fine /\ \E p \in Patches \cup {NoPatch} : st' = [st EXCEPT !.llm_result = p]
       \/ OneMoreFault /\ st' = [st EXCEPT !.llm_result = NoPatch, !.error = TRUE]
    /\ Goto(RouteAfterMini(st'))
    /\ UNCHANGED <<conf, steps, calls, prompt, clone, server, inbox, crashes, hist>>

\* _format_retry_feedback: nothing on a first cycle, whatever else is set.
RetryFeedback(s) ==
    IF s.fix_retry_count = 0 THEN {}
    ELSE {sec \in {"reflection", "code_review", "prior_patch", "apply_error", "test_output"} :
            CASE sec = "reflection"  -> s.reflection_note
              [] sec = "code_review" -> s.code_review_note
              [] sec = "prior_patch" -> s.llm_result # NoPatch
              [] sec = "apply_error" -> s.apply_error
              [] sec = "test_output" -> s.test_output}

ReactStart ==
    /\ pc = "react_loop"
    /\ Goto("react_calls")
    /\ steps' = 0 /\ prompt' = RetryFeedback(st)
    /\ UNCHANGED <<conf, st, calls, clone, server, inbox, crashes, faults, hist>>

\* What the node returns: the result, the bumped counter, and the cleared
\* traces of the cycle before.
ReactExit(result) ==
    /\ st' = [st EXCEPT !.llm_result = result,
                        !.no_fix_retry_count = IF result = NoPatch THEN @ + 1 ELSE @,
                        !.test_passed = FALSE, !.test_output = FALSE, !.apply_error = FALSE]
    /\ Goto(RouteAfterReact(st'))
    /\ steps' = 0 /\ prompt' = {}

\* A reply with a structured call, with a call left in its text, or neither.
Replies == {"tool_calls", "content", "prose"}
HasCall(reply) == reply \in {"tool_calls", "content"}

GoesOn == Goto(pc) /\ steps' = steps + 1 /\ UNCHANGED <<st, prompt>>

\* A fetch answers with the file or with a message that says why not; one
\* without its arguments raises.
FetchTool == GoesOn \/ (Raise /\ UNCHANGED <<st, steps, prompt>>)

\* A reply is read: without a call the model is nudged; an abort or an empty
\* submission ends the loop with nothing.
Answered ==
    \E reply \in Replies :
        \/ ~HasCall(reply) /\ GoesOn
        \/ HasCall(reply) /\ (FetchTool \/ \E p \in Patches \cup {NoPatch} : ReactExit(p))

\* a step without the budget check
ReactCallUnchecked ==
    /\ pc = "react_calls" /\ steps < MaxSteps
    /\ calls' = calls + 1
    /\ Answered
    /\ UNCHANGED <<conf, clone, server, inbox, crashes, faults, hist>>

\* One step: the budget check, the call with its own retries, the reply.
ReactCall ==
    /\ pc = "react_calls" /\ steps < MaxSteps /\ ~Exhausted
    /\ calls' = calls + 1
    /\ Answered
    /\ UNCHANGED <<conf, clone, server, inbox, crashes, faults, hist>>

\* An error of the LLM client outlives its retries.
ReactCallFails ==
    /\ pc = "react_calls" /\ steps < MaxSteps /\ ~Exhausted
    /\ Fails
    /\ UNCHANGED <<conf, st, steps, calls, prompt, clone, server, inbox, crashes, hist>>

ReactStop ==
    /\ pc = "react_calls" /\ (steps = MaxSteps \/ Exhausted)
    /\ ReactExit(NoPatch)
    /\ UNCHANGED <<conf, calls, clone, server, inbox, crashes, faults, hist>>

-----------------------------------------------------------------------------
(* The fix branch, the patch and its tests.                                 *)

\* With a branch already in the state, the node only checks it out and drops
\* the edits; a failing checkout is ignored.  From a fresh clone only a branch
\* on the server can be checked out.
ReuseBranch(b) ==
    /\ clone' = CASE conf.scm = "local" -> [clone EXCEPT !.branch = b, !.tree = clone.head]
                  [] conf.scm = "gitlab" /\ remote[b] # NoTree ->
                       [RepoReady EXCEPT !.branch = b, !.cut = "fix",
                                         !.head = remote[b], !.tree = remote[b]]
                  [] OTHER -> RepoReady
    /\ UNCHANGED st

\* The request a look-up of the branch returns: an open one, or a merged one.
FoundMR(b) == IF mr[b] \in {"opened", "merged"} THEN mr[b] ELSE "none"

\* Named for the commit it is cut from; a plain run has one label.
BranchName == CASE conf.scm = "gitlab" -> base.ver
                [] conf.scm = "local"  -> clone.ver
                [] conf.scm = "plain"  -> 0

\* a branch that is named and never checked out
CutBranchStays(found) ==
    /\ conf.scm = "gitlab"
    /\ clone' = Cloned
    /\ st' = [st EXCEPT !.fix_branch_name = BranchName,
                        !.already_fixed = @ \/ (found /\ FoundMR(BranchName) = "merged")]

\* GitLab: clone again, check out and pull the base, cut the branch, and ask
\* for the request of a branch of that name if the server has one.
CutBranch(found) ==
    /\ conf.scm = "gitlab"
    /\ clone' = [Cloned EXCEPT !.branch = BranchName]
    /\ st' = [st EXCEPT !.fix_branch_name = BranchName,
                        !.already_fixed = @ \/ (found /\ remote[BranchName] # NoTree
                                                      /\ FoundMR(BranchName) = "merged")]

\* Locally the branch is cut where the user's HEAD is, edits and all, or the
\* one of that name is checked out; a plain run only notes its label.
CutLocalBranch ==
    /\ conf.scm # "gitlab"
    /\ clone' = IF conf.scm = "local" THEN [clone EXCEPT !.branch = BranchName] ELSE RepoReady
    /\ st' = [st EXCEPT !.fix_branch_name = BranchName]

CreateFixBranch ==
    /\ pc = "create_fix_branch"
    /\ \/ /\ st.fix_branch_name # NoName
          /\ ReuseBranch(st.fix_branch_name) /\ Fine
          /\ Goto(RouteAfterBranch(st'))
       \/ /\ st.fix_branch_name = NoName
          /\ (CutBranch(TRUE) /\ Fine) \/ (CutBranch(FALSE) /\ OneMoreFault)
             \/ (CutLocalBranch /\ Fine)
          /\ Goto(RouteAfterBranch(st'))
       \/ Fails /\ UNCHANGED <<st, clone>>
    /\ UNCHANGED <<conf, steps, calls, prompt, server, inbox, crashes, hist>>

\* _finalize: on a failure the reflection hook may add its note, within its
\* cap; a crashed apply gets a fixed note, a failed test one from the model.
Reflected(s) ==
    \/ s.reflection_count < MaxFixRetries /\ s.apply_error /\ conf.reflect
         /\ st' = [s EXCEPT !.reflection_note = TRUE, !.reflection_count = @ + 1]
         /\ UNCHANGED calls
    \/ s.reflection_count < MaxFixRetries /\ ~s.apply_error /\ conf.reflect /\ ~Exhausted
         /\ st' \in {s, [s EXCEPT !.reflection_note = TRUE, !.reflection_count = @ + 1]}
         /\ calls' = calls + 1
    \/ ~(conf.reflect /\ s.reflection_count < MaxFixRetries /\ s.apply_error)
         /\ st' = s /\ UNCHANGED calls

Passes(tree) ==
    /\ st' = [st EXCEPT !.test_passed = TRUE, !.apply_error = FALSE, !.test_output = TRUE]
    /\ tested' = tested \cup {tree}
    /\ UNCHANGED <<calls, green>>

\* A rejection or a failing test counts as a retry; any other exception out
\* of the patching does not.
FailsWith(applyError, counted) ==
    /\ Reflected([st EXCEPT !.test_passed = FALSE, !.apply_error = applyError,
                            !.test_output = TRUE,
                            !.fix_retry_count = IF counted THEN @ + 1 ELSE @])
    /\ UNCHANGED hist

Patched == [RepoReady EXCEPT !.tree = @ \cup {st.llm_result}]

\* A fix that names no file, and a patch over the caps or outside the scope,
\* are refused before anything is written.
PathMissing == clone' = RepoReady /\ FailsWith(TRUE, TRUE)
OutOfScope  == clone' = RepoReady /\ FailsWith(TRUE, TRUE)

\* Files are rewritten one by one, each once all its lines were found, so a
\* patch that fails at a later file stays in the earlier ones.
AnchorMissing == clone' \in {Patched, RepoReady} /\ FailsWith(TRUE, TRUE)
WriteFails    == clone' \in {Patched, RepoReady} /\ FailsWith(TRUE, FALSE)

RunTests == clone' = Patched /\ (Passes(Patched.tree) \/ FailsWith(FALSE, TRUE))

PatchAndTest ==
    /\ conf.ver # 99
    /\ PathMissing \/ OutOfScope \/ AnchorMissing \/ WriteFails \/ RunTests

\* git apply of mini's diff, or the ladder of fallbacks runs out.
ApplyModelPatch ==
    /\ conf.ver = 99
    /\ \/ /\ clone' = [RepoReady EXCEPT !.tree = @ \cup {st.llm_result}]
          /\ Passes(clone'.tree)
       \/ /\ clone' = RepoReady
          /\ Reflected([st EXCEPT !.test_passed = FALSE, !.apply_error = TRUE,
                                  !.test_output = TRUE, !.error = TRUE])
          /\ UNCHANGED hist

\* A fix entry that is no object raises; so does a failing venv or pip command,
\* unlike a failing test.
ApplyChangeAndTest ==
    /\ pc = "apply_change_and_test"
    /\ \/ (PatchAndTest \/ ApplyModelPatch) /\ Goto(RouteAfterApply(st')) /\ Fine
       \/ conf.ver # 99 /\ Raise /\ Fine /\ clone' = RepoReady /\ UNCHANGED <<st, calls, hist>>
       \/ Fails /\ clone' \in {RepoReady, Patched} /\ UNCHANGED <<st, calls, hist>>
    /\ UNCHANGED <<conf, steps, prompt, server, inbox, crashes>>

-----------------------------------------------------------------------------
(* The reviewer of a passing patch.                                         *)

\* A finding of high severity and confidence, in acting mode.
Escalates ==
    /\ conf.review = "acting" /\ conf.ver # 99 /\ ~Exhausted
    /\ calls' = calls + 1
    /\ st' = IF st.code_review_rounds < MaxRounds
             THEN [st EXCEPT !.code_review_status = "escalated",
                             !.code_review_rounds = @ + 1, !.code_review_note = TRUE]
             ELSE [st EXCEPT !.code_review_status = "recorded"]

\* Disabled; skipped for lack of budget or files, or an error; or recorded.
Records ==
    \/ conf.review = "off" /\ UNCHANGED <<st, calls>>
    \/ conf.review # "off" /\ UNCHANGED calls
         /\ st' = [st EXCEPT !.code_review_status = "recorded"]
    \/ conf.review # "off" /\ conf.ver # 99 /\ ~Exhausted
         /\ calls' = calls + 1
         /\ st' = [st EXCEPT !.code_review_status = "recorded", !.code_review_note = FALSE]

CodeReview ==
    /\ pc = "code_review"
    /\ Escalates \/ Records
    /\ Goto(RouteAfterReview(st'))
    /\ UNCHANGED <<conf, steps, prompt, clone, server, inbox, crashes, faults, hist>>

-----------------------------------------------------------------------------
(* Commit, push, verdict, merge request.                                    *)

Moved(v) == IF v < MaxBase THEN v + 1 ELSE v

\* _idempotent_push: the same tree is left alone, anything else is pushed,
\* by force when the histories have diverged.  A fix branch gets a pipeline.
PushHead ==
    LET b == clone.branch
        t == clone.tree
    IN  IF b = BaseBranch
        THEN /\ base' = [ver |-> Moved(base.ver), tree |-> t]
             /\ UNCHANGED <<remote, mr, pipelines>>
        ELSE /\ remote' = [remote EXCEPT ![b] = t]
             /\ pipelines' = IF remote[b] = t THEN pipelines
                             ELSE pipelines \cup {[name |-> b, tree |-> t]}
             /\ UNCHANGED <<base, mr>>

\* A failed look-up reads as "no such branch"; the plain push that follows is
\* refused when the branch exists and this clone was not cut from it.
Refused == clone.branch \in Names /\ remote[clone.branch] # NoTree /\ clone.cut = "base"

\* Commit, then push.  The retry after a failure between the two finds nothing
\* to commit; the server turns down a token below Developer.
GitlabCommit ==
    /\ conf.scm = "gitlab"
    /\ LET dirty == RepoReady.tree # RepoReady.head
           kept  == clone' = [RepoReady EXCEPT !.head = RepoReady.tree]
       IN  \/ ~dirty /\ clone' = RepoReady /\ Goto("wait_ci_result") /\ Fine /\ UNCHANGED server
           \/ dirty /\ kept /\ conf.token = "weak" /\ Raise /\ Fine /\ UNCHANGED server
           \/ dirty /\ kept /\ conf.token = "ok" /\ PushHead /\ Goto("wait_ci_result") /\ Fine
           \/ dirty /\ kept /\ UNCHANGED server
                /\ \E e \in {"os", "git"} : Interrupted(e, "wait_ci_result")
           \/ dirty /\ kept /\ Fails /\ conf.token = "ok" /\ PushHead
           \/ dirty /\ kept /\ ~Refused /\ conf.token = "ok" /\ PushHead /\ OneMoreFault
                /\ Goto("wait_ci_result")
           \/ dirty /\ kept /\ Refused /\ Fails /\ UNCHANGED server

\* git reset --hard to the parent of HEAD: no commit below it holds a patch.
Reset(c) == [c EXCEPT !.ver = @ - 1, !.head = {}, !.tree = {}]

\* A HEAD with a parent is taken for an earlier commit of the fix: it is reset
\* before anything is added, and the commit that follows fails, or holds what
\* untracked files are left.
LocalCommit ==
    /\ conf.scm = "local" /\ Fine /\ UNCHANGED server
    /\ LET dirty == clone.tree # clone.head
           prior == clone.ver > 0
       IN  \/ ~dirty /\ UNCHANGED clone /\ Goto("wait_ci_result")
           \/ /\ dirty /\ ~prior
              /\ clone' = [clone EXCEPT !.head = clone.tree, !.ver = Moved(@)]
              /\ Goto("wait_ci_result")
           \/ dirty /\ prior /\ clone' = Reset(clone) /\ Raise
           \/ /\ dirty /\ prior
              /\ clone' = [Reset(clone) EXCEPT !.ver = Moved(@)]
              /\ Goto("wait_ci_result")

\* The difference between the copy and the source directory, if any, becomes
\* the patch file.
PlainCommit ==
    /\ conf.scm = "plain" /\ Fine
    /\ clone' = RepoReady
    /\ remote' = IF RepoReady.tree = base.tree THEN remote
                 ELSE [remote EXCEPT ![0] = RepoReady.tree]
    /\ Goto("wait_ci_result")
    /\ UNCHANGED <<base, mr, pipelines>>

CommitChange ==
    /\ pc = "commit_change"
    /\ GitlabCommit \/ LocalCommit \/ PlainCommit
    /\ UNCHANGED <<conf, st, steps, calls, prompt, inbox, crashes, hist>>

\* The local providers have no pipeline to wait for.
SkipCI ==
    /\ pc = "wait_ci_result" /\ conf.scm # "gitlab"
    /\ st' = [st EXCEPT !.ci_status = "success"]
    /\ Goto(RouteAfterCI(st'))
    /\ UNCHANGED <<conf, steps, calls, prompt, clone, server, inbox, crashes, faults, hist>>

\* The first terminal verdict in the inbox is taken and acknowledged, whatever
\* push it is about.
WaitCIResult ==
    /\ pc = "wait_ci_result" /\ inbox # <<>>
    /\ st' = [st EXCEPT !.ci_status = Head(inbox).status]
    /\ inbox' = Tail(inbox)
    /\ Goto(RouteAfterCI(st'))
    /\ UNCHANGED <<conf, steps, calls, prompt, clone, server, crashes, faults, hist>>

\* a wait without a deadline
WaitForever ==
    /\ pc = "wait_ci_result" /\ inbox # <<>> /\ OneMoreFault
    /\ st' = [st EXCEPT !.ci_status = "timeout"]
    /\ Goto(RouteAfterCI(st'))
    /\ UNCHANGED <<conf, steps, calls, prompt, clone, server, inbox, crashes, hist>>

\* The deadline passes: no verdict came, or Redis could not be read.
WaitTimesOut ==
    /\ pc = "wait_ci_result" /\ conf.scm = "gitlab"
    /\ (inbox = <<>> /\ Fine) \/ (inbox # <<>> /\ OneMoreFault)
    /\ st' = [st EXCEPT !.ci_status = "timeout"]
    /\ Goto(RouteAfterCI(st'))
    /\ UNCHANGED <<conf, steps, calls, prompt, clone, server, inbox, crashes, hist>>

\* POST: refused without a source branch, a conflict with an open request.
PostMR(b) ==
    /\ remote[b] # NoTree /\ mr[b] # "opened"
    /\ mr' = [mr EXCEPT ![b] = "opened"]

\* a create that looks only for open requests
CreateMROpenOnly ==
    /\ pc = "create_mr" /\ conf.scm = "gitlab"
    /\ LET b == st.fix_branch_name
       IN  \/ mr[b] = "opened" /\ Goto("END") /\ UNCHANGED mr
           \/ mr[b] # "opened" /\ PostMR(b) /\ Goto("END")
           \/ mr[b] # "opened" /\ remote[b] = NoTree /\ Raise /\ UNCHANGED mr
    /\ UNCHANGED <<conf, st, steps, calls, prompt, clone, base, remote, pipelines, inbox,
                   crashes, faults, hist>>

\* Look-up, then create.  An open or a merged request is returned; a failed
\* look-up reads as "no request".  An answer lost after the POST is retried
\* and the look-up finds the request.
CreateMR ==
    /\ pc = "create_mr" /\ conf.scm = "gitlab"
    /\ LET b == st.fix_branch_name
       IN  \/ FoundMR(b) # "none" /\ Fine /\ Goto("END") /\ UNCHANGED mr
           \/ FoundMR(b) = "none" /\ Fine /\ PostMR(b) /\ Goto("END")
           \/ FoundMR(b) = "none" /\ Fine /\ remote[b] = NoTree /\ Raise /\ UNCHANGED mr
           \/ PostMR(b) /\ \E e \in {"http", "refused"} : Interrupted(e, "END")
           \/ Fails /\ UNCHANGED mr
    /\ UNCHANGED <<conf, st, steps, calls, prompt, clone, base, remote, pipelines, inbox,
                   crashes, hist>>

\* The report of a plain run, or nothing: the fix is on its branch.
LocalReview ==
    /\ pc = "create_mr" /\ conf.scm # "gitlab"
    /\ Goto("END")
    /\ UNCHANGED <<conf, st, steps, calls, prompt, clone, server, inbox, crashes, faults, hist>>

HandleFailure ==
    /\ pc = "handle_failure"
    /\ st' = [st EXCEPT !.error = TRUE]
    /\ Goto("END")
    /\ UNCHANGED <<conf, steps, calls, prompt, clone, server, inbox, crashes, faults, hist>>

OutcomeOf(s) ==
    CASE s.error -> "error"
      [] ~s.error /\ s.already_fixed -> "already_fixed"
      [] OTHER -> "fixed"

\* fix() returns and the worker sets its completion key.
Finish ==
    /\ pc = "END"
    /\ pc' = "done" /\ outcome' = OutcomeOf(st)
    /\ clone' = Kept(clone)
    /\ UNCHANGED <<conf, st, steps, calls, prompt, server, inbox, crashes, faults, hist>>

-----------------------------------------------------------------------------
(* The process, the pipelines and the people around it.                     *)

Crash ==
    /\ pc \in Nodes /\ crashes < MaxCrashes
    /\ crashes' = crashes + 1
    /\ pc' = "down" /\ steps' = 0 /\ calls' = 0 /\ prompt' = {} /\ clone' = Kept(clone)
    /\ UNCHANGED <<conf, st, server, inbox, outcome, faults, hist>>

Restart ==
    /\ pc = "down"
    /\ pc' = "preflight"
    /\ st' = Started(st)
    /\ UNCHANGED <<conf, steps, calls, prompt, clone, server, inbox, outcome, crashes, faults, hist>>

\* A pipeline ends and its verdict is routed to the worker, or lost on the way.
PipelineEnds ==
    \E p \in pipelines, verdict \in {"success", "failed"} :
        /\ pipelines' = pipelines \ {p}
        /\ green' = IF verdict = "success" THEN green \cup {p} ELSE green
        /\ \/ inbox' = Append(inbox, [push |-> p, status |-> verdict]) /\ Fine
           \/ UNCHANGED inbox /\ OneMoreFault
        /\ UNCHANGED <<conf, run, base, remote, mr, crashes, tested>>

\* A person merges an open request, which removes its branch, or closes it.
Merge ==
    \E b \in Names :
        /\ mr[b] = "opened" /\ remote[b] # NoTree
        /\ mr' = [mr EXCEPT ![b] = "merged"]
        /\ base' = [ver |-> Moved(base.ver), tree |-> base.tree \cup remote[b]]
        /\ remote' = [remote EXCEPT ![b] = NoTree]
        /\ UNCHANGED <<conf, run, pipelines, inbox, crashes, faults, hist>>

Close ==
    \E b \in Names :
        /\ mr[b] = "opened"
        /\ mr' = [mr EXCEPT ![b] = "closed"]
        /\ UNCHANGED <<conf, run, base, remote, pipelines, inbox, crashes, faults, hist>>

\* standalone --review: the person accepts and the patch file is applied to the
\* source directory.
AcceptPatch ==
    /\ pc = "done" /\ conf.scm = "plain" /\ outcome = "fixed"
    /\ remote[0] # NoTree
    /\ base' = [base EXCEPT !.tree = remote[0]]
    /\ UNCHANGED <<conf, run, remote, mr, pipelines, inbox, crashes, faults, hist>>

Init ==
    /\ conf \in Confs
    /\ pc = "preflight" /\ st = Blank
    /\ steps = 0 /\ calls = 0 /\ prompt = {}
    /\ base = [ver |-> conf.depth, tree |-> {}] /\ clone = Kept(Cloned)
    /\ remote = [b \in Names |-> NoTree] /\ mr = [b \in Names |-> "none"]
    /\ pipelines = {} /\ inbox = <<>> /\ outcome = "running"
    /\ crashes = 0 /\ faults = 0 /\ tested = {} /\ green = {}

WorkerStep ==
    \/ Preflight \/ PrecheckAlreadyFixed \/ FetchTrace \/ ParseTrace \/ FetchSourceFile
    \/ MiniReactLoop \/ ReactStart \/ ReactCall \/ ReactCallFails \/ ReactStop
    \/ CreateFixBranch \/ ApplyChangeAndTest \/ CodeReview
    \/ CommitChange \/ SkipCI \/ WaitCIResult \/ WaitTimesOut
    \/ CreateMR \/ LocalReview
    \/ HandleFailure \/ Finish

Next == WorkerStep \/ Crash \/ Restart \/ PipelineEnds \/ Merge \/ Close \/ AcceptPatch

Spec == Init /\ [][Next]_vars

\* The process runs on while it lives, and the health monitor restarts a
\* worker; nobody has to start a standalone run again.
FairSpec == Spec /\ WF_vars(WorkerStep) /\ WF_vars(Restart /\ conf.scm = "gitlab")

-----------------------------------------------------------------------------
(* Properties.                                                              *)

\* Every variable has its type.
TypeOK ==
    /\ conf \in Conf
    /\ pc \in Nodes \cup {"down", "done"}
    /\ st \in State
    /\ steps \in 0..MaxSteps /\ calls \in Nat
    /\ prompt \subseteq {"reflection", "code_review", "prior_patch", "apply_error", "test_output"}
    /\ clone = NoClone \/ clone \in Clone
    /\ base \in [ver : Names, tree : Trees]
    /\ remote \in [Names -> {NoTree} \cup Trees]
    /\ mr \in [Names -> {"none", "opened", "merged", "closed"}]
    /\ pipelines \subseteq Push
    /\ inbox \in Seq([push : Push, status : {"success", "failed"}])
    /\ outcome \in {"running", "fixed", "already_fixed", "error", "refused"}
    /\ crashes \in 0..MaxCrashes /\ faults \in 0..MaxFaults
    /\ tested \subseteq Trees /\ green \subseteq Push

\* A fix branch on the server, and the patch file of a plain run, always holds
\* a tree that apply_change_and_test accepted, by this process or by one that was killed, also after branches
\* were reused, force-pushed, removed by a merge and pushed again.
PushedWasTested == \A b \in Names : remote[b] # NoTree => remote[b] \in tested

\* Without a kill, a request shows a tree whose own pipeline succeeded: no
\* path from a failed or missing verdict, or from a skipped push, opens one.
RequestsAreGreen ==
    crashes = 0 =>
      \A b \in Names : mr[b] \in {"opened", "merged"} /\ remote[b] # NoTree
                         => [name |-> b, tree |-> remote[b]] \in green

\* A run reported fixed read a success and its branch has a request, whatever
\* an earlier process of the same bug left in the thread.
FixedMeansReviewed ==
    outcome = "fixed" /\ conf.scm = "gitlab"
      => st.ci_status = "success" /\ mr[st.fix_branch_name] # "none"

\* No process makes more calls than its budget, though the loop, the reviewer
\* and the reflection hook all draw on it.
BudgetHolds == calls <= MaxCalls

\* A merged request stays the last word on its branch: a worker that was
\* restarted, passed the precheck and pushed again opens no second one, unless
\* a look-up failed.
MergedStays ==
    [][\A b \in Names : mr[b] = "merged" /\ faults' = 0 => mr'[b] = "merged"]_vars

\* A run whose token cannot push, or whose backend serves another model, makes
\* no call to the model, in any process of the bug, unless a probe got no answer.
RefusedBeforeSpending ==
    faults = 0 /\ calls > 0
      => /\ conf.scm = "gitlab" => conf.token = "ok"
         /\ ~conf.gateway => conf.model = "match"

\* A plain directory changes only to a tree that passed.  The base branch moves
\* by a merged request, or by the one other way there is: after a kill, the thread's fix_branch_name sends the patch straight to
\* apply_change_and_test on a fresh clone, where the base branch is checked out.
BaseMovesByMerge ==
    [][base' # base =>
         \/ \E b \in Names : mr[b] = "opened" /\ mr'[b] = "merged"
         \/ conf.scm = "plain" /\ base'.tree \in tested
         \/ crashes > 0 /\ conf.checkpoint /\ clone.branch = BaseBranch
              /\ st.fix_branch_name # NoName]_vars

\* Every run ends: no loop of the graph, and no wait, goes on for ever; only a
\* standalone run that was killed waits for a person.
RunEnds == <>(pc = "done" \/ (pc = "down" /\ conf.scm # "gitlab"))

-----------------------------------------------------------------------------
(* What the documentation says and the code does not do.                    *)

\* "existing commit, diff tree -> status="updated" (reset + commit afresh)": a
\* local commit keeps the accepted edits.
LocalCommitKeepsFix ==
    [][pc = "commit_change" /\ conf.scm = "local" /\ pc' # pc /\ crashes' = crashes
         => clone'.tree = clone.tree]_vars
=============================================================================
