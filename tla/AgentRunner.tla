----------------------------- MODULE AgentRunner -----------------------------
(***************************************************************************)
(* AgentRunnerWorkflow: does the work the gateway dispatched, in one pass  *)
(* over the activities of its workflow type, while comment and cancel      *)
(* signals move its iteration state                                        *)
(* (workers/agent-runner-worker/.../workflows/agent_runner_workflow.py).   *)
(*                                                                         *)
(* One action is what the coroutine does between two awaits.  Signal       *)
(* handlers run whenever the coroutine is suspended.  Clocks are kept as   *)
(* what the code asks of them: whether the 60 s window of the last [fix]   *)
(* or the 5 min life of an [explain] answer has passed.                    *)
(***************************************************************************)
EXTENDS Naturals, Sequences

CONSTANTS
    MAX_ITER,                 \* 5 in the code
    NEEDS_INFO_MAX_STREAK,    \* 3 in the code
    ITER_WARNING_THRESHOLD,   \* 3 in the code
    Iterations,               \* values of inp.iteration
    MaxIters,                 \* values of inp.max_iter, 0 where none is set
    Hashes,                   \* diff hashes
    Roles,                    \* actor roles of a cancel signal
    MaxActions,               \* bound on output actions of each severity
    None

\* The handlers of _dispatch_workflow_type, each as the sequence of its awaits.
code_change_common(withTest) ==
    IF withTest
    THEN <<"assign", "generate", "scan", "commit", "test", "open_pr", "report">>
    ELSE <<"assign", "generate", "scan", "commit", "report">>

handle_pr_review == <<"fetch_diff", "review", "post_findings">>

handle_confluence_doc_create ==
    <<"assign", "link", "write_doc", "create_page", "report">>

handle_confluence_doc_update ==
    <<"assign", "read_page", "link", "update_sections", "report">>

handle_research_publish_confluence ==
    <<"assign", "link", "search", "scrape", "create_page", "report">>

handle_research_summary_jira ==
    <<"assign", "search", "scrape", "store_summary", "post_summary">>

handle_multi_step == <<"assign", "list_children", "subtasks", "report">>

signal_wait == <<"banner", "audits", "wait", "banner_again", "audits_again">>

Script ==
    [code_change_with_test       |-> code_change_common(TRUE),
     code_change_commit_only     |-> code_change_common(FALSE),
     pr_review                   |-> handle_pr_review,
     confluence_doc_create       |-> handle_confluence_doc_create,
     confluence_doc_update       |-> handle_confluence_doc_update,
     research_publish_confluence |-> handle_research_publish_confluence,
     research_summary_jira       |-> handle_research_summary_jira,
     multi_step                  |-> handle_multi_step,
     research_basic              |-> signal_wait]

WorkflowTypes == DOMAIN Script
Steps         == UNION {{Script[t][i] : i \in 1 .. Len(Script[t])} :
                        t \in WorkflowTypes}
CodeChange    == {"code_change_with_test", "code_change_commit_only"}

\* Awaits whose failure aborts the run; of these, LLM calls obey the token cap.
LlmSteps   == {"generate", "review", "write_doc"}
Critical   == LlmSteps \union
              {"assign", "scan", "commit", "open_pr", "fetch_diff", "read_page",
               "create_page", "search", "post_summary", "list_children"}
\* Awaits whose failure is recorded with _record_partial_failure.
BestEffort == {"report", "post_findings", "update_sections", "scrape",
               "store_summary"}
\* Awaits after which the handler may give up with a comment and return.
MayGiveUp  == {"generate", "test", "read_page", "scrape", "list_children"}

\* Only code changes look at the branch rules, and two types have no output
\* actions.
Inputs ==
    {i \in [type : WorkflowTypes, iteration : Iterations, denied : BOOLEAN,
            critical : 0 .. MaxActions, best : 0 .. MaxActions] :
        /\ i.denied => i.type \in CodeChange
        /\ i.type \in {"pr_review", "research_basic"} => i.critical + i.best = 0}

Statuses == {"completed", "completed_with_partial_failure", "out_of_scope",
             "cancelled", "failed"}
Reasons  == {"max_iter_reached", "needs_info_loop_cap", "branch_rule_denied",
             "step_failed", "gave_up", "token_cap_exceeded",
             "epic_subtask_failed", "output_action_critical_failed"}
\* Critical output actions: a kind with an activity of its own, a kind without one,
\* a pull request for the branch the run committed to, or for a branch it names.
OutputKinds == {"other", "undispatched", "own_pr", "named_pr"}
Audits   == {"fix_debounce_dropped", "fix_re_test_protected", "explain_cache_hit"}

ASSUME RunnerAssumption ==
    /\ MAX_ITER \in Nat \ {0}
    /\ NEEDS_INFO_MAX_STREAK \in Nat \ {0}
    /\ ITER_WARNING_THRESHOLD \in Nat
    /\ Iterations \subseteq Nat \ {0}
    /\ MaxIters \subseteq Nat
    /\ MaxActions \in Nat
    /\ None \notin Hashes \union Roles \union Reasons
    /\ None \notin [status : Statuses, iter_count : Nat]

VARIABLES
    inp,              \* AgentRunnerWorkflowInput
    pc,               \* the await the coroutine is suspended in
    iter, streak,     \* iter_count, needs_info_streak
    fixRecent,        \* the last accepted [fix] is inside the debounce window
    tested,           \* keys of test_results_by_diff_hash
    explained,        \* explain_cache: hash -> "none", "fresh" or "stale"
    pendingExplain, pendingAudits, signalPending, warnPending, warned,
    oos, reason,      \* _out_of_scope, _failure_reason
    cancelRole,       \* _cancel_requested with its actor's role, or None
    compensating,     \* _compensation_running
    partial,          \* _output_actions_partial is not empty
    hash,             \* commit_hash; in pr_review, the diff being explained
    left,             \* output actions still to apply
    result,           \* AgentRunnerWorkflowOutput, or None
    hostCancel,       \* handle.cancel(): "no", "pending" or "swallowed"
    done              \* history: what reached the outside world

inputs  == <<inp, hostCancel>>
state   == <<iter, streak, fixRecent, tested, explained>>
pending == <<pendingExplain, pendingAudits, signalPending, warnPending>>
flags   == <<oos, reason, cancelRole>>
locals  == <<partial, hash, left>>
vars    == <<inp, pc, iter, streak, fixRecent, tested, explained, pendingExplain,
             pendingAudits, signalPending, warnPending, warned, oos, reason,
             cancelRole, compensating, partial, hash, left, result, hostCancel,
             done>>

\* branch, message, child: the iteration number each artefact was named with,
\* 0 while there is none.
NothingDone ==
    [branch |-> 0, message |-> 0, child |-> 0, scanned |-> FALSE,
     committed |-> FALSE, passed |-> FALSE, pr |-> FALSE, outputPr |-> FALSE,
     banners |-> 0,
     compensations |-> 0, cancelAudit |-> None, failedCritical |-> FALSE,
     appliedAfterFailure |-> FALSE]

Open == pc \notin {"closed", "host_cancelled"}

Init ==
    /\ inp \in Inputs
    /\ pc = "start"
    /\ iter = 0 /\ streak = 0 /\ fixRecent = FALSE /\ tested = {}
    /\ explained = [h \in Hashes |-> "none"]
    /\ pendingExplain = None /\ pendingAudits = {} /\ signalPending = FALSE
    /\ warnPending = FALSE /\ warned = FALSE
    /\ oos = FALSE /\ reason = None /\ cancelRole = None
    /\ compensating = FALSE /\ partial = FALSE /\ hash = None
    /\ left = [critical |-> inp.critical, best |-> inp.best]
    /\ result = None /\ hostCancel = "no"
    /\ done = NothingDone

-----------------------------------------------------------------------------
(* Signals.                                                                 *)

\* Mutant: the cap is compared with the wrong operator.
AdvanceAtCap(count) == count <= MAX_ITER

should_advance_iter(count) == count < MAX_ITER

\* _advance_iter_with_banner_check
advance_iter ==
    /\ iter' = iter + 1
    /\ warnPending' = \/ warnPending
                      \/ ~warned /\ iter + 1 >= ITER_WARNING_THRESHOLD
    /\ signalPending' = TRUE

\* A handler that may not advance closes the run to further comments.
DenyAdvance(why) ==
    /\ oos' = TRUE /\ reason' = why /\ signalPending' = TRUE
    /\ UNCHANGED <<iter, warnPending>>

AdvanceOrDeny ==
    IF should_advance_iter(iter) THEN advance_iter /\ UNCHANGED <<oos, reason>>
    ELSE DenyAdvance("max_iter_reached")

\* Guards and frame of the comment signals.
Listening == Open /\ cancelRole = None /\ ~oos
SignalFrame == UNCHANGED <<inp, pc, tested, explained, warned, cancelRole,
                           compensating, locals, result, hostCancel, done>>

\* comment_added without a keyword.
comment_added ==
    /\ Listening
    /\ streak' = 0
    /\ AdvanceOrDeny
    /\ UNCHANGED <<fixRecent, pendingExplain, pendingAudits>>
    /\ SignalFrame

\* fix_triggered, or comment_added with [fix].  The cap is checked before the
\* debounce window, so a [fix] at the cap closes the run even when debounced.
fix_triggered(diff) ==
    LET debounced == should_advance_iter(iter) /\ fixRecent
        protected == /\ should_advance_iter(iter) /\ ~fixRecent
                     /\ diff \in tested
        audit     == CASE debounced -> {"fix_debounce_dropped"}
                       [] protected -> {"fix_re_test_protected"}
                       [] OTHER     -> {}
    IN
    /\ Listening
    /\ pendingAudits' = pendingAudits \union audit
    /\ \/ debounced /\ UNCHANGED <<iter, streak, fixRecent, warnPending,
                                   signalPending, oos, reason>>
       \/ protected /\ streak' = 0 /\ fixRecent' = TRUE /\ signalPending' = TRUE
                    /\ UNCHANGED <<iter, warnPending, oos, reason>>
       \/ /\ ~debounced /\ ~protected
          /\ AdvanceOrDeny
          /\ IF should_advance_iter(iter)
             THEN streak' = 0 /\ fixRecent' = TRUE
             ELSE UNCHANGED <<streak, fixRecent>>
    /\ UNCHANGED pendingExplain
    /\ SignalFrame

\* explain_triggered, or comment_added with [explain].  An answer that is still
\* fresh costs no iteration.
explain_triggered(diff) ==
    LET fresh == diff \in Hashes /\ explained[diff] = "fresh" IN
    /\ Listening
    /\ IF fresh
       THEN /\ pendingAudits' = pendingAudits \union {"explain_cache_hit"}
            /\ signalPending' = TRUE
            /\ UNCHANGED <<iter, streak, warnPending, oos, reason>>
       ELSE /\ streak' = 0
            /\ AdvanceOrDeny
            /\ UNCHANGED pendingAudits
    /\ pendingExplain' = IF fresh \/ should_advance_iter(iter) THEN diff
                         ELSE pendingExplain
    /\ UNCHANGED fixRecent
    /\ SignalFrame

\* comment_added with [needs_info].
needs_info ==
    /\ Listening
    /\ streak' = streak + 1
    /\ IF streak + 1 >= NEEDS_INFO_MAX_STREAK
       THEN DenyAdvance("needs_info_loop_cap")
       ELSE signalPending' = TRUE /\ UNCHANGED <<iter, warnPending, oos, reason>>
    /\ UNCHANGED <<fixRecent, pendingExplain, pendingAudits>>
    /\ SignalFrame

\* Mutant: every cancel signal overwrites the actor.
CancelOverwrites(role) ==
    /\ Open
    /\ cancelRole' = role /\ signalPending' = TRUE
    /\ UNCHANGED <<inputs, pc, state, pendingExplain, pendingAudits, warnPending,
                   warned, oos, reason, compensating, locals, result, done>>

\* The first cancel wins; none is taken once compensation runs.
cancel_requested(role) ==
    /\ Open
    /\ cancelRole = None /\ ~compensating
    /\ cancelRole' = role /\ signalPending' = TRUE
    /\ UNCHANGED <<inputs, pc, state, pendingExplain, pendingAudits, warnPending,
                   warned, oos, reason, compensating, locals, result, done>>

\* Time passes: the [fix] window closes, cached answers age.
FixWindowPasses ==
    /\ Open /\ fixRecent
    /\ fixRecent' = FALSE
    /\ UNCHANGED <<inputs, pc, iter, streak, tested, explained, pending, warned,
                   flags, compensating, locals, result, done>>

ExplainAnswerAges(h) ==
    /\ Open /\ explained[h] = "fresh"
    /\ explained' = [explained EXCEPT ![h] = "stale"]
    /\ UNCHANGED <<inputs, pc, iter, streak, fixRecent, tested, pending, warned,
                   flags, compensating, locals, result, done>>

\* handle.cancel() of the services: the suspended wait ends the workflow, an
\* awaited activity or child fails with an ordinary exception.
RequestCancel ==
    /\ Open /\ hostCancel = "no"
    /\ IF pc = "wait" THEN pc' = "host_cancelled" /\ UNCHANGED hostCancel
       ELSE hostCancel' = "pending" /\ UNCHANGED pc
    /\ UNCHANGED <<inp, state, pending, warned, flags, compensating, locals,
                   result, done>>

-----------------------------------------------------------------------------
(* The run body.                                                            *)

\* An awaited call ends.  A pending cancellation is spent on it, whether it makes
\* the call fail or comes too late for that.
Returns(outcome) ==
    hostCancel' = IF hostCancel = "pending" THEN "swallowed" ELSE hostCancel

Finish(status) ==
    /\ pc' = "closed"
    /\ result' = [status |-> status, iter_count |-> iter]

\* The tail of run once the handler has returned.
BodyReturns(isPartial) ==
    CASE cancelRole # None -> /\ pc' = "compensate_cancel" /\ compensating' = TRUE
                              /\ UNCHANGED result
      [] cancelRole = None /\ oos ->
            Finish("out_of_scope") /\ UNCHANGED compensating
      [] cancelRole = None /\ ~oos ->
            /\ Finish(IF isPartial THEN "completed_with_partial_failure"
                      ELSE "completed")
            /\ UNCHANGED compensating

\* The except clauses of run that only build an output.
Fails(why) ==
    /\ reason' = why
    /\ Finish("failed")
    /\ UNCHANGED compensating

\* Where an LLM call leads: the token cap is checked before it is made.
EnterStep(step) ==
    IF step \in LlmSteps \union {"explain"} THEN pc' \in {step, "token_audit"}
    ELSE pc' = step

Position(step) == CHOOSE i \in 1 .. Len(Script[inp.type]) :
                      Script[inp.type][i] = step

\* _maybe_execute_llm_output_actions and the end of the handler.
AfterReport(isPartial) ==
    IF left.critical + left.best > 0
    THEN pc' = "offload" /\ UNCHANGED <<result, compensating>>
    ELSE BodyReturns(isPartial)

\* _maybe_handle_explain; a cached answer is used whatever its age.
AfterFindings(isPartial) ==
    CASE pendingExplain = None -> /\ BodyReturns(isPartial)
                                  /\ UNCHANGED <<hash, pendingExplain>>
      [] pendingExplain # None ->
            /\ hash' = pendingExplain /\ pendingExplain' = None
            /\ IF explained[pendingExplain] # "none" THEN pc' = "explain_comment"
               ELSE EnterStep("explain")
            /\ UNCHANGED <<result, compensating>>

Advance(step, isPartial) ==
    IF Position(step) < Len(Script[inp.type])
    THEN /\ EnterStep(Script[inp.type][Position(step) + 1])
         /\ UNCHANGED <<result, compensating, hash, pendingExplain>>
    ELSE IF inp.type = "pr_review" THEN AfterFindings(isPartial)
    ELSE AfterReport(isPartial) /\ UNCHANGED <<hash, pendingExplain>>

\* run up to the first await of the handler.  The iteration input overwrites
\* what signals before the first activation had counted.  An inp.max_iter, which
\* nothing else reads, lowers the cap and never lifts it.
Run(max_iter) ==
    /\ pc = "start"
    /\ IF /\ should_advance_iter(inp.iteration - 1)
          /\ max_iter > 0 => inp.iteration - 1 < max_iter
       THEN /\ iter' = inp.iteration
            /\ warnPending' = \/ warnPending
                              \/ inp.iteration >= ITER_WARNING_THRESHOLD
            /\ signalPending' = TRUE
            /\ pc' = Head(Script[inp.type])
            /\ UNCHANGED <<oos, reason, result>>
       ELSE /\ iter' = inp.iteration - 1
            /\ oos' = TRUE /\ reason' = "max_iter_reached"
            /\ pc' = "closed"
            /\ result' = [status |-> "out_of_scope",
                          iter_count |-> inp.iteration - 1]
            /\ UNCHANGED <<warnPending, signalPending>>
    /\ UNCHANGED <<inputs, streak, fixRecent, tested, explained, pendingExplain,
                   pendingAudits, warned, cancelRole, compensating, locals, done>>

\* An await of the script succeeds and the handler goes on.
Succeed ==
    /\ pc \in Steps \ {"assign", "commit", "test", "banner", "banner_again",
                      "audits", "audits_again", "wait"}
    /\ Returns("ok")
    /\ Advance(pc, partial)
    /\ done' = CASE pc = "scan"    -> [done EXCEPT !.scanned = TRUE, !.message = iter]
                 [] pc = "open_pr" -> [done EXCEPT !.pr = TRUE]
                 [] OTHER          -> done
    /\ UNCHANGED <<inp, state, pendingAudits, signalPending, warnPending, warned,
                   flags, partial, left>>

\* set_assignee_to_bot; a code change then checks the branch rules and names
\* its branch after the iteration.
Assign ==
    /\ pc = "assign" /\ Returns("ok")
    /\ IF inp.type \in CodeChange /\ inp.denied
       THEN /\ oos' = TRUE /\ reason' = "branch_rule_denied"
            /\ pc' = "deny_audit" /\ UNCHANGED done
       ELSE /\ EnterStep(Script[inp.type][2])
            /\ done' = IF inp.type \in CodeChange
                       THEN [done EXCEPT !.branch = iter] ELSE done
            /\ UNCHANGED <<oos, reason>>
    /\ UNCHANGED <<inp, state, pending, warned, cancelRole, compensating, locals,
                   result>>

\* The audit row of the denial is awaited before _OutOfScope is raised.
DenyAudit(ok) ==
    /\ pc = "deny_audit" /\ Returns(ok)
    /\ Finish("out_of_scope")
    /\ UNCHANGED <<inp, state, pending, warned, flags, compensating, locals, done>>

\* The second generation starts from the files the first one did not return.
Regenerate ==
    /\ pc = "generate" /\ Returns("ok")
    /\ pc' \in {"regenerate", "token_audit"}
    /\ UNCHANGED <<inp, state, pending, warned, flags, compensating, locals,
                   result, done>>

RegenerateSucceeds ==
    /\ pc = "regenerate" /\ Returns("ok")
    /\ pc' = "scan"
    /\ UNCHANGED <<inp, state, pending, warned, flags, compensating, locals,
                   result, done>>

\* Mutant: the test child is named after the iteration the run started with.
CommitNamesChildAfterInput(h) ==
    /\ pc = "commit" /\ Returns("ok")
    /\ hash' = h
    /\ EnterStep(Script[inp.type][Position("commit") + 1])
    /\ done' = [done EXCEPT !.committed = TRUE, !.child = inp.iteration]
    /\ UNCHANGED <<inp, state, pending, warned, flags, compensating, partial,
                   left, result>>

\* bitbucket_commit_via_git; the test child is named after the iteration that
\* is current by now.
Commit(h) ==
    /\ pc = "commit" /\ Returns("ok")
    /\ hash' = h
    /\ EnterStep(Script[inp.type][Position("commit") + 1])
    /\ done' = [done EXCEPT !.committed = TRUE,
                            !.child = IF inp.type = "code_change_with_test"
                                      THEN iter ELSE 0]
    /\ UNCHANGED <<inp, state, pending, warned, flags, compensating, partial,
                   left, result>>

\* _run_execution_child: an exception counts as a failed test.
Test(outcome) ==
    /\ pc = "test" /\ Returns(outcome)
    /\ tested' = tested \union {hash}
    /\ pc' = IF outcome = "ok" THEN "open_pr" ELSE "tests_failed"
    /\ done' = [done EXCEPT !.passed = (outcome = "ok")]
    /\ UNCHANGED <<inp, iter, streak, fixRecent, explained, pending, warned, flags,
                   compensating, locals, result>>

\* A critical await fails: except Exception.  Every step names its own reason
\* before it raises; the offload does not, and there an earlier reason is kept.
CriticalFails ==
    /\ pc \in Critical \union {"regenerate", "offload"} /\ Returns("error")
    /\ Fails(IF pc = "offload" /\ reason # None THEN reason ELSE "step_failed")
    /\ UNCHANGED <<inp, state, pending, warned, oos, cancelRole, locals, done>>

\* A check between two awaits raises: no target page, a title the formatter
\* rejects, a blocked commit.
InputRejected ==
    /\ <<inp.type, pc>> \in {<<"confluence_doc_update", "assign">>,
                             <<"confluence_doc_create", "link">>,
                             <<"research_publish_confluence", "scrape">>,
                             <<"code_change_with_test", "scan">>,
                             <<"code_change_commit_only", "scan">>}
    /\ Returns("ok")
    /\ Fails("step_failed")
    /\ UNCHANGED <<inp, state, pending, warned, oos, cancelRole, locals, done>>

\* A best-effort await fails and is remembered; the link lookup is not.
BestEffortFails ==
    /\ pc \in BestEffort \union {"link"} /\ Returns("error")
    /\ partial' = (partial \/ pc \in BestEffort)
    /\ Advance(pc, partial')
    /\ UNCHANGED <<inp, state, pendingAudits, signalPending, warnPending, warned,
                   flags, left, done>>

\* The handler finds nothing to do: no files twice, a probe or freshly edited
\* page, no source, no subtask.  It says so in a comment and returns.
GiveUp ==
    /\ pc \in (MayGiveUp \ {"generate", "test"}) \union {"regenerate"}
    /\ Returns("ok")
    /\ pc' = "giving_up"
    /\ reason' = IF pc \in {"regenerate", "list_children"} THEN "gave_up" ELSE reason
    /\ partial' = (partial \/ pc = "scrape")
    /\ UNCHANGED <<inp, state, pending, warned, oos, cancelRole, compensating, hash,
                   left, result, done>>

\* The comment that ends a handler early.  After failed tests the failure
\* reason is set once it is posted.
LastComment(outcome) ==
    /\ pc \in {"giving_up", "tests_failed", "explain_comment"} /\ Returns(outcome)
    /\ reason' = IF pc = "tests_failed" THEN "gave_up" ELSE reason
    /\ partial' = (partial \/ outcome = "error")
    /\ BodyReturns(partial')
    /\ UNCHANGED <<inp, state, pending, warned, oos, cancelRole, hash, left, done>>

\* llm_review_code for an [explain] without a cached answer.
Explain(outcome) ==
    /\ pc = "explain" /\ Returns(outcome)
    /\ IF outcome = "ok"
       THEN /\ explained' = [explained EXCEPT ![hash] = "fresh"]
            /\ pc' = "explain_comment"
            /\ UNCHANGED <<partial, result, compensating>>
       ELSE /\ partial' = TRUE /\ BodyReturns(TRUE) /\ UNCHANGED explained
    /\ UNCHANGED <<inp, iter, streak, fixRecent, tested, pending, warned, flags,
                   hash, left, done>>

\* A prompt over MAX_ACTIVITY_TOKEN_CAP: audit row, then TokenCapExceededError.
TokenAudit(outcome) ==
    /\ pc = "token_audit" /\ Returns(outcome)
    /\ Fails("token_cap_exceeded")
    /\ UNCHANGED <<inp, state, pending, warned, oos, cancelRole, locals, done>>

\* A child AutomationWorkflow raises or is refused; then _EpicSubtaskFailed.
SubtaskFails ==
    /\ pc = "subtasks" /\ Returns("error")
    /\ reason' = "epic_subtask_failed"
    /\ pc' = "epic_comment"
    /\ UNCHANGED <<inp, state, pending, warned, oos, cancelRole, compensating,
                   locals, result, done>>

EpicComment(outcome) ==
    /\ pc = "epic_comment" /\ Returns(outcome)
    /\ partial' = (partial \/ outcome = "error")
    /\ Finish("failed")
    /\ UNCHANGED <<inp, state, pending, warned, flags, compensating, hash, left,
                   done>>

\* _OutputActionCriticalFailure: the run ends through the compensation chain.
CriticalRefusal ==
    /\ reason' = "output_action_critical_failed"
    /\ pc' = "compensate_critical" /\ compensating' = TRUE
    /\ UNCHANGED result

\* redirect_oversized_payload for every action, then the partition.
Offload ==
    /\ pc = "offload" /\ Returns("ok")
    /\ pc' = "outputs"
    /\ UNCHANGED <<inp, state, pending, warned, flags, compensating, locals,
                   result, done>>

\* partition() meets an action of no known kind: none is applied.
PartitionRejects ==
    /\ pc = "offload" /\ Returns("ok")
    /\ CriticalRefusal
    /\ done' = [done EXCEPT !.failedCritical = TRUE]
    /\ UNCHANGED <<inp, state, pending, warned, oos, cancelRole, locals>>

\* The next of the output actions left, or the end of the handler.
AfterOutput(isPartial, rest) ==
    IF rest = 0 THEN BodyReturns(isPartial)
    ELSE pc' = "outputs" /\ UNCHANGED <<result, compensating>>

\* _apply_single_output_action fails an action it has no activity for, and a pull
\* request without a source branch, before it awaits anything.
refused(kind) == \/ kind = "undispatched"
                 \/ kind = "own_pr" /\ ~done.committed

\* Critical actions come first; the first failure stops the rest.  A pull request
\* that was opened is told in a comment before the next action.
CriticalOutput(outcome, kind) ==
    /\ pc = "outputs" /\ left.critical > 0
    /\ IF refused(kind) THEN outcome = "error" /\ UNCHANGED hostCancel
       ELSE Returns(outcome)
    /\ left' = [left EXCEPT !.critical = @ - 1]
    /\ done' = [done EXCEPT
                  !.failedCritical = (outcome = "error"),
                  !.appliedAfterFailure = done.failedCritical,
                  !.outputPr = (@ \/ (kind = "own_pr" /\ outcome = "ok"))]
    /\ IF outcome = "error" THEN CriticalRefusal
       ELSE /\ IF kind \in {"own_pr", "named_pr"}
               THEN pc' = "pr_comment" /\ UNCHANGED <<result, compensating>>
               ELSE AfterOutput(partial, left.critical + left.best - 1)
            /\ UNCHANGED reason
    /\ UNCHANGED <<inp, state, pending, warned, oos, cancelRole, partial, hash>>

PrComment(outcome) ==
    /\ pc = "pr_comment" /\ Returns(outcome)
    /\ partial' = (partial \/ outcome = "error")
    /\ AfterOutput(partial', left.critical + left.best)
    /\ UNCHANGED <<inp, state, pending, warned, flags, hash, left, done>>

BestEffortOutput(outcome) ==
    /\ pc = "outputs" /\ left.critical = 0 /\ Returns(outcome)
    /\ left' = [left EXCEPT !.best = @ - 1]
    /\ partial' = (partial \/ outcome = "error")
    /\ done' = [done EXCEPT !.appliedAfterFailure = done.failedCritical]
    /\ AfterOutput(partial', left.best - 1)
    /\ UNCHANGED <<inp, state, pending, warned, flags, hash>>

-----------------------------------------------------------------------------
(* The signal-wait path of the types without a handler.  Its steps are      *)
(* separate actions even where the code reaches the next one without an     *)
(* await, which only adds interleavings.                                    *)

\* _maybe_post_iter_warning_banner: remembered before it is posted.
Banner ==
    LET post == warnPending /\ ~warned /\ iter >= ITER_WARNING_THRESHOLD IN
    /\ pc \in {"banner", "banner_again"}
    /\ warned' = (warned \/ post)
    /\ warnPending' = FALSE
    /\ done' = [done EXCEPT !.banners = IF post THEN @ + 1 ELSE @]
    /\ pc' = CASE post /\ pc = "banner"  -> "banner_comment"
               [] post /\ pc # "banner"  -> "banner_comment_again"
               [] ~post /\ pc = "banner" -> "audits"
               [] ~post /\ pc # "banner" -> "audits_again"
    /\ UNCHANGED <<inputs, state, pendingExplain, pendingAudits, signalPending, flags,
                   compensating, locals, result>>

\* The comment and the audit row of the banner, both best effort.
BannerPosted(outcome) ==
    /\ pc \in {"banner_comment", "banner_audit", "banner_comment_again",
              "banner_audit_again"}
    /\ Returns(outcome)
    /\ pc' = CASE pc = "banner_comment"       -> "banner_audit"
               [] pc = "banner_audit"         -> "audits"
               [] pc = "banner_comment_again" -> "banner_audit_again"
               [] pc = "banner_audit_again"   -> "audits_again"
    /\ UNCHANGED <<inp, state, pending, warned, flags, compensating, locals, result,
                   done>>

\* Mutant: the signal path goes round until a signal stops the run.
DrainAuditsLoops(outcome) ==
    /\ pc \in {"audits", "audits_again"} /\ Returns(outcome)
    /\ pendingAudits' = {}
    /\ CASE pc = "audits" -> pc' = "wait" /\ UNCHANGED <<result, compensating>>
         [] pc # "audits" /\ cancelRole = None /\ ~oos ->
               pc' = "banner_again" /\ UNCHANGED <<result, compensating>>
         [] pc # "audits" /\ (cancelRole # None \/ oos) -> BodyReturns(partial)
    /\ UNCHANGED <<inp, state, pendingExplain, signalPending, warnPending, warned,
                   flags, locals, done>>

\* _drain_pending_audits; after the second one run looks at the flags.
DrainAudits(outcome) ==
    /\ pc \in {"audits", "audits_again"} /\ Returns(outcome)
    /\ pendingAudits' = {}
    /\ IF pc = "audits" THEN pc' = "wait" /\ UNCHANGED <<result, compensating>>
       ELSE BodyReturns(partial)
    /\ UNCHANGED <<inp, state, pendingExplain, signalPending, warnPending, warned,
                   flags, locals, done>>

Wait ==
    /\ pc = "wait" /\ (cancelRole # None \/ oos \/ signalPending)
    /\ signalPending' = FALSE
    /\ pc' = "banner_again"
    /\ UNCHANGED <<inputs, state, pendingExplain, pendingAudits, warnPending,
                   warned, flags, compensating, locals, result, done>>

-----------------------------------------------------------------------------
\* Mutant: a cancelled run whose critical action failed is compensated for both.
CompensateForBoth(outcome) ==
    /\ pc \in {"compensate_cancel", "compensate_critical"} /\ Returns(outcome)
    /\ done' = [done EXCEPT !.compensations = @ + 1]
    /\ CASE pc = "compensate_cancel" -> pc' = "cancel_audit" /\ UNCHANGED result
         [] pc = "compensate_critical" /\ cancelRole # None ->
               pc' = "compensate_cancel" /\ UNCHANGED result
         [] OTHER -> Finish("failed")
    /\ UNCHANGED <<inp, state, pending, warned, flags, compensating, locals>>

\* _handle_cancel and _handle_output_action_critical: the chain is best effort.
Compensate(outcome) ==
    /\ pc \in {"compensate_cancel", "compensate_critical"} /\ Returns(outcome)
    /\ done' = [done EXCEPT !.compensations = @ + 1]
    /\ IF pc = "compensate_cancel" THEN pc' = "cancel_audit" /\ UNCHANGED result
       ELSE Finish("failed")
    /\ UNCHANGED <<inp, state, pending, warned, flags, compensating, locals>>

CancelAudit(outcome) ==
    /\ pc = "cancel_audit" /\ Returns(outcome)
    /\ done' = [done EXCEPT !.cancelAudit = cancelRole]
    /\ Finish("cancelled")
    /\ UNCHANGED <<inp, state, pending, warned, flags, compensating, locals>>

Terminated == ~Open /\ UNCHANGED vars

Body ==
    \/ Succeed \/ Assign \/ Regenerate \/ RegenerateSucceeds
    \/ CriticalFails \/ InputRejected \/ BestEffortFails \/ GiveUp
    \/ SubtaskFails \/ Offload \/ PartitionRejects \/ Wait \/ Banner
    \/ \E max_iter \in MaxIters : Run(max_iter)
    \/ \E h \in Hashes : Commit(h)
    \/ \E outcome \in {"ok", "error"} :
          \/ DenyAudit(outcome) \/ Test(outcome) \/ LastComment(outcome)
          \/ Explain(outcome) \/ TokenAudit(outcome) \/ EpicComment(outcome)
          \/ \E kind \in OutputKinds : CriticalOutput(outcome, kind)
          \/ PrComment(outcome) \/ BestEffortOutput(outcome)
          \/ BannerPosted(outcome) \/ DrainAudits(outcome) \/ Compensate(outcome)
          \/ CancelAudit(outcome)

Signal ==
    \/ comment_added \/ needs_info
    \/ \E diff \in Hashes \union {None} : fix_triggered(diff) \/ explain_triggered(diff)
    \/ \E role \in Roles : cancel_requested(role)

Next ==
    \/ Body \/ Signal \/ RequestCancel \/ Terminated
    \/ FixWindowPasses \/ \E h \in Hashes : ExplainAnswerAges(h)

\* Activities and children end (every one has a timeout and a bounded number of
\* attempts), so the coroutine is always resumed.
Spec == Init /\ [][Next]_vars /\ WF_vars(Body)

-----------------------------------------------------------------------------
Pcs == Steps \union
       {"start", "deny_audit", "token_audit", "regenerate", "tests_failed",
        "giving_up", "explain", "explain_comment", "epic_comment", "offload",
        "outputs", "pr_comment", "banner_comment", "banner_audit",
        "banner_comment_again", "banner_audit_again", "compensate_cancel", "compensate_critical", "cancel_audit",
        "closed", "host_cancelled"}

TypeOK ==
    /\ inp \in Inputs
    /\ pc \in Pcs
    /\ iter \in Nat
    /\ streak \in 0 .. NEEDS_INFO_MAX_STREAK
    /\ tested \subseteq Hashes
    /\ explained \in [Hashes -> {"none", "fresh", "stale"}]
    /\ pendingExplain \in Hashes \union {None}
    /\ pendingAudits \subseteq Audits
    /\ hash \in Hashes \union {None}
    /\ {fixRecent, signalPending, warnPending, warned, oos, compensating, partial}
          \subseteq BOOLEAN
    /\ reason \in Reasons \union {None}
    /\ cancelRole \in Roles \union {None}
    /\ left \in [critical : 0 .. MaxActions, best : 0 .. MaxActions]
    /\ result \in [status : Statuses, iter_count : Nat] \union {None}
    /\ hostCancel \in {"no", "pending", "swallowed"}
    /\ done \in [branch : Nat, message : Nat, child : Nat, scanned : BOOLEAN,
                 committed : BOOLEAN, passed : BOOLEAN, pr : BOOLEAN,
                 outputPr : BOOLEAN, banners : Nat, compensations : Nat,
                 cancelAudit : Roles \union {None}, failedCritical : BOOLEAN,
                 appliedAfterFailure : BOOLEAN]

\* No comment, [fix] or [explain], in whatever order and number they arrive,
\* makes the runner work past iteration MAX_ITER, and a run started beyond the
\* cap touches nothing.
WorkStaysUnderCap ==
    /\ done.branch <= MAX_ITER /\ done.message <= MAX_ITER /\ done.child <= MAX_ITER
    /\ iter > MAX_ITER => done = NothingDone /\ pc = "closed"

\* Branch, commit message and test child each read iter_count again.  Comments
\* between the reads may make them differ but never run backwards, so the
\* child of a commit is not taken for that of an earlier iteration.
ArtefactsNamedInOrder ==
    /\ done.message # 0 => done.branch # 0 /\ done.branch <= done.message
    /\ done.child # 0 => done.message <= done.child

\* "This guarantees the compensation chain fires exactly once even under
\* signal replay or rapid double-tap": a run that reports cancelled, or failed
\* on a critical output action, has compensated once, and no run twice.
CompensationOnce ==
    /\ done.compensations <= 1
    /\ result # None =>
          (done.compensations = 1 <=> \/ result.status = "cancelled"
                                      \/ done.failedCritical)

\* "The first cancel wins": later cancel signals change neither the actor the
\* chain is run for nor the one the audit row names.
FirstCancelWins ==
    [][cancelRole # None => /\ cancelRole' = cancelRole
                            /\ done'.cancelAudit \in {None, cancelRole}]_vars

\* What the runner ships is vetted as far as its type promises: no commit without
\* a clean pre-commit scan; the handler's own pull request only for a commit whose
\* tests passed; the pull request an output action opens for the run's branch only
\* for a commit of this run, tested in a run with tests.  A commit-only run tests
\* nothing, and an action that names another branch is not looked at.
ShippedWorkIsVetted ==
    /\ done.committed => done.scanned
    /\ done.pr => done.committed /\ done.passed
    /\ done.outputPr => /\ done.committed
                        /\ inp.type = "code_change_with_test" => done.passed

\* "Any critical failure short-circuits the rest": once a critical output
\* action failed no further action of either severity is applied, and the run
\* does not end as a success.
CriticalFailureStops ==
    done.failedCritical =>
        /\ ~done.appliedAfterFailure
        /\ result # None => result.status = "failed"

\* "The banner activity is invoked at most one time across the lifetime".
BannerOnce == done.banners <= 1

\* Once a run is out of scope or cancelled, no comment moves its counters.
StoppedRunsStopCounting ==
    [][pc' = pc /\ (oos \/ cancelRole # None) =>
          UNCHANGED <<iter, streak, pendingExplain, pendingAudits>>]_vars

\* The first cancel decides, and a run that is cancelled or out of scope counts
\* no further comment.
CancelIsFinal ==
    /\ FirstCancelWins
    /\ StoppedRunsStopCounting

\* run sets the edge the wait looks for before it gets there, so the wait, and
\* its seven-day timeout, never hold a run.
SignalWaitNeverBlocks == pc = "wait" => signalPending

\* What the runner leaves behind, over all interleavings of comments, cancels and
\* failing activities: artefacts of one iteration in order, nothing unvetted, no
\* output action after a critical failure, one banner, and no wait that blocks.
RunIsOrderly ==
    /\ TypeOK
    /\ ArtefactsNamedInOrder
    /\ ShippedWorkIsVetted
    /\ CriticalFailureStops
    /\ BannerOnce
    /\ SignalWaitNeverBlocks

\* A run always closes, whatever fails and however many signals arrive.
RunnerCloses == <>~Open
==============================================================================
