-------------------------- MODULE AutomationGateway --------------------------
(***************************************************************************)
(* AutomationWorkflow, the gateway every Jira task goes through: it asks   *)
(* the task analyser what the task is, asks the reporter for what is       *)
(* missing, checks capabilities and branch rules, and starts the child     *)
(* workflow that does the work                                             *)
(* (automation_worker/workflows/automation_workflow.py).                   *)
(*                                                                         *)
(* One action per await of the coroutine, plus the info_received signal    *)
(* and Temporal's cancellation request, which arrive between any two.      *)
(***************************************************************************)
EXTENDS TaskAnalysis, FiniteSets

CONSTANTS
    Issues,          \* Jira issues: what their text and type amount to
    Events,          \* the texts a task's event may carry, or None
    LlmAnswers,      \* what the analyser's LLM call may come back with
    Departments,     \* what the department has, and the way the task came in
    RuleConfigs,     \* the department's branch_pattern_rules
    MAX_ITERATIONS   \* _NEEDS_INFO_MAX_ITERATIONS

\* The names and branches an analysis may hold.
Names ==
    VALID_WORKFLOW_TYPES \union {None}
    \union {canonical_workflow_type(llm.type) : llm \in LlmAnswers}
Branches ==
    {None} \union {issue.branch : issue \in Issues \union (Events \ {None})}
    \union {llm.branch : llm \in LlmAnswers}

\* TaskAnalysisResult, _AutomationStop and _ChildSpec.
TaskShape ==
    [accepted : BOOLEAN, status : {"ready", "needs_info", "rejected"},
     source : {"yaml_frontmatter", "llm_analysis", "epic_auto_detect"},
     workflow_type : Names, confidence : 0 .. 100, missing : BOOLEAN,
     command : BOOLEAN, branch : Branches, actions : BOOLEAN]
StopShape ==
    [decision : {"failed", "denied", "out_of_scope"},
     reason : {"task_analysis_failed", "task_analysis_rejected", "loop_cap_reached",
               "needs_info_timeout", "missing_capability", "branch_rule_denied",
               "child_dispatch_failed"}]
ChildShape ==
    [workflow : {"ExecutionRunWorkflow", "AgentRunnerWorkflow"}, type : VALID_WORKFLOW_TYPES,
     branch : Branches, command : BOOLEAN, policy : {"TERMINATE", "ABANDON"}]

\* The fields of an issue the analyser reads.
IsIssue(issue) ==
    issue \in [frontmatter : {issue.frontmatter}, command : {issue.command},
               branch : Branches, actions : {issue.actions}, described : BOOLEAN,
               epic : BOOLEAN, subtasks : BOOLEAN, web_enabled : BOOLEAN]

\* None is no name of a type or a branch, and no result.
ASSUME GatewayAssumption ==
    /\ MAX_ITERATIONS \in Nat \ {0}
    /\ \A issue \in Issues \union (Events \ {None}) : IsIssue(issue)
    /\ \A dept \in Departments : dept.bots \union dept.keyed \subseteq {"jira", "bitbucket", "confluence"}
    /\ \A llm \in LlmAnswers : llm.confidence.value \in Int /\ llm.missing \in BOOLEAN
    /\ None \notin VALID_WORKFLOW_TYPES \union {"release/*"}
    /\ None \notin TaskShape /\ None \notin StopShape /\ None \notin ChildShape

VARIABLES
    env,             \* the issue and the department, fixed for the run
    pc,              \* where the coroutine is suspended
    task,            \* the last TaskAnalysisResult, or None
    fetched,         \* history: the last jira_get_issue succeeded
    round,           \* needs_info rounds entered
    asked,           \* history: the analyses that ended with a question to the reporter
    infoReceived,    \* self._info_received
    pendingBody,     \* self._pending_comment_body
    repliedParked,   \* history: a reply was handled since the coroutine was parked for it
    stop,            \* the _AutomationStop, or None
    child,           \* the child workflow started, or None
    notified,        \* statuses handed to dispatch_notification, in order
    cancel           \* "no", "pending" at an activity, or "swallowed"

signalVars == <<infoReceived, pendingBody, repliedParked>>
vars == <<env, pc, task, fetched, round, asked, signalVars, stop, child, notified, cancel>>

Stop(decision, reason) == [decision |-> decision, reason |-> reason]

Init ==
    /\ env \in [issue : Issues, event : Events, caps : {AvailableCapabilities(d) : d \in Departments},
               rules : RuleConfigs]
    /\ pc = "ack" /\ task = None /\ fetched = FALSE
    /\ round = 0 /\ asked = 0
    /\ infoReceived = FALSE /\ pendingBody = None
    /\ repliedParked = FALSE
    /\ stop = None /\ child = None /\ notified = << >> /\ cancel = "no"

Closed == pc \in {"done", "cancelled"}

-----------------------------------------------------------------------------
\* The info_received handler: any comment, even an empty one, flips the flag.
info_received(body) ==
    /\ ~Closed
    /\ pendingBody' = body
    /\ infoReceived' = TRUE
    /\ repliedParked' = (repliedParked \/ pc = "wait")
    /\ UNCHANGED <<env, pc, task, fetched, round, asked, stop, child,
                   notified, cancel>>

\* A cancellation request ends a parked workflow.  Anywhere else it cancels
\* the activity or child call being awaited, which fails with an ordinary
\* exception.
RequestCancel ==
    /\ ~Closed /\ cancel = "no"
    /\ IF pc = "wait"
       THEN pc' = "cancelled" /\ UNCHANGED cancel
       ELSE cancel' = "pending" /\ UNCHANGED pc
    /\ UNCHANGED <<env, task, fetched, round, asked, signalVars, stop,
                   child, notified>>

\* An awaited call returns.  A pending cancellation is spent on it, whether it makes
\* the call fail or comes too late for that.
Returns(ok) == cancel' = IF cancel = "pending" THEN "swallowed" ELSE cancel

StopWith(decision, reason) ==
    /\ stop' = Stop(decision, reason)
    /\ pc' = "stop_audit"

-----------------------------------------------------------------------------
\* _best_effort_jira_comment of the acknowledgement.
Ack(ok) ==
    /\ pc = "ack" /\ Returns(ok)
    /\ pc' = "prepare"
    /\ UNCHANGED <<env, task, fetched, round, asked, signalVars, stop,
                   child, notified>>

\* First half of _prepare_and_analyse.  The activity itself survives a failed
\* jira_get_issue.
Prepare(ok, read) ==
    /\ pc = "prepare" /\ Returns(ok)
    /\ IF ok THEN pc' = "analyse" /\ fetched' = read /\ UNCHANGED stop
       ELSE StopWith("failed", "task_analysis_failed") /\ UNCHANGED fetched
    /\ UNCHANGED <<env, task, round, asked, signalVars, child, notified>>

\* Mutant: the for-loop allows one round more.
AfterAnalysisOneMore(result) ==
    CASE result.status = "rejected" ->
           StopWith("denied", "task_analysis_rejected")
      [] result.status = "needs_info" /\ round = 0 ->
           pc' = "park_transition" /\ UNCHANGED stop
      [] result.status = "needs_info" /\ round > 0 /\ round <= MAX_ITERATIONS ->
           pc' = "park_audit" /\ UNCHANGED stop
      [] result.status = "needs_info" /\ round > MAX_ITERATIONS ->
           StopWith("failed", "loop_cap_reached")
      [] result.status = "ready" -> pc' = "bridge" /\ UNCHANGED stop

\* What _run_task_analyser does with a result.
AfterAnalysis(result) ==
    CASE result.status = "rejected" ->
           StopWith("denied", "task_analysis_rejected")
      [] result.status = "needs_info" /\ round = 0 ->
           pc' = "park_transition" /\ UNCHANGED stop
      [] result.status = "needs_info" /\ round > 0 /\ round < MAX_ITERATIONS ->
           pc' = "park_audit" /\ UNCHANGED stop
      [] result.status = "needs_info" /\ round >= MAX_ITERATIONS ->
           StopWith("failed", "loop_cap_reached")
      [] result.status = "ready" -> pc' = "bridge" /\ UNCHANGED stop

\* Second half: the analyze_task activity, which itself posts the question that goes
\* with a needs_info result, also when no round is left to wait for the answer.
Analyse(ok, llm) ==
    LET read   == IssueAsRead(env.issue, fetched, env.event)
        result == analyze_task(read, llm)
    IN
    /\ pc = "analyse" /\ Returns(ok)
    /\ IF ok
       THEN /\ task' = result
            /\ asked' = IF result.status = "needs_info" THEN asked + 1 ELSE asked
            /\ AfterAnalysis(result)
       ELSE /\ StopWith("failed", "task_analysis_failed")
            /\ UNCHANGED <<task, asked>>
    /\ UNCHANGED <<env, fetched, round, infoReceived, pendingBody,
                   repliedParked, child, notified>>

\* The transition to needs_info, once, before the loop.
ParkTransition(ok) ==
    /\ pc = "park_transition" /\ Returns(ok)
    /\ pc' = "park_audit"
    /\ UNCHANGED <<env, task, fetched, round, asked, signalVars, stop,
                   child, notified>>

\* The task_analyser_needs_info_parked row; when the write returns, the flag
\* and the body are reset and the wait begins.
ParkAudit(ok) ==
    /\ pc = "park_audit" /\ Returns(ok)
    /\ round' = round + 1
    /\ infoReceived' = FALSE /\ pendingBody' = None /\ repliedParked' = FALSE
    /\ pc' = "wait"
    /\ UNCHANGED <<env, task, fetched, asked, stop, child, notified>>

\* wait_condition sees the flag: prepare and analyse again with the reply.
Wake ==
    /\ pc = "wait" /\ infoReceived
    /\ pc' = "prepare"
    /\ UNCHANGED <<env, task, fetched, round, asked, signalVars, stop,
                   child, notified, cancel>>

\* Mutant: the wait has no timeout.
WaitForever == pc = "wait" /\ ~infoReceived /\ UNCHANGED vars

\* Mutant: the timer wins against a reply that is already there.
TimeoutFirst ==
    /\ pc = "wait"
    /\ pc' = "stale_transition"
    /\ UNCHANGED <<env, task, fetched, round, asked, signalVars, stop,
                   child, notified, cancel>>

\* The _NEEDS_INFO_TIMEOUT timer.
WaitTimeout ==
    /\ pc = "wait" /\ ~infoReceived
    /\ pc' = "stale_transition"
    /\ UNCHANGED <<env, task, fetched, round, asked, signalVars, stop,
                   child, notified, cancel>>

StaleTransition(ok) ==
    /\ pc = "stale_transition" /\ Returns(ok)
    /\ StopWith("failed", "needs_info_timeout")
    /\ UNCHANGED <<env, task, fetched, round, asked, signalVars, child,
                   notified>>

-----------------------------------------------------------------------------
\* The bridge and the guard of the older needs_info loop.
Bridge ==
    LET analysis == to_llm_analysis_result(task) IN
    /\ pc = "bridge"
    /\ pc' = IF analysis.confidence = "low" /\ analysis.questions
             THEN "legacy_loop" ELSE "capabilities"
    /\ UNCHANGED <<env, task, fetched, round, asked, signalVars, stop,
                   child, notified, cancel>>

\* Mutant: the gate looks at what the department has, not at what is missing.
CapabilityGateAnyMatch ==
    /\ pc = "capabilities"
    /\ IF required_capabilities(task.workflow_type) \intersect env.caps = {}
       THEN StopWith("denied", "missing_capability")
       ELSE pc' = "start_child" /\ UNCHANGED stop
    /\ UNCHANGED <<env, task, fetched, round, asked, signalVars, child,
                   notified, cancel>>

\* The capability gate, then the branch rules where a branch is involved.
CapabilityGate ==
    LET missing == missing_capabilities(required_capabilities(task.workflow_type),
                                        env.caps) IN
    /\ pc = "capabilities"
    /\ IF missing # {}
       THEN StopWith("denied", "missing_capability")
       ELSE /\ pc' = IF /\ task.workflow_type \in BRANCH_AWARE_WORKFLOW_TYPES
                        /\ task.branch # None
                     THEN "branch_rules" ELSE "start_child"
            /\ UNCHANGED stop
    /\ UNCHANGED <<env, task, fetched, round, asked, signalVars, child,
                   notified, cancel>>

\* _evaluate_branch_pattern_rules: a failed load means the pinned defaults.
BranchRules(ok) ==
    LET rules == IF ok THEN coerce_rules(env.rules)
                 ELSE DEFAULT_BRANCH_PATTERN_RULES IN
    /\ pc = "branch_rules" /\ Returns(ok)
    /\ IF route_by_branch_pattern(task.branch, task.workflow_type, rules)
       THEN pc' = "start_child" /\ UNCHANGED stop
       ELSE StopWith("out_of_scope", "branch_rule_denied")
    /\ UNCHANGED <<env, task, fetched, round, asked, signalVars, child,
                   notified>>

\* _child_args: the branch the override pins, else the analysis'; a runner of
\* commands gets one, which noop_test brings along.
child_args(result) ==
    LET override == build_description_override(result)
        analysis == to_llm_analysis_result(result)
    IN  [type |-> result.workflow_type,
         branch |-> IF override.target_branch # None THEN override.target_branch
                    ELSE analysis.target_branch,
         command |-> \/ result.workflow_type = "noop_test"
                     \/ /\ result.workflow_type \in EXECUTION_RUN_WORKFLOW_TYPES
                        /\ override.execution_command]

\* _build_child_spec: the child runs what the analysis says; it is awaited, and
\* terminated with the parent, or abandoned.
build_child_spec(result) ==
    LET awaited == \/ result.workflow_type = "noop_test"
                   \/ /\ result.workflow_type \in {"remote_ssh_test_only",
                                                   "script_execute"}
                      /\ result.actions
    IN  [workflow |-> IF result.workflow_type \in EXECUTION_RUN_WORKFLOW_TYPES
                      THEN "ExecutionRunWorkflow" ELSE "AgentRunnerWorkflow",
         type |-> child_args(result).type,
         branch |-> child_args(result).branch,
         command |-> child_args(result).command,
         policy |-> IF awaited THEN "TERMINATE" ELSE "ABANDON"]

\* Mutant: a failed start is handled like a finished child.
StartChildFallsThrough(ok) ==
    LET spec == build_child_spec(task) IN
    /\ pc = "start_child" /\ Returns(ok)
    /\ child' = IF ok THEN spec ELSE None
    /\ pc' = IF ok /\ spec.policy = "TERMINATE" THEN "await_child" ELSE "notify_completed"
    /\ UNCHANGED <<env, task, fetched, round, asked, signalVars, stop, notified>>

StartChild(ok) ==
    LET spec == build_child_spec(task) IN
    /\ pc = "start_child" /\ Returns(ok)
    /\ IF ok
       THEN /\ child' = spec
            /\ pc' = IF spec.policy = "TERMINATE" THEN "await_child"
                     ELSE "notify_completed"
            /\ UNCHANGED stop
       ELSE StopWith("failed", "child_dispatch_failed") /\ UNCHANGED child
    /\ UNCHANGED <<env, task, fetched, round, asked, signalVars, notified>>

\* The child ends.  noop_test posts only a result it got; an execution run is
\* published either way.
AwaitChild(ok) ==
    /\ pc = "await_child" /\ Returns(ok)
    /\ pc' = IF ~ok /\ child.type = "noop_test" THEN "notify_completed"
             ELSE "publish"
    /\ UNCHANGED <<env, task, fetched, round, asked, signalVars, stop,
                   child, notified>>

\* noop_test_post_result or execute_output_actions, both best effort.
Publish(ok) ==
    /\ pc = "publish" /\ Returns(ok)
    /\ pc' = "notify_completed"
    /\ UNCHANGED <<env, task, fetched, round, asked, signalVars, stop,
                   child, notified>>

NotifyCompleted(ok) ==
    /\ pc = "notify_completed" /\ Returns(ok)
    /\ notified' = Append(notified, "completed")
    /\ pc' = "done"
    /\ UNCHANGED <<env, task, fetched, round, asked, signalVars, stop, child>>

\* _stop_with_audit; a rejection has no comment of its own, because the
\* analyser has posted one.
StopAudit(ok) ==
    /\ pc = "stop_audit" /\ Returns(ok)
    /\ pc' = IF stop.reason = "task_analysis_rejected" THEN "stop_notify"
             ELSE "stop_comment"
    /\ UNCHANGED <<env, task, fetched, round, asked, signalVars, stop,
                   child, notified>>

StopComment(ok) ==
    /\ pc = "stop_comment" /\ Returns(ok)
    /\ pc' = "stop_notify"
    /\ UNCHANGED <<env, task, fetched, round, asked, signalVars, stop,
                   child, notified>>

\* _finalize_stop
StopNotify(ok) ==
    /\ pc = "stop_notify" /\ Returns(ok)
    /\ notified' = Append(notified, "failed")
    /\ pc' = "done"
    /\ UNCHANGED <<env, task, fetched, round, asked, signalVars, stop, child>>

Terminated == Closed /\ UNCHANGED vars

Activity(ok) ==
    \/ Ack(ok) \/ ParkTransition(ok) \/ ParkAudit(ok) \/ StaleTransition(ok)
    \/ BranchRules(ok) \/ StartChild(ok) \/ AwaitChild(ok) \/ Publish(ok)
    \/ NotifyCompleted(ok) \/ StopAudit(ok) \/ StopComment(ok) \/ StopNotify(ok)
    \/ \E read \in BOOLEAN : Prepare(ok, read)
    \/ \E llm \in LlmAnswers : Analyse(ok, llm)

Step == \/ Wake \/ WaitTimeout \/ Bridge \/ CapabilityGate
        \/ \E ok \in BOOLEAN : Activity(ok)

Next == \/ Step
        \/ \E body \in {"empty", "text"} : info_received(body)
        \/ RequestCancel
        \/ Terminated

\* Temporal resumes the coroutine whenever what it awaits is there: activities
\* and children end, the timer fires.
Spec == Init /\ [][Next]_vars /\ WF_vars(Step)

-----------------------------------------------------------------------------
TypeOK ==
    /\ env.caps \subseteq {"jira", "bitbucket", "confluence", "execution", "web_search"}
    /\ pc \in {"ack", "prepare", "analyse", "park_transition", "park_audit",
               "wait", "stale_transition", "bridge", "capabilities",
               "branch_rules", "start_child", "await_child", "publish",
               "notify_completed", "stop_audit", "stop_comment", "stop_notify",
               "done", "cancelled"}
    /\ task # None => task \in TaskShape
    /\ round \in 0 .. MAX_ITERATIONS /\ asked \in 0 .. MAX_ITERATIONS + 1
    /\ {fetched, infoReceived, repliedParked} \subseteq BOOLEAN
    /\ pendingBody \in {None, "empty", "text"}
    /\ stop # None => stop \in StopShape
    /\ child # None => child \in ChildShape
    /\ notified \in Seq({"completed", "failed"})
    /\ cancel \in {"no", "pending", "swallowed"}

\* A child is only ever started for work the department may do: every
\* capability its type needs is there, whatever the analyser made of the task
\* on the way, a runner of commands has one, and the branch it will touch is one the rules in force (the
\* department's, or the pinned ones when they cannot be used) leave open.
DispatchedWorkIsAllowed ==
    child # None =>
        /\ child.type \in VALID_WORKFLOW_TYPES
        /\ required_capabilities(child.type) \subseteq env.caps
        /\ child.workflow = "ExecutionRunWorkflow" => child.command
        /\ child.type \in BRANCH_AWARE_WORKFLOW_TYPES /\ child.branch # None =>
              \/ route_by_branch_pattern(child.branch, child.type,
                                         DEFAULT_BRANCH_PATTERN_RULES)
              \/ route_by_branch_pattern(child.branch, child.type,
                                         coerce_rules(env.rules))

\* release/* branches stay closed to code changes in a department whose own
\* rules are malformed: the pinned rules take over (docstring of _coerce_rules,
\* "replaced with the pinned defaults so the gate stays safe").
PinnedRulesProtectRelease ==
    (child # None /\ env.rules.kind = "malformed" /\ child.branch = "release/*")
    => child.type \notin {"code_change_with_test", "code_change_commit_only"}

\* The bridge comment: "the analyser activity already short-circuits
\* low-confidence outputs".  A task the analyser calls ready never reaches the
\* older question loop, whatever the confidence, the missing fields and the
\* path (YAML, Epic, LLM) that produced it.
LegacyLoopUnreachable == pc # "legacy_loop"

\* Whatever route a task takes through analysis, questions and gates, the work
\* handed over is work the department and its branch rules allow.
WorkIsAllowed ==
    /\ DispatchedWorkIsAllowed
    /\ PinnedRulesProtectRelease
    /\ LegacyLoopUnreachable

\* The reset before the wait: a parked workflow is only woken by a reply that
\* came after it was parked, never by the leftover of an earlier round.
NoStaleWakeUp == pc = "wait" /\ infoReceived => repliedParked

\* A run that gave up on the reporter was given no reply while it was parked:
\* info_received's "predicate observes the flip and resumes execution".
ParkedReplyIsHeard ==
    stop # None /\ stop.reason = "needs_info_timeout" => ~repliedParked

\* A parked run is woken by a reply to its last question and by nothing older,
\* and a reply that came while it was parked is never taken for silence.
RepliesAreHeard ==
    /\ NoStaleWakeUp
    /\ ParkedReplyIsHeard

\* Nobody is told twice, or told the wrong thing: a closed run has notified
\* exactly once, "completed" when a child runs and "failed" when the run was
\* stopped; and a stopped run has no child.
OutcomeIsToldOnce ==
    /\ stop # None => child = None
    /\ pc = "done" =>
          notified = << IF child # None THEN "completed" ELSE "failed" >>

\* The reporter is asked at most once more than the run waits: MAX_ITERATIONS rounds,
\* and one question that is posted with the last analysis and that nobody waits for.
\* The cap is reported after exactly that many.
QuestionsAreCapped ==
    /\ asked <= MAX_ITERATIONS + 1
    /\ stop # None /\ stop.reason = "loop_cap_reached" =>
          round = MAX_ITERATIONS /\ asked = MAX_ITERATIONS + 1

\* A run asks no more often than it may and tells its one outcome once.
RunIsAccounted ==
    /\ TypeOK
    /\ OutcomeIsToldOnce
    /\ QuestionsAreCapped

\* A gateway run always closes: no answer, failing activities, and replies
\* that never help included.
GatewayCloses == <>Closed

\* The life cycle of the task as the reporter and the department see it.
LifePhase(place) ==
    CASE place \in {"wait", "stale_transition"} -> "waiting"
      [] place \in {"await_child", "publish", "notify_completed"} -> "working"
      [] place \in {"stop_audit", "stop_comment", "stop_notify"} -> "refused"
      [] place = "done" -> "closed"
      [] place = "cancelled" -> "cancelled"
      [] OTHER -> "weighing"

Life == INSTANCE TaskLifecycle WITH
            MaxQuestions <- MAX_ITERATIONS, phase <- LifePhase(pc), questions <- round,
            started <- (child # None),
            told <- IF notified = << >> THEN "nothing" ELSE notified[Len(notified)]

\* The gateway implements TaskLifecycle: across failing activities, replies at
\* any time and swallowed cancellations, a task waits for its
\* reporter a bounded number of times, handed over or refused but never both, and its outcome told once,
\* to the end (AutomationWorkflow.run, _finalize_stop).
FollowsLifecycle == Life!LifeSpec
=============================================================================
