----------------------- MODULE AutomationGatewayProofs -----------------------
(***************************************************************************)
(* The gateway's safety for every set of issues, model answers,            *)
(* departments and rule configurations and any number of questions: one    *)
(* outcome told once, only allowed work handed over, replies heard, and    *)
(* the safety part of the life cycle it implements.                        *)
(***************************************************************************)
EXTENDS AutomationGateway, TLAPS

-----------------------------------------------------------------------------
(* The analysis.                                                           *)

\* What the gates of the analyser leave of a task they call ready.
Vetted(result) ==
    /\ result.workflow_type \in VALID_WORKFLOW_TYPES
    /\ result.confidence >= CONFIDENCE_THRESHOLD
    /\ result.workflow_type \in EXECUTION_COMMAND_WORKFLOW_TYPES => result.command

\* Labels, clamped numbers and junk all end up between 0 and 1.
LEMMA ConfidenceInRange ==
    ASSUME NEW raw, raw.value \in Int
    PROVE  coerce_confidence(raw) \in 0 .. 100
BY DEF coerce_confidence

\* A task without a front-matter that counts is what the model makes of it.
LEMMA LlmShape ==
    ASSUME NEW llm \in LlmAnswers
    PROVE  run_llm_analysis(llm) \in TaskShape
<1>1. result_from_llm(llm) \in TaskShape
  <2>1. canonical_workflow_type(llm.type) \in Names /\ llm.branch \in Branches
    BY DEF Names, Branches
  <2>2. coerce_confidence(llm.confidence) \in 0 .. 100 /\ llm.missing \in BOOLEAN
    BY ConfidenceInRange, GatewayAssumption
  <2>3. /\ command_or_none(llm.command) \in BOOLEAN
        /\ list_of_output_actions(llm.actions) \in BOOLEAN
    BY DEF command_or_none, list_of_output_actions
  <2> QED BY <2>1, <2>2, <2>3 DEF result_from_llm, Analysis, TaskShape
<1>2. Analysis("llm_analysis", None, 0, TRUE, FALSE, None, FALSE) \in TaskShape
  <2>1. None \in Names /\ None \in Branches
    BY DEF Names, Branches
  <2> QED BY <2>1 DEF Analysis, TaskShape
<1>3. [Analysis("llm_analysis", None, 0, TRUE, FALSE, None, FALSE)
         EXCEPT !.accepted = FALSE, !.status = "rejected"] \in TaskShape
  BY <1>2 DEF TaskShape
<1> QED BY <1>1, <1>2, <1>3 DEF run_llm_analysis

\* A front-matter with a valid type is trusted.
LEMMA FrontmatterShape ==
    ASSUME NEW issue, IsIssue(issue), frontmatter_type(issue) # None
    PROVE  result_from_frontmatter(issue) \in TaskShape
<1> DEFINE parsed == parse_description_frontmatter(issue)
<1>1. parsed # None /\ parsed.type \in VALID_WORKFLOW_TYPES
  BY DEF frontmatter_type
<1>2. parsed = [type |-> canonical_workflow_type(issue.frontmatter), branch |-> issue.branch,
                command |-> coerce_command(issue.command),
                actions |-> coerce_output(issue.actions)]
  BY <1>1 DEF parse_description_frontmatter
<1>3. /\ coerce_command(issue.command) \in BOOLEAN
      /\ coerce_output(issue.actions) \in BOOLEAN
  BY DEF coerce_command, coerce_output
<1>4. issue.branch \in Branches
  BY DEF IsIssue
<1>5. /\ parsed.type \in Names /\ parsed.branch \in Branches
      /\ parsed.command \in BOOLEAN /\ parsed.actions \in BOOLEAN
  BY <1>1, <1>2, <1>3, <1>4 DEF Names
<1> QED
  BY <1>5 DEF result_from_frontmatter, Analysis, TaskShape

\* The gates keep the shape and call ready only what they have looked at.
LEMMA GatesVet ==
    ASSUME NEW raw \in TaskShape, raw.workflow_type \in VALID_WORKFLOW_TYPES,
           NEW web \in BOOLEAN
    PROVE  LET result == command_gate(apply_web_search_downgrade(raw, web))
           IN  /\ result \in TaskShape
               /\ result.status = "ready" => Vetted(result)
<1> DEFINE mid == apply_web_search_downgrade(raw, web)
<1>0. "research_basic" \in Names /\ "research_basic" \in VALID_WORKFLOW_TYPES
  BY DEF Names, VALID_WORKFLOW_TYPES
<1>1. mid \in TaskShape /\ mid.workflow_type \in VALID_WORKFLOW_TYPES
  <2>1. CASE mid = raw
    BY <2>1
  <2>2. CASE mid = [raw EXCEPT !.workflow_type = "research_basic"]
    BY <2>2, <1>0 DEF TaskShape
  <2> QED BY <2>1, <2>2 DEF apply_web_search_downgrade
<1> HIDE DEF mid
<1>2. command_gate(mid) \in TaskShape
  BY <1>1 DEF command_gate, confidence_gate, TaskShape
<1>3. command_gate(mid).status = "ready" => Vetted(command_gate(mid))
  BY <1>1 DEF command_gate, confidence_gate, TaskShape, Vetted, CONFIDENCE_THRESHOLD
<1> QED BY <1>2, <1>3 DEF mid

\* Whichever of front-matter, Epic and model decides, analyze_task answers with
\* a result, and a ready one has passed every gate.
LEMMA AnalysisVets ==
    ASSUME NEW issue, IsIssue(issue), NEW llm \in LlmAnswers
    PROVE  /\ analyze_task(issue, llm) \in TaskShape
           /\ analyze_task(issue, llm).status = "ready" => Vetted(analyze_task(issue, llm))
<1> DEFINE raw == IF frontmatter_type(issue) # None
                  THEN result_from_frontmatter(issue) ELSE run_llm_analysis(llm)
<1>1. raw \in TaskShape
  BY LlmShape, FrontmatterShape
<1>2. ~is_epic_issue(issue)
  BY DEF is_epic_issue, IssueMetaKeys
<1>3. CASE raw.workflow_type \notin VALID_WORKFLOW_TYPES
  <2>1. analyze_task(issue, llm) = [raw EXCEPT !.accepted = FALSE, !.status = "rejected"]
    BY <1>2, <1>3 DEF analyze_task
  <2> HIDE DEF raw
  <2> QED BY <1>1, <2>1 DEF TaskShape
<1>4. CASE raw.workflow_type \in VALID_WORKFLOW_TYPES
  <2>1. analyze_task(issue, llm)
          = command_gate(apply_web_search_downgrade(raw, issue.web_enabled))
    BY <1>2, <1>4 DEF analyze_task
  <2>2. issue.web_enabled \in BOOLEAN
    BY DEF IsIssue
  <2> HIDE DEF raw
  <2> QED BY <1>1, <1>4, <2>1, <2>2, GatesVet
<1> QED BY <1>3, <1>4

\* Whatever the analyser is given to read, an issue, the event's text or nothing, has
\* the fields of an issue.
LEMMA ReadShape ==
    ASSUME NEW issue \in Issues, NEW b \in BOOLEAN, NEW event \in Events
    PROVE  IsIssue(IssueAsRead(issue, b, event))
<1>1. IsIssue(issue) /\ None \in Branches /\ (event # None => IsIssue(event))
  BY GatewayAssumption DEF Branches
<1> DEFINE blank == [issue EXCEPT !.frontmatter = None, !.command = << >>, !.branch = None,
                                  !.actions = {}, !.described = FALSE]
           text == CASE b /\ issue.described -> issue
                     [] ~(b /\ issue.described) /\ event # None -> event
                     [] OTHER -> blank
<1>2. IsIssue(blank)
  BY <1>1 DEF IsIssue
<1>3. IsIssue(text)
  <2> HIDE DEF blank
  <2>1. CASE b /\ issue.described
    BY <1>1, <2>1
  <2>2. CASE ~(b /\ issue.described) /\ event # None
    BY <1>1, <2>2
  <2>3. CASE ~(b /\ issue.described) /\ event = None
    BY <1>2, <2>3
  <2> QED BY <2>1, <2>2, <2>3
<1>4. IssueAsRead(issue, b, event)
        = [text EXCEPT !.epic = b /\ issue.epic, !.subtasks = b /\ issue.subtasks,
                       !.web_enabled = issue.web_enabled]
  BY DEF IssueAsRead
<1>5. /\ (b /\ issue.epic) \in BOOLEAN /\ (b /\ issue.subtasks) \in BOOLEAN
      /\ issue.web_enabled \in BOOLEAN
  BY <1>1 DEF IsIssue
<1> HIDE DEF text, blank
<1> QED BY <1>3, <1>4, <1>5 DEF IsIssue

-----------------------------------------------------------------------------
(* The inductive invariant.                                                *)

Weighing == {"ack", "prepare", "analyse", "park_transition", "park_audit", "bridge",
             "capabilities", "branch_rules", "start_child"}
Waiting == {"wait", "stale_transition"}
Working == {"await_child", "publish", "notify_completed"}
Refusing == {"stop_audit", "stop_comment", "stop_notify"}

\* Where the coroutine is decides what it has started, stopped and told.
OutcomeInv ==
    /\ pc \in Weighing \union Waiting \union {"cancelled"} =>
           stop = None /\ child = None /\ notified = << >>
    /\ pc \in Working => stop = None /\ child # None /\ notified = << >>
    /\ pc \in Refusing => stop # None /\ child = None /\ notified = << >>
    /\ pc = "done" => \/ stop = None /\ child # None /\ notified = <<"completed">>
                      \/ stop # None /\ child = None /\ notified = <<"failed">>

\* The rounds of questions, counted when the run is parked, and the questions,
\* counted when they are posted.
RoundInv ==
    /\ pc = "park_transition" => round = 0
    /\ pc = "park_audit" => round < MAX_ITERATIONS
    /\ pc \in {"park_transition", "park_audit"} => asked = round + 1
    /\ pc \in (Weighing \ {"park_transition", "park_audit"}) \union Waiting => asked = round
    /\ stop # None /\ stop.reason = "loop_cap_reached" =>
           round = MAX_ITERATIONS /\ asked = MAX_ITERATIONS + 1

\* While the run is parked the flag says whether there was a reply since.
ReplyInv ==
    /\ pc = "wait" => infoReceived = repliedParked
    /\ pc = "stale_transition" => ~repliedParked
    /\ stop # None /\ stop.reason = "needs_info_timeout" => ~repliedParked

\* The rules in force leave the branch of the task open.
BranchIsOpen(branch, type) ==
    type \in BRANCH_AWARE_WORKFLOW_TYPES /\ branch # None =>
        \/ route_by_branch_pattern(branch, type, DEFAULT_BRANCH_PATTERN_RULES)
        \/ route_by_branch_pattern(branch, type, coerce_rules(env.rules))

\* What each gate leaves for the next.
GatesInv ==
    /\ pc \in {"bridge", "capabilities", "branch_rules", "start_child"} =>
           task # None /\ Vetted(task)
    /\ pc \in {"branch_rules", "start_child"} =>
           required_capabilities(task.workflow_type) \subseteq env.caps
    /\ pc = "start_child" => BranchIsOpen(task.branch, task.workflow_type)

GInv ==
    /\ env.issue \in Issues /\ env.event \in Events
    /\ TypeOK
    /\ OutcomeInv
    /\ RoundInv
    /\ ReplyInv
    /\ GatesInv
    /\ DispatchedWorkIsAllowed

\* A department has no capability but the five that are told apart.
LEMMA CapabilitiesKnown ==
    ASSUME NEW dept \in Departments
    PROVE  AvailableCapabilities(dept)
             \subseteq {"jira", "bitbucket", "confluence", "execution", "web_search"}
<1>1. resolve_available_capabilities(dept)
        \subseteq {"jira", "bitbucket", "confluence", "execution", "web_search"}
  BY GatewayAssumption DEF resolve_available_capabilities
<1>2. simple_capabilities(dept)
        \subseteq {"jira", "bitbucket", "confluence", "execution", "web_search"}
  <2>0. \A cap \in load_dept_capabilities(dept) :
          cap \in {"jira", "bitbucket", "confluence", "execution", "web_search"}
    BY GatewayAssumption DEF load_dept_capabilities
  <2>1. \A cap \in derive_capabilities(dept) :
          cap \in {"jira_read", "jira_write", "bitbucket_read", "bitbucket_write",
                  "confluence_read", "confluence_write", "execution", "web_search"}
    BY DEF derive_capabilities
  <2>2. \A cap \in {"jira_read", "jira_write", "bitbucket_read", "bitbucket_write",
                    "confluence_read", "confluence_write", "jira", "bitbucket", "confluence",
                    "execution", "web_search"} :
          collapse_capability(cap)
            \in {"jira", "bitbucket", "confluence", "execution", "web_search"}
    BY DEF collapse_capability
  <2> QED BY <2>0, <2>1, <2>2 DEF simple_capabilities
<1> QED BY <1>1, <1>2 DEF AvailableCapabilities

\* The run begins with nothing asked, started or told.
LEMMA InitInv == Init => GInv
<1> SUFFICES ASSUME Init PROVE GInv
  OBVIOUS
<1>1. env.issue \in Issues /\ env.event \in Events
  BY DEF Init
<1>2. env.caps \subseteq {"jira", "bitbucket", "confluence", "execution", "web_search"}
  BY CapabilitiesKnown DEF Init
<1>3. TypeOK
  <2>1. << >> \in Seq({"completed", "failed"}) /\ 0 \in 0 .. MAX_ITERATIONS /\ 0 \in 0 .. MAX_ITERATIONS + 1
    BY GatewayAssumption
  <2>2. {fetched, infoReceived, repliedParked} \subseteq BOOLEAN
    BY DEF Init
  <2> QED BY <1>2, <2>1, <2>2 DEF Init, TypeOK
<1>4. OutcomeInv /\ RoundInv /\ ReplyInv /\ GatesInv /\ DispatchedWorkIsAllowed
  BY DEF Init, OutcomeInv, RoundInv, ReplyInv, GatesInv, DispatchedWorkIsAllowed,
     Weighing, Waiting, Working, Refusing
<1> QED BY <1>1, <1>3, <1>4 DEF GInv

-----------------------------------------------------------------------------
(* One lemma per kind of step.                                             *)

\* A stop is a result of its own.
LEMMA StopIsResult ==
    ASSUME NEW d \in {"failed", "denied", "out_of_scope"},
           NEW r \in {"task_analysis_failed", "task_analysis_rejected", "loop_cap_reached",
                      "needs_info_timeout", "missing_capability", "branch_rule_denied",
                      "child_dispatch_failed"}
    PROVE  Stop(d, r) # None /\ Stop(d, r) \in StopShape /\ Stop(d, r).reason = r
<1>1. Stop(d, r) \in StopShape
  BY DEF Stop, StopShape
<1>2. Stop(d, r) # None
  BY <1>1, GatewayAssumption
<1> QED BY <1>1, <1>2 DEF Stop

\* A step that only moves the coroutine on.
LEMMA MovingStep ==
    ASSUME GInv,
           \/ \E ok \in BOOLEAN : \/ Ack(ok) \/ ParkTransition(ok) \/ AwaitChild(ok)
                                 \/ Publish(ok) \/ StopAudit(ok) \/ StopComment(ok)
           \/ Wake \/ WaitTimeout \/ RequestCancel
           \/ UNCHANGED vars
    PROVE  GInv'
<1>1. /\ UNCHANGED <<env, task, fetched, round, asked, infoReceived, pendingBody, repliedParked,
                     stop, child, notified>>
      /\ cancel' \in {"no", "pending", "swallowed"}
      /\ pc = "wait" /\ pc' = "stale_transition" => ~infoReceived
      /\ \/ pc' = pc
         \/ pc = "ack" /\ pc' = "prepare"
         \/ pc = "park_transition" /\ pc' = "park_audit"
         \/ pc = "wait" /\ pc' \in {"prepare", "stale_transition", "cancelled"}
         \/ pc = "await_child" /\ pc' \in {"publish", "notify_completed"}
         \/ pc = "publish" /\ pc' = "notify_completed"
         \/ pc = "stop_audit" /\ pc' \in {"stop_comment", "stop_notify"}
         \/ pc = "stop_comment" /\ pc' = "stop_notify"
  BY DEF GInv, TypeOK, Ack, ParkTransition, AwaitChild, Publish, StopAudit, StopComment,
     Wake, WaitTimeout, RequestCancel, Returns, signalVars, vars
<1>2. env'.issue \in Issues /\ env'.event \in Events /\ DispatchedWorkIsAllowed'
  BY <1>1 DEF GInv, DispatchedWorkIsAllowed
<1>3. TypeOK'
  BY <1>1 DEF GInv, TypeOK
<1>4. OutcomeInv'
  BY <1>1 DEF GInv, OutcomeInv, Weighing, Waiting, Working, Refusing
<1>5. RoundInv'
  BY <1>1, GatewayAssumption DEF GInv, RoundInv, Weighing, Waiting
<1>6. ReplyInv'
  BY <1>1 DEF GInv, ReplyInv
<1>7. GatesInv'
  BY <1>1 DEF GInv, GatesInv, BranchIsOpen
<1> QED BY <1>2, <1>3, <1>4, <1>5, <1>6, <1>7 DEF GInv

\* The question is out: the flag is reset and the run parked.
LEMMA ParkingStep ==
    ASSUME GInv, NEW ok \in BOOLEAN, ParkAudit(ok) PROVE GInv'
<1>1. /\ UNCHANGED <<env, task, fetched, asked, stop, child, notified>>
      /\ pc = "park_audit" /\ pc' = "wait"
      /\ round' = round + 1
      /\ infoReceived' = FALSE /\ pendingBody' = None /\ repliedParked' = FALSE
      /\ cancel' \in {"no", "pending", "swallowed"}
  BY DEF GInv, TypeOK, ParkAudit, Returns
<1>2. env'.issue \in Issues /\ env'.event \in Events /\ DispatchedWorkIsAllowed'
  BY <1>1 DEF GInv, DispatchedWorkIsAllowed
<1>3. TypeOK'
  <2>1. round' \in 0 .. MAX_ITERATIONS
    BY <1>1, GatewayAssumption DEF GInv, TypeOK, RoundInv
  <2>2. {fetched', infoReceived', repliedParked'} \subseteq BOOLEAN
    BY <1>1 DEF GInv, TypeOK
  <2> QED BY <1>1, <2>1, <2>2 DEF GInv, TypeOK
<1>4. OutcomeInv' /\ RoundInv'
  BY <1>1 DEF GInv, OutcomeInv, RoundInv, Weighing, Waiting, Working, Refusing
<1>5. ReplyInv' /\ GatesInv'
  BY <1>1 DEF ReplyInv, GatesInv
<1> QED BY <1>2, <1>3, <1>4, <1>5 DEF GInv

\* A reply, wanted or not.
LEMMA ReplyStep ==
    ASSUME GInv, NEW body \in {"empty", "text"}, info_received(body) PROVE GInv'
<1>1. /\ UNCHANGED <<env, pc, task, fetched, round, asked, stop, child, notified, cancel>>
      /\ pendingBody' = body /\ infoReceived' = TRUE
      /\ repliedParked' = (repliedParked \/ pc = "wait")
  BY DEF info_received
<1>2. env'.issue \in Issues /\ env'.event \in Events /\ DispatchedWorkIsAllowed'
  BY <1>1 DEF GInv, DispatchedWorkIsAllowed
<1>3. TypeOK'
  <2>1. {fetched', infoReceived', repliedParked'} \subseteq BOOLEAN
    BY <1>1 DEF GInv, TypeOK
  <2> QED BY <1>1, <2>1 DEF GInv, TypeOK
<1>4. OutcomeInv' /\ RoundInv'
  BY <1>1 DEF GInv, OutcomeInv, RoundInv
<1>5. ReplyInv'
  BY <1>1 DEF GInv, ReplyInv, OutcomeInv, Waiting
<1>6. GatesInv'
  BY <1>1 DEF GInv, GatesInv, BranchIsOpen
<1> QED BY <1>2, <1>3, <1>4, <1>5, <1>6 DEF GInv

\* The outcome is told.
LEMMA TellingStep ==
    ASSUME GInv, NEW ok \in BOOLEAN, NotifyCompleted(ok) \/ StopNotify(ok) PROVE GInv'
<1>1. /\ UNCHANGED <<env, task, fetched, round, asked, infoReceived, pendingBody, repliedParked,
                     stop, child>>
      /\ pc' = "done"
      /\ cancel' \in {"no", "pending", "swallowed"}
      /\ \/ pc = "notify_completed" /\ notified' = Append(notified, "completed")
         \/ pc = "stop_notify" /\ notified' = Append(notified, "failed")
  BY DEF GInv, TypeOK, NotifyCompleted, StopNotify, Returns, signalVars
<1>2. notified = << >>
  BY <1>1 DEF GInv, OutcomeInv, Working, Refusing
<1>3. \/ pc = "notify_completed" /\ notified' = <<"completed">>
      \/ pc = "stop_notify" /\ notified' = <<"failed">>
  BY <1>1, <1>2
<1>4. env'.issue \in Issues /\ env'.event \in Events /\ DispatchedWorkIsAllowed'
  BY <1>1 DEF GInv, DispatchedWorkIsAllowed
<1>5. TypeOK'
  <2>1. notified' \in Seq({"completed", "failed"})
    BY <1>1 DEF GInv, TypeOK
  <2> QED BY <1>1, <2>1 DEF GInv, TypeOK
<1>6. OutcomeInv'
  BY <1>1, <1>3 DEF GInv, OutcomeInv, Weighing, Waiting, Working, Refusing
<1>7. RoundInv' /\ ReplyInv' /\ GatesInv'
  BY <1>1 DEF GInv, RoundInv, ReplyInv, GatesInv, Weighing, Waiting
<1> QED BY <1>4, <1>5, <1>6, <1>7 DEF GInv

\* Whatever stops a run leaves it with a reason and without a child.
LEMMA StoppingStep ==
    ASSUME GInv, pc \in Weighing \union Waiting,
           NEW d \in {"failed", "denied", "out_of_scope"},
           NEW r \in {"task_analysis_failed", "task_analysis_rejected", "loop_cap_reached",
                      "needs_info_timeout", "missing_capability", "branch_rule_denied",
                      "child_dispatch_failed"},
           StopWith(d, r),
           UNCHANGED <<env, fetched, round, infoReceived, pendingBody, repliedParked,
                       child, notified>>,
           task' = task \/ task' \in TaskShape,
           asked' = asked \/ asked' = round + 1,
           cancel' \in {"no", "pending", "swallowed"},
           r = "loop_cap_reached" => round = MAX_ITERATIONS /\ asked' = round + 1,
           r = "needs_info_timeout" => ~repliedParked
    PROVE  GInv'
<1>1. pc' = "stop_audit" /\ stop' # None /\ stop' \in StopShape /\ stop'.reason = r
  BY StopIsResult DEF StopWith
<1>2. env'.issue \in Issues /\ env'.event \in Events /\ DispatchedWorkIsAllowed'
  BY DEF GInv, DispatchedWorkIsAllowed
<1>3. TypeOK'
  <2>1. asked' \in 0 .. MAX_ITERATIONS + 1
    BY GatewayAssumption DEF GInv, TypeOK
  <2> QED BY <1>1, <2>1 DEF GInv, TypeOK
<1>4. OutcomeInv'
  BY <1>1 DEF GInv, OutcomeInv, Weighing, Waiting, Working, Refusing
<1>5. RoundInv' /\ ReplyInv' /\ GatesInv'
  BY <1>1 DEF RoundInv, ReplyInv, GatesInv, Weighing, Waiting
<1> QED BY <1>2, <1>3, <1>4, <1>5 DEF GInv

\* The description is read or the analysis has failed; nobody answered.
LEMMA PrepareStep ==
    ASSUME GInv, NEW ok \in BOOLEAN,
           StaleTransition(ok) \/ \E read \in BOOLEAN : Prepare(ok, read)
    PROVE  GInv'
<1>1. CASE StaleTransition(ok)
  <2>1. /\ pc = "stale_transition" /\ StopWith("failed", "needs_info_timeout")
        /\ UNCHANGED <<env, task, fetched, round, asked, infoReceived, pendingBody, repliedParked,
                       child, notified>>
        /\ cancel' \in {"no", "pending", "swallowed"}
        /\ ~repliedParked
    BY <1>1 DEF GInv, TypeOK, ReplyInv, StaleTransition, Returns, signalVars
  <2> QED BY <2>1, StoppingStep DEF Waiting
<1>2. ASSUME NEW read \in BOOLEAN, Prepare(ok, read) PROVE GInv'
  <2>1. /\ pc = "prepare"
        /\ UNCHANGED <<env, task, round, asked, infoReceived, pendingBody, repliedParked,
                       child, notified>>
        /\ cancel' \in {"no", "pending", "swallowed"}
    BY <1>2 DEF GInv, TypeOK, Prepare, Returns, signalVars
  <2>2. CASE ok
    <3>1. pc' = "analyse" /\ fetched' = read /\ stop' = stop
      BY <1>2, <2>2 DEF Prepare
    <3>2. TypeOK'
      <4>1. {fetched', infoReceived', repliedParked'} \subseteq BOOLEAN
        BY <2>1, <3>1 DEF GInv, TypeOK
      <4> QED BY <2>1, <3>1, <4>1 DEF GInv, TypeOK
    <3>3. OutcomeInv' /\ RoundInv' /\ ReplyInv' /\ GatesInv'
      BY <2>1, <3>1 DEF GInv, OutcomeInv, RoundInv, ReplyInv, GatesInv,
         Weighing, Waiting, Working, Refusing
    <3>4. env'.issue \in Issues /\ env'.event \in Events /\ DispatchedWorkIsAllowed'
      BY <2>1 DEF GInv, DispatchedWorkIsAllowed
    <3> QED BY <3>2, <3>3, <3>4 DEF GInv
  <2>3. CASE ~ok
    <3>1. StopWith("failed", "task_analysis_failed") /\ fetched' = fetched
      BY <1>2, <2>3 DEF Prepare
    <3> QED BY <2>1, <3>1, StoppingStep DEF Weighing
  <2> QED BY <2>2, <2>3
<1> QED BY <1>1, <1>2

\* A step that passes a gate: only the place in the coroutine and the analysis
\* may change.
LEMMA PassingStep ==
    ASSUME GInv, pc \in Weighing, pc' \in Weighing,
           UNCHANGED <<env, fetched, round, infoReceived, pendingBody, repliedParked,
                       stop, child, notified>>,
           asked' = IF pc' \in {"park_transition", "park_audit"} THEN round + 1 ELSE round,
           task' = task \/ task' \in TaskShape,
           cancel' \in {"no", "pending", "swallowed"},
           pc' = "park_transition" => round = 0,
           pc' = "park_audit" => round < MAX_ITERATIONS,
           GatesInv'
    PROVE  GInv'
<1>1. env'.issue \in Issues /\ env'.event \in Events /\ DispatchedWorkIsAllowed'
  BY DEF GInv, DispatchedWorkIsAllowed
<1>2. TypeOK'
  <2>1. asked' \in 0 .. MAX_ITERATIONS + 1
    BY GatewayAssumption DEF GInv, TypeOK
  <2> QED BY <2>1 DEF GInv, TypeOK, Weighing
<1>3. OutcomeInv' /\ RoundInv' /\ ReplyInv'
  BY DEF GInv, OutcomeInv, RoundInv, ReplyInv, Weighing, Waiting, Working, Refusing
<1> QED BY <1>1, <1>2, <1>3 DEF GInv

\* The analysis fails, rejects the task, asks within the cap, or finds the task
\* ready and vetted.
LEMMA AnalyseOutcome ==
    ASSUME GInv, NEW ok \in BOOLEAN, NEW llm \in LlmAnswers, Analyse(ok, llm)
    PROVE  \/ StopWith("failed", "task_analysis_failed") /\ task' = task /\ asked' = asked
           \/ /\ task' \in TaskShape
              /\ \/ StopWith("denied", "task_analysis_rejected") /\ asked' = asked
                 \/ /\ StopWith("failed", "loop_cap_reached")
                    /\ round = MAX_ITERATIONS /\ asked' = round + 1
                 \/ /\ pc' = "park_transition" /\ round = 0
                    /\ stop' = stop /\ asked' = round + 1
                 \/ /\ pc' = "park_audit" /\ round < MAX_ITERATIONS
                    /\ stop' = stop /\ asked' = round + 1
                 \/ pc' = "bridge" /\ Vetted(task') /\ stop' = stop /\ asked' = round
<1> DEFINE result == analyze_task(IssueAsRead(env.issue, fetched, env.event), llm)
<1>1. result \in TaskShape /\ (result.status = "ready" => Vetted(result))
  <2>1. env.issue \in Issues /\ env.event \in Events /\ fetched \in BOOLEAN
    BY DEF GInv, TypeOK
  <2>2. IsIssue(IssueAsRead(env.issue, fetched, env.event))
    BY <2>1, ReadShape
  <2> QED BY <2>2, AnalysisVets
<1>2. CASE ~ok
  BY <1>2 DEF Analyse
<1>3. CASE ok
  <2>0. asked = round
    BY DEF GInv, RoundInv, Analyse, Weighing
  <2>1. /\ task' = result /\ AfterAnalysis(result)
        /\ asked' = IF result.status = "needs_info" THEN round + 1 ELSE round
    BY <1>3, <2>0 DEF Analyse
  <2> HIDE DEF result
  <2>2. result.status \in {"ready", "needs_info", "rejected"}
    BY <1>1 DEF TaskShape
  <2>3. round \in Nat /\ MAX_ITERATIONS \in Nat \ {0} /\ round <= MAX_ITERATIONS
    BY GatewayAssumption DEF GInv, TypeOK
  <2>4. CASE result.status = "rejected"
    BY <1>1, <2>0, <2>1, <2>4 DEF AfterAnalysis
  <2>5. CASE result.status = "needs_info"
    <3>1. CASE round = 0
      <4>1. ~(round > 0) /\ ~(round >= MAX_ITERATIONS)
        BY <2>3, <3>1
      <4> QED BY <1>1, <2>1, <2>5, <3>1, <4>1 DEF AfterAnalysis
    <3>2. CASE round > 0 /\ round < MAX_ITERATIONS
      <4>1. round # 0 /\ ~(round >= MAX_ITERATIONS)
        BY <2>3, <3>2
      <4> QED BY <1>1, <2>1, <2>5, <3>2, <4>1 DEF AfterAnalysis
    <3>3. CASE round >= MAX_ITERATIONS
      BY <1>1, <2>1, <2>3, <2>5, <3>3 DEF AfterAnalysis
    <3> QED BY <2>3, <3>1, <3>2, <3>3
  <2>6. CASE result.status = "ready"
    BY <1>1, <2>1, <2>6 DEF AfterAnalysis
  <2> QED BY <2>2, <2>4, <2>5, <2>6
<1> QED BY <1>2, <1>3

\* Each of these keeps the invariant.
LEMMA AnalyseStep ==
    ASSUME GInv, NEW ok \in BOOLEAN, NEW llm \in LlmAnswers, Analyse(ok, llm)
    PROVE  GInv'
<1>1. /\ pc = "analyse"
      /\ UNCHANGED <<env, fetched, round, infoReceived, pendingBody, repliedParked,
                     child, notified>>
      /\ cancel' \in {"no", "pending", "swallowed"}
      /\ asked = round
  BY DEF GInv, TypeOK, RoundInv, Weighing, Analyse, Returns
<1>2. CASE StopWith("failed", "task_analysis_failed") /\ task' = task /\ asked' = asked
  BY <1>1, <1>2, StoppingStep DEF Weighing
<1>3. CASE task' \in TaskShape /\ StopWith("denied", "task_analysis_rejected") /\ asked' = asked
  BY <1>1, <1>3, StoppingStep DEF Weighing
<1>4. CASE /\ task' \in TaskShape /\ StopWith("failed", "loop_cap_reached")
           /\ round = MAX_ITERATIONS /\ asked' = round + 1
  BY <1>1, <1>4, StoppingStep DEF Weighing
<1>5. CASE /\ task' \in TaskShape /\ stop' = stop /\ asked' = round + 1
           /\ \/ pc' = "park_transition" /\ round = 0
              \/ pc' = "park_audit" /\ round < MAX_ITERATIONS
  <2>1. GatesInv'
    BY <1>5 DEF GatesInv
  <2> QED BY <1>1, <1>5, <2>1, PassingStep DEF Weighing
<1>6. CASE task' \in TaskShape /\ pc' = "bridge" /\ Vetted(task') /\ stop' = stop /\ asked' = round
  <2>1. GatesInv'
    BY <1>6, GatewayAssumption DEF GatesInv
  <2> QED BY <1>1, <1>6, <2>1, PassingStep DEF Weighing
<1> QED BY <1>2, <1>3, <1>4, <1>5, <1>6, AnalyseOutcome

\* A vetted task is never of low confidence, so the older loop is out of reach.
LEMMA BridgeStep ==
    ASSUME GInv, Bridge PROVE GInv'
<1>1. /\ pc = "bridge"
      /\ UNCHANGED <<env, task, fetched, round, asked, infoReceived, pendingBody, repliedParked,
                     stop, child, notified, cancel>>
  BY DEF Bridge, signalVars
<1>2. task # None /\ Vetted(task) /\ task \in TaskShape
  BY <1>1 DEF GInv, GatesInv, TypeOK
<1>3. confidence_literal(task.confidence) # "low"
  <2>1. task.confidence \in Int /\ task.confidence >= 70
    BY <1>2 DEF Vetted, TaskShape, CONFIDENCE_THRESHOLD
  <2>2. CASE task.confidence >= 85
    BY <2>1, <2>2 DEF confidence_literal
  <2>3. CASE task.confidence < 85
    BY <2>1, <2>3 DEF confidence_literal
  <2> QED BY <2>1, <2>2, <2>3
<1>4. pc' = "capabilities"
  BY <1>3 DEF Bridge, to_llm_analysis_result
<1>5. GatesInv'
  BY <1>1, <1>2, <1>4 DEF GatesInv
<1>6. cancel' \in {"no", "pending", "swallowed"}
  BY <1>1 DEF GInv, TypeOK
<1>7. asked' = round
  BY <1>1 DEF GInv, RoundInv, Weighing
<1> QED BY <1>1, <1>4, <1>5, <1>6, <1>7, PassingStep DEF Weighing

\* Nothing that is needed is missing beyond the capability gate.
LEMMA CapabilityStep ==
    ASSUME GInv, CapabilityGate PROVE GInv'
<1> DEFINE needed == required_capabilities(task.workflow_type)
<1>1. /\ pc = "capabilities"
      /\ UNCHANGED <<env, task, fetched, round, asked, infoReceived, pendingBody, repliedParked,
                     child, notified, cancel>>
      /\ cancel' \in {"no", "pending", "swallowed"}
  BY DEF GInv, TypeOK, CapabilityGate, signalVars
<1>2. CASE missing_capabilities(needed, env.caps) # {}
  <2>1. StopWith("denied", "missing_capability")
    BY <1>2 DEF CapabilityGate
  <2> QED BY <1>1, <2>1, StoppingStep DEF Weighing
<1>3. CASE missing_capabilities(needed, env.caps) = {}
  <2>1. /\ stop' = stop
        /\ pc' = IF task.workflow_type \in BRANCH_AWARE_WORKFLOW_TYPES /\ task.branch # None
                 THEN "branch_rules" ELSE "start_child"
    BY <1>3 DEF CapabilityGate
  <2>2. needed \subseteq env.caps
    BY <1>3 DEF missing_capabilities
  <2>3. task # None /\ Vetted(task)
    BY <1>1 DEF GInv, GatesInv
  <2> HIDE DEF needed
  <2>4. GatesInv'
    BY <1>1, <2>1, <2>2, <2>3 DEF GatesInv, BranchIsOpen, needed
  <2>5. asked' = round
    BY <1>1 DEF GInv, RoundInv, Weighing
  <2> QED BY <1>1, <2>1, <2>4, <2>5, PassingStep DEF Weighing
<1> QED BY <1>2, <1>3

\* A branch passes by the department's rules or, when they fail to load, by the
\* pinned ones.
LEMMA BranchStep ==
    ASSUME GInv, NEW ok \in BOOLEAN, BranchRules(ok) PROVE GInv'
<1> DEFINE rules == IF ok THEN coerce_rules(env.rules) ELSE DEFAULT_BRANCH_PATTERN_RULES
<1>1. /\ pc = "branch_rules"
      /\ UNCHANGED <<env, task, fetched, round, asked, infoReceived, pendingBody, repliedParked,
                     child, notified>>
      /\ cancel' \in {"no", "pending", "swallowed"}
  BY DEF GInv, TypeOK, BranchRules, Returns, signalVars
<1>2. CASE ~route_by_branch_pattern(task.branch, task.workflow_type, rules)
  <2>1. StopWith("out_of_scope", "branch_rule_denied")
    BY <1>2 DEF BranchRules
  <2> QED BY <1>1, <2>1, StoppingStep DEF Weighing
<1>3. CASE route_by_branch_pattern(task.branch, task.workflow_type, rules)
  <2>1. stop' = stop /\ pc' = "start_child"
    BY <1>3 DEF BranchRules
  <2>2. BranchIsOpen(task.branch, task.workflow_type)
    BY <1>3 DEF BranchIsOpen
  <2>3. /\ task # None /\ Vetted(task)
        /\ required_capabilities(task.workflow_type) \subseteq env.caps
    BY <1>1 DEF GInv, GatesInv
  <2>4. GatesInv'
    BY <1>1, <2>1, <2>2, <2>3 DEF GatesInv, BranchIsOpen
  <2>5. asked' = round
    BY <1>1 DEF GInv, RoundInv, Weighing
  <2> QED BY <1>1, <2>1, <2>4, <2>5, PassingStep DEF Weighing
<1> QED BY <1>2, <1>3

\* The child that is started runs the task that passed the gates.
LEMMA ChildStep ==
    ASSUME GInv, NEW ok \in BOOLEAN, StartChild(ok) PROVE GInv'
<1> DEFINE spec == build_child_spec(task)
<1>1. /\ pc = "start_child"
      /\ UNCHANGED <<env, task, fetched, round, asked, infoReceived, pendingBody, repliedParked,
                     notified>>
      /\ cancel' \in {"no", "pending", "swallowed"}
  BY DEF GInv, TypeOK, StartChild, Returns, signalVars
<1>2. /\ task # None /\ Vetted(task) /\ task \in TaskShape
      /\ required_capabilities(task.workflow_type) \subseteq env.caps
      /\ BranchIsOpen(task.branch, task.workflow_type)
      /\ stop = None /\ notified = << >>
  BY <1>1 DEF GInv, GatesInv, TypeOK, OutcomeInv, Weighing
<1>3. /\ spec.type = task.workflow_type /\ spec.branch = task.branch
      /\ spec \in ChildShape
      /\ spec.workflow = "ExecutionRunWorkflow" => spec.command
  <2>1. /\ child_args(task).type = task.workflow_type
        /\ child_args(task).branch = task.branch
        /\ child_args(task).command \in BOOLEAN
        /\ task.workflow_type \in EXECUTION_RUN_WORKFLOW_TYPES => child_args(task).command
    BY <1>2 DEF child_args, build_description_override, to_llm_analysis_result, Vetted,
       EXECUTION_RUN_WORKFLOW_TYPES, EXECUTION_COMMAND_WORKFLOW_TYPES
  <2>2. task.workflow_type \in VALID_WORKFLOW_TYPES /\ task.branch \in Branches
    BY <1>2 DEF Vetted, TaskShape
  <2> QED BY <2>1, <2>2 DEF build_child_spec, ChildShape
<1>4. CASE ~ok
  <2>1. StopWith("failed", "child_dispatch_failed") /\ child' = child
    BY <1>4 DEF StartChild
  <2> QED BY <1>1, <2>1, StoppingStep DEF Weighing
<1>5. CASE ok
  <2> HIDE DEF spec
  <2>1. child' = spec /\ stop' = stop /\ pc' \in {"await_child", "notify_completed"}
    BY <1>5 DEF StartChild, spec
  <2>2. spec # None
    BY <1>3, GatewayAssumption
  <2>3. DispatchedWorkIsAllowed'
    BY <1>1, <1>2, <1>3, <2>1 DEF DispatchedWorkIsAllowed, BranchIsOpen, ChildShape
  <2>4. env'.issue \in Issues /\ env'.event \in Events /\ TypeOK'
    BY <1>1, <1>3, <2>1 DEF GInv, TypeOK
  <2>5. OutcomeInv'
    BY <1>1, <1>2, <2>1, <2>2 DEF OutcomeInv, Weighing, Waiting, Working, Refusing
  <2>6. RoundInv' /\ ReplyInv' /\ GatesInv'
    BY <1>1, <1>2, <2>1 DEF RoundInv, ReplyInv, GatesInv, Weighing, Waiting
  <2> QED BY <2>3, <2>4, <2>5, <2>6 DEF GInv
<1> QED BY <1>4, <1>5

\* GInv is inductive: it holds in every state of every run of the gateway.
THEOREM GatewayInvariant == Spec => []GInv
<1>1. GInv /\ [Next]_vars => GInv'
  <2> SUFFICES ASSUME GInv, [Next]_vars PROVE GInv'
    OBVIOUS
  <2>1. ASSUME NEW ok \in BOOLEAN, Activity(ok) PROVE GInv'
    BY <2>1, MovingStep, ParkingStep, TellingStep, PrepareStep, AnalyseStep, BranchStep,
       ChildStep DEF Activity
  <2>2. CASE Wake \/ WaitTimeout \/ RequestCancel \/ UNCHANGED vars
    BY <2>2, MovingStep
  <2>3. CASE Bridge
    BY <2>3, BridgeStep
  <2>4. CASE CapabilityGate
    BY <2>4, CapabilityStep
  <2>5. CASE \E body \in {"empty", "text"} : info_received(body)
    BY <2>5, ReplyStep
  <2> QED BY <2>1, <2>2, <2>3, <2>4, <2>5 DEF Next, Step, Terminated
<1> QED BY InitInv, <1>1, PTL DEF Spec

-----------------------------------------------------------------------------
(* What follows.                                                           *)

\* However activities fail and signals and cancellations arrive, a run puts at most
\* MAX_ITERATIONS + 1 questions, the last of which it does not wait for, and a closed
\* run has told its one outcome once.
THEOREM RunAccounted == Spec => []RunIsAccounted
<1>1. GInv => RunIsAccounted
  <2> SUFFICES ASSUME GInv PROVE RunIsAccounted
    OBVIOUS
  <2>1. OutcomeIsToldOnce
    BY DEF GInv, TypeOK, OutcomeInv, OutcomeIsToldOnce, Weighing, Waiting, Working, Refusing
  <2>2. QuestionsAreCapped
    BY GatewayAssumption DEF GInv, TypeOK, RoundInv, QuestionsAreCapped
  <2> QED BY <2>1, <2>2 DEF GInv, RunIsAccounted
<1> QED BY <1>1, GatewayInvariant, PTL

\* Neither set of rules lets a code change onto a release branch when the
\* department's own are malformed, for then both are the pinned ones.
LEMMA ReleaseIsPinned ==
    ASSUME NEW type,
           route_by_branch_pattern("release/*", type, DEFAULT_BRANCH_PATTERN_RULES)
    PROVE  type \in {"pr_review", "confluence_doc_update"}
<1> DEFINE rules == DEFAULT_BRANCH_PATTERN_RULES
           matching == {i \in DOMAIN rules : "release/*" \in rules[i].globs}
<1>1. DOMAIN rules = 1 .. 2
  BY DEF DEFAULT_BRANCH_PATTERN_RULES
<1>2. /\ rules[1].globs = {"hotfix/*"}
      /\ rules[2].globs = {"release/*"} /\ rules[2].denied = {}
      /\ rules[2].allowed = {"pr_review", "confluence_doc_update"}
  BY DEF DEFAULT_BRANCH_PATTERN_RULES, Rule
<1>3. matching = {2}
  <2> HIDE DEF rules
  <2> QED BY <1>1, <1>2
<1>4. "release/*" # None
  BY GatewayAssumption
<1>5. \E i \in matching : IF rules[i].denied # {} THEN type \notin rules[i].denied
                         ELSE type \in rules[i].allowed
  BY <1>3, <1>4 DEF route_by_branch_pattern
<1> HIDE DEF rules, matching
<1> QED BY <1>2, <1>3, <1>5

\* Only work the department and its branch rules allow is handed over, whatever
\* the issue says, the model answers and the loads of the rules do.
THEOREM WorkAllowed == Spec => []WorkIsAllowed
<1>1. GInv => WorkIsAllowed
  <2> SUFFICES ASSUME GInv PROVE WorkIsAllowed
    OBVIOUS
  <2>1. LegacyLoopUnreachable
    BY DEF GInv, TypeOK, LegacyLoopUnreachable
  <2>2. PinnedRulesProtectRelease
    <3> SUFFICES ASSUME child # None, env.rules.kind = "malformed", child.branch = "release/*",
                        child.type \in {"code_change_with_test", "code_change_commit_only"}
                 PROVE  FALSE
      BY DEF PinnedRulesProtectRelease
    <3>1. coerce_rules(env.rules) = DEFAULT_BRANCH_PATTERN_RULES
      BY DEF coerce_rules
    <3>2. child.type \in BRANCH_AWARE_WORKFLOW_TYPES /\ child.branch # None
      BY GatewayAssumption DEF BRANCH_AWARE_WORKFLOW_TYPES
    <3>3. route_by_branch_pattern("release/*", child.type, DEFAULT_BRANCH_PATTERN_RULES)
      BY <3>1, <3>2 DEF GInv, DispatchedWorkIsAllowed
    <3> QED BY <3>3, ReleaseIsPinned
  <2> QED BY <2>1, <2>2 DEF GInv, WorkIsAllowed
<1> QED BY <1>1, GatewayInvariant, PTL

\* A parked run is woken only by a reply that came since it was parked, and
\* never gives up on a reporter who has answered.
THEOREM RepliesHeard == Spec => []RepliesAreHeard
<1>1. GInv => RepliesAreHeard
  BY DEF GInv, ReplyInv, RepliesAreHeard, NoStaleWakeUp, ParkedReplyIsHeard
<1> QED BY <1>1, GatewayInvariant, PTL

-----------------------------------------------------------------------------
(* The life cycle: every step of the gateway is a step of TaskLifecycle or *)
(* leaves its variables alone.                                             *)

\* The phase the people around the task see, place by place.
LEMMA Phases ==
    ASSUME NEW p
    PROVE  /\ p \in Weighing => LifePhase(p) = "weighing"
           /\ p \in Waiting => LifePhase(p) = "waiting"
           /\ p \in Working => LifePhase(p) = "working"
           /\ p \in Refusing => LifePhase(p) = "refused"
           /\ p = "done" => LifePhase(p) = "closed"
           /\ p = "cancelled" => LifePhase(p) = "cancelled"
<1>1. p \in Weighing =>
        /\ p \notin {"wait", "stale_transition"}
        /\ p \notin {"await_child", "publish", "notify_completed"}
        /\ p \notin {"stop_audit", "stop_comment", "stop_notify"}
        /\ p # "done" /\ p # "cancelled"
  BY DEF Weighing
<1>2. p \in Weighing => LifePhase(p) = "weighing"
  BY <1>1 DEF LifePhase
<1>3. p \in Waiting => LifePhase(p) = "waiting"
  BY DEF Waiting, LifePhase
<1>4. p \in Working => LifePhase(p) = "working"
  BY DEF Working, LifePhase
<1>5. p \in Refusing => LifePhase(p) = "refused"
  BY DEF Refusing, LifePhase
<1>6. p = "done" => LifePhase(p) = "closed"
  BY DEF LifePhase
<1>7. p = "cancelled" => LifePhase(p) = "cancelled"
  BY DEF LifePhase
<1> QED BY <1>2, <1>3, <1>4, <1>5, <1>6, <1>7

\* A run begins where the life cycle does.
LEMMA LifeBegins == Init => Life!LifeInit
<1> SUFFICES ASSUME Init PROVE Life!LifeInit
  OBVIOUS
<1>1. LifePhase(pc) = "weighing"
  BY Phases DEF Init, Weighing
<1> QED BY <1>1 DEF Init, Life!LifeInit

\* What a step does to the variables of the life cycle.
Stays ==
    /\ LifePhase(pc') = LifePhase(pc)
    /\ UNCHANGED <<round, child, notified>>
Asks ==
    /\ pc \in Weighing /\ pc' \in Waiting /\ round < MAX_ITERATIONS
    /\ round' = round + 1 /\ UNCHANGED <<child, notified>>
Resumes == pc \in Waiting /\ pc' \in Weighing /\ UNCHANGED <<round, child, notified>>
Refuses == pc \in Weighing \union Waiting /\ pc' \in Refusing /\ UNCHANGED <<round, child, notified>>
HandsOver ==
    /\ pc \in Weighing /\ pc' \in Working /\ child' # None
    /\ UNCHANGED <<round, notified>>
Tells ==
    /\ pc \in Working \union Refusing /\ pc' = "done"
    /\ notified' = <<IF pc \in Working THEN "completed" ELSE "failed">>
    /\ UNCHANGED <<round, child>>
IsCancelled == pc \in Waiting /\ pc' = "cancelled" /\ UNCHANGED <<round, child, notified>>

\* Every step of the gateway does one of them.
LEMMA GatewayMoves ==
    ASSUME GInv, GInv', [Next]_vars
    PROVE  Stays \/ Asks \/ Resumes \/ Refuses \/ HandsOver \/ Tells \/ IsCancelled
<1> USE DEF Weighing, Waiting, Working, Refusing, signalVars, StopWith
<1>1. CASE \E ok \in BOOLEAN : Ack(ok) \/ ParkTransition(ok)
  <2>1. pc \in Weighing /\ pc' \in Weighing /\ UNCHANGED <<round, child, notified>>
    BY <1>1 DEF Ack, ParkTransition
  <2> QED BY <2>1, Phases DEF Stays
<1>2. CASE \E ok \in BOOLEAN : ParkAudit(ok)
  BY <1>2 DEF ParkAudit, Asks, GInv, RoundInv
<1>3. CASE Wake
  BY <1>3 DEF Wake, Resumes
<1>4. CASE WaitTimeout
  <2>1. pc \in Waiting /\ pc' \in Waiting /\ UNCHANGED <<round, child, notified>>
    BY <1>4 DEF WaitTimeout
  <2> QED BY <2>1, Phases DEF Stays
<1>5. CASE \E ok \in BOOLEAN : StaleTransition(ok)
  BY <1>5 DEF StaleTransition, Refuses
<1>6. CASE \E ok, read \in BOOLEAN : Prepare(ok, read)
  <2>1. /\ pc \in Weighing /\ pc' \in Weighing \union Refusing
        /\ UNCHANGED <<round, child, notified>>
    BY <1>6 DEF Prepare
  <2> QED BY <2>1, Phases DEF Stays, Refuses
<1>7. CASE \E ok \in BOOLEAN, llm \in LlmAnswers : Analyse(ok, llm)
  <2>1. pc \in Weighing /\ pc # "start_child" /\ UNCHANGED <<round, child, notified>>
    BY <1>7 DEF Analyse
  <2>2. pc' \in Weighing \union Refusing
    BY <1>7, AnalyseOutcome
  <2> QED BY <2>1, <2>2, Phases DEF Stays, Refuses
<1>8. CASE Bridge
  <2>1. pc = "bridge" /\ UNCHANGED <<round, child, notified>> /\ pc' \in {"legacy_loop", "capabilities"}
    BY <1>8 DEF Bridge
  <2>2. pc' \in Weighing
    BY <2>1 DEF GInv, TypeOK
  <2> QED BY <2>1, <2>2, Phases DEF Stays
<1>9. CASE CapabilityGate \/ \E ok \in BOOLEAN : BranchRules(ok)
  <2>1. /\ pc \in Weighing /\ pc' \in Weighing \union Refusing
        /\ UNCHANGED <<round, child, notified>>
    BY <1>9 DEF CapabilityGate, BranchRules
  <2> QED BY <2>1, Phases DEF Stays, Refuses
<1>10. CASE \E ok \in BOOLEAN : StartChild(ok)
  <2>1. pc = "start_child" /\ UNCHANGED <<round, notified>>
    BY <1>10 DEF StartChild
  <2>2. \/ pc' \in Working
        \/ pc' \in Refusing /\ child' = child
    BY <1>10 DEF StartChild
  <2> QED BY <2>1, <2>2 DEF HandsOver, Refuses, GInv, OutcomeInv
<1>11. CASE \E ok \in BOOLEAN : AwaitChild(ok) \/ Publish(ok)
  <2>1. pc \in Working /\ pc' \in Working /\ UNCHANGED <<round, child, notified>>
    BY <1>11 DEF AwaitChild, Publish
  <2> QED BY <2>1, Phases DEF Stays
<1>12. CASE \E ok \in BOOLEAN : StopAudit(ok) \/ StopComment(ok)
  <2>1. pc \in Refusing /\ pc' \in Refusing /\ UNCHANGED <<round, child, notified>>
    BY <1>12 DEF StopAudit, StopComment
  <2> QED BY <2>1, Phases DEF Stays
<1>13. CASE \E ok \in BOOLEAN : NotifyCompleted(ok) \/ StopNotify(ok)
  <2>1. /\ pc \in {"notify_completed", "stop_notify"} /\ pc' = "done"
        /\ UNCHANGED <<round, child, stop>>
    BY <1>13 DEF NotifyCompleted, StopNotify
  <2>2. notified' = <<IF pc \in Working THEN "completed" ELSE "failed">>
    BY <2>1 DEF GInv, OutcomeInv
  <2> QED BY <2>1, <2>2 DEF Tells
<1>14. CASE RequestCancel
  <2>1. /\ pc' = pc \/ (pc = "wait" /\ pc' = "cancelled")
        /\ UNCHANGED <<round, child, notified>>
    BY <1>14 DEF RequestCancel
  <2> QED BY <2>1 DEF Stays, IsCancelled
<1>15. CASE (\E body \in {"empty", "text"} : info_received(body)) \/ UNCHANGED vars
  BY <1>15 DEF info_received, vars, Stays
<1> QED
  BY <1>1, <1>2, <1>3, <1>4, <1>5, <1>6, <1>7, <1>8, <1>9, <1>10, <1>11, <1>12, <1>13,
     <1>14, <1>15 DEF Next, Step, Activity, Terminated

\* The safety of the life cycle: a task waits for its reporter at most MAX_ITERATIONS
\* times, is handed over or refused but never both, and its outcome told once.
THEOREM LifecycleSafety == Spec => Life!LifeSafety
<1>1. GInv /\ GInv' /\ [Next]_vars => [Life!LifeNext]_(Life!lifeVars)
  <2> SUFFICES ASSUME GInv, GInv', [Next]_vars PROVE [Life!LifeNext]_(Life!lifeVars)
    OBVIOUS
  <2>1. CASE Stays
    BY <2>1 DEF Stays, Life!lifeVars
  <2>2. CASE Asks
    BY <2>2, Phases DEF Asks, Life!LifeNext, Life!Progress, Life!AskReporter
  <2>3. CASE Resumes
    BY <2>3, Phases DEF Resumes, Life!LifeNext, Life!Progress, Life!ReporterAnswers
  <2>4. CASE Refuses
    BY <2>4, Phases DEF Refuses, Life!LifeNext, Life!Progress, Life!Refuse
  <2>5. CASE HandsOver
    BY <2>5, Phases DEF HandsOver, Life!LifeNext, Life!Progress, Life!HandOver
  <2>6. CASE Tells
    <3>1. notified' # << >> /\ notified'[Len(notified')] = IF pc \in Working THEN "completed" ELSE "failed"
      BY <2>6 DEF Tells
    <3>2. pc \in Refusing => pc \notin Working
      BY DEF Refusing, Working
    <3> QED BY <2>6, <3>1, <3>2, Phases DEF Tells, Life!LifeNext, Life!Progress, Life!Tell
  <2>7. CASE IsCancelled
    BY <2>7, Phases DEF IsCancelled, Life!LifeNext, Life!CancelWaiting
  <2> QED BY <2>1, <2>2, <2>3, <2>4, <2>5, <2>6, <2>7, GatewayMoves
<1> QED BY LifeBegins, <1>1, GatewayInvariant, PTL DEF Spec, Life!LifeSafety

=============================================================================
