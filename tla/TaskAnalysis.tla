---------------------------- MODULE TaskAnalysis ----------------------------
(***************************************************************************)
(* What the analyze_task activity answers for a Jira issue, the bridge to  *)
(* the older analysis shape, the capability gate and the branch rules: the *)
(* pure part of the gateway.  Sources: automation_worker/activities/       *)
(* task_analyzer.py and description_parser.py, workflows/                  *)
(* description_override.py, temporal_shared/capabilities.py and            *)
(* branch_rules.py.                                                        *)
(*                                                                         *)
(* Confidences are hundredths.  A branch is told apart by the globs it     *)
(* matches; a command, a question and an output action by being there.     *)
(***************************************************************************)
EXTENDS Integers, Sequences

CONSTANT None

VALID_WORKFLOW_TYPES ==
    {"code_change_with_test", "code_change_commit_only", "pr_review",
     "remote_ssh_test_only", "script_execute", "confluence_doc_create",
     "confluence_doc_update", "research_publish_confluence",
     "research_summary_jira", "research_basic", "research_with_web",
     "multi_step", "noop_test"}

\* WORKFLOW_TYPE_ALIASES.get(value, value)
canonical_workflow_type(value) ==
    CASE value = "research"          -> "research_basic"
      [] value = "research_web"      -> "research_with_web"
      [] value = "doc_generation"    -> "confluence_doc_create"
      [] value = "po_review_request" -> "pr_review"
      [] value = "test"              -> "remote_ssh_test_only"
      [] OTHER                       -> value

WEB_SEARCH_WORKFLOW_TYPES == {"research_with_web", "research_publish_confluence"}

EXECUTION_COMMAND_WORKFLOW_TYPES ==
    {"code_change_with_test", "remote_ssh_test_only", "script_execute"}

BRANCH_AWARE_WORKFLOW_TYPES ==
    {"code_change_with_test", "code_change_commit_only", "pr_review"}

EXECUTION_RUN_WORKFLOW_TYPES ==
    {"remote_ssh_test_only", "noop_test", "script_execute"}

\* WORKFLOW_TYPE_CAPABILITIES: what each type needs, reading and writing apart.
WORKFLOW_TYPE_CAPABILITIES(type) ==
    {"jira_read"}
    \union (IF type \in {"noop_test", "remote_ssh_test_only"} THEN {} ELSE {"jira_write"})
    \union (IF type \in BRANCH_AWARE_WORKFLOW_TYPES THEN {"bitbucket_read"} ELSE {})
    \union (IF type \in BRANCH_AWARE_WORKFLOW_TYPES \ {"pr_review"}
            THEN {"bitbucket_write"} ELSE {})
    \union (IF type \in {"confluence_doc_create", "confluence_doc_update",
                         "research_publish_confluence"}
            THEN {"confluence_read", "confluence_write"} ELSE {})
    \union (IF type \in EXECUTION_COMMAND_WORKFLOW_TYPES THEN {"execution"}
            ELSE {})
    \union (IF type \in WEB_SEARCH_WORKFLOW_TYPES THEN {"web_search"} ELSE {})

collapse_capability(cap) ==
    CASE cap \in {"jira_read", "jira_write"}             -> "jira"
      [] cap \in {"bitbucket_read", "bitbucket_write"}   -> "bitbucket"
      [] cap \in {"confluence_read", "confluence_write"} -> "confluence"
      [] OTHER                                           -> cap

required_capabilities(type) ==
    {collapse_capability(cap) : cap \in WORKFLOW_TYPE_CAPABILITIES(type)}

missing_capabilities(required, available) == required \ available

\* What a department has.  bots: the services with a bot row; keyed: those of them whose
\* row names a credential; web: it opted in to web search; switch: how
\* FIRECRAWL_ENABLED is spelt; runner: an active runner is assigned to it; ssh: the
\* process has an SSH_HOST or a runner flag; readable: the database answers.

\* The dispatcher of the pipeline reads the tables; a failure leaves nothing.
resolve_available_capabilities(dept) ==
    IF ~dept.readable THEN {}
    ELSE dept.keyed
         \union (IF dept.web /\ dept.switch \in {"true", "yes"} THEN {"web_search"} ELSE {})
         \union (IF dept.runner \/ dept.ssh THEN {"execution"} ELSE {})

\* What the intake's loader of a department puts into dept.available_capabilities:
\* every bot row and the opt-in count, with or without a credential or the switch.
load_dept_capabilities(dept) ==
    dept.bots
    \union (IF dept.web THEN {"web_search"} ELSE {})
    \union (IF dept.runner THEN {"execution"} ELSE {})

\* What follows from the credentials and the environment.
derive_capabilities(dept) ==
    (IF "jira" \in dept.keyed THEN {"jira_read", "jira_write"} ELSE {})
    \union (IF "bitbucket" \in dept.keyed THEN {"bitbucket_read", "bitbucket_write"} ELSE {})
    \union (IF "confluence" \in dept.keyed THEN {"confluence_read", "confluence_write"} ELSE {})
    \union (IF dept.ssh THEN {"execution"} ELSE {})
    \union (IF dept.web /\ dept.switch = "true" THEN {"web_search"} ELSE {})

simple_capabilities(dept) ==
    {collapse_capability(cap) : cap \in load_dept_capabilities(dept) \union derive_capabilities(dept)}

\* inp.available_capabilities, whichever way the task came in.
AvailableCapabilities(dept) ==
    IF dept.by = "pipeline" THEN resolve_available_capabilities(dept)
    ELSE simple_capabilities(dept)

-----------------------------------------------------------------------------
\* _coerce_confidence: a label, a number clamped to [0, 1], or junk.
coerce_confidence(raw) ==
    CASE raw.kind = "high"   -> 100
      [] raw.kind = "medium" -> 80
      [] raw.kind = "low"    -> 30
      [] raw.kind = "number" -> IF raw.value < 0 THEN 0
                                ELSE IF raw.value > 100 THEN 100 ELSE raw.value
      [] OTHER               -> 0

\* TaskAnalysisResult, the fields the gateway reads.
Analysis(source, type, confidence, missing, command, branch, actions) ==
    [accepted |-> TRUE, status |-> "ready", source |-> source,
     workflow_type |-> type, confidence |-> confidence, missing |-> missing,
     command |-> command, branch |-> branch, actions |-> actions]

\* prepare_task_analysis_input swallows a failed jira_get_issue.  A description that
\* is empty or could not be read is replaced by the text of the event, a comment or
\* the title of a pull request, where the task came with one.
IssueAsRead(issue, fetched, event) ==
    LET blank == [issue EXCEPT !.frontmatter = None, !.command = << >>, !.branch = None,
                               !.actions = {}, !.described = FALSE]
        text == CASE fetched /\ issue.described -> issue
                  [] ~(fetched /\ issue.described) /\ event # None -> event
                  [] OTHER -> blank
    IN  [text EXCEPT !.epic = fetched /\ issue.epic, !.subtasks = fetched /\ issue.subtasks,
                     !.web_enabled = issue.web_enabled]

\* A command as it is written: text, a list of texts, a list with something else in
\* it, or one with a control character.
UsableCommand == {"text", "list"}

\* The first command field that is there decides, usable or not.
coerce_command(fields) == fields # << >> /\ Head(fields) \in UsableCommand

VALID_OUTPUT_TYPES ==
    {"jira_comment", "jira_transition", "jira_attachment", "bitbucket_commit",
     "bitbucket_create_pr", "confluence_create_page", "confluence_update_page"}

output_type(kind) ==
    CASE kind = "bitbucket_put_file" -> "bitbucket_commit"
      [] kind = "bitbucket_pr"       -> "bitbucket_create_pr"
      [] kind = "confluence_page"    -> "confluence_create_page"
      [] OTHER                       -> kind

\* Entries of a kind nobody knows are left out.
coerce_output(kinds) == \E k \in kinds : output_type(k) \in VALID_OUTPUT_TYPES

\* The block a description opens with; text without one, or with broken YAML, is
\* no front-matter.  A field that is no good is left empty.
parse_description_frontmatter(issue) ==
    IF issue.frontmatter = None THEN None
    ELSE [type |-> canonical_workflow_type(issue.frontmatter), branch |-> issue.branch,
          command |-> coerce_command(issue.command), actions |-> coerce_output(issue.actions)]

frontmatter_type(issue) ==
    LET parsed == parse_description_frontmatter(issue)
    IN  IF parsed # None /\ parsed.type \in VALID_WORKFLOW_TYPES THEN parsed.type ELSE None

\* _result_from_frontmatter trusts a valid type fully.
result_from_frontmatter(issue) ==
    LET parsed == parse_description_frontmatter(issue)
    IN  Analysis("yaml_frontmatter", parsed.type, 100, FALSE,
                 parsed.command, parsed.branch, parsed.actions)

\* prepare_task_analysis_input hands the Jira fields over one level down, so
\* the only key of issue_meta is "fields".
IssueMetaKeys == {"fields"}

\* _is_epic_issue looks for "issuetype" at the top level of issue_meta.
is_epic_issue(issue) == "issuetype" \in IssueMetaKeys /\ issue.epic

\* Epics are decided by their subtasks alone.
result_for_epic(issue) ==
    IF issue.subtasks
    THEN Analysis("epic_auto_detect", "multi_step", 100, FALSE, FALSE, None, FALSE)
    ELSE [Analysis("epic_auto_detect", "multi_step", 100, TRUE, FALSE, None, FALSE)
            EXCEPT !.accepted = FALSE, !.status = "needs_info"]

\* Of the model's answer the first command that is usable counts, wherever it is.
command_or_none(fields) == \E i \in DOMAIN fields : fields[i] \in UsableCommand

\* The model may also ask for notifications.
list_of_output_actions(kinds) ==
    \E k \in kinds : output_type(k) \in VALID_OUTPUT_TYPES \union {"slack_notify", "email_notify"}

result_from_llm(llm) ==
    Analysis("llm_analysis", canonical_workflow_type(llm.type),
             coerce_confidence(llm.confidence), llm.missing, command_or_none(llm.command),
             llm.branch, list_of_output_actions(llm.actions))

\* _run_llm_analysis: every failure becomes a result without a workflow_type.
run_llm_analysis(llm) ==
    CASE llm.outcome = "no_prompt" ->
           [Analysis("llm_analysis", None, 0, TRUE, FALSE, None, FALSE)
              EXCEPT !.accepted = FALSE, !.status = "rejected"]
      [] llm.outcome \in {"call_failed", "bad_json"} ->
           Analysis("llm_analysis", None, 0, TRUE, FALSE, None, FALSE)
      [] OTHER ->
           result_from_llm(llm)

apply_web_search_downgrade(result, webEnabled) ==
    IF webEnabled \/ result.workflow_type \notin WEB_SEARCH_WORKFLOW_TYPES
    THEN result
    ELSE [result EXCEPT !.workflow_type = "research_basic"]

CONFIDENCE_THRESHOLD == 70

\* The confidence gate.
confidence_gate(result) ==
    IF result.confidence < CONFIDENCE_THRESHOLD
    THEN [result EXCEPT !.accepted = FALSE, !.status = "needs_info"]
    ELSE result

\* An execution type without a command asks for one.
command_gate(result) ==
    IF /\ result.workflow_type \in EXECUTION_COMMAND_WORKFLOW_TYPES
       /\ ~result.command
    THEN [result EXCEPT !.accepted = FALSE, !.status = "needs_info",
                        !.missing = TRUE]
    ELSE confidence_gate(result)

\* analyze_task: YAML, then Epic, then LLM; then validation, downgrade, gates.
analyze_task(issue, llm) ==
    LET raw == IF frontmatter_type(issue) # None
               THEN result_from_frontmatter(issue)
               ELSE run_llm_analysis(llm)
    IN  IF frontmatter_type(issue) = None /\ is_epic_issue(issue)
        THEN result_for_epic(issue)
        ELSE IF raw.workflow_type \notin VALID_WORKFLOW_TYPES
        THEN [raw EXCEPT !.accepted = FALSE, !.status = "rejected"]
        ELSE command_gate(apply_web_search_downgrade(raw, issue.web_enabled))

-----------------------------------------------------------------------------
confidence_literal(confidence) ==
    CASE confidence >= 85                     -> "high"
      [] confidence >= 70 /\ confidence < 85  -> "medium"
      [] OTHER                                -> "low"

\* to_llm_analysis_result
to_llm_analysis_result(result) ==
    [workflow_type |-> result.workflow_type,
     confidence    |-> confidence_literal(result.confidence),
     questions     |-> result.missing,
     target_branch |-> result.branch,
     actions       |-> result.actions]

\* build_description_override: the branch and the command pinned for the child.
build_description_override(result) ==
    [target_branch |-> result.branch, execution_command |-> result.command]

\* A rule applies to the branches its glob matches; it has a deny list or an
\* allow list, never both.
Rule(globs, denied, allowed) ==
    [globs |-> globs, denied |-> denied, allowed |-> allowed]

DEFAULT_BRANCH_PATTERN_RULES ==
    << Rule({"hotfix/*"}, {"code_change_commit_only"}, {}),
       Rule({"release/*"}, {}, {"pr_review", "confluence_doc_update"}) >>

\* load_branch_pattern_rules reads departments.json; a file it cannot read and
\* a department without rules both come back as the empty list.
load_branch_pattern_rules(config) ==
    IF config.kind = "rules" THEN config.rules ELSE << >>

\* _coerce_rules: entries that are not rules bring the pinned defaults back.
coerce_rules(config) ==
    IF config.kind = "malformed" THEN DEFAULT_BRANCH_PATTERN_RULES
    ELSE load_branch_pattern_rules(config)

\* route_by_branch_pattern(...).allowed: the first rule that matches decides.
route_by_branch_pattern(branch, type, rules) ==
    LET matching == {i \in DOMAIN rules : branch \in rules[i].globs} IN
    \/ branch = None
    \/ matching = {}
    \/ \E i \in matching :
          /\ \A j \in matching : i <= j
          /\ IF rules[i].denied # {} THEN type \notin rules[i].denied
             ELSE type \in rules[i].allowed
=============================================================================
