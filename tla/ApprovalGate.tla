---------------------------- MODULE ApprovalGate ----------------------------
(***************************************************************************)
(* ApprovalGateWorkflow: blocks a commit that touches sensitive files      *)
(* until an approver writes [approve] or [reject], or four hours pass      *)
(* (workers/automation-worker/.../workflows/approval_gate.py).             *)
(*                                                                         *)
(* The workflow is one Temporal coroutine plus a signal handler.  Temporal *)
(* runs a workflow in activations: every signal handler of an activation   *)
(* runs first, the wait conditions are evaluated afterwards, and only then *)
(* do timers fire.  The handlers of one activation are therefore several   *)
(* steps here, with  unchecked = TRUE  until the conditions are evaluated. *)
(***************************************************************************)
CONSTANTS
    Users,          \* Jira account ids that may write comments
    Files,          \* files a commit may modify
    Patterns,       \* the department's approval_required_paths
    BadPatterns,    \* patterns re.compile rejects
    Matches,        \* <<file, pattern>> pairs for which re.search succeeds
    None            \* Python's None

\* The comment bodies the handler tells apart by the tags they contain.
Texts == {"approve_tag", "reject_tag", "both_tags", "no_tag"}

\* ApprovalGateResult
Results == [approved : BOOLEAN, timed_out : BOOLEAN,
            approver_id : Users \union {None}]

ASSUME GateAssumption ==
    /\ BadPatterns \subseteq Patterns
    /\ Matches \subseteq Files \X Patterns
    /\ None \notin Users /\ None \notin {"approve", "reject"}
    /\ None \notin Results

VARIABLES
    inp,            \* ApprovalGateInput: commit_files, required, approvers
    pc,             \* where the coroutine is suspended
    matched,        \* matched_paths
    decision,       \* self._decision
    decisionUser,   \* self._decision_user_id
    unchecked,      \* handlers ran since the conditions were last evaluated
    result,         \* the ApprovalGateResult about to be returned, or None
    comments,       \* kinds of Jira comments that were posted
    audit,          \* approval_<event_type> rows that were written
    delivered       \* history: decisions parsed, with author, while undecided

vars == <<inp, pc, matched, decision, decisionUser, unchecked, result,
          comments, audit, delivered>>

-----------------------------------------------------------------------------
\* [approve] is looked for first, so a comment with both tags approves.
parse_approval_decision(text) ==
    CASE text \in {"approve_tag", "both_tags"} -> "approve"
      [] text = "reject_tag"                   -> "reject"
      [] OTHER                                 -> None

\* A file matches when a pattern that compiles is found in it.
match_approval_paths(files, required) ==
    {f \in files : \E p \in required \ BadPatterns : <<f, p>> \in Matches}

is_authorized_approver(user, approvers) == user \in approvers

GateResult(approved, timedOut, approver) ==
    [approved |-> approved, timed_out |-> timedOut, approver_id |-> approver]

\* The event type that closes the audit trail of a result.
Verdict(r) == CASE r.timed_out -> "timeout"
                [] r.approved  -> "approved"
                [] OTHER       -> "rejected"

Init ==
    /\ inp \in [commit_files : SUBSET Files, required : SUBSET Patterns,
                approvers : SUBSET Users]
    /\ pc = "start"
    /\ matched = {}
    /\ decision = None /\ decisionUser = None
    /\ unchecked = FALSE
    /\ result = None
    /\ comments = {} /\ audit = {} /\ delivered = {}

-----------------------------------------------------------------------------
\* Mutant: the author of the first decision is kept.
ReceiveKeepsFirstAuthor(user, text) ==
    LET parsed == parse_approval_decision(text) IN
    /\ pc # "done" /\ parsed # None
    /\ decision' = parsed
    /\ decisionUser' = IF decisionUser = None THEN user ELSE decisionUser
    /\ delivered' = delivered \union {<<user, parsed>>}
    /\ unchecked' = TRUE
    /\ UNCHANGED <<inp, pc, matched, result, comments, audit>>

\* The approval_received handler.  It keeps whatever it parses and does not
\* look at who sent it.
approval_received(user, text) ==
    LET parsed == parse_approval_decision(text) IN
    /\ pc # "done"
    /\ IF parsed = None
       THEN UNCHANGED <<decision, decisionUser, delivered>>
       ELSE /\ decision' = parsed
            /\ decisionUser' = user
            /\ delivered' = IF result = None
                            THEN delivered \union {<<user, parsed>>}
                            ELSE delivered
    /\ unchecked' = TRUE
    /\ UNCHANGED <<inp, pc, matched, result, comments, audit>>

\* First activation of run: no required path or no match means no gate.
Begin ==
    LET m == match_approval_paths(inp.commit_files, inp.required) IN
    /\ pc = "start"
    /\ matched' = m
    /\ IF inp.required = {} \/ m = {}
       THEN /\ result' = GateResult(TRUE, FALSE, None)
            /\ pc' = "done"
       ELSE /\ pc' = "post_request"
            /\ UNCHANGED result
    /\ UNCHANGED <<inp, decision, decisionUser, unchecked, comments, audit,
                   delivered>>

\* _post_jira_comment: best effort, a failure is swallowed.
PostRequest(ok) ==
    /\ pc = "post_request"
    /\ comments' = IF ok THEN comments \union {"requested"} ELSE comments
    /\ pc' = "audit_request"
    /\ UNCHANGED <<inp, matched, decision, decisionUser, unchecked, result,
                   audit, delivered>>

\* _write_audit_log("requested"), after which wait_condition is installed;
\* installing it evaluates it in the same activation.
AuditRequest(ok) ==
    /\ pc = "audit_request"
    /\ audit' = IF ok THEN audit \union {"requested"} ELSE audit
    /\ pc' = "waiting"
    /\ unchecked' = TRUE
    /\ UNCHANGED <<inp, matched, decision, decisionUser, result, comments,
                   delivered>>

\* _has_authorized_decision, evaluated at the end of an activation: an
\* unauthorised decision is cleared, an authorised one ends the wait.
CheckCondition ==
    LET authorised == is_authorized_approver(decisionUser, inp.approvers) IN
    /\ pc = "waiting" /\ unchecked
    /\ unchecked' = FALSE
    /\ CASE decision = None ->
              UNCHANGED <<pc, decision, decisionUser, result>>
         [] decision # None /\ ~authorised ->
              /\ decision' = None /\ decisionUser' = None
              /\ UNCHANGED <<pc, result>>
         [] decision # None /\ authorised ->
              /\ result' = GateResult(decision = "approve", FALSE, decisionUser)
              /\ pc' = "post_outcome"
              /\ UNCHANGED <<decision, decisionUser>>
    /\ UNCHANGED <<inp, matched, comments, audit, delivered>>

\* Mutant: the timeout is swallowed and the gate waits again.
TimeoutWaitsAgain ==
    /\ pc = "waiting" /\ ~unchecked
    /\ unchecked' = TRUE
    /\ UNCHANGED <<inp, pc, matched, decision, decisionUser, result, comments,
                   audit, delivered>>

\* The APPROVAL_TIMEOUT timer.  Conditions are evaluated before timers fire.
Timeout ==
    /\ pc = "waiting" /\ ~unchecked
    /\ result' = GateResult(FALSE, TRUE, None)
    /\ pc' = "post_outcome"
    /\ UNCHANGED <<inp, matched, decision, decisionUser, unchecked, comments,
                   audit, delivered>>

PostOutcome(ok) ==
    /\ pc = "post_outcome"
    /\ comments' = IF ok THEN comments \union {Verdict(result)} ELSE comments
    /\ pc' = "audit_outcome"
    /\ UNCHANGED <<inp, matched, decision, decisionUser, unchecked, result,
                   audit, delivered>>

AuditOutcome(ok) ==
    /\ pc = "audit_outcome"
    /\ audit' = IF ok THEN audit \union {Verdict(result)} ELSE audit
    /\ pc' = "done"
    /\ UNCHANGED <<inp, matched, decision, decisionUser, unchecked, result,
                   comments, delivered>>

Done == pc = "done" /\ UNCHANGED vars

Step == \/ Begin \/ CheckCondition \/ Timeout
        \/ \E ok \in BOOLEAN : \/ PostRequest(ok) \/ AuditRequest(ok)
                               \/ PostOutcome(ok) \/ AuditOutcome(ok)

Next == \/ Step
        \/ \E u \in Users, t \in Texts : approval_received(u, t)
        \/ Done

\* Temporal drives every started workflow: activities complete or fail for
\* good within their retry policy and activations end.  The timer runs on wall
\* clock time, so it also fires when signals keep opening new activations.
Spec == Init /\ [][Next]_vars /\ WF_vars(Step) /\ SF_vars(Timeout)

-----------------------------------------------------------------------------
TypeOK ==
    /\ inp \in [commit_files : SUBSET Files, required : SUBSET Patterns,
                approvers : SUBSET Users]
    /\ pc \in {"start", "post_request", "audit_request", "waiting",
               "post_outcome", "audit_outcome", "done"}
    /\ matched \subseteq Files
    /\ decision \in {"approve", "reject", None}
    /\ decisionUser \in Users \union {None}
    /\ unchecked \in BOOLEAN
    /\ result \in Results \union {None}
    /\ comments \subseteq {"requested", "approved", "rejected", "timeout"}
    /\ audit \subseteq {"requested", "approved", "rejected", "timeout"}
    /\ delivered \subseteq Users \X {"approve", "reject"}

\* A commit that touches a sensitive file goes ahead only because a user on
\* the approvers list wrote [approve] (module docstring, points 2 and 4):
\* however the signals of authorised and other users interleave with the
\* request comment, the audit write and the wait.
ApprovalIsGenuine ==
    (result # None /\ result.approved
        /\ \E f \in inp.commit_files, p \in inp.required \ BadPatterns :
              <<f, p>> \in Matches)
    => /\ result.approver_id \in inp.approvers
       /\ <<result.approver_id, "approve">> \in delivered

\* A rejection is a rejection an approver wrote; and the gate never both
\* times out and names an approver.
RejectionIsGenuine ==
    (result # None /\ ~result.approved)
    => IF result.timed_out
       THEN result.approver_id = None
       ELSE /\ result.approver_id \in inp.approvers
            /\ <<result.approver_id, "reject">> \in delivered

\* The closing audit row and the closing comment never contradict the result
\* that is returned, nor each other.
TrailMatchesResult ==
    \A e \in (comments \union audit) \ {"requested"} :
        result # None /\ e = Verdict(result)

\* The gate as its docstring promises it: a commit passes or is refused by a
\* genuine decision of an approver or by the timeout, and the comments and
\* audit rows tell the same story as the result (ApprovalGateWorkflow.run).
GateIsSound ==
    /\ TypeOK
    /\ ApprovalIsGenuine
    /\ RejectionIsGenuine
    /\ TrailMatchesResult

\* The commit the gate blocks is always released or discarded in the end.
GateCloses == <>(pc = "done")
=============================================================================
