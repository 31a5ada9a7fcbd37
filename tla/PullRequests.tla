---------------------------- MODULE PullRequests ----------------------------
(***************************************************************************)
(* The branches and pull requests of a repository and the three parts that *)
(* work on them besides the agent: iter_advance_pr_supersede, which marks  *)
(* the pull request of the previous round; the product owner's review      *)
(* endpoints; and the retention workflow, which removes old bot branches.  *)
(* People edit, close and open pull requests, push to branches and reopen  *)
(* issues at any time.                                                     *)
(***************************************************************************)
EXTENDS Jobs, TLC

CONSTANTS
    BotBranches     \* the branch names with the prefix of the bot

VARIABLES
    prs,            \* prs[p]: the pull request p, or None
    branches,       \* branches[b]: the branch b, or None
    issues,         \* issues[i]: the Jira status of issue i
    ledger,         \* rows of the supersede ledger
    notes,          \* review actions and retention comments that arrived
    people          \* what people may still do

repoVars == <<prs, branches, issues, ledger, notes, people>>

RepoInit(mix) ==
    /\ prs = mix.prs /\ branches = mix.branches /\ issues = mix.issues
    /\ ledger = {} /\ notes = {} /\ people = mix.people

Exists(f, k) == f[k] # None

-----------------------------------------------------------------------------
(* People.  Each happens at most once and only where the scenario says so. *)

\* A person replaces the whole description, banners included.
Edit(p) ==
    /\ Exists(prs, p) /\ prs[p].open
    /\ prs' = [prs EXCEPT ![p].text = "edited", ![p].banners = <<>>, ![p].wiped = prs[p].banners # <<>>]
    /\ UNCHANGED <<branches, issues>>

Close(p) ==
    /\ Exists(prs, p) /\ prs[p].open
    /\ prs' = [prs EXCEPT ![p].open = FALSE] /\ UNCHANGED <<branches, issues>>

Push(b) ==
    /\ Exists(branches, b)
    /\ branches' = [branches EXCEPT ![b].old = FALSE] /\ UNCHANGED <<prs, issues>>

Reopen(i) ==
    /\ issues' = [issues EXCEPT ![i] = "Open"] /\ UNCHANGED <<prs, branches>>

PeopleAct ==
    \E w \in people :
        /\ people' = people \ {w}
        /\ \/ w.what = "edit" /\ Edit(w.on)
           \/ w.what = "close" /\ Close(w.on)
           \/ w.what = "push" /\ Push(w.on)
           \/ w.what = "reopen" /\ Reopen(w.on)
        /\ UNCHANGED <<ledger, notes, jobVars>>

-----------------------------------------------------------------------------
(* iter_advance_pr_supersede: the old pull request gets a label, a banner  *)
(* in front of its description and a row in the ledger.  The activity is   *)
(* retried as a whole; the workflow goes on without it after the last.     *)

\* The description a job works with is the one it read.
ReadOldPr(x) ==
    /\ ask[x].op = "supersede" /\ job[x].pc \in {"idle", "again"}
    /\ LET p == ask[x].old IN
       \/ p = None /\ Works /\ End(x, "no_old_pr")
       \/ /\ p # None /\ Works
          /\ IF Exists(prs, p) /\ prs[p].open THEN Keep(x, "label", prs[p]) ELSE Keep(x, "ledger", None)
       \/ p # None /\ Redo(x, "again", "gave_up")
    /\ UNCHANGED repoVars /\ Quiet

\* An update of the old pull request: applied and answered, applied with the
\* answer lost, or refused.
PrUpdate(x, new, next) ==
    \/ Works /\ prs' = new /\ Set(x, [job[x] EXCEPT !.pc = next])
    \/ Redo(x, "again", "gave_up") /\ prs' = new
    \/ Redo(x, "again", "gave_up") /\ UNCHANGED prs

AddLabel(x) ==
    /\ At(x, "supersede", "label")
    /\ PrUpdate(x, [prs EXCEPT ![ask[x].old].labels = @ \cup {ask[x].new}], "banner")
    /\ UNCHANGED <<branches, issues, ledger, notes, people>> /\ Quiet

NeedsBanner(x) == \A i \in 1..Len(job[x].val.banners) : job[x].val.banners[i] # ask[x].new

AddBanner(x) ==
    /\ At(x, "supersede", "banner")
    /\ IF NeedsBanner(x)
       THEN PrUpdate(x, [prs EXCEPT ![ask[x].old].banners = <<ask[x].new>> \o job[x].val.banners,
                                    ![ask[x].old].text = job[x].val.text], "ledger")
       ELSE Works /\ Set(x, [job[x] EXCEPT !.pc = "ledger"]) /\ UNCHANGED prs
    /\ UNCHANGED <<branches, issues, ledger, notes, people>> /\ Quiet

\* PrSupersedeLogRepo.record: the first row of a workflow and an old pull
\* request stays.
record(wf, old, new) ==
    IF \E row \in ledger : row.wf = wf /\ row.old = old THEN ledger
    ELSE ledger \cup {[wf |-> wf, old |-> old, new |-> new]}

RecordSupersede(x) ==
    /\ At(x, "supersede", "ledger")
    /\ \/ Works /\ ledger' = record(ask[x].wf, ask[x].old, ask[x].new)
       \/ Fault /\ UNCHANGED ledger
    /\ End(x, IF job[x].val = None THEN "not_open" ELSE "superseded")
    /\ UNCHANGED <<prs, branches, issues, notes, people>> /\ Quiet

SupersedeGivenUp(x) ==
    /\ At(x, "supersede", "gave_up") /\ Works
    /\ End(x, "partial_failure") /\ UNCHANGED repoVars /\ Quiet

SupersedeStep(x) ==
    ReadOldPr(x) \/ AddLabel(x) \/ AddBanner(x) \/ RecordSupersede(x) \/ SupersedeGivenUp(x)

-----------------------------------------------------------------------------
(* The product owner's review endpoints.                                   *)

ReviewOps == {"orphans", "inbox", "open_draft", "request_changes", "approve_note"}
Listings == {"orphans", "inbox"}

\* auth_check with the role of the endpoint.
RoleSuffices(x) == ask[x].role \in (IF ask[x].op \in Listings THEN {"viewer", "lead"} ELSE {"lead"})

\* _authorize: 401 without a valid token, 403 with an audit row.
ReviewRefused(x) ==
    /\ ask[x].op \in ReviewOps /\ job[x].pc = "idle" /\ ~RoleSuffices(x)
    /\ IF ask[x].role = "nobody"
       THEN Works /\ End(x, "401") /\ Quiet
       ELSE End(x, "403") /\ BestEffortAudit(x, "rbac_denied", "denied")
    /\ UNCHANGED repoVars

\* _resolve_bitbucket_target: a bot, a repository mapping and a stored secret.
HasTarget(x) == {"bot", "mapping", "secret"} \subseteq ask[x].target

ScanFails(x) == Fault /\ Set(x, [job[x] EXCEPT !.pc = "scan_failed"])

\* The branches of the repository; none when the department has no credential
\* or no repository.
ScanBranches(x) ==
    /\ Begins(x, "orphans") /\ RoleSuffices(x)
    /\ \/ Works /\ Gather(x, "scan_prs", IF HasTarget(x) THEN {b \in DOMAIN branches : Exists(branches, b)} ELSE {})
       \/ ScanFails(x)
    /\ UNCHANGED repoVars /\ Quiet

\* compute_orphan_branches over the two scans.
ScanPrs(x) ==
    /\ At(x, "orphans", "scan_prs")
    /\ \/ Works /\ Gather(x, "answer",
             {b \in job[x].got : /\ b \in BotBranches
                                 /\ ~\E p \in DOMAIN prs : Exists(prs, p) /\ prs[p].open /\ prs[p].branch = b})
       \/ ScanFails(x)
    /\ UNCHANGED repoVars /\ Quiet

\* The open pull requests, of which the inbox shows the drafts of the bots.
ScanInbox(x) ==
    /\ Begins(x, "inbox") /\ RoleSuffices(x)
    /\ \/ Works /\ Gather(x, "bots", IF HasTarget(x)
                            THEN {p \in DOMAIN prs : Exists(prs, p) /\ prs[p].open /\ prs[p].draft} ELSE {})
       \/ ScanFails(x)
    /\ UNCHANGED repoVars /\ Quiet

ReadBots(x) ==
    /\ At(x, "inbox", "bots")
    /\ \/ Works /\ Gather(x, "answer", {p \in job[x].got : prs[p].bot})
       \/ ScanFails(x)
    /\ UNCHANGED repoVars /\ Quiet

AnswerListing(x) ==
    /\ ask[x].op \in Listings
    /\ \/ job[x].pc = "answer" /\ BestEffortAudit(x, "listed", "ok") /\ End(x, "200")
       \/ job[x].pc = "scan_failed" /\ BestEffortAudit(x, "scan_failed", "error") /\ End(x, "502")
    /\ UNCHANGED repoVars

\* The resource of the pull request an action posts to: open_draft asks for
\* changes and leaves the draft flag alone, the other two post a comment.
Resource(op) == IF op = "open_draft" THEN "request-changes" ELSE "comments"

\* The call of an action: it arrives, arrives with its answer lost, or fails.
InvokeAction(x) ==
    /\ ask[x].op \in ReviewOps \ Listings /\ job[x].pc = "idle" /\ RoleSuffices(x)
    /\ LET arrives == notes' = notes \cup {[by |-> x, what |-> Resource(ask[x].op), on |-> ask[x].pr]} IN
       \/ HasTarget(x) /\ Works /\ arrives /\ Goto(x, "applied")
       \/ HasTarget(x) /\ Fault /\ arrives /\ Goto(x, "broken")
       \/ HasTarget(x) /\ Fault /\ UNCHANGED notes /\ Goto(x, "broken")
       \/ ~HasTarget(x) /\ Works /\ UNCHANGED notes /\ Goto(x, "broken")
    /\ UNCHANGED <<prs, branches, issues, ledger, people>> /\ Quiet

AnswerAction(x) ==
    /\ ask[x].op \in ReviewOps \ Listings
    /\ \/ job[x].pc = "applied" /\ BestEffortAudit(x, ask[x].op, "ok") /\ End(x, "202")
       \/ job[x].pc = "broken" /\ BestEffortAudit(x, ask[x].op, "error") /\ End(x, "502")
    /\ UNCHANGED repoVars

ReviewStep(x) ==
    \/ ReviewRefused(x) \/ ScanBranches(x) \/ ScanPrs(x) \/ ScanInbox(x) \/ ReadBots(x)
    \/ AnswerListing(x) \/ InvokeAction(x) \/ AnswerAction(x)

-----------------------------------------------------------------------------
(* BotBranchRetention.  got holds the branches of the department still to  *)
(* look at, with the age they had when they were listed.  Each call is an  *)
(* activity with retries of its own.                                       *)

ListDepartments(x) ==
    /\ ask[x].op = "retain" /\ job[x].pc \in {"idle", "departments"}
    /\ \/ Works /\ Set(x, [job[x] EXCEPT !.pc = "list", !.try = 1, !.todo = ask[x].depts])
       \/ Redo(x, "departments", "failed")
    /\ UNCHANGED repoVars /\ Quiet

\* A department whose branches cannot be listed is left for the next run.
ListBotBranches(x) ==
    /\ At(x, "retain", "list") /\ job[x].todo # {}
    /\ LET d == CHOOSE e \in job[x].todo : TRUE
           listed == {[name |-> b] @@ branches[b] :
                         b \in {c \in BotBranches : Exists(branches, c) /\ branches[c].dept = d}}
       IN  \/ Works /\ Set(x, [job[x] EXCEPT !.pc = "branch", !.try = 1, !.got = listed, !.todo = @ \ {d}])
           \/ job[x].try < MaxAttempts /\ Redo(x, "list", "list")
           \/ /\ job[x].try = MaxAttempts /\ Fault
              /\ Set(x, [job[x] EXCEPT !.try = 1, !.todo = @ \ {d}])
    /\ UNCHANGED repoVars /\ Quiet

\* The branch in hand; listings are in no particular order.
Current(x) == CHOOSE b \in job[x].got : TRUE

Rest(x) == job[x].got \ {Current(x)}

\* Too young, or not tied to an issue.
Skipped(b) == ~b.old \/ b.issue = None

\* Mutant: the branch that is passed over is not taken off the list.
SkipKeepsBranch(x) ==
    /\ At(x, "retain", "branch") /\ job[x].got # {} /\ Skipped(Current(x)) /\ Works
    /\ Gather(x, "branch", job[x].got)
    /\ UNCHANGED repoVars /\ Quiet

SkipBranch(x) ==
    /\ At(x, "retain", "branch") /\ job[x].got # {} /\ Skipped(Current(x)) /\ Works
    /\ Gather(x, "branch", Rest(x))
    /\ UNCHANGED repoVars /\ Quiet

ReadIssueStatus(x) ==
    /\ ask[x].op = "retain" /\ job[x].pc \in {"branch", "status"}
    /\ job[x].got # {} /\ ~Skipped(Current(x))
    /\ \/ Works /\ Keep(x, "decide", issues[Current(x).issue])
       \/ Redo(x, "status", "next")
    /\ UNCHANGED repoVars /\ Quiet

\* CLOSED_JIRA_STATUSES; statuses stand for themselves up to case.
ClosedStatuses == {"Done", "Closed"}

should_delete_branch(status) == status \in ClosedStatuses

Decide(x) ==
    /\ At(x, "retain", "decide") /\ Works
    /\ IF should_delete_branch(job[x].val)
       THEN Set(x, [job[x] EXCEPT !.pc = "delete", !.try = 1])
       ELSE Gather(x, "branch", Rest(x))
    /\ UNCHANGED repoVars /\ Quiet

\* The branch goes; the answer may be lost and the call repeated on a branch
\* that is gone.
DeleteBranch(x) ==
    /\ At(x, "retain", "delete")
    /\ \/ Works /\ branches' = [branches EXCEPT ![Current(x).name] = None] /\ Goto(x, "comment")
       \/ Redo(x, "delete", "next") /\ branches' = [branches EXCEPT ![Current(x).name] = None]
       \/ Redo(x, "delete", "next") /\ UNCHANGED branches
    /\ UNCHANGED <<prs, issues, ledger, notes, people>> /\ Quiet

PostRetentionComment(x) ==
    /\ At(x, "retain", "comment")
    /\ \/ Works /\ Goto(x, "deleted")
          /\ notes' = notes \cup {[by |-> x, what |-> "removed", on |-> Current(x).name]}
       \/ Redo(x, "comment", "deleted") /\ UNCHANGED notes
    /\ UNCHANGED <<prs, branches, issues, ledger, people>> /\ Quiet

\* The next branch, the next department, or the report.
NextBranch(x) ==
    /\ ask[x].op = "retain" /\ Works
    /\ \/ job[x].pc \in {"next", "deleted"} /\ Gather(x, "branch", Rest(x))
       \/ job[x].pc = "branch" /\ job[x].got = {} /\ Goto(x, "list")
       \/ job[x].pc = "list" /\ job[x].todo = {} /\ End(x, "report")
       \/ job[x].pc = "failed" /\ End(x, "failed")
    /\ UNCHANGED repoVars /\ Quiet

RetentionStep(x) ==
    \/ ListDepartments(x) \/ ListBotBranches(x) \/ SkipBranch(x) \/ ReadIssueStatus(x) \/ Decide(x)
    \/ DeleteBranch(x) \/ PostRetentionComment(x) \/ NextBranch(x)

-----------------------------------------------------------------------------
(* Properties                                                              *)

\* Retries, lost answers and edits by people in between never leave a pull
\* request with two banners for the same successor, and a job that reports the
\* old pull request as superseded left the label on it, and the banner too unless
\* a person wiped it out or another job rewrote the same description meanwhile.
SupersededOnce ==
    /\ \A p \in DOMAIN prs :
           Exists(prs, p) => \A i, k \in 1..Len(prs[p].banners) :
                                 prs[p].banners[i] = prs[p].banners[k] => i = k
    /\ \A x \in Jobs :
           job[x].out = "superseded" =>
               LET p == prs[ask[x].old] IN
               /\ ask[x].new \in p.labels
               /\ \/ \E i \in 1..Len(p.banners) : p.banners[i] = ask[x].new
                  \/ p.wiped
                  \/ \E y \in Jobs \ {x} : ask[y].op = "supersede" /\ ask[y].old = ask[x].old /\ Overlap(x, y)

\* A review action that is answered as applied did arrive, one that is refused
\* never does, and one that arrived although its answer was lost is answered
\* as failed and leaves a row in the audit trail unless that write failed too.
ReviewActionsAccounted ==
    \A x \in Jobs :
        Ended(x) /\ ask[x].op \in ReviewOps \ Listings =>
            LET arrived == \E m \in notes : m.by = x
                row == \E a \in audit : a.by = x
            IN  /\ job[x].out = "202" => arrived
                /\ arrived => ask[x].role = "lead" /\ (row \/ failed >= 1)
                /\ arrived /\ job[x].out = "502" => row \/ failed >= 2

\* An issue is told that its branch was removed only once the branch is gone.
RetentionTellsTruth ==
    \A m \in notes : m.what = "removed" => ~Exists(branches, m.on)

-----------------------------------------------------------------------------
(***************************************************************************)
(* The [iterate] comment: IterationWorkflow asks the activity              *)
(* prepare_iteration for the next iteration of an issue and starts an      *)
(* AutomationWorkflow for it.  The activity is retried as a whole, so a    *)
(* worker that dies after the insert burns a number.                       *)
(***************************************************************************)

CONSTANTS
    IterationCap,       \* MAX_ITERATIONS_PER_ISSUE
    ValidIssues         \* issue keys that match _ISSUE_KEY_PATTERN

VARIABLES
    iters,              \* rows of shared.workflow_iterations
    kids,               \* the child workflows started
    told                \* jobs whose author was told of the cap on the issue

iterVars == <<iters, kids, told>>

IterInit(mix) == iters = mix.iters /\ kids = {} /\ told = {}

\* Pick the greatest iteration number of the issue, 0 if there is none.
LatestIteration(issue) ==
    LET ns == {row.n : row \in {r \in iters : r.issue = issue}}
    IN  IF ns = {} THEN 0 ELSE CHOOSE n \in ns : \A m \in ns : m <= n

IsAuthorizedForIterate(a) ==
    /\ a.who # ""
    /\ a.who \in a.approvers \/ (a.reporter # "" /\ a.who = a.reporter)

\* prepare_iteration up to its first await, and the read of the latest row.
PrepareReads(x) ==
    /\ ask[x].op = "iterate" /\ job[x].pc \in {"idle", "prepare"}
    /\ IF ~IsAuthorizedForIterate(ask[x])
       THEN Works /\ End(x, "not_authorized")
       ELSE \/ Works /\ Keep(x, "insert", LatestIteration(ask[x].issue))
            \/ Redo(x, "prepare", "prepare_failed")
    /\ UNCHANGED iterVars /\ Quiet

\* Why the activity refuses the number after the one it read.
Refusal(x) ==
    CASE job[x].val >= IterationCap -> "max_iteration_exceeded"
      [] ask[x].issue \notin ValidIssues -> "invalid_workspace_path"
      [] OTHER -> ""

PrepareRefuses(x) ==
    /\ At(x, "iterate", "insert") /\ Refusal(x) # "" /\ Works
    /\ IF Refusal(x) = "max_iteration_exceeded" THEN Goto(x, "cap_audit") ELSE End(x, Refusal(x))
    /\ UNCHANGED iterVars /\ Quiet

\* Mutant: the table has no unique key, the insert always succeeds.
NoUniqueKey(issue, n) == FALSE

\* UNIQUE (issue_key, iteration_number).
Taken(issue, n) == \E row \in iters : row.issue = issue /\ row.n = n

\* The row is inserted; a taken number or a failing database is an ordinary
\* refusal, which the retry policy does not see.  A connection that breaks may
\* have committed the row.
PrepareInserts(x) ==
    /\ At(x, "iterate", "insert") /\ Refusal(x) = ""
    /\ LET n == job[x].val + 1
           row == [issue |-> ask[x].issue, n |-> n, by |-> x, try |-> job[x].try]
       IN
       \/ /\ ~Taken(ask[x].issue, n) /\ Works
          /\ iters' = iters \cup {row} /\ Keep(x, "inserted", n)
       \/ /\ Taken(ask[x].issue, n) /\ Works
          /\ End(x, "insert_failed") /\ UNCHANGED iters
       \/ /\ Fault /\ End(x, "insert_failed")
          /\ UNCHANGED iters \/ (~Taken(ask[x].issue, n) /\ iters' = iters \cup {row})
    /\ UNCHANGED <<kids, told>> /\ Quiet

\* The activity completes, or its worker dies before the result is recorded.
PrepareCompletes(x) ==
    /\ At(x, "iterate", "inserted")
    /\ \/ Works /\ Keep(x, "dispatch", job[x].val)
       \/ Redo(x, "prepare", "prepare_failed")
    /\ UNCHANGED iterVars /\ Quiet

PrepareFailed(x) ==
    /\ At(x, "iterate", "prepare_failed") /\ Works
    /\ End(x, "prepare_iteration_exception")
    /\ UNCHANGED iterVars /\ Quiet

StartChild(x) ==
    /\ At(x, "iterate", "dispatch")
    /\ \/ /\ Works /\ Keep(x, "child", job[x].val)
          /\ kids' = kids \cup {[issue |-> ask[x].issue, n |-> job[x].val, by |-> x]}
       \/ Fault /\ End(x, "child_dispatch_failed") /\ UNCHANGED kids
    /\ UNCHANGED <<iters, told>> /\ Quiet

ChildEnds(x) ==
    /\ At(x, "iterate", "child")
    /\ (Works /\ End(x, "dispatched")) \/ (Fault /\ End(x, "child_workflow_failed"))
    /\ UNCHANGED iterVars /\ Quiet

\* _handle_max_iteration_exceeded: the activity audit_write, which only logs and
\* writes no row, then the comment, each tried up to three times and given up.
CapTells(x) ==
    /\ ask[x].op = "iterate" /\ Quiet
    /\ \/ /\ job[x].pc = "cap_audit" /\ UNCHANGED told
          /\ (Works /\ Goto(x, "cap_comment")) \/ Redo(x, "cap_audit", "cap_comment")
       \/ /\ job[x].pc = "cap_comment"
          /\ \/ Works /\ told' = told \cup {x} /\ End(x, "max_iteration_exceeded")
             \/ Redo(x, "cap_comment", "cap_done") /\ UNCHANGED told
       \/ /\ job[x].pc = "cap_done" /\ Works
          /\ End(x, "max_iteration_exceeded") /\ UNCHANGED told
    /\ UNCHANGED <<iters, kids>>

IterationStep(x) ==
    \/ PrepareReads(x) \/ PrepareRefuses(x) \/ PrepareInserts(x) \/ PrepareCompletes(x)
    \/ PrepareFailed(x) \/ StartChild(x) \/ ChildEnds(x) \/ CapTells(x)

\* Two [iterate] comments handled at the same time, or one activity run twice
\* because its worker died after the insert, never give the same iteration
\* number, and with it the same workspace directory, to two child workflows.
IterationsAreDistinct ==
    \A k, l \in kids : k.issue = l.issue /\ k.n = l.n => k.by = l.by

\* However the comments interleave and however many numbers retries burn, no
\* issue gets an iteration beyond the cap, and the numbers have no gaps.
IterationsStayInCap ==
    \A row \in iters : /\ row.n \in 1..IterationCap
                       /\ \A m \in 1..row.n : \E r \in iters : r.issue = row.issue /\ r.n = m

\* Whoever is refused at the cap is told so on the issue unless every attempt of
\* the comment failed, whatever became of the audit call before it.
CapIsTold ==
    \A x \in Jobs : job[x].out = "max_iteration_exceeded" => x \in told \/ failed >= MaxAttempts

=============================================================================
