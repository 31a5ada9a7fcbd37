--------------------------- MODULE WebhookPipeline ---------------------------
(***************************************************************************)
(* POST /webhooks/jira/pipeline of the automation service: every delivery  *)
(* runs event dedup, loop guard and dispatcher in this order               *)
(* (services/automation-service/src/webhooks/).  Deliveries are handled    *)
(* concurrently on one event loop; one action is what a handler does       *)
(* between two awaits.  The provider may deliver an event any number of    *)
(* times, also while an earlier delivery is still being handled.           *)
(***************************************************************************)
EXTENDS Naturals, FiniteSets

CONSTANTS
    Deliveries,        \* HTTP requests
    Events,            \* event ids
    Issues,
    Payloads,          \* what an event can carry, a subset of AllPayloads
    STORM_THRESHOLD,   \* 3 in the code
    MAX_CONCURRENT,    \* max_concurrent_workflows of the department
    None

Kinds   == {"update", "plain", "iterate", "approve"}
Authors == {"reporter", "stranger", "bot", "assigned_bot"}
Bots    == {"bot", "assigned_bot"}

\* kind is the event type with what the patterns find in the comment; comment
\* events carry the form "jira:comment_created", the one every stage accepts.
\* The reporter stands for everyone allowed to iterate.
AllPayloads == [issue : Issues, kind : Kinds, author : Authors,
                assigned : BOOLEAN]

ASSUME PipelineAssumption ==
    /\ Payloads \subseteq AllPayloads
    /\ STORM_THRESHOLD \in Nat \ {0}
    /\ MAX_CONCURRENT \in Nat \ {0}
    /\ None \notin Events

\* The awaits of a handler, and the answers it ends with.
Steps   == {"exists", "insert", "blocked", "bots", "record", "storm", "block",
            "resolve", "needs_info", "signal", "approval", "count", "budget",
            "start", "iterate"}
Dropped == {"duplicate", "loop_guard_blocked", "loop_guard",
            "dispatch_unassigned", "not_bot", "dept_disabled",
            "iteration_unauthorized", "concurrency_limit_exceeded",
            "budget_exceeded", "budget_configuration_error"}
Acting  == {"signaled", "approval_forwarded", "workflow_started",
            "iteration_started"}
Answers == Dropped \union Acting

\* Of the budget policy.
Verdicts == {"allowed", "budget_exceeded", "budget_configuration_error"}

VARIABLES
    payload,     \* event -> what it carries
    ev, pc,      \* delivery -> its event, its await or answer
    rows,        \* shared.webhook_dedup: "absent", "live" or "expired"
    drops,       \* rows of loop_guard_drops inside the storm window, by issue
    blocks,      \* issues with a row in loop_guard_blocks that has not ended
    gateway,     \* issue -> its AutomationWorkflow: "none", "running", "closed"
    overlapped,  \* history: events looked up while their row was being written
    faulty,      \* history: events that met an error, a crash or an expired row
    blinded,     \* history: bot events the guard did not recognise
    botDrops     \* history: issue -> drops ever recorded

tables  == <<rows, drops, blocks>>
cluster == <<gateway>>
history == <<overlapped, faulty, blinded, botDrops>>
vars    == <<payload, ev, pc, tables, cluster, history>>

Init ==
    /\ payload \in [Events -> Payloads]
    /\ ev = [d \in Deliveries |-> None]
    /\ pc = [d \in Deliveries |-> "idle"]
    /\ rows = [e \in Events |-> "absent"]
    /\ drops = [i \in Issues |-> 0]
    /\ blocks = {}
    /\ gateway = [i \in Issues |-> "none"]
    /\ overlapped = {} /\ faulty = {} /\ blinded = {}
    /\ botDrops = [i \in Issues |-> 0]

Carries(d) == payload[ev[d]]
IssueOf(d) == Carries(d).issue
Comment(d) == Carries(d).kind # "update"
Running(i) == gateway[i] = "running"

\* The handler of d leaves the await at and goes to step, or ends with it.
Goes(d, at, step) == pc[d] = at /\ pc' = [pc EXCEPT ![d] = step]

\* An error in the handler of d is remembered against its event.
Notes(d, outcome) ==
    faulty' = IF outcome = "ok" THEN faulty ELSE faulty \union {ev[d]}

-----------------------------------------------------------------------------
(* Event dedup.                                                             *)

Arrive(d, e) ==
    /\ Goes(d, "idle", "exists")
    /\ ev' = [ev EXCEPT ![d] = e]
    /\ UNCHANGED <<payload, tables, cluster, history>>

\* Mutant: the row is looked up under another key than it is written with.
ExistsMisses(d, outcome) ==
    LET found == FALSE IN
    /\ Goes(d, "exists", CASE outcome # "ok" -> "blocked"
                           [] outcome = "ok" /\ found -> "duplicate"
                           [] outcome = "ok" /\ ~found -> "insert")
    /\ Notes(d, outcome)
    /\ overlapped' = overlapped \union
          {e \in {ev[d]} : \E c \in Deliveries \ {d} : ev[c] = e /\ pc[c] = "insert"}
    /\ UNCHANGED <<payload, ev, tables, cluster, blinded, botDrops>>

\* _exists.  An error lets the event pass without a row.
Exists(d, outcome) ==
    LET found == rows[ev[d]] = "live" IN
    /\ Goes(d, "exists", CASE outcome # "ok" -> "blocked"
                           [] outcome = "ok" /\ found -> "duplicate"
                           [] outcome = "ok" /\ ~found -> "insert")
    /\ Notes(d, outcome)
    /\ overlapped' = overlapped \union
          {e \in {ev[d]} : \E c \in Deliveries \ {d} : ev[c] = e /\ pc[c] = "insert"}
    /\ UNCHANGED <<payload, ev, tables, cluster, blinded, botDrops>>

\* _insert: ON CONFLICT DO NOTHING, and an expired row conflicts too.
Insert(d, outcome) ==
    /\ Goes(d, "insert", "blocked")
    /\ rows' = [rows EXCEPT ![ev[d]] =
                    IF outcome = "ok" /\ @ = "absent" THEN "live" ELSE @]
    /\ Notes(d, outcome)
    /\ UNCHANGED <<payload, ev, drops, blocks, cluster, overlapped,
                   blinded, botDrops>>

\* The TTL passes, and the hourly cleanup_expired.
RowExpires(e) ==
    /\ rows[e] = "live"
    /\ rows' = [rows EXCEPT ![e] = "expired"]
    /\ faulty' = faulty \union {e}
    /\ UNCHANGED <<payload, ev, pc, drops, blocks, cluster, overlapped,
                   blinded, botDrops>>

cleanup_expired ==
    /\ \E e \in Events : rows[e] = "expired"
    /\ rows' = [e \in Events |-> IF rows[e] = "expired" THEN "absent" ELSE rows[e]]
    /\ UNCHANGED <<payload, ev, pc, drops, blocks, cluster, history>>

-----------------------------------------------------------------------------
(* Loop guard.                                                              *)

\* _is_blocked; an error counts as not blocked.
IsBlocked(d, outcome) ==
    /\ Goes(d, "blocked", IF outcome = "ok" /\ IssueOf(d) \in blocks
                          THEN "loop_guard_blocked" ELSE "bots")
    /\ Notes(d, outcome)
    /\ UNCHANGED <<payload, ev, tables, cluster, overlapped, blinded, botDrops>>

\* _is_approval_gate_exempt: no bot approves the work assigned to it.
approval_gate_exempt(d) ==
    /\ Carries(d).kind = "approve"
    /\ ~(Carries(d).author = "assigned_bot" /\ Carries(d).assigned)

\* _get_bot_ids and the comparison with the actor.  The cached set may be old,
\* or empty after an error.
BotIds(d, known) ==
    LET isBot == Carries(d).author \in Bots IN
    /\ Goes(d, "bots", IF isBot /\ known /\ ~approval_gate_exempt(d)
                       THEN "record" ELSE "resolve")
    /\ blinded' = IF isBot /\ ~known THEN blinded \union {ev[d]} ELSE blinded
    /\ UNCHANGED <<payload, ev, tables, cluster, overlapped, faulty, botDrops>>

\* _record_drop and its audit row.
RecordDrop(d, outcome) ==
    LET one == IF outcome = "ok" THEN 1 ELSE 0 IN
    /\ Goes(d, "record", "storm")
    /\ drops' = [drops EXCEPT ![IssueOf(d)] = @ + one]
    /\ botDrops' = [botDrops EXCEPT ![IssueOf(d)] = @ + one]
    /\ Notes(d, outcome)
    /\ UNCHANGED <<payload, ev, rows, blocks, cluster, overlapped,
                   blinded>>

\* Mutant: only the drop that reaches the threshold blocks.
StormAtThreshold(d, outcome) ==
    /\ Goes(d, "storm", IF outcome = "ok" /\ drops[IssueOf(d)] = STORM_THRESHOLD
                        THEN "block" ELSE "loop_guard")
    /\ Notes(d, outcome)
    /\ UNCHANGED <<payload, ev, tables, cluster, overlapped, blinded, botDrops>>

\* _is_storm.
IsStorm(d, outcome) ==
    /\ Goes(d, "storm", IF outcome = "ok" /\ drops[IssueOf(d)] >= STORM_THRESHOLD
                        THEN "block" ELSE "loop_guard")
    /\ Notes(d, outcome)
    /\ UNCHANGED <<payload, ev, tables, cluster, overlapped, blinded, botDrops>>

\* _block_issue; the admin notification changes nothing here.
BlockIssue(d, outcome) ==
    /\ Goes(d, "block", "loop_guard")
    /\ blocks' = IF outcome = "ok" THEN blocks \union {IssueOf(d)} ELSE blocks
    /\ Notes(d, outcome)
    /\ UNCHANGED <<payload, ev, rows, drops, cluster, overlapped,
                   blinded, botDrops>>

\* The oldest drop leaves the 60 s window.
DropAges(i) ==
    /\ drops[i] > 0
    /\ drops' = [drops EXCEPT ![i] = @ - 1]
    /\ UNCHANGED <<payload, ev, pc, rows, blocks, cluster, history>>

\* A block lasts 300 s, longer than any drop stays in the window, and while it
\* lasts only a handler whose look-up failed can record another.
BlockEnds(i) ==
    /\ i \in blocks
    /\ drops[i] = 0 \/ \E e \in faulty : payload[e].issue = i
    /\ blocks' = blocks \ {i}
    /\ UNCHANGED <<payload, ev, pc, rows, drops, cluster, history>>

-----------------------------------------------------------------------------
(* Dispatcher.                                                              *)

\* _is_iterate_authorized: the reporter or an approver of the department.
iterate_authorized(d) == Carries(d).author = "reporter"

\* dispatch up to the first branch that awaits.  Caches and tables may say
\* anything of the assignee and the mode of the department.
Resolve(d, dept) ==
    /\ Goes(d, "resolve",
            CASE ~Carries(d).assigned -> "dispatch_unassigned"
              [] Carries(d).assigned /\ dept # "active" -> dept
              [] /\ Carries(d).assigned /\ dept = "active"
                 /\ Carries(d).kind = "iterate" ->
                    IF iterate_authorized(d) THEN "budget"
                    ELSE "iteration_unauthorized"
              [] /\ Carries(d).assigned /\ dept = "active"
                 /\ Carries(d).kind # "iterate" ->
                    IF Comment(d) THEN "needs_info" ELSE "count")
    /\ UNCHANGED <<payload, ev, tables, cluster, history>>

\* _is_needs_info: a running gateway, or what work_items says when the
\* describe call shows none; then the approval branch.
IsNeedsInfo(d, outcome, waiting) ==
    LET running == outcome = "ok" /\ Running(IssueOf(d)) IN
    /\ Goes(d, "needs_info",
            CASE running \/ waiting -> "signal"
              [] ~(running \/ waiting) /\ Carries(d).kind = "approve" -> "approval"
              [] ~(running \/ waiting) /\ Carries(d).kind # "approve" -> "count")
    /\ Notes(d, outcome)
    /\ UNCHANGED <<payload, ev, tables, cluster, overlapped, blinded, botDrops>>

\* _signal_workflow and _forward_approval_signal swallow every error.
Signal(d, outcome) ==
    /\ Goes(d, "signal", "signaled")
    /\ Notes(d, outcome)
    /\ UNCHANGED <<payload, ev, tables, cluster, overlapped, blinded, botDrops>>

ForwardApproval(d, outcome) ==
    /\ Goes(d, "approval", "approval_forwarded")
    /\ Notes(d, outcome)
    /\ UNCHANGED <<payload, ev, tables, cluster, overlapped, blinded, botDrops>>

\* check_dept_concurrency: the client has no visibility call, so the count is
\* that of work_items, which neither the pipeline nor the gateway writes.
Count(d, count) ==
    /\ Goes(d, "count", IF count >= MAX_CONCURRENT
                        THEN "concurrency_limit_exceeded" ELSE "budget")
    /\ UNCHANGED <<payload, ev, tables, cluster, history>>

\* _check_budget_pre_start; a missing policy or a failing check lets the start
\* pass.
Budget(d, verdict) ==
    /\ Goes(d, "budget", IF verdict # "allowed" THEN verdict
                         ELSE IF Carries(d).kind = "iterate" THEN "iterate"
                         ELSE "start")
    /\ UNCHANGED <<payload, ev, tables, cluster, history>>

\* _start_iteration: a fresh workflow id every time.
StartIteration(d, outcome) ==
    /\ Goes(d, "iterate", "iteration_started")
    /\ Notes(d, outcome)
    /\ UNCHANGED <<payload, ev, tables, cluster, overlapped, blinded, botDrops>>

\* _start_workflow: one id per issue and REJECT_DUPLICATE, so an issue whose run has
\* closed is not started again; the refusal, like every other error, is swallowed.
StartWorkflow(d, outcome) ==
    LET i == IssueOf(d) IN
    /\ Goes(d, "start", "workflow_started")
    /\ gateway' = IF outcome = "ok" /\ gateway[i] = "none"
                  THEN [gateway EXCEPT ![i] = "running"] ELSE gateway
    /\ Notes(d, outcome)
    /\ UNCHANGED <<payload, ev, tables, overlapped, blinded, botDrops>>

-----------------------------------------------------------------------------
(* The rest of the system.                                                  *)

\* The gateway run ends, in one way or another.
GatewayCloses(i) ==
    /\ gateway[i] = "running"
    /\ gateway' = [gateway EXCEPT ![i] = "closed"]
    /\ UNCHANGED <<payload, ev, pc, tables, history>>

\* The service process stops: every request in flight is gone.
Crash ==
    /\ \E d \in Deliveries : pc[d] \in Steps
    /\ pc' = [d \in Deliveries |-> IF pc[d] \in Steps THEN "dead" ELSE pc[d]]
    /\ faulty' = faulty \union {ev[d] : d \in {c \in Deliveries : pc[c] \in Steps}}
    /\ UNCHANGED <<payload, ev, tables, cluster, overlapped, blinded, botDrops>>

\* Everything the handler of d may do next.
Handle(d) ==
    \/ \E outcome \in {"ok", "error"} :
          \/ Exists(d, outcome) \/ Insert(d, outcome) \/ IsBlocked(d, outcome)
          \/ RecordDrop(d, outcome) \/ IsStorm(d, outcome)
          \/ BlockIssue(d, outcome) \/ Signal(d, outcome)
          \/ ForwardApproval(d, outcome) \/ StartIteration(d, outcome)
          \/ StartWorkflow(d, outcome)
          \/ \E waiting \in BOOLEAN : IsNeedsInfo(d, outcome, waiting)
    \/ \E known \in BOOLEAN : BotIds(d, known)
    \/ \E dept \in {"not_bot", "dept_disabled", "active"} : Resolve(d, dept)
    \/ \E count \in 0 .. MAX_CONCURRENT : Count(d, count)
    \/ \E verdict \in Verdicts : Budget(d, verdict)

Environment ==
    \/ \E d \in Deliveries, e \in Events : Arrive(d, e)
    \/ \E e \in Events : RowExpires(e)
    \/ cleanup_expired \/ Crash
    \/ \E i \in Issues : \/ DropAges(i) \/ BlockEnds(i) \/ GatewayCloses(i)

Next == Environment \/ \E d \in Deliveries : Handle(d)

Spec == Init /\ [][Next]_vars

-----------------------------------------------------------------------------
TypeOK ==
    /\ payload \in [Events -> Payloads]
    /\ ev \in [Deliveries -> Events \union {None}]
    /\ pc \in [Deliveries -> Steps \union Answers \union {"idle", "dead"}]
    /\ \A d \in Deliveries : pc[d] # "idle" => ev[d] \in Events
    /\ rows \in [Events -> {"absent", "live", "expired"}]
    /\ drops \in [Issues -> Nat] /\ botDrops \in [Issues -> Nat]
    /\ blocks \subseteq Issues
    /\ gateway \in [Issues -> {"none", "running", "closed"}]
    /\ overlapped \subseteq Events /\ faulty \subseteq Events
    /\ blinded \subseteq Events

\* EventDedup.check: two deliveries of one event both get to act only when the
\* second was looked up between the first one's look-up and its insert, or an
\* error, an expired row or a crash came in between.
DuplicatesNeedOverlap ==
    \A c, d \in Deliveries :
        c # d /\ ev[c] = ev[d] /\ {pc[c], pc[d]} \subseteq Acting
            => ev[d] \in overlapped \union faulty

\* LoopGuard.check: an issue is blocked only after STORM_THRESHOLD recorded
\* drops of bot events, so people alone never block one.
BlockNeedsStorm == \A i \in blocks : botDrops[i] >= STORM_THRESHOLD

\* LoopGuard.check records before it counts: handlers that drop concurrently
\* cannot each miss the other's row and leave a storm unblocked.
StormIsNoticed ==
    \A i \in Issues :
        \/ drops[i] < STORM_THRESHOLD \/ i \in blocks
        \/ \E d \in Deliveries : pc[d] \in {"storm", "block"} /\ IssueOf(d) = i
        \/ \E e \in faulty : payload[e].issue = i

\* "A bot cannot approve its own work", and nothing else a bot does leads to a
\* signal or a start, while the guard recognises it.
BotsTriggerNothing ==
    \A d \in Deliveries :
        pc[d] \in Acting /\ Carries(d).author \in Bots =>
            \/ ev[d] \in blinded \union faulty
            \/ /\ Carries(d).kind = "approve"
               /\ Carries(d).author = "bot" \/ ~Carries(d).assigned

\* The loop guard under concurrent deliveries, crashes and database errors: a
\* storm of bot events blocks the issue, nothing else does, and no recognised
\* bot triggers anything (LoopGuard.check).
LoopGuardHolds ==
    /\ TypeOK
    /\ BlockNeedsStorm
    /\ StormIsNoticed
    /\ BotsTriggerNothing

\* _insert: "Uses ON CONFLICT DO NOTHING to handle race conditions between
\* concurrent requests gracefully": one [iterate] comment starts one iteration.
IterationOncePerComment ==
    \A c, d \in Deliveries :
        /\ c # d /\ ev[c] = ev[d] /\ ev[d] \notin faulty
        /\ pc[c] = "iteration_started"
        => pc[d] # "iteration_started"
==============================================================================
