---------------------------- MODULE WebhookIntake ----------------------------
(***************************************************************************)
(* The FastAPI intake of automation-service beside the dispatcher: the v3  *)
(* route (api/webhooks.py with its filter chain, delivery claims, burst    *)
(* window and license cap), the v2 Jira routes (webhooks_handlers.py), the *)
(* issue_assigned route with its department handover, and the cancel       *)
(* endpoint.  All of them start or cancel Temporal workflows by id.        *)
(*                                                                         *)
(* A provider sends an event again until it has seen a 2xx answer, and may *)
(* do so while the first request is still being served.  Requests          *)
(* interleave at their awaits; a request may die at any of them (process   *)
(* restart), a database or Temporal call may fail, and a start may succeed *)
(* although its reply is lost.                                             *)
(***************************************************************************)
EXTENDS Naturals, FiniteSets

CONSTANTS
    Requests,  \* request slots of the service
    Issues, Depts,
    Events,    \* what the providers may send
    Info,      \* per event its EventShape
    Mixes,     \* sets of events sent together
    MaxTries,  \* deliveries of one event
    Cap,       \* max_concurrent_workflows of the license
    DayCap,    \* max_workflows_per_day
    None

ASSUME NoneAssumption == None \notin Depts /\ None \notin Events
ASSUME MixesAssumption == Mixes \subseteq SUBSET Events
ASSUME BoundsAssumption == MaxTries \in Nat /\ Cap \in Nat \ {0} /\ DayCap \in Nat \ {0}

\* id is the delivery header, "" when it is missing; dept is the department
\* the project resolves to, to the department whose bot is the assignee.
EventShape ==
    [route: {"v3", "v2", "assigned"}, src: {"created", "comment", "pr", "fulfilled", "other"},
     issue: Issues, id: STRING, actor: {"bot", "reporter", "other", "unknown"},
     prefix: BOOLEAN, tag: BOOLEAN, signed: BOOLEAN, capable: BOOLEAN,
     dept: Depts \cup {None}, to: Depts \cup {None}]

ASSUME InfoAssumption == Info \in [Events -> EventShape]

\* Workflow ids: automation-jira-KEY (v3 and issue_assigned), its -rev1 form,
\* automation-issue_created-KEY and automation-comment_created-KEY (one per v2
\* route), and the pull request's id.
Kinds == {"jira", "rev1", "issue_created", "comment_created", "pr"}
WorkflowIds == Kinds \X Issues

VARIABLES
    mix,       \* the events of this behaviour
    req,       \* per slot: where its handler is, the event, the work items it counted
    tries,     \* deliveries made per event
    answer,    \* what the provider last saw per event: "none", "ok", "retry"
    claimed,   \* processed_events: delivery ids
    window,    \* BurstWindow: issues with an open window
    burst,     \* whether the chain has a burst register
    iter,      \* iteration count per issue
    run,       \* Temporal: per id the run's state, department and cancel request
    items,     \* work_items: ids with status running
    today,     \* work_items created today
    starts,    \* history: start calls of an event that reached Temporal
    fault,     \* history: events that met a crash, a lost reply or a failed release
    failed,    \* history: events that met a failed start
    settled,   \* history: events filtered out or coalesced
    handled,   \* history: events whose start Temporal answered
    raced,     \* history: a start that no count covered: outdated, or on a route without the cap
    overrun    \* history: per issue what can leave two runs for one issue

vars == <<mix, req, tries, answer, claimed, window, burst, iter, run, items, today,
          starts, fault, failed, settled, handled, raced, overrun>>
temporal == <<run, items, today>>
verdicts == <<failed, settled, handled>>
history == <<starts, fault, verdicts, raced, overrun>>

Free == [pc |-> "free", ev |-> None, seen |-> {}]
Idle(i) == run[i].st # "running"
Unused(i) == run[i].st = "none"
Running == {i \in WorkflowIds: run[i].st = "running"}

-----------------------------------------------------------------------------
Init ==
    /\ mix \in Mixes
    /\ req = [r \in Requests |-> Free]
    /\ tries = [e \in mix |-> 0] /\ answer = [e \in mix |-> "none"]
    /\ claimed = {} /\ window = {} /\ burst \in BOOLEAN
    /\ iter = [i \in Issues |-> 1]
    /\ run = [w \in WorkflowIds |-> [st |-> "none", dept |-> None, cancel |-> FALSE]]
    /\ items = {} /\ today = 0
    /\ starts = [e \in mix |-> 0] /\ fault = {} /\ raced = FALSE
    /\ failed = {} /\ settled = {} /\ handled = {}
    /\ overrun = {}

-----------------------------------------------------------------------------
(***************************** the filter chain *****************************)
supported(e) == Info[e].src \in {"created", "comment", "pr"}

\* A known actor is judged by its account id alone, an unknown one by the
\* prefix of the text.
stage_loop_guard(e) == Info[e].actor = "bot" \/ (Info[e].actor = "unknown" /\ Info[e].prefix)
stage_streamlit_bypass(e) == Info[e].tag

\* is_processed is a stub in the application's wiring, so its answer may be
\* FALSE for a claimed id.
stage_replay_dedup(e) == {FALSE, Info[e].id \in claimed}

\* From the second iteration on only the mentioned may comment; the reporter's
\* first comment passes at once, before the burst window.
first_iter_exception(e) ==
    Info[e].src = "comment" /\ iter[Info[e].issue] <= 1 /\ Info[e].actor = "reporter"
stage_mention_filter(e) ==
    Info[e].src = "comment" /\ iter[Info[e].issue] > 1 /\ Info[e].actor # "reporter"

\* The burst stage: without a register, or for a pull request (no issue key),
\* the event passes; BurstWindow.register raises for an empty delivery id, lets
\* the first event of an issue open the window and drops the others.
register(e) ==
    IF ~burst \/ Info[e].src = "pr" THEN "pass"
    ELSE IF Info[e].id = "" THEN "500"
    ELSE IF Info[e].issue \in window THEN "coalesced" ELSE "emit"

\* evaluate: the verdicts the chain can reach, in the order of its stages.
evaluate(e) ==
    IF ~Info[e].signed THEN {"401"}
    ELSE IF Info[e].dept = None THEN {"400"}
    ELSE IF stage_loop_guard(e) THEN {"drop"}
    ELSE IF stage_streamlit_bypass(e) THEN {"pass"}
    ELSE {IF d THEN "duplicate"
          ELSE IF stage_mention_filter(e) THEN "drop"
          ELSE IF first_iter_exception(e) THEN "pass"
          ELSE register(e): d \in stage_replay_dedup(e)}

-----------------------------------------------------------------------------
(****************************** the provider ********************************)
\* The provider delivers an event it has no 2xx for, at most MaxTries times.
Deliver(r, e) ==
    /\ req[r].pc = "free"
    /\ answer[e] # "ok" /\ tries[e] < MaxTries
    /\ tries' = [tries EXCEPT ![e] = @ + 1]
    /\ req' = [req EXCEPT ![r] = [Free EXCEPT !.pc = Info[e].route, !.ev = e]]
    /\ UNCHANGED <<mix, answer, claimed, window, burst, iter, temporal, history>>

\* The response: the provider sees it, or times out first.
Respond(r, code) ==
    /\ req' = [req EXCEPT ![r] = Free]
    /\ answer' = [answer EXCEPT ![req[r].ev] = IF code = "2xx" \/ @ = "ok" THEN "ok" ELSE "retry"]

\* The process stops while it serves the request.
Crash(r) ==
    /\ req[r].pc # "free"
    /\ Respond(r, "lost")
    /\ fault' = fault \cup {req[r].ev}
    /\ UNCHANGED <<mix, tries, claimed, window, burst, iter, temporal, starts, verdicts, raced, overrun>>

-----------------------------------------------------------------------------
(****************************** the v3 route ********************************)
KeyOf(e) == IF Info[e].src = "pr" THEN <<"pr", Info[e].issue>> ELSE <<"jira", Info[e].issue>>

\* _process_webhook up to the dispatch: unsupported and loop-guarded event
\* types end with 200, the chain's verdict with its own code.
process_webhook(r) ==
    LET e == req[r].ev IN
    /\ req[r].pc = "v3"
    /\ \/ /\ ~supported(e)
          /\ Respond(r, "2xx")
          /\ settled' = settled \cup {e}
          /\ UNCHANGED window
       \/ /\ supported(e)
          /\ \E v \in evaluate(e):
                /\ window' = IF v = "emit" THEN window \cup {Info[e].issue} ELSE window
                /\ settled' = IF v \in {"drop", "coalesced"} THEN settled \cup {e} ELSE settled
                /\ IF v \in {"pass", "emit"}
                   THEN req' = [req EXCEPT ![r].pc = "cap"] /\ UNCHANGED answer
                   ELSE Respond(r, IF v \in {"drop", "coalesced", "duplicate"} THEN "2xx" ELSE v)
    /\ UNCHANGED <<mix, tries, claimed, burst, iter, temporal, starts, fault, failed, handled,
                   raced, overrun>>

\* BurstWindow: the window has elapsed.
CloseWindow(i) ==
    /\ i \in window
    /\ window' = window \ {i}
    /\ UNCHANGED <<mix, req, tries, answer, claimed, burst, iter, temporal, history>>

over_concurrent(n) == n >= Cap

\* Mutant: a request over the cap is answered like a dropped event.
count_concurrent_workflows_Silent(r) ==
    /\ req[r].pc = "cap"
    /\ IF over_concurrent(Cardinality(items))
       THEN Respond(r, "2xx")
       ELSE req' = [req EXCEPT ![r].pc = "day", ![r].seen = items] /\ UNCHANGED answer
    /\ UNCHANGED <<mix, tries, claimed, window, burst, iter, temporal, history>>

\* enforce_license_cap, first query: running work items.
count_concurrent_workflows(r) ==
    /\ req[r].pc = "cap"
    /\ IF over_concurrent(Cardinality(items))
       THEN Respond(r, "429")
       ELSE req' = [req EXCEPT ![r].pc = "day", ![r].seen = items] /\ UNCHANGED answer
    /\ UNCHANGED <<mix, tries, claimed, window, burst, iter, temporal, history>>

\* The other two queries: work items of the day, cost of the month.
count_workflows_today(r) ==
    /\ req[r].pc = "day"
    /\ \/ today >= DayCap /\ Respond(r, "429")
       \/ today < DayCap /\ req' = [req EXCEPT ![r].pc = "month"] /\ UNCHANGED answer
    /\ UNCHANGED <<mix, tries, claimed, window, burst, iter, temporal, history>>

sum_monthly_token_cost(r) ==
    /\ req[r].pc = "month"
    /\ \/ Respond(r, "429")
       \/ req' = [req EXCEPT ![r].pc = "claim"] /\ UNCHANGED answer
    /\ UNCHANGED <<mix, tries, claimed, window, burst, iter, temporal, history>>

\* processed_events.claim: insert the id; a taken id ends the request with 200.
claim(r) ==
    /\ req[r].pc = "claim"
    /\ IF Info[req[r].ev].id \in claimed
       THEN Respond(r, "2xx") /\ UNCHANGED claimed
       ELSE /\ claimed' = claimed \cup {Info[req[r].ev].id}
            /\ req' = [req EXCEPT ![r].pc = "start"]
            /\ UNCHANGED answer
    /\ UNCHANGED <<mix, tries, window, burst, iter, temporal, history>>

\* A database error in the cap's queries or the claim reaches the caller.
database_error(r) ==
    /\ req[r].pc \in {"cap", "day", "month", "claim"}
    /\ Respond(r, "500")
    /\ UNCHANGED <<mix, tries, claimed, window, burst, iter, temporal, history>>

-----------------------------------------------------------------------------
(***************************** Temporal starts ******************************)
\* start_workflow_idempotent on id w for department d: the client starts with
\* REJECT_DUPLICATE, so only an id that was never used gets a run; a running or
\* closed one is reported as existing and left alone.
StartRun(w, d, e) ==
    /\ run' = IF Unused(w) THEN [run EXCEPT ![w] = [st |-> "running", dept |-> d, cancel |-> FALSE]] ELSE run
    /\ starts' = [starts EXCEPT ![e] = @ + 1]
    \* the original id starts while a handover is under way or done
    /\ overrun' = IF /\ Unused(w) /\ w[1] = "jira"
                     /\ \/ ~Idle(<<"rev1", w[2]>>)
                        \/ \E q \in Requests: req[q].pc = "newdept" /\ Info[req[q].ev].issue = w[2]
                  THEN overrun \cup {w[2]} ELSE overrun

\* v3: start, answered 202.
start_workflow_idempotent(r) ==
    LET e == req[r].ev IN
    /\ req[r].pc = "start"
    /\ StartRun(KeyOf(e), Info[e].dept, e)
    /\ raced' = (raced \/ ~(Running \subseteq req[r].seen))
    /\ handled' = handled \cup {e}
    /\ Respond(r, "2xx")
    /\ UNCHANGED <<mix, tries, claimed, window, burst, iter, items, today, fault, failed, settled>>

\* v3: the start fails, with or without effect on the server.
start_failed(r) ==
    LET e == req[r].ev IN
    /\ req[r].pc = "start"
    /\ \/ UNCHANGED <<run, starts, overrun, fault>>
       \/ StartRun(KeyOf(e), Info[e].dept, e) /\ fault' = fault \cup {e}
    /\ req' = [req EXCEPT ![r].pc = "release"]
    /\ failed' = failed \cup {e}
    /\ raced' = (raced \/ run' # run)
    /\ UNCHANGED <<mix, tries, answer, claimed, window, burst, iter, items, today, settled, handled>>

\* Mutant: the claim is kept when the start fails.
release_Skipped(r) ==
    /\ req[r].pc = "release"
    /\ Respond(r, "500")
    /\ UNCHANGED <<mix, tries, claimed, window, burst, iter, temporal, history>>

\* The claim is released so that the redelivery is not taken for a duplicate;
\* a failing release is only logged.  The error goes on to the caller.
release(r) ==
    LET e == req[r].ev IN
    /\ req[r].pc = "release"
    /\ \/ claimed' = claimed \ {Info[e].id} /\ UNCHANGED fault
       \/ fault' = fault \cup {e} /\ UNCHANGED claimed
    /\ Respond(r, "500")
    /\ UNCHANGED <<mix, tries, window, burst, iter, temporal, starts, verdicts, raced, overrun>>

\* _build_workflow_id of the v2 routes: the route's event and the issue.
V2Key(e) == <<IF Info[e].src = "comment" THEN "comment_created" ELSE "issue_created", Info[e].issue>>

\* The v2 routes: department, signature, loop guard, capability gate, start;
\* the signature is checked with the department's two slots.  A failing start
\* (with or without effect) is answered 500.
process_jira_webhook(r) ==
    LET e == req[r].ev IN
    /\ req[r].pc = "v2"
    /\ \/ /\ Info[e].dept = None \/ ~Info[e].signed
          /\ Respond(r, "4xx")
          /\ UNCHANGED <<run, starts, overrun>>
       \/ /\ Info[e].dept # None /\ Info[e].signed /\ (Info[e].actor = "bot" \/ ~Info[e].capable)
          /\ Respond(r, "2xx")
          /\ UNCHANGED <<run, starts, overrun>>
       \/ /\ Info[e].dept # None /\ Info[e].signed /\ Info[e].actor # "bot" /\ Info[e].capable
          /\ \/ StartRun(V2Key(e), Info[e].dept, e) /\ \E code \in {"2xx", "500"}: Respond(r, code)
             \/ Respond(r, "500") /\ UNCHANGED <<run, starts, overrun>>
    /\ raced' = (raced \/ run' # run)
    /\ UNCHANGED <<mix, tries, claimed, window, burst, iter, items, today, fault, verdicts>>

-----------------------------------------------------------------------------
(********************** issue_assigned and handover *************************)
\* The department of the project, or else the bot's.
DeptOf(e) == IF Info[e].dept # None THEN Info[e].dept ELSE Info[e].to

\* handle_issue_assigned: only an assignment to a bot starts anything; to the
\* bot of another department it is a handover.
handle_issue_assigned(r) ==
    LET e == req[r].ev IN
    /\ req[r].pc = "assigned"
    /\ \/ /\ DeptOf(e) # None /\ ~Info[e].signed
          /\ Respond(r, "4xx")
          /\ UNCHANGED <<run, starts, overrun>>
       \/ /\ DeptOf(e) = None \/ Info[e].signed
          /\ \/ /\ Info[e].to = None \/ (Info[e].to = DeptOf(e) /\ ~Info[e].capable)
                /\ Respond(r, "2xx")
                /\ UNCHANGED <<run, starts, overrun>>
             \/ /\ Info[e].to # None /\ Info[e].to = DeptOf(e) /\ Info[e].capable
                /\ \/ /\ StartRun(<<"jira", Info[e].issue>>, Info[e].to, e)
                      /\ \E code \in {"2xx", "500"}: Respond(r, code)
                   \/ Respond(r, "500") /\ UNCHANGED <<run, starts, overrun>>
             \/ /\ Info[e].to # None /\ Info[e].to # DeptOf(e)
                /\ req' = [req EXCEPT ![r].pc = "handover"]
                /\ UNCHANGED <<answer, run, starts, overrun>>
    /\ raced' = (raced \/ run' # run)
    /\ UNCHANGED <<mix, tries, claimed, window, burst, iter, items, today, fault, verdicts>>

\* Mutant: the old run is not cancelled.
cancel_old_run_Skipped(r) ==
    /\ req[r].pc = "handover"
    /\ req' = [req EXCEPT ![r].pc = "newdept"]
    /\ UNCHANGED <<mix, tries, answer, claimed, window, burst, iter, temporal, history>>

\* _handle_dept_handover, first half: request the cancellation of the old run;
\* an error is logged and ignored.
cancel_old_run(r) ==
    LET e == req[r].ev  w == <<"jira", Info[e].issue>> IN
    /\ req[r].pc = "handover"
    /\ req' = [req EXCEPT ![r].pc = "newdept"]
    /\ \/ /\ ~Idle(w)
          /\ run' = [run EXCEPT ![w].cancel = TRUE]
          /\ UNCHANGED overrun
       \/ /\ overrun' = (IF Idle(w) THEN overrun ELSE overrun \cup {Info[e].issue})
          /\ UNCHANGED run
    /\ UNCHANGED <<mix, tries, answer, claimed, window, burst, iter, items, today,
                   starts, fault, verdicts, raced>>

\* Second half: start under the -rev1 id.  Whether the id was used already is
\* not looked at: the audit row and the comment report the handover.
start_new_dept(r) ==
    LET e == req[r].ev  w == <<"rev1", Info[e].issue>> IN
    /\ req[r].pc = "newdept"
    /\ \/ /\ StartRun(w, Info[e].to, e)
          /\ raced' = (raced \/ run' # run)
          /\ \E code \in {"2xx", "500"}: Respond(r, code)
       \/ /\ Respond(r, "500")
          /\ UNCHANGED <<run, starts, overrun, raced>>
    /\ UNCHANGED <<mix, tries, claimed, window, burst, iter, items, today, fault, verdicts>>

-----------------------------------------------------------------------------
(**************************** cancel endpoint *******************************)
Actors == {"reporter", "other", "bot"}

\* The reporter and past assignees; "other" stands for everybody else.
is_cancel_authorized(actor) == actor = "reporter"

\* POST /api/workflows/{id}/cancel.
cancel_workflow(actor, w) ==
    /\ is_cancel_authorized(actor)
    /\ ~Idle(w) /\ ~run[w].cancel
    /\ run' = [run EXCEPT ![w].cancel = TRUE]
    /\ UNCHANGED <<mix, req, tries, answer, claimed, window, burst, iter, items, today,
                   starts, fault, verdicts, raced, overrun>>

-----------------------------------------------------------------------------
(******************************* the runs ***********************************)
\* A run ends, by itself or because it was cancelled, and its work item is
\* closed; the issue's iteration count may have grown.
RunEnds(w) ==
    /\ ~Idle(w)
    /\ run' = [run EXCEPT ![w].st = "closed"]
    /\ items' = items \ {w}
    /\ iter' = [iter EXCEPT ![w[2]] = 2]
    /\ UNCHANGED <<mix, req, tries, answer, claimed, window, burst, today, history>>

\* The work item of a run is written, some time after the start.
WriteWorkItem(w) ==
    /\ ~Idle(w) /\ w \notin items
    /\ items' = items \cup {w}
    /\ today' = IF today < DayCap THEN today + 1 ELSE today
    /\ UNCHANGED <<mix, req, tries, answer, claimed, window, burst, iter, run, history>>

Next ==
    \/ \E r \in Requests:
          \/ \E e \in mix: Deliver(r, e)
          \/ Crash(r)
          \/ process_webhook(r) \/ count_concurrent_workflows(r) \/ count_workflows_today(r)
          \/ sum_monthly_token_cost(r) \/ claim(r) \/ database_error(r)
          \/ start_workflow_idempotent(r) \/ start_failed(r) \/ release(r)
          \/ process_jira_webhook(r)
          \/ handle_issue_assigned(r) \/ cancel_old_run(r) \/ start_new_dept(r)
    \/ \E i \in Issues: CloseWindow(i)
    \/ \E a \in Actors, w \in WorkflowIds: cancel_workflow(a, w)
    \/ \E w \in WorkflowIds: RunEnds(w) \/ WriteWorkItem(w)

Spec == Init /\ [][Next]_vars

-----------------------------------------------------------------------------
RequestShape ==
    [pc: {"free", "v3", "cap", "day", "month", "claim", "start", "release",
          "v2", "assigned", "handover", "newdept"},
     ev: Events \cup {None}, seen: SUBSET WorkflowIds]
RunShape == [st: {"none", "running", "closed"}, dept: Depts \cup {None}, cancel: BOOLEAN]

\* Type invariant.
TypeOK ==
    /\ mix \in Mixes
    /\ req \in [Requests -> RequestShape]
    /\ tries \in [mix -> 0..MaxTries]
    /\ answer \in [mix -> {"none", "ok", "retry"}]
    /\ claimed \subseteq {Info[e].id: e \in mix}
    /\ window \subseteq Issues /\ burst \in BOOLEAN
    /\ iter \in [Issues -> {1, 2}]
    /\ run \in [WorkflowIds -> RunShape]
    /\ items \subseteq WorkflowIds /\ today \in 0..DayCap
    /\ starts \in [mix -> Nat]
    /\ fault \subseteq mix /\ failed \subseteq mix /\ settled \subseteq mix /\ handled \subseteq mix
    /\ raced \in BOOLEAN /\ overrun \subseteq Issues

InProgress(e) == \E r \in Requests: req[r].ev = e

\* An event delivered to v3 twice gets as far as Temporal's start at most once,
\* however the two requests interleave, unless the reply of a start was lost or
\* the claim could not be kept (webhooks.py:767-839).
OneStartPerDelivery ==
    \A e \in mix: (Info[e].route = "v3" /\ starts[e] > 1) => e \in fault

\* A delivery id that stays claimed with nobody working on it belongs to an
\* event whose start was answered, or to one that met a fault: a failed start
\* leaves the redelivery possible (webhooks.py:807-819).
ClaimIsBackedByStart ==
    \A d \in claimed:
        \E e \in mix: Info[e].id = d /\ (InProgress(e) \/ e \in fault \cup handled)

\* Redeliveries, overlapping requests and failing starts: one start per event,
\* and a claim that stays is backed by a start.
DeliveredOnce ==
    /\ TypeOK
    /\ OneStartPerDelivery
    /\ ClaimIsBackedByStart

Alone(e) == \A f \in mix: (Info[f].route = "v3" /\ Info[f].id = Info[e].id) => f = e
Acknowledged(e) ==
    Info[e].route = "v3" /\ Alone(e) /\ answer[e] = "ok" /\ ~InProgress(e) /\ e \notin settled

\* A 2xx for an event that no filter dropped means that Temporal answered its
\* start (with a run, or with the one that id has or had), as long as no start
\* failed and nothing crashed; events that share a delivery id (a missing
\* header) shadow each other (webhooks.py:767-790).
AcknowledgedIsHandled ==
    \A e \in mix: Acknowledged(e) => e \in handled \cup failed \cup fault

\* Events of a bot whose account is known never get as far as a start, whatever
\* the text says: the bypass tag does not get around the loop guard
\* (webhook_filters.py:1471-1479).
BotsStartNothing ==
    \A e \in mix: (Info[e].route # "assigned" /\ Info[e].actor = "bot") => starts[e] = 0

\* The license cap is exceeded only when a start went on a count that was out
\* of date: requests between their count and their start, runs whose work item
\* was not written yet, or a route that does not ask (license_cap.py:592-612).
CapExceededNeedsRace == Cardinality(Running) > Cap => raced

\* Two live runs for one issue, the handed-over and the original one, need a
\* failed or not yet delivered cancellation, or an event that started the
\* original id after the handover's cancel request (webhooks_issue_assigned.py:386-447).
TwoRunsNeedCause ==
    \A i \in Issues:
        (~Idle(<<"jira", i>>) /\ ~Idle(<<"rev1", i>>)) =>
            i \in overrun \/ run[<<"jira", i>>].cancel

\* Nothing runs that the loop guard, the license cap or the handover should have
\* kept out, except by the races the code leaves open.
StartsAreEntitled ==
    /\ BotsStartNothing
    /\ CapExceededNeedsRace
    /\ TwoRunsNeedCause
=============================================================================
