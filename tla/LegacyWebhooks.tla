--------------------------- MODULE LegacyWebhooks ---------------------------
(***************************************************************************)
(* The first generation of webhook handlers: post_jira_webhook and         *)
(* handle_bitbucket_webhook.  A delivery is verified, marked as processed  *)
(* by the hash of its payload, and then leads to a work item and the start *)
(* of a workflow, to a signal, or to the restart of a closed workflow by a *)
(* comment.  The mark comes first: whatever fails after it is not tried    *)
(* again, because the redelivery is a duplicate.  Two more parts follow:   *)
(* the coordinator of bursts, and the tasks that come by Slack and mail.   *)
(***************************************************************************)
EXTENDS Jobs, TLC, Integers

VARIABLES
    marks,          \* automation.processed_events: [event, by]
    aged,           \* events whose mark is past its TTL
    queued,         \* automation.work_items: subjects with a row
    flow,           \* flow[s]: the workflow of subject s is "none", "open" or "closed"
    served,         \* what came of a delivery: [by, event, how, flow]
    acks,           \* jobs that posted an acknowledgement
    cleaned         \* events whose mark was deleted (history)

hookVars == <<marks, aged, queued, flow, served, acks, cleaned>>

HookInit(mix) ==
    /\ marks = {} /\ aged = {} /\ queued = {} /\ served = {} /\ acks = {} /\ cleaned = {}
    /\ flow = mix.flow

HookOps == {"jira_event", "bb_event", "cleanup"}

Event(x) == ask[x].event
Subject(x) == ask[x].subject
Marked(e) == \E m \in marks : m.event = e

\* An exception that nothing catches: the framework answers 500.
Breaks(x) == Fault /\ End(x, "500") /\ UNCHANGED hookVars

Refuse(x, out) == Works /\ End(x, out) /\ UNCHANGED hookVars
Pass(x, pc) == Works /\ Goto(x, pc) /\ UNCHANGED hookVars

\* _resolve_webhook_secret_two_stage: the department's secret, else the global one;
\* a failed look-up of the department counts as none.
SecretFor(x, looked) ==
    CASE looked /\ ask[x].dept # None /\ "dept" \in ask[x].secrets -> "dept"
      [] (~looked \/ ask[x].dept = None \/ "dept" \notin ask[x].secrets) /\ "global" \in ask[x].secrets -> "global"
      [] OTHER -> None

\* hmac_verify.verify, then the payload must be an object with an event type.
Verdict(x, secret) ==
    CASE secret = None -> "503"
      [] secret # None /\ ask[x].signed # secret -> "401"
      [] secret # None /\ ask[x].signed = secret /\ ~ask[x].wellFormed -> "400"
      [] OTHER -> "go"

JiraVerify(x) ==
    /\ At(x, "jira_event", "idle") /\ Quiet /\ UNCHANGED hookVars
    /\ IF ~ask[x].ready THEN Works /\ End(x, "503")
       ELSE \E looked \in BOOLEAN :
                /\ IF looked THEN Works ELSE Fault
                /\ LET v == Verdict(x, SecretFor(x, looked))
                   IN  IF v = "go" THEN Goto(x, "mark") ELSE End(x, v)

BitbucketVerify(x) ==
    /\ At(x, "bb_event", "idle") /\ Quiet /\ UNCHANGED hookVars /\ Works
    /\ LET v == Verdict(x, "global") IN IF v = "go" THEN Goto(x, "mark") ELSE End(x, v)

\* check_and_insert: one INSERT ... ON CONFLICT DO NOTHING; a mark past its TTL
\* still conflicts until it is cleaned up.
Mark(x) ==
    /\ ask[x].op \in {"jira_event", "bb_event"} /\ job[x].pc = "mark" /\ Quiet
    /\ \/ Breaks(x)
       \/ Marked(Event(x)) /\ Refuse(x, "duplicate")
       \/ /\ ~Marked(Event(x)) /\ Works /\ marks' = marks \cup {[event |-> Event(x), by |-> x]}
          /\ Goto(x, "bots") /\ UNCHANGED <<aged, queued, flow, served, acks, cleaned>>

\* is_bot_assignee and assignee_changed_to_bot.
ToBot(x) == ask[x].assignee = "bot"

\* is_self_actor, route, the issue key, and the assignee against the bots.
JiraRoute(x) ==
    /\ At(x, "jira_event", "bots") /\ Quiet
    /\ \/ Breaks(x)
       \/ CASE ask[x].actor = "bot" -> Refuse(x, "loop_guard")
            [] ask[x].actor # "bot" /\ ask[x].kind = "other" -> Refuse(x, "ignored")
            [] ask[x].actor # "bot" /\ ask[x].kind # "other" /\ Subject(x) = "bad" -> Refuse(x, "400")
            [] ask[x].actor # "bot" /\ ask[x].kind = "comment" /\ Subject(x) # "bad" -> Pass(x, "signal")
            [] OTHER -> IF ToBot(x) THEN Pass(x, "dept") ELSE Refuse(x, "not_bot_assignee")

BitbucketRoute(x) ==
    /\ At(x, "bb_event", "bots") /\ Quiet
    /\ \/ Breaks(x)
       \/ CASE ask[x].actor = "bot" -> Refuse(x, "loop_guard")
            [] ask[x].actor # "bot" /\ ask[x].kind = "other" -> Refuse(x, "ignored")
            [] ask[x].actor # "bot" /\ ask[x].kind # "other" /\ Subject(x) = "bad" -> Refuse(x, "400")
            [] ask[x].actor # "bot" /\ ask[x].kind # "other" /\ Subject(x) # "bad" /\ ask[x].dept = None -> Refuse(x, "ignored")
            [] OTHER -> Pass(x, IF ask[x].kind = "comment" THEN "signal" ELSE "reviewer")

\* The reviewer must be the department's own bot.
ReviewerAdded(x) ==
    /\ At(x, "bb_event", "reviewer") /\ Quiet
    /\ \/ Breaks(x)
       \/ IF ToBot(x) THEN Pass(x, "item") ELSE Refuse(x, "not_bot_reviewer")

ResolveDept(x) ==
    /\ At(x, "jira_event", "dept") /\ Quiet
    /\ \/ Breaks(x)
       \/ IF ask[x].dept = None THEN Refuse(x, "missing_capability") ELSE Pass(x, "capability")

\* Without a credential of its own the department is told so, best effort.
has_jira_credential(x) ==
    /\ At(x, "jira_event", "capability") /\ Quiet
    /\ \/ Breaks(x)
       \/ IF ask[x].cred THEN Pass(x, "item") ELSE Pass(x, "denied")

\* The comment that follows a decision may fail without changing it.
Acknowledge(x) ==
    /\ ask[x].op = "jira_event" /\ job[x].pc \in {"denied", "ack"} /\ Quiet
    /\ \/ Works /\ acks' = acks \cup {x}
       \/ Fault /\ UNCHANGED acks
    /\ End(x, IF job[x].pc = "denied" THEN "missing_capability" ELSE "accepted")
    /\ UNCHANGED <<marks, aged, queued, flow, served, cleaned>>

\* _insert_work_item: ON CONFLICT DO NOTHING.
InsertWorkItem(x) ==
    /\ ask[x].op \in {"jira_event", "bb_event"} /\ job[x].pc = "item" /\ Quiet
    /\ \/ Breaks(x)
       \/ /\ Works /\ queued' = queued \cup {Subject(x)} /\ Goto(x, "start")
          /\ UNCHANGED <<marks, aged, flow, served, acks, cleaned>>

Serve(x, how) == served' = served \cup {[by |-> x, event |-> Event(x), how |-> how]}
OpensFlow(x) == flow' = [flow EXCEPT ![Subject(x)] = "open"]
Others == UNCHANGED <<marks, aged, queued, acks, cleaned>>

\* start_workflow with the id of the subject under REJECT_DUPLICATE: a workflow that
\* has closed refuses the start like one that runs.  Only that error is caught.
StartWorkflow(x) ==
    /\ ask[x].op \in {"jira_event", "bb_event"} /\ job[x].pc = "start" /\ Quiet
    /\ \/ Breaks(x)
       \/ flow[Subject(x)] # "none" /\ Refuse(x, "workflow_running")
       \/ flow[Subject(x)] = "none" /\ Fault /\ OpensFlow(x) /\ Serve(x, "start") /\ End(x, "500") /\ Others
       \/ /\ flow[Subject(x)] = "none" /\ Works /\ OpensFlow(x) /\ Serve(x, "start") /\ Others
          /\ IF ask[x].op = "jira_event" THEN Goto(x, "ack") ELSE End(x, "accepted")

\* Jira goes on to a restart when the workflow is not there; any other failure,
\* and for Bitbucket that one too, is an "ignored".
SignalWorkflow(x) ==
    /\ ask[x].op \in {"jira_event", "bb_event"} /\ job[x].pc = "signal" /\ Quiet
    /\ \/ /\ flow[Subject(x)] = "open" /\ Works /\ Serve(x, "signal") /\ UNCHANGED flow /\ Others
          /\ End(x, "signal_forwarded")
       \/ flow[Subject(x)] = "open" /\ Fault /\ Serve(x, "signal") /\ UNCHANGED flow /\ Others /\ End(x, "ignored")
       \/ Fault /\ End(x, "ignored") /\ UNCHANGED hookVars
       \/ /\ flow[Subject(x)] # "open"
          /\ IF ask[x].op = "jira_event" THEN Pass(x, "fetch") ELSE Refuse(x, "ignored")

\* A restart needs a department, the issue's status and assignee as Jira has them
\* now, and the status among the department's (or the default) eligible ones.
MayRestart(x) ==
    /\ At(x, "jira_event", "fetch") /\ Quiet /\ UNCHANGED hookVars
    /\ IF ask[x].dept = None \/ ~ask[x].fetcher THEN Works /\ End(x, "ignored")
       ELSE \/ Fault /\ End(x, "ignored")
            \/ Works /\ (IF ask[x].status \in {"To Do", "Open"} /\ ToBot(x) THEN Goto(x, "restart") ELSE End(x, "ignored"))

RestartBreaks(x) == At(x, "jira_event", "restart") /\ Quiet /\ Breaks(x)

\* signal_with_start is one call: it signals the workflow that runs by now, or starts
\* one, after a closed one too.
RestartFromComment(x) ==
    /\ At(x, "jira_event", "restart") /\ Quiet /\ Others
    /\ \/ Works /\ OpensFlow(x) /\ Serve(x, "signal") /\ End(x, "restarted")
       \/ Fault /\ OpensFlow(x) /\ Serve(x, "signal") /\ End(x, "ignored")
       \/ Fault /\ UNCHANGED <<flow, served>> /\ End(x, "ignored")

\* cleanup_expired deletes the marks past their TTL.
CleanupExpired(x) ==
    /\ At(x, "cleanup", "idle") /\ Quiet
    /\ \/ Breaks(x)
       \/ /\ Works /\ marks' = {m \in marks : m.event \notin aged} /\ aged' = {} /\ cleaned' = cleaned \cup aged
          /\ End(x, "ok") /\ UNCHANGED <<queued, flow, served, acks>>

HookStep(x) ==
    \/ JiraVerify(x) \/ BitbucketVerify(x) \/ Mark(x) \/ JiraRoute(x) \/ BitbucketRoute(x)
    \/ ReviewerAdded(x) \/ ResolveDept(x) \/ has_jira_credential(x) \/ Acknowledge(x) \/ InsertWorkItem(x)
    \/ StartWorkflow(x) \/ SignalWorkflow(x) \/ MayRestart(x) \/ RestartBreaks(x) \/ RestartFromComment(x)
    \/ CleanupExpired(x)

\* A workflow closes; a mark passes its TTL where somebody is about to clean up.
HooksAge ==
    \/ \E s \in DOMAIN flow : /\ flow[s] = "open" /\ \E v \in served : Subject(v.by) = s
                              /\ flow' = [flow EXCEPT ![s] = "closed"]
                              /\ UNCHANGED <<marks, aged, queued, served, acks, cleaned>>
    \/ \E m \in marks : /\ m.event \notin aged /\ \E x \in Jobs : Begins(x, "cleanup")
                        /\ aged' = aged \cup {m.event}
                        /\ UNCHANGED <<marks, queued, flow, served, acks, cleaned>>

-----------------------------------------------------------------------------
Delivers(x) == ask[x].op \in {"jira_event", "bb_event"}
By(x) == {v \in served : v.by = x}

\* However often and however concurrently an event is delivered, it starts or
\* signals a workflow once, as long as its mark is kept.
EventServedOnce ==
    \A v, w \in served : v.event = w.event /\ v.event \notin cleaned => v = w

\* An answer is what happened: accepted means started, forwarded and restarted
\* mean that the workflow heard it, and every other answer but an error or an
\* "ignored" after a failed call means that nothing was done.
HookAnswersAreTrue ==
    \A x \in Jobs : Delivers(x) /\ Ended(x) =>
        /\ job[x].out = "accepted" => \E v \in By(x) : v.how = "start"
        /\ job[x].out \in {"signal_forwarded", "restarted"} => \E v \in By(x) : v.how = "signal"
        /\ By(x) # {} => job[x].out \in {"accepted", "signal_forwarded", "restarted", "500", "ignored"}

\* Deliveries that should lead to work.
Wanted(x) ==
    /\ Delivers(x) /\ ask[x].actor # "bot" /\ ask[x].dept # None /\ ask[x].cred /\ ToBot(x)
    /\ ask[x].kind = "assigned" /\ Subject(x) # "bad"

\* A wanted event whose deliveries are all over was served, or found that its subject
\* has had a workflow, running or closed, unless the one delivery that owns its mark
\* broke: before the mark a failure costs nothing, the redelivery does the work.
LostOnlyByItsOwner ==
    \A m \in marks :
        LET x == m.by
        IN  Wanted(x) /\ Ended(x) =>
                By(x) # {} \/ (job[x].out = "workflow_running" /\ flow[Subject(x)] # "none") \/ (job[x].out = "500" /\ failed > 0)

\* A workflow that an assignment or a review started has its work item.
StartsHaveWorkItems == \A v \in served : v.how = "start" => Subject(v.by) \in queued

-----------------------------------------------------------------------------
(***************************************************************************)
(* The coordinator that folds a burst of events of one issue into one.     *)
(* The first event opens a window with a timer; the ones that follow are   *)
(* buffered; when the timer fires a task of its own takes the window and   *)
(* dispatches the last event.  flush_all takes every window at once and    *)
(* aclose drops them, while timers fire and their tasks are still waiting. *)
(***************************************************************************)

CONSTANT Issues     \* the issues events are about

VARIABLES
    windows,        \* _buffers: the open window of each issue
    timers,         \* timer handles that have neither fired nor been cancelled
    flushes,        \* _inflight_flushes: tasks, and the window each has taken
    handed,         \* the windows whose last event was dispatched, and how that went
    lost,           \* the deliveries in windows that aclose dropped
    shut            \* _closed: the job that closed the coordinator

windowVars == <<windows, timers, flushes, handed, lost, shut>>
WindowOps == {"observe", "flush_all", "aclose"}

WindowInit ==
    /\ windows = [i \in Issues |-> None] /\ timers = {} /\ flushes = {}
    /\ handed = {} /\ lost = {} /\ shut = None

\* A window is known by the delivery that opened it, which its timer names too.
Buffer(x) == [opened |-> x, ids |-> {x}, last |-> x]
Joined(w, x) == [w EXCEPT !.ids = @ \cup {x}, !.last = x]
Timer(x) == [opened |-> x, issue |-> ask[x].issue]

Open == {windows[i] : i \in {j \in Issues : windows[j] # None}}

\* cancel() on the handle of each window; a timer that has fired is out of reach.
Cancelled == {t \in timers : \E w \in Open : w.opened = t.opened}

observe(x) ==
    /\ Begins(x, "observe") /\ Quiet /\ Works /\ UNCHANGED <<flushes, handed, lost, shut>>
    /\ IF shut # None \/ ask[x].issue = None THEN End(x, "refused") /\ UNCHANGED <<windows, timers>>
       ELSE IF windows[ask[x].issue] = None
       THEN /\ windows' = [windows EXCEPT ![ask[x].issue] = Buffer(x)]
            /\ timers' = timers \cup {Timer(x)} /\ End(x, "dispatch_now")
       ELSE /\ windows' = [windows EXCEPT ![ask[x].issue] = Joined(@, x)]
            /\ UNCHANGED timers /\ End(x, "buffered")

\* The callback gets the last event, marked with the deliveries it stands for; what
\* the callback raises is swallowed.
attach_coalesced_marker(w) == [opened |-> w.opened, event |-> w.last, with |-> w.ids]

dispatch_buffered(w) ==
    \/ Works /\ handed' = handed \cup {[ok |-> TRUE] @@ attach_coalesced_marker(w)}
    \/ Fault /\ handed' = handed \cup {[ok |-> FALSE] @@ attach_coalesced_marker(w)}

\* Every window is taken under the lock, then dispatched one after the other.
flush_all(x) ==
    /\ ask[x].op = "flush_all" /\ Quiet /\ UNCHANGED <<flushes, lost, shut>>
    /\ \/ /\ job[x].pc = "idle" /\ Works /\ UNCHANGED handed
          /\ IF shut # None THEN End(x, "closed") /\ UNCHANGED <<windows, timers>>
             ELSE /\ windows' = [i \in Issues |-> None] /\ timers' = timers \ Cancelled
                  /\ Set(x, [job[x] EXCEPT !.pc = "each", !.todo = Open])
       \/ /\ job[x].pc = "each" /\ job[x].todo = {} /\ Works
          /\ End(x, "flushed") /\ UNCHANGED <<windows, timers, handed>>
       \/ \E w \in job[x].todo :
            /\ job[x].pc = "each" /\ dispatch_buffered(w)
            /\ Set(x, [job[x] EXCEPT !.todo = @ \ {w}]) /\ UNCHANGED <<windows, timers>>

\* The windows are dropped; the tasks of timers that have fired are waited for.
aclose(x) ==
    /\ ask[x].op = "aclose" /\ Quiet /\ Works /\ UNCHANGED <<flushes, handed>>
    /\ \/ /\ job[x].pc = "idle"
          /\ IF shut # None THEN End(x, "already") /\ UNCHANGED <<windows, timers, lost, shut>>
             ELSE /\ shut' = x /\ timers' = timers \ Cancelled /\ lost' = UNION {w.ids : w \in Open}
                  /\ windows' = [i \in Issues |-> None] /\ Goto(x, "wait")
       \/ /\ job[x].pc = "wait" /\ flushes = {}
          /\ End(x, "closed") /\ UNCHANGED <<windows, timers, lost, shut>>

-----------------------------------------------------------------------------
(* Timers and their tasks.                                                 *)

on_window_expired(t) ==
    /\ timers' = timers \ {t} /\ UNCHANGED <<windows, handed, lost, shut, failed>>
    /\ flushes' = IF shut # None THEN flushes ELSE flushes \cup {[timer |-> t, window |-> None]}

\* The task takes whatever window its issue has by then, which need not be the one
\* whose timer fired.
flush_one(f) ==
    /\ f.window = None /\ UNCHANGED <<timers, handed, lost, shut, failed>>
    /\ LET w == windows[f.timer.issue]
       IN  IF w = None THEN flushes' = flushes \ {f} /\ UNCHANGED windows
           ELSE /\ windows' = [windows EXCEPT ![f.timer.issue] = None]
                /\ flushes' = (flushes \ {f}) \cup {[f EXCEPT !.window = w]}

FlushEnds(f) ==
    /\ f.window # None /\ dispatch_buffered(f.window) /\ flushes' = flushes \ {f}
    /\ UNCHANGED <<windows, timers, lost, shut>>

TimerFires == (\E t \in timers : on_window_expired(t)) /\ UNCHANGED <<ask, job, bound, audit>>
FlushRuns == (\E f \in flushes : flush_one(f) \/ FlushEnds(f)) /\ UNCHANGED <<ask, job, bound, audit>>

WindowStep(x) == observe(x) \/ flush_all(x) \/ aclose(x)

-----------------------------------------------------------------------------
Held(x) == \/ \E w \in Open : x \in w.ids
           \/ \E f \in flushes : f.window # None /\ x \in f.window.ids
           \/ \E y \in Jobs : At(y, "flush_all", "each") /\ \E w \in job[y].todo : x \in w.ids

\* A delivery that was accepted is in one window until that window's last event is
\* dispatched, or is dropped by the closing of the coordinator: never forgotten and
\* never in two dispatches, although a task may take a window that is not its own.
BufferedIsNotForgotten ==
    /\ \A x \in Jobs : ask[x].op = "observe" /\ Ended(x) /\ job[x].out # "refused" =>
           Held(x) \/ x \in lost \/ \E h \in handed : x \in h.with
    /\ \A h, k \in handed : h # k => h.with \cap k.with = {}
    /\ \A h \in handed : \A x \in h.with : ~Held(x) /\ x \notin lost
    /\ lost # {} => shut # None

\* An open window always has something that will take it: its own timer, or the
\* task of one that fired.
OpenWindowsEnd ==
    \A i \in Issues : windows[i] # None =>
        \/ \E t \in timers : t.opened = windows[i].opened
        \/ \E f \in flushes : f.window = None /\ f.timer.issue = i

\* When the call that closed the coordinator returns no task of a timer is left, no
\* timer can start another, and no window is open.
ClosedIsQuiet ==
    shut # None => /\ Open = {} /\ timers = {}
                   /\ Ended(shut) => flushes = {}

-----------------------------------------------------------------------------
(***************************************************************************)
(* Tasks from Slack mentions and from e-mail.  Slack delivers again when   *)
(* the answer is an error or is lost; the poller hands over each unseen    *)
(* mail once, a restarted poller has forgotten which ones it saw.  Both    *)
(* start the workflow whose id is made from the message id.                *)
(***************************************************************************)
CONSTANTS
    Normalised(_),  \* a message id as it appears in a workflow id
    SeenMax,        \* _SEEN_UIDS_MAX
    Tolerance       \* SLACK_TIMESTAMP_TOLERANCE_S

VARIABLES
    running,        \* running workflows: [id, msg]
    begun,          \* workflows ever started: [id, msg, by]
    unseen,         \* mails the mailbox shows as unseen: [uid, msg, sender, addressed, dept, text, subject]
    seen            \* seen[x]: uids poller x remembers

inboundVars == <<running, begun, unseen, seen>>

InboundInit(mix) ==
    /\ running = {} /\ begun = {} /\ unseen = mix.mail
    /\ seen = [x \in Jobs |-> {}]

\* build_inbound_workflow_id: letters and digits of the message id.
InboundId(channel, msg, x) == <<channel, Normalised(msg), None>>

\* start_workflow_idempotent with REJECT_DUPLICATE: a workflow that ever had that
\* id, running or closed, is the answer.
StartIdempotent(x, channel, msg) ==
    LET id == InboundId(channel, msg, x)
    IN  IF \E w \in begun : w.id = id THEN UNCHANGED <<running, begun>>
        ELSE /\ running' = running \cup {[id |-> id, msg |-> msg]}
             /\ begun' = begun \cup {[id |-> id, msg |-> msg, by |-> x]}

WorkflowCloses ==
    /\ \E w \in running : running' = running \ {w}
    /\ UNCHANGED <<begun, unseen, seen>>

-----------------------------------------------------------------------------
\* post_slack_inbound.  ask[x].kind is what the body is about.

\* verify_slack_signature: the time stamp is within the tolerance, either way, and
\* the signature is that of the body under the department's secret.
Signed(x) == ask[x].mac = "good" /\ ask[x].skew \in (-Tolerance)..Tolerance

\* _extract_external_id: the client's message id, else the time stamp of the event.
ExternalId(x) == IF ask[x].msg # None THEN ask[x].msg ELSE ask[x].ts

\* Answers given before anything is awaited.
SlackAnswersAtOnce(x) ==
    /\ Begins(x, "slack") /\ ask[x].kind \in {"broken", "other_event"} /\ Works /\ Quiet
    /\ End(x, IF ask[x].kind = "broken" THEN "400" ELSE "200") /\ UNCHANGED inboundVars

\* url_verification: the signature first, then the challenge is echoed.
SlackHandshake(x) ==
    /\ Begins(x, "slack") /\ ask[x].kind = "handshake" /\ UNCHANGED inboundVars
    /\ IF Signed(x) THEN Works /\ Quiet /\ End(x, "200")
       ELSE BestEffortAudit(x, "inbound_slack_hmac_failed", "denied") /\ End(x, "401")

\* The department, then the signature with its secret, then the message id and
\* the text.
SlackResolves(x) ==
    /\ Begins(x, "slack") /\ ask[x].kind = "mention" /\ UNCHANGED inboundVars
    /\ \/ /\ ~ask[x].known /\ BestEffortAudit(x, "inbound_dept_unresolved", "denied") /\ End(x, "400")
       \/ ask[x].known /\ Works /\ Quiet /\ Goto(x, "verify")
       \/ Fault /\ Quiet /\ End(x, "500")

SlackVerifies(x) ==
    /\ At(x, "slack", "verify") /\ UNCHANGED inboundVars
    /\ \/ ~Signed(x) /\ BestEffortAudit(x, "inbound_slack_hmac_failed", "denied") /\ End(x, "401")
       \/ /\ Signed(x) /\ ExternalId(x) = None
          /\ BestEffortAudit(x, "inbound_bad_request", "denied") /\ End(x, "400")
       \/ /\ Signed(x) /\ ExternalId(x) # None /\ ask[x].empty
          /\ BestEffortAudit(x, "inbound_empty_mention", "ok") /\ End(x, "200")
       \/ Signed(x) /\ ExternalId(x) # None /\ ~ask[x].empty /\ Works /\ Quiet /\ Goto(x, "start")

\* The start goes through, or fails with the workflow started or not; Slack then
\* delivers the event again.
SlackStarts(x) ==
    /\ At(x, "slack", "start") /\ Quiet /\ UNCHANGED <<unseen, seen>>
    /\ \/ Works /\ StartIdempotent(x, "slack", ExternalId(x)) /\ Goto(x, "accept")
       \/ /\ Fault /\ Goto(x, "start_failed")
          /\ StartIdempotent(x, "slack", ExternalId(x)) \/ UNCHANGED <<running, begun>>

SlackStartFailed(x) ==
    /\ At(x, "slack", "start_failed") /\ UNCHANGED inboundVars
    /\ BestEffortAudit(x, "inbound_workflow_start_failed", "error") /\ End(x, "500")

SlackAccepts(x) ==
    /\ At(x, "slack", "accept") /\ UNCHANGED inboundVars
    /\ BestEffortAudit(x, "inbound_workflow_started", "ok") /\ End(x, "202")

-----------------------------------------------------------------------------
\* EmailToTaskPoller.

PollerConnects(x) ==
    /\ Begins(x, "mail") /\ UNCHANGED inboundVars
    /\ \/ Works /\ Quiet /\ Goto(x, "poll")
       \/ Fault /\ Quiet /\ Goto(x, "no_mailbox")

NoMailbox(x) ==
    /\ At(x, "mail", "no_mailbox") /\ End(x, "stopped") /\ UNCHANGED inboundVars
    /\ BestEffortAudit(x, "inbound_email_connect_failed", "error")

\* parse_inbound_email: a mail without a sender is not parsed.
Parses(m) == m.sender # ""

\* The body without its signature, else the subject.
IntentText(m) == IF m.text # "" THEN m.text ELSE m.subject

\* Why a mail is done with before a workflow is started, as the audit trail names it.
Flaw(m) ==
    CASE ~Parses(m) -> "inbound_email_parse_failed"
      [] ~m.addressed -> "inbound_email_recipient_mismatch"
      [] ~m.dept -> "inbound_dept_unresolved"
      [] IntentText(m) = "" -> "inbound_email_empty_body"
      [] OTHER -> None

\* _remember_uid: at the limit any one is forgotten to make room.
Remember(x, uid) ==
    IF Cardinality(seen[x]) < SeenMax THEN seen' = [seen EXCEPT ![x] = @ \cup {uid}]
    ELSE \E old \in seen[x] : seen' = [seen EXCEPT ![x] = (@ \ {old}) \cup {uid}]

\* A mail is fetched and marked as seen, whatever comes of it; a server may be
\* slow to honour the mark and show the mail again.
FetchesMail(x) ==
    /\ At(x, "mail", "poll") /\ Quiet /\ UNCHANGED <<running, begun>>
    /\ \E m \in unseen :
          /\ \/ Works /\ unseen' = unseen \ {m}
             \/ Fault /\ UNCHANGED unseen
          /\ IF m.uid \in seen[x] THEN UNCHANGED <<job, seen>>
             ELSE Remember(x, m.uid) /\ Keep(x, "mail", m)

\* _process_message up to the start: what is wrong with the mail is audited and
\* the mail is done with.
RefusesMail(x) ==
    /\ At(x, "mail", "mail") /\ Flaw(job[x].val) # None /\ UNCHANGED inboundVars /\ Goto(x, "poll")
    /\ BestEffortAudit(x, Flaw(job[x].val), "error")

\* The department resolver fails: the poll ends with an audit row and the mail is
\* not looked at again.
PollFails(x) ==
    /\ At(x, "mail", "mail") /\ Fault /\ Quiet /\ UNCHANGED inboundVars /\ Goto(x, "poll_failed")

PollFailed(x) ==
    /\ At(x, "mail", "poll_failed") /\ Goto(x, "poll") /\ UNCHANGED inboundVars
    /\ BestEffortAudit(x, "inbound_email_poll_failed", "error")

MailStarts(x) ==
    /\ At(x, "mail", "mail") /\ Flaw(job[x].val) = None /\ Quiet /\ UNCHANGED <<unseen, seen>>
    /\ \/ Works /\ StartIdempotent(x, "email", job[x].val.msg) /\ Goto(x, "mail_ok")
       \/ /\ Fault /\ Goto(x, "mail_failed")
          /\ StartIdempotent(x, "email", job[x].val.msg) \/ UNCHANGED <<running, begun>>

MailHandled(x) ==
    /\ ask[x].op = "mail" /\ job[x].pc \in {"mail_ok", "mail_failed"} /\ UNCHANGED inboundVars /\ Goto(x, "poll")
    /\ IF job[x].pc = "mail_ok" THEN BestEffortAudit(x, "inbound_workflow_started", "ok")
       ELSE BestEffortAudit(x, "inbound_workflow_start_failed", "error")

\* The stop event, or the process dies.
PollerStops(x) ==
    /\ At(x, "mail", "poll") /\ unseen = {} /\ Works /\ Quiet
    /\ End(x, "stopped") /\ UNCHANGED inboundVars

PollerDies(x) ==
    /\ ask[x].op = "mail" /\ job[x].pc \notin {"idle", "end"} /\ Fault /\ Quiet
    /\ End(x, "died") /\ UNCHANGED inboundVars

InboundStep(x) ==
    \/ SlackAnswersAtOnce(x) \/ SlackHandshake(x) \/ SlackResolves(x) \/ SlackVerifies(x)
    \/ SlackStarts(x) \/ SlackStartFailed(x) \/ SlackAccepts(x)
    \/ PollerConnects(x) \/ NoMailbox(x) \/ FetchesMail(x) \/ RefusesMail(x) \/ PollFails(x) \/ PollFailed(x)
    \/ MailStarts(x) \/ MailHandled(x) \/ PollerStops(x) \/ PollerDies(x)

\* However often a message is delivered, whatever answers were lost and whether or
\* not its workflow has closed meanwhile, it becomes at most one task.
OneTaskPerMessage == \A v, w \in begun : v.id[1] = w.id[1] /\ v.msg = w.msg => v = w

\* A mention that was answered 202 has had a workflow, started by this delivery or
\* by an earlier one.
AcceptedMeansStarted ==
    \A x \in Jobs : ask[x].op = "slack" /\ job[x].out = "202" =>
        \E w \in begun : w.id = InboundId("slack", ExternalId(x), w.by)

=============================================================================
