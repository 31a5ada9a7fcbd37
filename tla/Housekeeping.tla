---------------------------- MODULE Housekeeping ----------------------------
(***************************************************************************)
(* The jobs that keep house: notifications, the archive of the audit       *)
(* trail, the health of the SSH runners and the repository mappings.  They *)
(* share no table but the log of notifications.                            *)
(***************************************************************************)
EXTENDS Jobs, FiniteSetsExt

(***************************************************************************)
(* NotificationService as the automation worker wires it.  A row of        *)
(* notification_log is inserted before a message is sent; the unique       *)
(* dedup key makes the second caller skip the send.  dispatch_notification *)
(* swallows every error, the alarm of the audit prune raises so that       *)
(* Temporal tries again.                                                   *)
(***************************************************************************)

VARIABLES
    log,            \* dedup keys of notification_log
    delivered       \* messages that reached their channel: [key, by, try]

noteVars == <<log, delivered>>

NoteInit == log = {} /\ delivered = {}

DedupKey(workflow, channel, kind) == <<workflow, channel, kind>>

\* ON CONFLICT DO NOTHING: the insert tells whether the key is new.
Inserted(key) == key \notin log

\* INSERT of the row, before the send; "first" is where the new row leads,
\* "again" where an existing one does.
InsertLog(x, key, first, again) ==
    /\ log' = log \cup {key}
    /\ IF Inserted(key) THEN first ELSE again

\* The post arrives, or it fails; when the answer is lost it did arrive.
Arrives(x, key) == delivered' = delivered \cup {[key |-> key, by |-> x, try |-> job[x].try]}

\* The channels of a completed workflow, in the order they are tried: a failure
\* goes to Slack whatever the department chose; a channel needs its target.
Eligible(x) ==
    LET a == ask[x]
        slack == (a.fails \/ "slack" \in a.channels) /\ a.webhook
        email == (a.fails \/ "email" \in a.channels) /\ a.address
    IN  (IF slack THEN <<"slack">> ELSE <<>>) \o (IF email THEN <<"email">> ELSE <<>>)

\* Success is only told to departments that asked for it.
Gated(x) == ~ask[x].fails /\ ~ask[x].onSuccess

CompletionKey(x) == DedupKey(ask[x].wf, Head(job[x].val), "workflow_completion")

\* The body is rendered before the channels are looked at; a template that does
\* not render is an error like any other and swallowed.
NotifyBegins(x) ==
    /\ Begins(x, "notify")
    /\ \/ Works /\ (IF Gated(x) \/ Eligible(x) = <<>> THEN End(x, "skipped") ELSE Keep(x, "log", Eligible(x)))
       \/ ~Gated(x) /\ Fault /\ End(x, "swallowed")
    /\ UNCHANGED noteVars /\ Quiet

\* The next channel, or the end of the activity: a failure is swallowed.
NextChannel(x) ==
    IF Len(job[x].val) = 1 THEN End(x, "notified")
    ELSE Set(x, [job[x] EXCEPT !.pc = "log", !.val = Tail(@)])

NotifyLogs(x) ==
    /\ At(x, "notify", "log") /\ Quiet /\ UNCHANGED delivered
    /\ \/ /\ Works
          /\ InsertLog(x, CompletionKey(x), Set(x, [job[x] EXCEPT !.pc = "send"]), NextChannel(x))
       \/ \* the insert raises: the other channel is not tried either
          Fault /\ log' \in {log, log \cup {CompletionKey(x)}} /\ End(x, "swallowed")
       \/ Redo(x, "idle", "lost") /\ UNCHANGED log

\* The e-mail adapter the worker wires raises on every call.
NotifySends(x) ==
    /\ At(x, "notify", "send") /\ Quiet /\ UNCHANGED log
    /\ \/ /\ Works /\ NextChannel(x)
          /\ IF Head(job[x].val) = "slack" THEN Arrives(x, CompletionKey(x)) ELSE UNCHANGED delivered
       \/ Fault /\ NextChannel(x) /\ UNCHANGED delivered
       \/ /\ Redo(x, "idle", "lost")
          /\ \/ Head(job[x].val) = "slack" /\ Arrives(x, CompletionKey(x))
             \/ UNCHANGED delivered

\* The last attempt died: the workflow logs it and goes on.
NotifyLost(x) == At(x, "notify", "lost") /\ End(x, "swallowed") /\ Works /\ UNCHANGED noteVars /\ Quiet

NotifyStep(x) == NotifyBegins(x) \/ NotifyLogs(x) \/ NotifySends(x) \/ NotifyLost(x)

\* A workflow's outcome, and an alarm, reaches a channel at most once, however
\* often activities are retried and however many callers there are.
NotifiedAtMostOnce == \A d, e \in delivered : d.key = e.key => d = e

-----------------------------------------------------------------------------
(***************************************************************************)
(* AuditPruneWorkflow: rows older than the retention window are copied to  *)
(* an object of the archive bucket and then deleted.  Time is a number;    *)
(* row r was written at r.at, the run of job x starts at ask[x].now.       *)
(* Runs overlap when one is started by hand or the nightly one is still    *)
(* retrying.                                                               *)
(***************************************************************************)
CONSTANTS
    DefaultRetention,   \* DEFAULT_RETENTION_DAYS
    BatchSize,          \* ARCHIVE_BATCH_SIZE
    DayLength           \* time units of a calendar day

VARIABLES
    rows,               \* rows of audit_events and cost_tracking: [id, at, kind]
    archive,            \* objects of the bucket: [key, rows]
    pruned              \* rows deleted so far (history)

pruneVars == <<rows, archive, pruned>>

PruneInit(mix) == rows = mix.rows /\ archive = {} /\ pruned = {}

Positive(v) == v # None /\ v > 0

\* get_retention_setting: the environment, else the enabled feature flag, else
\* the default; val holds the cutoff from here on.
GetRetentionSetting(x) ==
    /\ Begins(x, "prune") /\ UNCHANGED <<pruneVars, noteVars>> /\ Quiet
    /\ LET a == ask[x] IN
       \/ Positive(a.env) /\ Works /\ Keep(x, "archive", a.now - a.env)
       \/ ~Positive(a.env) /\ Positive(a.flag) /\ Works /\ Keep(x, "archive", a.now - a.flag)
       \/ ~Positive(a.env) /\ ~Positive(a.flag) /\ Works /\ Keep(x, "archive", a.now - DefaultRetention)
       \/ ~Positive(a.env) /\ Fault /\ Keep(x, "archive", a.now - DefaultRetention)
       \/ Redo(x, "idle", "gone")

\* The lookup is outside the try: the workflow fails and nobody is told.
LookupFails(x) == At(x, "prune", "gone") /\ Works /\ End(x, "raised") /\ UNCHANGED <<pruneVars, noteVars>> /\ Quiet

Old(x, kind) == {r \in rows : r.kind = kind /\ r.at < job[x].val}

\* ORDER BY created_at, id.
Precedes(r, s) == r.at < s.at \/ (r.at = s.at /\ r.id < s.id)

\* The rows after the last one read, one page of them.
Page(x, seen) ==
    LET rest == {r \in Old(x, "audit") : \A g \in seen : Precedes(g, r)}
    IN  {r \in rest : Cardinality({s \in rest : Precedes(s, r)}) < BatchSize}

\* archive_audit_to_minio reads page after page; a short page is the last one,
\* and nothing is written when there was nothing to archive.
ArchiveReads(x) ==
    /\ ask[x].op = "prune" /\ job[x].pc \in {"archive", "page"}
    /\ UNCHANGED <<pruneVars, noteVars>> /\ Quiet
    /\ LET seen == IF job[x].pc = "archive" THEN {} ELSE job[x].got
           page == Page(x, seen)
           all == seen \cup page
       IN  \/ /\ Works
              /\ Set(x, [job[x] EXCEPT !.got = all,
                            !.try = IF Cardinality(page) < BatchSize /\ all = {} THEN 1 ELSE @,
                            !.pc = IF Cardinality(page) = BatchSize THEN "page"
                                   ELSE IF all = {} THEN "delete" ELSE "put"])
           \/ Redo(x, "archive", "alarm")

\* Mutant: the key names the day only.
DayKey(x) == <<job[x].val \div DayLength, None>>

\* _build_archive_key: the day of the cutoff and a hash of the cutoff, which no
\* two runs share.
ArchiveKey(x) == <<job[x].val \div DayLength, x>>

Put(key, S) == archive' = {o \in archive : o.key # key} \cup {[key |-> key, rows |-> S]}

\* _minio_put_object replaces the object; when the answer is lost it did so too.
ArchivePuts(x) ==
    /\ At(x, "prune", "put") /\ UNCHANGED <<rows, pruned, noteVars>> /\ Quiet
    /\ \/ Works /\ Put(ArchiveKey(x), job[x].got) /\ Goto(x, "delete")
       \/ Redo(x, "archive", "alarm") /\ (Put(ArchiveKey(x), job[x].got) \/ UNCHANGED archive)

\* delete_audit_older_than: one transaction over both tables.
DeleteOld(x) ==
    LET gone == Old(x, "audit") \cup Old(x, "cost")
    IN  rows' = rows \ gone /\ pruned' = pruned \cup gone

PruneDeletes(x) ==
    /\ At(x, "prune", "delete") /\ UNCHANGED <<archive, noteVars>> /\ Quiet
    /\ \/ Works /\ DeleteOld(x) /\ End(x, "pruned")
       \/ Redo(x, "delete", "alarm") /\ (DeleteOld(x) \/ UNCHANGED <<rows, pruned>>)

\* The default run id is the same for every run of the schedule.
AlarmKey == DedupKey("audit-prune-cron", "slack", "audit_prune_failed")

\* notify_audit_prune_failed: a failed attempt is retried and then finds the row
\* of the attempt before.
AlarmLogs(x) ==
    /\ At(x, "prune", "alarm") /\ UNCHANGED <<pruneVars, delivered>> /\ Quiet
    /\ \/ Works /\ InsertLog(x, AlarmKey, Set(x, [job[x] EXCEPT !.pc = "alarm_send"]), End(x, "failed"))
       \/ Redo(x, "alarm", "unheard") /\ log' \in {log, log \cup {AlarmKey}}

AlarmSends(x) ==
    /\ At(x, "prune", "alarm_send") /\ UNCHANGED <<pruneVars, log>> /\ Quiet
    /\ \/ Works /\ Arrives(x, AlarmKey) /\ End(x, "failed")
       \/ Redo(x, "alarm", "unheard") /\ (Arrives(x, AlarmKey) \/ UNCHANGED delivered)

\* _notify_failure swallows its own failure; the workflow raises the first one.
AlarmUnheard(x) == At(x, "prune", "unheard") /\ Works /\ End(x, "failed") /\ UNCHANGED <<pruneVars, noteVars>> /\ Quiet

PruneStep(x) ==
    \/ GetRetentionSetting(x) \/ LookupFails(x) \/ ArchiveReads(x) \/ ArchivePuts(x)
    \/ PruneDeletes(x) \/ AlarmLogs(x) \/ AlarmSends(x) \/ AlarmUnheard(x)

\* No audit row is deleted that no object of the archive holds: not when an
\* attempt is repeated over fewer rows, not when runs overlap.
PrunedIsArchived ==
    \A r \in pruned : r.kind = "audit" => \E o \in archive : r \in o.rows

-----------------------------------------------------------------------------
(***************************************************************************)
(* SSHHealthcheckCronWorkflow.  The schedule starts one run after the      *)
(* other; the state a run returns is passed to the next one only when the  *)
(* starter does so (ask[x].carry), which the schedule of the admin API     *)
(* does not.  Job x is the schedule, job[x].todo the runs still to come.   *)
(***************************************************************************)
CONSTANTS
    UnhealthyAfter,     \* UNHEALTHY_THRESHOLD
    HealthyAfter        \* RECOVERY_THRESHOLD

VARIABLES
    health,             \* the state of the last run: [fails, oks, ok]
    checks,             \* what the probes said, in order (history)
    runner,             \* status the runner's row shows
    missed              \* a status update was lost or went to another row (history)

healthVars == <<health, checks, runner, missed>>

FreshHealth == [fails |-> 0, oks |-> 0, ok |-> TRUE]

HealthInit == health = FreshHealth /\ checks = <<>> /\ runner = "healthy" /\ missed = FALSE

\* _deserialize_state: no state passed means a fresh one.
Deserialized(x) == IF ask[x].carry THEN health ELSE FreshHealth

HandleSuccess(s) == [s EXCEPT !.fails = 0, !.oks = IF s.ok THEN 0 ELSE @ + 1]

HandleFailure(s) == [s EXCEPT !.fails = @ + 1, !.oks = 0]

\* The state after a probe, the threshold rules included.
Judged(s, healthy) ==
    LET t == IF healthy THEN HandleSuccess(s) ELSE HandleFailure(s)
    IN  IF ~t.ok /\ t.oks >= HealthyAfter THEN FreshHealth
        ELSE IF t.ok /\ t.fails >= UnhealthyAfter THEN [t EXCEPT !.ok = FALSE, !.oks = 0]
        ELSE t

\* One run: the probe answers, or its only attempt fails and the host is not
\* known (got is empty then).  The row of the probe and the alerts are sent on
\* a best-effort basis and change nothing here.
HealthRuns(x) ==
    /\ ask[x].op = "health" /\ job[x].pc \in {"idle", "wait"} /\ Quiet
    /\ Len(checks) < ask[x].runs
    /\ \E healthy \in BOOLEAN, known \in BOOLEAN :
          /\ IF known THEN Works ELSE ~healthy /\ Fault
          /\ checks' = Append(checks, healthy)
          /\ health' = Judged(Deserialized(x), healthy)
          /\ IF health'.ok = Deserialized(x).ok THEN Goto(x, "wait")
             ELSE Gather(x, "update", IF known THEN {"host"} ELSE {})
    /\ UNCHANGED <<runner, missed>>

\* The activity update_ssh_runner_status, of which the repository has the name
\* only: it writes the row of the host it is given.
UpdateSshRunnerStatus(hosts) ==
    IF hosts = {} THEN missed' = TRUE /\ UNCHANGED runner
    ELSE runner' = (IF health.ok THEN "healthy" ELSE "unhealthy") /\ UNCHANGED missed

\* _mark_unhealthy and _restore_healthy call it for the probed host: three
\* attempts, which a worker that does not know the activity fails as well, then
\* the failure is logged.
UpdatesStatus(x) ==
    /\ At(x, "health", "update") /\ Quiet /\ UNCHANGED <<health, checks>>
    /\ \/ Works /\ Goto(x, "wait") /\ UpdateSshRunnerStatus(job[x].got)
       \/ /\ Redo(x, "update", "wait") /\ UNCHANGED runner
          /\ missed' = (missed \/ job[x].try = MaxAttempts)

HealthEnds(x) ==
    /\ At(x, "health", "wait") /\ Len(checks) = ask[x].runs /\ Works /\ Quiet
    /\ End(x, "checked") /\ UNCHANGED healthVars

HealthStep(x) == HealthRuns(x) \/ UpdatesStatus(x) \/ HealthEnds(x)

\* The last i for which the n probes up to i all said v; 0 when there is none.
LastRun(n, v) ==
    Max({0} \cup {i \in n..Len(checks) : \A k \in 0..(n - 1) : checks[i - k] = v})

\* With the state carried over, the runner counts as unhealthy exactly when three
\* failures in a row came after the last two successes in a row, and its row
\* says so unless an update was lost.
HealthFollowsChecks ==
    \A x \in Jobs : ask[x].op = "health" /\ ask[x].carry =>
        /\ health.ok = (LastRun(HealthyAfter, TRUE) >= LastRun(UnhealthyAfter, FALSE))
        /\ job[x].pc = "wait" /\ ~missed => (runner = "healthy") = health.ok

-----------------------------------------------------------------------------
(***************************************************************************)
(* sync_repo_mappings: an administrator compares the mapping of a          *)
(* department with a scan of its Bitbucket workspace and, on request,      *)
(* replaces it.  The scan, the read and the write are awaits.  A row's     *)
(* meta stands for its workspace, Jira project and default branch: "given" *)
(* by an operator, or "slug" when each only repeats the repository's slug. *)
(***************************************************************************)
VARIABLES
    workspace,      \* what a scan returns: set of [slug, name]
    mapping,        \* automation.repo_mappings of the department: set of [slug, meta]
    chosen,         \* the mapping at the start (history)
    scans           \* the slugs of the scans that were applied (history)

syncVars == <<workspace, mapping, chosen, scans>>

Slugs(S) == {m.slug : m \in S}

SyncInit(mix) ==
    /\ workspace = mix.workspace /\ mapping = mix.mapping /\ chosen = mix.mapping
    /\ scans = {Slugs(mix.mapping)}

\* 401 for a bad token, 403 with an audit row for a role that is too low.
SyncRefused(x) ==
    /\ At(x, "sync", "idle") /\ ask[x].role # "admin" /\ UNCHANGED syncVars
    /\ IF ask[x].role = "nobody" THEN Works /\ Quiet ELSE BestEffortAudit(x, "rbac_denied", "denied")
    /\ End(x, IF ask[x].role = "nobody" THEN "401" ELSE "403")

\* The scanner answers, or it fails: 502 with an audit row.
SyncScans(x) ==
    /\ At(x, "sync", "idle") /\ ask[x].role = "admin" /\ UNCHANGED syncVars
    /\ \/ Works /\ Keep(x, "read", workspace) /\ Quiet
       \/ Fault /\ Goto(x, "scan_failed") /\ Quiet

ScanFailed(x) ==
    /\ At(x, "sync", "scan_failed") /\ End(x, "502") /\ UNCHANGED syncVars
    /\ BestEffortAudit(x, "repo_mappings_scan_failed", "error")

\* The registry reads slugs only and repeats them as names.
list_repo_mappings == {[slug |-> s, name |-> s] : s \in Slugs(mapping)}

\* One transaction deletes every row of the department and inserts bare ones.
update_repo_mappings(new) == mapping' = {[slug |-> s, meta |-> "slug"] : s \in Slugs(new)}

\* The registry is read; a failure is a 502 without an audit row.
SyncReads(x) ==
    /\ At(x, "sync", "read") /\ UNCHANGED syncVars /\ Quiet
    /\ \/ Works /\ Gather(x, IF ask[x].apply THEN "write" ELSE "report", list_repo_mappings)
       \/ Fault /\ End(x, "502")

\* compute_repo_mapping_diff and _build_new_mapping_list: what the scan no longer
\* shows goes, what is new comes with the scan's name, the rest as it was read.
NewMappings(scanned, current) ==
    {m \in current : m.slug \in Slugs(scanned)} \cup {s \in scanned : s.slug \notin Slugs(current)}

SyncWrites(x) ==
    /\ At(x, "sync", "write") /\ UNCHANGED <<workspace, chosen>> /\ Quiet
    /\ LET applies == update_repo_mappings(NewMappings(job[x].val, job[x].got)) /\ scans' = scans \cup {Slugs(job[x].val)}
       IN  \/ Works /\ applies /\ Goto(x, "report")
           \/ Fault /\ applies /\ End(x, "502")
           \/ Fault /\ UNCHANGED <<mapping, scans>> /\ End(x, "502")

SyncReports(x) ==
    /\ At(x, "sync", "report") /\ End(x, "200") /\ UNCHANGED syncVars
    /\ BestEffortAudit(x, "repo_mappings_synced", "ok")

SyncStep(x) ==
    SyncRefused(x) \/ SyncScans(x) \/ ScanFailed(x) \/ SyncReads(x) \/ SyncWrites(x) \/ SyncReports(x)

\* Somebody creates or deletes a repository.
WorkspaceChanges == workspace' \in {w \in SUBSET workspace : w # workspace} /\ UNCHANGED <<mapping, chosen, scans>>

\* However syncs overlap and whatever answer is lost, the mapping lists the
\* repositories of one scan, never a mixture of two, and either nothing was applied
\* and an operator's rows are untouched or every row is one a sync inserted.
MappingIsOneScan ==
    /\ Slugs(mapping) \in scans
    /\ mapping = chosen \/ \A m \in mapping : m.meta = "slug"

=============================================================================
