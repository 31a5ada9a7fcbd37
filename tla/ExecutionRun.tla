----------------------------- MODULE ExecutionRun -----------------------------
(***************************************************************************)
(* Execution runs on the SSH runner host                                   *)
(* (workers/execution-runner-worker/src): ExecutionRunWorkflow with its    *)
(* SSH and Docker paths, LegacyExecutionRunWorkflow with its git push, and *)
(* the hourly WorkspaceCleanupSchedulerWorkflow that prunes the same disk. *)
(*                                                                         *)
(* All of them share ONE host (the single-runner contract): its workspace  *)
(* directories, its containers, the container `docker ps -lq` answers and  *)
(* the global git credential helper.  An activity is one action, or two    *)
(* (start, end) when others can act on the host while it is running.  What *)
(* a remote call answers, and whether the worker executing it is lost, is  *)
(* a choice.  A directory takes one unit of disk.                          *)
(***************************************************************************)
EXTENDS Naturals, Sequences, FiniteSets

CONSTANTS
    Runs,            \* execution workflows
    Plans,           \* the inputs the runs may be started with, [Runs -> InputShape]
    OldDirs,         \* workspaces earlier runs left on the host, oldest first
    MaxRetries,      \* _HEALTHCHECK_MAX_RETRIES, 6 in the code
    MaxAttempts,     \* maximum_attempts of the run activities, 3 in the code
    Quota,           \* workspace_quota_mb, in directories
    EvictAt,         \* RUNNER_DISK_EVICT_PCT, in directories
    MaxPrunes,       \* MAX_PRUNES_PER_TICK, 50 in the code
    None

Policies == {"always", "on_success", "delete_on_success", "never"}

\* The fields of ExecutionRunWorkflowInput and ExecutionRunInput the bodies
\* branch on.  runner: the caller names the runner.  keyed: parent_workflow_id is
\* an issue key, so a workspace path can be built from it.  env: every name in the
\* environment of the command is a legal one.
InputShape ==
    [kind: {"run", "legacy"}, dept: BOOLEAN, runner: BOOLEAN, keyed: BOOLEAN,
     docker: BOOLEAN, env: BOOLEAN, quota: BOOLEAN, push: BOOLEAN, policy: Policies]

\* The legacy workflow's own should_cleanup knows no delete_on_success.
ASSUME PlansAssumption ==
    /\ Plans \subseteq [Runs -> InputShape]
    /\ \A plan \in Plans, r \in Runs:
          plan[r].kind = "legacy" => plan[r].policy # "delete_on_success"
ASSUME BoundsAssumption ==
    /\ {MaxRetries, MaxAttempts, Quota, EvictAt, MaxPrunes} \subseteq Nat
    /\ MaxAttempts > 0
    /\ EvictAt > 0      \* _resolve_thresholds takes 1 to 99 percent

OldNames == {OldDirs[i]: i \in DOMAIN OldDirs}
Ids == Runs \X (1..MaxAttempts)

\* A directory is listed once, and no run has taken the name of an older one.
ASSUME NamesAssumption ==
    /\ None \notin Runs \cup Ids
    /\ OldDirs \in Seq(OldNames) /\ OldNames \cap Runs = {}
    /\ \A i, j \in DOMAIN OldDirs: OldDirs[i] = OldDirs[j] => i = j

VARIABLES
    inp,       \* the input of each run
    pc,        \* where the coroutine of each run is
    target,    \* host the next health probe goes to
    tries,     \* health probes made, later attempts of the run activity
    exit,      \* exit code of the command
    status,    \* result reported (or "error": the workflow raised)
    stored,    \* logs of the last attempt are in MinIO
    cid,       \* container id docker_run_container returned
    dirs,      \* host: workspaces, oldest first
    conts,     \* host: containers, <<run, attempt>>
    last,      \* host: what docker ps -lq answers
    helper,    \* host: whose credentials the global git helper holds
    tick,      \* the cleanup scheduler's coroutine
    faults,    \* history: faults that befell a run
    execs,     \* history: how often the command was started
    cleaned,   \* history: runs whose workspace their own cleanup removed
    foreign,   \* history: runs that removed another run's container
    overlap    \* history: two docker runs were under way at once

hostVars == <<dirs, conts, last, helper>>
runVars == <<inp, pc, target, tries, exit, status, stored, cid>>
history == <<faults, execs, cleaned, foreign, overlap>>
vars == <<runVars, hostVars, tick, history>>

Goto(r, l) == pc' = [pc EXCEPT ![r] = l]
Report(r, s) == status' = [status EXCEPT ![r] = s]
End(r, s) == Goto(r, "done") /\ Report(r, s)
Fault(r, f) == faults' = [faults EXCEPT ![r] = @ \cup {f}]
InDirs(d) == \E i \in 1..Len(dirs): dirs[i] = d

\* A listing after rm -rf of d.
Without(s, d) ==
    IF \E i \in 1..Len(s): s[i] = d
    THEN LET at == CHOOSE i \in 1..Len(s): s[i] = d
         IN [i \in 1..(Len(s) - 1) |-> IF i < at THEN s[i] ELSE s[i + 1]]
    ELSE s

-----------------------------------------------------------------------------
\* What the remote calls answer.  A helper turns the answers of the calls it
\* makes into its own; every exception path ends in one of them.

fetch_runners_answers == {"row", "no_row", "db_error"}

\* Only a department that has no active runner is an error of its own.
resolve_runner_answers ==
    {CASE a = "row" -> "assigned" [] a = "no_row" -> "none_assigned" [] a = "db_error" -> "failed":
        a \in fetch_runners_answers}

tcp_probe_answers == {"open", "refused"}
ssh_healthcheck_answers ==
    {IF a = "open" THEN "healthy" ELSE "down": a \in tcp_probe_answers} \cup {"activity_failed"}

\* du over SSH; a failed measurement is usage unknown, which passes.
du_answers == {"number", "garbage", "ssh_error"}
disk_usage_answers == {IF a = "number" THEN "measured" ELSE "unknown": a \in du_answers}

read_kv2_answers == {"secret", "missing", "vault_error"}
vault_answers == {IF a = "secret" THEN "credential" ELSE "unavailable": a \in read_kv2_answers}

ssh_session_answers == {"zero", "nonzero", "timeout", "unreachable"}

bucket_answers == {"exists", "error"}
put_answers == {IF b = "exists" THEN p ELSE "error": b \in bucket_answers, p \in {"stored", "error"}}

\* A MinIO error is a refused upload; any other exception goes through.
upload_answers == {IF a = "stored" THEN "stored" ELSE "refused": a \in put_answers} \cup {"raised"}

daemon_answers == {"healthy", "down"}
build_answers == {"built", "failed", "raised"}
docker_exec_answers == {"zero", "nonzero", "ssh_error"}
\* docker run may fail before it has made a container: no such image, a bad mount.
docker_create_answers == {"created", "not_created"}

\* docker rm -f of the id; errors are logged and swallowed.
container_removal_answers == {"removed", "kept"}
\* rm -rf of the workspace, after the path was checked.
workspace_removal_answers == {"removed", "kept"}

\* The activity apply_cleanup_policy: without a credential nothing is removed.
apply_cleanup_answers ==
    {IF v = "credential" THEN w ELSE "kept" : v \in vault_answers, w \in workspace_removal_answers}

\* The legacy workflow's clean-up sends rm and does not wait for it; a key that
\* cannot be read ends it quietly.
key_answers == {"rsa", "ed25519", "ecdsa", "unreadable"}
ssh_cleanup_answers ==
    {IF k = "unreadable" THEN "kept" ELSE w : k \in key_answers, w \in workspace_removal_answers}

fetch_credential_answers == read_kv2_answers
execute_on_ssh_answers == {"ran", "not_run", "cut_off"}

\* Nothing is configured without a credential; a session that is cut off may
\* have configured the helper already.
inject_answers ==
    {CASE f # "secret" \/ x = "not_run" -> "refused"
       [] x = "ran" -> "configured"
       [] x = "cut_off" -> "half_configured":
        f \in fetch_credential_answers, x \in execute_on_ssh_answers}
cleanup_credential_answers == {IF x = "ran" THEN "cleared" ELSE "kept": x \in execute_on_ssh_answers}

df_answers == {"number", "garbage"}
list_answers == {"listing", "failed"}
\* A path outside the base path and an SSH session that fails are failures; an rm
\* that fails is not: the shell command answers FREED=0, which is read as success.
prune_answers == {"pruned", "rm_failed", "unsafe", "ssh_error"}

-----------------------------------------------------------------------------
\* _derive_workdir: the workspace is derived from the resolved base path and
\* the issue key, otherwise the input's (unset) workdir stands.
Workdir(r) ==
    IF inp[r].kind = "legacy" \/ (target[r] = "assigned" /\ inp[r].keyed)
    THEN r ELSE None

normalize_policy(p) == IF p = "delete_on_success" THEN "on_success" ELSE p

should_cleanup(p, e) == p = "always" \/ (p = "on_success" /\ e = "zero")

\* The Docker path compares the raw policy: delete_on_success is unknown there.
should_perform_cleanup(p, succeeded) ==
    p = "always" \/ (p = "on_success" /\ succeeded)

-----------------------------------------------------------------------------
Init ==
    /\ inp \in Plans
    /\ pc = [r \in Runs |-> IF inp[r].kind = "legacy" THEN "vault" ELSE "resolve"]
    /\ target = [r \in Runs |-> "env"]
    /\ tries = [r \in Runs |-> 0]
    /\ exit = [r \in Runs |-> "none"]
    /\ status = [r \in Runs |-> "none"]
    /\ stored = [r \in Runs |-> FALSE]
    /\ cid = [r \in Runs |-> None]
    /\ dirs = OldDirs
    /\ conts = {} /\ last = None /\ helper = None
    /\ tick = [pc |-> "idle", used |-> 0, probed |-> 0, list |-> <<>>, i |-> 1,
               pruned |-> {}, failed |-> {}]
    /\ faults = [r \in Runs |-> {}]
    /\ execs = [r \in Runs |-> 0]
    /\ cleaned = {} /\ foreign = {} /\ overlap = FALSE

\* resolve_runner and _resolve_runner: a department without an active runner
\* fails the workflow, any other failure falls back to the default runner.  A
\* runner the caller names is taken as it is.
resolve_runner(r) ==
    /\ pc[r] = "resolve"
    /\ IF ~inp[r].dept \/ inp[r].runner
       THEN Goto(r, "probe") /\ UNCHANGED <<target, status>>
       ELSE \E answer \in resolve_runner_answers:
               IF answer = "none_assigned"
               THEN End(r, "error") /\ UNCHANGED target
               ELSE /\ target' = IF answer = "assigned"
                                 THEN [target EXCEPT ![r] = "assigned"] ELSE target
                    /\ Goto(r, "probe")
                    /\ UNCHANGED status
    /\ UNCHANGED <<inp, tries, exit, stored, cid, hostVars, tick, history>>

\* Mutant: the attempt counter wraps around instead of ending the wait.
wait_for_healthy_runner_Wraps(r) ==
    /\ pc[r] = "probe"
    /\ \E healthy \in BOOLEAN:
          IF healthy
          THEN Goto(r, "quota") /\ tries' = [tries EXCEPT ![r] = 1]
          ELSE tries' = [tries EXCEPT ![r] = (@ + 1) % (MaxRetries + 1)] /\ UNCHANGED pc
    /\ UNCHANGED <<inp, target, status, exit, stored, cid, hostVars, tick, history>>

\* _wait_for_healthy_runner and ssh_healthcheck.  A failed activity leaves no
\* host in the answer, and the loop probes "unknown" from then on.
wait_for_healthy_runner(r) ==
    /\ pc[r] = "probe"
    /\ \E answer \in ssh_healthcheck_answers:
          IF answer = "healthy"
          THEN /\ target[r] # "unknown"
               /\ Goto(r, "quota")
               /\ tries' = [tries EXCEPT ![r] = 1]
               /\ UNCHANGED <<target, status>>
          ELSE /\ target' = IF answer = "activity_failed"
                            THEN [target EXCEPT ![r] = "unknown"] ELSE target
               /\ IF tries[r] >= MaxRetries
                  THEN End(r, "unreachable") /\ UNCHANGED tries
                  ELSE tries' = [tries EXCEPT ![r] = @ + 1] /\ UNCHANGED <<pc, status>>
    /\ UNCHANGED <<inp, exit, stored, cid, hostVars, tick, history>>

\* Only a department with a quota is measured.
over_quota(r, usage) ==
    inp[r].quota /\ inp[r].dept /\ usage = "measured" /\ Len(dirs) > Quota

\* _enforce_disk_quota and check_disk_quota: only a usage that was measured
\* and lies above the cap stops the run.
enforce_disk_quota(r) ==
    /\ pc[r] = "quota"
    /\ \E usage \in disk_usage_answers:
          IF over_quota(r, usage)
          THEN End(r, "quota")
          ELSE /\ Goto(r, CASE inp[r].kind = "legacy" -> "legacy"
                            [] inp[r].docker -> "daemon"
                            [] OTHER -> "ssh")
               /\ UNCHANGED status
    /\ UNCHANGED <<inp, target, tries, exit, stored, cid, hostVars, tick, history>>

-----------------------------------------------------------------------------
\* The retry policy of an activity that raised or whose worker was lost.
RetryOrRaise(r, start, raised) ==
    IF tries[r] < MaxAttempts
    THEN Goto(r, start) /\ tries' = [tries EXCEPT ![r] = @ + 1] /\ UNCHANGED status
    ELSE Goto(r, raised) /\ Report(r, "error") /\ UNCHANGED tries

Start(r) == execs' = [execs EXCEPT ![r] = @ + 1]

\* ssh_run_test up to the blocking SSH session: Vault lookup, mkdir, command.  A
\* bad name in the environment raises, on every attempt.
ssh_run_test(r) ==
    /\ pc[r] = "ssh"
    /\ \E answer \in vault_answers:
          CASE answer = "unavailable" ->
                 Goto(r, "cleanup") /\ Report(r, "failed") /\ UNCHANGED <<tries, dirs, execs>>
            [] answer = "credential" /\ ~inp[r].env ->
                 RetryOrRaise(r, "ssh", "done") /\ UNCHANGED <<dirs, execs>>
            [] answer = "credential" /\ inp[r].env ->
                 /\ dirs' = IF Workdir(r) # None /\ ~InDirs(r) THEN Append(dirs, r) ELSE dirs
                 /\ Start(r)
                 /\ Goto(r, "ssh_wait")
                 /\ UNCHANGED <<tries, status>>
    /\ UNCHANGED <<inp, target, exit, stored, cid, conts, last, helper, tick,
                   faults, cleaned, foreign, overlap>>

\* Mutant: a failed upload does not spoil a passed run.
ssh_status_NoUpload(how, up) ==
    CASE how = "zero" -> "passed" [] how = "timeout" -> "timeout" [] OTHER -> "failed"

\* The status a finished SSH session maps to, uploads included.
ssh_status(how, up) ==
    CASE how = "zero" /\ up = "stored" -> "passed"
      [] how = "timeout" -> "timeout"
      [] OTHER -> "failed"

\* ssh_run_test from the end of the session: exit code, uploads, result.  An
\* upload that raises fails the attempt, and the retry runs the command again.
ssh_run_test_result(r) ==
    /\ pc[r] = "ssh_wait"
    /\ \E how \in ssh_session_answers, up \in upload_answers:
          IF up = "raised"
          THEN /\ RetryOrRaise(r, "ssh", "done")
               /\ Fault(r, "upload")
               /\ UNCHANGED <<exit, stored>>
          ELSE /\ exit' = [exit EXCEPT ![r] = IF how \in {"zero", "nonzero"} THEN how ELSE "none"]
               /\ stored' = [stored EXCEPT ![r] = (up = "stored")]
               /\ Report(r, ssh_status(how, up))
               /\ Goto(r, "cleanup")
               /\ UNCHANGED <<tries, faults>>
    /\ UNCHANGED <<inp, target, cid, dirs, conts, last, helper, tick,
                   execs, cleaned, foreign, overlap>>

\* The worker executing a long activity is lost; Temporal times the attempt out.
worker_lost(r) ==
    /\ pc[r] \in {"ssh_wait", "docker_wait", "docker_refused", "legacy_wait"}
    /\ CASE pc[r] = "ssh_wait" -> RetryOrRaise(r, "ssh", "done")
         [] pc[r] \in {"docker_wait", "docker_refused"} ->
               RetryOrRaise(r, "docker", "docker_cleanup")
         [] OTHER -> RetryOrRaise(r, "legacy", "done")
    /\ Fault(r, "lost")
    /\ UNCHANGED <<inp, target, exit, stored, cid, dirs, conts, last, helper, tick,
                   execs, cleaned, foreign, overlap>>

-----------------------------------------------------------------------------
\* _run_docker_chain, first step: an unhealthy daemon is the result.
docker_daemon(r) ==
    /\ pc[r] = "daemon"
    /\ \E answer \in daemon_answers:
          IF answer = "healthy"
          THEN Goto(r, "build") /\ UNCHANGED status
          ELSE Goto(r, "cleanup") /\ Report(r, "failed")
    /\ UNCHANGED <<inp, target, tries, exit, stored, cid, hostVars, tick, history>>

\* Second step: a failed build is the result, a build activity that raises
\* ends the workflow before any cleanup.
docker_build(r) ==
    /\ pc[r] = "build"
    /\ \E answer \in build_answers:
          CASE answer = "built" -> Goto(r, "docker") /\ UNCHANGED status
            [] answer = "failed" -> Goto(r, "cleanup") /\ Report(r, "failed")
            [] answer = "raised" -> End(r, "error")
    /\ UNCHANGED <<inp, target, tries, exit, stored, cid, hostVars, tick, history>>

\* docker_run_container up to the blocking docker run, which makes a container or
\* fails without one.
docker_run_container(r) ==
    /\ pc[r] = "docker"
    /\ \E answer \in vault_answers, create \in docker_create_answers:
          CASE answer = "unavailable" ->
                 /\ exit' = [exit EXCEPT ![r] = "nonzero"]
                 /\ Report(r, "failed")
                 /\ Goto(r, "docker_cleanup")
                 /\ UNCHANGED <<conts, last, execs, overlap, faults>>
            [] answer = "credential" /\ create = "not_created" ->
                 /\ Goto(r, "docker_refused")
                 /\ Fault(r, "no_container")
                 /\ UNCHANGED <<exit, status, conts, last, execs, overlap>>
            [] answer = "credential" /\ create = "created" ->
                 /\ Start(r)
                 /\ conts' = conts \cup {<<r, tries[r]>>}
                 /\ last' = <<r, tries[r]>>
                 /\ overlap' = (overlap \/ \E q \in Runs \ {r}: pc[q] = "docker_wait")
                 /\ Goto(r, "docker_wait")
                 /\ UNCHANGED <<exit, status, faults>>
    /\ UNCHANGED <<inp, target, tries, stored, cid, dirs, helper, tick, cleaned, foreign>>

\* What docker ps -lq may answer: the container created last.
docker_ps(r) == {last}

\* docker_run_container from the end of docker run: the container id is asked
\* for with docker ps -lq, whatever the exit code; an SSH error leaves it empty.
docker_run_result(r) ==
    /\ pc[r] \in {"docker_wait", "docker_refused"}
    /\ \E how \in docker_exec_answers, id \in docker_ps(r) \cup {None}:
          /\ pc[r] = "docker_refused" => how # "zero"
          /\ exit' = [exit EXCEPT ![r] = IF how = "zero" THEN "zero" ELSE "nonzero"]
          /\ Report(r, IF how = "zero" THEN "passed" ELSE "failed")
          /\ how = "ssh_error" => id = None
          /\ cid' = [cid EXCEPT ![r] = id]
          /\ IF id = None THEN Fault(r, "no_id") ELSE UNCHANGED faults
    /\ Goto(r, "docker_cleanup")
    /\ UNCHANGED <<inp, target, tries, stored, dirs, conts, last, helper, tick,
                   execs, cleaned, foreign, overlap>>

\* docker_cleanup_container acts when the policy says so.
docker_cleanup_guard(r) ==
    should_perform_cleanup(inp[r].policy, status[r] = "passed")

\* docker_cleanup_container in the finally block of _run_docker_chain.
docker_cleanup_container(r) ==
    /\ pc[r] = "docker_cleanup"
    /\ IF docker_cleanup_guard(r) /\ cid[r] # None
       THEN \E answer \in container_removal_answers:
               IF answer = "removed"
               THEN /\ conts' = conts \ {cid[r]}
                    /\ foreign' = IF cid[r][1] # r /\ cid[r] \in conts
                                  THEN foreign \cup {r} ELSE foreign
                    /\ UNCHANGED faults
               ELSE Fault(r, "not_removed") /\ UNCHANGED <<conts, foreign>>
       ELSE UNCHANGED <<conts, foreign, faults>>
    /\ Goto(r, IF status[r] = "error" THEN "done" ELSE "cleanup")
    /\ UNCHANGED <<inp, target, tries, exit, status, stored, cid, dirs, last, helper, tick,
                   execs, cleaned, overlap>>

\* _apply_cleanup_policy and apply_cleanup_policy: best effort, last step.
apply_cleanup_policy(r) ==
    /\ pc[r] = "cleanup"
    /\ \E answer \in apply_cleanup_answers:
          IF /\ should_cleanup(normalize_policy(inp[r].policy), exit[r])
             /\ Workdir(r) # None /\ answer = "removed"
          THEN dirs' = Without(dirs, r) /\ cleaned' = cleaned \cup {r}
          ELSE UNCHANGED <<dirs, cleaned>>
    /\ Goto(r, "done")
    /\ UNCHANGED <<inp, target, tries, exit, status, stored, cid, conts, last, helper,
                   tick, faults, execs, foreign, overlap>>

-----------------------------------------------------------------------------
\* LegacyExecutionRunWorkflow: Vault lookup; its failure ends the workflow.
vault_fetch_ssh_credentials(r) ==
    /\ pc[r] = "vault"
    /\ \E answer \in vault_answers:
          IF answer = "credential"
          THEN /\ Goto(r, "quota")
               /\ tries' = [tries EXCEPT ![r] = 1]
               /\ dirs' = Append(dirs, r)      \* the caller prepared the workspace
               /\ UNCHANGED status
          ELSE End(r, "error") /\ UNCHANGED <<tries, dirs>>
    /\ UNCHANGED <<inp, target, exit, stored, cid, conts, last, helper, tick, history>>

\* ssh_connect_and_run as the legacy workflow uses it, start of the session.
ssh_connect_and_run(r) ==
    /\ pc[r] = "legacy"
    /\ Start(r)
    /\ Goto(r, "legacy_wait")
    /\ UNCHANGED <<inp, target, tries, exit, status, stored, cid, dirs, conts, last, helper, tick,
                   faults, cleaned, foreign, overlap>>

\* Its end: an SSH error raises and is retried.
ssh_connect_and_run_result(r) ==
    /\ pc[r] = "legacy_wait"
    /\ \E how \in ssh_session_answers:
          IF how \in {"zero", "nonzero"}
          THEN /\ exit' = [exit EXCEPT ![r] = how]
               /\ Goto(r, IF inp[r].push /\ inp[r].dept THEN "inject" ELSE "upload")
               /\ UNCHANGED <<tries, status, faults>>
          ELSE RetryOrRaise(r, "legacy", "done") /\ Fault(r, "lost") /\ UNCHANGED exit
    /\ UNCHANGED <<inp, target, stored, cid, dirs, conts, last, helper, tick,
                   execs, cleaned, foreign, overlap>>

\* inject_git_credentials: a failure may come before or after the helper was
\* configured; it is raised after the finally block.
inject_git_credentials(r) ==
    /\ pc[r] = "inject"
    /\ \E answer \in inject_answers:
          /\ helper' = IF answer = "refused" THEN helper ELSE r
          /\ IF answer = "configured"
             THEN Goto(r, "push") /\ UNCHANGED status
             ELSE Goto(r, "uncred") /\ Report(r, "error")
    /\ UNCHANGED <<inp, target, tries, exit, stored, cid, dirs, conts, last, tick,
                   history>>

\* Mutant: the credentials are only cleaned up after a push that worked.
git_push_NoFinally(r) ==
    /\ pc[r] = "push"
    /\ \/ helper # None /\ Goto(r, "uncred") /\ UNCHANGED status
       \/ End(r, "error")
    /\ UNCHANGED <<inp, target, tries, exit, stored, cid, hostVars, tick, history>>

\* git push origin <branch>: without credentials in the cache it fails.
git_push(r) ==
    /\ pc[r] = "push"
    /\ \/ helper # None /\ UNCHANGED status
       \/ Report(r, "error")
    /\ Goto(r, "uncred")
    /\ UNCHANGED <<inp, target, tries, exit, stored, cid, hostVars, tick, history>>

\* cleanup_git_credentials in the finally block: the helper is global, so the
\* cache goes whoever filled it.  A failure is swallowed.
cleanup_git_credentials(r) ==
    /\ pc[r] = "uncred"
    /\ \E answer \in cleanup_credential_answers:
          IF answer = "cleared"
          THEN helper' = None /\ UNCHANGED faults
          ELSE Fault(r, "cred_left") /\ UNCHANGED helper
    /\ Goto(r, IF status[r] = "error" THEN "done" ELSE "upload")
    /\ UNCHANGED <<inp, target, tries, exit, status, stored, cid, dirs, conts, last,
                   tick, execs, cleaned, foreign, overlap>>

\* The credential cache forgets after its 15 minutes.
credential_ttl ==
    /\ helper # None
    /\ helper' = None
    /\ UNCHANGED <<runVars, dirs, conts, last, tick, history>>

\* minio_upload_artifact three times; a failure ends the workflow.
minio_upload_artifact(r) ==
    /\ pc[r] = "upload"
    /\ \E answer \in put_answers:
          IF answer = "stored"
          THEN /\ stored' = [stored EXCEPT ![r] = TRUE]
               /\ Goto(r, "legacy_cleanup")
               /\ UNCHANGED status
          ELSE End(r, "error") /\ UNCHANGED stored
    /\ UNCHANGED <<inp, target, tries, exit, cid, hostVars, tick, history>>

\* ssh_cleanup swallows its errors; the workflow reports the exit code.
ssh_cleanup(r) ==
    /\ pc[r] = "legacy_cleanup"
    /\ \E answer \in ssh_cleanup_answers:
          IF should_cleanup(inp[r].policy, exit[r]) /\ answer = "removed"
          THEN dirs' = Without(dirs, r) /\ cleaned' = cleaned \cup {r}
          ELSE UNCHANGED <<dirs, cleaned>>
    /\ End(r, IF exit[r] = "zero" THEN "passed" ELSE "failed")
    /\ UNCHANGED <<inp, target, tries, exit, stored, cid, conts, last, helper, tick,
                   faults, execs, foreign, overlap>>

-----------------------------------------------------------------------------
\* WorkspaceCleanupSchedulerWorkflow, one tick: probe, warn, list oldest first.
probe_workspace_disk_usage ==
    /\ tick.pc = "idle"
    /\ \E answer \in df_answers:
          tick' = IF answer = "number" /\ Len(dirs) >= EvictAt
                  THEN [tick EXCEPT !.pc = "list", !.used = Len(dirs), !.probed = Len(dirs)]
                  ELSE [tick EXCEPT !.pc = "done"]
    /\ UNCHANGED <<runVars, hostVars, history>>

list_workspace_iter_dirs_oldest_first ==
    /\ tick.pc = "list"
    /\ \E answer \in list_answers:
          LET listed == IF answer = "listing" THEN dirs ELSE <<>>
          IN tick' = [tick EXCEPT !.pc = IF listed = <<>> THEN "done" ELSE "prune",
                                  !.list = listed]
    /\ UNCHANGED <<runVars, hostVars, history>>

\* running_used_mb after a prune; a directory that vanished meanwhile, or that rm
\* could not remove, counts with its expected size.
running_used(used) == IF used = 0 THEN 0 ELSE used - 1

\* The loop over the entries, prune_workspace_iter included.
prune_workspace_iter ==
    /\ tick.pc = "prune"
    /\ IF \/ tick.i > Len(tick.list)
          \/ tick.used < EvictAt
          \/ Cardinality(tick.pruned) >= MaxPrunes
       THEN tick' = [tick EXCEPT !.pc = "done"] /\ UNCHANGED dirs
       ELSE LET d == tick.list[tick.i]
            IN \E answer \in prune_answers:
                  IF answer \in {"pruned", "rm_failed"}
                  THEN /\ dirs' = IF answer = "pruned" THEN Without(dirs, d) ELSE dirs
                       /\ tick' = [tick EXCEPT !.i = @ + 1, !.pruned = @ \cup {d},
                                               !.used = running_used(@)]
                  ELSE /\ tick' = [tick EXCEPT !.i = @ + 1, !.failed = @ \cup {d}]
                       /\ UNCHANGED dirs
    /\ UNCHANGED <<runVars, conts, last, helper, history>>

-----------------------------------------------------------------------------
RunStep(r) ==
    \/ resolve_runner(r) \/ wait_for_healthy_runner(r) \/ enforce_disk_quota(r)
    \/ ssh_run_test(r) \/ ssh_run_test_result(r)
    \/ docker_daemon(r) \/ docker_build(r) \/ docker_run_container(r) \/ docker_run_result(r)
    \/ docker_cleanup_container(r) \/ apply_cleanup_policy(r)
    \/ vault_fetch_ssh_credentials(r) \/ ssh_connect_and_run(r)
    \/ ssh_connect_and_run_result(r) \/ inject_git_credentials(r) \/ git_push(r)
    \/ cleanup_git_credentials(r) \/ minio_upload_artifact(r) \/ ssh_cleanup(r)
    \/ worker_lost(r)

Tick ==
    \/ probe_workspace_disk_usage
    \/ list_workspace_iter_dirs_oldest_first
    \/ prune_workspace_iter

Next == (\E r \in Runs: RunStep(r)) \/ Tick \/ credential_ttl

\* Temporal brings every activity to an end: an answer, an error or a timeout.
Spec == Init /\ [][Next]_vars /\ (\A r \in Runs: WF_vars(RunStep(r))) /\ WF_vars(Tick)

-----------------------------------------------------------------------------
Labels ==
    {"resolve", "probe", "quota", "ssh", "ssh_wait", "daemon", "build", "docker", "docker_wait",
     "docker_refused", "docker_cleanup", "cleanup", "vault", "legacy", "legacy_wait", "inject", "push", "uncred",
     "upload", "legacy_cleanup", "done"}
Faults == {"lost", "upload", "no_container", "no_id", "not_removed", "cred_left"}
TickShape ==
    [pc: {"idle", "list", "prune", "done"}, used: Nat, probed: Nat, list: Seq(OldNames \cup Runs),
     i: Nat, pruned: SUBSET (OldNames \cup Runs), failed: SUBSET (OldNames \cup Runs)]

\* Type invariant.
TypeOK ==
    /\ inp \in Plans
    /\ pc \in [Runs -> Labels]
    /\ target \in [Runs -> {"assigned", "env", "unknown"}]
    /\ tries \in [Runs -> 0..(MaxRetries + MaxAttempts)]
    /\ exit \in [Runs -> {"none", "zero", "nonzero"}]
    /\ status \in [Runs -> {"none", "passed", "failed", "timeout", "unreachable", "quota",
                            "error"}]
    /\ stored \in [Runs -> BOOLEAN]
    /\ cid \in [Runs -> Ids \cup {None}]
    /\ dirs \in Seq(OldNames \cup Runs)
    /\ conts \subseteq Ids
    /\ last \in Ids \cup {None}
    /\ helper \in Runs \cup {None}
    /\ tick \in TickShape
    /\ faults \in [Runs -> SUBSET Faults]
    /\ execs \in [Runs -> Nat]
    /\ cleaned \subseteq Runs /\ foreign \subseteq Runs /\ overlap \in BOOLEAN

\* A run that reports passed ran its command to exit code 0 and, on the SSH
\* paths, its logs are stored: no lost worker, retry, refused upload or
\* fallback lets an unproven run through (ssh.py:875-932, docker path 743).
PassedMeansProven ==
    \A r \in Runs: status[r] = "passed" =>
        /\ exit[r] = "zero" /\ execs[r] > 0
        /\ inp[r].docker \/ stored[r]

\* Under on_success the workspace of a run that did not pass survives the
\* run's own cleanup, except when only the log upload failed: the cleanup asks
\* for the exit code, not for the status (cleanup.py:132-146).
FailedWorkspaceIsKept ==
    \A r \in Runs:
        (r \in cleaned /\ inp[r].policy # "always" /\ pc[r] = "done" /\ status[r] # "passed")
            => exit[r] = "zero" /\ ~stored[r]

\* docker ps -lq is the only way to a foreign container: a run removes the
\* container of another run only if two docker runs were under way at once, or
\* its own docker run made no container, so that the last one of the host is
\* somebody else's (docker.py:557-573, 836-847).
ForeignContainerNeedsCause ==
    \A r \in foreign: overlap \/ "no_container" \in faults[r]

\* Under "always" no container outlives its run, unless an attempt was lost or made
\* none, the id could not be read, the removal failed, or runs overlapped.
ContainersAreRemoved ==
    \A r \in Runs:
        (pc[r] = "done" /\ inp[r].policy = "always" /\ faults[r] = {} /\ ~overlap)
            => \A c \in conts: c[1] # r

\* The git credentials of a run do not outlive it, whatever path it took,
\* unless their cleanup itself failed (execution_run_workflow.py:1649-1672).
CredentialsDoNotOutliveRun ==
    \A r \in Runs: (pc[r] = "done" /\ "cred_left" \notin faults[r]) => helper # r

\* A command is started again only after a lost attempt or an upload that
\* raised, and never more often than the retry policy allows.
RerunNeedsFault ==
    \A r \in Runs: /\ execs[r] <= MaxAttempts
                   /\ execs[r] > 1 => faults[r] \cap {"lost", "upload"} # {}

\* A verdict rests on a command that ran, no more often than faults explain.
VerdictIsEarned ==
    /\ TypeOK
    /\ PassedMeansProven
    /\ RerunNeedsFault

\* A tick counts no more directories as removed than the usage it probed exceeds the
\* eviction line by, even while runs create and clean up workspaces.
PruningIsBounded ==
    Cardinality(tick.pruned) <= (IF tick.probed >= EvictAt
                                 THEN tick.probed - EvictAt + 1 ELSE 0)

\* The workspace of a run is pruned only after every older leftover was
\* pruned or refused to go: the scheduler does not look at running workflows,
\* the order of the listing is all that protects them.
LiveWorkspaceIsLastResort ==
    \A r \in Runs: r \in tick.pruned => {OldDirs[i]: i \in DOMAIN OldDirs} \subseteq tick.pruned \cup tick.failed

\* What runs, their clean-up and the pruning tick leave on a shared host: no
\* container or credential of a finished run, the workspaces that should be
\* kept, and nothing removed that belongs to somebody else without cause.
HostIsLeftClean ==
    /\ FailedWorkspaceIsKept
    /\ ForeignContainerNeedsCause
    /\ ContainersAreRemoved
    /\ CredentialsDoNotOutliveRun
    /\ PruningIsBounded
    /\ LiveWorkspaceIsLastResort

\* Every run ends: the health wait, the retries and the finally blocks all
\* come to an end, whatever the host answers.
EveryRunEnds == \A r \in Runs: <>(pc[r] = "done")
=============================================================================
