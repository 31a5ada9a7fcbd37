---------------------------- MODULE AdminRunners ----------------------------
(***************************************************************************)
(* SSH runners, their assignment to departments (routers/ssh_runners.py)   *)
(* and the capability probes (routers/capabilities.py,                     *)
(* capability_prober.py).  A runner's row is in PostgreSQL and its key,    *)
(* with a copy of the host, in Vault; no statement spans the two and no    *)
(* route runs its statements in one transaction.                           *)
(***************************************************************************)
EXTENDS AdminRequests

CONSTANTS
    Runners,    \* runner ids
    RunDepts,   \* departments in departments.json
    DefaultRunner, \* the id "default", which a worker seeds
    EnvRunner   \* whether SSH_HOST or EXECUTION_RUNNER_* names a runner

\* What the routes are given: ids of runners, a host that is not empty, and the
\* departments of departments.json.
ASSUME RunnerAssumption ==
    /\ None \notin {"h0", "ssh_host"} /\ DefaultRunner \in Runners
    /\ \A mix \in Mixes :
        /\ mix.runners \subseteq Runners
        /\ mix.seeding \in {"off", "due"}
        /\ mix.assigned \in [RunDepts -> SUBSET Runners]
        /\ \A r \in Reqs : LET a == mix.ask[r] IN
            /\ a.op \in {"rnew", "rset", "smoke"} => a.id \in Runners
            /\ a.op = "rnew" \/ (a.op = "rset" /\ a.mode = "host") => a.val # None
            /\ a.op = "rset" => a.mode \in {"empty", "host", "status"}
            /\ a.op = "assign" => a.dept \in RunDepts /\ a.ids \subseteq Runners

VARIABLES
    rows,       \* rows[i] = [host, status]: infrastructure.ssh_runners
    keys,       \* keys[i]: the host in the secret, or None
    assigned,   \* assigned[d]: infrastructure.dept_ssh_assignments
    deptRows,   \* rows of automation.departments
    cron,       \* whether the health check is scheduled
    probes,     \* probes[d]: shared.capability_probes for ssh, or None
    seeding     \* a worker that starts with SSH_HOST set: "off", "due", "row", "done"

runnerVars == <<rows, keys, assigned, deptRows, cron, probes, seeding>>

NoRow == [host |-> None, status |-> None]

RunnerInit(mix) ==
    /\ rows = [i \in Runners |-> IF i \in mix.runners THEN [host |-> "h0", status |-> "active"]
                                 ELSE NoRow]
    /\ keys = [i \in Runners |-> IF i \in mix.runners THEN "h0" ELSE None]
    /\ assigned = mix.assigned
    /\ deptRows = {}
    /\ cron = FALSE
    /\ probes = [d \in RunDepts |-> None]
    /\ seeding = mix.seeding

Known(i) == rows[i] # NoRow

\* The routes of this module that need the pool and Vault.
RunnerOps == {"rnew", "rset", "smoke", "rlist", "assign"}

RunnersNotReady(r) ==
    /\ ~ wired /\ q[r].pc = "idle" /\ ask[r].op \in RunnerOps
    /\ Answer(r, 503) /\ Quiet
    /\ UNCHANGED runnerVars

Ready(r, op) == wired /\ Starts(r, op)

-----------------------------------------------------------------------------
(* Runners *)

\* Mutant: the row comes before the secret.
CreateRunner_RowFirst(r) ==
    /\ Ready(r, "rnew") /\ ~ Known(ask[r].id)
    /\ rows' = [rows EXCEPT ![ask[r].id] = [host |-> ask[r].val, status |-> "active"]]
    /\ Goto(r, "key") /\ Quiet
    /\ UNCHANGED <<keys, assigned, deptRows, cron, probes, seeding>>

\* create_ssh_runner: a known id is refused ...
CreateRunner(r) ==
    /\ Ready(r, "rnew")
    /\ IF Known(ask[r].id) THEN Answer(r, 409) ELSE Goto(r, "key")
    /\ Quiet
    /\ UNCHANGED runnerVars

\* ... _write_ssh_secret puts the key and the host into Vault ...
write_ssh_secret(r) ==
    /\ At(r, "rnew", "key")
    /\ \/ keys' = [keys EXCEPT ![ask[r].id] = ask[r].val] /\ Goto(r, "row") /\ Quiet
       \/ Fails(r, 502) /\ UNCHANGED keys
    /\ UNCHANGED <<rows, assigned, deptRows, cron, probes, seeding>>

\* ... and the row is inserted; the primary key refuses the second of two
\* creations, whose secret is in Vault by then.
InsertRunner(r) ==
    /\ At(r, "rnew", "row")
    /\ \/ /\ ~ Known(ask[r].id)
          /\ rows' = [rows EXCEPT ![ask[r].id] = [host |-> ask[r].val, status |-> "active"]]
          /\ Answer(r, 201) /\ Quiet
       \/ Known(ask[r].id) /\ Answer(r, 500) /\ Quiet /\ UNCHANGED rows
       \/ Fails(r, 500) /\ UNCHANGED rows
    /\ UNCHANGED <<keys, assigned, deptRows, cron, probes, seeding>>

\* update_ssh_runner: host or status of the row; the secret is not touched.
\* A patch without fields only reads.
FindRunner(r) ==
    /\ Ready(r, "rset")
    /\ IF ~ Known(ask[r].id) THEN Answer(r, 404)
       ELSE IF ask[r].mode = "empty" THEN Answer(r, 200)
       ELSE Goto(r, "row")
    /\ Quiet
    /\ UNCHANGED runnerVars

UpdateRunner(r) ==
    /\ At(r, "rset", "row")
    /\ rows' = [rows EXCEPT ![ask[r].id][ask[r].mode] = ask[r].val]
    /\ Answer(r, 200) /\ Quiet
    /\ UNCHANGED <<keys, assigned, deptRows, cron, probes, seeding>>

\* run_ssh_runner_docker_smoke: an active row with a secret; the thread
\* connects to the host in the secret.
StartSmoke(r) ==
    /\ Ready(r, "smoke")
    /\ IF ~ Known(ask[r].id) THEN Answer(r, 404)
       ELSE IF rows[ask[r].id].status # "active" THEN Answer(r, 409)
       ELSE Goto(r, "secret")
    /\ Quiet
    /\ UNCHANGED runnerVars

read_ssh_secret(r) ==
    /\ At(r, "smoke", "secret")
    /\ \/ keys[ask[r].id] = None /\ Answer(r, 409) /\ Quiet
       \/ keys[ask[r].id] # None /\ Read(r, "run", keys[ask[r].id]) /\ Quiet
       \/ Fails(r, 502)
    /\ UNCHANGED runnerVars

run_docker_smoke_sync(r) ==
    /\ At(r, "smoke", "run")
    /\ \/ /\ Answer(r, 200)
          /\ insert_audit(AuditRow(r, "ssh_runner_docker_smoke", "ok", None, q[r].old))
       \/ Fails(r, 502)
    /\ UNCHANGED runnerVars

\* list_ssh_runners describes the schedule of the health check on every call ...
ListRunners(r) ==
    /\ Ready(r, "rlist")
    /\ \/ cron /\ Answer(r, 200) /\ Quiet
       \/ ~ cron /\ Goto(r, "schedule") /\ Quiet
       \/ Fails(r, NoEffect)
    /\ UNCHANGED runnerVars

CronAnswer(made) == IF made THEN 200 ELSE NoEffect

\* ... and creates it when it is not there; the second of two creations fails
\* and its list says that the health check is not scheduled.
ScheduleCron(r) ==
    /\ At(r, "rlist", "schedule")
    /\ \/ ~ cron /\ cron' = TRUE /\ Answer(r, CronAnswer(TRUE)) /\ Quiet
       \/ cron /\ UNCHANGED cron /\ Answer(r, CronAnswer(FALSE)) /\ Quiet
       \/ Fails(r, CronAnswer(FALSE)) /\ UNCHANGED cron
    /\ UNCHANGED <<rows, keys, assigned, deptRows, probes, seeding>>

-----------------------------------------------------------------------------
(* Assignment *)

\* update_dept_ssh_runners: the department row is seeded, the ids checked ...
SeedDept(r) ==
    /\ Ready(r, "assign")
    /\ deptRows' = deptRows \cup {ask[r].dept}
    /\ Goto(r, "check") /\ Quiet
    /\ UNCHANGED <<rows, keys, assigned, cron, probes, seeding>>

CheckIds(r) ==
    /\ At(r, "assign", "check")
    /\ IF \A i \in ask[r].ids : Known(i) THEN Goto(r, "current") ELSE Answer(r, 400)
    /\ Quiet
    /\ UNCHANGED runnerVars

\* ... the present assignment read and the two differences taken ...
ReadCurrent(r) ==
    /\ At(r, "assign", "current")
    /\ q' = [q EXCEPT ![r].pc = "remove", ![r].todo = ask[r].ids \ assigned[ask[r].dept],
                      ![r].old = ask[r].ids \ assigned[ask[r].dept],
                      ![r].drop = assigned[ask[r].dept] \ ask[r].ids]
    /\ Quiet
    /\ UNCHANGED runnerVars

Removed(r) == assigned[ask[r].dept] \ q[r].drop

\* ... one DELETE for all that go ...
RemoveAssignments(r) ==
    /\ At(r, "assign", "remove")
    /\ \/ assigned' = [assigned EXCEPT ![ask[r].dept] = Removed(r)]
          /\ Goto(r, "add") /\ Quiet
       \/ Fails(r, 500) /\ UNCHANGED assigned
    /\ UNCHANGED <<rows, keys, deptRows, cron, probes, seeding>>

\* ... and one INSERT for each that comes; a failure leaves the rest out.
AddAssignment(r) ==
    /\ At(r, "assign", "add") /\ q[r].todo # {}
    /\ \/ \E i \in q[r].todo :
             /\ assigned' = [assigned EXCEPT ![ask[r].dept] = @ \cup {i}]
             /\ q' = [q EXCEPT ![r].todo = @ \ {i}]
             /\ Quiet
       \/ Fails(r, 500) /\ UNCHANGED assigned
    /\ UNCHANGED <<rows, keys, deptRows, cron, probes, seeding>>

\* The bot is bound in one UPDATE of all the runners asked for, when a bot and
\* a runner are named; which bot it is no property tells.
BindBot(r) ==
    /\ At(r, "assign", "add") /\ q[r].todo = {}
    /\ \/ Goto(r, "audit") /\ Quiet
       \/ ask[r].ids # {} /\ Fails(r, 500)
    /\ UNCHANGED runnerVars

\* One audit row for each difference, and the answer.
AnswerAssign(r) ==
    /\ At(r, "assign", "audit")
    /\ Answer(r, 200)
    /\ \/ Works /\ audit' = audit
             \cup {AuditRow(r, "dept_ssh_runner_assigned", "ok", None, i) : i \in q[r].old}
             \cup {AuditRow(r, "dept_ssh_runner_unassigned", "ok", i, None) : i \in q[r].drop}
       \/ Fault /\ UNCHANGED audit
    /\ UNCHANGED runnerVars

-----------------------------------------------------------------------------
(* Capability probes *)

\* _is_service_configured for ssh: an assigned runner or one named by the
\* environment.
is_service_configured(ids) == ids # {} \/ EnvRunner

\* run_single_probe: service and department are checked, the assigned runners
\* read; a failed read counts as none.
StartProbe(r) ==
    LET d == ask[r].dept IN
    /\ Starts(r, "probe")
    /\ \/ ask[r].mode = "unsupported" /\ Answer(r, 400) /\ Quiet
       \/ ask[r].mode # "unsupported" /\ d \notin RunDepts /\ Answer(r, 404) /\ Quiet
       \/ /\ ask[r].mode # "unsupported" /\ d \in RunDepts
          /\ \E ids \in {assigned[d], {}} :
                /\ IF ids = assigned[d] THEN Works ELSE Fault
                /\ IF is_service_configured(ids) THEN Read(r, "resolve", None)
                   ELSE Read(r, "store", [status |-> "not_configured", runner |-> None])
          /\ UNCHANGED audit
    /\ UNCHANGED runnerVars

Active(ids) == {i \in ids : rows[i].status = "active"}

\* _resolve_runner: an active runner of the department, else any active one.
resolve_runner(d) == IF Active(assigned[d]) # {} THEN Active(assigned[d]) ELSE Active(Runners)

Unhealthy(i) == [status |-> "unhealthy", runner |-> i]

ResolveRunner(r) ==
    /\ At(r, "probe", "resolve")
    /\ IF ~ wired THEN Answer(r, 503)
       ELSE IF resolve_runner(ask[r].dept) = {} THEN Read(r, "store", Unhealthy(None))
       ELSE \E i \in resolve_runner(ask[r].dept) :
               Read(r, "connect", [status |-> "resolved", runner |-> i])
    /\ Quiet
    /\ UNCHANGED runnerVars

\* _probe_runner: the secret is read and its host connected to.
ConnectRunner(r) ==
    LET i == q[r].old.runner IN
    /\ At(r, "probe", "connect")
    /\ \/ keys[i] # None /\ Works /\ Read(r, "store", [status |-> "healthy", runner |-> i])
       \/ (IF keys[i] = None THEN Works ELSE Fault) /\ Read(r, "store", Unhealthy(i))
    /\ UNCHANGED audit
    /\ UNCHANGED runnerVars

\* The result replaces the stored one; a failed upsert is only logged.
StoreProbe(r) ==
    /\ At(r, "probe", "store")
    /\ Answer(r, 200)
    /\ \/ probes' = [probes EXCEPT ![ask[r].dept] = q[r].old] /\ Works
       \/ UNCHANGED probes /\ Fault
    /\ UNCHANGED audit
    /\ UNCHANGED <<rows, keys, assigned, deptRows, cron, seeding>>

\* get_capability_matrix: a stored probe wins over the present configuration.
Cell(d) == IF probes[d] # None THEN probes[d].status
           ELSE IF is_service_configured(assigned[d]) THEN "unknown" ELSE "not_configured"

ReadMatrix(r) ==
    /\ Starts(r, "matrix")
    /\ q' = [q EXCEPT ![r] = Into(r, [@ EXCEPT !.pc = "done", !.reply = 200,
                                               !.old = [d \in RunDepts |-> Cell(d)]])]
    /\ Quiet
    /\ UNCHANGED runnerVars

RunnerStep(r) ==
    \/ RunnersNotReady(r) \/ CreateRunner(r) \/ write_ssh_secret(r) \/ InsertRunner(r)
    \/ FindRunner(r) \/ UpdateRunner(r)
    \/ StartSmoke(r) \/ read_ssh_secret(r) \/ run_docker_smoke_sync(r)
    \/ ListRunners(r) \/ ScheduleCron(r)
    \/ SeedDept(r) \/ CheckIds(r) \/ ReadCurrent(r) \/ RemoveAssignments(r)
    \/ AddAssignment(r) \/ BindBot(r) \/ AnswerAssign(r)
    \/ StartProbe(r) \/ ResolveRunner(r) \/ ConnectRunner(r) \/ StoreProbe(r) \/ ReadMatrix(r)

\* seed_default_runner: a worker that finds SSH_HOST inserts the row of the
\* default runner, and no secret; a row that is there is left alone ...
SeedRunner ==
    /\ seeding = "due"
    /\ \/ /\ rows' = [rows EXCEPT ![DefaultRunner] =
                IF Known(DefaultRunner) THEN @ ELSE [host |-> "ssh_host", status |-> "active"]]
          /\ seeding' = "row" /\ Works
       \/ UNCHANGED rows /\ seeding' = "done" /\ Fault
    /\ UNCHANGED <<ask, q, wired, audit, keys, assigned, deptRows, cron, probes>>

\* ... and assigns it to every department that has a row.  A failure of either
\* statement is logged.
SeedAssignments ==
    /\ seeding = "row" /\ seeding' = "done"
    /\ \/ /\ assigned' = [d \in RunDepts |-> assigned[d] \cup
                               (IF d \in deptRows THEN {DefaultRunner} ELSE {})]
          /\ Works
       \/ UNCHANGED assigned /\ Fault
    /\ UNCHANGED <<ask, q, wired, audit, rows, keys, deptRows, cron, probes>>

-----------------------------------------------------------------------------
(* Properties *)

\* The default runner may come from a worker's environment.
Seeded(i) == i = DefaultRunner /\ seeding # "off"

Writers(i) == {r \in Reqs : ask[r].op = "rnew" /\ ask[r].id = i /\ q[r].pc # "idle"}
HostPatched(i) == \E r \in Reqs : ask[r].op = "rset" /\ ask[r].id = i /\ ask[r].mode = "host"
                                  /\ q[r].reply = 200

\* A runner that can be seen has its key, and the host it is reached at is the
\* host of its row, unless the host was patched (the patch leaves the secret
\* alone), two creations of the runner ran at the same time, or the runner is
\* the one a worker seeds without a key.
RunnerRowMatchesKey ==
    \A i \in Runners : Known(i) /\ ~ Seeded(i) =>
        /\ keys[i] # None
        /\ \/ keys[i] = rows[i].host
           \/ HostPatched(i)
           \/ \E r, s \in Writers(i) : r # s /\ Overlap(r, s)

\* An assignment that was answered with 200 is in force as it was asked for,
\* down to the last runner, unless another assignment of the department was
\* running at the same time or came later; a worker that seeds the default
\* runner may have added that one.
AssignedAsAnswered ==
    \A r \in Reqs :
        (ask[r].op = "assign" /\ q[r].reply = 200) =>
            \/ assigned[ask[r].dept] = ask[r].ids
            \/ seeding # "off" /\ assigned[ask[r].dept] = ask[r].ids \cup {DefaultRunner}
            \/ \E s \in Reqs \ {r} :
                  ask[s].op = "assign" /\ ask[s].dept = ask[r].dept
                  /\ q[s].pc # "idle" /\ s \notin q[r].before

\* A list that says the health check is scheduled is right.
CronAnswerIsTrue ==
    \A r \in Reqs : (ask[r].op = "rlist" /\ q[r].reply = 200) => cron

=============================================================================
