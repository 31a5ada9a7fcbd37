------------------------------- MODULE Startup -------------------------------
(***************************************************************************)
(* How the processes of the platform come up, say whether they are ready,  *)
(* and go down: automation-service (app.py), admin-dashboard-api (main.py) *)
(* with its schema migrations (db_shared/migrations.py), assistant-service *)
(* (main.py) and the three Temporal workers (main.py each).  A process is  *)
(* a job that rests at "serving" until it is told to stop.                 *)
(***************************************************************************)
EXTENDS Jobs, TLC

CONSTANTS
    Versions,       \* the migration files in their order
    Crons,          \* the schedules the automation worker registers, in order
    PoolTries       \* attempts of assistant-service to open its pool

VARIABLES
    proc,           \* proc[x]: the handles, parts and flags of process x
    migrated,       \* shared.schema_migrations: version -> checksum
    applied,        \* history: how often the SQL of a version was committed
    crons,          \* schedules Temporal knows
    lazy            \* _LazyNotificationService of one worker

bootVars == <<proc, migrated, applied, crons, lazy>>

\* "closes" counts how often a handle was offered to its closer.
NoProc == [opened |-> {}, closes |-> [h \in {} |-> 0], cleanup |-> << >>, parts |-> {},
           missed |-> {}, blocked |-> FALSE, noManifest |-> FALSE]

BootInit(mix) ==
    /\ proc = [x \in Jobs |-> NoProc]
    /\ migrated = mix.migrated /\ applied = [v \in DOMAIN mix.migrated |-> 1]
    /\ crons = {} /\ lazy = [service |-> None, lock |-> None, sessions |-> 0]

Serving(x) == job[x].pc = "serving"

Opened(p, h) == [p EXCEPT !.opened = @ \cup {h}, !.closes = (h :> 0) @@ @]
Registered(p, h) == [Opened(p, h) EXCEPT !.cleanup = Append(@, h)]
Offered(p, h) == [p EXCEPT !.closes[h] = @ + 1]
Wired(p, parts) == [p EXCEPT !.parts = @ \cup parts]
Proc(x, p) == proc' = [proc EXCEPT ![x] = p]

\* A call of the boot that works, or fails.
Answered(ok) == IF ok THEN Works ELSE Fault

-----------------------------------------------------------------------------
\* automation-service.  Phase A opens the handles in order; what was opened is
\* registered for the unwinding.
lifespan_open(x) ==
    /\ Begins(x, "service")
    /\ Proc(x, Registered(proc[x], "http")) /\ Goto(x, "pool") /\ Works

\* create_pool; the Vault client that follows is built without an await.
ServicePool(x) ==
    /\ At(x, "service", "pool")
    /\ \/ Works /\ Proc(x, Registered(proc[x], "pool")) /\ Goto(x, "temporal")
       \/ Fault /\ Goto(x, "unwind") /\ UNCHANGED proc
       \/ Fault /\ Proc(x, Registered(proc[x], "pool")) /\ Goto(x, "unwind")

\* What is wired once every handle is open.
ServiceParts == {"credentials", "admin", "webhooks", "cancel", "repo_sync",
                 "po_review", "inbound", "webhook_v2", "pipeline"}

\* temporal.connect; then the OIDC configuration, which may be missing.  The
\* routers are wired without an await and the application serves; a wiring that
\* raises is outside both the unwinding and the finally clause.
ServiceTemporal(x) ==
    LET up == Registered(proc[x], "temporal") IN
    /\ At(x, "service", "temporal")
    /\ \/ Works /\ Proc(x, Wired(up, ServiceParts)) /\ Goto(x, "serving")
       \/ Fault /\ Goto(x, "unwind") /\ UNCHANGED proc
       \/ Fault /\ Proc(x, up) /\ Goto(x, "unwind")
       \/ Fault /\ Proc(x, up) /\ End(x, "broken")

\* The except clause of phase A: closers in reverse, each one quietly.
Unwind(x) ==
    LET c == proc[x].cleanup IN
    /\ At(x, "service", "unwind")
    /\ \/ /\ c # << >> /\ \E ok \in BOOLEAN : Answered(ok)
          /\ Proc(x, [Offered(proc[x], c[Len(c)]) EXCEPT !.cleanup = SubSeq(c, 1, Len(c) - 1)])
          /\ Goto(x, "unwind")
       \/ c = << >> /\ End(x, "failed") /\ Works /\ UNCHANGED proc

\* The finally clause, _close_quietly each.
ServiceStops(x) ==
    LET next == ("stop" :> "stop_http" @@ "stop_http" :> "stop_pool" @@ "stop_pool" :> "end")
        what == ("stop" :> "temporal" @@ "stop_http" :> "http" @@ "stop_pool" :> "pool") IN
    /\ ask[x].op = "service" /\ job[x].pc \in DOMAIN next
    /\ \E ok \in BOOLEAN : Answered(ok)
    /\ Proc(x, Offered(proc[x], what[job[x].pc]))
    /\ IF next[job[x].pc] = "end" THEN End(x, "stopped") ELSE Goto(x, next[job[x].pc])

ServiceProcess(x) ==
    /\ UNCHANGED <<migrated, applied, crons, lazy>>
    /\ lifespan_open(x) \/ ServicePool(x) \/ ServiceTemporal(x) \/ Unwind(x) \/ ServiceStops(x)

-----------------------------------------------------------------------------
\* admin-dashboard-api.  check_credentials: development secrets in production
\* block the boot, and the process serves without any part.
check_credentials(a) == a.production /\ a.devSecrets

\* load_manifest: unique compose names and no cycle among the known services.
load_manifest(m) ==
    /\ \A i, j \in DOMAIN m : i # j => m[i].compose # m[j].compose
    /\ LET names == {m[i].name : i \in DOMAIN m}
           Dep(n) == UNION {m[i].deps \cap names : i \in {k \in DOMAIN m : m[k].name = n}}
           reach[k \in 0..Len(m)] ==
               IF k = 0 THEN [n \in names |-> Dep(n)]
               ELSE [n \in names |-> reach[k - 1][n] \cup UNION {Dep(d) : d \in reach[k - 1][n]}]
       IN  \A n \in names : n \notin reach[Len(m)][n]

\* validate_bot_account_id_uniqueness: one department per account of a service.
unique_bots(bots) == \A b, c \in bots : b.account = c.account => b.dept = c.dept

\* Everything before the first handle: guard, manifest, bot accounts.  A file
\* that cannot be read is an exception like a conflict.
AdminChecks(x) ==
    LET a == ask[x]  ok == load_manifest(a.manifest)
        fit == IF a.bots = None THEN FALSE ELSE unique_bots(a.bots) IN
    /\ Begins(x, "admin")
    /\ \/ /\ check_credentials(a)
          /\ Proc(x, [proc[x] EXCEPT !.blocked = TRUE]) /\ Goto(x, "serving")
       \/ /\ ~check_credentials(a) /\ fit
          /\ Proc(x, [Opened(proc[x], "http") EXCEPT !.noManifest = ~ok])
          /\ Goto(x, IF ok THEN "writer" ELSE "prompts")
       \/ /\ ~check_credentials(a) /\ ~fit
          /\ End(x, "failed") /\ UNCHANGED proc
    /\ Works

\* AuditWriter.start, best effort; then the Vault client and the lifecycle.  A Vault
\* client that refuses its settings raises before the try whose finally clause closes.
AdminWriter(x) ==
    LET up == Opened(proc[x], "audit") IN
    /\ At(x, "admin", "writer")
    /\ \/ /\ \E ok \in BOOLEAN : Answered(ok)
          /\ Proc(x, Wired(Opened(up, "vault"), {"lifecycle"})) /\ Goto(x, "prompts")
       \/ Fault /\ Proc(x, up) /\ End(x, "broken")

\* _build_prompts_audit_sink: a pool of its own, or the log.
AdminPromptsPool(x) ==
    /\ At(x, "admin", "prompts")
    /\ \/ Works /\ Proc(x, Wired(Opened(proc[x], "prompts_pool"), {"pg"})) /\ Goto(x, "migrate")
       \/ Fault /\ UNCHANGED proc /\ Goto(x, "ops")

\* The second attempt at a pool, owned by the operations routers.
AdminOps(x) ==
    /\ At(x, "admin", "ops")
    /\ \/ Works /\ Proc(x, Wired(Opened(proc[x], "ops_pool"), {"pg"})) /\ Goto(x, "migrate")
       \/ Fault /\ UNCHANGED proc /\ Goto(x, "control")

\* apply_migrations: what the table holds is read once.
ReadMigrations(x) ==
    /\ At(x, "admin", "migrate")
    /\ \/ Works /\ Gather(x, "apply", DOMAIN migrated)
       \/ Fault /\ Goto(x, "control")
    /\ UNCHANGED <<proc, migrated, applied>>

Pending(x) == {v \in 1..Len(Versions) : Versions[v] \notin job[x].got}

\* Mutant: a failing version is skipped.
ApplySkips(x) ==
    LET v == CHOOSE i \in Pending(x) : \A j \in Pending(x) : i <= j IN
    /\ At(x, "admin", "apply")
    /\ \/ /\ Pending(x) # {} /\ Versions[v] \notin DOMAIN migrated /\ Works
          /\ migrated' = (Versions[v] :> "new") @@ migrated
          /\ applied' = (Versions[v] :> 1) @@ applied
          /\ Gather(x, "apply", job[x].got \cup {Versions[v]})
       \/ /\ Pending(x) # {} /\ Fault /\ Gather(x, "apply", job[x].got \cup {Versions[v]})
          /\ UNCHANGED <<migrated, applied>>
       \/ Pending(x) = {} /\ Works /\ Goto(x, "control") /\ UNCHANGED <<migrated, applied>>
    /\ UNCHANGED proc

\* The SQL of the next version and its row are one transaction.  The row of
\* another process makes it fail; a failure ends the run, and the boot goes on.
ApplyNext(x) ==
    LET v == CHOOSE i \in Pending(x) : \A j \in Pending(x) : i <= j IN
    /\ At(x, "admin", "apply")
    /\ \/ /\ Pending(x) # {} /\ Versions[v] \notin DOMAIN migrated /\ Works
          /\ migrated' = (Versions[v] :> "new") @@ migrated
          /\ applied' = (Versions[v] :> (IF Versions[v] \in DOMAIN applied THEN applied[Versions[v]] + 1 ELSE 1)) @@ applied
          /\ Gather(x, "apply", job[x].got \cup {Versions[v]})
       \/ /\ Pending(x) # {} /\ IF Versions[v] \in DOMAIN migrated THEN Works ELSE Fault
          /\ Goto(x, "control") /\ UNCHANGED <<migrated, applied>>
       \/ Pending(x) = {} /\ Works /\ Goto(x, "control") /\ UNCHANGED <<migrated, applied>>
    /\ UNCHANGED proc

\* The Temporal client, then the clients that need no call.
AdminControl(x) ==
    /\ At(x, "admin", "control")
    /\ \E ok \in BOOLEAN : Answered(ok) /\ Proc(x, IF ok THEN Wired(proc[x], {"control"}) ELSE proc[x])
    /\ Goto(x, "serving")

\* The finally clause: pools that were opened, the owned one only once.
AdminCloses(p) ==
    << "audit" >> \o (IF "prompts_pool" \in p.opened THEN << "prompts_pool" >> ELSE << >>)
    \o (IF "ops_pool" \in p.opened THEN << "ops_pool" >> ELSE << >>)
    \o (IF "vault" \in p.opened THEN << "vault" >> ELSE << >>) \o << "http" >>

\* The writer may have been left unopened; its close is then without effect.
AdminStops(x) ==
    LET list == AdminCloses(proc[x])  h == list[job[x].val] IN
    /\ ask[x].op = "admin"
    /\ \/ /\ At(x, "admin", "stop") /\ Works /\ UNCHANGED proc
          /\ IF proc[x].blocked THEN End(x, "stopped") ELSE Keep(x, "closing", 1)
       \/ /\ At(x, "admin", "closing") /\ job[x].val <= Len(list)
          /\ \E ok \in BOOLEAN : Answered(ok)
          /\ Proc(x, IF h \in proc[x].opened THEN Offered(proc[x], h) ELSE proc[x])
          /\ Keep(x, "closing", job[x].val + 1)
       \/ /\ At(x, "admin", "closing") /\ job[x].val > Len(list)
          /\ End(x, "stopped") /\ Works /\ UNCHANGED proc

AdminProcess(x) ==
    /\ UNCHANGED <<crons, lazy>>
    /\ \/ (AdminChecks(x) \/ AdminWriter(x) \/ AdminPromptsPool(x) \/ AdminOps(x) \/ AdminControl(x)
            \/ AdminStops(x)) /\ UNCHANGED <<migrated, applied>>
       \/ ReadMigrations(x) \/ ApplyNext(x)

-----------------------------------------------------------------------------
\* assistant-service: prompts and provider credentials first, the latter fatal.
AssistantBegins(x) ==
    /\ Begins(x, "assistant")
    /\ \/ \E parts \in SUBSET {"prompts", "llm"} :
             /\ Answered(parts = {"prompts", "llm"})
             /\ Proc(x, Wired(proc[x], parts)) /\ Goto(x, "pool")
       \/ Fault /\ End(x, "failed") /\ UNCHANGED proc

\* The pool is tried again and again; without it there is no audit log, and
\* without prompts, model or audit log no chat handler.
AssistantPool(x) ==
    LET up == Opened(proc[x], "pool") IN
    /\ At(x, "assistant", "pool")
    /\ \/ /\ Works /\ Goto(x, "serving")
          /\ Proc(x, Wired(up, {"audit"} \cup IF {"prompts", "llm"} \subseteq up.parts THEN {"chat"} ELSE {}))
       \/ /\ Fault /\ UNCHANGED proc
          /\ IF job[x].try < PoolTries
             THEN Set(x, [job[x] EXCEPT !.try = @ + 1])
             ELSE Goto(x, "serving")

AssistantStops(x) ==
    /\ At(x, "assistant", "stop")
    /\ \E ok \in BOOLEAN :
          /\ Answered(ok)
          /\ Proc(x, IF "pool" \in proc[x].opened THEN Offered(proc[x], "pool") ELSE proc[x])
    /\ End(x, "stopped")

AssistantProcess(x) ==
    /\ UNCHANGED <<migrated, applied, crons, lazy>>
    /\ AssistantBegins(x) \/ AssistantPool(x) \/ AssistantStops(x)

-----------------------------------------------------------------------------
\* The workers.  The automation worker wires its callers and its pool as far as
\* they come; the agent runner needs its credential resolver, the execution
\* runner its workflow class; all need Temporal.
WorkerBegins(x) ==
    /\ Begins(x, "worker")
    /\ \/ Works /\ Goto(x, "pool") /\ Proc(x, Wired(proc[x], {"mcp", "llm"}))
       \/ ask[x].kind = "automation" /\ Fault /\ Goto(x, "pool") /\ UNCHANGED proc
       \/ ask[x].kind = "agent" /\ Fault /\ End(x, "failed") /\ UNCHANGED proc

WorkerPool(x) ==
    /\ At(x, "worker", "pool")
    /\ \/ Works /\ Proc(x, IF ask[x].kind = "automation" THEN Opened(proc[x], "pool") ELSE proc[x])
       \/ ask[x].kind = "automation" /\ Fault /\ UNCHANGED proc
    /\ Goto(x, "connect")

WorkerConnect(x) ==
    /\ At(x, "worker", "connect")
    /\ \/ Works /\ (IF ask[x].kind = "automation" THEN Keep(x, "describe", 1) ELSE Goto(x, "serving"))
       \/ Fault /\ End(x, "failed")
    /\ UNCHANGED proc

\* After the last schedule the worker polls its queue.
NextCron(x) == IF job[x].val < Len(Crons) THEN Keep(x, "describe", job[x].val + 1) ELSE Goto(x, "serving")

\* describe: a known schedule is left alone; one that is not known, or cannot
\* be described, is created.
DescribeCron(x) ==
    /\ At(x, "worker", "describe")
    /\ \/ Works /\ Crons[job[x].val] \in crons /\ NextCron(x)
       \/ Works /\ Crons[job[x].val] \notin crons /\ Goto(x, "create")
       \/ Fault /\ Goto(x, "create")
    /\ UNCHANGED <<proc, crons>>

\* create_schedule: refused when another worker was faster; every failure is
\* logged and the worker goes on.
CreateCron(x) ==
    LET c == Crons[job[x].val] IN
    /\ At(x, "worker", "create")
    /\ \/ Works /\ crons' = crons \cup {c} /\ UNCHANGED proc
       \/ Fault /\ Proc(x, [proc[x] EXCEPT !.missed = @ \cup {c}]) /\ UNCHANGED crons
    /\ NextCron(x)

\* The worker task is cancelled; the pool is left to the end of the process.
WorkerStops(x) ==
    /\ At(x, "worker", "stop") /\ End(x, "stopped") /\ Works /\ UNCHANGED proc

WorkerProcess(x) ==
    /\ UNCHANGED <<migrated, applied, lazy>>
    /\ \/ (WorkerBegins(x) \/ WorkerPool(x) \/ WorkerConnect(x) \/ WorkerStops(x)) /\ UNCHANGED crons
       \/ DescribeCron(x) \/ CreateCron(x)

\* SIGTERM.
Told(x) ==
    /\ Serving(x) /\ Goto(x, "stop")
    /\ UNCHANGED <<ask, failed, bound, audit, bootVars>>

-----------------------------------------------------------------------------
\* _LazyNotificationService._ensure_built: the first send builds session, pool
\* and service under a lock.
EnsureBegins(x) ==
    /\ Begins(x, "alarm") /\ Works
    /\ IF lazy.service # None THEN End(x, "sent") ELSE Goto(x, "lock")
    /\ UNCHANGED lazy

EnsureLocked(x) ==
    /\ At(x, "alarm", "lock") /\ lazy.lock = None /\ Works
    /\ IF lazy.service # None
       THEN End(x, "sent") /\ UNCHANGED lazy
       ELSE lazy' = [lazy EXCEPT !.lock = x, !.sessions = @ + 1] /\ Goto(x, "build")

EnsureBuilt(x) ==
    /\ At(x, "alarm", "build")
    /\ \/ Works /\ lazy' = [lazy EXCEPT !.lock = None, !.service = x] /\ End(x, "sent")
       \/ Fault /\ lazy' = [lazy EXCEPT !.lock = None] /\ End(x, "error")

Ensure(x) ==
    /\ UNCHANGED <<proc, migrated, applied, crons>>
    /\ EnsureBegins(x) \/ EnsureLocked(x) \/ EnsureBuilt(x)

-----------------------------------------------------------------------------
\* readyz.  What is probed, by process.
Probed(op) == CASE op = "service" -> {"postgres", "temporal"}
                [] op = "admin" -> {"postgres", "vault"}
                [] op = "assistant" -> {"postgres", "redis", "mcp"}
                [] OTHER -> {}

ReadyBegins(x) ==
    /\ Begins(x, "readyz") /\ Works
    /\ LET p == ask[x].proc IN
       /\ Serving(p)
       /\ IF proc[p].noManifest THEN End(x, "503")
          ELSE Set(x, [job[x] EXCEPT !.pc = "probe", !.todo = Probed(ask[p].op)])

\* The probes run side by side; each answers on its own connection.
ReadyProbe(x) ==
    /\ At(x, "readyz", "probe")
    /\ \E d \in job[x].todo : \E ok \in BOOLEAN :
          /\ Answered(ok)
          /\ Set(x, [job[x] EXCEPT !.todo = @ \ {d}, !.got = IF ok THEN @ ELSE @ \cup {d}])

\* check_readiness and what the endpoint adds: the assistant needs its handler.
ReadyAnswers(x) ==
    LET p == ask[x].proc IN
    /\ At(x, "readyz", "probe") /\ job[x].todo = {} /\ Works
    /\ End(x, IF job[x].got = {} /\ (ask[p].op = "assistant" => "chat" \in proc[p].parts)
              THEN "200" ELSE "503")

Ready(x) == (ReadyBegins(x) \/ ReadyProbe(x) \/ ReadyAnswers(x)) /\ UNCHANGED bootVars

BootOps == {"service", "admin", "assistant", "worker", "alarm", "readyz"}
BootStep(x) ==
    /\ Quiet
    /\ ServiceProcess(x) \/ AdminProcess(x) \/ AssistantProcess(x) \/ WorkerProcess(x)
       \/ Ensure(x) \/ Ready(x)

-----------------------------------------------------------------------------
\* A service that has gone down, from a failed boot or a stop, has offered each
\* handle it opened to its closer once, whichever calls failed on the way (the
\* finally clauses and the unwinding of phase A), and none twice.  A boot that breaks
\* between the two, while it wires its parts, closes nothing.
HandlesClosedOnce ==
    \A x \in Jobs : ask[x].op \in {"service", "admin", "assistant"} =>
        \A h \in proc[x].opened :
            proc[x].closes[h] <= 1 /\ (Ended(x) => proc[x].closes[h] = IF job[x].out = "broken" THEN 0 ELSE 1)

\* Two replicas that migrate at the same time, with failing statements: the
\* schema is always at a prefix of the files, and no file is run twice.
MigrationsInOrder ==
    /\ \E n \in 0..Len(Versions) : DOMAIN migrated = {Versions[i] : i \in 1..n}
    /\ DOMAIN applied = DOMAIN migrated /\ \A v \in DOMAIN applied : applied[v] = 1

\* A serving automation worker has its schedules, or the creation of the missing
\* one failed; a worker that lost the race finds the other's.
ServingHasCrons ==
    \A x \in Jobs : At(x, "worker", "serving") /\ ask[x].kind = "automation" =>
        \A i \in 1..Len(Crons) : Crons[i] \in crons \cup proc[x].missed

\* One service for all alarms: senders that start together build it once, and a
\* failed attempt leaves the way free for the next.
BuiltOnce ==
    /\ lazy.service # None /\ lazy.lock = None =>
          lazy.sessions = 1 + Cardinality({x \in Jobs : ask[x].op = "alarm" /\ job[x].out = "error"})
    /\ \A x \in Jobs : ask[x].op = "alarm" /\ job[x].out = "sent" => lazy.service # None

\* "Ready" is true of the process that says it: the administration has its
\* lifecycle service, the assistant its chat handler.  A process blocked by
\* the credential guard is the exception: only healthz knows.
ReadyIsTrue ==
    \A x \in Jobs : ask[x].op = "readyz" /\ job[x].out = "200" =>
        LET p == ask[x].proc IN
        /\ ask[p].op = "admin" => "lifecycle" \in proc[p].parts \/ proc[p].blocked
        /\ ask[p].op = "assistant" => "chat" \in proc[p].parts
=============================================================================
