--------------------------- MODULE ServiceLifecycle ---------------------------
(***************************************************************************)
(* The service lifecycle of admin-dashboard-api: LifecycleService starts,  *)
(* stops, restarts, tests and polls the platform's services with docker    *)
(* compose, keeps their environment overrides in Vault, their state in a   *)
(* cache in memory and an audit trail in the database (AuditWriter).       *)
(*                                                                         *)
(* No lock orders the requests: they interleave at every await.  Each      *)
(* request below is served once and its handler is cut at its awaits.      *)
(* The database, Vault, docker and the process itself may fail.            *)
(***************************************************************************)
EXTENDS Naturals, Sequences, FiniteSets

CONSTANTS
    Requests,   \* requests of one behaviour
    Services, Keys,
    Kind,       \* how the health of a service is probed
    DependsOn,  \* depends_on_services within the manifest, in order
    Schema,     \* keys of the service's form
    Probed,     \* services with a connectivity_probe_command
    MaxDepth,   \* MAX_DEPENDENCY_DEPTH
    Threshold,  \* HEALTH_FAIL_STREAK_THRESHOLD
    MaxFaults,  \* faults of one behaviour
    Mixes,      \* what the requests ask for, and what runs before them
    None

ASSUME BoundsAssumption == MaxDepth \in Nat \ {0} /\ Threshold \in Nat \ {0} /\ MaxFaults \in Nat
ASSUME ManifestAssumption ==
    /\ Kind \in [Services -> {"worker", "http", "none"}]
    /\ DependsOn \in [Services -> Seq(Services)]
    /\ Schema \in [Services -> SUBSET Keys]
    /\ Probed \subseteq Services
    /\ None \notin Requests

Ops == {"start", "stop", "purge", "restart", "tests", "poll", "external", "forbidden", "probe", "-"}
MixShape == [ask: [Requests -> [op: Ops, svc: Services]],
             faults: 0..MaxFaults,
             off: SUBSET Services,    \* a feature flag of these is disabled
             warm: SUBSET Services]   \* started by the dashboard before

ASSUME MixesAssumption == Mixes \subseteq MixShape

SlotStates == {"stopped", "starting", "running", "unhealthy", "failed", "running_unmonitored"}

\* A value of an override is the request that submitted it; "old" was there before.
Values == Requests \cup {"old", None}

VARIABLES
    mix,
    q,        \* per request: where its handler is and its locals
    slot,     \* LifecycleStateCache per service; told counts its alerts (history)
    box,      \* docker: per service whether it is up, its overrides and who started it
    vault,    \* per service and key the stored value
    ext,      \* streak of the external provider
    db, pool, \* the audit database answers; AuditWriter._pool is not None
    log,      \* rows of shared.audit_log
    queue,    \* AuditWriter._deferred_queue
    due,      \* history: rows that were ever deferred
    faults,   \* faults left
    gone,     \* history: rows that were neither written nor kept for a retry
    seen      \* history: {"closed", "crash", "vault"} and services two requests touched at once

vars == <<mix, q, slot, box, vault, ext, db, pool, log, queue, due, faults, gone, seen>>
audit == <<db, pool, log, queue, due, gone>>

\* LifecycleStateCache of a service the process has not touched yet.
FreshSlot == [state |-> "stopped", streak |-> 0, alerted |-> FALSE, told |-> 0]

NoValues == [k \in Keys |-> None]
Frame(s, env) == [svc |-> s, deps |-> DependsOn[s], env |-> env]

\* What the request submits: the full form for a start, nothing for a dependency.
Submitted(r, s) == [k \in Keys |-> IF k \in Schema[s] THEN r ELSE None]
KeysOf(env) == {k \in Keys : env[k] # None}

Init ==
    /\ mix \in Mixes
    /\ q = [r \in Requests |->
              [pc |-> IF mix.ask[r].op = "-" THEN "done" ELSE "new",
               stack |-> <<>>, todo |-> {}, after |-> "-", res |-> "-", ans |-> "-", plan |-> {}]]
    /\ slot = [s \in Services |->
                 IF s \in mix.warm THEN [FreshSlot EXCEPT !.state = "running"] ELSE FreshSlot]
    /\ vault = [s \in Services |->
                  [k \in Keys |-> IF s \in mix.warm /\ k \in Schema[s] THEN "old" ELSE None]]
    /\ box = [s \in Services |-> [up |-> s \in mix.warm, env |-> vault[s],
                                  by |-> IF s \in mix.warm THEN "old" ELSE None]]
    /\ ext = [streak |-> 0, alerted |-> FALSE, told |-> 0]
    /\ db = TRUE /\ pool = TRUE
    /\ log = {} /\ queue = <<>> /\ due = {} /\ gone = {}
    /\ faults = mix.faults
    /\ seen = {}

op(r) == mix.ask[r].op
target(r) == mix.ask[r].svc
Top(r) == Head(q[r].stack)
Fault == faults > 0 /\ faults' = faults - 1
Row(r, s, action, outcome) == <<r, s, action, outcome>>

Goto(r, l) == q' = [q EXCEPT ![r].pc = l]
Answer(r, a) == q' = [q EXCEPT ![r].pc = "done", ![r].ans = a]

\* The handler's last await is over: the answer is sent.
Reply(r) == Answer(r, IF op(r) \in {"stop", "purge"} THEN "stopped" ELSE "ok")
-----------------------------------------------------------------------------
(* AuditWriter. *)

\* The actions the CHECK of shared.audit_log lets in.  It names neither the
\* depth guard's row nor a dependency's failure nor the connectivity probe.
Allowed == {"start", "stop", "restart", "run_tests", "health_streak_alert",
            "service_start_blocked_feature_flag", "purge_vault_blocked_in_production",
            "vault_overrides_purged", "vault_purge_partial_failure",
            "external_provider_probe_failed", "external_provider_streak_alert"}
Admitted(row) == row[3] \in Allowed

\* write raises what is no connection error: RuntimeError while a reset has
\* taken the pool, or the violated CHECK.
Raises(row) == ~pool \/ (db /\ ~Admitted(row))

\* write_with_retry: the row is written, or kept for the drainer when the
\* database is away; every other error is raised, and the row is lost.
\* Mutant: a row that cannot be written is dropped.
write_with_retry_Drops(row) ==
    /\ log' = IF pool /\ db THEN log \cup {row} ELSE log
    /\ gone' = IF pool /\ db THEN gone ELSE gone \cup {row}
    /\ UNCHANGED <<queue, due, db, pool>>

write_with_retry(row) ==
    LET deferred == pool /\ ~db IN
    /\ log' = IF Raises(row) \/ deferred THEN log ELSE log \cup {row}
    /\ queue' = IF deferred THEN Append(queue, row) ELSE queue
    /\ due' = IF deferred THEN due \cup {row} ELSE due
    /\ gone' = IF Raises(row) THEN gone \cup {row} ELSE gone
    /\ UNCHANGED <<db, pool>>

\* The step after the write_with_retry of an admitted row: l, or the exception.
Next_(l) == IF pool THEN l ELSE "raise"
ReplyOrRaise(r) == IF pool THEN Reply(r) ELSE Goto(r, "raise")

\* precheck: SELECT 1 answers, or fails and the pool is opened again; a
\* half-open connection times out although the database is there.
precheck(r) ==
    /\ q[r].pc = "precheck"
    /\ \/ /\ ~pool
          /\ Goto(r, "raise") /\ UNCHANGED <<pool, faults, seen>>
       \/ /\ pool /\ db
          /\ Goto(r, q[r].after) /\ UNCHANGED <<pool, faults, seen>>
       \/ /\ pool /\ (IF db THEN Fault ELSE UNCHANGED faults)
          /\ pool' = FALSE /\ seen' = seen \cup {"closed"}
          /\ Goto(r, "reopen")
    /\ UNCHANGED <<mix, slot, box, vault, ext, db, log, queue, due, gone>>

\* _reset_pool after the old pool is closed: the factory connects or raises,
\* and then nothing sets _pool again.
reset_pool(r) ==
    /\ q[r].pc = "reopen"
    /\ pool' = (pool \/ db)
    /\ Goto(r, IF db THEN "recheck" ELSE "raise")
    /\ UNCHANGED <<mix, slot, box, vault, ext, db, log, queue, due, gone, faults, seen>>

\* The second SELECT 1 of precheck.
recheck(r) ==
    /\ q[r].pc = "recheck"
    /\ Goto(r, IF pool /\ db THEN q[r].after ELSE "raise")
    /\ UNCHANGED <<mix, slot, box, vault, ext, audit, faults, seen>>

\* _drain_deferred_queue: one round.  A connection error puts the entry back
\* at the tail; any other exception, the violated CHECK included, drops it.
\* Mutant: a round puts the entry back without having tried it.
drain_deferred_queue_Untried ==
    /\ queue # <<>>
    /\ queue' = Append(Tail(queue), Head(queue))
    /\ UNCHANGED <<mix, q, slot, box, vault, ext, db, pool, log, due, gone, faults, seen>>

drain_deferred_queue ==
    LET entry == Head(queue) IN
    /\ queue # <<>>
    /\ \/ /\ Raises(entry)
          /\ queue' = Tail(queue) /\ gone' = gone \cup {entry} /\ UNCHANGED log
       \/ /\ pool /\ ~db
          /\ queue' = Append(Tail(queue), entry) /\ UNCHANGED <<log, gone>>
       \/ /\ pool /\ db /\ Admitted(entry)
          /\ log' = log \cup {entry} /\ queue' = Tail(queue) /\ UNCHANGED gone
    /\ UNCHANGED <<mix, q, slot, box, vault, ext, db, pool, due, faults, seen>>
-----------------------------------------------------------------------------
(* Health. *)

\* A worker is judged by its container and Temporal; the port is never asked.
has_running_container(there) == {there, FALSE}
probe_temporal_worker(there) ==
    UNION {IF c THEN {"healthy", "silent"} ELSE {"silent"} : c \in has_running_container(there)}

\* No health endpoint: docker inspect, and running_unmonitored when it says
\* nothing, which is also its answer for a container that does not exist.
docker_inspect_health_status(there) ==
    IF there THEN {"healthy", "unhealthy", "starting", ""} ELSE {"unhealthy", ""}
probe_assume_running(there) ==
    { CASE x = "" -> "running_unmonitored" [] x = "unhealthy" -> "silent" [] OTHER -> x :
      x \in docker_inspect_health_status(there) }

\* An HTTP service: docker's own health status when that is preferred and
\* known, else /healthz and /readyz; "answered" when one of them answered.
probe_docker_health(there) == IF there THEN {"healthy", "silent", "starting"} ELSE {}
probe_http(there) ==
    probe_docker_health(there) \cup (IF there THEN {"healthy", "answered", "silent"} ELSE {"silent"})

\* HealthProbe.probe: "silent" and "answered" are the unhealthy snapshots.
probe(s) ==
    CASE Kind[s] = "worker" -> probe_temporal_worker(box[s].up)
      [] Kind[s] = "http"   -> probe_http(box[s].up)
      [] Kind[s] = "none"   -> probe_assume_running(box[s].up)

\* health_of: a cached snapshot ends the request; otherwise the probe is awaited.
health_of(r) ==
    /\ q[r].pc = "poll"
    /\ \/ Answer(r, "ok")
       \/ \E x \in probe(target(r)) :
             q' = [q EXCEPT ![r].pc = "apply", ![r].res = x]
    /\ UNCHANGED <<mix, slot, box, vault, ext, audit, faults, seen>>

\* The state an unhealthy snapshot gives a slot.
Sickened(x, state) ==
    IF state \in {"running", "starting"} \/ (state \in {"stopped", "failed"} /\ x = "answered")
    THEN "unhealthy" ELSE state

\* What health_of does with the snapshot, up to the await of the alert.
apply_snapshot(r) ==
    LET s == target(r)
        x == q[r].res
    IN  /\ q[r].pc = "apply"
        /\ \/ /\ x \in {"silent", "answered"}
              /\ LET n == slot[s].streak + 1 IN
                 IF n >= Threshold /\ ~slot[s].alerted
                 THEN slot' = [slot EXCEPT ![s].streak = n] /\ Goto(r, "alert")
                 ELSE /\ slot' = [slot EXCEPT ![s].streak = n, ![s].state = Sickened(x, @)]
                      /\ Answer(r, "ok")
           \/ /\ x = "healthy"
              /\ slot' = [slot EXCEPT ![s].streak = 0, ![s].alerted = FALSE, ![s].told = 0,
                    ![s].state = IF @ = "running_unmonitored" THEN @ ELSE "running"]
              /\ Answer(r, "ok")
           \/ /\ x \in {"starting", "running_unmonitored"}
              /\ slot' = [slot EXCEPT ![s].state = x]
              /\ Answer(r, "ok")
        /\ UNCHANGED <<mix, box, vault, ext, audit, faults, seen>>

\* The health_streak_alert row is awaited before the flag is set.
health_streak_alert(r) ==
    /\ q[r].pc = "alert"
    /\ write_with_retry(Row(r, target(r), "health_streak_alert", "success"))
    /\ slot' = [slot EXCEPT ![target(r)].told = IF pool THEN @ + 1 ELSE @]
    /\ Goto(r, Next_("alerted"))
    /\ UNCHANGED <<mix, box, vault, ext, faults, seen>>

streak_alert_emitted(r) ==
    /\ q[r].pc = "alerted"
    /\ slot' = [slot EXCEPT ![target(r)].alerted = TRUE, ![target(r)].state = Sickened(q[r].res, @)]
    /\ Answer(r, "ok")
    /\ UNCHANGED <<mix, box, vault, ext, audit, faults, seen>>
-----------------------------------------------------------------------------
(* Start. *)

\* A service and what it depends on, n edges deep.
Below[n \in Nat] ==
    [s \in Services |->
       IF n = 0 THEN {s}
       ELSE {s} \cup UNION {Below[n - 1][DependsOn[s][i]] : i \in DOMAIN DependsOn[s]}]

\* compute_start_plan: the preview the UI shows before a start.
compute_start_plan(s) == {d \in Below[MaxDepth][s] : slot[d].state # "running"}

\* A disabled or missing flag leaves its row and raises; a failed read of the
\* flags raises alone.  A service without flags, or a dashboard without a
\* reader, reads nothing.
check_feature_flags(r, s) ==
    \/ /\ ~db
       /\ Goto(r, "raise") /\ UNCHANGED audit
    \/ /\ s \in mix.off
       /\ write_with_retry(Row(r, s, "service_start_blocked_feature_flag", "failed"))
       /\ Goto(r, "raise")
    \/ /\ s \notin mix.off
       /\ Goto(r, "deps") /\ UNCHANGED audit

\* The depth guard, then the feature flags.
do_start(r) ==
    LET s == Top(r).svc
        deep == Len(q[r].stack) - 1 >= MaxDepth
    IN  /\ q[r].pc = "enter"
        /\ \/ /\ deep
              /\ write_with_retry(Row(r, s, "dependency_chain_max_depth_exceeded", "failed"))
              /\ Goto(r, "raise")
           \/ /\ ~deep
              /\ check_feature_flags(r, s)
        /\ UNCHANGED <<mix, slot, box, vault, ext, faults, seen>>

\* The submitted keys must be the form's keys; then the precheck.
validate_env_overrides(r) ==
    LET f == Top(r) IN
    q' = IF KeysOf(f.env) = Schema[f.svc]
         THEN [q EXCEPT ![r].pc = "precheck", ![r].after = "vault", ![r].todo = Schema[f.svc]]
         ELSE [q EXCEPT ![r].pc = "raise"]

\* One turn of the loop over depends_on_services.  A dependency is started
\* with an empty form.
start_dependencies(r) ==
    LET f == Top(r) IN
    /\ q[r].pc = "deps"
    /\ IF f.deps = <<>> THEN validate_env_overrides(r)
       ELSE LET d == Head(f.deps)
                rest == [f EXCEPT !.deps = Tail(@)]
            IN IF slot[d].state \in {"running", "starting"}
               THEN q' = [q EXCEPT ![r].stack = <<rest>> \o Tail(@)]
               ELSE q' = [q EXCEPT ![r].stack = <<Frame(d, NoValues), rest>> \o Tail(@), ![r].pc = "enter"]
    /\ UNCHANGED <<mix, slot, box, vault, ext, audit, faults, seen>>

\* One PUT per key; a failure leaves the keys written before it.
write_env_override(r) ==
    LET f == Top(r) IN
    /\ q[r].pc = "vault"
    /\ \/ /\ q[r].todo = {}
          /\ Goto(r, "pending") /\ UNCHANGED <<vault, faults, seen>>
       \/ \E k \in q[r].todo :
             /\ vault' = [vault EXCEPT ![f.svc][k] = f.env[k]]
             /\ q' = [q EXCEPT ![r].todo = @ \ {k}]
             /\ UNCHANGED <<faults, seen>>
       \/ /\ q[r].todo # {} /\ Fault
          /\ Goto(r, "raise") /\ seen' = seen \cup {"vault"} /\ UNCHANGED vault
    /\ UNCHANGED <<mix, slot, box, ext, audit>>

\* The pending row is written, not deferred, before anything is started.
pending_row(r) ==
    LET s == Top(r).svc IN
    /\ q[r].pc = "pending"
    /\ IF pool /\ db
       THEN /\ log' = log \cup {Row(r, s, "start", "pending")}
            /\ slot' = [slot EXCEPT ![s].state = "starting"]
            /\ Goto(r, "up")
       ELSE Goto(r, "raise") /\ UNCHANGED <<log, slot>>
    /\ UNCHANGED <<mix, box, vault, ext, db, pool, queue, due, gone, faults, seen>>

\* ComposeRunner.up and stop as far as docker is concerned.
up(s, env, r) == box' = [box EXCEPT ![s] = [up |-> TRUE, env |-> env, by |-> r]]
stop_container(s) == box' = [box EXCEPT ![s].up = FALSE]

\* docker compose up: the container runs with the submitted overrides, or the
\* command fails and the slot is failed.
compose_up(r) ==
    LET f == Top(r)
        s == f.svc
    IN  /\ q[r].pc = "up"
        /\ \/ /\ up(s, f.env, r)
              /\ Goto(r, "wait") /\ UNCHANGED <<slot, audit, faults>>
           \/ /\ Fault
              /\ slot' = [slot EXCEPT ![s].state = "failed"]
              /\ write_with_retry(Row(r, s, "start", "failed"))
              /\ Goto(r, "raise") /\ UNCHANGED box
        /\ UNCHANGED <<mix, vault, ext, seen>>

\* _wait_for_healthy: polls until a good snapshot, or a bad one at the deadline.
wait_for_healthy(r) ==
    /\ q[r].pc = "wait"
    /\ \E x \in probe(Top(r).svc) :
          q' = IF x \in {"healthy", "running_unmonitored"}
               THEN [q EXCEPT ![r].pc = "connectivity", ![r].res = "success"]
               ELSE [q EXCEPT ![r].pc = "finish", ![r].res = "failed"]
    /\ UNCHANGED <<mix, slot, box, vault, ext, audit, faults, seen>>

\* _run_connectivity_probe: a blocking subprocess, then its row, which raises
\* with the database up: the start ends there, its slot still starting.
run_connectivity_probe(r) ==
    LET s == IF op(r) = "probe" THEN target(r) ELSE Top(r).svc
    IN  /\ q[r].pc = "connectivity"
        /\ IF s \in Probed
           THEN \E o \in {"success", "failed"} :
                   LET row == Row(r, s, IF o = "success" THEN "service_connectivity_probe_passed"
                                        ELSE "service_connectivity_probe_failed", o)
                   IN  /\ write_with_retry(row)
                       /\ IF Raises(row) THEN Goto(r, "raise")
                          ELSE IF op(r) = "probe" THEN Reply(r) ELSE Goto(r, "finish")
           ELSE (IF op(r) = "probe" THEN Reply(r) ELSE Goto(r, "finish")) /\ UNCHANGED audit
        /\ UNCHANGED <<mix, slot, box, vault, ext, faults, seen>>

\* The outcome is put into the slot whatever it holds by now, and the final row.
finish_start(r) ==
    LET s == Top(r).svc IN
    /\ q[r].pc = "finish"
    /\ slot' = IF q[r].res = "success" THEN [slot EXCEPT ![s] = [FreshSlot EXCEPT !.state = "running"]]
               ELSE [slot EXCEPT ![s].state = "failed"]
    /\ write_with_retry(Row(r, s, "start", q[r].res))
    /\ Goto(r, Next_("return"))
    /\ UNCHANGED <<mix, box, vault, ext, faults, seen>>

\* _do_start returns: to the caller's loop when it was a dependency, whatever
\* its outcome, or with the state the slot has now.
return_start(r) ==
    /\ q[r].pc = "return"
    /\ IF Len(q[r].stack) > 1
       THEN q' = [q EXCEPT ![r].stack = Tail(@), ![r].pc = "deps"]
       ELSE Answer(r, slot[target(r)].state)
    /\ UNCHANGED <<mix, slot, box, vault, ext, audit, faults, seen>>

\* An exception: every caller above writes dependency_start_failed and raises,
\* whether or not the row got in.
raise(r) ==
    /\ q[r].pc = "raise"
    /\ IF Len(q[r].stack) > 1
       THEN LET caller == Tail(q[r].stack) IN
            /\ write_with_retry(Row(r, Head(caller).svc, "dependency_start_failed", "failed"))
            /\ q' = [q EXCEPT ![r].stack = caller]
       ELSE Answer(r, "error") /\ UNCHANGED audit
    /\ UNCHANGED <<mix, slot, box, vault, ext, faults, seen>>
-----------------------------------------------------------------------------
(* Stop, purge, restart. *)

\* Mutant: the slot is marked before compose has stopped anything.
stop_Early(r) ==
    /\ q[r].pc = "stop"
    /\ slot' = [slot EXCEPT ![target(r)].state = "stopped"]
    /\ q' = [q EXCEPT ![r].pc = "precheck",
                      ![r].after = IF slot[target(r)].state = "stopped" THEN "noop" ELSE "halt"]
    /\ UNCHANGED <<mix, box, vault, ext, audit, faults, seen>>

stop(r) ==
    /\ q[r].pc = "stop"
    /\ q' = [q EXCEPT ![r].pc = "precheck",
                      ![r].after = IF slot[target(r)].state = "stopped" THEN "noop" ELSE "halt"]
    /\ UNCHANGED <<mix, slot, box, vault, ext, audit, faults, seen>>

list_env_override_keys(s) == KeysOf(vault[s])

\* Where stop goes when its own row is written: restart lists the stored
\* overrides, to read them back.
restart(r) == q' = [q EXCEPT ![r].pc = "list", ![r].stack = <<Frame(target(r), NoValues)>>]
AfterStop(r) == IF op(r) = "restart" /\ pool THEN restart(r) ELSE ReplyOrRaise(r)

stop_noop(r) ==
    /\ q[r].pc = "noop"
    /\ write_with_retry(Row(r, target(r), "stop", "success"))
    /\ AfterStop(r)
    /\ UNCHANGED <<mix, slot, box, vault, ext, faults, seen>>

\* docker compose stop, and its failure: the slot stays as it is.  A stop or
\* a purge may ask for remove_volumes, which is a second command.
compose_stop(r) ==
    LET s == target(r) IN
    /\ q[r].pc = "halt"
    /\ \/ /\ stop_container(s)
          /\ \E l \in {"halted"} \cup (IF op(r) = "restart" THEN {} ELSE {"rm"}) : Goto(r, l)
          /\ UNCHANGED <<audit, faults>>
       \/ /\ Fault
          /\ write_with_retry(Row(r, s, "stop", "failed"))
          /\ Goto(r, "raise") /\ UNCHANGED box
    /\ UNCHANGED <<mix, slot, vault, ext, seen>>

\* docker compose rm -fv: its failure is the stop's, although the container is down.
compose_rm(r) ==
    /\ q[r].pc = "rm"
    /\ \/ Goto(r, "halted") /\ UNCHANGED <<audit, faults>>
       \/ /\ Fault
          /\ write_with_retry(Row(r, target(r), "stop", "failed"))
          /\ Goto(r, "raise")
    /\ UNCHANGED <<mix, slot, box, vault, ext, seen>>

finish_stop(r) ==
    LET s == target(r) IN
    /\ q[r].pc = "halted"
    /\ slot' = [slot EXCEPT ![s] = FreshSlot]
    /\ write_with_retry(Row(r, s, "stop", "success"))
    /\ IF op(r) = "purge" /\ pool THEN Goto(r, "list") ELSE AfterStop(r)
    /\ UNCHANGED <<mix, box, vault, ext, faults, seen>>

\* The listing of the stored keys, for a purge or for a restart.
list_overrides(r) ==
    /\ q[r].pc = "list"
    /\ \/ /\ q' = [q EXCEPT ![r].todo = list_env_override_keys(target(r)),
                            ![r].pc = IF op(r) = "purge" THEN "purge" ELSE "reread"]
          /\ UNCHANGED <<faults, seen>>
       \/ /\ Fault
          /\ Goto(r, IF op(r) = "purge" THEN "purge_failed" ELSE "raise")
          /\ seen' = seen \cup {"vault"}
    /\ UNCHANGED <<mix, slot, box, vault, ext, audit>>

delete_env_override(s, k) == vault' = [vault EXCEPT ![s][k] = None]

\* Deletes key by key, and its row when none is left.
purge_vault_overrides(r) ==
    LET s == target(r) IN
    /\ q[r].pc = "purge"
    /\ \/ \E k \in q[r].todo :
             /\ delete_env_override(s, k)
             /\ q' = [q EXCEPT ![r].todo = @ \ {k}]
             /\ UNCHANGED <<audit, faults, seen>>
       \/ /\ q[r].todo # {} /\ Fault
          /\ Goto(r, "purge_failed")
          /\ seen' = seen \cup {"vault"} /\ UNCHANGED <<vault, audit>>
       \/ /\ q[r].todo = {}
          /\ write_with_retry(Row(r, s, "vault_overrides_purged", "success"))
          /\ ReplyOrRaise(r) /\ UNCHANGED <<vault, faults, seen>>
    /\ UNCHANGED <<mix, slot, box, ext>>

\* A Vault failure of the listing or of a delete ends the purge with its own
\* row, not an error.
vault_purge_partial_failure(r) ==
    /\ q[r].pc = "purge_failed"
    /\ write_with_retry(Row(r, target(r), "vault_purge_partial_failure", "failed"))
    /\ ReplyOrRaise(r)
    /\ UNCHANGED <<mix, slot, box, vault, ext, faults, seen>>

\* restart reads the overrides back key by key and submits them.
read_env_overrides(r) ==
    LET s == target(r) IN
        /\ q[r].pc = "reread"
        /\ \/ /\ q[r].todo = {}
              /\ Goto(r, "enter") /\ UNCHANGED <<faults, seen>>
           \/ \E k \in q[r].todo :
                 /\ q' = [q EXCEPT ![r].stack[1].env[k] = vault[s][k],
                                   ![r].todo = @ \ {k}]
                 /\ UNCHANGED <<faults, seen>>
           \/ /\ q[r].todo # {} /\ Fault
              /\ Goto(r, "raise")
              /\ seen' = seen \cup {"vault"}
        /\ UNCHANGED <<mix, slot, box, vault, ext, audit>>
-----------------------------------------------------------------------------
(* Tests, the external provider, the forbidden purge, replies. *)

\* docker compose exec needs a running container.
exec_test(s) == IF box[s].up THEN {"success", "failed"} ELSE {"failed"}

run_tests(r) ==
    /\ q[r].pc = "tests"
    /\ IF slot[target(r)].state \in {"running", "running_unmonitored"}
       THEN \E o \in exec_test(target(r)) :
               /\ write_with_retry(Row(r, target(r), "run_tests", o))
               /\ ReplyOrRaise(r)
       ELSE Goto(r, "raise") /\ UNCHANGED audit
    /\ UNCHANGED <<mix, slot, box, vault, ext, faults, seen>>

\* probe_external, or its cached result.
probe_external == {"ok", "unauthorized", "rate_limited", "unreachable"}

\* emit_probe_audit counts the result at once and leaves a row per failure;
\* the route swallows an audit error.
emit_probe_audit(r) ==
    /\ q[r].pc = "external"
    /\ \/ /\ "ok" \in probe_external
          /\ ext' = [streak |-> 0, alerted |-> FALSE, told |-> 0]
          /\ Reply(r) /\ UNCHANGED audit
       \/ /\ probe_external \ {"ok"} # {}
          /\ ext' = [ext EXCEPT !.streak = @ + 1]
          /\ write_with_retry(Row(r, target(r), "external_provider_probe_failed", "failed"))
          /\ IF pool THEN Goto(r, "external_alert") ELSE Reply(r)
    /\ UNCHANGED <<mix, slot, box, vault, faults, seen>>

external_streak_alert(r) ==
    /\ q[r].pc = "external_alert"
    /\ IF ext.streak >= Threshold /\ ~ext.alerted
       THEN /\ write_with_retry(Row(r, target(r), "external_provider_streak_alert", "failed"))
            /\ ext' = [ext EXCEPT !.told = IF pool THEN @ + 1 ELSE @]
            /\ IF pool THEN Goto(r, "external_alerted") ELSE Reply(r)
       ELSE Reply(r) /\ UNCHANGED <<audit, ext>>
    /\ UNCHANGED <<mix, slot, box, vault, faults, seen>>

external_alert_emitted(r) ==
    /\ q[r].pc = "external_alerted"
    /\ ext' = [ext EXCEPT !.alerted = TRUE]
    /\ Reply(r)
    /\ UNCHANGED <<mix, slot, box, vault, audit, faults, seen>>

\* purge_vault in production: a row and 403.
record_purge_vault_blocked(r) ==
    /\ q[r].pc = "forbidden"
    /\ write_with_retry(Row(r, target(r), "purge_vault_blocked_in_production", "failed"))
    /\ Goto(r, "raise")
    /\ UNCHANGED <<mix, slot, box, vault, ext, faults, seen>>

-----------------------------------------------------------------------------
\* Services a request may change.
Touched(r) == IF op(r) \in {"start", "restart"} THEN Below[MaxDepth][target(r)] ELSE {target(r)}
Busy == {r \in Requests : q[r].pc \notin {"new", "done"}}

\* The route's handler is entered at l with the frames f.
Enter(r, l, f) ==
    /\ q[r].pc = "new"
    /\ q' = [q EXCEPT ![r].pc = l, ![r].stack = f,
                      ![r].plan = IF op(r) = "start" THEN compute_start_plan(target(r)) ELSE {}]
    /\ seen' = seen \cup UNION {Touched(r) \cap Touched(o) : o \in Busy}
    /\ UNCHANGED <<mix, slot, box, vault, ext, audit, faults>>

\* The routes.  What a handler raises becomes a 4xx or 5xx answer ("error").
start_service(r) ==
    op(r) = "start" /\ Enter(r, "enter", <<Frame(target(r), Submitted(r, target(r)))>>)
stop_service(r) ==
    \/ op(r) \in {"stop", "purge"} /\ Enter(r, "stop", <<>>)
    \/ op(r) = "forbidden" /\ Enter(r, "forbidden", <<>>)
restart_service(r) == op(r) = "restart" /\ Enter(r, "stop", <<>>)
run_service_tests(r) == op(r) = "tests" /\ Enter(r, "tests", <<>>)
probe_service_connectivity(r) == op(r) = "probe" /\ Enter(r, "connectivity", <<>>)
refresh_manifest_health_cache(r) == op(r) = "poll" /\ Enter(r, "poll", <<>>)
list_external_services(r) == op(r) = "external" /\ Enter(r, "external", <<>>)

Arrive(r) ==
    \/ start_service(r) \/ stop_service(r) \/ restart_service(r) \/ run_service_tests(r)
    \/ probe_service_connectivity(r) \/ refresh_manifest_health_cache(r) \/ list_external_services(r)

\* The audit database goes away and comes back.
DatabaseFails == db /\ Fault /\ db' = FALSE
                 /\ UNCHANGED <<mix, q, slot, box, vault, ext, pool, log, queue, due, gone, seen>>
DatabaseReturns == ~db /\ db' = TRUE
                   /\ UNCHANGED <<mix, q, slot, box, vault, ext, pool, log, queue, due, faults, gone, seen>>

\* The process restarts: requests, cache and queue are lost.
Crash ==
    /\ db /\ Fault
    /\ q' = [r \in Requests |-> IF r \in Busy
              THEN [q[r] EXCEPT !.pc = "done", !.ans = "crash", !.stack = <<>>] ELSE q[r]]
    /\ slot' = [s \in Services |-> FreshSlot]
    /\ ext' = [streak |-> 0, alerted |-> FALSE, told |-> 0]
    /\ pool' = TRUE
    /\ queue' = <<>> /\ gone' = gone \cup {queue[i] : i \in DOMAIN queue}
    /\ seen' = seen \cup {"crash"}
    /\ UNCHANGED <<mix, box, vault, db, log, due>>

Step(r) ==
    \/ precheck(r) \/ reset_pool(r) \/ recheck(r)
    \/ health_of(r) \/ apply_snapshot(r) \/ health_streak_alert(r) \/ streak_alert_emitted(r)
    \/ do_start(r) \/ start_dependencies(r) \/ write_env_override(r)
    \/ pending_row(r) \/ compose_up(r) \/ wait_for_healthy(r) \/ run_connectivity_probe(r)
    \/ finish_start(r) \/ return_start(r) \/ raise(r)
    \/ stop(r) \/ stop_noop(r) \/ compose_stop(r) \/ compose_rm(r) \/ finish_stop(r)
    \/ list_overrides(r) \/ purge_vault_overrides(r) \/ vault_purge_partial_failure(r) \/ read_env_overrides(r)
    \/ run_tests(r) \/ emit_probe_audit(r) \/ external_streak_alert(r) \/ external_alert_emitted(r)
    \/ record_purge_vault_blocked(r)

Next ==
    \/ \E r \in Requests : Arrive(r) \/ Step(r)
    \/ drain_deferred_queue
    \/ DatabaseFails \/ DatabaseReturns \/ Crash

Spec ==
    /\ Init /\ [][Next]_vars
    /\ \A r \in Requests : WF_vars(Step(r))
    /\ WF_vars(drain_deferred_queue)
-----------------------------------------------------------------------------
Rows == Requests \X Services \X STRING \X {"pending", "success", "failed"}

TypeOK ==
    /\ mix \in Mixes
    /\ \A r \in Requests :
          /\ q[r].todo \subseteq Keys
          /\ \A i \in DOMAIN q[r].stack :
                q[r].stack[i].svc \in Services /\ q[r].stack[i].env \in [Keys -> Values]
    /\ \A s \in Services :
          /\ slot[s].state \in SlotStates /\ slot[s].streak \in Nat /\ slot[s].told \in Nat
          /\ box[s].up \in BOOLEAN /\ box[s].env \in [Keys -> Values] /\ box[s].by \in Values
          /\ vault[s] \in [Keys -> Values]
    /\ ext.streak \in Nat /\ db \in BOOLEAN /\ pool \in BOOLEAN /\ faults \in 0..MaxFaults
    /\ log \cup due \cup gone \subseteq Rows /\ \A i \in DOMAIN queue : queue[i] \in Rows

\* Audit-or-rollback: a container the dashboard started has its pending row in
\* the database, whatever became of the request (_do_start writes the row
\* before compose up and does not defer it).
AuditOrRollback ==
    \A s \in Services : box[s].by \in Requests => Row(box[s].by, s, "start", "pending") \in log

\* A row the database admits is lost only by a restart of the process or after
\* a precheck closed the pool: an outage of the database alone loses none
\* (write_with_retry defers, the drainer puts back what it cannot write).
RowsOutliveOutages == (\E row \in gone : Admitted(row)) => seen \cap {"closed", "crash"} # {}

\* An answered start has its final row written, kept for a retry, or lost.
AnsweredIsRecorded ==
    \A r \in Requests :
        (op(r) = "start" /\ q[r].pc = "done" /\ q[r].ans \in SlotStates) =>
            \E o \in {"success", "failed"} :
                Row(r, target(r), "start", o) \in log \cup gone \cup {queue[i] : i \in DOMAIN queue}

\* The audit trail of the dashboard over outages, restarts and retries.
CommandsAreRecorded ==
    /\ TypeOK
    /\ AuditOrRollback
    /\ RowsOutliveOutages
    /\ AnsweredIsRecorded

\* A slot says stopped while its container is up only when requests
\* overlapped on the service or the cache was lost in a restart.
StoppedMeansDown ==
    \A s \in Services : (slot[s].state = "stopped" /\ box[s].up) => seen \cap {s, "crash"} # {}

\* A slot says running while its container is down only when requests
\* overlapped on the service, a stop is between its commands, or one of those
\* failed and the stop was recorded as failed (stop leaves the slot as it is).
RunningMeansUp ==
    \A s \in Services :
        (slot[s].state = "running" /\ ~box[s].up) =>
            \/ s \in seen
            \/ \E r \in Busy : q[r].pc \in {"rm", "halted"} /\ target(r) = s
            \/ \E r \in Requests :
                  Row(r, s, "stop", "failed") \in log \cup gone \cup {queue[i] : i \in DOMAIN queue}

\* A service the dashboard started had its dependencies started before it,
\* unless another request's start of the dependency was trusted.
DependentNeedsDependency ==
    \A s \in Services : box[s].by \in Requests =>
        \A i \in DOMAIN DependsOn[s] :
            box[DependsOn[s][i]].by # None \/ DependsOn[s][i] \in seen

\* One streak is alerted once, unless two polls overlapped.
OneAlertPerStreak ==
    /\ \A s \in Services : slot[s].told > 1 => s \in seen
    /\ ext.told > 1 => \E r \in Requests : op(r) = "external" /\ target(r) \in seen

\* A container runs with the overrides of one submission; a mixture of two
\* needs a failed Vault call, a crash between two writes or an overlap.
OneSubmission ==
    \A s \in Services :
        Cardinality({box[s].env[k] : k \in Schema[s]}) > 1 => seen \cap {s, "vault", "crash"} # {}

\* A start begins no service its preview did not list, unless requests
\* overlapped on that service (compute_start_plan and _start_dependencies
\* read the states at different times and by different rules).
PlanIsKept ==
    \A r \in Requests, s \in Services :
        (op(r) = "start" /\ Row(r, s, "start", "pending") \in log) => s \in q[r].plan \cup seen \cup {target(r)}

\* A restart that fails before it has brought the container up leaves the service
\* down only after a fault, an overlap, a disabled flag, overrides Vault does not
\* hold or a dependency that asks for a form (restart stops first).
RestartKeepsServiceUp ==
    \A r \in Requests :
        (op(r) = "restart" /\ q[r].ans = "error" /\ ~box[target(r)].up /\ box[target(r)].by # r) =>
            \/ faults < mix.faults \/ target(r) \in seen
            \/ KeysOf(Top(r).env) # Schema[target(r)]
            \/ \E s \in Below[MaxDepth][target(r)] : s \in mix.off \/ (s # target(r) /\ Schema[s] # {})

\* What the dashboard says and does about a service, with requests and polls in
\* flight: the cached state is the container's, a dependency comes first, and
\* alerts, overrides, plans and restarts are what they were asked to be.
SlotsAreTrue ==
    /\ StoppedMeansDown
    /\ RunningMeansUp
    /\ DependentNeedsDependency
    /\ OneAlertPerStreak
    /\ OneSubmission
    /\ PlanIsKept
    /\ RestartKeepsServiceUp

\* Once the database is back for good, every row that was ever deferred is in
\* shared.audit_log, unless its action is one the CHECK refuses, or the process
\* restarted or a precheck took the pool away: no retry of the drainer loses it.
DeferredIsWritten ==
    <>[]db => <>[](\/ \A row \in due : Admitted(row) => row \in log
                   \/ seen \cap {"closed", "crash"} # {})
=============================================================================
