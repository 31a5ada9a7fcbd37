---------------------------- MODULE DeptCredentials ----------------------------
(***************************************************************************)
(* Department credentials: DeptCredentialService (add, remove, probe),     *)
(* DepartmentCreateOrchestrator and the wizard, rotation, disabling, bulk  *)
(* import, CredentialResolver and the account checks of the service's      *)
(* start, all in automation-service; and the departments.json editor of    *)
(* admin-dashboard-api.                                                    *)
(*                                                                         *)
(* A credential lives in three places: a secret in Vault, a row of         *)
(* automation.department_bots that names it, and the account probed from   *)
(* it in department_bot_identity.  Vault calls are synchronous and take no *)
(* part in the database transaction; handlers interleave at their awaits.  *)
(***************************************************************************)
EXTENDS Naturals, FiniteSets

CONSTANTS
    Requests, Depts, Services, Accts,
    Mixes,      \* what the requests ask for and the state they find
    MaxFaults,  \* failures of Vault, the database, the audit sink or the process
    Ttl,        \* _CACHE_TTL in ticks
    MaxTicks,
    None

Pairs == Depts \X Services
Locks == Pairs \cup (Depts \X {"row"})
\* Who wrote a secret; "ext" is the one at a path of the operator's own.
Writers == Requests \cup {"old", "ext", None}

Ops == {"add", "remove", "probe", "create", "wizard", "bulk", "dryrun", "rotate", "disable",
        "view", "get", "startup", "cfgNew", "cfgPatch", "cfgOff", "-"}
Ask == [op: Ops, dept: Depts, svcs: SUBSET Services, acct: Accts, typed: Accts \cup {None},
        role: {"admin", "dept_admin", "lead"}, own: Depts, proc: {"p1", "p2"},
        wf: BOOLEAN]  \* the body is well formed
Entry == [mode: {"absent", "active", "disabled"}, acct: Accts \cup {None}]
MixShape == [ask: [Requests -> Ask], faults: 0..MaxFaults, ticks: 0..MaxTicks,
             cfg: [Depts -> Entry], entries: SUBSET Services, known: SUBSET Depts,
             old: SUBSET Pairs, oldAcct: [Depts -> Accts],
             ref: {"final", "other"}]  \* the credential_ref of departments.json and of an import

ASSUME BoundsAssumption == MaxFaults \in Nat /\ Ttl \in Nat \ {0} /\ MaxTicks \in Nat
ASSUME MixesAssumption == Mixes \subseteq MixShape /\ None \notin Requests \cup Accts

VARIABLES
    mix,
    q,         \* per request: where its handler is and its locals
    cfg,       \* config/departments.json
    dept,      \* automation.departments: mode
    bots,      \* automation.department_bots, committed rows
    identity,  \* automation.department_bot_identity: account
    final,     \* vault:atlassian/<dept>/<service>
    staging,   \* vault:atlassian/_staging/<request>/<service>
    held,      \* row locks of open transactions
    flock,     \* .departments.json.lock
    stuck,     \* processes of admin-dashboard-api whose event loop waits for itself
    cache,     \* CredentialResolver._cred_cache
    log,       \* audit rows
    faults, ticks,
    blame,     \* history: pairs whose row and secret were put apart, and why
    replaced   \* history: ticks since a writer's secret stopped being the one in Vault

vars == <<mix, q, cfg, dept, bots, identity, final, staging, held, flock, stuck, cache, log,
          faults, ticks, blame, replaced>>
vaultVars == <<final, staging, replaced>>
rowVars == <<dept, bots, held>>
fileVars == <<cfg, flock, stuck>>

NoRow == [by |-> None, acct |-> None, ref |-> "final"]
NoSecret == [by |-> None, full |-> FALSE]
NoEntry == [by |-> None, age |-> 0]

ask(r) == mix.ask[r]
op(r) == ask(r).op
d(r) == ask(r).dept
svc(r) == CHOOSE s \in ask(r).svcs : TRUE
pair(r) == <<d(r), svc(r)>>
pairs(r) == {d(r)} \X ask(r).svcs
deptRow(r) == <<d(r), "row">>
\* The account a secret of this writer signs in as.
AcctOf(p, w) == IF w = "old" THEN mix.oldAcct[p[1]] ELSE ask(w).acct

Init ==
    /\ mix \in Mixes
    /\ q = [r \in Requests |-> [pc |-> IF op(r) = "-" THEN "done" ELSE "new", reply |-> "-",
                                doc |-> mix.cfg, snap |-> NoSecret, base |-> NoSecret,
                                read |-> None, age |-> 0]]
    /\ cfg = mix.cfg
    /\ dept = [x \in Depts |-> IF x \in mix.known THEN "active" ELSE "absent"]
    /\ bots = [p \in Pairs |-> IF p \in mix.old THEN [by |-> "old", acct |-> mix.oldAcct[p[1]], ref |-> "final"] ELSE NoRow]
    /\ identity = [p \in Pairs |-> None]
    /\ final = [p \in Pairs |-> IF p \in mix.old THEN [by |-> "old", full |-> TRUE] ELSE NoSecret]
    /\ staging = {} /\ log = {}
    /\ held = [x \in Locks |-> None]
    /\ flock = None /\ stuck = {}
    /\ cache = [p \in Pairs |-> NoEntry]
    /\ faults = mix.faults /\ ticks = mix.ticks
    /\ blame = {}
    /\ replaced = [x \in Pairs \X Writers |-> Ttl + 1]

Fault == faults > 0 /\ faults' = faults - 1
At(r, l) == q[r].pc = l
Goto(r, l) == q' = [q EXCEPT ![r].pc = l]
Reply(r, a) == q' = [q EXCEPT ![r].pc = "done", ![r].reply = a]
Audit(r, a) == log' = log \cup {<<r, a>>}

\* A write of Vault's final paths, with the history of what it replaces.
SetFinal(F) ==
    /\ final' = F
    /\ replaced' = [x \in Pairs \X Writers |->
                      IF x[2] # None /\ x[2] \in {final[x[1]].by, F[x[1]].by} /\ F[x[1]] # final[x[1]]
                      THEN 0 ELSE replaced[x]]
KeepFinal == UNCHANGED <<final, replaced>>

Mine(r) == {x \in staging : x[1] = r}

\* _best_effort_delete_staging: a path Vault does not delete stays.
best_effort_delete_staging(r) ==
    \/ staging' = staging \ Mine(r) /\ UNCHANGED <<faults, blame>>
    \/ /\ Fault
       /\ \E S \in SUBSET Mine(r) \ {{}} : staging' = staging \ (Mine(r) \ S)
       /\ blame' = blame \cup {<<r, "staging">>}

Free(X) == \A x \in X : held[x] = None
Lock(r, X) == held' = [x \in DOMAIN held |-> IF x \in X THEN r ELSE held[x]]

\* The transaction ends.
\* Mutant: a session is left open.
Unlock_Never(r) == UNCHANGED held

Unlock(r) == held' = [x \in DOMAIN held |-> IF held[x] = r THEN None ELSE held[x]]

\* uq_department_bots_service_account_id: another department has the account.
Taken(rows, p, a) == a # None /\ \E o \in Pairs : o[1] # p[1] /\ o[2] = p[2] /\ rows[o].acct = a

\* The account a call writes to its row: a created department has only what
\* the operator typed, an added credential also what the probe found.
row_acct(r) == IF op(r) = "add" /\ ask(r).typed = None THEN ask(r).acct ELSE ask(r).typed

\* No open transaction has inserted the account for another pair: the index
\* makes the second one wait.
Alone(P, a) ==
    \A o \in Pairs, p \in P : o # p /\ o[2] = p[2] /\ held[o] # None => row_acct(held[o]) # a \/ a = None
-----------------------------------------------------------------------------
(* The routes: roles, and the department seeded from departments.json. *)

Privileged == {"admin", "system"}

\* _extract_actor of the admin router knows no lead: an unknown role is "system",
\* which its routes let in.  The router of the credentials keeps the role.
actor_role(r) ==
    IF op(r) \in {"create", "wizard", "rotate", "disable"} /\ ask(r).role = "lead"
    THEN "system" ELSE ask(r).role

\* _enforce_dept_scope of a mutating route.
enforce_dept_scope(r) ==
    \/ actor_role(r) \in Privileged
    \/ actor_role(r) = "dept_admin" /\ ask(r).own = d(r)

Scoped == {"add", "remove", "probe"}
AdminOnly == {"create", "wizard", "bulk", "dryrun"}
Allowed(r) ==
    CASE op(r) \in Scoped -> enforce_dept_scope(r)
      [] op(r) \in AdminOnly -> actor_role(r) \in Privileged
      [] op(r) \in {"rotate", "disable"} -> actor_role(r) \in Privileged \cup {"dept_admin"}
      [] op(r) = "view" -> actor_role(r) \in Privileged \cup {"lead"} \/ enforce_dept_scope(r)
      [] OTHER -> TRUE

\* _audit_rbac_denied, which never raises, and the 403; the admin router writes
\* no row.  A create is parsed before its role is looked at.
rbac_denied(r) ==
    /\ At(r, "new") /\ ~Allowed(r) /\ (op(r) = "create" => ask(r).wf)
    /\ \/ op(r) \in Scoped \cup {"view", "bulk", "dryrun"} /\ Audit(r, "rbac_denied") /\ UNCHANGED faults
       \/ op(r) \in Scoped \cup {"view", "bulk", "dryrun"} /\ Fault /\ UNCHANGED log
       \/ op(r) \in {"create", "wizard", "rotate", "disable"} /\ UNCHANGED <<log, faults>>
    /\ Reply(r, "denied")
    /\ UNCHANGED <<mix, fileVars, rowVars, identity, vaultVars, cache, ticks, blame>>

\* _parse_create_body, the checks of rotate_credentials, _validate_schema:
\* nothing has happened when they refuse the body.
parse_create_body(r) == op(r) \in {"create", "wizard"} => ask(r).wf
validate_schema(r) == op(r) \in {"bulk", "dryrun"} => ask(r).wf
parse_rotation(r) == op(r) = "rotate" => ask(r).wf

bad_request(r) ==
    /\ At(r, "new") /\ (Allowed(r) \/ op(r) = "create")
    /\ ~(parse_create_body(r) /\ validate_schema(r) /\ parse_rotation(r))
    /\ Reply(r, "bad")
    /\ UNCHANGED <<mix, fileVars, rowVars, identity, vaultVars, cache, log, faults, ticks, blame>>

FirstStep(r) ==
    CASE op(r) \in {"add", "probe"} -> "seed"
      [] op(r) = "remove" -> "rmtxn"
      [] op(r) \in {"create", "wizard"} -> "stage"
      [] op(r) = "bulk" -> "bstage"
      [] OTHER -> op(r)

\* The handler is entered; the seeding routes read departments.json here and
\* use it after the await of a connection.
enter(r) ==
    /\ At(r, "new") /\ Allowed(r) /\ op(r) \notin {"cfgNew", "cfgPatch", "cfgOff"}
    /\ ask(r).wf \/ op(r) = "add"
    /\ q' = [q EXCEPT ![r].pc = FirstStep(r), ![r].doc = cfg]
    /\ UNCHANGED <<mix, fileVars, rowVars, identity, vaultVars, cache, log, faults, ticks, blame>>

Configured(doc) == {x \in Depts : doc[x].mode # "absent"}

\* The rows after _ensure_department_seeded_from_config: rows of departments
\* that left departments.json are purged, the department's own are upserted
\* take the file's credential_ref and keep an account the file does not give.
Purged(doc) == [p \in Pairs |-> IF p[1] \in Configured(doc) THEN bots[p] ELSE NoRow]
Seeded(r, doc) ==
    [p \in Pairs |->
       IF p[1] # d(r) \/ p[2] \notin mix.entries THEN Purged(doc)[p]
       ELSE [by |-> IF bots[p] = NoRow THEN "cfg" ELSE bots[p].by,
             acct |-> IF doc[d(r)].acct = None THEN bots[p].acct ELSE doc[d(r)].acct,
             ref |-> mix.ref]]
SeedClash(r, doc) ==
    \E s \in mix.entries : Taken(Purged(doc), <<d(r), s>>, Seeded(r, doc)[<<d(r), s>>].acct)

\* Mutant: the purge compares with the seeded department only.
SeedRows_OnlySelf(r) ==
    /\ Free(Pairs)
    /\ ~SeedClash(r, q[r].doc)
    /\ bots' = [p \in Pairs |-> IF p[1] = d(r) THEN Seeded(r, q[r].doc)[p] ELSE NoRow]
    /\ dept' = [dept EXCEPT ![d(r)] = q[r].doc[d(r)].mode]

SeedRows(r) ==
    /\ Free(Pairs)
    /\ ~SeedClash(r, q[r].doc)
    /\ bots' = Seeded(r, q[r].doc)
    /\ dept' = [dept EXCEPT ![d(r)] = q[r].doc[d(r)].mode]

\* _ensure_department_seeded_from_config commits, or there is nothing to seed.
ensure_department_seeded_from_config(r) ==
    IF d(r) \in Configured(q[r].doc) THEN SeedRows(r) ELSE UNCHANGED <<bots, dept>>

\* _select_department_detail
select_department_detail(r) == dept[d(r)] # "absent"

\* The transaction of the seeding fails: HTTP 500.
seed_failed(r) ==
    /\ At(r, "seed") \/ (At(r, "view") /\ ~select_department_detail(r))
    /\ d(r) \in Configured(q[r].doc)
    /\ IF SeedClash(r, q[r].doc) THEN UNCHANGED faults ELSE Fault
    /\ Reply(r, "error")
    /\ UNCHANGED <<mix, fileVars, rowVars, identity, vaultVars, cache, log, ticks, blame>>

\* get_department: seeds a department the database does not know.
get_department(r) ==
    /\ At(r, "view")
    /\ IF select_department_detail(r) THEN UNCHANGED <<bots, dept>> ELSE ensure_department_seeded_from_config(r)
    /\ Reply(r, IF dept'[d(r)] = "absent" THEN "notfound" ELSE "ok")
    /\ UNCHANGED <<mix, fileVars, held, identity, vaultVars, cache, log, faults, ticks, blame>>
-----------------------------------------------------------------------------
(* add_or_update *)

\* _audit_add_failed and the exception.
fail_add(r, a) ==
    /\ Audit(r, "dept_credential_add_failed")
    /\ Reply(r, a)

\* _parse_credential_body: read after the seeding, which a malformed body has
\* then caused all the same.
parse_credential_body(r) == ask(r).wf

malformed_credential(r) ==
    /\ At(r, "seed") /\ op(r) = "add" /\ ~parse_credential_body(r)
    /\ ensure_department_seeded_from_config(r)
    /\ Reply(r, "bad")
    /\ UNCHANGED <<mix, fileVars, held, identity, vaultVars, cache, log, faults, ticks, blame>>

\* add_or_update_credential to the await of the probe: the seeding, then
\* _write_staging_credential.
write_staging_credential(r) ==
    /\ At(r, "seed") /\ op(r) = "add" /\ parse_credential_body(r)
    /\ ensure_department_seeded_from_config(r)
    /\ \/ /\ staging' = staging \cup {<<r, svc(r)>>} /\ Goto(r, "probe")
          /\ UNCHANGED <<log, faults>>
       \/ /\ Fault /\ UNCHANGED staging /\ fail_add(r, "failed")
    /\ UNCHANGED <<mix, fileVars, held, identity, final, replaced, cache, ticks, blame>>

\* ProbeRunner: the account is read, an artefact is created and deleted again;
\* leftovers of earlier probes are cleared on the way and never fail the probe.
ProbeOutcome(read, created, deleted) ==
    IF ~read THEN "read_failed" ELSE IF ~created THEN "write_failed"
    ELSE IF ~deleted THEN "partial_orphan" ELSE "ok"
AllOutcomes == {ProbeOutcome(x, y, z) : x, y, z \in BOOLEAN}

run_jira == AllOutcomes
\* Without a repository or a space to write to, the probe fails unread.
run_bitbucket(targets) == IF targets THEN AllOutcomes ELSE {"read_failed"}
run_confluence(targets) == IF targets THEN AllOutcomes ELSE {"read_failed"}

\* ProbeRunner.run
probe_run(s, targets) ==
    CASE s = "jira" -> run_jira
      [] s = "bitbucket" -> run_bitbucket(targets)
      [] OTHER -> run_confluence(targets)

\* The probe answers; the prior secret is read before a connection is awaited.
run_probe(r) ==
    /\ At(r, "probe")
    /\ \E state \in probe_run(svc(r), TRUE) \cup {"error"} :
         \/ /\ state = "ok"
            /\ q' = [q EXCEPT ![r].pc = "txn", ![r].snap = final[pair(r)]]
            /\ UNCHANGED <<staging, faults, blame, log>>
         \/ state # "ok" /\ best_effort_delete_staging(r) /\ fail_add(r, "failed")
    /\ UNCHANGED <<mix, fileVars, rowVars, identity, final, replaced, cache, ticks>>

\* _promote_staging: the staged secret is written to the final path.
promote_staging(r, P) ==
    /\ SetFinal([p \in Pairs |-> IF p \in P THEN [by |-> r, full |-> TRUE] ELSE final[p]])
    /\ \/ staging' = staging \ {<<r, p[2]>> : p \in P} /\ UNCHANGED <<faults, blame>>
       \/ Fault /\ UNCHANGED staging /\ blame' = blame \cup {<<r, "staging">>}

\* The transaction of _commit up to COMMIT: the department exists, the row is
\* upserted under its lock and the secret is promoted.
commit_body(r) ==
    /\ At(r, "txn") /\ Free({pair(r)}) /\ Alone({pair(r)}, row_acct(r))
    /\ dept[d(r)] # "absent" /\ ~Taken(bots, pair(r), row_acct(r))
    /\ promote_staging(r, {pair(r)})
    /\ Lock(r, {pair(r)})
    /\ q' = [q EXCEPT ![r].pc = "commit", ![r].base = final[pair(r)]]
    /\ UNCHANGED <<mix, fileVars, dept, bots, identity, cache, log, ticks>>

\* The transaction raises before the promotion: no department (404), the
\* account is another department's, or the database or Vault fails.
commit_refused(r) ==
    /\ At(r, "txn")
    /\ LET missing == dept[d(r)] = "absent"
           taken == Taken(bots, pair(r), row_acct(r))
       IN /\ \/ (missing \/ taken) /\ best_effort_delete_staging(r)
             \/ ~missing /\ ~taken /\ Fault /\ staging' = staging \ Mine(r) /\ UNCHANGED blame
          /\ fail_add(r, IF missing THEN "notfound" ELSE "failed")
    /\ UNCHANGED <<mix, fileVars, rowVars, identity, final, replaced, cache, ticks>>

\* COMMIT succeeds.
commit(r) ==
    /\ At(r, "commit")
    /\ bots' = [bots EXCEPT ![pair(r)] = [by |-> r, acct |-> row_acct(r), ref |-> "final"]]
    /\ Unlock(r) /\ Goto(r, "audit")
    /\ UNCHANGED <<mix, fileVars, dept, identity, vaultVars, cache, log, faults, ticks, blame>>

\* _rollback_final_path: what was read before the transaction is written back.
\* Mutant: the final path is always deleted.
rollback_final_path_Deletes(r) == SetFinal([final EXCEPT ![pair(r)] = NoSecret])

rollback_final_path(r) == SetFinal([final EXCEPT ![pair(r)] = q[r].snap])

\* COMMIT raises: it failed, or it took effect and only its answer was lost.
\* The session hands the connection back before the exception goes on.
commit_failed(r) ==
    /\ At(r, "commit") /\ Fault
    /\ \/ UNCHANGED <<bots, blame>>
       \/ /\ bots' = [bots EXCEPT ![pair(r)] = [by |-> r, acct |-> row_acct(r), ref |-> "final"]]
          /\ blame' = blame \cup {<<pair(r), "commit_unknown">>}
    /\ Unlock(r) /\ Goto(r, "cback")
    /\ UNCHANGED <<mix, fileVars, dept, identity, vaultVars, cache, log, ticks>>

\* Then the secret is put back, if Vault takes it; the snapshot may be older
\* than what the promotion replaced, and a third call may have been here.
restore_secret(r) ==
    /\ At(r, "cback")
    /\ \/ /\ rollback_final_path(r) /\ UNCHANGED faults
          /\ blame' = IF q[r].snap = q[r].base /\ final[pair(r)].by = r THEN blame
                      ELSE blame \cup {<<pair(r), "stale_snapshot">>}
       \/ /\ Fault /\ KeepFinal
          /\ blame' = blame \cup {<<pair(r), "rollback_failed">>}
    /\ staging' = staging \ Mine(r)
    /\ fail_add(r, "failed")
    /\ UNCHANGED <<mix, fileVars, rowVars, identity, cache, ticks>>

\* The audit row of the committed change; a sink that fails turns the call
\* into HTTP 500 although the credential is in place.
audit_added(r) ==
    /\ At(r, "audit")
    /\ \/ Audit(r, "dept_credential_added") /\ Goto(r, "ident") /\ UNCHANGED faults
       \/ Fault /\ Reply(r, "error") /\ UNCHANGED log
    /\ UNCHANGED <<mix, fileVars, rowVars, identity, vaultVars, cache, ticks, blame>>

\* _run_bot_identity_probe to its await: the secret is read from Vault again.
read_final(r) ==
    /\ At(r, "ident")
    /\ IF final[pair(r)] = NoSecret
       THEN Audit(r, "bot_account_id_probe_failed") /\ Reply(r, "ok")
       ELSE q' = [q EXCEPT ![r].pc = "identity", ![r].read = final[pair(r)].by] /\ UNCHANGED log
    /\ UNCHANGED <<mix, fileVars, rowVars, identity, vaultVars, cache, faults, ticks, blame>>

\* probe_bot_identity answers; the account is upserted, or a failure of the
\* upsert is only logged.  The credential stays whatever happens here.
run_bot_identity_probe(r) ==
    /\ At(r, "identity")
    /\ \/ /\ identity' = [identity EXCEPT ![pair(r)] = AcctOf(pair(r), q[r].read)]
          /\ Audit(r, "bot_account_id_probed") /\ UNCHANGED faults
       \/ Fault /\ Audit(r, "bot_account_id_probed") /\ UNCHANGED identity
       \/ Audit(r, "bot_account_id_probe_failed") /\ UNCHANGED <<identity, faults>>
    /\ Reply(r, "ok")
    /\ UNCHANGED <<mix, fileVars, rowVars, vaultVars, cache, ticks, blame>>

AddSteps(r) ==
    \/ malformed_credential(r) \/ write_staging_credential(r) \/ run_probe(r) \/ commit_body(r) \/ commit_refused(r)
    \/ commit(r) \/ commit_failed(r) \/ restore_secret(r) \/ audit_added(r) \/ read_final(r) \/ run_bot_identity_probe(r)
-----------------------------------------------------------------------------
(* remove and probe *)

\* _delete_bot_row: the row goes first, in a transaction of its own.
delete_bot_row(r) ==
    /\ At(r, "rmtxn")
    /\ \/ /\ dept[d(r)] = "absent" /\ Reply(r, "notfound")
          /\ UNCHANGED <<bots, log, faults>>
       \/ /\ dept[d(r)] # "absent" /\ Free({pair(r)})
          /\ bots' = [bots EXCEPT ![pair(r)] = NoRow]
          /\ Goto(r, "rmvault") /\ UNCHANGED <<log, faults>>
       \/ dept[d(r)] # "absent" /\ Fault /\ fail_add(r, "failed") /\ UNCHANGED bots
    /\ UNCHANGED <<mix, fileVars, dept, held, identity, vaultVars, cache, ticks, blame>>

\* The secret is deleted whatever the row is by now; a credential added in
\* between loses its secret.
delete_final(r) ==
    /\ At(r, "rmvault")
    /\ \/ /\ SetFinal([final EXCEPT ![pair(r)] = NoSecret])
          /\ blame' = IF bots[pair(r)] = NoRow /\ Free({pair(r)}) THEN blame
                      ELSE blame \cup {<<pair(r), "remove_race">>}
          /\ Audit(r, "dept_credential_removed") /\ Reply(r, "ok") /\ UNCHANGED faults
       \/ Fault /\ KeepFinal /\ fail_add(r, "failed") /\ UNCHANGED blame
    /\ UNCHANGED <<mix, fileVars, rowVars, identity, staging, cache, ticks>>

\* probe_credentials: every row is probed with its secret; nothing is stored
\* but the audit rows.
probe_credentials(r) ==
    /\ At(r, "seed") /\ op(r) = "probe"
    /\ ensure_department_seeded_from_config(r)
    /\ IF dept'[d(r)] = "absent" THEN Reply(r, "notfound") /\ UNCHANGED log
       ELSE Reply(r, "ok") /\ Audit(r, "dept_credential_probed")
    /\ UNCHANGED <<mix, fileVars, held, identity, vaultVars, cache, faults, ticks, blame>>
-----------------------------------------------------------------------------
(* create and wizard *)

\* _write_staging_credential for every bot; one that fails stops the call with
\* the ones before it staged.
stage_all(r) ==
    /\ At(r, "stage")
    /\ \/ /\ staging' = staging \cup ({r} \X ask(r).svcs)
          /\ Goto(r, "cprobe") /\ UNCHANGED faults
       \/ /\ Fault /\ Goto(r, "unstage")
          /\ \E S \in SUBSET ask(r).svcs \ {ask(r).svcs} : staging' = staging \cup ({r} \X S)
    /\ UNCHANGED <<mix, fileVars, rowVars, identity, final, replaced, cache, log, ticks, blame>>

\* The audit row of a failed staging comes before the deletion: a sink that
\* raises leaves what was staged.
staging_write_failed(r) ==
    /\ At(r, "unstage")
    /\ \/ best_effort_delete_staging(r) /\ Audit(r, "dept_create_failed") /\ Reply(r, "failed")
       \/ /\ Fault /\ Reply(r, "error") /\ UNCHANGED <<staging, log>>
          /\ blame' = blame \cup {<<r, "staging">>}
    /\ UNCHANGED <<mix, fileVars, rowVars, identity, final, replaced, cache, ticks>>

\* _run_probes: the first service that is not "ok" ends the call.  A probe that
\* raises is caught by nobody: no row, and the staged tokens stay.
run_probes(r) ==
    /\ At(r, "cprobe")
    /\ \/ (\A s \in ask(r).svcs : "ok" \in probe_run(s, TRUE)) /\ Goto(r, "ctxn") /\ UNCHANGED <<staging, log, faults, blame>>
       \/ best_effort_delete_staging(r) /\ Audit(r, "dept_create_failed") /\ Reply(r, "failed")
       \/ /\ Fault /\ Reply(r, "error") /\ UNCHANGED <<staging, log>>
          /\ blame' = blame \cup {<<r, "staging">>}
    /\ UNCHANGED <<mix, fileVars, rowVars, identity, final, replaced, cache, ticks>>

CreateClash(r) == \E p \in pairs(r) : Taken(bots, p, row_acct(r))

\* The transaction of _commit to COMMIT: department, bots, keys, promotion.
create_body(r) ==
    /\ At(r, "ctxn") /\ Free({deptRow(r)}) /\ dept[d(r)] = "absent"
    /\ ~CreateClash(r) /\ Alone(pairs(r), row_acct(r))
    /\ promote_staging(r, pairs(r))
    /\ Lock(r, {deptRow(r)} \cup pairs(r))
    /\ Goto(r, "ccommit")
    /\ UNCHANGED <<mix, fileVars, dept, bots, identity, cache, log, ticks>>

\* The department exists: 409.
create_duplicate(r) ==
    /\ At(r, "ctxn") /\ Free({deptRow(r)}) /\ dept[d(r)] # "absent"
    /\ best_effort_delete_staging(r)
    /\ Audit(r, "dept_duplicate_id") /\ Reply(r, "conflict")
    /\ UNCHANGED <<mix, fileVars, rowVars, identity, final, replaced, cache, ticks>>

\* An INSERT fails, or Vault fails after the secrets of P were promoted: these
\* are deleted again, as far as Vault does it, and the transaction rolled back.
create_failed(r) ==
    /\ At(r, "ctxn") /\ Free({deptRow(r)}) /\ dept[d(r)] = "absent"
    /\ IF CreateClash(r) THEN UNCHANGED faults ELSE Fault
    /\ \E P \in SUBSET pairs(r) : \E kept \in SUBSET P :
         /\ CreateClash(r) => P = {}
         /\ P # pairs(r)
         /\ kept # {} => faults > 1
         /\ SetFinal([p \in Pairs |-> IF p \in kept THEN [by |-> r, full |-> TRUE]
                                     ELSE IF p \in P THEN NoSecret ELSE final[p]])
         /\ blame' = blame \cup {<<p, "rollback_failed">> : p \in kept}
    /\ staging' = staging \ Mine(r)
    /\ Audit(r, "dept_create_failed") /\ Reply(r, "error")
    /\ UNCHANGED <<mix, fileVars, rowVars, identity, cache, ticks>>

\* COMMIT, as the session closes.  Its failure is outside the handler that
\* deletes promoted secrets: they stay without a row.
create_commit(r) ==
    /\ At(r, "ccommit")
    /\ \/ /\ dept' = [dept EXCEPT ![d(r)] = "active"]
          /\ bots' = [p \in Pairs |-> IF p \in pairs(r) THEN [by |-> r, acct |-> row_acct(r), ref |-> "final"] ELSE bots[p]]
          /\ \/ /\ Audit(r, "dept_created") /\ UNCHANGED faults
                /\ IF op(r) = "wizard" THEN Goto(r, "wizard") ELSE Reply(r, "ok")
             \/ Fault /\ Reply(r, "error") /\ UNCHANGED log
          /\ UNCHANGED blame
       \/ /\ Fault /\ UNCHANGED <<dept, bots>>
          /\ blame' = blame \cup {<<p, "create_commit">> : p \in pairs(r)}
          /\ Audit(r, "dept_create_failed") /\ Reply(r, "error")
    /\ Unlock(r)
    /\ UNCHANGED <<mix, fileVars, identity, vaultVars, cache, ticks>>

\* create_department_wizard: the accounts of the services are probed; one that
\* fails takes the department out of service.
wizard_mode(r, ok) == dept' = IF ok = pairs(r) THEN dept ELSE [dept EXCEPT ![d(r)] = "disabled"]

wizard_probe(r) ==
    /\ At(r, "wizard") /\ Free({deptRow(r)})
    /\ \E ok \in SUBSET {p \in pairs(r) : final[p] # NoSecret} :
         /\ identity' = [p \in Pairs |-> IF p \in ok THEN AcctOf(p, final[p].by) ELSE identity[p]]
         /\ \/ wizard_mode(r, ok) /\ UNCHANGED faults
            \/ ok # pairs(r) /\ Fault /\ UNCHANGED dept
         /\ Reply(r, IF ok = pairs(r) THEN "ok" ELSE "partial")
    /\ Audit(r, "bot_account_id_probed")
    /\ UNCHANGED <<mix, fileVars, bots, held, vaultVars, cache, ticks, blame>>

CreateSteps(r) ==
    \/ stage_all(r) \/ staging_write_failed(r) \/ run_probes(r) \/ create_body(r) \/ create_duplicate(r) \/ create_failed(r)
    \/ create_commit(r) \/ wizard_probe(r)
-----------------------------------------------------------------------------
(* rotate, disable, bulk import *)

\* rotate_credentials overwrites the final path with a username and a token:
\* the url is not part of what it writes, and no row is looked at.
rotate_credentials(r) ==
    /\ At(r, "rotate")
    /\ \/ /\ SetFinal([final EXCEPT ![pair(r)] = [by |-> r, full |-> FALSE]])
          /\ Audit(r, "credential_rotated") /\ Reply(r, "ok") /\ UNCHANGED faults
       \/ Fault /\ KeepFinal /\ Audit(r, "credential_rotation_failed") /\ Reply(r, "failed")
    /\ UNCHANGED <<mix, fileVars, rowVars, identity, staging, cache, ticks, blame>>

\* disable_department; an unknown department is reported as disabled too.
disable_department(r) ==
    /\ At(r, "disable") /\ Free({deptRow(r)})
    /\ \/ /\ dept' = IF dept[d(r)] = "absent" THEN dept ELSE [dept EXCEPT ![d(r)] = "disabled"]
          /\ Audit(r, "dept_disabled") /\ Reply(r, "ok") /\ UNCHANGED faults
       \/ Fault /\ UNCHANGED dept /\ Audit(r, "dept_disable_failed") /\ Reply(r, "failed")
    /\ UNCHANGED <<mix, fileVars, bots, held, identity, vaultVars, cache, ticks, blame>>

\* _process_dept_dry_run: nothing is written.
process_dept_dry_run(r) ==
    /\ At(r, "dryrun")
    /\ Audit(r, "dept_bulk_import_completed")
    /\ \E a \in {"ok", "failed"} : Reply(r, a)
    /\ UNCHANGED <<mix, fileVars, rowVars, identity, vaultVars, cache, faults, ticks, blame>>

\* _process_dept_live to the last probe: no targets are given, and any failure
\* skips the department.
process_dept_live(r) ==
    /\ At(r, "bstage")
    /\ \/ /\ \A s \in ask(r).svcs : "ok" \in probe_run(s, FALSE)
          /\ staging' = staging \cup ({r} \X ask(r).svcs)
          /\ Goto(r, "bpromote") /\ UNCHANGED <<log, faults>>
       \/ /\ Audit(r, "dept_bulk_import_completed") /\ Reply(r, "failed")
          /\ UNCHANGED <<staging, faults>>
    /\ UNCHANGED <<mix, fileVars, rowVars, identity, final, replaced, cache, ticks, blame>>

\* _promote_and_commit up to the connection: the staged payload refers to a
\* secret and holds none; it replaces what the final path held.  A failure
\* deletes the path at hand, if Vault does; the ones before it stay replaced.
bulk_promote(r) ==
    /\ At(r, "bpromote")
    /\ \/ /\ SetFinal([p \in Pairs |-> IF p \in pairs(r) THEN [by |-> r, full |-> FALSE] ELSE final[p]])
          /\ staging' = staging \ Mine(r) /\ Goto(r, "bdept") /\ UNCHANGED <<log, faults, blame>>
       \/ /\ Fault
          /\ \E p \in pairs(r) : \E P \in SUBSET (pairs(r) \ {p}) :
               \E left \in {NoSecret} \cup (IF faults > 1 THEN {final[p], [by |-> r, full |-> FALSE]} ELSE {}) :
                 SetFinal([x \in Pairs |-> IF x = p THEN left
                                          ELSE IF x \in P THEN [by |-> r, full |-> FALSE] ELSE final[x]])
          /\ staging' = staging \ Mine(r)
          /\ blame' = blame \cup {<<p, "import">> : p \in pairs(r)}
          /\ Audit(r, "dept_bulk_import_completed") /\ Reply(r, "failed")
    /\ UNCHANGED <<mix, fileVars, rowVars, identity, cache, ticks>>

\* Without a transaction every INSERT commits by itself.
bulk_insert_department(r) ==
    /\ At(r, "bdept") /\ Free({deptRow(r)})
    /\ dept' = [dept EXCEPT ![d(r)] = "active"]
    /\ Goto(r, "bbots")
    /\ UNCHANGED <<mix, fileVars, bots, held, identity, vaultVars, cache, log, faults, ticks, blame>>

bulk_insert_department_bots(r) ==
    /\ At(r, "bbots") /\ Free(pairs(r)) /\ Alone(pairs(r), row_acct(r)) /\ ~CreateClash(r)
    /\ bots' = [p \in Pairs |-> IF p \in pairs(r) THEN [by |-> r, acct |-> row_acct(r), ref |-> mix.ref] ELSE bots[p]]
    /\ Audit(r, "dept_bulk_import_completed") /\ Reply(r, "ok")
    /\ UNCHANGED <<mix, fileVars, dept, held, identity, vaultVars, cache, faults, ticks, blame>>

\* An INSERT is refused: the final paths are deleted, whoever wrote them.
bulk_insert_failed(r) ==
    /\ q[r].pc \in {"bdept", "bbots"}
    /\ SetFinal([p \in Pairs |-> IF p \in pairs(r) THEN NoSecret ELSE final[p]])
    /\ blame' = blame \cup {<<p, "import">> : p \in pairs(r)}
    /\ Audit(r, "dept_bulk_import_completed") /\ Reply(r, "failed")
    /\ UNCHANGED <<mix, fileVars, rowVars, identity, staging, cache, faults, ticks>>

BulkSteps(r) ==
    \/ process_dept_dry_run(r) \/ process_dept_live(r) \/ bulk_promote(r)
    \/ bulk_insert_department(r) \/ bulk_insert_department_bots(r) \/ bulk_insert_failed(r)
-----------------------------------------------------------------------------
(* CredentialResolver and the checks at the start of the service *)

\* get: the row is looked up even when the credential is cached; a cached one
\* is returned while it is younger than _CACHE_TTL.
fresh(e) == e.by # None /\ e.age < Ttl

lookup_credential_ref(r) ==
    /\ At(r, "get")
    /\ LET e == cache[pair(r)]
       IN IF bots[pair(r)] = NoRow THEN Reply(r, "nobot")
          ELSE IF fresh(e) THEN q' = [q EXCEPT ![r].pc = "done", ![r].reply = "served", ![r].read = e.by]
          ELSE q' = [q EXCEPT ![r].pc = "read", ![r].read = IF bots[pair(r)].ref = "other" THEN "ext" ELSE None]
    /\ UNCHANGED <<mix, fileVars, rowVars, identity, vaultVars, cache, log, faults, ticks, blame>>

\* Vault answers; the answer may lie before what the handler does with it.
\* The secret at a path of the operator's own is taken not to change.
read_secret_with_metadata(r) ==
    /\ At(r, "read")
    /\ q' = [q EXCEPT ![r].pc = "fill",
              ![r].snap = IF q[r].read = "ext" THEN [by |-> "ext", full |-> TRUE] ELSE final[pair(r)]]
    /\ UNCHANGED <<mix, fileVars, rowVars, identity, vaultVars, cache, log, faults, ticks, blame>>

\* The entry is dated by the clock before the read; a missing secret drops the
\* entry, an incomplete one raises and leaves it.
fill_cache(r) ==
    /\ At(r, "fill")
    /\ LET s == q[r].snap
       IN CASE s = NoSecret ->
                 cache' = [cache EXCEPT ![pair(r)] = NoEntry] /\ Reply(r, "missing") /\ UNCHANGED log
            [] s # NoSecret /\ ~s.full -> UNCHANGED <<cache, log>> /\ Reply(r, "incomplete")
            [] OTHER ->
                 /\ cache' = [cache EXCEPT ![pair(r)] = [by |-> s.by, age |-> q[r].age]]
                 /\ IF cache[pair(r)].by \notin {None, s.by} THEN Audit(r, "vault_credential_refreshed")
                    ELSE UNCHANGED log
                 /\ q' = [q EXCEPT ![r].pc = "done", ![r].reply = "served", ![r].read = s.by]
    /\ UNCHANGED <<mix, fileVars, rowVars, identity, vaultVars, faults, ticks, blame>>

\* validate_account_id_consistency: a typed account that is not the probed one
\* refuses the start.
mismatch(p) == bots[p].acct # None /\ identity[p] # None /\ bots[p].acct # identity[p]

\* auto_probe_missing_account_ids: the accounts nobody probed yet; a probe or
\* a write that fails leaves its row as it is.
startup(r) ==
    /\ At(r, "startup")
    /\ IF \E p \in Pairs : mismatch(p) THEN Reply(r, "refused") /\ UNCHANGED <<identity, log>>
       ELSE /\ \E ok \in SUBSET {p \in Pairs : bots[p] # NoRow /\ identity[p] = None
                                              /\ (final[p] # NoSecret \/ bots[p].ref = "other")}, a \in Accts :
                 identity' = [p \in Pairs |-> IF p \notin ok THEN identity[p]
                                              ELSE IF bots[p].ref = "other" THEN a ELSE AcctOf(p, final[p].by)]
            /\ Audit(r, "bot_account_id_auto_filled") /\ Reply(r, "ok")
    /\ UNCHANGED <<mix, fileVars, rowVars, vaultVars, cache, faults, ticks, blame>>

\* Time passes for the cached credentials and for the reads under way.
Tick ==
    /\ ticks > 0 /\ ticks' = ticks - 1
    /\ cache' = [p \in Pairs |-> IF cache[p].age < Ttl /\ cache[p].by # None
                                 THEN [cache[p] EXCEPT !.age = @ + 1] ELSE cache[p]]
    /\ q' = [r \in Requests |-> IF q[r].pc \in {"read", "fill"} /\ q[r].age < Ttl
                                THEN [q[r] EXCEPT !.age = @ + 1] ELSE q[r]]
    /\ replaced' = [x \in Pairs \X Writers |->
                      IF x[2] = None \/ final[x[1]].by = x[2] \/ replaced[x] > Ttl
                      THEN replaced[x] ELSE replaced[x] + 1]
    /\ UNCHANGED <<mix, fileVars, rowVars, identity, final, staging, log, faults, blame>>

ReadSteps(r) == lookup_credential_ref(r) \/ read_secret_with_metadata(r) \/ fill_cache(r) \/ startup(r)
-----------------------------------------------------------------------------
(* admin-dashboard-api: the editor of departments.json *)

Proc(r) == ask(r).proc
Editing(r) == op(r) \in {"cfgNew", "cfgPatch", "cfgOff"} /\ Proc(r) \notin stuck

\* _acquire_file_lock: taken, or waited for in the event loop.  Waiting for a
\* holder of the same process, the loop waits for a task it no longer runs:
\* after filelock's timeout the fallback is a flock without one.
acquire_file_lock(r) ==
    \/ /\ flock = None /\ flock' = r /\ UNCHANGED stuck
       /\ Goto(r, "cfgread")
    \/ /\ flock # None /\ Proc(flock) = Proc(r)
       /\ stuck' = stuck \cup {Proc(r)} /\ UNCHANGED <<flock, q>>

cfg_enter(r) ==
    /\ At(r, "new") /\ Editing(r) /\ acquire_file_lock(r)
    /\ UNCHANGED <<mix, cfg, rowVars, identity, vaultVars, cache, log, faults, ticks, blame>>

\* _find_account_id_conflicts: another department has the bot account.
find_account_id_conflicts(r, doc) ==
    ask(r).typed # None /\ \E x \in Depts \ {d(r)} : doc[x].mode # "absent" /\ doc[x].acct = ask(r).typed

create_refused(r, doc) == doc[d(r)].mode # "absent" \/ find_account_id_conflicts(r, doc)
update_refused(r, doc) == doc[d(r)].mode = "absent" \/ find_account_id_conflicts(r, doc)
decommission_refused(r, doc) == doc[d(r)].mode \in {"absent", "disabled"}

Refused(r, doc) ==
    CASE op(r) = "cfgNew" -> create_refused(r, doc)
      [] op(r) = "cfgPatch" -> update_refused(r, doc)
      [] OTHER -> decommission_refused(r, doc)

\* The document is read and checked; a refusal writes its audit row while the
\* lock is held.
read_departments_doc(r) ==
    /\ At(r, "cfgread") /\ Editing(r)
    /\ q' = [q EXCEPT ![r].pc = IF Refused(r, cfg) THEN "cfgdeny" ELSE "cfgwrite", ![r].doc = cfg]
    /\ UNCHANGED <<mix, fileVars, rowVars, identity, vaultVars, cache, log, faults, ticks, blame>>

Release(r) == flock' = IF flock = r THEN None ELSE flock

cfg_deny(r) ==
    /\ At(r, "cfgdeny") /\ Editing(r)
    /\ Audit(r, "denied") /\ Release(r) /\ Reply(r, "conflict")
    /\ UNCHANGED <<mix, cfg, stuck, rowVars, identity, vaultVars, cache, faults, ticks, blame>>

edit_created(r, e) == [mode |-> "active", acct |-> ask(r).typed]
\* A patch gives a new bot account or a new mode.
edit_merged(r, e) == IF ask(r).typed = None THEN [e EXCEPT !.mode = "active"] ELSE [e EXCEPT !.acct = ask(r).typed]
edit_decommissioned(r, e) == [e EXCEPT !.mode = "disabled"]

Edited(r, e) ==
    CASE op(r) = "cfgNew" -> edit_created(r, e)
      [] op(r) = "cfgPatch" -> edit_merged(r, e)
      [] OTHER -> edit_decommissioned(r, e)

\* The whole document is validated and replaced; a failed write leaves the old.
atomic_write_json(r) ==
    /\ At(r, "cfgwrite") /\ Editing(r)
    /\ \/ /\ cfg' = [q[r].doc EXCEPT ![d(r)] = Edited(r, @)]
          /\ Goto(r, "cfgaudit") /\ UNCHANGED faults
       \/ Fault /\ UNCHANGED cfg /\ Reply(r, "error")
    /\ Release(r)
    /\ UNCHANGED <<mix, stuck, rowVars, identity, vaultVars, cache, log, ticks, blame>>

\* _emit_dept_audit and _signal_hot_reload, which never fail the call.
emit_dept_audit(r) ==
    /\ At(r, "cfgaudit") /\ Editing(r)
    /\ \/ Audit(r, "dept_edited") /\ UNCHANGED faults
       \/ Fault /\ UNCHANGED log
    /\ Reply(r, "ok")
    /\ UNCHANGED <<mix, fileVars, rowVars, identity, vaultVars, cache, ticks, blame>>

EditSteps(r) ==
    cfg_enter(r) \/ read_departments_doc(r) \/ cfg_deny(r) \/ atomic_write_json(r) \/ emit_dept_audit(r)
-----------------------------------------------------------------------------
\* automation-service dies: open transactions roll back, Vault keeps what it has.
Crash ==
    /\ Fault
    /\ q' = [r \in Requests |-> IF q[r].pc = "done" \/ op(r) \in {"cfgNew", "cfgPatch", "cfgOff"}
                                THEN q[r] ELSE [q[r] EXCEPT !.pc = "done", !.reply = "dead"]]
    /\ held' = [x \in DOMAIN held |-> None]
    /\ cache' = [p \in Pairs |-> NoEntry]
    /\ blame' = blame \cup {<<p, "crash">> : p \in {x \in Pairs : \E r \in Requests :
                    x \in pairs(r) /\ q[r].pc \in {"commit", "cback", "ccommit", "rmvault", "bdept", "bbots"}}}
    /\ UNCHANGED <<mix, fileVars, dept, bots, identity, vaultVars, log, ticks>>

Step(r) ==
    \/ rbac_denied(r) \/ bad_request(r) \/ enter(r) \/ seed_failed(r) \/ get_department(r)
    \/ AddSteps(r) \/ delete_bot_row(r) \/ delete_final(r) \/ probe_credentials(r)
    \/ CreateSteps(r) \/ rotate_credentials(r) \/ disable_department(r)
    \/ BulkSteps(r) \/ ReadSteps(r) \/ EditSteps(r)

Next == Tick \/ Crash \/ \E r \in Requests : Step(r)

\* The event loops run every task that can go on.
Fairness == \A r \in Requests : WF_vars(Step(r))
Spec == Init /\ [][Next]_vars /\ Fairness
-----------------------------------------------------------------------------
TypeOK ==
    /\ mix \in Mixes
    /\ \A r \in Requests :
         /\ q[r].reply \in {"-", "ok", "partial", "served", "denied", "bad", "notfound", "conflict", "failed",
                            "error", "nobot", "missing", "incomplete", "refused", "dead"}
         /\ q[r].reply # "-" => q[r].pc = "done"
         /\ q[r].read \in Writers /\ q[r].age \in 0..Ttl
    /\ cfg \in [Depts -> Entry]
    /\ dept \in [Depts -> {"absent", "active", "disabled"}]
    /\ bots \in [Pairs -> [by: Writers \cup {"cfg"}, acct: Accts \cup {None}, ref: {"final", "other"}]]
    /\ identity \in [Pairs -> Accts \cup {None}]
    /\ final \in [Pairs -> [by: Writers, full: BOOLEAN]]
    /\ staging \subseteq Requests \X Services
    /\ held \in [Locks -> Requests \cup {None}]
    /\ flock \in Requests \cup {None} /\ stuck \subseteq {"p1", "p2"}
    /\ cache \in [Pairs -> [by: Writers, age: 0..Ttl]]
    /\ faults \in 0..MaxFaults /\ ticks \in 0..MaxTicks

Blamed(x) == \E b \in blame : b[1] = x
\* A call that is between its write to Vault and the rows that go with it.
Between(p) == \E r \in Requests : p \in pairs(r) /\ q[r].pc \in {"commit", "cback", "ccommit", "rmvault", "bdept", "bbots"}

Added(w) == w = "old" \/ (w \in Requests /\ op(w) \in {"add", "create", "wizard"})

\* A committed row and the secret it names come from the same call (a rotation
\* or an import replaces the secret alone), with any interleaving of calls and
\* whichever call fails: _commit writes Vault inside the transaction and puts
\* the prior secret back when COMMIT fails.  The exceptions are the ones the
\* code has: a snapshot that was stale, a rollback Vault refused, a COMMIT whose
\* answer was lost, a removal that overtook an addition, a failed import, a
\* crash, and a departments.json that names another path.
SettledPairsAgree ==
    \A p \in Pairs :
        Added(bots[p].by) /\ bots[p].ref = "final" /\ ~Between(p) /\ ~Blamed(p) =>
            /\ final[p] # NoSecret
            /\ \/ final[p].by = bots[p].by
               \/ final[p].by \in Requests /\ op(final[p].by) \in {"rotate", "bulk"}

\* add_or_update, create_department: a call that answered with a failure left
\* neither a row nor a secret of its own, with the same exceptions.
FailedCallLeavesNothing ==
    \A r \in Requests, p \in Pairs :
        op(r) \in {"add", "create", "wizard"} /\ q[r].reply \in {"failed", "notfound", "conflict"} =>
            Blamed(p) \/ (bots[p].by # r /\ final[p].by # r)

\* No answered call leaves a token under _staging, on the success path or on a
\* failure path, unless Vault refused the deletion, or, in a create, the audit
\* of a failed staging or a probe raised (run deletes nothing then).
StagingIsTransient ==
    \A r \in Requests : q[r].pc = "done" /\ q[r].reply # "dead" => Mine(r) = {} \/ Blamed(r)

\* departments.json never gives one bot account to two departments, with two
\* editors at work in two processes.
ConfigAccountsUnique ==
    \A x, y \in Depts : x # y /\ cfg[x].acct # None /\ cfg[x].mode # "absent" => cfg[x].acct # cfg[y].acct

\* An edit that was answered with success is in departments.json until another
\* edit of that department: no read-modify-write of a second editor undoes it.
EditsAreKept ==
    \A r \in Requests :
        /\ q[r].reply = "ok"
        /\ \A o \in Requests \ {r} : d(o) # d(r) \/ op(o) \notin {"cfgNew", "cfgPatch", "cfgOff"}
        => /\ op(r) \in {"cfgNew", "cfgPatch"} => cfg[d(r)] = Edited(r, cfg[d(r)])
           /\ op(r) = "cfgOff" => cfg[d(r)].mode = "disabled"

\* Database, Vault and departments.json agree once calls are settled, whichever
\* of them interleave or fail.
CredentialsAgree ==
    /\ TypeOK
    /\ SettledPairsAgree
    /\ FailedCallLeavesNothing
    /\ StagingIsTransient
    /\ ConfigAccountsUnique
    /\ EditsAreKept

\* CredentialResolver.get: a cached credential is one that was in Vault less
\* than _CACHE_TTL ago, whatever was rotated, removed or added meanwhile and
\* however long the read that filled the cache took.
ServedIsRecent ==
    [][\A r \in Requests :
         At(r, "get") /\ q'[r].reply = "served" =>
             LET w == q'[r].read IN w = "ext" \/ final[pair(r)].by = w \/ replaced[<<pair(r), w>>] < Ttl]_vars

\* The purge of _ensure_department_seeded_from_config spares the departments
\* that were in departments.json all along: their rows only go when a remove of
\* that credential was asked for.
ConfiguredRowsSurvive ==
    [][\A p \in Pairs :
         p[1] \in Configured(mix.cfg) /\ bots[p] # NoRow /\ bots'[p] = NoRow =>
             \E r \in Requests : op(r) = "remove" /\ pair(r) = p /\ At(r, "rmtxn")]_vars

\* A dept_admin's call changes no row or secret of a configured department that
\* is not his own; rotation and disabling leave the scope to the proxy.
ScopeIsKept ==
    [][\A r \in Requests :
         ask(r).role = "dept_admin" /\ op(r) \in Scoped /\ q'[r] # q[r] =>
             \A p \in Pairs : p[1] \in Configured(mix.cfg) \ {ask(r).own} =>
                 bots'[p] = bots[p] /\ final'[p] = final[p]]_vars

\* No step serves a stale credential, purges a configured department, or leaves
\* the scope of its caller.
RowsAreGuarded ==
    /\ ServedIsRecent
    /\ ConfiguredRowsSurvive
    /\ ScopeIsKept

\* Every call is answered, whatever fails and whoever holds a row lock, unless
\* the process of an editor waits for its own file lock.
EveryCallEnds ==
    \A r \in Requests :
        <>(q[r].pc = "done" \/ (stuck # {} /\ op(r) \in {"cfgNew", "cfgPatch", "cfgOff"}))
=============================================================================
