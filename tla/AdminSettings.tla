---------------------------- MODULE AdminSettings ----------------------------
(***************************************************************************)
(* The settings an administrator changes from the dashboard: feature flags *)
(* (routers/feature_flags.py), LLM providers with their credentials and    *)
(* department pins (llm_providers/), and the controls of running workflows *)
(* and runner workspaces (routers/workflow_control.py,                     *)
(* routers/runner_workspaces.py).  A database statement and a Vault call   *)
(* are one step each.  The file lock of departments.json is taken between  *)
(* processes: ask[r].proc is the process that serves request r, and two    *)
(* requests may share one.  The department editor (routers/departments.py) *)
(* is here only as the other holder of that lock.                          *)
(***************************************************************************)
EXTENDS AdminRequests

CONSTANTS
    Flags,      \* keys of shared.feature_flags
    FlagDepts,  \* departments in departments.json
    Providers,  \* ids of LLM providers
    Flows,      \* workflow ids
    Spaces      \* issue keys with a workspace on the runner

\* What the routes are given.  The id of a new provider is a fresh uuid4, a
\* pin references a row, and the request models refuse a flag value or a
\* status that is not one and an empty key (the types that require a key).
ASSUME SettingAssumption ==
    /\ None \notin Providers /\ None \notin {"a0", "o0"}
    /\ \A mix \in Mixes :
        /\ mix.provs \in [Providers -> {"absent", "active", "inactive"}]
        /\ mix.pins \in [FlagDepts -> Providers \cup {None}]
        /\ \A d \in FlagDepts : mix.pins[d] # None => mix.provs[mix.pins[d]] # "absent"
        /\ mix.flows \in [Flows -> {"running", "closed", "none"}]
        /\ \A r \in Reqs : LET a == mix.ask[r] IN
            /\ a.op = "toggle" => a.val \in {"on", "off"}
            /\ a.op \in {"pnew", "pset", "pdel", "ptest"} => a.id \in Providers
            /\ a.op = "pnew" =>
                  /\ a.val # None /\ mix.provs[a.id] = "absent"
                  /\ \A s \in Reqs \ {r} : mix.ask[s].op = "pnew" => mix.ask[s].id # a.id
            /\ a.op = "pset" =>
                  \/ a.mode = "api" /\ a.val # None
                  \/ a.mode = "org"
                  \/ a.mode = "status" /\ a.val \in {"active", "inactive"}
            /\ a.op = "pin" => a.dept \in FlagDepts /\ a.id \in Providers \cup {None}
            /\ a.op \in {"cancel", "retry", "signal"} => a.id \in Flows

VARIABLES
    flag,       \* flag[k]: the global value, "on" or "off"
    over,       \* over[d][k]: the override in departments.json, or None
    lock,       \* holder of the lock on departments.json
    stuck,      \* processes whose event loop waits for a lock they hold themselves
    provs,      \* provs[p]: "absent", "active" or "inactive"
    creds,      \* creds[p] = [api, org]: what a read of the secret in Vault returns
    pins,       \* pins[d]: the provider pinned for a department, or None
    rowlock,    \* rowlock[p]: the open transaction that updated the row
    tested,     \* tested[p]: last_test_error, "ok" or "error"
    flows,      \* flows[w]: "running", "closed" or "none"
    touched,    \* <<request, effect>>: what the control calls did
    spaces      \* the workspaces on the runner

flagVars == <<flag, over, lock, stuck>>
provVars == <<provs, creds, pins, rowlock, tested>>
ctlVars == <<flows, touched, spaces>>
settingVars == <<flag, over, lock, stuck, provs, creds, pins, rowlock, tested,
                 flows, touched, spaces>>

NoCred == [api |-> None, org |-> None]

SettingInit(mix) ==
    /\ flag = [k \in Flags |-> "off"]
    /\ over = [d \in FlagDepts |-> [k \in Flags |-> None]]
    /\ lock = None /\ stuck = {}
    /\ provs = mix.provs
    /\ creds = [p \in Providers |-> IF mix.provs[p] = "absent" THEN NoCred
                                    ELSE [api |-> "a0", org |-> "o0"]]
    /\ pins = mix.pins
    /\ rowlock = [p \in Providers |-> None]
    /\ tested = [p \in Providers |-> None]
    /\ flows = mix.flows
    /\ touched = {}
    /\ spaces = Spaces

SettingOps == {"toggle", "override", "unset", "flags", "pnew", "pset", "pdel", "ptest", "ptry",
               "pin", "pinned", "cancel", "retry", "signal", "flows"}

\* Every route but those of the workspaces needs its collaborators: the
\* database pool, and Vault, the HTTP client and the audit sink for providers.
SettingsNotReady(r) ==
    /\ ~ wired /\ q[r].pc = "idle" /\ ask[r].op \in SettingOps
    /\ Answer(r, 503) /\ Quiet
    /\ UNCHANGED settingVars

Begins(r, op) == wired /\ Starts(r, op)

-----------------------------------------------------------------------------
(* Feature flags *)

\* _emit_audit: old and new value of the flag.
FlagAudit(r, old, new) == insert_audit(AuditRow(r, "feature_flag_changed", "ok", old, new))

\* toggle_flag and _apply_global_patch: the old value is read ...
ReadFlag(r) ==
    /\ Begins(r, "toggle")
    /\ IF ask[r].id \in Flags THEN Read(r, "update", flag[ask[r].id]) ELSE Answer(r, 404)
    /\ Quiet
    /\ UNCHANGED settingVars

\* ... without locking the row, and the new one written in a second statement
\* of the transaction.  The audit row carries the value that was read.
WriteFlag(r) ==
    /\ At(r, "toggle", "update")
    /\ \/ /\ flag' = [flag EXCEPT ![ask[r].id] = ask[r].val]
          /\ Answer(r, 200)
          /\ FlagAudit(r, q[r].old, ask[r].val)
       \/ Fails(r, 500) /\ UNCHANGED flag
    /\ UNCHANGED <<over, lock, stuck, provVars, ctlVars>>

\* PUT and PATCH of a global flag are the same two statements.
toggle_flag(r) == ReadFlag(r) \/ WriteFlag(r)

OverrideOps == {"override", "unset"}

\* _check_flag_exists, before the lock is taken.
check_flag_exists(r) ==
    /\ \E op \in OverrideOps : Begins(r, op)
    /\ IF ask[r].id \in Flags THEN Goto(r, "lock") ELSE Answer(r, 404)
    /\ Quiet
    /\ UNCHANGED settingVars

\* Mutant: the lock is not taken.
LockConfig_None(r) == UNCHANGED lock

\* _FileLockContext.__enter__: filelock first, then flock; both wait.
LockConfig(r) == lock = None /\ lock' = r

\* Both wait in the event loop.  When the holder is a coroutine of the same
\* process that is suspended at an await, it can never go on and release the
\* lock: filelock gives up after ten seconds, flock never does.  Only the
\* department editor awaits under the lock.
BlocksLoop(r) ==
    /\ lock # None /\ ask[lock].op = "dedit" /\ ask[lock].proc = ask[r].proc
    /\ stuck' = stuck \cup {ask[r].proc}

\* The whole document is read under the lock.
ReadOverrides(r) ==
    /\ ask[r].op \in OverrideOps /\ q[r].pc = "lock"
    /\ \/ LockConfig(r) /\ Read(r, "edit", over) /\ UNCHANGED stuck
       \/ BlocksLoop(r) /\ UNCHANGED <<lock, q>>
    /\ Quiet
    /\ UNCHANGED <<flag, over, provVars, ctlVars>>

\* create_department, update_department, delete_department: an edit that is
\* refused (an id or an account that is taken, an unknown department) is
\* audited while the lock is held.  An edit that is accepted holds it without
\* an await.
StartEdit(r) ==
    /\ Starts(r, "dedit") /\ Goto(r, "lock") /\ Quiet
    /\ UNCHANGED settingVars

HoldConfig(r) ==
    /\ At(r, "dedit", "lock")
    /\ \/ LockConfig(r) /\ Goto(r, "audit") /\ UNCHANGED stuck
       \/ BlocksLoop(r) /\ UNCHANGED <<lock, q>>
    /\ Quiet
    /\ UNCHANGED <<flag, over, provVars, ctlVars>>

RefuseEdit(r) ==
    /\ At(r, "dedit", "audit")
    /\ lock' = IF lock = r THEN None ELSE lock
    /\ Answer(r, 409)
    /\ insert_audit(AuditRow(r, "dept_created", "denied", None, None))
    /\ UNCHANGED <<flag, over, stuck, provVars, ctlVars>>

\* What the edited document holds: the key set, or removed.
Edited(r) == [q[r].old EXCEPT ![ask[r].dept][ask[r].id] =
                 IF ask[r].op = "override" THEN ask[r].val ELSE None]

\* The document is written as a whole and the lock released; an unknown
\* department, or an override that is not there, ends the request inside.
WriteOverrides(r) ==
    LET a == ask[r]  was == q[r].old IN
    /\ a.op \in OverrideOps /\ q[r].pc = "edit"
    /\ lock' = IF lock = r THEN None ELSE lock
    /\ IF a.dept \notin FlagDepts THEN Answer(r, 404) /\ UNCHANGED over /\ Quiet
       ELSE IF a.op = "unset" /\ was[a.dept][a.id] = None
            THEN Answer(r, NoEffect) /\ UNCHANGED over /\ Quiet
       ELSE /\ over' = Edited(r)
            /\ Answer(r, 200)
            /\ FlagAudit(r, was[a.dept][a.id], IF a.op = "override" THEN a.val ELSE None)
    /\ UNCHANGED <<flag, stuck, provVars, ctlVars>>

\* list_flags_with_overrides: the global rows, then the file.
ListFlags(r) ==
    /\ Begins(r, "flags") /\ Answer(r, 200) /\ Quiet
    /\ UNCHANGED settingVars

FlagStep(r) == toggle_flag(r) \/ check_flag_exists(r) \/ ReadOverrides(r)
               \/ WriteOverrides(r) \/ StartEdit(r) \/ HoldConfig(r) \/ RefuseEdit(r)
               \/ ListFlags(r)

-----------------------------------------------------------------------------
(* LLM providers *)

Exists(p) == provs[p] # "absent"

\* Waits for the transaction that holds the row, if any.
RowFree(p) == rowlock[p] = None

\* VaultClient: one secret per provider, written and deleted as a whole.  The
\* delete is the soft delete of KV version 2: a read finds nothing any more, and
\* Vault keeps the versions until they are destroyed, which nobody does.
write_llm_credentials(p, payload) == creds' = [creds EXCEPT ![p] = payload]
delete_llm_credentials(p) == creds' = [creds EXCEPT ![p] = NoCred]

\* LLMProviderRepository.insert, at commit.
insert_provider(p) == provs' = [provs EXCEPT ![p] = "active"]

\* ProviderService._emit_audit.
ProviderAudit(r, action, result) == insert_audit(AuditRow(r, action, result, None, None))

\* create: the row is inserted in an open transaction, invisible to others ...
CreateProvider(r) ==
    /\ Begins(r, "pnew")
    /\ \/ Goto(r, "vault") /\ Quiet
       \/ Fails(r, 500)
    /\ UNCHANGED settingVars

\* ... then the credentials go to Vault; a failure rolls back ...
CreateCredentials(r) ==
    /\ At(r, "pnew", "vault")
    /\ \/ write_llm_credentials(ask[r].id, [api |-> ask[r].val, org |-> None])
          /\ Goto(r, "commit") /\ Quiet
       \/ Fails(r, 502) /\ UNCHANGED creds
    /\ UNCHANGED <<flagVars, provs, pins, rowlock, tested, ctlVars>>

\* ... and the commit makes the row visible.
CommitProvider(r) ==
    /\ At(r, "pnew", "commit")
    /\ \/ insert_provider(ask[r].id)
          /\ Answer(r, 201)
          /\ ProviderAudit(r, "llm_provider_created", "ok")
       \/ Fails(r, 500) /\ UNCHANGED provs
    /\ UNCHANGED <<flagVars, creds, pins, rowlock, tested, ctlVars>>

\* update, delete and test look the row up first.
LookUp(r) ==
    /\ \E op \in {"pset", "pdel", "ptest"} : Begins(r, op)
    /\ IF Exists(ask[r].id) THEN Goto(r, "go")
       ELSE Answer(r, IF ask[r].op = "ptest" THEN NoEffect ELSE 404)
    /\ Quiet
    /\ UNCHANGED settingVars

\* Mutant: the row is not locked while the credentials are merged.
LockRow_None(r, p) == UNCHANGED rowlock

\* UPDATE locks the row until the transaction ends; a row that is gone locks
\* nothing and is noticed only at the end.
LockRow(r, p) == rowlock' = IF Exists(p) THEN [rowlock EXCEPT ![p] = r] ELSE rowlock

ChangesCredentials(r) == ask[r].mode \in {"api", "org"}

UpdateRow(r) ==
    /\ At(r, "pset", "go")
    /\ \/ /\ RowFree(ask[r].id) /\ LockRow(r, ask[r].id)
          /\ Read(r, IF ChangesCredentials(r) THEN "read" ELSE "commit",
                  [was |-> provs[ask[r].id], cred |-> NoCred])
          /\ Quiet
       \/ Fails(r, 500) /\ UNCHANGED rowlock
    /\ UNCHANGED <<flagVars, provs, creds, pins, tested, ctlVars>>

\* Mutant: a transaction that is not ended.
Unlock_Never(r) == UNCHANGED rowlock

\* End of the transaction of request r.
Unlock(r) == rowlock' = [p \in Providers |-> IF rowlock[p] = r THEN None ELSE rowlock[p]]

\* The credentials are read and merged: a field that is not in the patch
\* keeps its value ...
ReadCredentials(r) ==
    /\ At(r, "pset", "read")
    /\ \/ q' = [q EXCEPT ![r].pc = "write", ![r].old.cred = creds[ask[r].id]]
          /\ Quiet /\ UNCHANGED rowlock
       \/ Fails(r, 502) /\ Unlock(r)
    /\ UNCHANGED <<flagVars, provs, creds, pins, tested, ctlVars>>

Merged(r) == [q[r].old.cred EXCEPT ![ask[r].mode] = ask[r].val]

\* ... and written back as a whole.
WriteCredentials(r) ==
    /\ At(r, "pset", "write")
    /\ \/ write_llm_credentials(ask[r].id, Merged(r))
          /\ Goto(r, "commit") /\ Quiet /\ UNCHANGED rowlock
       \/ Fails(r, 502) /\ Unlock(r) /\ UNCHANGED creds
    /\ UNCHANGED <<flagVars, provs, pins, tested, ctlVars>>

\* Commit; a row that had vanished makes it a 404.
CommitUpdate(r) ==
    LET p == ask[r].id  gone == q[r].old.was = "absent" IN
    /\ At(r, "pset", "commit")
    /\ Unlock(r)
    /\ \/ /\ provs' = IF ask[r].mode = "status" /\ ~ gone
                      THEN [provs EXCEPT ![p] = ask[r].val] ELSE provs
          /\ IF gone THEN Answer(r, 404) /\ Quiet
             ELSE /\ Answer(r, 200)
                  /\ ProviderAudit(r, IF ChangesCredentials(r)
                                      THEN "llm_provider_credentials_rotated"
                                      ELSE "llm_provider_updated", "ok")
       \/ Fails(r, 500) /\ UNCHANGED provs
    /\ UNCHANGED <<flagVars, creds, pins, tested, ctlVars>>

\* overrides_referencing: the departments that pin the provider.
overrides_referencing(p) == {d \in FlagDepts : pins[d] = p}

\* delete: refused while a department pins the provider ...
CheckPins(r) ==
    /\ At(r, "pdel", "go")
    /\ IF overrides_referencing(ask[r].id) # {} THEN Answer(r, 409) ELSE Goto(r, "wipe")
    /\ Quiet
    /\ UNCHANGED settingVars

\* ... the credentials go first; a failure, which may be no more than a lost
\* answer, is audited and ends the request with the row still there ...
WipeCredentials(r) ==
    /\ At(r, "pdel", "wipe")
    /\ \/ delete_llm_credentials(ask[r].id)
          /\ Goto(r, "drop") /\ Quiet
       \/ Fault /\ Answer(r, 502) /\ (UNCHANGED creds \/ delete_llm_credentials(ask[r].id))
          /\ audit' = audit \cup {AuditRow(r, "llm_provider_delete_vault_failed", "error", None, None)}
    /\ UNCHANGED <<flagVars, provs, pins, rowlock, tested, ctlVars>>

\* ... and the row last.  The foreign key of the pins restricts the DELETE: a
\* pin made in the meantime is an error nobody handles.
DropProvider(r) ==
    /\ At(r, "pdel", "drop") /\ RowFree(ask[r].id)
    /\ \/ /\ \A d \in FlagDepts : pins[d] # ask[r].id
          /\ provs' = [provs EXCEPT ![ask[r].id] = "absent"]
          /\ Answer(r, 204)
          /\ ProviderAudit(r, "llm_provider_deleted", "ok")
       \/ /\ \E d \in FlagDepts : pins[d] = ask[r].id
          /\ Answer(r, 500) /\ Quiet /\ UNCHANGED provs
       \/ Fails(r, 500) /\ UNCHANGED provs
    /\ UNCHANGED <<flagVars, creds, pins, rowlock, tested, ctlVars>>

\* DeptOverrideRepository.upsert and delete.
upsert_pin(d, p) == pins' = [pins EXCEPT ![d] = p]

\* set_override: None removes the pin; otherwise the provider must exist and
\* be active ...
StartPin(r) ==
    /\ Begins(r, "pin")
    /\ IF ask[r].id = None THEN Goto(r, "put")
       ELSE IF ~ Exists(ask[r].id) THEN Answer(r, 422)
       ELSE IF provs[ask[r].id] # "active" THEN Answer(r, 409)
       ELSE Goto(r, "put")
    /\ Quiet
    /\ UNCHANGED settingVars

\* ... and the upsert fails when it was deleted since.
PutPin(r) ==
    LET p == ask[r].id IN
    /\ At(r, "pin", "put")
    /\ \/ /\ p # None => Exists(p)
          /\ upsert_pin(ask[r].dept, p)
          /\ Answer(r, 200)
          /\ ProviderAudit(r, IF p = None THEN "dept_llm_provider_unpinned"
                                         ELSE "dept_llm_provider_pinned", "ok")
       \/ /\ p # None /\ ~ Exists(p)
          /\ Answer(r, 500) /\ Quiet /\ UNCHANGED pins
    /\ UNCHANGED <<flagVars, provs, creds, rowlock, tested, ctlVars>>

\* test_saved: the credentials are read, a failure is not handled ...
ReadForTest(r) ==
    /\ At(r, "ptest", "go")
    /\ \/ Read(r, "call", creds[ask[r].id]) /\ Quiet
       \/ Fails(r, 500)
    /\ UNCHANGED settingVars

\* The _test_* methods: a provider without its key refuses; with it the test
\* passes unless the network or the provider fails.
TestOutcome(api, result) ==
    IF (result = "ok") = (api # None) THEN Works ELSE result = "error" /\ Fault

\* LLMProviderRepository.update_test_result: nothing happens to a row that is
\* gone.
update_test_result(p, result) ==
    tested' = IF Exists(p) THEN [tested EXCEPT ![p] = result] ELSE tested

\* ... ConnectionTester.run: never raises; every transport error, timeout and
\* non-2xx answer is a failed test ...
CallProvider(r) ==
    /\ At(r, "ptest", "call")
    /\ \E result \in {"ok", "error"} :
          /\ q' = [q EXCEPT ![r].pc = "note", ![r].br = result]
          /\ TestOutcome(q[r].old.api, result)
    /\ UNCHANGED audit
    /\ UNCHANGED settingVars

\* ... and the result is stored on the row, which may be locked or gone.
StoreTest(r) ==
    LET p == ask[r].id IN
    /\ At(r, "ptest", "note") /\ RowFree(p)
    /\ update_test_result(p, q[r].br)
    /\ Answer(r, 200)
    /\ ProviderAudit(r, "llm_provider_tested", q[r].br)
    /\ UNCHANGED <<flagVars, provs, creds, pins, rowlock, ctlVars>>

\* test_unsaved: the same call with the credentials of the request.
TestUnsaved(r) ==
    /\ Begins(r, "ptry")
    /\ Answer(r, 200)
    /\ ProviderAudit(r, "llm_provider_test_unsaved", "ok")
    /\ UNCHANGED settingVars

\* get_override: the pin, then its provider, in two statements.
GetPin(r) ==
    /\ Begins(r, "pinned")
    /\ IF pins[ask[r].dept] = None THEN Answer(r, NoEffect)
                                   ELSE Read(r, "row", pins[ask[r].dept])
    /\ Quiet
    /\ UNCHANGED settingVars

GetPinned(r) ==
    /\ At(r, "pinned", "row")
    /\ Answer(r, IF Exists(q[r].old) THEN 200 ELSE NoEffect)
    /\ Quiet
    /\ UNCHANGED settingVars

ProviderStep(r) ==
    \/ CreateProvider(r) \/ CreateCredentials(r) \/ CommitProvider(r)
    \/ LookUp(r) \/ UpdateRow(r) \/ ReadCredentials(r) \/ WriteCredentials(r) \/ CommitUpdate(r)
    \/ CheckPins(r) \/ WipeCredentials(r) \/ DropProvider(r)
    \/ StartPin(r) \/ PutPin(r) \/ GetPin(r) \/ GetPinned(r)
    \/ ReadForTest(r) \/ CallProvider(r) \/ StoreTest(r) \/ TestUnsaved(r)

-----------------------------------------------------------------------------
(* Workflow control and runner workspaces *)

ControlOps == {"cancel", "retry", "signal"}

ControlAudit(r, result) == insert_audit(AuditRow(r, "admin_workflow_action", result, None, ask[r].op))

\* _map_control_exception with its audit row: denied is 404, error is 502.
Denied(r) == Answer(r, 404) /\ ControlAudit(r, "denied")
Errored(r) ==
    /\ Fault /\ Answer(r, 502)
    /\ audit' = audit \cup {AuditRow(r, "admin_workflow_action", "error", None, ask[r].op)}

\* Each control call describes the workflow first ...
Describe(r) ==
    /\ ask[r].op \in ControlOps /\ Begins(r, ask[r].op)
    /\ \/ flows[ask[r].id] # "none" /\ Goto(r, "act") /\ Quiet
       \/ flows[ask[r].id] = "none" /\ Denied(r)
       \/ Errored(r)
    /\ UNCHANGED settingVars

\* Cancelling or signalling needs an open run; restart_workflow starts a copy
\* of any run whose history is still there, open or not.
Accepts(op, state) == state = "running" \/ (op = "retry" /\ state = "closed")

\* The run closed or was pruned after it was described.
ActRefused(r) == Denied(r)

\* ... and acts in a second call.  A failed call may have taken effect.
ActOnFlow(r) ==
    LET done == touched \cup {<<r, ask[r].op>>} IN
    /\ \E op \in ControlOps : At(r, op, "act")
    /\ \/ /\ Accepts(ask[r].op, flows[ask[r].id])
          /\ touched' = done
          /\ Answer(r, 200) /\ ControlAudit(r, "ok")
       \/ ~ Accepts(ask[r].op, flows[ask[r].id]) /\ ActRefused(r) /\ UNCHANGED touched
       \/ Errored(r) /\ touched' \in {touched} \cup
            (IF Accepts(ask[r].op, flows[ask[r].id]) THEN {done} ELSE {})
    /\ UNCHANGED <<flagVars, provVars, flows, spaces>>

\* The three handlers are the same two calls.
Control(r, op) == ask[r].op = op /\ (Describe(r) \/ ActOnFlow(r))
cancel_workflow(r) == Control(r, "cancel")
retry_workflow(r) == Control(r, "retry")
signal_workflow(r) == Control(r, "signal")

\* purge_runner_workspace: the key is checked, then the runner removes the
\* directory, or says in a 200 that it removed nothing (purged is false), which
\* is audited as a purge all the same; every outcome but an absent client is
\* audited.
PurgeWorkspace(r) ==
    /\ Starts(r, "purge")
    /\ \/ /\ ask[r].id = "bad" /\ UNCHANGED spaces
          /\ Answer(r, 400)
          /\ insert_audit(AuditRow(r, "workspace_purge_rejected_invalid_key", "denied", None, None))
       \/ ask[r].id # "bad" /\ ~ wired /\ Answer(r, 503) /\ Quiet /\ UNCHANGED spaces
       \/ /\ ask[r].id # "bad" /\ wired
          /\ \/ spaces' = spaces \ {ask[r].id} /\ Answer(r, 200)
             \/ UNCHANGED spaces /\ Answer(r, NoEffect)
          /\ insert_audit(AuditRow(r, "workspace_manually_purged", "ok", None, None))
       \/ /\ ask[r].id # "bad" /\ wired
          /\ Fault /\ Answer(r, 502)
          /\ spaces' \in {spaces, spaces \ {ask[r].id}}
          /\ audit' = audit \cup {AuditRow(r, "workspace_purge_failed", "error", None, None)}
    /\ UNCHANGED <<flagVars, provVars, flows, touched>>

\* list_workflows and list_runner_workspaces: a failure is a 502, or an empty
\* list.
ListOps(r) ==
    /\ Begins(r, "flows") \/ Starts(r, "spaces")
    /\ \/ Answer(r, 200) /\ Quiet
       \/ Fails(r, IF ask[r].op = "flows" THEN 502 ELSE 200)
    /\ UNCHANGED settingVars

ControlStep(r) == cancel_workflow(r) \/ retry_workflow(r) \/ signal_workflow(r) \/ PurgeWorkspace(r) \/ ListOps(r)

\* A workflow ends, and its history is pruned, on its own.
FlowEnds ==
    /\ \E w \in Flows :
          \/ flows[w] = "running" /\ flows' = [flows EXCEPT ![w] = "closed"]
          \/ flows[w] = "closed" /\ flows' = [flows EXCEPT ![w] = "none"]
    /\ UNCHANGED reqVars
    /\ UNCHANGED <<flagVars, provVars, touched, spaces>>

SettingStep(r) == SettingsNotReady(r) \/ FlagStep(r) \/ ProviderStep(r) \/ ControlStep(r)

-----------------------------------------------------------------------------
(* Properties *)

Rival(r, s) == r # s /\ ask[s].op = "toggle" /\ ask[s].id = ask[r].id
               /\ q[s].pc # "idle" /\ s \notin q[r].before

\* An edit of an override changes the one entry it names, whatever else is
\* edited at the same time, and a flag's audit trail tells the value that was
\* replaced: always for overrides, and for global values when no other toggle
\* of the flag is under way.
FlagEditsAreExact ==
    [][\A r \in Reqs :
        /\ (over' # over /\ q'[r] # q[r]) =>
              /\ over' = [over EXCEPT ![ask[r].dept][ask[r].id] = over'[ask[r].dept][ask[r].id]]
              /\ q[r].old[ask[r].dept][ask[r].id] = over[ask[r].dept][ask[r].id]
        /\ (flag' # flag /\ q'[r] # q[r]) =>
              (q[r].old = flag[ask[r].id] \/ \E s \in Reqs : Rival(r, s))]_<<over, flag>>

Deleting(p) == {s \in Reqs : ask[s].op = "pdel" /\ ask[s].id = p /\ q[s].pc # "idle"}

\* A provider that can be seen has a key, unless its deletion has begun: the
\* credentials are written before the row is committed and a failed write
\* takes the row with it.
VisibleProviderHasKey ==
    \A p \in Providers : Exists(p) => creds[p].api # None \/ Deleting(p) # {}

\* A rotated field is not lost: after the answer the secret holds the new
\* value until another update of that field, or a deletion, overtakes it.  Two
\* updates of different fields keep each other's value.
RotatedFieldIsKept ==
    \A r \in Reqs :
        (ask[r].op = "pset" /\ ChangesCredentials(r) /\ q[r].reply = 200) =>
            \/ creds[ask[r].id][ask[r].mode] = ask[r].val
            \/ \E s \in Reqs \ {r} :
                  /\ ask[s].op = "pset" /\ ask[s].id = ask[r].id /\ ask[s].mode = ask[r].mode
                  /\ q[s].pc # "idle" /\ s \notin q[r].before
            \/ Deleting(ask[r].id) # {}

\* After a 204 no key of the provider can be read any more, unless an update
\* was running next to the deletion.
DeletedKeyIsNotRead ==
    \A r \in Reqs :
        (ask[r].op = "pdel" /\ q[r].reply = 204) =>
            \/ creds[ask[r].id] = NoCred
            \/ \E s \in Reqs : ask[s].op = "pset" /\ ask[s].id = ask[r].id /\ Overlap(r, s)

\* A pinned provider exists and has its key, unless the pin was made while
\* the provider was being deleted, or after a deletion that got as far as the
\* key and failed at the row or did not learn that the key was gone.
PinnedProviderWorks ==
    \A d \in FlagDepts : pins[d] # None =>
        /\ Exists(pins[d])
        /\ \/ creds[pins[d]].api # None
           \/ \E r \in Reqs, s \in Deleting(pins[d]) :
                 ask[r].op = "pin" /\ ask[r].dept = d
                 /\ (Overlap(r, s) \/ (s \in q[r].before /\ q[s].reply \in {500, 502}))

\* What a control call answered is what happened: 200 means the workflow was
\* cancelled, signalled or restarted, and 404 that it was not; an audit row that
\* says ok is about a call that took effect.
ControlAnswersAreTrue ==
    \A r \in Reqs : ask[r].op \in ControlOps =>
        /\ q[r].reply = 200 => <<r, ask[r].op>> \in touched
        /\ q[r].reply = 404 => <<r, ask[r].op>> \notin touched
        /\ \A x \in audit : (x.by = r /\ x.result = "ok") => <<r, ask[r].op>> \in touched

=============================================================================
