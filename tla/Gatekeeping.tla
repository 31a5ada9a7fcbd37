----------------------------- MODULE Gatekeeping -----------------------------
(***************************************************************************)
(* Who gets in: bearer tokens checked against the issuer's keys and their  *)
(* cache, requests that the dashboard forwards to the automation service,  *)
(* the token that creates the first administrator, and the signature of a  *)
(* webhook delivery.  The issuer changes its keys, caches and tokens age,  *)
(* secrets are written, all while requests wait for an answer.  The second *)
(* part is about what may be spent.                                        *)
(***************************************************************************)
EXTENDS Jobs, TLC

VARIABLES
    published,      \* the signing keys the issuer publishes
    jwks,           \* _JWKSCache: the keys fetched last and whether the TTL runs
    logins,         \* tokens admitted: by whom, the key, whether it was still published
    arrived,        \* requests that reached the automation service
    boots,          \* auth.bootstrap_tokens: who made the token and its state
    users,          \* auth.users, by the request that made them
    hookSecrets     \* the secrets of webhooks in Vault, and the department's first one

gateVars == <<published, jwks, logins, arrived, boots, users, hookSecrets>>
GateOps == {"login", "forward", "make_token", "use_token", "signed"}

GateInit(mix) ==
    /\ published = {"k1"} /\ jwks = [keys |-> {}, fresh |-> FALSE] /\ logins = {}
    /\ arrived = {} /\ boots = mix.boots /\ users = {} /\ hookSecrets = mix.hookSecrets

-----------------------------------------------------------------------------
(* Bearer tokens.                                                          *)

fetch_jwks == jwks' = [keys |-> published, fresh |-> TRUE]

\* A key in a fresh cache is taken from there; anything else fetches the set once
\* more, under the lock.  A fetch that fails leaves the cache alone.
get_signing_key(key) ==
    IF jwks.fresh /\ key \in jwks.keys
    THEN Works /\ UNCHANGED jwks
    ELSE \/ Works /\ fetch_jwks
         \/ Fault /\ UNCHANGED jwks

\* The administrators' dependency reads groups and roles, not the single role.
collect_admin_membership(t) == "admin" \in t.groups \cup t.roles

extract_role(t) == {t.role} \cup t.roles \cup t.groups

extract_auth_context(t) ==
    IF t.sub = None \/ extract_role(t) \cap {"viewer", "lead", "admin", "dept_admin"} = {} THEN "401" ELSE "200"

\* What the claims are worth to the caller.
Judge(x, t) ==
    IF ask[x].guard = "context" THEN extract_auth_context(t)
    ELSE IF ~collect_admin_membership(t) THEN "403"
    ELSE IF t.sub = None THEN "401" ELSE "200"

DevClaims == [sub |-> "dev-admin", role |-> "admin", groups |-> {"admin"}, roles |-> {}]

validate_dev(x) ==
    /\ Works /\ UNCHANGED <<jwks, logins>>
    /\ End(x, Judge(x, DevClaims))

\* Header, key, then signature with audience, issuer and expiry.
validate_production(x) ==
    LET t == ask[x].token
    IN  IF t.kid = None \/ t.alg # "RS256" THEN Works /\ UNCHANGED <<jwks, logins>> /\ End(x, "401")
        ELSE /\ get_signing_key(t.kid)
             /\ IF failed' = failed /\ t.kid \in jwks'.keys /\ t.sound
                THEN /\ End(x, Judge(x, t))
                     /\ logins' = logins \cup {[by |-> x, kid |-> t.kid, current |-> t.kid \in published, cached |-> jwks.fresh]}
                ELSE End(x, "401") /\ UNCHANGED logins

require_admin(x) ==
    /\ Begins(x, "login") /\ Quiet /\ UNCHANGED <<published, arrived, boots, users, hookSecrets>>
    /\ IF ask[x].token = None THEN Works /\ UNCHANGED <<jwks, logins>> /\ End(x, "401")
       ELSE IF ask[x].mode = "dev" THEN validate_dev(x) ELSE validate_production(x)

-----------------------------------------------------------------------------
(* Requests forwarded to the automation service.                           *)

\* A path is a kind and, for the routes of a department, its id.
classify_admin_path(p) ==
    CASE p.kind \in {"departments", "wizard", "global", "other"} -> [role |-> "admin", dept |-> None]
      [] p.kind = "rotate" -> [role |-> "dept_admin", dept |-> p.dept]
      [] p.kind = "disable" -> [role |-> "admin", dept |-> p.dept]
      [] p.kind = "sub" -> [role |-> "dept_admin", dept |-> p.dept]
      [] OTHER -> None

RolesThatSatisfy(required) == IF required = "admin" THEN {"admin"} ELSE {"admin", "dept_admin"}

check(actor, policy) ==
    /\ actor.role \in RolesThatSatisfy(policy.role)
    /\ policy.dept = None \/ actor.role = "admin" \/ policy.dept \in actor.depts

Forward(x) ==
    /\ Begins(x, "forward") /\ Quiet /\ Works /\ UNCHANGED gateVars
    /\ LET policy == classify_admin_path(ask[x].path)
       IN  CASE policy = None -> End(x, "404")
             [] policy # None /\ ~check(ask[x].actor, policy) -> Goto(x, "denied")
             [] OTHER -> Goto(x, "call")

emit_rbac_denied(x) ==
    At(x, "forward", "denied") /\ BestEffortAudit(x, "rbac_denied", "denied") /\ End(x, "403") /\ UNCHANGED gateVars

\* The actor travels in headers the caller cannot set.
filter_headers(x) == [by |-> x, actor |-> ask[x].actor.id, path |-> ask[x].path]

CallUpstream(x) ==
    /\ At(x, "forward", "call") /\ Quiet /\ UNCHANGED <<published, jwks, logins, boots, users, hookSecrets>>
    /\ \/ Works /\ arrived' = arrived \cup {filter_headers(x)} /\ \E status \in {"200", "404"} : End(x, status)
       \/ Fault /\ (UNCHANGED arrived \/ arrived' = arrived \cup {filter_headers(x)}) /\ \E status \in {"502", "504"} : End(x, status)

-----------------------------------------------------------------------------
(* The first administrator.                                                *)

\* Two queries and an insert, without a transaction.
generate_if_needed(x) ==
    /\ ask[x].op = "make_token" /\ Quiet /\ UNCHANGED <<published, jwks, logins, arrived, users, hookSecrets>>
    /\ \/ /\ job[x].pc = "idle" /\ Works /\ UNCHANGED boots
          /\ IF \E b \in boots : b.state = "used" THEN End(x, "none") ELSE Goto(x, "second")
       \/ /\ job[x].pc = "second" /\ Works /\ UNCHANGED boots
          /\ IF \E b \in boots : b.state = "valid" THEN End(x, "none") ELSE Goto(x, "insert")
       \/ job[x].pc = "insert" /\ Works /\ boots' = boots \cup {[by |-> x, state |-> "valid"]} /\ End(x, "made")
       \/ Fault /\ End(x, "raised") /\ UNCHANGED boots

\* One statement marks a valid token used; the statements that insert the user
\* come after it.
validate_and_consume(x) ==
    LET valid == {b \in boots : b.by = ask[x].token /\ b.state = "valid"}
    IN  \/ valid = {} /\ Works /\ UNCHANGED boots /\ End(x, "401")
        \/ /\ valid # {} /\ Works /\ Goto(x, "insert")
           /\ boots' = (boots \ valid) \cup {[b EXCEPT !.state = "used"] : b \in valid}
        \/ Fault /\ UNCHANGED boots /\ End(x, "500")

is_oidc_configured(x) == ask[x].oidc

bootstrap_admin(x) ==
    /\ ask[x].op = "use_token" /\ Quiet /\ UNCHANGED <<published, jwks, logins, arrived, hookSecrets>>
    /\ \/ /\ job[x].pc = "idle" /\ UNCHANGED users
          /\ IF is_oidc_configured(x) THEN Works /\ End(x, "410") /\ UNCHANGED boots
             ELSE IF ask[x].token = None THEN Works /\ End(x, "400") /\ UNCHANGED boots
             ELSE validate_and_consume(x)
       \/ /\ job[x].pc = "insert" /\ UNCHANGED boots
          /\ \/ Works /\ users' = users \cup {x} /\ End(x, "201")
             \/ Fault /\ UNCHANGED users /\ End(x, "500")

-----------------------------------------------------------------------------
(* The signature of a webhook delivery.                                    *)

verify_hmac(x, secret) == ask[x].signature = secret

extract_department(x) == ask[x].dept

\* Paths outside the webhooks pass; a department's secret comes first.
dispatch(x) ==
    /\ Begins(x, "signed") /\ Quiet /\ Works /\ UNCHANGED gateVars
    /\ CASE ask[x].path # "webhooks" -> End(x, "passed")
         [] ask[x].path = "webhooks" /\ ask[x].signature = None -> End(x, "401")
         [] OTHER -> Goto(x, IF extract_department(x) = None THEN "global" ELSE "dept")

\* Only a secret that does not exist leads to the global one: a Vault that does
\* not answer, or a secret without a value, is a 503.
verify_with_dept_secret(x) ==
    /\ At(x, "signed", "dept") /\ Quiet /\ UNCHANGED gateVars
    /\ \/ /\ Works
          /\ LET s == hookSecrets.dept
             IN  CASE s = None -> Goto(x, "global")
                   [] s = "empty" -> End(x, "503")
                   [] OTHER -> End(x, IF verify_hmac(x, s) THEN "passed" ELSE "401")
       \/ Fault /\ End(x, "503")

verify_with_global_fallback(x) ==
    /\ At(x, "signed", "global") /\ Quiet /\ UNCHANGED gateVars
    /\ IF ask[x].configured # None
       THEN Works /\ End(x, IF verify_hmac(x, ask[x].configured) THEN "passed" ELSE "401")
       ELSE \/ /\ Works
               /\ LET s == hookSecrets.global
                  IN  End(x, IF s \notin {None, "empty"} /\ verify_hmac(x, s) THEN "passed" ELSE "401")
            \/ Fault /\ End(x, "503")

GateStep(x) ==
    \/ require_admin(x) \/ Forward(x) \/ emit_rbac_denied(x) \/ CallUpstream(x)
    \/ generate_if_needed(x) \/ bootstrap_admin(x)
    \/ dispatch(x) \/ verify_with_dept_secret(x) \/ verify_with_global_fallback(x)

Waits(op) == \E x \in Jobs : ask[x].op = op /\ ~Ended(x)

\* The issuer brings in its second key and takes the first away; the cache and
\* the tokens pass their time; the department's secret is written.
GatesAge ==
    \/ /\ Waits("login") /\ published # {"k2"} /\ published' = IF published = {"k1"} THEN {"k1", "k2"} ELSE {"k2"}
       /\ UNCHANGED <<jwks, logins, arrived, boots, users, hookSecrets>>
    \/ /\ Waits("login") /\ jwks.fresh /\ jwks' = [jwks EXCEPT !.fresh = FALSE]
       /\ UNCHANGED <<published, logins, arrived, boots, users, hookSecrets>>
    \/ /\ Waits("use_token") \/ Waits("make_token")
       /\ \E b \in boots : b.state = "valid" /\ boots' = (boots \ {b}) \cup {[b EXCEPT !.state = "expired"]}
       /\ UNCHANGED <<published, jwks, logins, arrived, users, hookSecrets>>
    \/ /\ Waits("signed") /\ hookSecrets.dept = None /\ hookSecrets' = [hookSecrets EXCEPT !.dept = "sd"]
       /\ UNCHANGED <<published, jwks, logins, arrived, boots, users>>

-----------------------------------------------------------------------------
\* A key the issuer took away is accepted only out of a cache whose time runs,
\* and a token signed with a published key is refused only when the fetch failed.
RetiredKeysRunOut ==
    /\ \A l \in logins : l.current \/ l.cached
    /\ \A x \in Jobs : ask[x].op = "login" /\ Ended(x) /\ job[x].out = "401" /\ ask[x].mode = "production" =>
          LET t == ask[x].token
          IN  t = None \/ t.kid # "k1" \/ ~t.sound \/ t.alg # "RS256" \/ t.sub = None \/ "k1" \notin published \/ failed > 0
              \/ (ask[x].guard = "context" /\ extract_auth_context(t) = "401")

\* What reached the automation service was asked by an administrator, or by one of
\* the department for anything but its end, under their own name; a request refused or not found did not reach it; a refusal has its
\* row unless that write failed.
ForwardedIsAllowed ==
    /\ \A a \in arrived :
          LET actor == ask[a.by].actor
          IN  /\ a.actor = actor.id
              /\ actor.role = "admin" \/ (actor.role = "dept_admin" /\ a.path.dept \in actor.depts /\ a.path.kind # "disable")
    /\ \A x \in Jobs : ask[x].op = "forward" /\ Ended(x) =>
          /\ job[x].out \in {"403"} => ~\E a \in arrived : a.by = x
          /\ job[x].out = "403" => AuditRow(x, "rbac_denied", "denied") \in audit \/ failed > 0

\* One administrator for one token, whoever presents it at the same time; a used
\* token without its administrator is a failed insert; and after an
\* administrator exists no call that begins makes a new token.
OneAdminPerToken ==
    /\ \A x, y \in users : ask[x].token = ask[y].token => x = y
    /\ \A b \in boots : b.state = "used" =>
          (\E x \in Jobs : ask[x].op = "use_token" /\ ask[x].token = b.by /\ (x \in users \/ job[x].pc = "insert")) \/ failed > 0 \/ b.by = "old"
    /\ \A x \in Jobs, y \in users : ask[x].op = "make_token" /\ job[x].out = "made" => y \notin job[x].before

\* A delivery that passed under the webhooks was signed with a secret that was
\* its own at some time of the check: where the department always had one, with
\* that one, whatever Vault answers.
PassedIsSigned ==
    \A x \in Jobs : ask[x].op = "signed" /\ Ended(x) =>
        /\ job[x].out = "passed" /\ ask[x].path = "webhooks" =>
              \/ extract_department(x) # None /\ ask[x].signature = hookSecrets.dept
              \/ /\ extract_department(x) = None \/ hookSecrets.first = None
                 /\ ask[x].signature \in {ask[x].configured, hookSecrets.global}
        /\ job[x].out = "503" => failed > 0 \/ hookSecrets.dept = "empty"

-----------------------------------------------------------------------------
(***************************************************************************)
(* Spending limits.  BudgetCapPolicy reads four sums of cost rows, one     *)
(* query each, and compares them with the caps of the department;          *)
(* check_budget does so before a workflow starts, where the dispatcher was *)
(* given a policy, and the dispatcher acts on its answer; enforce and      *)
(* pre_llm_budget_guard are the other two readers.  Work that was let in   *)
(* spends when it ends.                                                    *)
(***************************************************************************)
CONSTANTS
    Configured      \* the departments the caps provider knows

VARIABLES
    caps,           \* caps[s]: the cap of scope s
    spent,          \* spent[s]: the sum of the cost rows of scope s
    alarms,         \* alarms[s]: the alarm threshold of scope s, or None
    rung,           \* rung[s]: the jobs that sent the alarm of scope s
    said,           \* comments that arrived on an issue, by job
    hot             \* hot[x]: scopes at their cap when job x began (history)

budgetVars == <<caps, spent, alarms, rung, said, hot>>

Scopes == {"dept_weekly", "user_weekly", "dept_monthly", "user_monthly"}

BudgetInit(mix) ==
    /\ caps = mix.caps /\ spent = mix.spent /\ alarms = mix.alarms
    /\ rung = [s \in Scopes |-> {}]
    /\ said = {}
    /\ hot = [x \in Jobs |-> {}]

BudgetOps == {"check", "enforce", "guard"}

\* Scopes that are looked at: those of the user only when there is one.
ScopesOf(x) == IF ask[x].user THEN Scopes ELSE {"dept_weekly", "dept_monthly"}

\* The order in which _usage asks for the sums.
Queries(x) == IF ask[x].user THEN <<"dept_weekly", "dept_monthly", "user_weekly", "user_monthly">>
              ELSE <<"dept_weekly", "dept_monthly">>

\* A dispatcher without a policy starts every workflow; the service builds it so.
GateAbsent(x) ==
    /\ Begins(x, "check") /\ ~ask[x].wired /\ Works /\ Goto(x, "work")
    /\ UNCHANGED budgetVars /\ Quiet

\* The policy is asked.
Asked(x) == ask[x].op = "check" => ask[x].wired

\* The caps of an unknown department: check_budget and the guard turn it into an
\* answer, enforce raises.
BudgetUnknownDept(x) ==
    /\ ask[x].op \in BudgetOps /\ Asked(x) /\ job[x].pc = "idle" /\ ask[x].dept \notin Configured /\ Works
    /\ CASE ask[x].op = "check" -> Goto(x, "unconfigured")
         [] ask[x].op = "guard" -> End(x, "denied")
         [] OTHER -> End(x, "raised")
    /\ UNCHANGED budgetVars /\ Quiet

\* _usage: one query per scope, each an await.  val holds the sums read so far.
ReadUsage(x) ==
    /\ ask[x].op \in BudgetOps /\ Asked(x) /\ job[x].pc \in {"idle", "usage"} /\ ask[x].dept \in Configured
    /\ LET sums == IF job[x].pc = "idle" THEN <<>> ELSE job[x].val
           next == Append(sums, spent[Queries(x)[Len(sums) + 1]])
       IN  \/ Works /\ Keep(x, IF Len(next) = Len(Queries(x)) THEN "compare" ELSE "usage", next)
           \/ Fault /\ (IF ask[x].op = "check" THEN Goto(x, "unchecked") ELSE End(x, "raised"))
    /\ hot' = IF job[x].pc = "idle"
              THEN [hot EXCEPT ![x] = {s \in ScopesOf(x) : spent[s] >= caps[s]}] ELSE hot
    /\ UNCHANGED <<caps, spent, alarms, rung, said>> /\ Quiet

\* What job x read for scope s.
Usage(x, s) == job[x].val[CHOOSE i \in 1..Len(Queries(x)) : Queries(x)[i] = s]

\* Mutant: the monthly cap of the user is not looked at.
OverCapButUserMonthly(x) == {s \in ScopesOf(x) \ {"user_monthly"} : Usage(x, s) >= caps[s]}

\* The scopes at their cap, as enforce and the guard see them: a cap of zero
\* stops everything.
OverCap(x) == {s \in ScopesOf(x) : Usage(x, s) >= caps[s]}

\* The same for check_budget, to which a cap of zero is no limit.
Exceeded(x) == {s \in OverCap(x) : ask[x].op = "check" => caps[s] > 0}

\* Scopes at nine tenths of their cap.
Warned(x) == {s \in ScopesOf(x) : caps[s] > 0 /\ 10 * Usage(x, s) >= 9 * caps[s]}

\* _emit_denied: the audit row comes first and its failure is not handled.
Deny(x) ==
    /\ ask[x].op \in {"check", "enforce"} /\ job[x].pc = "compare" /\ Exceeded(x) # {}
    /\ \/ /\ Works /\ audit' = audit \cup {AuditRow(x, "budget_exceeded", "denied")}
          /\ IF ask[x].op = "check" THEN Goto(x, "deny_comment") ELSE End(x, "denied")
       \/ /\ Fault /\ Quiet
          /\ IF ask[x].op = "check" THEN Goto(x, "unchecked") ELSE End(x, "raised")
    /\ UNCHANGED budgetVars

\* The answer of check_budget below the caps: a comment when a scope is close
\* to its cap, and the workflow is started.
Allow(x) ==
    /\ At(x, "check", "compare") /\ Exceeded(x) = {} /\ Quiet
    /\ IF Warned(x) # {}
       THEN /\ \/ Works /\ said' = said \cup {[by |-> x, what |-> "warning"]}
               \/ Fault /\ UNCHANGED said
            /\ Goto(x, "work")
       ELSE Works /\ UNCHANGED said /\ Goto(x, "work")
    /\ UNCHANGED <<caps, spent, alarms, rung, hot>>

\* pre_llm_budget_guard: a yes or a no, and no record of either.
pre_llm_budget_guard(x) ==
    /\ At(x, "guard", "compare") /\ Works
    /\ IF OverCap(x) # {} THEN End(x, "denied") ELSE Goto(x, "work")
    /\ UNCHANGED budgetVars /\ Quiet

DenyComment(x) ==
    /\ At(x, "check", "deny_comment")
    /\ \/ Works /\ said' = said \cup {[by |-> x, what |-> "denied"]}
       \/ Fault /\ UNCHANGED said
    /\ End(x, "429")
    /\ UNCHANGED <<caps, spent, alarms, rung, hot>> /\ Quiet

\* The dispatcher: an exception of check_budget is noted and the workflow starts;
\* an unknown department is a configuration error.
DispatcherDecides(x) ==
    /\ ask[x].op = "check"
    /\ \/ job[x].pc = "unchecked" /\ BestEffortAudit(x, "dispatch_budget_check_error", "error") /\ Goto(x, "work")
       \/ job[x].pc = "unconfigured" /\ BestEffortAudit(x, "dispatch_budget_configuration_error", "error") /\ End(x, "422")
    /\ UNCHANGED budgetVars

\* What was let in runs and its cost is written.
Spend(x) ==
    /\ ask[x].op \in BudgetOps /\ job[x].pc = "work" /\ Works
    /\ spent' = [s \in Scopes |-> IF s \in ScopesOf(x) THEN spent[s] + 1 ELSE spent[s]]
    /\ End(x, "started")
    /\ UNCHANGED <<caps, alarms, rung, said, hot>> /\ Quiet

-----------------------------------------------------------------------------
(* The alarm thresholds, looked at by enforce below the caps.              *)

ReadThresholds(x) ==
    /\ At(x, "enforce", "compare") /\ Exceeded(x) = {}
    /\ \/ Works /\ Gather(x, "alarm", {[scope |-> s] @@ alarms[s] : s \in {t \in Scopes : alarms[t] # None}})
       \/ Fault /\ Goto(x, "work")
    /\ UNCHANGED budgetVars /\ Quiet

\* The threshold is reached and has not rung in this period, as far as the list
\* read at the start tells.
Due(x, t) ==
    /\ t.scope \in ScopesOf(x) /\ caps[t.scope] > 0
    /\ 100 * Usage(x, t.scope) >= t.pct * caps[t.scope]
    /\ ~t.rang

Threshold(x) == CHOOSE t \in job[x].got : TRUE

SkipThreshold(x) ==
    /\ At(x, "enforce", "alarm") /\ Works
    /\ \/ job[x].got = {} /\ Goto(x, "work")
       \/ job[x].got # {} /\ ~Due(x, Threshold(x)) /\ Gather(x, "alarm", job[x].got \ {Threshold(x)})
    /\ UNCHANGED budgetVars /\ Quiet

\* An alarm that cannot be sent is skipped; it may have arrived all the same.
SendAlarm(x) ==
    /\ At(x, "enforce", "alarm") /\ job[x].got # {} /\ Due(x, Threshold(x))
    /\ LET rings == rung' = [rung EXCEPT ![Threshold(x).scope] = @ \cup {x}] IN
       \/ Works /\ rings /\ Goto(x, "mark")
       \/ Fault /\ rings /\ Gather(x, "alarm", job[x].got \ {Threshold(x)})
       \/ Fault /\ UNCHANGED rung /\ Gather(x, "alarm", job[x].got \ {Threshold(x)})
    /\ UNCHANGED <<caps, spent, alarms, said, hot>> /\ Quiet

MarkAlarm(x) ==
    /\ At(x, "enforce", "mark")
    /\ \/ Works /\ alarms' = [alarms EXCEPT ![Threshold(x).scope].rang = TRUE]
       \/ Fault /\ UNCHANGED alarms
    /\ Goto(x, "note")
    /\ UNCHANGED <<caps, spent, rung, said, hot>> /\ Quiet

\* The event is built with the result "success", which the CHECK of the audit table
\* refuses; the error is swallowed, so no row is written.
NoteAlarm(x) ==
    /\ At(x, "enforce", "note") /\ Works /\ Quiet
    /\ Gather(x, "alarm", job[x].got \ {Threshold(x)})
    /\ UNCHANGED budgetVars

-----------------------------------------------------------------------------
(* post_cost_prediction_comment: the comment, then the audit row, whose    *)
(* failure is not handled.                                                 *)

PredictCost(x) ==
    /\ Begins(x, "predict")
    /\ \/ ~ask[x].user /\ Works /\ Goto(x, "skipped") /\ UNCHANGED said
       \/ ask[x].user /\ Works /\ Goto(x, "posted") /\ said' = said \cup {[by |-> x, what |-> "prediction"]}
       \/ ask[x].user /\ Fault /\ Goto(x, "unposted") /\ said' = said \cup {[by |-> x, what |-> "prediction"]}
       \/ ask[x].user /\ Fault /\ Goto(x, "unposted") /\ UNCHANGED said
    /\ UNCHANGED <<caps, spent, alarms, rung, hot>> /\ Quiet

AuditPrediction(x) ==
    /\ ask[x].op = "predict" /\ job[x].pc \in {"skipped", "posted", "unposted"}
    /\ \/ Works /\ audit' = audit \cup {AuditRow(x, job[x].pc, "ok")} /\ End(x, job[x].pc)
       \/ Fault /\ Quiet /\ End(x, "raised")
    /\ UNCHANGED budgetVars

BudgetStep(x) ==
    \/ GateAbsent(x) \/ BudgetUnknownDept(x) \/ ReadUsage(x) \/ Deny(x) \/ Allow(x) \/ pre_llm_budget_guard(x) \/ DenyComment(x)
    \/ DispatcherDecides(x) \/ Spend(x) \/ ReadThresholds(x) \/ SkipThreshold(x)
    \/ SendAlarm(x) \/ MarkAlarm(x) \/ NoteAlarm(x) \/ PredictCost(x) \/ AuditPrediction(x)

\* Spending only grows within a period, so whoever begins after a cap was reached
\* is not let in, whichever of the four scopes it is and however the queries
\* interleave with other work; except by check_budget when the check itself
\* failed, which is on the audit trail unless that write failed too.  A dispatcher
\* without a policy promises nothing.
NoStartAtTheCap ==
    \A x \in Jobs :
        /\ ask[x].op \in BudgetOps /\ Asked(x)
        /\ job[x].pc \in {"work", "end"} /\ job[x].out \in {None, "started"}
        /\ \E s \in hot[x] : ask[x].op = "check" => caps[s] > 0
        => /\ ask[x].op = "check" /\ failed >= 1
           /\ AuditRow(x, "dispatch_budget_check_error", "error") \in audit \/ failed >= 2

\* A denial that reached the caller is in the audit trail, and what check_budget
\* denied was not started.
DenialIsAudited ==
    \A x \in Jobs :
        job[x].out = "429" \/ (job[x].out = "denied" /\ ask[x].op = "enforce") =>
            AuditRow(x, "budget_exceeded", "denied") \in audit

\* An alarm threshold rings twice in a period only when the two checks overlap or
\* when a call failed in between.
AlarmRingsOnce ==
    \A s \in Scopes : \A x, y \in rung[s] : x # y => Overlap(x, y) \/ failed >= 1

=============================================================================
