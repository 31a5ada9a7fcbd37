# TLA+ models of the Atlassian AI workflow platform

The platform turns Jira issues into work of AI agents: webhooks report an issue, a
gateway workflow decides what it is, a runner workflow does it on branches, pages and
runner hosts, and services around them keep credentials, budgets, prompts and records.
These modules are written from the Python source; `PROJECT.json` names the lines behind
every definition, the hazards found in the code at their lines, and the properties that
watch them.

How to run: `tlc -config <cfg> <module>` for the runs of section 3, and
`tlapm <module>Proofs.tla` for the proofs of section 4.

Contents: 1 Inventory, 2 Modules, 3 Runs (bounds, fairness, refinement), 4 Proofs,
5 Where code and promise differ, 6 Not modelled, 7 Plan.

## 1. Inventory

### The main path

| Part | State it keeps | Operations | What is hard | What makes it correct |
|---|---|---|---|---|
| Webhook pipeline (`automation-service/src/webhooks`) | dedup rows, drop and block rows, caches of bots and departments | dedup, loop guard, dispatcher, in this order, per request | requests overlap at every await, deliveries repeat, the process stops, every stage lets errors pass | an event acts once, storms are blocked, bots trigger nothing |
| Webhook intake v3, v2 and assignment routes, cancel endpoint (`automation_service/api`, `webhook_filters.py`) | processed-event claims, burst windows, license counters | filter chain, license cap, claim, start, release, handover, cancel | claim and release around a failing start, counts that are stale when used | one start per event, an acknowledged event is handled, nothing runs that a filter should keep out |
| Task analyser, capability gate, branch rules (`activities/task_analyzer.py`, `description_parser.py`, `libs`) | none | front-matter, LLM answer, downgrades, confidence gate, capabilities, branch routing | many paths to one result, unclean LLM output | a result the gateway may rely on |
| Automation gateway (`automation_workflow.py`) | flags of `info_received`, round, result | acknowledge, analyse, ask and wait, gates, start child, publish, notify | replies race the wait, activities fail one by one, cancellation | only allowed work starts, questions are bounded, the outcome is told once, the run closes |
| Agent runner (`agent_runner_workflow.py`) | iteration state, pending signals, cancel latch, outputs | nine handlers, output actions, compensation, five signals | comments and cancels between any two awaits | iteration cap, one compensation, nothing unvetted shipped, the run closes |
| Agent runner activities (`agent_runner/activities`) | sessions, branches, pull requests, pages, artifacts, work items | one activity each, retried by Temporal | an attempt whose answer is lost is made again; a worker dies half way | attempts clean up, retries create once, an answer is what happened |
| Execution run and workspace cleanup (`execution-runner-worker`) | directories, containers and git credentials of one shared host | SSH, Docker and legacy path, clean-up, hourly pruning | runs and the pruning tick share the host | verdicts are earned, the host is left clean, every run ends |
| Approval gate (`approval_gate.py`) | last decision and its author | match, request, wait, outcome | several signals in one activation | only an approver decides, the trail tells the result |
| Output actions, repository resolver, page sections | pages, questions, stored payloads | batch executor, resolver, section writer | people edit while the agent writes | verdict and order of a batch are true, edits of people survive |

### Around it

| Part | State | What is hard | What makes it correct |
|---|---|---|---|
| Iterations, superseded pull requests, PO review, branch retention | iteration rows, pull requests, branches, ledger | retried activities, lost answers, people at work | distinct numbers within the cap, one banner, true answers |
| Budget policy | cost rows, alarms | four sums read one by one while work spends | no start at the cap, no silent denial, one alarm |
| Notifications | notification log | the row comes before the send | at most once |
| Housekeeping: audit prune, SSH runner health, repository mapping sync | audit rows and archive, health state, mappings | retries over fewer rows, overlapping runs | what is pruned is archived, health follows the probes, a mapping is one scan |
| Inbound mail and Slack | seen ids | redelivery, forgotten ids | one task per message |
| Assistant chat, LLM fallback client | turn counters, provider flag | generators under a timeout, a shared flag | limits, one row per turn, a way back |
| Authentication, admin proxy, bootstrap token, webhook signatures | key cache, tokens, users, secrets | caches age while requests wait | only who may gets in |
| Legacy webhook handlers, burst debounce coordinator | replay marks, windows and timers | the mark precedes the work; timers race flush and close | an event is served once, buffered events end |
| Process startup, readiness and shutdown | handles, migrations, schedules | failing half way, two processes at once | handles closed once, migrations in order, readiness is true |
| Service lifecycle (`admin-dashboard-api/src/lifecycle`) | state cache, overrides in Vault, audit rows | no lock orders requests, polls and probes | commands are recorded, cached states are true |
| Department credentials, secret rotation | Vault, rows, `departments.json`, two slots per secret | no transaction spans the stores | they agree, a secret in use stays valid for its window |
| Admin console: prompts, settings, runners | git branches, flags, providers, keys, assignments | every request interleaves with every other | answers are true, prompts traceable, keys kept |

How the parts interact: the dispatcher and the intake start `AutomationWorkflow` under an
id made from the issue, signal it `info_received`, or start an `IterationWorkflow`. The
gateway runs the analyser as an activity and starts one child: an `AgentRunnerWorkflow`,
detached, or an execution run or no-op child it awaits. The runner executes activities
and children and is driven by signals and by `handle.cancel()`. Everything else shares
tables with this path: work items, cost rows, the notification log, the audit trail,
Vault, `departments.json`. The helper that would start the approval gate
(`maybe_run_approval_gate`) has no caller at this commit, so the gate is modelled alone.

## 2. Modules

Definitions marked "Mutant" are deliberately wrong variants of the definition after
them; with the definition replaced by its mutant the run violates the property it is
listed for. An MC module gives the constants of its specification their values.

**ApprovalGate** (run through MCApprovalGate). `pc` is the await the coroutine is suspended
in; Temporal runs all signal handlers of an activation before it evaluates wait
conditions and fires timers last, hence the flag `unchecked`.

**TaskAnalysis** holds the pure functions from an issue to a decision: `analyze_task` with
its gates, front-matter and LLM results coerced to one shape, capability table and
derivation, branch routing. **TaskLifecycle** is the abstract specification: asked a
bounded number of times (once more than the run waits), then refused or handed over, told once. **AutomationGateway**
(MCAutomationGateway) is the coroutine of `AutomationWorkflow`, one action per await, the
signal handler between any two, every activity able to fail, and a cancellation that the
catch-all handlers take for a failure.

**AgentRunner** (run directly, its constants are in AgentRunner.cfg): each handler is a sequence of awaits (`Script`) that generic
actions move along and specific ones (`Commit`, `Test`, `Regenerate`, ...) extend. Signal
handlers are actions of their own; `done` is what reached the outside.

**WebhookPipeline** (MCWebhookPipeline): every delivery is a handler with its own `pc`.
`rows`, `drops` and `blocks` are the three tables, `gateway` what Temporal knows of the
issue: every start goes through the service's Temporal client, which refuses an id that was
ever used (REJECT_DUPLICATE). What caches and `work_items` say is a free choice, since
nothing keeps them current.

**WebhookIntake** (MCWebhookIntake): the v3 filter chain with claim, start and release, the
v2 routes (one id per route and issue), assignment with handover and the cancel endpoint;
requests die at any await and a start may succeed although its reply is lost. The burst
window is there or not: the application wires none.

**ExecutionRun** (MCExecutionRun): two runs and the cleanup tick on one host. An activity is
one action, or two when others can act on the host while it runs; `RunStep` follows the
`finally` blocks of the code. `docker run` may end without a container of its own; the
lookup by `docker ps -lq` then names the last one of the host.

**SecretRotation** (MCSecretRotation): rotation as four Vault calls, finalisation by hand and
by cron, verification and connection over the two slots, nothing locked; every Vault call and
every connection may fail. The activities of the closing cron are named in the source
without a body and are modelled from their use.

**ServiceLifecycle** (MCServiceLifecycle): start with dependencies, stop, purge, restart,
tests, polls, probes, and the audit writer with its deferred queue. `Admitted` is the CHECK
of `shared.audit_log`: a row it refuses is raised by the writer and dropped by the drainer.

**DeptCredentials** (MCDeptCredentials): a credential lives in Vault, in a row and in the
probed account; add, remove, rotate, disable, wizard, bulk import, resolver, and the
`departments.json` editor.

**AdminRequests** has what dashboard routes share (a request is a coroutine with `ask` and
`q`); **AdminPrompts**, **AdminSettings** and **AdminRunners** are its three parts over
their own stores; **AdminConsole** (MCAdminConsole) composes them. Other writers are there
too: the worker that seeds a runner without a key, the departments editor that holds the
file lock over an await.

**Jobs** has what workflows, activities and service coroutines share: `ask[x]` what a job was
asked, `job[x]` where it is, `Fault` a failing call within the bound, `Redo` Temporal's
next attempt. The parts over it, each with its own tables:

| Module | Models |
|---|---|
| PullRequests | `IterationWorkflow` and `prepare_iteration`, supersede activity, PO review endpoints, branch retention, people at work |
| Housekeeping | both entry points of `NotificationService`, `AuditPruneWorkflow`, `SSHHealthcheckCronWorkflow`, `sync_repo_mappings` |
| Assistant | `ChatHandler.stream` over `stream_with_tool_loop`, two generators; `FallbackLLMClient` with its flag, switch and probe |
| Startup | boot, unwinding, migrations, schedules, readiness and shutdown of six processes |
| AgentActivities | every activity of the agent runner, compensation chain included |
| LegacyWebhooks | `post_jira_webhook`, `handle_bitbucket_webhook`, replay marks; burst windows, timers, `flush_all`, `aclose`; Slack mentions and the mail poller |
| ResultActions | output action batch, repository resolver, page sections, the runner's own actions |
| Gatekeeping | token validation, admin proxy, bootstrap token, signature middleware; `check_budget` with the dispatcher's handling (where the gate is wired), `enforce`, the guard, cost prediction |

**BackOffice** (MCBackOffice) composes them: jobs of all parts run side by side over shared
issues, repository, log and audit trail, with people and other systems acting in between.
A scenario ("mix") of MCBackOffice is a set of up to three jobs, the tables they start
from and a number of faults.

**ApprovalGateProofs, AgentRunnerProofs, WebhookPipelineProofs, AutomationGatewayProofs,
WebhookIntakeProofs, ExecutionRunProofs, SecretRotationProofs, AdminConsoleProofs** hold the
theorems about the modules they are named after.

The map of `PROJECT.json` lists 800 definitions. A small helper that is not listed is
covered by the lines of the definition that uses it; actions of the environment (people,
time, other systems) model no source.

## 3. Runs

| Run | Config | Result | Shows |
|---|---|---|---|
| `approval_gate` | MCApprovalGate.cfg | passes, 73,600 states | `GateIsSound`: approvals and rejections are an approver's own and the trail matches; `GateCloses` |
| `gateway` | MCAutomationGateway.cfg | passes, 270,888 states | `WorkIsAllowed`, `RepliesAreHeard`, `RunIsAccounted`, `GatewayCloses`, and `FollowsLifecycle`: the gateway implements TaskLifecycle |
| `agent_runner` | AgentRunner.cfg | passes, 1,393,969 states | `RunIsOrderly`, `WorkStaysUnderCap`, `CompensationOnce`, `CancelIsFinal`, `RunnerCloses` |
| `webhook_pipeline` | MCWebhookPipeline.cfg | passes, 1,791,870 states | `LoopGuardHolds`, `DuplicatesNeedOverlap` |
| `webhook_dedup_race` | WebhookDedupRace.cfg | violated | `IterationOncePerComment`: two overlapping deliveries of one [iterate] comment start two iterations |
| `webhook_intake` | MCWebhookIntake.cfg | passes, 935,184 states | `DeliveredOnce`, `AcknowledgedIsHandled`, `StartsAreEntitled` |
| `execution_run` | MCExecutionRun.cfg | passes, 388,740 states | `VerdictIsEarned`, `HostIsLeftClean`, `EveryRunEnds` |
| `secret_rotation` | MCSecretRotation.cfg | passes, 2,777,716 states | `VerdictsAreTrue`, `SecretsKeepTheirWindow` |
| `service_lifecycle` | MCServiceLifecycle.cfg | passes, 338,077 states | `CommandsAreRecorded`, `SlotsAreTrue`, `DeferredIsWritten` |
| `dept_credentials` | MCDeptCredentials.cfg | passes, 92,311 states | `CredentialsAgree`, `RowsAreGuarded`, `EveryCallEnds` |
| `admin_console` | MCAdminConsole.cfg | passes, 85,354 states | `AnswersAreTrue`, `PromptsAreTraceable`, `ProvidersKeepKeys`, `FlagEditsAreExact`, `EveryRequestAnswered` |
| `back_office` | MCBackOffice.cfg | passes, 197,506 states | `ReviewWorkAddsUp`, `LimitsHold`, `RecordsSurvive`, `EffectsAreTrue`, `ProcessesComeAndGo`, `EveryJobEnds` |

Most invariants are conjunctions of named parts; each part is stated and commented where
the component is. The violated run checks what `_insert`'s docstring says, that
`ON CONFLICT DO NOTHING` handles the race between concurrent requests; the finding in
`PROJECT.json` quotes it.

Several properties have exceptions in them ("unless requests overlapped", "unless an
update was lost"). They are the races and losses the code leaves open, found by TLC, and
the property says that nothing but these leads to the bad state.

### Bounds

* `approval_gate`: two users (approvers any subset), two files, one pattern that matches and
  one that does not compile. A third user behaves like the second. Signals are unbounded.
* `gateway`: six issues, twelve LLM outcomes on both sides of each gate (69, 70, 84, 140 as
  confidences, the labels, unknown types, ways to fail), three departments, three rule
  configurations; `MAX_ITERATIONS` is the code's 3, so four questions are possible. Replies are unbounded. The theorems
  remove these bounds for safety.
* `agent_runner`: cap 2 instead of 5, streak and banner thresholds 2 instead of 3, one output
  action per severity; runs start at iterations 1, 2 and beyond the cap, with a cap of
  their own (`inp.max_iter`) of 1 or without. The code treats all
  values below the caps alike, and the theorems remove the bounds.
* `webhook_pipeline`: three deliveries of two events on one issue, storm threshold 2,
  symmetric; the theorems remove the bounds. `webhook_dedup_race` needs two deliveries.
* `webhook_intake`: two requests at a time, eleven mixes of events, three departments, two
  deliveries of each event, cap 1 and a day's cap of 2: the smallest at which a stale
  count lets one too many in. The theorems remove the bounds.
* `execution_run`: two runs, one older directory, one retry, two attempts, quota 1, pruning
  from 2 directories on: enough for a run to clean, or lose, what belongs to the other.
  The theorems remove the bounds for safety.
* `secret_rotation`: two administrators, two rotations beyond the first secret, a window of
  one clock unit: the third secret overwrites the slot of the first. The theorems remove
  the bounds.
* `service_lifecycle`: a chain of three services, depth 2, three requests in sixteen mixes,
  two faults. `dept_credentials`: three requests in 25 mixes, two departments, services and
  accounts, two faults, cache life 2. `admin_console`: three requests in 46 mixes, two flags,
  departments and providers, three runners (one of them seeded), one fault; the theorems remove the bounds of
  `admin_console` for safety.
* `back_office`: up to three jobs, three attempts each (Temporal's policies of the code),
  iteration cap 3, pages of 2 rows, thresholds of the health check as in the code, budgets
  and tool limits 2, two issues and paths; 133 mixes, faults are set per mix. Mixes combine the
  jobs that share a table; jobs of unrelated parts commute and are not combined.

### Fairness

Weak fairness of a coroutine's own steps, nothing else: Temporal resumes a workflow
whenever what it awaits is there, every activity has a timeout and a bounded number of
attempts, and an event loop resumes every ready task. So the gate, the gateway, the
runner, the runs of ExecutionRun with its tick, each dashboard request, each lifecycle
request with the drain of the deferred queue, each job and the flush tasks are weakly
fair. The gate's timer is strongly fair, because signals keep opening activations in
which it is not enabled while wall-clock time goes on. Signals, people, faults, crashes,
the ageing of rows and caches have no fairness. WebhookPipeline, WebhookIntake and
SecretRotation state no liveness: a request may die with its process.

Deadlock is checked for the gate, the gateway and the runner, where a closed run stutters;
elsewhere a system whose requests are used up has nothing left to do and the configs
turn it off.

### Refinement

`FollowsLifecycle` shows that every behaviour of AutomationGateway is one of
`TaskLifecycle!LifeSpec` under the mapping at the end of AutomationGateway: `phase` from
where the coroutine stands and how it was stopped, `questions` from the round, `started`
from the child and `told` from the notification.

## 4. Proofs

All proofs are checked by TLAPS from the named assumptions on the constants alone, which
TLC evaluates on the runs:

* `GateAssumption`, `RunnerAssumption`, `PipelineAssumption`, `GatewayAssumption`,
  `MixesAssumption`, `InfoAssumption`, `PlansAssumption` and the `BoundsAssumption`s say that
  limits are numbers (positive where the code's defaults or validators make them so, such
  as the eviction line of `_resolve_thresholds`) and that issues, model answers, events and
  run inputs have the shape the code gives them.
* Parts of them, the `NoneAssumption`s and `NamesAssumption` say that the value standing for
  Python's `None` is no other value, and that a runner host lists a directory once and no
  run carries the name of an older directory.
* The dashboard's assumptions say what validation and schema fix before a route runs:
  `RequestAssumption` (faults are counted), `PromptAssumption` (a sanitised author is never
  called main, missing or commit, so drafts and commits take different branch names),
  `SettingAssumption` (a created provider's id is a fresh uuid4, keys are not empty,
  statuses and flag values are of their enumerations, a pin names an existing provider by
  its foreign key) and `RunnerAssumption` (a creation and a host patch carry a host).

Each inductive invariant was first checked by TLC on the run of its module. A proof of a
step first states what the action leaves and changes, then takes the conjuncts one by one.

* **ApprovalGateProofs**: `GateSound` (with `ApprovalGenuine` and `RejectionGenuine`) for any
  users, files, patterns and number of signals. The results are not inductive: between
  the signal and the wake-up the decision lives in two fields. `Inv` adds that a stored
  decision was delivered by the stored user (`DecisionIsDelivered`) and that there is a
  result exactly after the wait (`Undecided`). The trail then follows by a second
  induction inside `Inv` (`TrailStep`): the result is set once, while the trail holds
  nothing but the request.
* **AgentRunnerProofs**: `CapHolds` and `CompensatesOnce` for any caps, iteration inputs,
  diffs and roles. `RInv` adds where in its script the coroutine is (`OnScript`), that a
  run is within the cap or was turned away before it did anything (`CapInv`), and how
  often compensation has run at each await and why (`ChainInv`): a run can reach the
  chain by two ways, and the counter alone does not say that the other is closed.
  `RunOrderly` and `CancelFinal` follow by a second induction inside `RInv`. `OInv` adds the
  remaining types with the streak limit (`TInv`), what has been done when the coroutine is
  at a place (`PlaceInv`: a commit awaits only what was scanned, a pull request only what
  passed, the wait only with its edge set), and what the history holds everywhere
  (`HistoryInv`: artefacts carry at most the present iteration, so those named later carry
  no smaller one). What an output action may open as a pull request is bounded by the same
  parts: the branch fallback is set by a commit only. The same step lemmas give the action
  property (`Kept`).
* **WebhookPipelineProofs**: `DedupWindow`, `BlocksAreEarned` and `GuardHolds`
  for any number of deliveries, events and issues. `PInv` is `TypeOK` with two parts.
  `DedupInv`: of an event that met
  neither overlap nor fault, at most one delivery is beyond the look-up, its row is live
  once it passed, and an expired row is remembered as a fault. `StormInv`: the window
  holds only recorded drops, and a handler goes to block only after a storm. All actions
  behind dedup are treated alike (`LaterStep`). `GuardHolds` adds two inductions inside
  `PInv`: `StormIsNoticed` itself, and `AdmissionInv`, which says of every await behind the
  guard, not only of the answers, that its author was rightly admitted.

* **AutomationGatewayProofs**: `RunAccounted`, `WorkAllowed`, `RepliesHeard` and
  `LifecycleSafety`, for any issues, model answers, departments, rule configurations and
  `MAX_ITERATIONS`. Lemmas about the pure functions come first: confidences end up in
  range, a ready result of `analyze_task` has a valid type, passed the threshold and has its
  command. `GInv` is the types with four parts: where the coroutine is decides what it has
  started, stopped and told (`OutcomeInv`); the rounds are counted when the run is parked
  (`RoundInv`); while it is parked the flag says whether a reply came since (`ReplyInv`);
  and each gate leaves its verdict for the next (`GatesInv`), since a task is checked in
  one activity and handed over several awaits later. `LifecycleSafety` is the refinement
  without its fairness: initial states map to initial states and every step to a step of
  TaskLifecycle or a stutter.
* **WebhookIntakeProofs**: `DeliversOnce`, `AnswersMeanIt` and `StartsEntitled` for any number
  of requests, issues, departments, events and mixes and any caps. The invariant places
  every request (`StageInv`), gives a delivery id one holder and keeps the id of an event whose
  start was answered claimed (`ClaimInv`), finds for every claim its holder, its start or a fault
  (`BackInv`), accounts for answered events (`AckInv`), keeps runs under the cap while no
  start raced (`CapInv`: the work items a request counted stand in for the runs at that
  moment), and gives two runs of one issue their cause (`TwoInv`).
* **ExecutionRunProofs**: `VerdictEarned` and `HostLeftClean` for any number of runs, inputs,
  retry bounds, eviction lines and leftover directories. A verdict is decided in one
  activity and read in a later one, so `RunInv` says what each place of a run has
  established. `ContInv`: who may own which container while docker runs have not
  overlapped and each made its container. `HelperInv`: where the credentials of a run may be. `TickInv` relates the
  scheduler's stale listing and running estimate to the disk they were taken from.
* **SecretRotationProofs**: `VerdictsTrue` and `WindowsKept` for any number of administrators,
  secrets and clock values and any overlap. A verification reads two slots while secrets
  move between them, so the invariant follows secrets that are in no slot yet. `FreshInv`:
  a secret waiting to be promoted is new everywhere. `CheckInv`: once the active slot was
  read and did not do, no secret valid all along comes back to it. `FirstInv` and
  `AloneInv`: what a first, and what an undisturbed rotation guarantees. `CronInv` and
  `HostInv`: what the closing tick and the host-key review know.

* **AdminConsoleProofs**: `AnswersTrue`, `KeysKept`, `PromptsTraceable` and the action property
  `FlagEditsExact` for any mix of requests, stores and number of faults. The first part is
  about requests as such: a step moves one request, an overlap stays an overlap, and who
  was answered before another started stays answered; so an exception ("unless they
  overlapped") that holds once holds for ever. Then one invariant per family of routes,
  kept by the steps of the other families, which touch neither its stores nor its requests.
  `FlagsOK`: whoever edits the overrides holds the lock and the document as it is.
  `ProvidersOK`: an update between its UPDATE and its commit holds the row and is about to
  write back what Vault has, unless a deletion took it; no creation of an existing provider
  is still to come (`Born`), without which a late creation could bring deleted keys back.
  `ControlOK`: an unanswered control call has done and noted nothing. `RunnersOK`: what an
  assignment has left to remove and add leads to what was asked. `PromptsOK` follows a draft
  from the map over the commit to its branch. `PromptsAreTraceable` is not inductive as it
  stands: a draft that still checks its name may give it up, so the excuse of a collision
  could vanish; `Clashed` and `Drafting` count only drafts that chose for good, and
  `FreshName` says that no answered request can own a name that was found free.

Only model-checked: every liveness property and the fairness of the refinement, which are
outside the prover's reach, and the invariants of ServiceLifecycle, DeptCredentials and
BackOffice, which have no inductive form yet.

## 5. Where code and promise differ

Met while modelling; the models follow the code, and where a property has an exception
for one of these its comment says so. `PROJECT.json` has the one that is stated as
a violated run.

Main path
* Approval gate: an approver's decision can be replaced by another user's before the
  condition looks at it; it is then cleared and the gate may expire (docstring line 20).
* Gateway: `analyze_task` posts a question with every needs_info result, so the reporter is
  asked a fourth time before `loop_cap_reached`, and nobody waits for that answer; the
  docstring of `_run_task_analyser` (`automation_workflow.py:926-930`) says the run ends
  with the third result. A reply
  that arrives between the posted question and the reset of the flag is lost; Epics are
  never recognised, because the analyser reads `issuetype` where the caller passes `fields`;
  an issue without a description is analysed from the event's text (`platform_io.py:343-344`);
  an unreadable `departments.json` turns the branch rules off instead of to their defaults,
  and leaves no capabilities, so every task is denied; a failed LLM call is rejected where
  `_run_llm_analysis` promises needs_info; a swallowed cancellation lets the gateway start
  its child.
* Re-assignment: the comments (`automation_workflow.py:396-398,430,468-479`) and the user
  guide (`what-bot-cannot-do.md:59,157`) ask the reporter to assign a refused task again;
  the id of a closed run is refused (`temporal_client.py:155`) and the refusal swallowed, on the pipeline and
  on every other route, so nothing starts and the delivery is answered as started.
* Agent runner: a cancel accepted after the commit is not compensated when a later step
  fails; the compensation chain skips every undo step while its comment says they were
  undone; `bitbucket_commit` and `jira_transition` are critical kinds without an activity.
  The output action `bitbucket_create_pr` opens a pull request for the branch of a
  commit-only run, which nothing tested, and for any source branch it names, which nobody
  checks; only the handler's own pull request waits for tests.
* Intake: a redelivery that overlaps a failing start is acknowledged and never retried; a
  second handover is reported though the run stays with the first department, also after
  that run has closed. The issue_assigned route takes the department's capabilities from
  its row, without a look at credentials or switches. With a burst window a delivery
  without id would be answered 500 (`burst_window.py:340-344`); the application wires no
  window (`app.py:1084-1092`), and its look-ups for departments and for the cancel
  endpoint's issues are stubs. A redelivered [bot:hear] comment passes the filter chain
  (`webhook_filters.py:1133-1137,1414-1424`); only the claim behind it catches it.
* Execution: when `docker run` ends without a container, `docker ps -lq` names the last
  container of the host and the policy "always" removes it; a failed `rm` of the pruning
  tick counts as freed space.
* Front-matter takes the first command field even if it is unusable, the LLM path goes on
  to the next; `FIRECRAWL_ENABLED=yes` counts in the dispatcher but not in
  `derive_capabilities`.
* `multi_step_workflow.py` does not parse (line 367) and the automation worker imports it.

Activities and results
* A commit from an `ai/*` source restarts from the default branch and force-push discards
  earlier commits; any error text with "already" or "409" counts as an existing branch, any
  with "404" or "not found" as a deleted one (`bitbucket.py:176-178,260-262`); the first
  session DELETE of the code generator counts as cleaned whatever its status;
  `update_work_item_status` takes a pool Temporal cannot serialise.
* A batch of output actions is cut to its maximum before it is sorted by index; dropped
  unknown actions are no failures; the workflow's helper knows no aliases. Section dedup
  crosses every hash with every path, and the overwrite check is made once before all
  section writes. A resolver retry may resolve after its question was posted.

Records, secrets and services
* The automation worker's `audit_write` only logs (`platform_io.py:440-442`), although
  `iteration_workflow.py:301-308,447-448` promises an authoritative row; this is true of
  every audit of that worker.
* The CHECK of `shared.audit_log.action` refuses `dependency_start_failed`,
  `dependency_chain_max_depth_exceeded` and the probe actions: a start that writes one ends
  as an error with its slot still starting, and the drainer drops a deferred one
  (`audit_writer.py:541-559,624-633`). Rows are also dropped while `_reset_pool` holds the
  pool. `rm -fv` failing after `stop` leaves the slot running with its container down. A
  dashboard booted without its flag reader checks no flags.
* Rotation: a network error while a valid previous key is tried is reported as
  BothSlotsFailed (`remote_ssh.py:443-456`); the known-hosts rotation keeps only the first
  line `ssh-keyscan` prints; `finalize_webhook_rotation` and the listing it needs have no body.
* Departments: tokens staged by a create stay in Vault when the audit of a failed staging or
  a probe raises (`dept_create.py:407-427`); a lost answer of COMMIT leaves the old secret
  under the new row; a role the router does not know is taken for "system" and let in;
  `credential_ref` of `departments.json` overrides an added credential at every seeding;
  a bulk import leaves the secrets it replaced.
* Console: a worker seeds a visible runner without a key; a purge answered 200 with
  purged=false is audited as a purge; when the unique index on prompt name and hash
  refuses a version the pull request is already open and the caller gets 409; deleting a
  provider's key is a soft delete that keeps the versions in Vault; an override request
  waits for the departments file lock in a blocking call, so in a process whose departments
  editor holds it over an await the event loop stops for good. The repository mapping
  routes rewrite `departments.json` without the lock (`departments.py:403-418`), harmless
  only within one process; a stale list can purge a department configured meanwhile.

Around the path
* Budget: the application passes the dispatcher no policy (`app.py:2044-2100`), so its gate
  lets everything in (`dispatcher.py:1316-1317`); where it is wired, a failing audit write
  makes it fail open, and the guard its comment relies on has no production caller; cap 0
  denies in `enforce` and is unlimited in `check_budget`; the alarm's audit row carries a
  result the CHECK refuses (`policy.py:775`).
* Review and iterations: `open_draft` posts to request-changes; extra instructions never
  reach the child and rows stay pending; an insert whose answer is lost is reported as
  failed while its row stays; retention checks no open pull request; supersede overwrites
  concurrent edits, and a person's edit or a second supersede can take its banner away
  again; the wired scanner supplies no diff hash; the retention schedule is not registered.
* Notifications: a failed send is never retried although the log row says sent; the wired
  e-mail adapter raises on every send; each failed build of the lazy service leaks a
  session. Audit prune: one constant run id mutes later alarms, `cost_tracking` is pruned
  without archive, a failing retention look-up alarms nobody. SSH health: the schedule
  carries no state over, a failed probe updates host "unknown", and the activity
  `update_ssh_runner_status` is registered nowhere, so as deployed no row changes.
* Mapping sync: `update_repo_mappings` (`app.py:512-530`) deletes every row and inserts bare
  slugs, so repositories that stay lose workspace, project key and default branch, where
  `repo_sync.py:428-452` promises to preserve the names operators edited; the wired scanner raises
  NotImplementedError.
* Assistant: redirect and done are yielded before the audit row is written, so a client that
  leaves there leaves none, although `handler.py:499-500` promises it; the output token
  limit is never reached, because events carry only `token_in`; a timeout at a yield leaves
  no audit row. LLM client: one probe per switch, and none when the caller is cancelled
  during the notification (`fallback.py:430`); the token bucket lets two waiters through
  together.
* Inbound: ids collide after normalisation and the second message is dropped for good; the
  wired department resolver finds none, so Slack is answered 400; a mail is marked seen
  before its start; the poller is not instantiated. Legacy webhooks: the replay mark
  precedes the work, so a later failure loses the event; re-assigning a finished issue is
  answered workflow_running with nothing running; marks past their TTL conflict until
  clean-up; a failing department look-up refuses a signed delivery; the handlers are not
  mounted.
* Debounce: a window's only event is dispatched twice (by `observe` and by the flush),
  `aclose` drops buffered events, a stale timer task can take the next window early, a second
  `aclose` does not wait for the first.
* Authentication: the bootstrap token has no production caller, and a consumed token whose
  user insert fails leaves no administrator; the signature middleware overwrites the
  context "global_fallback". Startup: a boot that breaks while the application is wired
  (`app.py:728-829`, the admin `main.py` between 345 and 895, `vault_client.py:147-149`)
  leaves its handles open; `except Exception: raise` hides the handlers after it in the admin
  lifespan; `readyz` answers 200 behind the credential guard; a failed worker task leaves
  its process alive and idle.

## 6. Not modelled

* Epic fan-out as a composition: AgentRunner has the subtask loop with free results.
* Audit, cost and observability libraries beyond the writes the parts above make, MCP clients
  and the MCP gateway (their calls are the awaits of the models), Firecrawl and sidecar
  wrappers, user interfaces: thin wrappers, write-only records or presentation.
* Partly modelled: the text parsing and prompt cache of the analyser, the artefact plumbing
  of the gateway's publish step, per-URL loops of the runner, probe artefacts of
  department credentials, the diff summary of the PO review.
* LLM, Jira, Bitbucket, Vault, PostgreSQL and Temporal are external and appear as free
  outcomes of awaits. Wording, formats and wall-clock durations are abstracted throughout.
* Scripts, tests, deployment files and migrations' SQL.

## 7. Plan

Done: the main path with its gate, analyser, gateway, runner, pipeline and intake; the
execution runs; the parts around it as listed; the refinement of the gateway; proofs of
every safety property the runs of gate, gateway, runner, pipeline, intake, execution runs,
secret rotation and admin console check.

Next: `RowsAreGuarded` and `CredentialsAgree` of DeptCredentials, which need to say what a
suspended request has read of Vault and rows; `CommandsAreRecorded` and `SlotsAreTrue` of
ServiceLifecycle; the composition of the Epic loop with gateways and runners as children.
