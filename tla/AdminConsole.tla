---------------------------- MODULE AdminConsole ----------------------------
(***************************************************************************)
(* The admin dashboard API as a whole: requests of the prompt editor, of   *)
(* the settings and of the runner pages interleave in one process, each    *)
(* over its own tables and stores, and share the audit trail.              *)
(***************************************************************************)
EXTENDS AdminPrompts, AdminSettings, AdminRunners

vars == <<reqVars, promptVars, settingVars, runnerVars>>

Init == \E mix \in Mixes : ReqInit(mix) /\ PromptInit(mix) /\ SettingInit(mix) /\ RunnerInit(mix)

\* One step of request r: each family of routes leaves the stores of the
\* others alone, and a process whose event loop is blocked takes no step.
Step(r) ==
    /\ UNCHANGED <<ask, wired>>
    /\ ask[r].proc \notin stuck
    /\ \/ PromptStep(r) /\ UNCHANGED <<settingVars, runnerVars>>
       \/ SettingStep(r) /\ UNCHANGED <<promptVars, runnerVars>>
       \/ RunnerStep(r) /\ UNCHANGED <<promptVars, settingVars>>

\* What happens without a request: time, reviewers, workflows that end, a worker
\* that starts.
World ==
    \/ (Merge \/ Tick) /\ UNCHANGED <<settingVars, runnerVars>>
    \/ FlowEnds /\ UNCHANGED <<promptVars, runnerVars>>
    \/ (SeedRunner \/ SeedAssignments) /\ UNCHANGED <<promptVars, settingVars>>

Next == (\E r \in Reqs : Step(r)) \/ World

\* A coroutine that can run is scheduled; nothing is assumed of the world.
Spec == Init /\ [][Next]_vars /\ \A r \in Reqs : WF_vars(Step(r))

TypeOK ==
    /\ \A r \in Reqs : q[r].before \subseteq Reqs /\ (q[r].pc = "done") = (q[r].reply # None)
    /\ faults \in Nat /\ wired \in BOOLEAN
    /\ \A x \in audit : x.by \in Reqs /\ x.result \in {"ok", "denied", "error"}
    /\ \A k \in DOMAIN pending : k[1] \in DOMAIN heads /\ k[2] \in Paths
    /\ \A b \in DOMAIN heads : DOMAIN heads[b].tree = Paths
    /\ flag \in [Flags -> {"on", "off"}]
    /\ lock \in Reqs \cup {None}
    /\ provs \in [Providers -> {"absent", "active", "inactive"}]
    /\ pins \in [FlagDepts -> Providers \cup {None}]
    /\ rowlock \in [Providers -> Reqs \cup {None}]
    /\ flows \in [Flows -> {"running", "closed", "none"}]
    /\ spaces \subseteq Spaces
    /\ assigned \in [RunDepts -> SUBSET Runners]
    /\ cron \in BOOLEAN

\* What the console answered about workflows and runners is what happened.
AnswersAreTrue ==
    /\ TypeOK
    /\ ControlAnswersAreTrue
    /\ RunnerRowMatchesKey
    /\ AssignedAsAnswered
    /\ CronAnswerIsTrue

\* The lock on departments.json is held by a process that cannot go on, and the
\* request is served by that process or waits for the lock.
Blocked(r) == \/ ask[r].proc \in stuck
              \/ stuck # {} /\ ask[r].op \in OverrideOps \cup {"dedit"}

\* Every request is answered: a failure anywhere on its way ends it instead of
\* leaving it waiting, and the file lock and the row locks it waits for are
\* released on every path, unless a process blocked itself on the file lock.
EveryRequestAnswered ==
    \A r \in Reqs : (q[r].pc # "idle") ~> (q[r].pc = "done" \/ Blocked(r))

\* Providers keep their keys while they can be used and lose them with their
\* deletion, with any two requests side by side.
ProvidersKeepKeys ==
    /\ VisibleProviderHasKey
    /\ RotatedFieldIsKept
    /\ DeletedKeyIsNotRead
    /\ PinnedProviderWorks

=============================================================================
