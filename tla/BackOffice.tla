----------------------------- MODULE BackOffice -----------------------------
(***************************************************************************)
(* What the platform does beside the main path from a webhook to an agent: *)
(* further iterations, superseded pull requests, reviews and retention of  *)
(* branches, spending limits, notifications, the archive of the audit      *)
(* trail, health of the SSH runners, repository mappings, tasks from Slack *)
(* and mail, the chat assistant and the client of the language models.     *)
(* Each part keeps its own tables; jobs of all parts run side by side and  *)
(* share the issues, the repository, the notification log and the audit    *)
(* trail.                                                                  *)
(***************************************************************************)
EXTENDS PullRequests, Gatekeeping, Housekeeping, LegacyWebhooks, Assistant, Startup,
        AgentActivities, ResultActions

vars == <<jobVars, iterVars, repoVars, budgetVars, noteVars, pruneVars, healthVars, syncVars,
          inboundVars, chatVars, llmVars, bootVars, actVars, hookVars, resultVars, gateVars, windowVars>>

Init == \E mix \in Mixes :
            /\ JobsInit(mix) /\ IterInit(mix) /\ RepoInit(mix) /\ BudgetInit(mix) /\ PruneInit(mix)
            /\ SyncInit(mix) /\ InboundInit(mix) /\ BootInit(mix) /\ ActInit(mix) /\ HookInit(mix)
            /\ ResultInit(mix) /\ GateInit(mix) /\ WindowInit
            /\ NoteInit /\ HealthInit /\ ChatInit /\ LlmInit

reviewVars == <<iterVars, repoVars, budgetVars>>
keepingVars == <<noteVars, pruneVars, healthVars, syncVars>>
talkVars == <<inboundVars, chatVars, llmVars, bootVars, actVars, hookVars, resultVars, gateVars, windowVars>>

\* Every operation belongs to one part.
Is(x, ops) == ask[x].op \in ops

ReviewJob(x) ==
    /\ \/ Is(x, {"iterate"}) /\ IterationStep(x) /\ UNCHANGED <<repoVars, budgetVars>>
       \/ Is(x, {"supersede"}) /\ SupersedeStep(x) /\ UNCHANGED <<iterVars, budgetVars>>
       \/ Is(x, ReviewOps) /\ ReviewStep(x) /\ UNCHANGED <<iterVars, budgetVars>>
       \/ Is(x, {"retain"}) /\ RetentionStep(x) /\ UNCHANGED <<iterVars, budgetVars>>
       \/ Is(x, BudgetOps \cup {"predict"}) /\ BudgetStep(x) /\ UNCHANGED <<iterVars, repoVars>>
    /\ UNCHANGED <<keepingVars, talkVars>>

KeepingJob(x) ==
    /\ \/ Is(x, {"notify"}) /\ NotifyStep(x) /\ UNCHANGED <<pruneVars, healthVars, syncVars>>
       \/ Is(x, {"prune"}) /\ PruneStep(x) /\ UNCHANGED <<healthVars, syncVars>>
       \/ Is(x, {"health"}) /\ HealthStep(x) /\ UNCHANGED <<noteVars, pruneVars, syncVars>>
       \/ Is(x, {"sync"}) /\ SyncStep(x) /\ UNCHANGED <<noteVars, pruneVars, healthVars>>
    /\ UNCHANGED <<reviewVars, talkVars>>

TalkJob(x) ==
    /\ \/ Is(x, {"slack", "mail"}) /\ InboundStep(x) /\ UNCHANGED <<chatVars, llmVars, bootVars, actVars, hookVars, resultVars, gateVars, windowVars>>
       \/ Is(x, {"chat"}) /\ ChatStep(x) /\ UNCHANGED <<inboundVars, llmVars, bootVars, actVars, hookVars, resultVars, gateVars, windowVars>>
       \/ Is(x, {"complete", "reset", "force"}) /\ LlmStep(x) /\ UNCHANGED <<inboundVars, chatVars, bootVars, actVars, hookVars, resultVars, gateVars, windowVars>>
       \/ Is(x, BootOps) /\ BootStep(x) /\ UNCHANGED <<inboundVars, chatVars, llmVars, actVars, hookVars, resultVars, gateVars, windowVars>>
       \/ Is(x, ActOps) /\ ActStep(x) /\ UNCHANGED <<inboundVars, chatVars, llmVars, bootVars, hookVars, resultVars, gateVars, windowVars>>
       \/ Is(x, HookOps) /\ HookStep(x) /\ UNCHANGED <<inboundVars, chatVars, llmVars, bootVars, actVars, resultVars, gateVars, windowVars>>
       \/ Is(x, ResultOps) /\ ResultStep(x) /\ UNCHANGED <<inboundVars, chatVars, llmVars, bootVars, actVars, hookVars, gateVars, windowVars>>
       \/ Is(x, WindowOps) /\ WindowStep(x) /\ UNCHANGED <<inboundVars, chatVars, llmVars, bootVars, actVars, hookVars, resultVars, gateVars>>
       \/ Is(x, GateOps) /\ GateStep(x) /\ UNCHANGED <<inboundVars, chatVars, llmVars, bootVars, actVars, hookVars, resultVars, windowVars>>
    /\ UNCHANGED <<reviewVars, keepingVars>>

Step(x) ==
    /\ ~Ended(x)
    /\ ReviewJob(x) \/ KeepingJob(x) \/ TalkJob(x)
    /\ UNCHANGED <<ask, bound>>

\* The probe of the language models' primary provider runs on its own.
ProbeRuns ==
    /\ ProbeWakes \/ ProbeEnds
    /\ UNCHANGED <<jobVars, reviewVars, keepingVars, inboundVars, chatVars, bootVars, actVars, hookVars, resultVars, gateVars, windowVars>>

\* The tasks that timers of the debounce windows started.
FlushTasks ==
    /\ FlushRuns
    /\ UNCHANGED <<reviewVars, keepingVars, inboundVars, chatVars, llmVars, bootVars, actVars, hookVars, resultVars, gateVars>>

\* People, other systems and the workflows that were started.
WorldActs ==
    \/ PeopleAct /\ UNCHANGED <<iterVars, budgetVars, keepingVars, talkVars>>
    \/ WorkspaceChanges /\ UNCHANGED <<jobVars, reviewVars, noteVars, pruneVars, healthVars, talkVars>>
    \/ WorkflowCloses /\ UNCHANGED <<jobVars, reviewVars, keepingVars, chatVars, llmVars, bootVars, actVars, hookVars, resultVars, gateVars, windowVars>>
    \/ (\E x \in Jobs : Told(x)) /\ UNCHANGED <<reviewVars, keepingVars, inboundVars, chatVars, llmVars, actVars, hookVars, resultVars, gateVars, windowVars>>
    \/ PersonEdits /\ UNCHANGED <<jobVars, reviewVars, keepingVars, inboundVars, chatVars, llmVars, bootVars, actVars, hookVars, gateVars, windowVars>>
    \/ GatesAge /\ UNCHANGED <<jobVars, reviewVars, keepingVars, inboundVars, chatVars, llmVars, bootVars, actVars, hookVars, resultVars, windowVars>>
    \/ TimerFires /\ UNCHANGED <<reviewVars, keepingVars, inboundVars, chatVars, llmVars, bootVars, actVars, hookVars, resultVars, gateVars>>
    \/ HooksAge /\ UNCHANGED <<jobVars, reviewVars, keepingVars, inboundVars, chatVars, llmVars, bootVars, actVars, resultVars, gateVars, windowVars>>
    \/ PrimaryChanges /\ UNCHANGED <<jobVars, reviewVars, keepingVars, inboundVars, chatVars, bootVars, actVars, hookVars, resultVars, gateVars, windowVars>>

Next == (\E x \in Jobs : Step(x)) \/ FlushTasks \/ ProbeRuns \/ WorldActs

\* A job or a task that can run is scheduled; nothing is assumed of people or of time.
Spec == Init /\ [][Next]_vars /\ (\A x \in Jobs : WF_vars(Step(x))) /\ WF_vars(FlushTasks)

TypeOK ==
    /\ \A x \in Jobs : job[x].try \in 1..MaxAttempts /\ (job[x].pc = "end") = (job[x].out # None)
    /\ failed \in 0..bound
    /\ \A a \in audit : a.by \in Jobs /\ a.result \in {"ok", "denied", "error"}
    /\ \A row \in iters \cup kids : row.n \in Nat
    /\ told \subseteq Jobs
    /\ \A p \in DOMAIN prs : prs[p] # None => prs[p].open \in BOOLEAN
    /\ \A b \in DOMAIN branches : branches[b] # None => branches[b].old \in BOOLEAN
    /\ \A row \in ledger : \A other \in ledger : row.wf = other.wf /\ row.old = other.old => row = other
    /\ spent \in [Scopes -> Nat] /\ \A s \in Scopes : rung[s] \subseteq Jobs
    /\ \A d \in delivered : d.key \in log
    /\ rows \cap pruned = {}
    /\ health.fails \in Nat /\ health.oks \in 0..HealthyAfter
    /\ \A x \in Jobs : Cardinality(seen[x]) <= SeenMax

\* Iterations, superseded pull requests, review actions and branch retention under
\* retries, lost answers and people at work: distinct numbers within the cap, one
\* banner, and no answer or comment that is not true.
ReviewWorkAddsUp ==
    /\ TypeOK
    /\ IterationsAreDistinct
    /\ IterationsStayInCap
    /\ CapIsTold
    /\ SupersededOnce
    /\ ReviewActionsAccounted
    /\ RetentionTellsTruth

\* Every job that begins ends, or serves: retries are bounded and every failure has a
\* handler that goes on or gives up. Again and again no job is half way (a job
\* that has begun, or is at a further attempt, is never Fresh again).
EveryJobEnds == []<>(\A x \in Jobs : job[x] = Fresh \/ Ended(x) \/ Serving(x))

\* Processes that start, fail half way and stop next to each other: handles closed
\* once, migrations in order, schedules registered, one notifier, and readiness
\* that is true.
ProcessesComeAndGo ==
    /\ HandlesClosedOnce
    /\ MigrationsInOrder
    /\ ServingHasCrons
    /\ BuiltOnce
    /\ ReadyIsTrue

\* Limits under concurrent spending, retries, timeouts and a switched model: no start at
\* the cap, no silent denial, one alarm; a turn of the assistant writes nothing, stays
\* in its limits and leaves its row; and a switched model has a way back.
LimitsHold ==
    /\ NoStartAtTheCap
    /\ DenialIsAudited
    /\ AlarmRingsOnce
    /\ NoWriteToolRuns
    /\ TurnStaysInLimits
    /\ EndedTurnIsAudited
    /\ FallbackHasAWayBack

\* What the platform tells, keeps and takes in under retries, redeliveries and
\* overlapping runs: a notification once, a pruned row in the archive, a runner's
\* health and a mapping that follow what was observed, one task per message.
RecordsSurvive ==
    /\ NotifiedAtMostOnce
    /\ PrunedIsArchived
    /\ HealthFollowsChecks
    /\ MappingIsOneScan
    /\ OneTaskPerMessage
    /\ AcceptedMeansStarted

\* What activities and handlers do outside, with lost answers, dying workers and
\* redeliveries: attempts clean up and create once, an event is served once, every
\* answer, verdict and resolved repository is what happened, and only who may gets in.
EffectsAreTrue ==
    /\ AttemptsCleanUp
    /\ RetriesCreateOnce
    /\ AnsweredCommitIsHead
    /\ OnlySafePathsCommitted
    /\ AnsweredBranchExists
    /\ OneEndingPerItem
    /\ StoredIsThere
    /\ EventServedOnce
    /\ HookAnswersAreTrue
    /\ LostOnlyByItsOwner
    /\ StartsHaveWorkItems
    /\ BatchVerdictIsTrue
    /\ RepoIsSettled
    /\ PageIsRewrittenWithCare
    /\ ResultsInOrder
    /\ RetiredKeysRunOut
    /\ ForwardedIsAllowed
    /\ OneAdminPerToken
    /\ PassedIsSigned
    /\ BufferedIsNotForgotten
    /\ OpenWindowsEnd
    /\ ClosedIsQuiet

=============================================================================
