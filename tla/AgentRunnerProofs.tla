-------------------------- MODULE AgentRunnerProofs --------------------------
(****************************************************************************)
(* WorkStaysUnderCap, CompensationOnce, RunIsOrderly and CancelIsFinal hold *)
(* of AgentRunner for any cap, streak and banner limits, any iteration      *)
(* inputs, diffs and roles.                                                 *)
(****************************************************************************)
EXTENDS AgentRunner, TLAPS

\* What the compensation argument needs to know of the history record.
DoneTypeOK ==
    done \in [branch : Nat, message : Nat, child : Nat, scanned : BOOLEAN,
              committed : BOOLEAN, passed : BOOLEAN, pr : BOOLEAN,
              outputPr : BOOLEAN, banners : Nat, compensations : Nat,
              cancelAudit : Roles \union {None}, failedCritical : BOOLEAN,
              appliedAfterFailure : BOOLEAN]

\* The awaits of the banner, which lie between two steps of signal_wait.
BannerPlaces == {"banner_comment", "banner_audit", "banner_comment_again",
                 "banner_audit_again"}

\* The coroutine is inside the script of its own type; only code changes
\* generate twice, only the signal wait posts a banner.
OnScript(type, step) ==
    /\ step \in Steps => \E i \in 1 .. Len(Script[type]) : Script[type][i] = step
    /\ step = "regenerate" => type \in CodeChange
    /\ step \in BannerPlaces => type = "research_basic"

\* Awaits from which the run can still end in any way.
Working == Pcs \ {"compensate_critical", "compensate_cancel", "cancel_audit",
                  "closed"}

\* The cap: a run is within it, or was turned away before it did anything.
CapInv ==
    /\ iter \in Nat
    /\ iter <= MAX_ITER \/ (pc = "closed" /\ done = NothingDone)
    /\ done.branch <= MAX_ITER /\ done.message <= MAX_ITER /\ done.child <= MAX_ITER
    /\ pc = "start" => done = NothingDone

\* Where the coroutine is fixes how often compensation ran and why.
ChainInv ==
    /\ pc \in Working => /\ done.compensations = 0 /\ ~done.failedCritical
                         /\ result = None
    /\ pc = "compensate_critical" => /\ done.compensations = 0
                                     /\ done.failedCritical /\ result = None
    /\ pc = "compensate_cancel" => /\ done.compensations = 0
                                   /\ ~done.failedCritical /\ result = None
    /\ pc = "cancel_audit" => /\ done.compensations = 1
                              /\ ~done.failedCritical /\ result = None
    /\ pc = "closed" =>
          \/ /\ done.compensations = 0 /\ ~done.failedCritical
             /\ result.status # "cancelled"
          \/ /\ done.compensations = 1
             /\ done.failedCritical \/ result.status = "cancelled"

RInv ==
    /\ inp \in Inputs
    /\ pc \in Pcs /\ OnScript(inp.type, pc)
    /\ cancelRole \in Roles \union {None}
    /\ DoneTypeOK
    /\ CapInv
    /\ ChainInv
-----------------------------------------------------------------------------
\* The awaits of the handlers, listed.
ScriptSteps ==
    {"assign", "generate", "scan", "commit", "test", "open_pr", "report",
     "fetch_diff", "review", "post_findings", "link", "write_doc", "create_page",
     "read_page", "update_sections", "search", "scrape", "store_summary",
     "post_summary", "list_children", "subtasks", "banner", "audits", "wait",
     "banner_again", "audits_again"}

\* The workflow types, listed.
LEMMA TypesListed ==
    WorkflowTypes = {"code_change_with_test", "code_change_commit_only",
        "pr_review", "confluence_doc_create", "confluence_doc_update",
        "research_publish_confluence", "research_summary_jira", "multi_step",
        "research_basic"}
BY DEF WorkflowTypes, Script

\* Every handler has at least three awaits.
LEMMA ScriptLengths ==
    ASSUME NEW t \in WorkflowTypes
    PROVE  Len(Script[t]) \in Nat /\ Len(Script[t]) >= 3
<1>1. CASE t = "code_change_with_test"
  BY <1>1 DEF Script, code_change_common
<1>2. CASE t = "code_change_commit_only"
  BY <1>2 DEF Script, code_change_common
<1>3. CASE t = "pr_review"
  BY <1>3 DEF Script, handle_pr_review
<1>4. CASE t = "confluence_doc_create"
  BY <1>4 DEF Script, handle_confluence_doc_create
<1>5. CASE t = "confluence_doc_update"
  BY <1>5 DEF Script, handle_confluence_doc_update
<1>6. CASE t = "research_publish_confluence"
  BY <1>6 DEF Script, handle_research_publish_confluence
<1>7. CASE t = "research_summary_jira"
  BY <1>7 DEF Script, handle_research_summary_jira
<1>8. CASE t = "multi_step"
  BY <1>8 DEF Script, handle_multi_step
<1>9. CASE t = "research_basic"
  BY <1>9 DEF Script, signal_wait
<1> QED
  BY TypesListed, <1>1, <1>2, <1>3, <1>4, <1>5, <1>6, <1>7, <1>8, <1>9

\* The awaits of every script are among Steps, and Steps holds none of the
\* places outside the scripts.
LEMMA StepsApart ==
    /\ \A t \in WorkflowTypes : \A i \in 1 .. Len(Script[t]) : Script[t][i] \in Steps
    /\ \A s \in Steps : s \in ScriptSteps
<1>1. \A t \in WorkflowTypes : \A i \in 1 .. Len(Script[t]) : Script[t][i] \in Steps
  BY DEF Steps
<1>2. \A t \in WorkflowTypes : \A i \in 1 .. Len(Script[t]) :
        Script[t][i] \in ScriptSteps
  <2> SUFFICES ASSUME NEW t \in WorkflowTypes, NEW i \in 1 .. Len(Script[t])
               PROVE  Script[t][i] \in ScriptSteps
    OBVIOUS
  <2>2. CASE t = "code_change_with_test"
    BY <2>2 DEF Script, ScriptSteps, code_change_common
  <2>3. CASE t = "code_change_commit_only"
    BY <2>3 DEF Script, ScriptSteps, code_change_common
  <2>4. CASE t = "pr_review"
    BY <2>4 DEF Script, ScriptSteps, handle_pr_review
  <2>5. CASE t = "confluence_doc_create"
    BY <2>5 DEF Script, ScriptSteps, handle_confluence_doc_create
  <2>6. CASE t = "confluence_doc_update"
    BY <2>6 DEF Script, ScriptSteps, handle_confluence_doc_update
  <2>7. CASE t = "research_publish_confluence"
    BY <2>7 DEF Script, ScriptSteps, handle_research_publish_confluence
  <2>8. CASE t = "research_summary_jira"
    BY <2>8 DEF Script, ScriptSteps, handle_research_summary_jira
  <2>9. CASE t = "multi_step"
    BY <2>9 DEF Script, ScriptSteps, handle_multi_step
  <2>10. CASE t = "research_basic"
    BY <2>10 DEF Script, ScriptSteps, signal_wait
  <2> QED
    BY TypesListed, <2>2, <2>3, <2>4, <2>5, <2>6, <2>7, <2>8, <2>9, <2>10
<1>3. \A s \in Steps : \E t \in WorkflowTypes : \E i \in 1 .. Len(Script[t]) :
        s = Script[t][i]
  BY DEF Steps
<1>4. QED
  BY <1>1, <1>2, <1>3

-----------------------------------------------------------------------------
\* What a step does to the part of the state the invariant speaks of.
SameChain ==
    /\ done'.compensations = done.compensations
    /\ done'.failedCritical = done.failedCritical

Ends == \/ pc' = "compensate_cancel" /\ result' = result
        \/ pc' = "closed" /\ result'.status # "cancelled"

Goes == /\ pc' \in Working \ {"start"} /\ OnScript(inp.type, pc')
        /\ result' = result

WorkStep == pc \in Working /\ SameChain /\ (Ends \/ Goes)

CriticalStep ==
    /\ pc \in Working /\ pc' = "compensate_critical" /\ result' = result
    /\ done'.failedCritical /\ done'.compensations = done.compensations

ChainStep ==
    /\ done'.failedCritical = done.failedCritical
    /\ \/ /\ pc = "compensate_critical" /\ pc' = "closed"
          /\ done'.compensations = done.compensations + 1
          /\ result'.status = "failed"
       \/ /\ pc = "compensate_cancel" /\ pc' = "cancel_audit"
          /\ done'.compensations = done.compensations + 1
          /\ result' = result
       \/ /\ pc = "cancel_audit" /\ pc' = "closed"
          /\ done'.compensations = done.compensations
          /\ result'.status = "cancelled"

BodyFacts ==
    /\ inp' = inp /\ iter' = iter /\ cancelRole' = cancelRole
    /\ DoneTypeOK' /\ pc \notin {"start", "closed"}
    /\ done'.branch \in {done.branch, iter}
    /\ done'.message \in {done.message, iter}
    /\ done'.child \in {done.child, iter, 0}
    /\ WorkStep \/ CriticalStep \/ ChainStep

\* Whatever run does after the handler, it ends or starts the cancel chain.
LEMMA BodyReturnsEnds ==
    ASSUME NEW b, BodyReturns(b)
    PROVE  Ends
<1>1. CASE cancelRole # None
  BY <1>1 DEF BodyReturns, Ends
<1>2. CASE cancelRole = None /\ oos
  <2>1. Finish("out_of_scope")
    BY <1>2 DEF BodyReturns
  <2> QED BY <2>1 DEF Finish, Ends
<1>3. CASE cancelRole = None /\ ~oos
  <2>1. Finish(IF b THEN "completed_with_partial_failure" ELSE "completed")
    BY <1>3 DEF BodyReturns
  <2>2. CASE b
    BY <2>1, <2>2 DEF Finish, Ends
  <2>3. CASE ~b
    BY <2>1, <2>3 DEF Finish, Ends
  <2> QED BY <2>2, <2>3
<1> QED BY <1>1, <1>2, <1>3

\* A place outside the scripts is no step.
LEMMA OffScript ==
    ASSUME NEW step \in Pcs \ ScriptSteps, step # "regenerate",
           step \notin BannerPlaces
    PROVE  OnScript(inp.type, step)
BY StepsApart DEF OnScript

\* The places a step of a script can lead to are working places.
LEMMA StepsWork ==
    /\ \A s \in Steps : s \in Working \ {"start"}
    /\ {"deny_audit", "token_audit", "regenerate", "tests_failed", "giving_up",
        "explain", "explain_comment", "epic_comment", "offload", "outputs",
        "pr_comment", "host_cancelled"} \subseteq Working \ {"start"}
    /\ BannerPlaces \subseteq Working \ {"start"}
BY StepsApart DEF Working, Pcs, ScriptSteps, BannerPlaces

\* Advance moves within the script, to one of the places after it, or ends.
LEMMA AdvanceGoes ==
    ASSUME inp \in Inputs, pc \in Steps, OnScript(inp.type, pc), NEW b,
           Advance(pc, b)
    PROVE  Ends \/ Goes
<1> DEFINE script == Script[inp.type]
<1>1. inp.type \in WorkflowTypes
  BY DEF Inputs
<1>2. Position(pc) \in 1 .. Len(script)
  BY DEF OnScript, Position
<1>3. CASE Position(pc) < Len(script)
  <2>1. Len(script) \in Nat
    BY <1>1, ScriptLengths
  <2>2. Position(pc) + 1 \in 1 .. Len(script)
    BY <1>2, <1>3, <2>1
  <2> DEFINE next == script[Position(pc) + 1]
  <2>3. next \in Steps
    BY <1>1, <2>2, StepsApart
  <2>4. EnterStep(next) /\ result' = result
    BY <1>3 DEF Advance
  <2>5. pc' \in {next, "token_audit"}
    BY <2>4 DEF EnterStep
  <2>6. CASE pc' = next
    <3>1. next # "regenerate" /\ next \notin BannerPlaces
      BY <2>3, StepsApart DEF ScriptSteps, BannerPlaces
    <3> QED BY <2>2, <2>3, <2>4, <2>6, <3>1, StepsWork DEF Goes, OnScript
  <2>7. CASE pc' = "token_audit"
    BY <2>4, <2>7, StepsWork, OffScript DEF Goes, Pcs, ScriptSteps, BannerPlaces
  <2> QED BY <2>5, <2>6, <2>7
<1>4. CASE ~(Position(pc) < Len(script)) /\ inp.type = "pr_review"
  <2>1. AfterFindings(b)
    BY <1>4 DEF Advance
  <2>2. CASE pendingExplain = None
    BY <2>1, <2>2, BodyReturnsEnds DEF AfterFindings
  <2>3. CASE pendingExplain # None
    <3>1. pc' \in {"explain_comment", "explain", "token_audit"} /\ result' = result
      BY <2>1, <2>3 DEF AfterFindings, EnterStep
    <3> QED BY <3>1, StepsWork, OffScript DEF Goes, Pcs, ScriptSteps, BannerPlaces
  <2> QED BY <2>2, <2>3
<1>5. CASE ~(Position(pc) < Len(script)) /\ inp.type # "pr_review"
  <2>1. AfterReport(b)
    BY <1>5 DEF Advance
  <2>2. CASE left.critical + left.best > 0
    <3>1. pc' = "offload" /\ result' = result
      BY <2>1, <2>2 DEF AfterReport
    <3> QED BY <3>1, StepsWork, OffScript DEF Goes, Pcs, ScriptSteps, BannerPlaces
  <2>3. CASE ~(left.critical + left.best > 0)
    BY <2>1, <2>3, BodyReturnsEnds DEF AfterReport
  <2> QED BY <2>2, <2>3
<1> QED BY <1>3, <1>4, <1>5

\* The awaits whose successors are written out, with the types they belong to.
LEMMA ScriptPlaces ==
    ASSUME NEW t \in WorkflowTypes, NEW i \in 1 .. Len(Script[t])
    PROVE  /\ Script[t][i] \in {"generate", "scan", "commit"} => t \in CodeChange
           /\ Script[t][i] = "test" => t = "code_change_with_test"
           /\ Script[t][i] \in {"banner", "audits", "wait", "banner_again",
                               "audits_again"} => t = "research_basic"
<1>2. CASE t = "code_change_with_test"
  BY <1>2 DEF Script, CodeChange, code_change_common
<1>3. CASE t = "code_change_commit_only"
  BY <1>3 DEF Script, CodeChange, code_change_common
<1>4. CASE t = "pr_review"
  BY <1>4 DEF Script, handle_pr_review
<1>5. CASE t = "confluence_doc_create"
  BY <1>5 DEF Script, handle_confluence_doc_create
<1>6. CASE t = "confluence_doc_update"
  BY <1>6 DEF Script, handle_confluence_doc_update
<1>7. CASE t = "research_publish_confluence"
  BY <1>7 DEF Script, handle_research_publish_confluence
<1>8. CASE t = "research_summary_jira"
  BY <1>8 DEF Script, handle_research_summary_jira
<1>9. CASE t = "multi_step"
  BY <1>9 DEF Script, handle_multi_step
<1>10. CASE t = "research_basic"
  BY <1>10 DEF Script, signal_wait
<1> QED
  BY TypesListed, <1>2, <1>3, <1>4, <1>5, <1>6, <1>7, <1>8, <1>9, <1>10

\* The successors written out are in the scripts too.
LEMMA ScriptTargets ==
    /\ \A t \in CodeChange : /\ t \in WorkflowTypes
                             /\ Script[t][3] = "scan" /\ 3 \in 1 .. Len(Script[t])
    /\ LET t == "code_change_with_test" IN
          /\ t \in WorkflowTypes
          /\ Script[t][6] = "open_pr" /\ 6 \in 1 .. Len(Script[t])
    /\ LET t == "research_basic" IN
          /\ t \in WorkflowTypes /\ Len(Script[t]) = 5
          /\ Script[t][2] = "audits" /\ Script[t][3] = "wait"
          /\ Script[t][4] = "banner_again" /\ Script[t][5] = "audits_again"
<1>1. \A t \in CodeChange : /\ t \in WorkflowTypes
                            /\ Script[t][3] = "scan" /\ 3 \in 1 .. Len(Script[t])
  <2>1. LET t == "code_change_with_test" IN
        t \in WorkflowTypes /\ Script[t][3] = "scan" /\ 3 \in 1 .. Len(Script[t])
    BY DEF WorkflowTypes, Script, code_change_common
  <2>2. LET t == "code_change_commit_only" IN
        t \in WorkflowTypes /\ Script[t][3] = "scan" /\ 3 \in 1 .. Len(Script[t])
    BY DEF WorkflowTypes, Script, code_change_common
  <2> QED BY <2>1, <2>2 DEF CodeChange
<1>2. LET t == "code_change_with_test" IN
        /\ t \in WorkflowTypes
        /\ Script[t][6] = "open_pr" /\ 6 \in 1 .. Len(Script[t])
  BY DEF WorkflowTypes, Script, code_change_common
<1>3. LET t == "research_basic" IN
        /\ t \in WorkflowTypes /\ Len(Script[t]) = 5
        /\ Script[t][2] = "audits" /\ Script[t][3] = "wait"
        /\ Script[t][4] = "banner_again" /\ Script[t][5] = "audits_again"
  BY DEF WorkflowTypes, Script, signal_wait
<1> QED BY <1>1, <1>2, <1>3

\* A place of the run's own script can be entered.
LEMMA EnterGoes ==
    ASSUME inp \in Inputs, NEW i \in 1 .. Len(Script[inp.type]),
           pc' \in {Script[inp.type][i], "token_audit"}, result' = result
    PROVE  Goes
<1>1. inp.type \in WorkflowTypes
  BY DEF Inputs
<1>2. Script[inp.type][i] \in Steps
  BY <1>1, StepsApart
<1>3. CASE pc' = "token_audit"
  BY <1>3, StepsWork, OffScript DEF Goes, Pcs, ScriptSteps, BannerPlaces
<1>4. CASE pc' = Script[inp.type][i]
  <2>1. pc' # "regenerate" /\ pc' \notin BannerPlaces
    BY <1>2, <1>4, StepsApart DEF ScriptSteps, BannerPlaces
  <2> QED BY <1>2, <1>4, <2>1, StepsWork DEF Goes, OnScript
<1> QED BY <1>3, <1>4

-----------------------------------------------------------------------------
\* Every step of the run body after the first changes only what BodyFacts says.
LEMMA BodyStep ==
    ASSUME RunnerAssumption, RInv, Body, \A m \in MaxIters : ~Run(m)
    PROVE  BodyFacts
<1> USE DEF RInv
<1>a. \A d : DoneTypeOK /\ d = done =>
        d \in [branch : Nat, message : Nat, child : Nat, scanned : BOOLEAN,
               committed : BOOLEAN, passed : BOOLEAN, pr : BOOLEAN,
               outputPr : BOOLEAN, banners : Nat, compensations : Nat,
               cancelAudit : Roles \union {None}, failedCritical : BOOLEAN,
               appliedAfterFailure : BOOLEAN]
  BY DEF DoneTypeOK
<1>b. ASSUME inp' = inp, iter' = iter, cancelRole' = cancelRole,
             done' = done, pc \in Working, pc # "start", Ends \/ Goes
      PROVE  BodyFacts
  BY <1>b DEF BodyFacts, DoneTypeOK, WorkStep, SameChain, Working
<1>1. CASE Succeed
  <2>1. Ends \/ Goes
    BY <1>1, AdvanceGoes DEF Succeed
  <2>2. pc \in Working \ {"start"}
    BY <1>1, StepsWork DEF Succeed
  <2>3. CASE pc = "scan"
    <3>1. done' = [done EXCEPT !.scanned = TRUE, !.message = iter]
      BY <1>1, <2>3 DEF Succeed
    <3>2. DoneTypeOK' /\ SameChain /\ done'.branch = done.branch
          /\ done'.message = iter /\ done'.child = done.child
      BY <3>1 DEF DoneTypeOK, SameChain, CapInv
    <3> QED BY <1>1, <2>1, <2>2, <3>2 DEF Succeed, state, flags, BodyFacts, WorkStep, Working
  <2>4. CASE pc = "open_pr"
    <3>1. done' = [done EXCEPT !.pr = TRUE]
      BY <1>1, <2>4 DEF Succeed
    <3>2. DoneTypeOK' /\ SameChain /\ done'.branch = done.branch
          /\ done'.message = done.message /\ done'.child = done.child
      BY <3>1 DEF DoneTypeOK, SameChain
    <3> QED BY <1>1, <2>1, <2>2, <3>2 DEF Succeed, state, flags, BodyFacts, WorkStep, Working
  <2>5. CASE pc \notin {"scan", "open_pr"}
    <3>1. done' = done
      BY <1>1, <2>5 DEF Succeed
    <3> QED BY <1>1, <1>b, <2>1, <2>2, <3>1 DEF Succeed, state, flags
  <2> QED BY <2>3, <2>4, <2>5
<1>2. CASE Assign
  <2>1. pc = "assign" /\ pc \in Working /\ inp' = inp /\ iter' = iter /\ cancelRole' = cancelRole
        /\ result' = result
    BY <1>2 DEF Assign, state, flags, Working
  <2>2. CASE inp.type \in CodeChange /\ inp.denied
    <3>1. pc' = "deny_audit" /\ done' = done
      BY <1>2, <2>2 DEF Assign
    <3>2. Goes
      BY <2>1, <3>1, StepsWork, OffScript DEF Goes, Pcs, ScriptSteps, BannerPlaces
    <3> QED BY <1>b, <2>1, <3>1, <3>2
  <2>3. CASE ~(inp.type \in CodeChange /\ inp.denied)
    <3>1. EnterStep(Script[inp.type][2])
      BY <1>2, <2>3 DEF Assign
    <3>2. inp.type \in WorkflowTypes
      BY DEF Inputs
    <3>3. 2 \in 1 .. Len(Script[inp.type])
      BY <3>2, ScriptLengths
    <3>4. pc' \in {Script[inp.type][2], "token_audit"}
      BY <3>1 DEF EnterStep
    <3>5. Goes
      BY <2>1, <3>3, <3>4, EnterGoes
    <3>6. DoneTypeOK' /\ SameChain /\ done'.branch \in {done.branch, iter}
          /\ done'.message = done.message /\ done'.child = done.child
      BY <1>2, <2>3 DEF Assign, DoneTypeOK, SameChain, CapInv
    <3> QED BY <2>1, <3>5, <3>6 DEF BodyFacts, WorkStep
  <2> QED BY <2>2, <2>3
<1>3. CASE Regenerate
  <2>1. "generate" \in Steps /\ inp.type \in WorkflowTypes
    <3>1. LET t == "code_change_with_test" IN
          t \in WorkflowTypes /\ 2 \in 1 .. Len(Script[t]) /\ Script[t][2] = "generate"
      BY DEF WorkflowTypes, Script, code_change_common
    <3> QED BY <3>1, StepsApart DEF Inputs
  <2>2. inp.type \in CodeChange
    BY <1>3, <2>1, ScriptPlaces DEF Regenerate, OnScript
  <2>3. Goes
    <3>1. CASE pc' = "regenerate"
      BY <1>3, <2>2, <3>1, StepsApart, StepsWork DEF Regenerate, Goes, OnScript,
         ScriptSteps, BannerPlaces
    <3>2. CASE pc' = "token_audit"
      BY <1>3, <3>2, StepsWork, OffScript DEF Regenerate, Goes, Pcs, ScriptSteps,
         BannerPlaces
    <3> QED BY <1>3, <3>1, <3>2 DEF Regenerate
  <2> QED BY <1>3, <1>b, <2>3 DEF Regenerate, state, flags, Working
<1>4. CASE RegenerateSucceeds
  <2>1. pc = "regenerate" /\ pc' = "scan" /\ result' = result /\ inp.type \in CodeChange
    BY <1>4 DEF RegenerateSucceeds, OnScript
  <2>2. Goes
    BY <2>1, ScriptTargets, EnterGoes
  <2> QED BY <1>4, <1>b, <2>1, <2>2 DEF RegenerateSucceeds, state, flags, Working
<1>5. CASE CriticalFails \/ InputRejected
  <2>1. (\E why : Fails(why)) /\ inp' = inp /\ iter' = iter /\ cancelRole' = cancelRole /\ done' = done
    BY <1>5 DEF CriticalFails, InputRejected, state, flags
  <2>2. Ends
    BY <2>1 DEF Fails, Finish, Ends
  <2>3. pc \in Working /\ pc # "start"
    <3>1. CASE CriticalFails
      BY <3>1 DEF CriticalFails, Critical, LlmSteps, Working
    <3>2. CASE InputRejected
      BY <3>2 DEF InputRejected, Working
    <3> QED BY <1>5, <3>1, <3>2
  <2> QED BY <1>b, <2>1, <2>2, <2>3
<1>6. CASE BestEffortFails
  <2>1. pc \in BestEffort \union {"link"} /\ Advance(pc, partial')
        /\ inp' = inp /\ iter' = iter /\ cancelRole' = cancelRole /\ done' = done
    BY <1>6 DEF BestEffortFails, state, flags
  <2>2. pc \in Steps
    BY <2>1 DEF Pcs, BestEffort
  <2>3. Ends \/ Goes
    BY <2>1, <2>2, AdvanceGoes
  <2> QED BY <1>b, <2>1, <2>2, <2>3, StepsWork
<1>7. CASE GiveUp
  <2>1. pc' = "giving_up" /\ result' = result
    BY <1>7 DEF GiveUp
  <2>2. Goes
    BY <2>1, StepsWork, OffScript DEF Goes, Pcs, ScriptSteps, BannerPlaces
  <2> QED BY <1>7, <1>b, <2>2 DEF GiveUp, state, flags, Working, MayGiveUp
<1>8. CASE SubtaskFails
  <2>1. pc = "subtasks" /\ pc' = "epic_comment" /\ result' = result
        /\ inp' = inp /\ iter' = iter /\ cancelRole' = cancelRole /\ done' = done
    BY <1>8 DEF SubtaskFails, state, flags
  <2>2. Goes
    BY <2>1, StepsWork, OffScript DEF Goes, Pcs, ScriptSteps, BannerPlaces
  <2> QED BY <1>b, <2>1, <2>2 DEF Working
<1>9. CASE Offload
  <2>1. pc = "offload" /\ pc' = "outputs" /\ result' = result
        /\ inp' = inp /\ iter' = iter /\ cancelRole' = cancelRole /\ done' = done
    BY <1>9 DEF Offload, state, flags
  <2>2. Goes
    BY <2>1, StepsWork, OffScript DEF Goes, Pcs, ScriptSteps, BannerPlaces
  <2> QED BY <1>b, <2>1, <2>2 DEF Working
<1>22. CASE PartitionRejects
  <2>1. pc = "offload" /\ pc \in Working /\ inp' = inp /\ iter' = iter
        /\ cancelRole' = cancelRole /\ result' = result /\ pc' = "compensate_critical"
    BY <1>22 DEF PartitionRejects, CriticalRefusal, state, Working
  <2>2. DoneTypeOK' /\ done'.branch = done.branch /\ done'.message = done.message
        /\ done'.child = done.child /\ done'.compensations = done.compensations
        /\ done'.failedCritical
    BY <1>22 DEF PartitionRejects, DoneTypeOK
  <2> QED BY <2>1, <2>2 DEF BodyFacts, CriticalStep
<1>10. ASSUME pc \in {"banner", "banner_again", "audits", "audits_again", "wait"} \union BannerPlaces
       PROVE  inp.type = "research_basic"
  <2>1. CASE pc \in BannerPlaces
    BY <2>1 DEF OnScript
  <2>2. CASE pc \in {"banner", "banner_again", "audits", "audits_again", "wait"}
    <3>1. pc \in Steps /\ inp.type \in WorkflowTypes
      BY <2>2 DEF Inputs, Pcs
    <3> QED BY <2>2, <3>1, ScriptPlaces DEF OnScript
  <2> QED BY <1>10, <2>1, <2>2
<1>11. CASE Wait
  <2>1. pc = "wait" /\ pc' = "banner_again" /\ result' = result
        /\ inp' = inp /\ iter' = iter /\ cancelRole' = cancelRole /\ done' = done
    BY <1>11 DEF Wait, inputs, state, flags
  <2>2. Goes
    BY <1>10, <2>1, ScriptTargets, EnterGoes
  <2> QED BY <1>b, <2>1, <2>2 DEF Working
<1>12. ASSUME NEW h \in Hashes, Commit(h)
       PROVE  BodyFacts
  <2>1. pc = "commit" /\ inp' = inp /\ iter' = iter /\ cancelRole' = cancelRole /\ result' = result
        /\ EnterStep(Script[inp.type][Position("commit") + 1])
    BY <1>12 DEF Commit, state, flags
  <2>2. inp.type \in CodeChange
    BY <2>1, ScriptPlaces DEF OnScript, Inputs, Pcs
  <2>3. Position("commit") + 1 \in 1 .. Len(Script[inp.type])
    <3>1. CASE inp.type = "code_change_with_test"
      BY <3>1 DEF Position, Script, code_change_common
    <3>2. CASE inp.type = "code_change_commit_only"
      BY <3>2 DEF Position, Script, code_change_common
    <3> QED BY <2>2, <3>1, <3>2 DEF CodeChange
  <2>4. Goes
    BY <2>1, <2>3, EnterGoes DEF EnterStep
  <2>5. DoneTypeOK' /\ SameChain /\ done'.branch = done.branch
        /\ done'.message = done.message /\ done'.child \in {iter, 0}
    BY <1>12 DEF Commit, DoneTypeOK, SameChain, CapInv
  <2> QED BY <2>1, <2>4, <2>5 DEF BodyFacts, WorkStep, Working
<1>13. ASSUME NEW o \in {"ok", "error"}, DenyAudit(o) \/ TokenAudit(o) \/ EpicComment(o)
       PROVE  BodyFacts
  <2>1. /\ pc \in {"deny_audit", "token_audit", "epic_comment"}
        /\ inp' = inp /\ iter' = iter /\ cancelRole' = cancelRole /\ done' = done
        /\ Finish("out_of_scope") \/ Finish("failed")
    BY <1>13 DEF DenyAudit, TokenAudit, EpicComment, Fails, state, flags
  <2>2. Ends
    BY <2>1 DEF Finish, Ends
  <2> QED BY <1>b, <2>1, <2>2 DEF Working
<1>14. ASSUME NEW o \in {"ok", "error"}, Test(o)
       PROVE  BodyFacts
  <2>1. pc = "test" /\ inp' = inp /\ iter' = iter /\ cancelRole' = cancelRole /\ result' = result
        /\ pc' \in {"open_pr", "tests_failed"}
    BY <1>14 DEF Test, flags
  <2>2. inp.type = "code_change_with_test"
    BY <2>1, ScriptPlaces DEF OnScript, Inputs, Pcs
  <2>3. DoneTypeOK' /\ SameChain /\ done'.branch = done.branch
        /\ done'.message = done.message /\ done'.child = done.child
    BY <1>14 DEF Test, DoneTypeOK, SameChain
  <2>4. Goes
    <3>1. CASE pc' = "open_pr"
      BY <2>1, <2>2, <3>1, ScriptTargets, EnterGoes
    <3>2. CASE pc' = "tests_failed"
      BY <2>1, <3>2, StepsWork, OffScript DEF Goes, Pcs, ScriptSteps, BannerPlaces
    <3> QED BY <2>1, <3>1, <3>2
  <2> QED BY <2>1, <2>3, <2>4 DEF BodyFacts, WorkStep, Working
<1>15. ASSUME NEW o \in {"ok", "error"}, LastComment(o)
       PROVE  BodyFacts
  <2>1. BodyReturns(partial') /\ pc \in {"giving_up", "tests_failed", "explain_comment"}
        /\ inp' = inp /\ iter' = iter /\ cancelRole' = cancelRole /\ done' = done
    BY <1>15 DEF LastComment, state, flags
  <2>2. Ends
    BY <2>1, BodyReturnsEnds
  <2> QED BY <1>b, <2>1, <2>2 DEF Working
<1>16. ASSUME NEW o \in {"ok", "error"}, Explain(o)
       PROVE  BodyFacts
  <2>1. pc = "explain" /\ inp' = inp /\ iter' = iter /\ cancelRole' = cancelRole /\ done' = done
        /\ ((pc' = "explain_comment" /\ result' = result) \/ BodyReturns(TRUE))
    BY <1>16 DEF Explain, flags
  <2>2. CASE pc' = "explain_comment" /\ result' = result
    <3>1. Goes
      BY <2>2, StepsWork, OffScript DEF Goes, Pcs, ScriptSteps, BannerPlaces
    <3> QED BY <1>b, <2>1, <3>1 DEF Working
  <2>3. CASE BodyReturns(TRUE)
    <3>1. Ends
      BY <2>3, BodyReturnsEnds
    <3> QED BY <1>b, <2>1, <3>1 DEF Working
  <2> QED BY <2>1, <2>2, <2>3
<1>17. ASSUME NEW o \in {"ok", "error"}, NEW k \in OutputKinds, CriticalOutput(o, k)
       PROVE  BodyFacts
  <2>1. pc = "outputs" /\ inp' = inp /\ iter' = iter /\ cancelRole' = cancelRole /\ pc \in Working
    BY <1>17 DEF CriticalOutput, state, flags, Working
  <2>2. DoneTypeOK' /\ done'.branch = done.branch /\ done'.message = done.message
        /\ done'.child = done.child /\ done'.compensations = done.compensations
        /\ done'.failedCritical = (o = "error") /\ ~done.failedCritical
        /\ (o # "error" => SameChain)
    BY <1>17, <2>1 DEF CriticalOutput, DoneTypeOK, ChainInv, SameChain
  <2>3. CASE o = "error"
    <3>1. CriticalStep
      BY <1>17, <2>1, <2>2, <2>3 DEF CriticalOutput, CriticalRefusal, CriticalStep
    <3> QED BY <2>1, <2>2, <3>1 DEF BodyFacts
  <2>4. CASE o # "error"
    <3>1. BodyReturns(partial) \/ (pc' \in {"outputs", "pr_comment"} /\ result' = result)
      BY <1>17, <2>1, <2>4 DEF CriticalOutput, AfterOutput
    <3>2. CASE BodyReturns(partial)
      <4>1. Ends
        BY <3>2, BodyReturnsEnds
      <4> QED BY <2>1, <2>2, <2>4, <4>1 DEF BodyFacts, WorkStep
    <3>3. CASE pc' \in {"outputs", "pr_comment"} /\ result' = result
      <4>1. Goes
        BY <3>3, StepsWork, OffScript DEF Goes, Pcs, ScriptSteps, BannerPlaces
      <4> QED BY <2>1, <2>2, <2>4, <4>1 DEF BodyFacts, WorkStep
    <3> QED BY <3>1, <3>2, <3>3
  <2> QED BY <2>3, <2>4
<1>18. ASSUME NEW o \in {"ok", "error"}, BestEffortOutput(o)
       PROVE  BodyFacts
  <2>1. pc = "outputs" /\ inp' = inp /\ iter' = iter /\ cancelRole' = cancelRole /\ pc \in Working
        /\ (BodyReturns(partial') \/ (pc' = "outputs" /\ result' = result))
    BY <1>18 DEF BestEffortOutput, AfterOutput, state, flags, Working
  <2>2. DoneTypeOK' /\ SameChain /\ done'.branch = done.branch
        /\ done'.message = done.message /\ done'.child = done.child
    BY <1>18 DEF BestEffortOutput, DoneTypeOK, SameChain
  <2>3. CASE BodyReturns(partial')
    <3>1. Ends
      BY <2>3, BodyReturnsEnds
    <3> QED BY <2>1, <2>2, <3>1 DEF BodyFacts, WorkStep
  <2>4. CASE pc' = "outputs" /\ result' = result
    <3>1. Goes
      BY <2>4, StepsWork, OffScript DEF Goes, Pcs, ScriptSteps, BannerPlaces
    <3> QED BY <2>1, <2>2, <3>1 DEF BodyFacts, WorkStep
  <2> QED BY <2>1, <2>3, <2>4
<1>23. ASSUME NEW o \in {"ok", "error"}, PrComment(o)
       PROVE  BodyFacts
  <2>1. pc = "pr_comment" /\ inp' = inp /\ iter' = iter /\ cancelRole' = cancelRole
        /\ pc \in Working /\ done' = done
        /\ (BodyReturns(partial') \/ (pc' = "outputs" /\ result' = result))
    BY <1>23 DEF PrComment, AfterOutput, state, flags, Working
  <2>2. CASE BodyReturns(partial')
    <3>1. Ends
      BY <2>2, BodyReturnsEnds
    <3> QED BY <1>b, <2>1, <3>1
  <2>3. CASE pc' = "outputs" /\ result' = result
    <3>1. Goes
      BY <2>3, StepsWork, OffScript DEF Goes, Pcs, ScriptSteps, BannerPlaces
    <3> QED BY <1>b, <2>1, <3>1
  <2> QED BY <2>1, <2>2, <2>3
<1>24. ASSUME inp.type = "research_basic", result' = result,
              pc' \in {"audits", "audits_again"} \union BannerPlaces
       PROVE  Goes
  <2>1. CASE pc' \in {"audits", "audits_again"}
    BY <1>24, <2>1, ScriptTargets, EnterGoes
  <2>2. CASE pc' \in BannerPlaces
    <3>1. pc' \notin Steps /\ pc' # "regenerate"
      BY <2>2, StepsApart DEF BannerPlaces, ScriptSteps
    <3> QED BY <1>24, <2>2, <3>1, StepsWork DEF Goes, OnScript
  <2> QED BY <1>24, <2>1, <2>2
<1>19. CASE Banner
  <2>1. pc \in {"banner", "banner_again"} /\ inp' = inp /\ iter' = iter /\ cancelRole' = cancelRole
        /\ result' = result /\ pc' \in {"audits", "audits_again"} \union BannerPlaces
    BY <1>19 DEF Banner, inputs, state, flags, BannerPlaces
  <2>2. Goes
    BY <1>10, <1>24, <2>1
  <2>3. DoneTypeOK' /\ SameChain /\ done'.branch = done.branch
        /\ done'.message = done.message /\ done'.child = done.child
    BY <1>19 DEF Banner, DoneTypeOK, SameChain
  <2> QED BY <2>1, <2>2, <2>3 DEF BodyFacts, WorkStep, Working
<1>25. ASSUME NEW o \in {"ok", "error"}, BannerPosted(o)
       PROVE  BodyFacts
  <2>1. pc \in BannerPlaces /\ inp' = inp /\ iter' = iter /\ cancelRole' = cancelRole
        /\ result' = result /\ pc' \in {"audits", "audits_again"} \union BannerPlaces
        /\ done' = done
    BY <1>25 DEF BannerPosted, state, flags, BannerPlaces
  <2>2. Goes
    BY <1>10, <1>24, <2>1
  <2>3. pc \in Working /\ pc # "start"
    BY <2>1, StepsWork
  <2> QED BY <1>b, <2>1, <2>2, <2>3
<1>20. ASSUME NEW o \in {"ok", "error"}, DrainAudits(o)
       PROVE  BodyFacts
  <2>1. pc \in {"audits", "audits_again"} /\ inp' = inp /\ iter' = iter /\ cancelRole' = cancelRole /\ done' = done
        /\ ((pc' = "wait" /\ result' = result) \/ BodyReturns(partial))
    BY <1>20 DEF DrainAudits, state, flags
  <2>2. CASE pc' = "wait" /\ result' = result
    <3>1. Goes
      BY <1>10, <2>1, <2>2, ScriptTargets, EnterGoes
    <3> QED BY <1>b, <2>1, <3>1 DEF Working
  <2>3. CASE BodyReturns(partial)
    <3>1. Ends
      BY <2>3, BodyReturnsEnds
    <3> QED BY <1>b, <2>1, <3>1 DEF Working
  <2> QED BY <2>1, <2>2, <2>3
<1>21. ASSUME NEW o \in {"ok", "error"}, Compensate(o) \/ CancelAudit(o)
       PROVE  BodyFacts
  <2>1. inp' = inp /\ iter' = iter /\ cancelRole' = cancelRole
        /\ pc \in {"compensate_cancel", "compensate_critical", "cancel_audit"}
    BY <1>21 DEF Compensate, CancelAudit, state, flags
  <2>2. CASE Compensate(o)
    <3>1. DoneTypeOK' /\ done'.branch = done.branch /\ done'.message = done.message
          /\ done'.child = done.child /\ done'.failedCritical = done.failedCritical
          /\ done'.compensations = done.compensations + 1
      BY <2>2 DEF Compensate, DoneTypeOK
    <3>2. ChainStep
      BY <2>2, <3>1 DEF Compensate, ChainStep, Finish
    <3> QED BY <2>1, <3>1, <3>2 DEF BodyFacts
  <2>3. CASE CancelAudit(o)
    <3>1. DoneTypeOK' /\ done'.branch = done.branch /\ done'.message = done.message
          /\ done'.child = done.child /\ done'.failedCritical = done.failedCritical
          /\ done'.compensations = done.compensations
      BY <2>3 DEF CancelAudit, DoneTypeOK
    <3>2. ChainStep
      BY <2>3, <3>1 DEF CancelAudit, ChainStep, Finish
    <3> QED BY <2>1, <3>1, <3>2 DEF BodyFacts
  <2> QED BY <1>21, <2>2, <2>3
<1> QED
  BY <1>1, <1>2, <1>3, <1>4, <1>5, <1>6, <1>7, <1>8, <1>9, <1>11, <1>12, <1>13,
     <1>14, <1>15, <1>16, <1>17, <1>18, <1>19, <1>20, <1>21, <1>22, <1>23, <1>25 DEF Body

-----------------------------------------------------------------------------
\* The invariant survives whatever BodyFacts allows.
LEMMA BodyKeeps ==
    ASSUME RunnerAssumption, RInv, BodyFacts
    PROVE  RInv'
<1> USE DEF RInv
<1>1. pc' \in Pcs /\ OnScript(inp'.type, pc')
  <2>1. CASE Goes
    BY <2>1 DEF Goes, BodyFacts, Working
  <2>2. CASE pc' \in {"compensate_cancel", "compensate_critical", "cancel_audit",
                     "closed"}
    BY <2>2, OffScript DEF BodyFacts, Pcs, ScriptSteps, BannerPlaces
  <2> QED BY <2>1, <2>2 DEF BodyFacts, WorkStep, CriticalStep, ChainStep, Ends
<1>2. pc' # "start"
  BY DEF BodyFacts, WorkStep, CriticalStep, ChainStep, Ends, Goes
<1>3. CapInv'
  <2>1. iter <= MAX_ITER
    BY DEF BodyFacts, CapInv
  <2>2. done'.branch <= MAX_ITER /\ done'.message <= MAX_ITER
        /\ done'.child <= MAX_ITER
    BY <2>1 DEF BodyFacts, CapInv, RunnerAssumption
  <2> QED BY <1>2, <2>1, <2>2 DEF BodyFacts, CapInv
<1>4. ChainInv'
  <2>1. CASE WorkStep
    <3>1. done'.compensations = 0 /\ ~done'.failedCritical /\ result = None
      BY <2>1 DEF WorkStep, SameChain, ChainInv
    <3>2. CASE Ends
      BY <3>1, <3>2 DEF Ends, ChainInv, Working
    <3>3. CASE Goes
      BY <3>1, <3>3 DEF Goes, ChainInv, Working
    <3> QED BY <2>1, <3>2, <3>3 DEF WorkStep
  <2>2. CASE CriticalStep
    BY <2>2 DEF CriticalStep, ChainInv, Working
  <2>3. CASE ChainStep
    BY <2>3 DEF ChainStep, ChainInv, Working
  <2> QED BY <2>1, <2>2, <2>3 DEF BodyFacts
<1> QED BY <1>1, <1>3, <1>4 DEF BodyFacts

\* The first step of the body either enters the script or turns the run away.
LEMMA RunKeeps ==
    ASSUME RunnerAssumption, RInv, NEW max_iter \in MaxIters, Run(max_iter)
    PROVE  RInv'
<1> USE DEF RInv
<1>1. inp' = inp /\ done' = done /\ cancelRole' = cancelRole /\ done = NothingDone
      /\ pc = "start" /\ inp.iteration \in Nat \ {0} /\ inp.type \in WorkflowTypes
  BY DEF Run, inputs, CapInv, Inputs, RunnerAssumption
<1>2. done.compensations = 0 /\ ~done.failedCritical /\ result = None
  BY <1>1 DEF ChainInv, Working
<1>3. CASE /\ should_advance_iter(inp.iteration - 1)
           /\ max_iter > 0 => inp.iteration - 1 < max_iter
  <2>1. iter' = inp.iteration /\ pc' = Head(Script[inp.type]) /\ result' = result
    BY <1>3 DEF Run
  <2>2. iter' <= MAX_ITER
    BY <1>1, <1>3, <2>1 DEF should_advance_iter, RunnerAssumption
  <2>3. Head(Script[inp.type]) = Script[inp.type][1]
    OBVIOUS
  <2>4. Goes
    <3>1. 1 \in 1 .. Len(Script[inp.type])
      BY <1>1, ScriptLengths
    <3> QED BY <2>1, <2>3, <3>1, EnterGoes
  <2>5. CapInv'
    BY <1>1, <2>1, <2>2, <2>4 DEF CapInv, Goes
  <2>6. ChainInv'
    BY <1>1, <1>2, <2>4 DEF ChainInv, Goes, Working
  <2> QED BY <1>1, <2>4, <2>5, <2>6 DEF Goes, Working, DoneTypeOK
<1>4. CASE ~(/\ should_advance_iter(inp.iteration - 1)
             /\ max_iter > 0 => inp.iteration - 1 < max_iter)
  <2>0. /\ iter' = inp.iteration - 1 /\ pc' = "closed"
        /\ result' = [status |-> "out_of_scope", iter_count |-> inp.iteration - 1]
    BY <1>4, Zenon DEF Run
  <2>1. iter' = inp.iteration - 1 /\ pc' = "closed" /\ result'.status = "out_of_scope"
    BY <2>0
  <2>2. CapInv'
    BY <1>1, <2>1 DEF CapInv
  <2>3. ChainInv'
    BY <1>1, <1>2, <2>1 DEF ChainInv, Working
  <2>4. pc' \in Pcs /\ OnScript(inp.type, pc')
    BY <2>1, OffScript DEF Pcs, ScriptSteps, BannerPlaces
  <2> QED BY <1>1, <2>2, <2>3, <2>4 DEF DoneTypeOK
<1> QED BY <1>3, <1>4

\* Steps that leave the script, the history and the result alone.
LEMMA OutsideKeeps ==
    ASSUME RInv, inp' = inp, done' = done, result' = result,
           cancelRole' \in Roles \union {None}, iter' \in Nat,
           iter' = iter \/ (iter' <= MAX_ITER /\ pc # "closed"),
           pc' = pc \/ (pc = "wait" /\ pc' = "host_cancelled")
    PROVE  RInv'
<1> USE DEF RInv
<1>1. pc' \in Pcs /\ OnScript(inp'.type, pc')
  <2>1. CASE pc' = pc
    BY <2>1
  <2>2. CASE pc = "wait" /\ pc' = "host_cancelled"
    BY <2>2, OffScript DEF Pcs, ScriptSteps, BannerPlaces
  <2> QED BY <2>1, <2>2
<1>2. CapInv'
  BY DEF CapInv
<1>3. ChainInv'
  <2>1. CASE pc' = pc
    BY <2>1 DEF ChainInv
  <2>2. CASE pc = "wait" /\ pc' = "host_cancelled"
    BY <2>2 DEF ChainInv, Working
  <2> QED BY <2>1, <2>2
<1> QED BY <1>1, <1>2, <1>3 DEF DoneTypeOK

\* A comment moves the counter at most up to the cap.
LEMMA AdvanceOrDenyBounds ==
    ASSUME RunnerAssumption, iter \in Nat, AdvanceOrDeny
    PROVE  iter' \in Nat /\ (iter' = iter \/ iter' <= MAX_ITER)
<1>1. iter' = iter \/ (iter < MAX_ITER /\ iter' = iter + 1)
  BY Zenon DEF AdvanceOrDeny, advance_iter, DenyAdvance, should_advance_iter
<1> QED BY <1>1 DEF RunnerAssumption

\* Comment and cancel signals keep RInv.
LEMMA SignalKeeps ==
    ASSUME RunnerAssumption, RInv, Signal
    PROVE  RInv'
<1>1. CASE \E role \in Roles : cancel_requested(role)
  BY <1>1, OutsideKeeps DEF cancel_requested, inputs, state, locals, RInv, CapInv
<1>2. iter \in Nat /\ cancelRole \in Roles \union {None}
  BY DEF RInv, CapInv
<1>3. ASSUME Listening, SignalFrame, iter' = iter \/ AdvanceOrDeny
      PROVE  RInv'
  BY <1>2, <1>3, AdvanceOrDenyBounds, OutsideKeeps
     DEF Listening, Open, SignalFrame
<1>4. CASE comment_added
  BY <1>3, <1>4 DEF comment_added
<1>5. CASE needs_info
  BY <1>3, <1>5 DEF needs_info, DenyAdvance
<1>6. ASSUME NEW diff \in Hashes \union {None}, fix_triggered(diff)
      PROVE  RInv'
  BY <1>3, <1>6 DEF fix_triggered
<1>7. ASSUME NEW diff \in Hashes \union {None}, explain_triggered(diff)
      PROVE  RInv'
  BY <1>3, <1>7 DEF explain_triggered
<1> QED BY <1>1, <1>4, <1>5, <1>6, <1>7 DEF Signal

\* Every step keeps RInv.
LEMMA RInvStep ==
    ASSUME RunnerAssumption, RInv, [Next]_vars
    PROVE  RInv'
<1>1. iter \in Nat /\ cancelRole \in Roles \union {None}
  BY DEF RInv, CapInv
<1>2. CASE Body
  <2>1. CASE \E m \in MaxIters : Run(m)
    BY <2>1, RunKeeps
  <2>2. CASE \A m \in MaxIters : ~Run(m)
    BY <1>2, <2>2, BodyStep, BodyKeeps
  <2> QED BY <2>1, <2>2
<1>3. CASE Signal
  BY <1>3, SignalKeeps
<1>4. CASE RequestCancel
  BY <1>1, <1>4, OutsideKeeps DEF RequestCancel, state, flags
<1>5. CASE FixWindowPasses
  BY <1>1, <1>5, OutsideKeeps DEF FixWindowPasses, inputs, flags
<1>6. CASE \E h \in Hashes : ExplainAnswerAges(h)
  BY <1>1, <1>6, OutsideKeeps DEF ExplainAnswerAges, inputs, flags
<1>7. CASE UNCHANGED vars
  BY <1>1, <1>7, OutsideKeeps DEF vars
<1> QED BY <1>2, <1>3, <1>4, <1>5, <1>6, <1>7 DEF Next, Terminated

\* RInv holds when the run starts.
LEMMA RInvInit ==
    ASSUME RunnerAssumption, Init
    PROVE  RInv
<1>1. pc \in Pcs /\ OnScript(inp.type, pc)
  BY OffScript DEF Init, Pcs, ScriptSteps, BannerPlaces
<1>2. DoneTypeOK
  BY DEF Init, NothingDone, DoneTypeOK
<1>3. CapInv
  BY DEF Init, NothingDone, CapInv, RunnerAssumption
<1>4. ChainInv
  BY DEF Init, NothingDone, ChainInv, Working
<1> QED BY <1>1, <1>2, <1>3, <1>4 DEF Init, RInv

\* The inductive invariant holds of every run.
THEOREM RunnerInvariant == Spec => []RInv
<1>1. Init => RInv
  BY RunnerAssumption, RInvInit
<1>2. RInv /\ [Next]_vars => RInv'
  BY RunnerAssumption, RInvStep
<1> QED BY <1>1, <1>2, PTL DEF Spec

\* _advance_iter and should_advance_iter: whatever comments, [fix] and
\* [explain] arrive, no branch, commit message or test child carries an
\* iteration over MAX_ITER, and a run started over the cap touches nothing.
THEOREM CapHolds == Spec => []WorkStaysUnderCap
<1>1. RInv => WorkStaysUnderCap
  BY RunnerAssumption DEF RInv, CapInv, WorkStaysUnderCap
<1> QED BY <1>1, RunnerInvariant, PTL

\* _handle_cancel and _handle_output_action_critical: the compensation chain
\* runs at most once, and exactly when the run ends cancelled or on a failed
\* critical output action.
THEOREM CompensatesOnce == Spec => []CompensationOnce
<1>1. RInv => CompensationOnce
  <2> SUFFICES ASSUME RInv PROVE CompensationOnce
    OBVIOUS
  <2>1. pc \in Working \/ pc \in {"compensate_critical", "compensate_cancel",
                                  "cancel_audit", "closed"}
    BY DEF RInv, Working
  <2>2. done.failedCritical \in BOOLEAN /\ done.compensations \in Nat
    BY DEF RInv, DoneTypeOK
  <2>3. CASE pc = "closed"
    BY <2>2, <2>3 DEF RInv, ChainInv, CompensationOnce
  <2>4. CASE pc # "closed"
    BY <2>1, <2>2, <2>4 DEF RInv, ChainInv, CompensationOnce
  <2> QED BY <2>3, <2>4
<1> QED BY <1>1, RunnerInvariant, PTL
-----------------------------------------------------------------------------
(* RunIsOrderly and CancelIsFinal, by a second induction inside RInv.        *)

\* The types of what RInv does not speak of.  A streak that reached its limit
\* has closed the run to comments.
TInv ==
    /\ streak \in Nat /\ streak <= NEEDS_INFO_MAX_STREAK
    /\ ~oos => streak < NEEDS_INFO_MAX_STREAK
    /\ tested \subseteq Hashes
    /\ explained \in [Hashes -> {"none", "fresh", "stale"}]
    /\ pendingExplain \in Hashes \union {None}
    /\ pendingAudits \subseteq Audits
    /\ hash \in Hashes \union {None}
    /\ fixRecent \in BOOLEAN /\ signalPending \in BOOLEAN /\ warnPending \in BOOLEAN
    /\ warned \in BOOLEAN /\ oos \in BOOLEAN /\ compensating \in BOOLEAN
    /\ partial \in BOOLEAN
    /\ reason \in Reasons \union {None}
    /\ left \in [critical : 0 .. MaxActions, best : 0 .. MaxActions]
    /\ result \in [status : Statuses, iter_count : Nat] \union {None}
    /\ hostCancel \in {"no", "pending", "swallowed"}

\* Places of a code change before its commit is made.
Unshipped == {"assign", "generate", "regenerate", "scan"}

\* Places at which something must have been done already.
Bound == Unshipped \union
         {"start", "commit", "test", "open_pr", "offload", "outputs", "banner",
          "banner_comment", "banner_audit", "audits", "wait"}

\* Places at which a run with tests may be without tests that passed.
AfterTest == {"test", "tests_failed", "compensate_cancel", "cancel_audit", "closed"}

\* What has been done when the coroutine is at a place.
PlaceInv ==
    /\ pc \notin {"start", "closed"} => iter > 0
    /\ pc \in Unshipped => done.message = 0 /\ done.child = 0 /\ ~done.committed
    /\ pc \in Unshipped \ {"assign"} => done.branch > 0
    /\ pc \in Unshipped \union {"commit", "test"} => ~done.pr /\ ~done.outputPr
    /\ done.committed /\ ~done.passed /\ inp.type = "code_change_with_test" =>
          pc \in AfterTest
    /\ pc = "commit" => done.message > 0 /\ done.scanned
    /\ pc \in {"test", "open_pr"} => done.committed
    /\ pc = "test" => hash \in Hashes
    /\ pc = "open_pr" => done.passed
    /\ pc \in {"offload", "outputs"} => left.critical + left.best > 0
    /\ pc \in {"banner", "banner_comment", "banner_audit", "audits", "wait"} =>
          signalPending

\* What holds of the history at every place.
HistoryInv ==
    /\ done.branch <= iter /\ done.message <= iter /\ done.child <= iter
    /\ ArtefactsNamedInOrder
    /\ ShippedWorkIsVetted
    /\ ~done.appliedAfterFailure
    /\ done.failedCritical /\ pc = "closed" => result.status = "failed"
    /\ done.banners = IF warned THEN 1 ELSE 0
    /\ done.cancelAudit \in {None, cancelRole}

OInv == TInv /\ PlaceInv /\ HistoryInv

\* What an await of a script comes after.
LEMMA SuccessorPlaces ==
    ASSUME NEW t \in WorkflowTypes, NEW i \in 1 .. Len(Script[t]), i < Len(Script[t])
    PROVE  /\ Script[t][i + 1] # Script[t][i]
           /\ Script[t][i + 1] \notin {"assign", "banner"}
           /\ Script[t][i + 1] = "generate" => Script[t][i] = "assign"
           /\ Script[t][i + 1] = "scan" => Script[t][i] = "generate"
           /\ Script[t][i + 1] = "commit" => Script[t][i] = "scan"
           /\ Script[t][i + 1] = "test" => Script[t][i] = "commit"
           /\ Script[t][i + 1] = "open_pr" => Script[t][i] = "test"
           /\ Script[t][i + 1] \in {"audits", "wait"} => Script[t][i] \in {"banner", "audits"}
<1>1. CASE t = "code_change_with_test"
  BY <1>1 DEF Script, code_change_common
<1>2. CASE t = "code_change_commit_only"
  BY <1>2 DEF Script, code_change_common
<1>3. CASE t = "pr_review"
  BY <1>3 DEF Script, handle_pr_review
<1>4. CASE t = "confluence_doc_create"
  BY <1>4 DEF Script, handle_confluence_doc_create
<1>5. CASE t = "confluence_doc_update"
  BY <1>5 DEF Script, handle_confluence_doc_update
<1>6. CASE t = "research_publish_confluence"
  BY <1>6 DEF Script, handle_research_publish_confluence
<1>7. CASE t = "research_summary_jira"
  BY <1>7 DEF Script, handle_research_summary_jira
<1>8. CASE t = "multi_step"
  BY <1>8 DEF Script, handle_multi_step
<1>9. CASE t = "research_basic"
  BY <1>9 DEF Script, signal_wait
<1> QED
  BY TypesListed, <1>1, <1>2, <1>3, <1>4, <1>5, <1>6, <1>7, <1>8, <1>9

Outputs == [status : Statuses, iter_count : Nat] \union {None}

\* An output of the run has its type.
LEMMA FinishTyped ==
    ASSUME iter \in Nat, NEW s \in Statuses, Finish(s)
    PROVE  pc' = "closed" /\ result' \in Outputs /\ result'.status = s
BY DEF Finish, Outputs

\* What the tail of run leaves.
LEMMA BodyReturnsTyped ==
    ASSUME RInv, TInv, NEW b, BodyReturns(b)
    PROVE  /\ pc' \in {"compensate_cancel", "closed"}
           /\ result' \in Outputs /\ compensating' \in BOOLEAN
<1>0. iter \in Nat /\ result \in Outputs /\ compensating \in BOOLEAN
  BY DEF RInv, CapInv, TInv, Outputs
<1>1. CASE cancelRole # None
  <2>1. pc' = "compensate_cancel" /\ compensating' = TRUE /\ result' = result
    BY <1>1 DEF BodyReturns
  <2> QED BY <1>0, <2>1
<1>2. CASE cancelRole = None
  <2>1. PICK s \in Statuses : Finish(s) /\ compensating' = compensating
    <3>1. CASE oos
      BY <1>2, <3>1 DEF BodyReturns, Statuses
    <3>2. CASE ~oos
      <4>1. Finish(IF b THEN "completed_with_partial_failure" ELSE "completed")
            /\ compensating' = compensating
        BY <1>2, <3>2 DEF BodyReturns
      <4> QED BY <4>1 DEF Statuses
    <3> QED BY <3>1, <3>2
  <2> QED BY <1>0, <2>1, FinishTyped
<1> QED BY <1>1, <1>2

\* Where Advance can lead.
LEMMA AdvancePlaces ==
    ASSUME RInv, TInv, NEW b, Advance(pc, b),
           pc \in Steps \ {"assign", "commit", "test", "banner", "banner_again",
                           "audits", "audits_again", "wait"}
    PROVE  /\ pc' # pc
           /\ \/ pc' \notin Bound
              \/ pc = "generate" /\ pc' = "scan"
              \/ pc = "scan" /\ pc' = "commit"
              \/ pc' = "offload" /\ left.critical + left.best > 0
           /\ hash' \in Hashes \union {None} /\ pendingExplain' \in Hashes \union {None}
           /\ compensating' \in BOOLEAN /\ result' \in Outputs
<1> DEFINE script == Script[inp.type]
<1>0. /\ hash \in Hashes \union {None} /\ pendingExplain \in Hashes \union {None}
      /\ compensating \in BOOLEAN /\ result \in Outputs /\ pc \in ScriptSteps
  BY StepsApart DEF TInv, Outputs
<1>1. inp.type \in WorkflowTypes
  BY DEF RInv, Inputs
<1>2. Position(pc) \in 1 .. Len(script) /\ script[Position(pc)] = pc
  BY DEF RInv, OnScript, Position
<1>3. CASE Position(pc) < Len(script)
  <2> DEFINE next == script[Position(pc) + 1]
  <2>1. Position(pc) + 1 \in 1 .. Len(script)
    BY <1>1, <1>2, <1>3, ScriptLengths
  <2>2. next \in Steps /\ next \in ScriptSteps
    BY <1>1, <2>1, StepsApart
  <2>3. /\ next # pc /\ next \notin {"assign", "banner", "generate", "test", "open_pr",
                                    "audits", "wait"}
        /\ next = "scan" => pc = "generate"
        /\ next = "commit" => pc = "scan"
    BY <1>1, <1>2, <1>3, SuccessorPlaces
  <2>4. EnterStep(next) /\ UNCHANGED <<result, compensating, hash, pendingExplain>>
    BY <1>3 DEF Advance
  <2>5. pc' \in {next, "token_audit"}
    BY <2>4 DEF EnterStep
  <2> HIDE DEF next
  <2>6. pc' # pc
    BY <1>0, <2>3, <2>5 DEF ScriptSteps
  <2>7. next \in Bound => next \in {"scan", "commit"}
    BY <2>2, <2>3 DEF Bound, Unshipped, ScriptSteps
  <2> QED
    BY <1>0, <2>3, <2>4, <2>5, <2>6, <2>7 DEF Bound, Unshipped
<1>4. CASE ~(Position(pc) < Len(script)) /\ inp.type = "pr_review"
  <2>1. AfterFindings(b)
    BY <1>4 DEF Advance
  <2>2. CASE pendingExplain = None
    <3>1. BodyReturns(b) /\ UNCHANGED <<hash, pendingExplain>>
      BY <2>1, <2>2 DEF AfterFindings
    <3> QED BY <1>0, <3>1, BodyReturnsTyped DEF Bound, Unshipped, ScriptSteps
  <2>3. CASE pendingExplain # None
    <3>1. /\ pc' \in {"explain_comment", "explain", "token_audit"}
          /\ UNCHANGED <<result, compensating>>
          /\ hash' = pendingExplain /\ pendingExplain' = None
      BY <2>1, <2>3 DEF AfterFindings, EnterStep
    <3> QED BY <1>0, <3>1 DEF Bound, Unshipped, ScriptSteps
  <2> QED BY <2>2, <2>3
<1>5. CASE ~(Position(pc) < Len(script)) /\ inp.type # "pr_review"
  <2>1. AfterReport(b) /\ UNCHANGED <<hash, pendingExplain>>
    BY <1>5 DEF Advance
  <2>2. CASE left.critical + left.best > 0
    <3>1. pc' = "offload" /\ UNCHANGED <<result, compensating>>
      BY <2>1, <2>2 DEF AfterReport
    <3> QED BY <1>0, <2>1, <2>2, <3>1 DEF ScriptSteps
  <2>3. CASE ~(left.critical + left.best > 0)
    <3>1. BodyReturns(b)
      BY <2>1, <2>3 DEF AfterReport
    <3> QED BY <1>0, <2>1, <3>1, BodyReturnsTyped DEF Bound, Unshipped, ScriptSteps
  <2> QED BY <2>2, <2>3
<1> QED BY <1>3, <1>4, <1>5

\* What a step may not do: change the first cancel, or count for a run that is
\* out of scope or cancelled and stays where it is.
Kept ==
    /\ cancelRole # None => cancelRole' = cancelRole
    /\ pc' = pc /\ (oos \/ cancelRole # None) =>
          UNCHANGED <<iter, streak, pendingExplain, pendingAudits>>

\* A step of the body to a place that asks for nothing, with nothing done.
LEMMA QuietMove ==
    ASSUME RInv, OInv, pc \in Working \ {"start"}, pc' \notin Bound,
           pc \in AfterTest => pc' \in AfterTest,
           UNCHANGED <<inp, iter, warned, done, cancelRole>>
    PROVE  PlaceInv' /\ HistoryInv'
<1>1. ~done.failedCritical
  BY DEF RInv, ChainInv
<1>2. PlaceInv'
  BY DEF OInv, PlaceInv, Bound, Working
<1>3. HistoryInv'
  BY <1>1 DEF OInv, HistoryInv, ArtefactsNamedInOrder, ShippedWorkIsVetted
<1> QED BY <1>2, <1>3

\* run enters the script with the edge set, or turns the run away.
LEMMA OrderRun ==
    ASSUME RunnerAssumption, RInv, OInv, NEW max_iter \in MaxIters, Run(max_iter)
    PROVE  OInv' /\ Kept
<1> USE DEF OInv, RInv
<1>a. /\ pc = "start" /\ done = NothingDone /\ inp.iteration \in Nat \ {0}
      /\ inp.type \in WorkflowTypes
  BY DEF Run, CapInv, Inputs, RunnerAssumption
<1>b. ~done.failedCritical
  BY <1>a DEF NothingDone
<1>0. /\ pc = "start" /\ done = NothingDone /\ inp.iteration \in Nat \ {0}
      /\ inp.type \in WorkflowTypes /\ ~done.failedCritical
  BY <1>a, <1>b
<1>c. UNCHANGED <<hostCancel, streak, fixRecent, tested, explained, pendingExplain,
                  pendingAudits, warned, cancelRole, compensating, partial, hash, left, done>>
  BY DEF Run, inputs, locals
<1>d. \/ /\ iter' = inp.iteration /\ signalPending' = TRUE /\ oos' = oos /\ reason' = reason
         /\ result' = result /\ pc' = Head(Script[inp.type])
         /\ warnPending' = (warnPending \/ inp.iteration >= ITER_WARNING_THRESHOLD)
      \/ /\ iter' = inp.iteration - 1 /\ oos' = TRUE /\ reason' = "max_iter_reached"
         /\ pc' = "closed" /\ warnPending' = warnPending /\ signalPending' = signalPending
         /\ result' = [status |-> "out_of_scope", iter_count |-> inp.iteration - 1]
  BY DEF Run
<1>e. Head(Script[inp.type]) = Script[inp.type][1]
  OBVIOUS
<1>1. /\ UNCHANGED <<hostCancel, streak, fixRecent, tested, explained, pendingExplain,
                     pendingAudits, warned, cancelRole, compensating, partial, hash, left, done>>
      /\ \/ iter' = inp.iteration /\ signalPending' = TRUE /\ pc' = Script[inp.type][1]
         \/ iter' = inp.iteration - 1 /\ pc' = "closed"
  BY <1>c, <1>d, <1>e
<1>2. TInv'
  <2>1. inp.iteration - 1 \in Nat
    BY <1>0
  <2>2. result' \in [status : Statuses, iter_count : Nat] \union {None}
    BY <1>d, <2>1 DEF TInv, Statuses
  <2>3. warnPending' \in BOOLEAN /\ signalPending' \in BOOLEAN /\ oos' \in BOOLEAN
    BY <1>d DEF TInv
  <2>4. reason' \in Reasons \union {None} /\ (~oos' => ~oos)
    BY <1>d DEF TInv, Reasons
  <2> QED BY <1>c, <2>2, <2>3, <2>4 DEF TInv
<1>3. pc' # "start" /\ pc' \in ScriptSteps \union {"closed"}
  <2>1. 1 \in 1 .. Len(Script[inp.type])
    BY <1>0, ScriptLengths
  <2>2. Script[inp.type][1] \in ScriptSteps
    BY <1>0, <2>1, StepsApart
  <2> QED BY <1>1, <2>2 DEF ScriptSteps
<1>4. pc' \notin {"generate", "regenerate", "scan", "commit", "test", "open_pr"}
  <2>1. Script[inp.type][1] \notin {"generate", "scan", "commit", "test", "open_pr"}
    BY <1>0, TypesListed DEF Script, code_change_common, handle_pr_review,
       handle_confluence_doc_create, handle_confluence_doc_update,
       handle_research_publish_confluence, handle_research_summary_jira, handle_multi_step,
       signal_wait
  <2> QED BY <1>1, <1>3, <2>1 DEF ScriptSteps
<1>5. PlaceInv'
  BY <1>0, <1>1, <1>3, <1>4 DEF PlaceInv, Unshipped, AfterTest, NothingDone, ScriptSteps
<1>6. HistoryInv'
  BY <1>0, <1>1 DEF HistoryInv, ArtefactsNamedInOrder, ShippedWorkIsVetted, NothingDone
<1>7. Kept
  BY <1>0, <1>1, <1>3 DEF Kept
<1> QED BY <1>2, <1>5, <1>6, <1>7

\* A step of a script: after generate comes the scan, and the commit only after
\* a scan that names the message.
LEMMA OrderSucceed ==
    ASSUME RunnerAssumption, RInv, OInv, Succeed
    PROVE  OInv' /\ Kept
<1> USE DEF OInv
<1>1. /\ UNCHANGED <<inp, iter, streak, fixRecent, tested, explained, pendingAudits, signalPending,
                     warnPending, warned, oos, reason, cancelRole, partial, left>>
      /\ hostCancel' \in {hostCancel, "swallowed"}
      /\ pc \in Steps \ {"assign", "commit", "test", "banner", "banner_again",
                         "audits", "audits_again", "wait"}
      /\ Advance(pc, partial)
      /\ pc = "scan" => done' = [done EXCEPT !.scanned = TRUE, !.message = iter]
      /\ pc = "open_pr" => done' = [done EXCEPT !.pr = TRUE]
      /\ pc \notin {"scan", "open_pr"} => done' = done
  BY DEF Succeed, Returns, state, flags
<1>2. /\ pc' # pc
      /\ \/ pc' \notin Bound
         \/ pc = "generate" /\ pc' = "scan"
         \/ pc = "scan" /\ pc' = "commit"
         \/ pc' = "offload" /\ left.critical + left.best > 0
      /\ hash' \in Hashes \union {None} /\ pendingExplain' \in Hashes \union {None}
      /\ compensating' \in BOOLEAN /\ result' \in Outputs
  BY <1>1, AdvancePlaces
<1>3. TInv'
  BY <1>1, <1>2 DEF TInv, Outputs
<1>4. Kept
  BY <1>1, <1>2 DEF Kept
<1>5. pc \in Working \ {"start"} /\ iter > 0 /\ ~done.failedCritical /\ iter \in Nat
  BY <1>1, StepsWork DEF PlaceInv, Working, RInv, ChainInv, CapInv
<1>6. CASE pc = "scan"
  <2>1. /\ done'.scanned /\ done'.message = iter
        /\ done'.branch = done.branch /\ done'.child = done.child /\ done'.pr = done.pr /\ done'.outputPr = done.outputPr
        /\ done'.committed = done.committed /\ done'.passed = done.passed
        /\ done'.banners = done.banners /\ done'.cancelAudit = done.cancelAudit
        /\ done'.failedCritical = done.failedCritical
        /\ done'.appliedAfterFailure = done.appliedAfterFailure
    BY <1>1, <1>6 DEF RInv, DoneTypeOK
  <2>2. /\ done.branch > 0 /\ done.message = 0 /\ done.child = 0 /\ ~done.committed /\ ~done.pr
        /\ done.branch \in Nat
    BY <1>6 DEF PlaceInv, Unshipped, RInv, DoneTypeOK
  <2>3. PlaceInv'
    BY <1>1, <1>2, <1>5, <1>6, <2>1, <2>2 DEF PlaceInv, Bound, Unshipped
  <2>4. HistoryInv'
    BY <1>1, <1>5, <2>1, <2>2 DEF HistoryInv, ArtefactsNamedInOrder, ShippedWorkIsVetted
  <2> QED BY <1>3, <1>4, <2>3, <2>4
<1>7. CASE pc = "open_pr"
  <2>1. /\ done'.scanned = done.scanned /\ done'.message = done.message
        /\ done'.branch = done.branch /\ done'.child = done.child /\ done'.pr
        /\ done'.committed = done.committed /\ done'.passed = done.passed
        /\ done'.banners = done.banners /\ done'.cancelAudit = done.cancelAudit
        /\ done'.failedCritical = done.failedCritical
        /\ done'.appliedAfterFailure = done.appliedAfterFailure
    BY <1>1, <1>7 DEF RInv, DoneTypeOK
  <2>2. done.committed /\ done.passed
    BY <1>7 DEF PlaceInv
  <2>3. PlaceInv'
    BY <1>1, <1>2, <1>5, <1>7, <2>1 DEF PlaceInv, Bound, Unshipped
  <2>4. HistoryInv'
    BY <1>1, <1>5, <2>1, <2>2 DEF HistoryInv, ArtefactsNamedInOrder, ShippedWorkIsVetted
  <2> QED BY <1>3, <1>4, <2>3, <2>4
<1>8. CASE pc \notin {"scan", "open_pr"}
  <2>1. done' = done
    BY <1>1, <1>8
  <2>4. pc \notin AfterTest
    BY <1>1, StepsApart DEF AfterTest, ScriptSteps
  <2>2. CASE pc' \notin Bound
    BY <1>1, <1>3, <1>4, <1>5, <2>1, <2>2, <2>4, QuietMove
  <2>3. CASE pc' \in Bound
    <3>1. PlaceInv'
      BY <1>1, <1>2, <1>5, <1>8, <2>1, <2>3, <2>4 DEF PlaceInv, Unshipped, AfterTest
    <3>2. HistoryInv'
      BY <1>1, <1>5, <2>1 DEF HistoryInv, ArtefactsNamedInOrder, ShippedWorkIsVetted
    <3> QED BY <1>3, <1>4, <3>1, <3>2
  <2> QED BY <2>2, <2>3
<1> QED BY <1>6, <1>7, <1>8

\* A best-effort await that fails only adds the partial mark.
LEMMA OrderBestEffort ==
    ASSUME RunnerAssumption, RInv, OInv, BestEffortFails
    PROVE  OInv' /\ Kept
<1> USE DEF OInv
<1>1. /\ UNCHANGED <<inp, iter, streak, fixRecent, tested, explained, pendingAudits, signalPending,
                     warnPending, warned, oos, reason, cancelRole, left, done>>
      /\ hostCancel' \in {hostCancel, "swallowed"} /\ partial' \in BOOLEAN
      /\ pc \in {"report", "post_findings", "update_sections", "scrape", "store_summary", "link"}
      /\ Advance(pc, partial')
  BY DEF BestEffortFails, BestEffort, Returns, state, flags, TInv
<1>2. pc \in Steps
  BY <1>1 DEF RInv, Pcs
<1>3. /\ pc' # pc
      /\ \/ pc' \notin Bound
         \/ pc' = "offload" /\ left.critical + left.best > 0
      /\ hash' \in Hashes \union {None} /\ pendingExplain' \in Hashes \union {None}
      /\ compensating' \in BOOLEAN /\ result' \in Outputs
  BY <1>1, <1>2, AdvancePlaces
<1>4. TInv'
  BY <1>1, <1>3 DEF TInv, Outputs
<1>5. Kept
  BY <1>1, <1>3 DEF Kept
<1>6. pc \in Working \ {"start"} /\ iter > 0 /\ ~done.failedCritical
  BY <1>1, <1>2, StepsWork DEF PlaceInv, Working, RInv, ChainInv
<1>7. CASE pc' \notin Bound
  <2>1. pc \notin AfterTest
    BY <1>1 DEF AfterTest
  <2> QED BY <1>1, <1>4, <1>5, <1>6, <1>7, <2>1, QuietMove
<1>8. CASE pc' = "offload" /\ left.critical + left.best > 0
  <2>1. PlaceInv'
    BY <1>1, <1>6, <1>8 DEF PlaceInv, Unshipped, AfterTest
  <2>2. HistoryInv'
    BY <1>1, <1>6, <1>8 DEF HistoryInv, ArtefactsNamedInOrder, ShippedWorkIsVetted
  <2> QED BY <1>4, <1>5, <2>1, <2>2
<1> QED BY <1>3, <1>7, <1>8

\* Giving up, failing and the last comments: the run leaves its script with
\* nothing done.
LEMMA OrderLeaves ==
    ASSUME RunnerAssumption, RInv, OInv,
           \/ CriticalFails \/ InputRejected \/ GiveUp \/ SubtaskFails
           \/ \E o \in {"ok", "error"} : \/ DenyAudit(o) \/ LastComment(o) \/ Explain(o)
                                         \/ TokenAudit(o) \/ EpicComment(o)
    PROVE  OInv' /\ Kept
<1> USE DEF OInv
<1>0. iter \in Nat
  BY DEF RInv, CapInv
<1>t. {"failed", "out_of_scope"} \subseteq Statuses
  BY DEF Statuses
<1>1. ASSUME pc \in Working \ {"start"}, pc' \notin Bound, pc' # pc, hostCancel' \in {hostCancel, "swallowed"},
             pc \in AfterTest => pc' \in AfterTest,
             UNCHANGED <<inp, iter, streak, fixRecent, tested, pending, warned, oos, cancelRole, hash,
                         left, done>>,
             explained' \in [Hashes -> {"none", "fresh", "stale"}],
             reason' \in Reasons \union {None}, partial' \in BOOLEAN, compensating' \in BOOLEAN,
             result' \in Outputs
      PROVE  OInv' /\ Kept
  <2>1. TInv'
    BY <1>1 DEF TInv, Outputs, pending
  <2>2. Kept
    BY <1>1 DEF Kept
  <2> QED BY <1>1, <2>1, <2>2, QuietMove
<1>2. /\ explained \in [Hashes -> {"none", "fresh", "stale"}]
      /\ reason \in Reasons \union {None} /\ partial \in BOOLEAN /\ compensating \in BOOLEAN
      /\ result \in Outputs
  BY DEF TInv, Outputs
<1>3. CASE CriticalFails
  <2>1. pc \in Critical \union {"regenerate", "offload"} /\ Returns("error") 
        /\ Fails(IF pc = "offload" /\ reason # None THEN reason ELSE "step_failed")
        /\ UNCHANGED <<inp, state, pending, warned, oos, cancelRole, locals, done>>
    BY <1>3 DEF CriticalFails
  <2>2. /\ pc' = "closed" /\ result' \in Outputs /\ reason' \in {reason, "step_failed"}
        /\ compensating' = compensating
    BY <1>0, <1>t, <2>1, FinishTyped DEF Fails
  <2>3. pc \in Working \ {"start"}
    BY <2>1 DEF RInv, Critical, LlmSteps, Working
  <2> QED
    BY <1>1, <1>2, <2>1, <2>2, <2>3 DEF state, locals, Returns, Bound, Unshipped, AfterTest, Reasons, Working
<1>4. CASE InputRejected
  <2>1. pc \in {"assign", "link", "scrape", "scan"} /\ Returns("ok") /\ Fails("step_failed")
        /\ UNCHANGED <<inp, state, pending, warned, oos, cancelRole, locals, done>>
    BY <1>4 DEF InputRejected
  <2>2. pc' = "closed" /\ result' \in Outputs /\ reason' = "step_failed" /\ compensating' = compensating
    BY <1>0, <1>t, <2>1, FinishTyped DEF Fails
  <2>3. pc \in Working \ {"start"}
    BY <2>1 DEF RInv, Working
  <2> QED
    BY <1>1, <1>2, <2>1, <2>2, <2>3 DEF state, locals, Returns, Bound, Unshipped, AfterTest, Reasons
<1>5. CASE GiveUp
  <2>1. /\ pc \in {"read_page", "scrape", "list_children", "regenerate"} /\ Returns("ok")
        /\ pc' = "giving_up" /\ reason' \in {"gave_up", reason}
        /\ partial' = (partial \/ pc = "scrape")
        /\ UNCHANGED <<inp, state, pending, warned, oos, cancelRole, compensating, hash, left, result, done>>
    BY <1>5 DEF GiveUp, MayGiveUp
  <2>2. reason' \in Reasons \union {None} /\ partial' \in BOOLEAN
    BY <1>2, <2>1 DEF Reasons
  <2>3. pc \in Working \ {"start"}
    BY <2>1 DEF RInv, Working
  <2> QED
    BY <1>1, <1>2, <2>1, <2>2, <2>3 DEF state, Returns, Bound, Unshipped, AfterTest
<1>6. CASE SubtaskFails
  <2>1. /\ pc = "subtasks" /\ Returns("error") /\ reason' = "epic_subtask_failed" /\ pc' = "epic_comment"
        /\ UNCHANGED <<inp, state, pending, warned, oos, cancelRole, compensating, locals, result, done>>
    BY <1>6 DEF SubtaskFails
  <2>3. pc \in Working \ {"start"}
    BY <2>1 DEF RInv, Working
  <2> QED
    BY <1>1, <1>2, <2>1, <2>3 DEF state, locals, Returns, Bound, Unshipped, AfterTest, Reasons
<1>7. ASSUME NEW o \in {"ok", "error"}, DenyAudit(o) PROVE OInv' /\ Kept
  <2>1. /\ pc = "deny_audit" /\ Returns(o) /\ Finish("out_of_scope")
        /\ UNCHANGED <<inp, state, pending, warned, flags, compensating, locals, done>>
    BY <1>7 DEF DenyAudit
  <2>2. pc' = "closed" /\ result' \in Outputs
    BY <1>0, <1>t, <2>1, FinishTyped
  <2>3. pc \in Working \ {"start"}
    BY <2>1 DEF RInv, Working
  <2> QED
    BY <1>1, <1>2, <2>1, <2>2, <2>3 DEF state, flags, locals, Returns, Bound, Unshipped, AfterTest
<1>8. ASSUME NEW o \in {"ok", "error"}, TokenAudit(o) PROVE OInv' /\ Kept
  <2>1. /\ pc = "token_audit" /\ Returns(o) /\ Fails("token_cap_exceeded")
        /\ UNCHANGED <<inp, state, pending, warned, oos, cancelRole, locals, done>>
    BY <1>8 DEF TokenAudit
  <2>2. /\ pc' = "closed" /\ result' \in Outputs /\ reason' = "token_cap_exceeded"
        /\ compensating' = compensating
    BY <1>0, <1>t, <2>1, FinishTyped DEF Fails
  <2>3. pc \in Working \ {"start"}
    BY <2>1 DEF RInv, Working
  <2> QED
    BY <1>1, <1>2, <2>1, <2>2, <2>3 DEF state, locals, Returns, Bound, Unshipped, AfterTest, Reasons
<1>9. ASSUME NEW o \in {"ok", "error"}, EpicComment(o) PROVE OInv' /\ Kept
  <2>1. /\ pc = "epic_comment" /\ Returns(o) /\ Finish("failed")
        /\ partial' = (partial \/ o = "error")
        /\ UNCHANGED <<inp, state, pending, warned, flags, compensating, hash, left, done>>
    BY <1>9 DEF EpicComment
  <2>2. pc' = "closed" /\ result' \in Outputs
    BY <1>0, <1>t, <2>1, FinishTyped
  <2>3. pc \in Working \ {"start"} /\ partial' \in BOOLEAN
    BY <1>2, <2>1 DEF RInv, Working
  <2> QED
    BY <1>1, <1>2, <2>1, <2>2, <2>3 DEF state, flags, Returns, Bound, Unshipped, AfterTest
<1>10. ASSUME NEW o \in {"ok", "error"}, LastComment(o) PROVE OInv' /\ Kept
  <2>1. /\ pc \in {"giving_up", "tests_failed", "explain_comment"} /\ Returns(o)
        /\ reason' \in {"gave_up", reason} /\ partial' = (partial \/ o = "error")
        /\ BodyReturns(partial')
        /\ UNCHANGED <<inp, state, pending, warned, oos, cancelRole, hash, left, done>>
    BY <1>10 DEF LastComment
  <2>2. pc' \in {"compensate_cancel", "closed"} /\ result' \in Outputs /\ compensating' \in BOOLEAN
    BY <2>1, BodyReturnsTyped
  <2>3. pc \in Working \ {"start"} /\ partial' \in BOOLEAN /\ reason' \in Reasons \union {None}
    BY <1>2, <2>1 DEF RInv, Working, Reasons
  <2> QED
    BY <1>1, <1>2, <2>1, <2>2, <2>3 DEF state, Returns, Bound, Unshipped, AfterTest
<1>11. ASSUME NEW o \in {"ok", "error"}, Explain(o) PROVE OInv' /\ Kept
  <2>1. /\ pc = "explain" /\ Returns(o)
        /\ UNCHANGED <<inp, iter, streak, fixRecent, tested, pending, warned, flags, hash, left, done>>
        /\ \/ /\ explained' = [explained EXCEPT ![hash] = "fresh"] /\ pc' = "explain_comment"
              /\ UNCHANGED <<partial, result, compensating>>
           \/ partial' = TRUE /\ BodyReturns(TRUE) /\ UNCHANGED explained
    BY <1>11 DEF Explain
  <2>2. /\ pc' \in {"compensate_cancel", "closed", "explain_comment"} /\ result' \in Outputs
        /\ compensating' \in BOOLEAN /\ partial' \in BOOLEAN
    <3>1. CASE partial' = TRUE /\ BodyReturns(TRUE)
      BY <3>1, BodyReturnsTyped
    <3>2. CASE pc' = "explain_comment" /\ UNCHANGED <<partial, result, compensating>>
      BY <1>2, <3>2
    <3> QED BY <2>1, <3>1, <3>2
  <2>3. explained' \in [Hashes -> {"none", "fresh", "stale"}]
    BY <1>2, <2>1
  <2>4. pc \in Working \ {"start"}
    BY <2>1 DEF RInv, Working
  <2> QED
    BY <1>1, <1>2, <2>1, <2>2, <2>3, <2>4 DEF flags, Returns, Bound, Unshipped, AfterTest
<1> QED
  BY <1>3, <1>4, <1>5, <1>6, <1>7, <1>8, <1>9, <1>10, <1>11

\* The second await of each script.
LEMMA SecondPlace ==
    ASSUME NEW t \in WorkflowTypes
    PROVE  /\ t \in CodeChange => Script[t][2] = "generate"
           /\ Script[t][1] = "assign" /\ t \notin CodeChange => Script[t][2] \notin Bound
           /\ 2 \in 1 .. Len(Script[t])
<1>1. CASE t = "code_change_with_test"
  BY <1>1 DEF Script, CodeChange, Bound, Unshipped, code_change_common
<1>2. CASE t = "code_change_commit_only"
  BY <1>2 DEF Script, CodeChange, Bound, Unshipped, code_change_common
<1>3. CASE t = "pr_review"
  BY <1>3 DEF Script, CodeChange, Bound, Unshipped, handle_pr_review
<1>4. CASE t = "confluence_doc_create"
  BY <1>4 DEF Script, CodeChange, Bound, Unshipped, handle_confluence_doc_create
<1>5. CASE t = "confluence_doc_update"
  BY <1>5 DEF Script, CodeChange, Bound, Unshipped, handle_confluence_doc_update
<1>6. CASE t = "research_publish_confluence"
  BY <1>6 DEF Script, CodeChange, Bound, Unshipped, handle_research_publish_confluence
<1>7. CASE t = "research_summary_jira"
  BY <1>7 DEF Script, CodeChange, Bound, Unshipped, handle_research_summary_jira
<1>8. CASE t = "multi_step"
  BY <1>8 DEF Script, CodeChange, Bound, Unshipped, handle_multi_step
<1>9. CASE t = "research_basic"
  BY <1>9 DEF Script, CodeChange, Bound, Unshipped, signal_wait
<1> QED
  BY TypesListed, <1>1, <1>2, <1>3, <1>4, <1>5, <1>6, <1>7, <1>8, <1>9

\* Only the first await of a script is the assignment.
LEMMA AssignFirst ==
    ASSUME NEW t \in WorkflowTypes, NEW i \in 1 .. Len(Script[t]), Script[t][i] = "assign"
    PROVE  Script[t][1] = "assign"
<1>1. CASE i = 1
  BY <1>1
<1>2. CASE i # 1
  <2>1. i - 1 \in 1 .. Len(Script[t]) /\ i - 1 < Len(Script[t]) /\ (i - 1) + 1 = i
    BY <1>2, ScriptLengths
  <2> QED BY <2>1, SuccessorPlaces
<1> QED BY <1>1, <1>2

\* set_assignee_to_bot: a code change names its branch before anything else.
LEMMA OrderAssign ==
    ASSUME RunnerAssumption, RInv, OInv, Assign
    PROVE  OInv' /\ Kept
<1> USE DEF OInv
<1>1. /\ UNCHANGED <<inp, iter, streak, fixRecent, tested, explained, pendingExplain, pendingAudits,
                     signalPending, warnPending, warned, cancelRole, compensating, partial, hash,
                     left, result>>
      /\ hostCancel' \in {hostCancel, "swallowed"}
      /\ pc = "assign"
      /\ \/ /\ oos' = TRUE /\ reason' = "branch_rule_denied" /\ pc' = "deny_audit" /\ done' = done
         \/ /\ oos' = oos /\ reason' = reason /\ EnterStep(Script[inp.type][2])
            /\ done' = IF inp.type \in CodeChange THEN [done EXCEPT !.branch = iter] ELSE done
  BY DEF Assign, Returns, state, pending, locals
<1>2. TInv'
  <2>1. \/ oos' = TRUE /\ reason' = "branch_rule_denied"
        \/ oos' = oos /\ reason' = reason
    BY <1>1
  <2>2. oos' \in BOOLEAN /\ (~oos' => ~oos)
    BY <2>1 DEF TInv
  <2>3. reason' \in Reasons \union {None}
    BY <2>1 DEF TInv, Reasons
  <2> QED BY <1>1, <2>2, <2>3 DEF TInv
<1>3. /\ inp.type \in WorkflowTypes /\ iter > 0 /\ iter \in Nat /\ pc \in Working \ {"start"}
      /\ ~done.failedCritical
  BY <1>1 DEF RInv, Inputs, CapInv, PlaceInv, ChainInv, Working
<1>4. Script[inp.type][1] = "assign"
  <2>1. "assign" \in Steps
    BY <1>1 DEF RInv, Pcs
  <2> QED BY <1>1, <1>3, <2>1, AssignFirst DEF RInv, OnScript
<1>5. CASE pc' = "deny_audit" /\ done' = done
  BY <1>1, <1>2, <1>3, <1>5, QuietMove DEF Kept, Bound, Unshipped, AfterTest
<1>6. CASE EnterStep(Script[inp.type][2]) /\ inp.type \notin CodeChange /\ done' = done
  <2>1. pc' \in {Script[inp.type][2], "token_audit"}
    BY <1>6 DEF EnterStep
  <2>2. pc' \notin Bound
    BY <1>3, <1>4, <1>6, <2>1, SecondPlace DEF Bound, Unshipped
  <2>3. PlaceInv' /\ HistoryInv'
    BY <1>1, <1>3, <1>6, <2>2, QuietMove DEF AfterTest
  <2>4. pc' # pc
    BY <1>1, <2>2 DEF Bound, Unshipped
  <2> QED BY <1>1, <1>2, <2>3, <2>4 DEF Kept
<1>7. CASE EnterStep(Script[inp.type][2]) /\ inp.type \in CodeChange
           /\ done' = [done EXCEPT !.branch = iter]
  <2>1. pc' \in {"generate", "token_audit"}
    BY <1>3, <1>7, SecondPlace DEF EnterStep
  <2>2. /\ done'.branch = iter /\ done'.message = done.message /\ done'.child = done.child
        /\ done'.pr = done.pr /\ done'.outputPr = done.outputPr /\ done'.scanned = done.scanned
        /\ done'.committed = done.committed /\ done'.passed = done.passed
        /\ done'.banners = done.banners /\ done'.cancelAudit = done.cancelAudit
        /\ done'.failedCritical = done.failedCritical
        /\ done'.appliedAfterFailure = done.appliedAfterFailure
    BY <1>7 DEF RInv, DoneTypeOK
  <2>3. done.message = 0 /\ done.child = 0 /\ ~done.committed /\ ~done.pr
    BY <1>1 DEF PlaceInv, Unshipped, AfterTest
  <2>4. PlaceInv'
    BY <1>1, <1>3, <2>1, <2>2, <2>3 DEF PlaceInv, Unshipped, AfterTest
  <2>5. HistoryInv'
    BY <1>1, <1>3, <2>2, <2>3 DEF HistoryInv, ArtefactsNamedInOrder, ShippedWorkIsVetted
  <2> QED BY <1>1, <1>2, <2>1, <2>4, <2>5 DEF Kept
<1> QED BY <1>1, <1>5, <1>6, <1>7

\* The second generation goes on to the scan, the offload to the output actions.
LEMMA OrderGoesOn ==
    ASSUME RunnerAssumption, RInv, OInv, Regenerate \/ RegenerateSucceeds \/ Offload
    PROVE  OInv' /\ Kept
<1> USE DEF OInv
<1>1. /\ UNCHANGED <<inp, iter, streak, fixRecent, tested, explained, pendingExplain, pendingAudits,
                     signalPending, warnPending, warned, oos, reason, cancelRole, compensating,
                     partial, hash, left, result, done>>
      /\ hostCancel' \in {hostCancel, "swallowed"}
      /\ \/ pc = "generate" /\ pc' \in {"regenerate", "token_audit"}
         \/ pc = "regenerate" /\ pc' = "scan"
         \/ pc = "offload" /\ pc' = "outputs"
  BY DEF Regenerate, RegenerateSucceeds, Offload, Returns, state, pending, flags, locals
<1>2. TInv'
  BY <1>1 DEF TInv
<1>3. PlaceInv'
  BY <1>1 DEF PlaceInv, Unshipped, AfterTest
<1>4. HistoryInv'
  BY <1>1 DEF HistoryInv, ArtefactsNamedInOrder, ShippedWorkIsVetted
<1> QED BY <1>1, <1>2, <1>3, <1>4 DEF Kept

\* What comes after the commit.
LEMMA AfterCommit ==
    ASSUME NEW t \in CodeChange
    PROVE  \A i \in 1 .. Len(Script[t]) : Script[t][i] = "commit" =>
              /\ Script[t][i + 1] \in {"test", "report"}
              /\ t = "code_change_with_test" => Script[t][i + 1] = "test"
<1>1. CASE t = "code_change_with_test"
  BY <1>1 DEF Script, code_change_common
<1>2. CASE t = "code_change_commit_only"
  BY <1>2 DEF Script, code_change_common
<1> QED BY <1>1, <1>2 DEF CodeChange

\* The commit: scanned by now, and its child is named no earlier than it.
LEMMA OrderCommit ==
    ASSUME RunnerAssumption, RInv, OInv, NEW h \in Hashes, Commit(h)
    PROVE  OInv' /\ Kept
<1> USE DEF OInv
<1>1. /\ UNCHANGED <<inp, iter, streak, fixRecent, tested, explained, pendingExplain, pendingAudits,
                     signalPending, warnPending, warned, oos, reason, cancelRole, compensating,
                     partial, left, result>>
      /\ hostCancel' \in {hostCancel, "swallowed"}
      /\ pc = "commit" /\ hash' = h
      /\ EnterStep(Script[inp.type][Position("commit") + 1])
      /\ done' = [done EXCEPT !.committed = TRUE,
                              !.child = IF inp.type = "code_change_with_test" THEN iter ELSE 0]
  BY DEF Commit, Returns, state, pending, flags
<1>2. TInv'
  BY <1>1 DEF TInv
<1>3. /\ pc' \in {"test", "report"}
      /\ inp.type = "code_change_with_test" => pc' = "test"
  <2>1. inp.type \in WorkflowTypes /\ "commit" \in Steps
    BY <1>1 DEF RInv, Inputs, Pcs
  <2>2. Position("commit") \in 1 .. Len(Script[inp.type]) /\ Script[inp.type][Position("commit")] = "commit"
    BY <1>1, <2>1 DEF RInv, OnScript, Position
  <2>3. inp.type \in CodeChange
    BY <2>1, <2>2, ScriptPlaces
  <2> QED BY <1>1, <2>2, <2>3, AfterCommit DEF EnterStep, LlmSteps
<1>4. /\ done'.committed /\ done'.child \in {iter, 0}
      /\ done'.branch = done.branch /\ done'.message = done.message
      /\ done'.pr = done.pr /\ done'.outputPr = done.outputPr /\ done'.scanned = done.scanned /\ done'.passed = done.passed
      /\ done'.banners = done.banners /\ done'.cancelAudit = done.cancelAudit
      /\ done'.failedCritical = done.failedCritical
      /\ done'.appliedAfterFailure = done.appliedAfterFailure
  BY <1>1 DEF RInv, DoneTypeOK
<1>5. done.message > 0 /\ done.scanned /\ ~done.pr /\ iter > 0 /\ iter \in Nat
  BY <1>1 DEF PlaceInv, RInv, CapInv
<1>6. PlaceInv'
  BY <1>1, <1>3, <1>4, <1>5 DEF PlaceInv, Unshipped, AfterTest
<1>7. HistoryInv'
  BY <1>1, <1>3, <1>4, <1>5 DEF HistoryInv, ArtefactsNamedInOrder, ShippedWorkIsVetted
<1> QED BY <1>1, <1>2, <1>3, <1>6, <1>7 DEF Kept

\* The test child: a pull request is only reached with the tests passed.
LEMMA OrderTest ==
    ASSUME RunnerAssumption, RInv, OInv, NEW o \in {"ok", "error"}, Test(o)
    PROVE  OInv' /\ Kept
<1> USE DEF OInv
<1>1. /\ UNCHANGED <<inp, iter, streak, fixRecent, explained, pendingExplain, pendingAudits,
                     signalPending, warnPending, warned, oos, reason, cancelRole, compensating,
                     partial, hash, left, result>>
      /\ hostCancel' \in {hostCancel, "swallowed"}
      /\ pc = "test" /\ tested' = tested \union {hash}
      /\ pc' = IF o = "ok" THEN "open_pr" ELSE "tests_failed"
      /\ done' = [done EXCEPT !.passed = (o = "ok")]
  BY DEF Test, Returns, pending, flags, locals
<1>2. TInv'
  <2>1. tested' \subseteq Hashes
    BY <1>1 DEF TInv, PlaceInv
  <2> QED BY <1>1, <2>1 DEF TInv
<1>3. /\ done'.passed = (o = "ok") /\ done'.committed = done.committed /\ done'.child = done.child
      /\ done'.branch = done.branch /\ done'.message = done.message
      /\ done'.pr = done.pr /\ done'.outputPr = done.outputPr /\ done'.scanned = done.scanned
      /\ done'.banners = done.banners /\ done'.cancelAudit = done.cancelAudit
      /\ done'.failedCritical = done.failedCritical
      /\ done'.appliedAfterFailure = done.appliedAfterFailure
  BY <1>1 DEF RInv, DoneTypeOK
<1>4. ~done.pr /\ ~done.outputPr /\ done.committed /\ iter > 0
  BY <1>1 DEF PlaceInv
<1>5. PlaceInv'
  BY <1>1, <1>3, <1>4 DEF PlaceInv, Unshipped, AfterTest
<1>6. HistoryInv'
  BY <1>1, <1>3, <1>4 DEF HistoryInv, ArtefactsNamedInOrder, ShippedWorkIsVetted
<1> QED BY <1>1, <1>2, <1>5, <1>6 DEF Kept

\* A critical output action: none has failed before, and a failure goes to the
\* compensation chain.
LEMMA OrderCritical ==
    ASSUME RunnerAssumption, RInv, OInv, NEW o \in {"ok", "error"},
           NEW k \in OutputKinds, CriticalOutput(o, k)
    PROVE  OInv' /\ Kept
<1> USE DEF OInv
<1>1. /\ UNCHANGED <<inp, iter, streak, fixRecent, tested, explained, pendingExplain, pendingAudits,
                     signalPending, warnPending, warned, oos, cancelRole, partial, hash>>
      /\ hostCancel' \in {hostCancel, "swallowed"}
      /\ pc = "outputs" /\ left.critical > 0
      /\ left' = [left EXCEPT !.critical = left.critical - 1]
      /\ done' = [done EXCEPT !.failedCritical = (o = "error"),
                              !.appliedAfterFailure = done.failedCritical,
                              !.outputPr = (done.outputPr \/ (k = "own_pr" /\ o = "ok"))]
      /\ k = "own_pr" /\ o = "ok" => done.committed
      /\ \/ /\ reason' = "output_action_critical_failed" /\ pc' = "compensate_critical"
            /\ compensating' = TRUE /\ result' = result
         \/ /\ o # "error" /\ reason' = reason
            /\ left.critical + left.best - 1 = 0 /\ BodyReturns(partial)
         \/ /\ o # "error" /\ reason' = reason
            /\ pc' = "outputs" => left.critical + left.best - 1 # 0
            /\ pc' \in {"outputs", "pr_comment"} /\ UNCHANGED <<result, compensating>>
  BY DEF CriticalOutput, CriticalRefusal, AfterOutput, refused, Returns, state, pending
<1>2. left.critical \in 1 .. MaxActions /\ left.best \in 0 .. MaxActions /\ MaxActions \in Nat
  BY <1>1 DEF TInv, RunnerAssumption
<1>3. /\ left' \in [critical : 0 .. MaxActions, best : 0 .. MaxActions]
      /\ left'.critical = left.critical - 1 /\ left'.best = left.best
  BY <1>1, <1>2 DEF TInv
<1>4. /\ pc' \in {"compensate_critical", "compensate_cancel", "closed", "outputs",
                "pr_comment"}
      /\ compensating' \in BOOLEAN /\ result' \in Outputs
      /\ pc' = "outputs" => left.critical + left.best - 1 # 0
  <2>0. compensating \in BOOLEAN /\ result \in Outputs
    BY DEF TInv, Outputs
  <2>1. CASE BodyReturns(partial)
    BY <2>1, BodyReturnsTyped
  <2>2. CASE ~BodyReturns(partial)
    BY <1>1, <2>0, <2>2
  <2> QED BY <2>1, <2>2
<1>5. TInv'
  <2>1. reason' \in Reasons \union {None}
    BY <1>1 DEF TInv, Reasons
  <2> QED BY <1>1, <1>3, <1>4, <2>1 DEF TInv, Outputs
<1>6. ~done.failedCritical /\ iter > 0
  BY <1>1 DEF RInv, ChainInv, Working, PlaceInv
<1>7. /\ done'.passed = done.passed /\ done'.committed = done.committed /\ done'.child = done.child
      /\ done'.branch = done.branch /\ done'.message = done.message
      /\ done'.pr = done.pr /\ done'.outputPr = (done.outputPr \/ (k = "own_pr" /\ o = "ok"))
      /\ done'.scanned = done.scanned
      /\ done'.banners = done.banners /\ done'.cancelAudit = done.cancelAudit
      /\ ~done'.appliedAfterFailure
      /\ done'.failedCritical => o = "error"
  BY <1>1, <1>6 DEF RInv, DoneTypeOK
<1>8. pc' = "outputs" => left'.critical + left'.best > 0
  BY <1>2, <1>3, <1>4
<1>9. PlaceInv'
  BY <1>1, <1>4, <1>6, <1>7, <1>8 DEF PlaceInv, Unshipped, AfterTest
<1>10. pc' = "closed" => ~done'.failedCritical
  BY <1>1, <1>7
<1>12. done'.outputPr => /\ done'.committed
                         /\ inp.type = "code_change_with_test" => done'.passed
  BY <1>1, <1>7 DEF HistoryInv, ShippedWorkIsVetted, PlaceInv, AfterTest
<1>11. HistoryInv'
  BY <1>1, <1>7, <1>10, <1>12 DEF HistoryInv, ArtefactsNamedInOrder, ShippedWorkIsVetted
<1> QED BY <1>1, <1>5, <1>9, <1>11 DEF Kept

\* The comment on an opened pull request goes on to the next action or ends.
LEMMA OrderPrComment ==
    ASSUME RunnerAssumption, RInv, OInv, NEW o \in {"ok", "error"}, PrComment(o)
    PROVE  OInv' /\ Kept
<1> USE DEF OInv
<1>1. /\ UNCHANGED <<inp, iter, streak, fixRecent, tested, explained, pendingExplain, pendingAudits,
                     signalPending, warnPending, warned, oos, reason, cancelRole, hash, left, done>>
      /\ hostCancel' \in {hostCancel, "swallowed"}
      /\ pc = "pr_comment" /\ partial' = (partial \/ o = "error")
      /\ \/ BodyReturns(partial')
         \/ /\ left.critical + left.best # 0 /\ pc' = "outputs"
            /\ UNCHANGED <<result, compensating>>
  BY DEF PrComment, AfterOutput, Returns, state, pending, flags
<1>2. left.critical \in Nat /\ left.best \in Nat
  BY DEF TInv, RunnerAssumption
<1>3. /\ pc' \in {"compensate_cancel", "closed", "outputs"}
      /\ compensating' \in BOOLEAN /\ result' \in Outputs
      /\ pc' = "outputs" => left.critical + left.best > 0
  <2>0. compensating \in BOOLEAN /\ result \in Outputs
    BY DEF TInv, Outputs
  <2>1. CASE BodyReturns(partial')
    BY <2>1, BodyReturnsTyped
  <2>2. CASE ~BodyReturns(partial')
    BY <1>1, <1>2, <2>0, <2>2
  <2> QED BY <2>1, <2>2
<1>4. TInv'
  <2>1. partial' \in BOOLEAN
    BY <1>1 DEF TInv
  <2> QED BY <1>1, <1>3, <2>1 DEF TInv, Outputs
<1>5. ~done.failedCritical /\ iter > 0
  BY <1>1 DEF RInv, ChainInv, Working, PlaceInv, Pcs
<1>6. PlaceInv'
  BY <1>1, <1>3, <1>5 DEF PlaceInv, Unshipped, AfterTest
<1>7. HistoryInv'
  BY <1>1, <1>5 DEF HistoryInv, ArtefactsNamedInOrder, ShippedWorkIsVetted
<1> QED BY <1>1, <1>3, <1>4, <1>6, <1>7 DEF Kept

\* A rejected partition applies nothing and goes to the compensation chain.
LEMMA OrderPartition ==
    ASSUME RunnerAssumption, RInv, OInv, PartitionRejects
    PROVE  OInv' /\ Kept
<1> USE DEF OInv
<1>1. /\ UNCHANGED <<inp, iter, streak, fixRecent, tested, explained, pendingExplain, pendingAudits,
                     signalPending, warnPending, warned, oos, cancelRole, partial, hash, left, result>>
      /\ hostCancel' \in {hostCancel, "swallowed"}
      /\ pc = "offload" /\ pc' = "compensate_critical" /\ compensating' = TRUE
      /\ reason' = "output_action_critical_failed"
      /\ done' = [done EXCEPT !.failedCritical = TRUE]
  BY DEF PartitionRejects, CriticalRefusal, Returns, state, pending, locals
<1>2. TInv'
  BY <1>1 DEF TInv, Reasons
<1>3. /\ done'.passed = done.passed /\ done'.committed = done.committed /\ done'.child = done.child
      /\ done'.branch = done.branch /\ done'.message = done.message
      /\ done'.pr = done.pr /\ done'.outputPr = done.outputPr /\ done'.scanned = done.scanned
      /\ done'.banners = done.banners /\ done'.cancelAudit = done.cancelAudit
      /\ done'.appliedAfterFailure = done.appliedAfterFailure
  BY <1>1 DEF RInv, DoneTypeOK
<1>4. PlaceInv'
  BY <1>1, <1>3 DEF PlaceInv, Unshipped, AfterTest
<1>5. HistoryInv'
  BY <1>1, <1>3 DEF HistoryInv, ArtefactsNamedInOrder, ShippedWorkIsVetted
<1> QED BY <1>1, <1>2, <1>4, <1>5 DEF Kept

\* A best-effort output action is applied only while no critical one failed.
LEMMA OrderBestOutput ==
    ASSUME RunnerAssumption, RInv, OInv, NEW o \in {"ok", "error"}, BestEffortOutput(o)
    PROVE  OInv' /\ Kept
<1> USE DEF OInv
<1>1. /\ UNCHANGED <<inp, iter, streak, fixRecent, tested, explained, pendingExplain, pendingAudits,
                     signalPending, warnPending, warned, oos, reason, cancelRole, hash>>
      /\ hostCancel' \in {hostCancel, "swallowed"}
      /\ pc = "outputs" /\ left.critical = 0
      /\ left' = [left EXCEPT !.best = left.best - 1]
      /\ partial' = (partial \/ o = "error")
      /\ done' = [done EXCEPT !.appliedAfterFailure = done.failedCritical]
      /\ \/ left.best - 1 = 0 /\ BodyReturns(partial')
         \/ left.best - 1 # 0 /\ pc' = "outputs" /\ UNCHANGED <<result, compensating>>
  BY DEF BestEffortOutput, AfterOutput, Returns, state, pending, flags
<1>2. left.best \in 1 .. MaxActions /\ MaxActions \in Nat
  BY <1>1 DEF TInv, RunnerAssumption, PlaceInv
<1>3. /\ left' \in [critical : 0 .. MaxActions, best : 0 .. MaxActions]
      /\ left'.critical = 0 /\ left'.best = left.best - 1
  BY <1>1, <1>2 DEF TInv
<1>4. /\ pc' \in {"compensate_cancel", "closed", "outputs"}
      /\ compensating' \in BOOLEAN /\ result' \in Outputs
      /\ pc' = "outputs" => left.best - 1 # 0
  <2>0. compensating \in BOOLEAN /\ result \in Outputs
    BY DEF TInv, Outputs
  <2>1. CASE BodyReturns(partial')
    BY <2>1, BodyReturnsTyped
  <2>2. CASE ~BodyReturns(partial')
    BY <1>1, <2>0, <2>2
  <2> QED BY <2>1, <2>2
<1>5. TInv'
  <2>1. partial' \in BOOLEAN
    BY <1>1 DEF TInv
  <2> QED BY <1>1, <1>3, <1>4, <2>1 DEF TInv, Outputs
<1>6. ~done.failedCritical /\ iter > 0
  BY <1>1 DEF RInv, ChainInv, Working, PlaceInv
<1>7. /\ done'.passed = done.passed /\ done'.committed = done.committed /\ done'.child = done.child
      /\ done'.branch = done.branch /\ done'.message = done.message
      /\ done'.pr = done.pr /\ done'.outputPr = done.outputPr /\ done'.scanned = done.scanned
      /\ done'.banners = done.banners /\ done'.cancelAudit = done.cancelAudit
      /\ ~done'.appliedAfterFailure /\ ~done'.failedCritical
  BY <1>1, <1>6 DEF RInv, DoneTypeOK
<1>8. pc' = "outputs" => left'.critical + left'.best > 0
  BY <1>2, <1>3, <1>4
<1>9. PlaceInv'
  BY <1>1, <1>4, <1>6, <1>7, <1>8 DEF PlaceInv, Unshipped, AfterTest
<1>10. HistoryInv'
  BY <1>1, <1>7 DEF HistoryInv, ArtefactsNamedInOrder, ShippedWorkIsVetted
<1> QED BY <1>1, <1>5, <1>9, <1>10 DEF Kept

\* The banner is remembered before it is posted, so it is posted once.
LEMMA OrderBanner ==
    ASSUME RunnerAssumption, RInv, OInv, Banner
    PROVE  OInv' /\ Kept
<1> USE DEF OInv
<1> DEFINE post == warnPending /\ ~warned /\ iter >= ITER_WARNING_THRESHOLD
<1>1. /\ UNCHANGED <<inp, iter, streak, fixRecent, tested, explained, pendingExplain, pendingAudits,
                     signalPending, oos, reason, cancelRole, compensating, partial, hash, left, result>>
      /\ hostCancel' = hostCancel
      /\ \/ pc = "banner" /\ pc' \in {"banner_comment", "audits"}
         \/ pc = "banner_again" /\ pc' \in {"banner_comment_again", "audits_again"}
      /\ warned' = (warned \/ post) /\ warnPending' = FALSE
      /\ done' = [done EXCEPT !.banners = IF post THEN done.banners + 1 ELSE done.banners]
  BY DEF Banner, inputs, state, flags, locals
<1>2. TInv'
  <2>1. warned' \in BOOLEAN /\ warnPending' \in BOOLEAN
    BY <1>1 DEF TInv
  <2> QED BY <1>1, <2>1 DEF TInv
<1>3. /\ done'.passed = done.passed /\ done'.committed = done.committed /\ done'.child = done.child
      /\ done'.branch = done.branch /\ done'.message = done.message
      /\ done'.pr = done.pr /\ done'.outputPr = done.outputPr /\ done'.scanned = done.scanned
      /\ done'.banners = (IF post THEN done.banners + 1 ELSE done.banners)
      /\ done'.cancelAudit = done.cancelAudit
      /\ done'.appliedAfterFailure = done.appliedAfterFailure
      /\ done'.failedCritical = done.failedCritical
  BY <1>1 DEF RInv, DoneTypeOK
<1>4. done'.banners = IF warned' THEN 1 ELSE 0
  <2>1. warned \in BOOLEAN /\ done.banners = IF warned THEN 1 ELSE 0
    BY DEF TInv, HistoryInv
  <2>2. CASE warned
    BY <1>1, <1>3, <2>1, <2>2
  <2>3. CASE ~warned /\ post
    <3>1. warned' = TRUE
      BY <1>1, <2>3
    <3>2. done'.banners = done.banners + 1
      BY <1>3, <2>3
    <3>3. done.banners = 0
      BY <2>1, <2>3
    <3> HIDE DEF post
    <3> QED BY <3>1, <3>2, <3>3
  <2>4. CASE ~warned /\ ~post
    <3>1. warned' = FALSE /\ done'.banners = done.banners
      BY <1>1, <1>3, <2>4
    <3> QED BY <2>1, <2>4, <3>1
  <2> QED BY <2>1, <2>2, <2>3, <2>4
<1> HIDE DEF post
<1>5. iter > 0 /\ ~done.failedCritical
  BY <1>1 DEF PlaceInv, RInv, ChainInv, Working
<1>6. PlaceInv'
  BY <1>1, <1>3, <1>5 DEF PlaceInv, Unshipped, AfterTest
<1>7. HistoryInv'
  BY <1>1, <1>3, <1>4, <1>5 DEF HistoryInv, ArtefactsNamedInOrder, ShippedWorkIsVetted
<1> QED BY <1>1, <1>2, <1>6, <1>7 DEF Kept

\* The banner's comment and audit row.
LEMMA OrderBannerPosted ==
    ASSUME RunnerAssumption, RInv, OInv, NEW o \in {"ok", "error"}, BannerPosted(o)
    PROVE  OInv' /\ Kept
<1> USE DEF OInv
<1>1. /\ UNCHANGED <<inp, iter, streak, fixRecent, tested, explained, pendingExplain, pendingAudits,
                     signalPending, warnPending, warned, oos, reason, cancelRole, compensating,
                     partial, hash, left, result, done>>
      /\ hostCancel' \in {hostCancel, "swallowed"}
      /\ \/ pc = "banner_comment" /\ pc' = "banner_audit"
         \/ pc = "banner_audit" /\ pc' = "audits"
         \/ pc = "banner_comment_again" /\ pc' = "banner_audit_again"
         \/ pc = "banner_audit_again" /\ pc' = "audits_again"
  BY DEF BannerPosted, Returns, state, pending, flags, locals
<1>2. TInv'
  BY <1>1 DEF TInv
<1>3. PlaceInv'
  BY <1>1 DEF PlaceInv, Unshipped, AfterTest
<1>4. HistoryInv'
  BY <1>1 DEF HistoryInv, ArtefactsNamedInOrder, ShippedWorkIsVetted
<1> QED BY <1>1, <1>2, <1>3, <1>4 DEF Kept

\* The audits are drained on the way to the wait and once more behind it.
LEMMA OrderDrain ==
    ASSUME RunnerAssumption, RInv, OInv, NEW o \in {"ok", "error"}, DrainAudits(o)
    PROVE  OInv' /\ Kept
<1> USE DEF OInv
<1>1. /\ UNCHANGED <<inp, iter, streak, fixRecent, tested, explained, pendingExplain,
                     signalPending, warnPending, warned, oos, reason, cancelRole, partial, hash,
                     left, done>>
      /\ hostCancel' \in {hostCancel, "swallowed"}
      /\ pc \in {"audits", "audits_again"} /\ pendingAudits' = {}
      /\ IF pc = "audits" THEN pc' = "wait" /\ UNCHANGED <<result, compensating>>
         ELSE BodyReturns(partial)
  BY DEF DrainAudits, Returns, state, flags, locals
<1>2. /\ (pc = "audits" /\ pc' = "wait") \/ pc' \in {"compensate_cancel", "closed"}
      /\ result' \in Outputs /\ compensating' \in BOOLEAN
  <2>1. CASE pc = "audits"
    BY <1>1, <2>1 DEF TInv, Outputs
  <2>2. CASE pc # "audits"
    <3>1. BodyReturns(partial)
      BY <1>1, <2>2
    <3> QED BY <3>1, BodyReturnsTyped
  <2> QED BY <2>1, <2>2
<1>3. TInv'
  BY <1>1, <1>2 DEF TInv, Outputs
<1>4. iter > 0 /\ ~done.failedCritical
  BY <1>1 DEF PlaceInv, RInv, ChainInv, Working
<1>5. PlaceInv'
  BY <1>1, <1>2, <1>4 DEF PlaceInv, Unshipped, AfterTest
<1>6. HistoryInv'
  BY <1>1, <1>4 DEF HistoryInv, ArtefactsNamedInOrder, ShippedWorkIsVetted
<1> QED BY <1>1, <1>2, <1>3, <1>5, <1>6 DEF Kept

\* The wait for a signal ends with its edge taken back.
LEMMA OrderWait ==
    ASSUME RunnerAssumption, RInv, OInv, Wait
    PROVE  OInv' /\ Kept
<1> USE DEF OInv
<1>1. /\ UNCHANGED <<inp, hostCancel, iter, streak, fixRecent, tested, explained, pendingExplain,
                     pendingAudits, warnPending, warned, oos, reason, cancelRole, compensating,
                     partial, hash, left, result, done>>
      /\ pc = "wait" /\ pc' = "banner_again" /\ signalPending' = FALSE
  BY DEF Wait, inputs, state, flags, locals
<1>2. TInv'
  <2>1. signalPending' \in BOOLEAN
    BY <1>1
  <2> QED BY <1>1, <2>1 DEF TInv
<1>3. PlaceInv' /\ HistoryInv'
  <2>1. pc \in Working \ {"start"} /\ pc' \notin Bound /\ pc \notin AfterTest
    BY <1>1 DEF RInv, Working, Bound, Unshipped, AfterTest
  <2> QED BY <1>1, <2>1, QuietMove
<1> QED BY <1>1, <1>2, <1>3 DEF Kept

\* The chain of compensations ends as what brought it about, and its audit row
\* names the role that cancelled.
LEMMA OrderChain ==
    ASSUME RunnerAssumption, RInv, OInv, NEW o \in {"ok", "error"},
           Compensate(o) \/ CancelAudit(o)
    PROVE  OInv' /\ Kept
<1> USE DEF OInv
<1>1. /\ UNCHANGED <<inp, iter, streak, fixRecent, tested, explained, pendingExplain, pendingAudits,
                     signalPending, warnPending, warned, oos, reason, cancelRole, compensating,
                     partial, hash, left>>
      /\ hostCancel' \in {hostCancel, "swallowed"}
      /\ pc \in {"compensate_cancel", "compensate_critical", "cancel_audit"}
  BY DEF Compensate, CancelAudit, Returns, state, pending, flags, locals
<1>2. /\ pc = "compensate_cancel" => pc' = "cancel_audit" /\ result' = result
      /\ pc = "compensate_critical" => Finish("failed")
      /\ pc = "cancel_audit" => Finish("cancelled")
      /\ done' = IF pc = "cancel_audit" THEN [done EXCEPT !.cancelAudit = cancelRole]
                 ELSE [done EXCEPT !.compensations = done.compensations + 1]
  BY DEF Compensate, CancelAudit
<1>3. iter \in Nat /\ iter > 0
  BY <1>1 DEF PlaceInv, RInv, CapInv
<1>4. /\ pc' \in {"cancel_audit", "closed"} /\ pc' # pc
      /\ result' \in Outputs
      /\ pc = "compensate_critical" => result'.status = "failed"
  <2>1. CASE pc = "compensate_cancel"
    BY <1>2, <2>1 DEF TInv, Outputs
  <2>2. CASE pc = "compensate_critical"
    BY <1>2, <1>3, <2>2, FinishTyped DEF Statuses
  <2>3. CASE pc = "cancel_audit"
    BY <1>2, <1>3, <2>3, FinishTyped DEF Statuses
  <2> QED BY <1>1, <2>1, <2>2, <2>3
<1>5. TInv'
  BY <1>1, <1>4 DEF TInv, Outputs
<1>6. PlaceInv'
  BY <1>1, <1>3, <1>4 DEF PlaceInv, Unshipped, AfterTest
<1>7. /\ done'.passed = done.passed /\ done'.committed = done.committed /\ done'.child = done.child
      /\ done'.branch = done.branch /\ done'.message = done.message
      /\ done'.pr = done.pr /\ done'.outputPr = done.outputPr /\ done'.scanned = done.scanned
      /\ done'.banners = done.banners /\ done'.cancelAudit \in {done.cancelAudit, cancelRole}
      /\ done'.appliedAfterFailure = done.appliedAfterFailure
      /\ done'.failedCritical = done.failedCritical
  BY <1>2 DEF RInv, DoneTypeOK
<1>8. done.failedCritical => pc = "compensate_critical"
  BY <1>1 DEF RInv, ChainInv
<1>9. HistoryInv'
  BY <1>1, <1>4, <1>7, <1>8 DEF HistoryInv, ArtefactsNamedInOrder, ShippedWorkIsVetted
<1> QED BY <1>1, <1>4, <1>5, <1>6, <1>9 DEF Kept

\* A comment moves the counter up, or closes the run.
LEMMA AdvanceOrDenyMoves ==
    ASSUME RunnerAssumption, RInv, TInv, AdvanceOrDeny
    PROVE  /\ iter' \in Nat /\ iter' >= iter
           /\ signalPending' = TRUE /\ warnPending' \in BOOLEAN
           /\ oos' \in {oos, TRUE} /\ reason' \in Reasons \union {None}
<1>0. iter \in Nat /\ reason \in Reasons \union {None} /\ warnPending \in BOOLEAN
  BY DEF RInv, CapInv, TInv
<1>1. CASE should_advance_iter(iter)
  <2>1. /\ iter' = iter + 1 /\ signalPending' = TRUE /\ UNCHANGED <<oos, reason>>
        /\ warnPending' = (warnPending \/ (~warned /\ iter + 1 >= ITER_WARNING_THRESHOLD))
    BY <1>1 DEF AdvanceOrDeny, advance_iter
  <2>2. warnPending' \in BOOLEAN
    BY <2>1
  <2> QED BY <1>0, <2>1, <2>2
<1>2. CASE ~should_advance_iter(iter)
  <2>1. /\ iter' = iter /\ signalPending' = TRUE /\ oos' = TRUE
        /\ reason' = "max_iter_reached" /\ warnPending' = warnPending
    BY <1>2 DEF AdvanceOrDeny, DenyAdvance
  <2> QED BY <1>0, <2>1 DEF Reasons
<1> QED BY <1>1, <1>2

\* A comment that is listened to moves the counters and the edge of the wait
\* and touches nothing that was done.
LEMMA OrderComment ==
    ASSUME RunnerAssumption, RInv, OInv, Listening, SignalFrame,
           iter' \in Nat, iter' >= iter,
           signalPending' \in {signalPending, TRUE}, warnPending' \in BOOLEAN,
           oos' \in {oos, TRUE}, reason' \in Reasons \union {None},
           fixRecent' \in BOOLEAN,
           pendingExplain' \in Hashes \union {None}, pendingAudits' \subseteq Audits,
           streak' \in Nat, streak' <= NEEDS_INFO_MAX_STREAK,
           ~oos' => streak' < NEEDS_INFO_MAX_STREAK
    PROVE  OInv' /\ Kept
<1> USE DEF OInv
<1>1. /\ UNCHANGED <<inp, pc, tested, explained, warned, cancelRole, compensating, partial, hash,
                     left, result, hostCancel, done>>
      /\ cancelRole = None /\ ~oos /\ pc # "closed"
  BY DEF SignalFrame, Listening, Open, locals
<1>2. TInv'
  <2>1. signalPending' \in BOOLEAN /\ oos' \in BOOLEAN
    BY DEF TInv
  <2> QED BY <1>1, <2>1 DEF TInv
<1>3. /\ iter \in Nat /\ done.branch \in Nat /\ done.message \in Nat /\ done.child \in Nat
  BY DEF RInv, CapInv, DoneTypeOK
<1>4. PlaceInv'
  <2>1. pc \in {"banner", "banner_comment", "banner_audit", "audits", "wait"} => signalPending'
    BY DEF PlaceInv
  <2> QED BY <1>1, <1>3, <2>1 DEF PlaceInv, Unshipped, AfterTest
<1>5. HistoryInv'
  BY <1>1, <1>3 DEF HistoryInv, ArtefactsNamedInOrder, ShippedWorkIsVetted
<1> QED BY <1>1, <1>2, <1>4, <1>5 DEF Kept

\* A signal moves the iteration state and does no work.
LEMMA OrderSignal ==
    ASSUME RunnerAssumption, RInv, OInv, Signal
    PROVE  OInv' /\ Kept
<1> USE DEF OInv
<1>0. /\ iter \in Nat /\ streak \in Nat /\ NEEDS_INFO_MAX_STREAK \in Nat \ {0}
      /\ ~oos => streak < NEEDS_INFO_MAX_STREAK
      /\ pendingExplain \in Hashes \union {None} /\ pendingAudits \subseteq Audits
      /\ reason \in Reasons \union {None}
      /\ fixRecent \in BOOLEAN /\ warnPending \in BOOLEAN
  BY DEF RInv, CapInv, TInv, RunnerAssumption
<1>1. CASE comment_added
  <2>1. /\ Listening /\ SignalFrame /\ streak' = 0 /\ AdvanceOrDeny
        /\ UNCHANGED <<fixRecent, pendingExplain, pendingAudits>>
    BY <1>1 DEF comment_added
  <2>2. 0 < NEEDS_INFO_MAX_STREAK /\ 0 <= NEEDS_INFO_MAX_STREAK
    BY <1>0
  <2> QED BY <1>0, <2>1, <2>2, AdvanceOrDenyMoves, OrderComment
<1>2. CASE needs_info
  <2>1. /\ Listening /\ SignalFrame /\ streak' = streak + 1
        /\ UNCHANGED <<iter, warnPending, fixRecent, pendingExplain, pendingAudits>>
        /\ signalPending' = TRUE
        /\ IF streak + 1 >= NEEDS_INFO_MAX_STREAK
           THEN oos' = TRUE /\ reason' = "needs_info_loop_cap"
           ELSE UNCHANGED <<oos, reason>>
    BY <1>2 DEF needs_info, DenyAdvance
  <2>2. streak < NEEDS_INFO_MAX_STREAK
    BY <1>0, <2>1 DEF Listening
  <2>3. streak' \in Nat /\ streak' <= NEEDS_INFO_MAX_STREAK
    BY <1>0, <2>1, <2>2
  <2>4. /\ oos' \in {oos, TRUE} /\ reason' \in Reasons \union {None}
        /\ ~oos' => streak' < NEEDS_INFO_MAX_STREAK
    <3>1. CASE streak + 1 >= NEEDS_INFO_MAX_STREAK
      <4>1. oos' = TRUE /\ reason' = "needs_info_loop_cap"
        BY <2>1, <3>1
      <4> QED BY <4>1 DEF Reasons
    <3>2. CASE ~(streak + 1 >= NEEDS_INFO_MAX_STREAK)
      <4>1. UNCHANGED <<oos, reason>>
        BY <2>1, <3>2
      <4>2. streak' < NEEDS_INFO_MAX_STREAK
        BY <1>0, <2>1, <3>2
      <4> QED BY <1>0, <4>1, <4>2
    <3> QED BY <3>1, <3>2
  <2>5. iter' \in Nat /\ iter' >= iter
    BY <1>0, <2>1
  <2> QED BY <1>0, <2>1, <2>3, <2>4, <2>5, OrderComment
<1>3. ASSUME NEW diff \in Hashes \union {None}, fix_triggered(diff)
      PROVE  OInv' /\ Kept
  <2>1. /\ Listening /\ SignalFrame /\ UNCHANGED pendingExplain
        /\ pendingAudits' \subseteq pendingAudits \union Audits
    BY <1>3, Zenon DEF fix_triggered, Audits
  <2>2. \/ UNCHANGED <<iter, streak, fixRecent, warnPending, signalPending, oos, reason>>
        \/ /\ streak' = 0 /\ fixRecent' = TRUE /\ signalPending' = TRUE
           /\ UNCHANGED <<iter, warnPending, oos, reason>>
        \/ AdvanceOrDeny /\ streak' = 0 /\ fixRecent' = TRUE
        \/ AdvanceOrDeny /\ UNCHANGED <<streak, fixRecent>>
    BY <1>3, Zenon DEF fix_triggered
  <2>3. pendingAudits' \subseteq Audits /\ ~oos
    BY <1>0, <2>1 DEF Listening
  <2>4. /\ streak' \in {0, streak} /\ fixRecent' \in {fixRecent, TRUE}
    BY <2>2
  <2>5. /\ streak' \in Nat /\ streak' < NEEDS_INFO_MAX_STREAK
        /\ streak' <= NEEDS_INFO_MAX_STREAK
    BY <1>0, <2>3, <2>4
  <2>6. fixRecent' \in BOOLEAN
    BY <1>0, <2>4
  <2>7. CASE AdvanceOrDeny
    BY <1>0, <2>1, <2>3, <2>5, <2>6, <2>7, AdvanceOrDenyMoves, OrderComment
  <2>8. CASE ~AdvanceOrDeny
    <3>1. iter' = iter /\ warnPending' = warnPending /\ oos' = oos /\ reason' = reason
          /\ signalPending' \in {signalPending, TRUE}
      BY <2>2, <2>8
    <3>2. iter' \in Nat /\ iter' >= iter
      BY <1>0, <3>1
    <3> QED BY <1>0, <2>1, <2>3, <2>5, <2>6, <3>1, <3>2, OrderComment
  <2> QED BY <2>7, <2>8
<1>4. ASSUME NEW diff \in Hashes \union {None}, explain_triggered(diff)
      PROVE  OInv' /\ Kept
  <2>1. /\ Listening /\ SignalFrame /\ UNCHANGED fixRecent
        /\ pendingExplain' \in {diff, pendingExplain}
    BY <1>4 DEF explain_triggered
  <2>2. \/ /\ pendingAudits' = pendingAudits \union {"explain_cache_hit"}
           /\ signalPending' = TRUE
           /\ UNCHANGED <<iter, streak, warnPending, oos, reason>>
        \/ streak' = 0 /\ AdvanceOrDeny /\ UNCHANGED pendingAudits
    BY <1>4, Zenon DEF explain_triggered
  <2>3. pendingAudits' \subseteq Audits /\ ~oos /\ pendingExplain' \in Hashes \union {None}
    BY <1>0, <1>4, <2>1, <2>2 DEF Listening, Audits
  <2>4. streak' \in {0, streak}
    BY <2>2
  <2>5. /\ streak' \in Nat /\ streak' < NEEDS_INFO_MAX_STREAK
        /\ streak' <= NEEDS_INFO_MAX_STREAK
    BY <1>0, <2>3, <2>4
  <2>7. CASE AdvanceOrDeny
    BY <1>0, <2>1, <2>3, <2>5, <2>7, AdvanceOrDenyMoves, OrderComment
  <2>8. CASE ~AdvanceOrDeny
    <3>1. iter' = iter /\ warnPending' = warnPending /\ oos' = oos /\ reason' = reason
          /\ signalPending' = TRUE
      BY <2>2, <2>8
    <3>2. iter' \in Nat /\ iter' >= iter
      BY <1>0, <3>1
    <3> QED BY <1>0, <2>1, <2>3, <2>5, <3>1, <3>2, OrderComment
  <2> QED BY <2>7, <2>8
<1>5. ASSUME NEW role \in Roles, cancel_requested(role)
      PROVE  OInv' /\ Kept
  <2>1. /\ UNCHANGED <<inp, hostCancel, pc, iter, streak, fixRecent, tested, explained,
                       pendingExplain, pendingAudits, warnPending, warned, oos, reason,
                       compensating, partial, hash, left, result, done>>
        /\ cancelRole = None /\ cancelRole' = role /\ signalPending' = TRUE
    BY <1>5 DEF cancel_requested, inputs, state, locals
  <2>2. TInv'
    <3>1. signalPending' \in BOOLEAN
      BY <2>1
    <3> QED BY <2>1, <3>1 DEF TInv
  <2>3. PlaceInv'
    BY <2>1 DEF PlaceInv, Unshipped, AfterTest
  <2>4. HistoryInv'
    BY <2>1 DEF HistoryInv, ArtefactsNamedInOrder, ShippedWorkIsVetted
  <2> QED BY <2>1, <2>2, <2>3, <2>4 DEF Kept
<1> QED BY <1>1, <1>2, <1>3, <1>4, <1>5 DEF Signal

\* Time that passes and the host's cancellation leave the history alone.
LEMMA OrderOutside ==
    ASSUME RInv, OInv,
           \/ RequestCancel \/ FixWindowPasses \/ (\E h \in Hashes : ExplainAnswerAges(h))
           \/ UNCHANGED vars
    PROVE  OInv' /\ Kept
<1> USE DEF OInv
<1>1. /\ UNCHANGED <<inp, iter, streak, tested, pendingExplain, pendingAudits, signalPending,
                     warnPending, warned, oos, reason, cancelRole, compensating, partial, hash,
                     left, result, done>>
      /\ pc' = pc \/ (pc = "wait" /\ pc' = "host_cancelled")
  BY DEF RequestCancel, FixWindowPasses, ExplainAnswerAges, vars, inputs, state, pending, flags,
         locals
<1>2. hostCancel' \in {hostCancel, "pending"} /\ fixRecent' \in {fixRecent, FALSE}
  BY DEF RequestCancel, FixWindowPasses, ExplainAnswerAges, vars, inputs, state
<1>3. explained' = explained \/ \E h \in Hashes : explained' = [explained EXCEPT ![h] = "stale"]
  BY DEF RequestCancel, FixWindowPasses, ExplainAnswerAges, vars, state
<1>4. TInv'
  <2>1. fixRecent' \in BOOLEAN /\ hostCancel' \in {"no", "pending", "swallowed"}
    BY <1>2 DEF TInv
  <2>2. explained' \in [Hashes -> {"none", "fresh", "stale"}]
    BY <1>3 DEF TInv
  <2> QED BY <1>1, <2>1, <2>2 DEF TInv
<1>5. PlaceInv'
  BY <1>1 DEF PlaceInv, Unshipped, AfterTest
<1>6. HistoryInv'
  BY <1>1 DEF HistoryInv, ArtefactsNamedInOrder, ShippedWorkIsVetted
<1> QED BY <1>1, <1>4, <1>5, <1>6 DEF Kept

\* OInv holds when the run starts.
LEMMA OInvInit ==
    ASSUME RunnerAssumption, Init
    PROVE  OInv
<1>1. TInv
  <2>1. /\ fixRecent \in BOOLEAN /\ signalPending \in BOOLEAN /\ warnPending \in BOOLEAN
        /\ warned \in BOOLEAN /\ oos \in BOOLEAN /\ compensating \in BOOLEAN
        /\ partial \in BOOLEAN
    BY DEF Init
  <2>2. left \in [critical : 0 .. MaxActions, best : 0 .. MaxActions]
    BY DEF Init, Inputs
  <2>3. explained \in [Hashes -> {"none", "fresh", "stale"}]
    BY DEF Init
  <2>4. /\ streak \in Nat /\ streak < NEEDS_INFO_MAX_STREAK
        /\ streak <= NEEDS_INFO_MAX_STREAK
    BY DEF Init, RunnerAssumption
  <2>5. /\ tested \subseteq Hashes /\ pendingExplain \in Hashes \union {None}
        /\ pendingAudits \subseteq Audits /\ hash \in Hashes \union {None}
        /\ reason \in Reasons \union {None} /\ result = None /\ hostCancel = "no"
    BY DEF Init
  <2> QED BY <2>1, <2>2, <2>3, <2>4, <2>5 DEF TInv
<1>2. PlaceInv
  BY DEF Init, PlaceInv, Unshipped, AfterTest, NothingDone
<1>3. HistoryInv
  BY DEF Init, HistoryInv, NothingDone, ArtefactsNamedInOrder, ShippedWorkIsVetted
<1> QED BY <1>1, <1>2, <1>3 DEF OInv

\* Every step keeps OInv and what CancelIsFinal says of a step.
LEMMA OInvStep ==
    ASSUME RunnerAssumption, RInv, OInv, [Next]_vars
    PROVE  OInv' /\ Kept
<1>1. CASE (\E m \in MaxIters : Run(m)) \/ Succeed \/ Assign \/ BestEffortFails
  BY <1>1, OrderRun, OrderSucceed, OrderAssign, OrderBestEffort
<1>2. CASE Regenerate \/ RegenerateSucceeds \/ Offload
  BY <1>2, OrderGoesOn
<1>12. CASE PartitionRejects \/ Banner
  BY <1>12, OrderPartition, OrderBanner
<1>3. CASE CriticalFails \/ InputRejected \/ GiveUp \/ SubtaskFails
  BY <1>3, OrderLeaves
<1>4. CASE Wait
  BY <1>4, OrderWait
<1>5. ASSUME NEW h \in Hashes, Commit(h)
      PROVE  OInv' /\ Kept
  BY <1>5, OrderCommit
<1>6. ASSUME NEW o \in {"ok", "error"},
             \/ DenyAudit(o) \/ LastComment(o) \/ Explain(o) \/ TokenAudit(o) \/ EpicComment(o)
      PROVE  OInv' /\ Kept
  BY <1>6, OrderLeaves
<1>7. ASSUME NEW o \in {"ok", "error"},
             \/ Test(o) \/ (\E k \in OutputKinds : CriticalOutput(o, k)) \/ PrComment(o)
             \/ BestEffortOutput(o) \/ BannerPosted(o) \/ DrainAudits(o)
      PROVE  OInv' /\ Kept
  BY <1>7, OrderTest, OrderCritical, OrderPrComment, OrderBestOutput, OrderBannerPosted,
     OrderDrain
<1>8. ASSUME NEW o \in {"ok", "error"}, Compensate(o) \/ CancelAudit(o)
      PROVE  OInv' /\ Kept
  BY <1>8, OrderChain
<1>9. CASE Signal
  BY <1>9, OrderSignal
<1>10. CASE \/ RequestCancel \/ FixWindowPasses \/ (\E h \in Hashes : ExplainAnswerAges(h))
            \/ UNCHANGED vars
  BY <1>10, OrderOutside
<1>11. CASE Body
  BY <1>11, <1>1, <1>2, <1>3, <1>4, <1>5, <1>6, <1>7, <1>8, <1>12 DEF Body
<1> QED BY <1>9, <1>10, <1>11 DEF Next, Terminated

\* The inductive invariant of the runner's order holds of every run.
THEOREM RunnerOrder == Spec => []OInv
<1>1. Init => OInv
  BY RunnerAssumption, OInvInit
<1>2. RInv /\ OInv /\ [Next]_vars => OInv'
  BY RunnerAssumption, OInvStep
<1> QED BY <1>1, <1>2, RunnerInvariant, PTL DEF Spec

\* The handlers of _dispatch_workflow_type, _execute_output_actions and the signal
\* wait: at any number of comments, cancels and failing activities, branch, commit
\* and test child are numbered in order, nothing ships unvetted, no output action
\* follows a critical failure, one banner is posted, and the wait never blocks.
THEOREM RunOrderly == Spec => []RunIsOrderly
<1>1. RInv /\ OInv => RunIsOrderly
  <2> SUFFICES ASSUME RInv, OInv PROVE RunIsOrderly
    OBVIOUS
  <2>1. TypeOK
    <3>1. {fixRecent, signalPending, warnPending, warned, oos, compensating, partial}
             \subseteq BOOLEAN
      BY DEF OInv, TInv
    <3>2. streak \in 0 .. NEEDS_INFO_MAX_STREAK
      BY RunnerAssumption DEF OInv, TInv, RunnerAssumption
    <3> QED BY <3>1, <3>2 DEF OInv, TInv, RInv, CapInv, DoneTypeOK, TypeOK
  <2>2. CriticalFailureStops
    <3>1. pc \in Working \union {"compensate_critical", "compensate_cancel", "cancel_audit",
                                 "closed"}
      BY DEF RInv, Working
    <3> QED BY <3>1 DEF RInv, ChainInv, OInv, HistoryInv, CriticalFailureStops
  <2>3. BannerOnce /\ SignalWaitNeverBlocks
    BY DEF OInv, HistoryInv, PlaceInv, BannerOnce, SignalWaitNeverBlocks
  <2> QED BY <2>1, <2>2, <2>3 DEF OInv, HistoryInv, RunIsOrderly
<1> QED BY <1>1, RunnerInvariant, RunnerOrder, PTL

\* cancel_requested and the guards of the comment handlers: the first cancel is
\* the one that is compensated for and audited, and a run that is cancelled or out
\* of scope counts no further comment.
THEOREM CancelFinal == Spec => CancelIsFinal
<1>1. RInv /\ OInv /\ OInv' /\ [Next]_vars =>
         [cancelRole # None => /\ cancelRole' = cancelRole
                               /\ done'.cancelAudit \in {None, cancelRole}]_vars
  <2> SUFFICES ASSUME RInv, OInv, OInv', [Next]_vars, cancelRole # None
               PROVE  /\ cancelRole' = cancelRole
                      /\ done'.cancelAudit \in {None, cancelRole}
    OBVIOUS
  <2>1. cancelRole' = cancelRole
    BY RunnerAssumption, OInvStep DEF Kept
  <2> QED BY <2>1 DEF OInv, HistoryInv
<1>2. RInv /\ OInv /\ [Next]_vars =>
         [pc' = pc /\ (oos \/ cancelRole # None) =>
             UNCHANGED <<iter, streak, pendingExplain, pendingAudits>>]_vars
  BY RunnerAssumption, OInvStep DEF Kept
<1> QED
  BY <1>1, <1>2, RunnerInvariant, RunnerOrder, PTL
     DEF Spec, CancelIsFinal, FirstCancelWins, StoppedRunsStopCounting
==============================================================================
