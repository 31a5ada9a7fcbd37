---------------------------- MODULE ResultActions ----------------------------
(***************************************************************************)
(* What a finished analysis or run does to the outside: the batch of       *)
(* output actions of the automation worker, the repository a task is       *)
(* resolved to, the sections of a Confluence page the agent runner         *)
(* rewrites while people edit it, and the actions the model asked for,     *)
(* with payloads too large moved to the object store.  A call may take     *)
(* effect although its answer is lost or its time is over.                 *)
(***************************************************************************)
EXTENDS Jobs, TLC

CONSTANT MaxActions     \* MAX_ACTIONS_PER_BATCH

VARIABLES
    effects,        \* the calls that took effect: by whom, in which attempt, at which place
    asked,          \* comments and transitions that ask a person for the repository
    wiki,           \* the page: whether it is a probe's, who edited it last and when
    rewritten,      \* sections written, with the page as the writer had read it
    offloaded       \* payloads in the object store

resultVars == <<effects, asked, wiki, rewritten, offloaded>>
ResultOps == {"outputs", "repo", "doc", "results"}

ResultInit(mix) ==
    effects = {} /\ asked = {} /\ wiki = mix.wiki /\ rewritten = {} /\ offloaded = {}

Now(x) == job[x].try
Effect(x, at, tool) == [by |-> x, try |-> Now(x), at |-> at, tool |-> tool]
Took(x, at, tool) == effects' = effects \cup {Effect(x, at, tool)}

\* The worker dies: the activity runs again from its start, or is given up.
Dies(x, pcs) == job[x].pc \in pcs /\ Redo(x, "again", "given_up") /\ UNCHANGED resultVars
GivenUp(x) == job[x].pc = "given_up" /\ Works /\ End(x, "raised") /\ UNCHANGED resultVars
Starts(x, op) == ask[x].op = op /\ job[x].pc \in {"idle", "again"}

-----------------------------------------------------------------------------
(* The batch of output actions.                                            *)

ActionTypes == {"jira_comment", "jira_attachment", "bitbucket_commit", "bitbucket_pr", "confluence_page", "jira_transition"}

coerce_action_type(t) ==
    CASE t = "bitbucket_create_pr" -> "bitbucket_pr"
      [] t \in {"confluence_create_page", "confluence_update_page"} -> "confluence_page"
      [] t \in ActionTypes -> t
      [] OTHER -> None

\* An action without an index of its own takes its place; pos keeps the sort stable.
normalise_action(a, i) ==
    [a EXCEPT !.type = coerce_action_type(@), !.index = IF @ = None THEN i ELSE @] @@ [pos |-> i]

\* The workflow's helper knows no aliases and numbers the actions itself.
output_actions_post(s) ==
    LET known == SelectSeq([i \in DOMAIN s |-> [a |-> s[i], i |-> i]], LAMBDA e : e.a.type \in ActionTypes)
    IN  [k \in DOMAIN known |-> [known[k].a EXCEPT !.index = known[k].i]]

Handed(x) == IF ask[x].post THEN output_actions_post(ask[x].actions) ELSE ask[x].actions

\* The batch is cut to its maximum in the order given, then sorted by index.
Plan(x) ==
    LET s == Handed(x)
        known == SelectSeq([i \in DOMAIN s |-> normalise_action(s[i], i)], LAMBDA a : a.type # None)
        cut == SubSeq(known, 1, IF Len(known) < MaxActions THEN Len(known) ELSE MaxActions)
    IN  SortSeq(cut, LAMBDA a, b : a.index < b.index \/ (a.index = b.index /\ a.pos < b.pos))

handle_jira_comment(a) == "jira_add_comment"
handle_jira_attachment(a) == IF a.ref THEN "upload_artifact_to_jira" ELSE "jira_add_attachment"
handle_bitbucket_pr(a) == "bitbucket_create_pr"
handle_bitbucket_commit(a) == "bitbucket_put_file_content"
handle_confluence_page(a) == IF a.ref THEN "confluence_update_page" ELSE "confluence_create_page"
\* Without a transition id the status is looked up; none may match.
handle_jira_transition(a) == {"jira_transition_issue"} \cup (IF a.ref THEN {} ELSE {"no_matching_transition"})

ACTION_HANDLERS(a) ==
    CASE a.type = "jira_comment" -> {handle_jira_comment(a)}
      [] a.type = "jira_attachment" -> {handle_jira_attachment(a)}
      [] a.type = "bitbucket_pr" -> {handle_bitbucket_pr(a)}
      [] a.type = "bitbucket_commit" -> {handle_bitbucket_commit(a)}
      [] a.type = "confluence_page" -> {handle_confluence_page(a)}
      [] OTHER -> handle_jira_transition(a)

BeginBatch(x) ==
    /\ Starts(x, "outputs") /\ Works /\ UNCHANGED resultVars
    /\ IF Handed(x) = <<>> THEN End(x, "all_succeeded") ELSE Keep(x, "act", <<>>)

Result(x, status) == Set(x, [job[x] EXCEPT !.val = Append(@, status)])

\* Mutant: a call that ran out of time counts as done.
TimeoutCounts(x) ==
    LET i == Len(job[x].val) + 1
    IN  /\ At(x, "outputs", "act") /\ i <= Len(Plan(x))
        /\ \E tool \in ACTION_HANDLERS(Plan(x)[i]) :
              Result(x, "success") /\ ((Works /\ Took(x, i, tool)) \/ (Fault /\ UNCHANGED effects))
        /\ UNCHANGED <<asked, wiki, rewritten, offloaded>>

\* A call in time, a call that fails and one that runs out of time: the last two
\* may have taken effect.  A transition that matches nothing is a success.
execute_single_action(x) ==
    LET i == Len(job[x].val) + 1
    IN  /\ At(x, "outputs", "act") /\ i <= Len(Plan(x))
        /\ \E tool \in ACTION_HANDLERS(Plan(x)[i]) :
              \/ /\ Works /\ Result(x, "success")
                 /\ IF tool = "no_matching_transition" THEN UNCHANGED effects ELSE Took(x, i, tool)
              \/ /\ Fault /\ Result(x, "failed") /\ tool # "no_matching_transition"
                 /\ UNCHANGED effects \/ Took(x, i, tool)
        /\ UNCHANGED <<asked, wiki, rewritten, offloaded>>

EndBatch(x) ==
    /\ At(x, "outputs", "act") /\ Len(job[x].val) = Len(Plan(x)) /\ Works /\ UNCHANGED resultVars
    /\ IF \E i \in DOMAIN job[x].val : job[x].val[i] # "success"
       THEN Set(x, [job[x] EXCEPT !.pc = "report"]) ELSE End(x, "all_succeeded")

\* One comment names what failed; when it fails too, that is logged.
build_failure_comment(x) ==
    /\ At(x, "outputs", "report") /\ End(x, "failed") /\ UNCHANGED <<asked, wiki, rewritten, offloaded>>
    /\ \/ Works /\ Took(x, 0, "jira_add_comment")
       \/ Fault /\ UNCHANGED effects

-----------------------------------------------------------------------------
(* The repository of a task.                                               *)

\* Repositories are compared without regard to case.
is_repo_in_allowed_list(x, r) == \E a \in ask[x].allowed : a.name = r.name

\* The structured field, else a label, else a line of the description.
repo_from_labels(x) == ask[x].label
repo_from_description(x) == ask[x].line
Claimed(x) ==
    CASE ask[x].field # None -> ask[x].field
      [] repo_from_labels(x) # None -> repo_from_labels(x)
      [] OTHER -> repo_from_description(x)

Resolved(x, r) == Set(x, [job[x] EXCEPT !.pc = "end", !.out = "resolved", !.val = r])

resolve_repo_field(x) ==
    /\ Starts(x, "repo") /\ Works /\ UNCHANGED resultVars
    /\ CASE Claimed(x) # None ->
              IF is_repo_in_allowed_list(x, Claimed(x)) THEN Resolved(x, Claimed(x)) ELSE Set(x, [job[x] EXCEPT !.pc = "reject"])
         [] Claimed(x) = None /\ Cardinality(ask[x].allowed) = 1 -> \E r \in ask[x].allowed : Resolved(x, r)
         [] OTHER -> Set(x, [job[x] EXCEPT !.pc = "parse"])

\* What the model reads from the description: nothing or any name, surely or not.
parse_repo_from_description(x) ==
    /\ At(x, "repo", "parse") /\ UNCHANGED resultVars
    /\ \/ \E r \in ask[x].read, sure \in BOOLEAN :
            /\ Works
            /\ CASE r = None \/ ~sure -> Set(x, [job[x] EXCEPT !.pc = "ask"])
                 [] r # None /\ sure /\ ~is_repo_in_allowed_list(x, r) -> Set(x, [job[x] EXCEPT !.pc = "reject"])
                 [] OTHER -> Resolved(x, r)
       \/ Fault /\ Set(x, [job[x] EXCEPT !.pc = "ask_only"])

AsksPerson(x, what) ==
    /\ \/ Works /\ asked' = asked \cup {[by |-> x, try |-> Now(x), what |-> what]}
       \/ Fault /\ UNCHANGED asked
    /\ UNCHANGED <<effects, wiki, rewritten, offloaded>>

build_repo_rejected_comment(x) == At(x, "repo", "reject") /\ AsksPerson(x, "rejected") /\ End(x, "unresolved")

build_repo_ask_comment(x) ==
    /\ ask[x].op = "repo" /\ job[x].pc \in {"ask", "ask_only"} /\ AsksPerson(x, "which")
    /\ IF job[x].pc = "ask" THEN Set(x, [job[x] EXCEPT !.pc = "needs_info"]) ELSE End(x, "unresolved")

NeedsInfo(x) == At(x, "repo", "needs_info") /\ AsksPerson(x, "needs_info") /\ End(x, "unresolved")

-----------------------------------------------------------------------------
(* A page rewritten section by section.                                    *)

\* Anybody who is not a bot and edited within the window; a date in the future
\* protects nothing.
should_skip_overwrite(p) == p.editor \notin {None, "bot"} /\ p.age = "fresh"
is_probe_page(p) == p.probe

Comments(x, what, then) ==
    /\ UNCHANGED <<asked, wiki, rewritten, offloaded>>
    /\ \/ Works /\ Took(x, 0, what)
       \/ Fault /\ UNCHANGED effects
    /\ then

ReadPage(x) ==
    /\ Begins(x, "doc") /\ UNCHANGED resultVars
    /\ \/ Works /\ Keep(x, IF is_probe_page(wiki) \/ should_skip_overwrite(wiki) \/ ask[x].sections = <<>>
                            THEN "leave" ELSE "sections", [page |-> wiki, at |-> 1])
       \/ Fault /\ End(x, "failed")

LeavePage(x) == At(x, "doc", "leave") /\ Comments(x, "skipped", End(x, "skipped"))

Section(x) == ask[x].sections[job[x].val.at]
OnWith(x, S) == Set(x, [job[x] EXCEPT !.val.at = @ + 1, !.got = S])

\* The table holds the hashes this run has written, under every path.
should_skip_section_update(x) == Section(x).hash \in job[x].got

UpdateSection(x) ==
    /\ At(x, "doc", "sections") /\ job[x].val.at <= Len(ask[x].sections) /\ UNCHANGED <<effects, asked, offloaded>>
    /\ \/ should_skip_section_update(x) /\ Works /\ OnWith(x, job[x].got) /\ UNCHANGED <<wiki, rewritten>>
       \/ /\ ~should_skip_section_update(x)
          /\ \/ /\ Works /\ OnWith(x, job[x].got \cup {Section(x).hash})
                /\ wiki' = [wiki EXCEPT !.editor = "bot", !.age = "fresh"]
                /\ rewritten' = rewritten \cup {[by |-> x, path |-> Section(x).path, hash |-> Section(x).hash, saw |-> job[x].val.page]}
             \/ Fault /\ OnWith(x, job[x].got) /\ UNCHANGED <<wiki, rewritten>>

SummariseUpdate(x) ==
    /\ At(x, "doc", "sections") /\ job[x].val.at > Len(ask[x].sections)
    /\ Comments(x, "updated", End(x, "updated"))

\* A person edits the page; their edit ages.
PersonEdits ==
    /\ \E x \in Jobs : ask[x].op = "doc" /\ ~Ended(x)
    /\ \/ wiki.editor # "ann" /\ wiki' = [wiki EXCEPT !.editor = "ann", !.age = "fresh"]
       \/ wiki.editor = "ann" /\ wiki.age = "fresh" /\ wiki' = [wiki EXCEPT !.age = "old"]
    /\ UNCHANGED <<effects, asked, rewritten, offloaded>>

-----------------------------------------------------------------------------
(* The actions the model asked for, in the agent runner.                   *)

Critical == {"jira_comment", "bitbucket_commit", "bitbucket_create_pr", "confluence_create_page", "confluence_update_page", "jira_transition"}
BestEffortKinds == {"slack_notify", "email_notify", "jira_attachment"}

\* Two critical kinds have no activity, and a pull request needs a branch.
Undispatchable(a) ==
    a.kind \in {"bitbucket_commit", "jira_transition"} \/ (a.kind = "bitbucket_create_pr" /\ ~a.branch)

\* An oversized payload is stored under the run and its place first, and a
\* summary with the address takes its place.
redirect_oversized_payload(x) ==
    /\ ask[x].op = "results" /\ job[x].pc \in {"idle", "offload"} /\ UNCHANGED <<effects, asked, wiki, rewritten>>
    /\ LET i == IF job[x].val = None THEN 1 ELSE job[x].val + 1
       IN  IF i > Len(ask[x].actions) THEN Works /\ Keep(x, "partition", 0) /\ UNCHANGED offloaded
           ELSE IF ~ask[x].actions[i].big THEN Works /\ Keep(x, "offload", i) /\ UNCHANGED offloaded
           ELSE \/ Works /\ offloaded' = offloaded \cup {[by |-> x, at |-> i]} /\ Keep(x, "offload", i)
                \/ Fault /\ End(x, "failed") /\ UNCHANGED offloaded

\* Critical actions in their order, then the best-effort ones in theirs.
partition(x) ==
    LET all == [i \in DOMAIN ask[x].actions |-> ask[x].actions[i] @@ [at |-> i]]
    IN  SelectSeq(all, LAMBDA a : a.kind \in Critical) \o SelectSeq(all, LAMBDA a : a.kind \in BestEffortKinds)

Partition(x) ==
    /\ At(x, "results", "partition") /\ Works /\ UNCHANGED resultVars
    /\ IF \E i \in DOMAIN ask[x].actions : ask[x].actions[i].kind \notin Critical \cup BestEffortKinds
       THEN Set(x, [job[x] EXCEPT !.pc = "compensate", !.val = <<>>])
       ELSE Set(x, [job[x] EXCEPT !.pc = "apply", !.val = <<>>])

\* A critical action that fails ends the batch; a best-effort one is remembered.
apply_single_output_action(x) ==
    LET i == Len(job[x].val) + 1
        a == partition(x)[i]
        done(s) == [job[x] EXCEPT !.val = Append(@, s)]
    IN  /\ At(x, "results", "apply") /\ i <= Len(partition(x)) /\ UNCHANGED <<asked, wiki, rewritten, offloaded>>
        /\ \/ ~Undispatchable(a) /\ Works /\ Took(x, a.at, a.kind) /\ Set(x, done("ok"))
           \/ /\ \/ Undispatchable(a) /\ Works /\ UNCHANGED effects
                 \/ ~Undispatchable(a) /\ Fault /\ (UNCHANGED effects \/ Took(x, a.at, a.kind))
              /\ Set(x, IF a.kind \in Critical THEN [done("failed") EXCEPT !.pc = "compensate"] ELSE done("failed"))

\* The last comment names the critical actions done and the others that failed.
format_final_jira_comment(x) ==
    /\ At(x, "results", "apply") /\ Len(job[x].val) = Len(partition(x)) /\ Comments(x, "summary", End(x, "completed"))

EndFailed(x) == At(x, "results", "compensate") /\ Works /\ End(x, "failed") /\ UNCHANGED resultVars

ResultStep(x) ==
    /\ Quiet
    /\ \/ ask[x].op \in {"outputs", "repo"} /\ Dies(x, {"act", "report", "parse", "reject", "ask", "ask_only", "needs_info"})
       \/ GivenUp(x)
       \/ BeginBatch(x) \/ execute_single_action(x) \/ EndBatch(x) \/ build_failure_comment(x)
       \/ resolve_repo_field(x) \/ parse_repo_from_description(x) \/ build_repo_rejected_comment(x)
       \/ build_repo_ask_comment(x) \/ NeedsInfo(x)
       \/ ReadPage(x) \/ LeavePage(x) \/ UpdateSection(x) \/ SummariseUpdate(x)
       \/ redirect_oversized_payload(x) \/ Partition(x) \/ apply_single_output_action(x)
       \/ format_final_jira_comment(x) \/ EndFailed(x)

-----------------------------------------------------------------------------
Did(x, at) == \E e \in effects : e.by = x /\ e.at = at

\* A batch reported as done was done, up to transitions that matched nothing, by
\* the attempt that reported it; a failed batch left a comment unless that
\* failed as well.
BatchVerdictIsTrue ==
    \A x \in Jobs : ask[x].op = "outputs" /\ Ended(x) =>
        /\ job[x].out = "all_succeeded" =>
              \A i \in DOMAIN Plan(x) :
                  \/ \E e \in effects : e.by = x /\ e.at = i /\ e.try = Now(x)
                  \/ Plan(x)[i].type = "jira_transition" /\ ~Plan(x)[i].ref
        /\ job[x].out = "failed" => Did(x, 0) \/ failed >= 2

\* A task only gets a repository of its department; one without a repository has
\* asked a person; and a question beside a repository comes from an attempt
\* whose worker died.
RepoIsSettled ==
    \A x \in Jobs : ask[x].op = "repo" /\ Ended(x) =>
        LET questions == {q \in asked : q.by = x}
        IN  /\ job[x].out = "resolved" =>
                  is_repo_in_allowed_list(x, job[x].val) /\ \A q \in questions : q.try < Now(x)
            /\ job[x].out = "unresolved" => questions # {} \/ failed > 0

\* Writers of a page had seen it free of fresh edits by people, whatever happened
\* since; a run that is through leaves every section written under its hash,
\* unless a call failed.
PageIsRewrittenWithCare ==
    /\ \A r \in rewritten : ~should_skip_overwrite(r.saw) /\ ~is_probe_page(r.saw)
    /\ \A x \in Jobs : ask[x].op = "doc" /\ Ended(x) /\ job[x].out = "updated" =>
          /\ \A i \in DOMAIN ask[x].sections :
                (\E r \in rewritten : r.by = x /\ r.hash = ask[x].sections[i].hash) \/ failed > 0
          /\ \A h \in job[x].got : \E r \in rewritten : r.by = x /\ r.hash = h

\* Nothing is effects before every oversized payload is stored, no best-effort
\* action before every critical one is done, and nothing after a failed one.
ResultsInOrder ==
    \A x \in Jobs : ask[x].op = "results" =>
        \A i, k \in DOMAIN ask[x].actions :
            Did(x, k) =>
                /\ ask[x].actions[i].big => [by |-> x, at |-> i] \in offloaded
                /\ ask[x].actions[i].kind \in Critical /\ ask[x].actions[k].kind \in BestEffortKinds => Did(x, i)

=============================================================================
