---------------------------- MODULE AdminPrompts ----------------------------
(***************************************************************************)
(* The prompt editor of the admin dashboard: drafts on git branches, the   *)
(* sandbox, pull requests, promotion (routers/prompts_git.py) and the      *)
(* one-call commit route (routers/prompts.py), over the repository wrapper *)
(* of git_shared/repo.py.  Every call of the wrapper runs in a thread of   *)
(* its own, so two requests interleave between any two of them, and        *)
(* GitRepo._pending_writes is shared by all requests.  A tree maps the     *)
(* prompt paths to bodies; hashes of bodies are the bodies themselves.     *)
(***************************************************************************)
EXTENDS AdminRequests

CONSTANTS
    Paths,      \* the prompt files on main
    SafeName,   \* SafeName[actor]: the actor id with unsafe characters replaced
    MaxNow      \* bound on the clock, in seconds

VARIABLES
    heads,      \* heads[b] = [tip, base, tree]: the local branches
    pending,    \* GitRepo._pending_writes: [<<branch, path>> -> body]
    runs,       \* rows of automation.prompt_sandbox_runs
    prs,        \* pull requests opened upstream
    versions,   \* rows of shared.prompt_versions
    merges,     \* merges a reviewer may still make
    now         \* the clock, in whole seconds

promptVars == <<heads, pending, runs, prs, versions, merges, now>>

\* Branch names: the actor part, the second, and 1 for the "-1" suffix.
Main == <<"main", 0, 0>>
Missing == <<"missing", 0, 0>>
IsDraft(b) == b # Main

Seed == [p \in Paths |-> "seed"]

\* The branch names the model knows of.
Branches == ({"main", "missing", "commit"} \cup {SafeName[w] : w \in DOMAIN SafeName})
            \X Nat \X ({0, 1} \cup Reqs)

\* Scenarios of the editor: a draft's actor has a sanitised name, which is
\* neither main nor the committer's; a commit names a prompt that is there or
\* a path that is refused.
ASSUME PromptAssumption ==
    /\ None \notin Branches
    /\ \A w \in DOMAIN SafeName : SafeName[w] \notin {"main", "missing", "commit"}
    /\ \A mix \in Mixes :
        /\ mix.start \in Nat
        /\ \A r \in Reqs :
            /\ mix.ask[r].op = "draft" => mix.ask[r].who \in DOMAIN SafeName
            /\ mix.ask[r].op = "commit" => mix.ask[r].path \in Paths \cup {"unsafe"}

PromptInit(mix) ==
    /\ heads = [b \in {Main} |-> [tip |-> <<"main", 0>>, base |-> Seed, tree |-> Seed]]
    /\ pending = [k \in {} |-> None]
    /\ runs = {} /\ prs = {} /\ versions = {}
    /\ merges = mix.merges
    /\ now = mix.start

-----------------------------------------------------------------------------
(* GitRepo *)

\* Function f with value v at k, which may be new.
With(f, k, v) == [x \in DOMAIN f \cup {k} |-> IF x = k THEN v ELSE f[x]]

branch_exists(b) == b \in DOMAIN heads

PendingOf(b) == {k \in DOMAIN pending : k[1] = b}

\* Mutant: the map is keyed by path alone, so every branch sees every write.
write_file_Shared(b, p, body) ==
    pending' = [k \in DOMAIN pending \cup {<<c, p>> : c \in DOMAIN heads} |->
                   IF k[2] = p THEN body ELSE pending[k]]

\* write_file: the body waits in the shared map, keyed by branch and path.
write_file(b, p, body) == pending' = With(pending, <<b, p>>, body)

\* The tree a commit would have: the parent's with the pending writes of the
\* branch on top.
commit_tree(b) ==
    [p \in Paths |-> IF <<b, p>> \in DOMAIN pending THEN pending[<<b, p>>]
                                                    ELSE heads[b].tree[p]]

\* The end of commit: the branch points at the new commit and its pending
\* writes are dropped.
set_commit(b, tip, tree) ==
    /\ heads' = [heads EXCEPT ![b].tip = tip, ![b].tree = tree]
    /\ pending' = [k \in DOMAIN pending \ PendingOf(b) |-> pending[k]]

\* create_head writes the ref file.  A file that is already there is an
\* error only when it names another commit.
create_head_ok(b) == branch_exists(b) => heads[b].tip = heads[Main].tip

create_head(b) ==
    heads' = With(heads, b, [tip |-> heads[Main].tip, base |-> heads[Main].tree,
                             tree |-> heads[Main].tree])

\* detect_merge_conflict: both sides changed a file since the merge base,
\* differently.
detect_merge_conflict(b) ==
    \E p \in Paths :
        LET h == heads[b]  m == heads[Main].tree
        IN  m[p] # h.base[p] /\ h.tree[p] # h.base[p] /\ m[p] # h.tree[p]

\* read_file: the prompts of a branch are those of main; drafts add none.
HasFile(p) == p \in Paths
read_file(p, b) == heads[b].tree[p]

-----------------------------------------------------------------------------
(* POST /admin/prompts/{path}/draft *)

\* _safe_relative_path and _safe_prompt_name: absolute names and names with
\* ".." or nothing left are refused.
safe_path(a) == a.path # "unsafe"

\* The checks of the draft route that touch neither git nor the clock.
DraftRefusal(a) ==
    IF ~ safe_path(a) THEN 400
    ELSE IF a.body = "huge" THEN 413
    ELSE IF a.body = "broken" THEN 422
    ELSE 0

RefuseDraft(r) ==
    /\ Starts(r, "draft") /\ wired
    /\ DraftRefusal(ask[r]) # 0
    /\ Answer(r, DraftRefusal(ask[r]))
    /\ IF DraftRefusal(ask[r]) = 422
       THEN insert_audit(AuditRow(r, "prompt_render_failed", "error", None, None))
       ELSE Quiet
    /\ UNCHANGED promptVars

\* _draft_branch_name: the sanitised actor and the second.
draft_branch_name(a) == <<SafeName[a.who], now, 0>>

\* The prompt must exist on main; the draft route edits, it does not add.
StartDraft(r) ==
    /\ Starts(r, "draft") /\ wired
    /\ DraftRefusal(ask[r]) = 0
    /\ IF HasFile(ask[r].path)
       THEN q' = [q EXCEPT ![r] = Into(r, [@ EXCEPT !.pc = "name",
                                                    !.br = draft_branch_name(ask[r])])]
       ELSE Answer(r, 404)
    /\ Quiet
    /\ UNCHANGED promptVars

\* create_branch_from_main, its check: a taken name gets one retry with the
\* suffix.
CheckBranch(r) ==
    /\ At(r, "draft", "name")
    /\ IF ~ branch_exists(q[r].br) THEN Goto(r, "create")
       ELSE IF q[r].br[3] = 0 THEN q' = [q EXCEPT ![r].br[3] = 1]
       ELSE Answer(r, 409)
    /\ Quiet
    /\ UNCHANGED promptVars

\* create_branch_from_main, its effect, in the same thread but after the
\* check: another thread may have created the branch in between.
CreateBranch(r) ==
    /\ At(r, "draft", "create")
    /\ \/ create_head_ok(q[r].br) /\ create_head(q[r].br) /\ Goto(r, "write")
       \/ ~ create_head_ok(q[r].br) /\ UNCHANGED heads /\ Answer(r, 500)
    /\ Quiet
    /\ UNCHANGED <<pending, runs, prs, versions, merges, now>>

WriteDraft(r) ==
    /\ At(r, "draft", "write")
    /\ write_file(q[r].br, ask[r].path, ask[r].body)
    /\ Goto(r, "build")
    /\ Quiet
    /\ UNCHANGED <<heads, runs, prs, versions, merges, now>>

\* commit, first half: nothing staged is an error; git may fail.
BuildCommit(r) ==
    /\ At(r, "draft", "build")
    /\ \/ PendingOf(q[r].br) # {} /\ Read(r, "set", commit_tree(q[r].br)) /\ Works
       \/ PendingOf(q[r].br) = {} /\ Answer(r, 500) /\ Works
       \/ Fault /\ Answer(r, 500)
    /\ UNCHANGED audit
    /\ UNCHANGED promptVars

\* commit, second half, the audit row and the answer.
SetHead(r) ==
    /\ At(r, "draft", "set")
    /\ set_commit(q[r].br, <<"draft", r>>, q[r].old)
    /\ Answer(r, 201)
    /\ insert_audit(AuditRow(r, "prompt_draft_created", "ok", None, q[r].br))
    /\ UNCHANGED <<runs, prs, versions, merges, now>>

-----------------------------------------------------------------------------
(* POST /admin/prompts/{path}/sandbox-test *)

SandboxBody(a, b) == IF a.mode = "branch" THEN read_file(a.path, b) ELSE a.body

\* Exactly one of body and branch; a branch must be a draft, exist and hold
\* the prompt; the text to run must be a valid template, wherever it comes from
\* (the commit route puts text on a branch without looking at it).
SandboxRefusal(a, b) ==
    IF ~ safe_path(a) \/ a.mode = "both" THEN 400
    ELSE IF a.mode = "branch" /\ ~ IsDraft(b) THEN 400
    ELSE IF a.mode = "branch" /\ (~ branch_exists(b) \/ a.path \notin Paths) THEN 404
    ELSE IF SandboxBody(a, b) = "broken" THEN 422
    ELSE 0

\* The caller names a branch it knows of: one that exists, main or a stale one.
StartSandbox(r) ==
    /\ Starts(r, "sandbox") /\ wired
    /\ \E b \in DOMAIN heads \cup {Missing} :
          IF SandboxRefusal(ask[r], b) # 0
          THEN Answer(r, SandboxRefusal(ask[r], b))
          ELSE q' = [q EXCEPT ![r] = Into(r, [@ EXCEPT
                        !.pc = "llm",
                        !.br = IF ask[r].mode = "branch" THEN b ELSE None,
                        !.old = SandboxBody(ask[r], b)])]
    /\ Quiet
    /\ UNCHANGED promptVars

\* _record_sandbox_run: the row of a run that went through.
record_sandbox_run(r) ==
    [id |-> r, path |-> ask[r].path, branch |-> q[r].br, body |-> q[r].old]

\* PromptSandbox.run: the model answers or raises; a lost cost entry is
\* ignored.  Then the row is inserted, or the insert fails and the caller
\* gets the answer without a run id.
RunSandbox(r) ==
    /\ At(r, "sandbox", "llm")
    /\ \/ Fault /\ Answer(r, 500) /\ UNCHANGED <<audit, runs>>
       \/ Fault /\ Answer(r, NoEffect) /\ UNCHANGED runs
          /\ audit' = audit \cup {AuditRow(r, "prompt_sandbox_run_recorded", "error", None, None)}
       \/ runs' = runs \cup {record_sandbox_run(r)}
          /\ Answer(r, 200)
          /\ insert_audit(AuditRow(r, "prompt_sandbox_run_recorded", "ok", None, r))
    /\ UNCHANGED <<heads, pending, prs, versions, merges, now>>

-----------------------------------------------------------------------------
(* POST /admin/prompts/{path}/pr and /promote *)

\* What both routes check of path and branch before they open a pull request.
BranchRefusal(a, b) ==
    IF ~ safe_path(a) \/ ~ IsDraft(b) THEN 400
    ELSE IF ~ branch_exists(b) THEN 404
    ELSE IF detect_merge_conflict(b) THEN 409
    ELSE 0

\* A refused branch is answered, a conflict is audited too.
RefuseBranch(r, b) ==
    /\ BranchRefusal(ask[r], b) # 0
    /\ Answer(r, BranchRefusal(ask[r], b))
    /\ IF BranchRefusal(ask[r], b) = 409
       THEN insert_audit(AuditRow(r, "prompt_pr_conflict", "error", None, b))
       ELSE Quiet

AcceptBranch(r, b, run) ==
    /\ BranchRefusal(ask[r], b) = 0
    /\ q' = [q EXCEPT ![r] = Into(r, [@ EXCEPT !.pc = "open", !.br = b, !.old = run])]
    /\ Quiet

StartPr(r) ==
    /\ Starts(r, "pr") /\ wired
    /\ \E b \in DOMAIN heads \cup {Missing} : RefuseBranch(r, b) \/ AcceptBranch(r, b, None)
    /\ UNCHANGED promptVars

\* promote looks the run up first: an unknown id ends the request.  The check
\* of the column passed never refuses, since only runs that passed are
\* inserted.  Neither
\* the prompt nor the branch of the run is compared with the request's.
PromotableRuns == {x.id : x \in runs}

StartPromote(r) ==
    /\ Starts(r, "promote") /\ wired
    /\ \/ Fault /\ Answer(r, 502) /\ UNCHANGED audit
       \/ \E id \in Reqs :
            \/ id \notin PromotableRuns /\ Answer(r, 404) /\ Quiet
            \/ /\ id \in PromotableRuns
               /\ \E b \in DOMAIN heads \cup {Missing} :
                     RefuseBranch(r, b) \/ AcceptBranch(r, b, id)
    /\ UNCHANGED promptVars

\* BitbucketPullRequestOpener.open: the pull request exists afterwards, or
\* the other side reports a conflict, or the call fails.
PullRequest(r, b) == [by |-> r, path |-> ask[r].path, src |-> b, run |-> q[r].old,
                      body |-> read_file(ask[r].path, b), merged |-> FALSE]

\* The adapter for Bitbucket: opened, a conflict there, or a failure.
open_pr(r, action) ==
    \/ /\ prs' = prs \cup {PullRequest(r, q[r].br)}
       /\ Answer(r, 201)
       /\ insert_audit(AuditRow(r, action, "ok", None, q[r].br))
    \/ /\ Fault /\ Answer(r, 409)
       /\ audit' = audit \cup {AuditRow(r, "prompt_pr_conflict", "error", None, q[r].br)}
       /\ UNCHANGED prs
    \/ Fails(r, 502) /\ UNCHANGED prs

OpenPr(r) ==
    /\ q[r].pc = "open"
    /\ \/ ask[r].op = "pr" /\ open_pr(r, "prompt_pr_opened")
       \/ ask[r].op = "promote" /\ open_pr(r, "prompt_promoted")
    /\ UNCHANGED <<heads, pending, runs, versions, merges, now>>

-----------------------------------------------------------------------------
(* POST /api/v1/prompts/{name}/commit *)

CommitRefusal(a) ==
    IF ~ safe_path(a) THEN 400
    ELSE IF a.body = "huge" THEN 413
    ELSE IF a.path \in Paths /\ heads[Main].tree[a.path] = a.body THEN 409
    ELSE 0

\* The body is compared with the file in the workspace before anything is
\* written.
StartCommit(r) ==
    /\ Starts(r, "commit") /\ wired
    /\ IF CommitRefusal(ask[r]) # 0 THEN Answer(r, CommitRefusal(ask[r]))
                                    ELSE Goto(r, "commit")
    /\ Quiet
    /\ UNCHANGED promptVars

\* The committer is an adapter: it puts the body on a branch of its own.
CommitBranch(r) == <<"commit", 0, r>>

CommitPrompt(r) ==
    /\ At(r, "commit", "commit")
    /\ \/ /\ heads' = With(heads, CommitBranch(r),
                 [tip |-> <<"commit", r>>, base |-> heads[Main].tree,
                  tree |-> [heads[Main].tree EXCEPT ![ask[r].path] = ask[r].body]])
          /\ Goto(r, "pr") /\ Works
       \/ Fault /\ Answer(r, 502) /\ UNCHANGED heads
    /\ UNCHANGED audit
    /\ UNCHANGED <<pending, runs, prs, versions, merges, now>>

CommitPr(r) ==
    /\ At(r, "commit", "pr")
    /\ \/ /\ prs' = prs \cup {PullRequest(r, CommitBranch(r))}
          /\ Goto(r, "version") /\ Works
       \/ Fault /\ Answer(r, 502) /\ UNCHANGED prs
    /\ UNCHANGED audit
    /\ UNCHANGED <<heads, pending, runs, versions, merges, now>>

\* uq_prompt_versions_name_hash: a row for this text of the prompt is there.
AlreadyVersioned(a) == \E v \in versions : v.path = a.path /\ v.body = a.body

\* The version row.  Text that was versioned before, by a commit at the same
\* time or by one that main has since moved away from, is refused by the unique
\* index after the pull request was opened, without an audit row; a failed
\* insert may have taken effect.
CommitVersion(r) ==
    LET grown == versions \cup {[by |-> r, path |-> ask[r].path, body |-> ask[r].body]} IN
    /\ At(r, "commit", "version")
    /\ \/ /\ ~ AlreadyVersioned(ask[r])
          /\ versions' = grown
          /\ Answer(r, 201)
          /\ insert_audit(AuditRow(r, "prompt_updated", "ok", None, ask[r].body))
       \/ AlreadyVersioned(ask[r]) /\ Answer(r, 409) /\ Quiet /\ UNCHANGED versions
       \/ /\ Fails(r, 502)
          /\ versions' \in {versions} \cup (IF AlreadyVersioned(ask[r]) THEN {} ELSE {grown})
    /\ UNCHANGED <<heads, pending, runs, prs, merges, now>>

-----------------------------------------------------------------------------
(* Reads, and the world outside. *)

\* POST /api/v1/prompts/{name}/sandbox: the body goes to the model; nothing
\* is kept.
SandboxInline(r) ==
    /\ Starts(r, "try") /\ wired
    /\ \/ ask[r].body = "huge" /\ Answer(r, 413) /\ Works
       \/ ask[r].body # "huge" /\ Answer(r, 200) /\ Works
       \/ ask[r].body # "huge" /\ Fault /\ Answer(r, 502)
    /\ UNCHANGED audit
    /\ UNCHANGED promptVars

\* list_prompts: the files of main, read in one call.
ListPrompts(r) ==
    /\ Starts(r, "list") /\ wired
    /\ Answer(r, 200) /\ Quiet
    /\ UNCHANGED promptVars

\* GET /admin/prompts/{path}: body and commit are read in two thread calls.
ReadBody(r) ==
    /\ Starts(r, "read") /\ wired
    /\ IF ~ safe_path(ask[r]) THEN Answer(r, 400)
       ELSE IF ~ HasFile(ask[r].path) THEN Answer(r, 404)
       ELSE Read(r, "sha", [body |-> read_file(ask[r].path, Main), tip |-> None])
    /\ Quiet
    /\ UNCHANGED promptVars

ReadSha(r) ==
    /\ At(r, "read", "sha")
    /\ q' = [q EXCEPT ![r].pc = "done", ![r].reply = 200, ![r].old.tip = heads[Main].tip]
    /\ Quiet
    /\ UNCHANGED promptVars

\* A collaborator that was not attached at start-up is answered with 503.
PromptOps == {"draft", "sandbox", "pr", "promote", "commit", "try", "read", "list"}

NotReady(r) ==
    /\ q[r].pc = "idle" /\ ~ wired /\ ask[r].op \in PromptOps
    /\ Answer(r, 503)
    /\ Quiet
    /\ UNCHANGED promptVars

\* A reviewer merges a pull request that does not conflict.
Merge ==
    /\ merges > 0 /\ merges' = merges - 1
    /\ \E x \in prs :
          /\ ~ x.merged /\ ~ detect_merge_conflict(x.src)
          /\ heads' = [heads EXCEPT ![Main] =
                [tip |-> <<"main", merges>>, base |-> @.base,
                 tree |-> [p \in Paths |-> IF heads[x.src].tree[p] # heads[x.src].base[p]
                                           THEN heads[x.src].tree[p] ELSE @.tree[p]]]]
          /\ prs' = (prs \ {x}) \cup {[x EXCEPT !.merged = TRUE]}
    /\ UNCHANGED reqVars
    /\ UNCHANGED <<pending, runs, versions, now>>

Tick ==
    /\ now < MaxNow /\ now' = now + 1
    /\ UNCHANGED reqVars
    /\ UNCHANGED <<heads, pending, runs, prs, versions, merges>>

PromptStep(r) ==
    \/ NotReady(r) \/ RefuseDraft(r) \/ StartDraft(r) \/ CheckBranch(r) \/ CreateBranch(r)
    \/ WriteDraft(r) \/ BuildCommit(r) \/ SetHead(r)
    \/ StartSandbox(r) \/ RunSandbox(r)
    \/ StartPr(r) \/ StartPromote(r) \/ OpenPr(r)
    \/ StartCommit(r) \/ CommitPrompt(r) \/ CommitPr(r) \/ CommitVersion(r)
    \/ SandboxInline(r) \/ ListPrompts(r) \/ ReadBody(r) \/ ReadSha(r)

-----------------------------------------------------------------------------
(* Properties *)

Drafted(r) == ask[r].op = "draft" /\ q[r].reply = 201

\* Two drafts ended up on one branch: the same second, the same sanitised
\* actor, and both existence checks before either branch was created.
Collided(b) ==
    \E r, s \in Reqs :
        /\ r # s /\ ask[r].op = "draft" /\ ask[s].op = "draft"
        /\ q[r].br = b /\ q[s].br = b /\ Overlap(r, s)

\* A draft that was answered with 201 is on its branch and stays there,
\* whatever other drafts, merges and promotions do, unless a draft that was
\* running at the same time got the same branch name.
SettledDraftsAreKept ==
    \A r \in Reqs : Drafted(r) =>
        \/ Collided(q[r].br)
        \/ heads[q[r].br].tree[ask[r].path] = ask[r].body

\* A promoted pull request names a sandbox run whose row is in the database:
\* a run whose insert failed, or none at all, cannot be promoted.
PromotedRunsAreRecorded ==
    \A x \in prs : ask[x.by].op = "promote" => \E y \in runs : y.id = x.run

\* The branch was named to the sandbox before its draft was answered.
StillDrafting(b, s) == \E r \in Reqs : ask[r].op = "draft" /\ q[r].br = b /\ Overlap(r, s)

\* When the run named by a promotion was made on the promoted branch and
\* prompt, what the pull request proposes is what the sandbox ran: a branch
\* does not change between its test and its promotion.
PromotedIsWhatWasTested ==
    \A x \in prs, y \in runs :
        (ask[x.by].op = "promote" /\ y.id = x.run /\ y.branch = x.src /\ y.path = x.path)
            => y.body = x.body \/ Collided(x.src) \/ StillDrafting(x.src, y.id)

\* Every row of prompt_versions belongs to a pull request that proposes
\* exactly that content, and is the only row for it: of two commits of the same
\* text one is recorded, though both have a pull request.
VersionsHavePullRequests ==
    \A v \in versions :
        /\ \E x \in prs :
              x.by = v.by /\ x.path = v.path /\ heads[x.src].tree[v.path] = v.body
        /\ \A w \in versions : (w.path = v.path /\ w.body = v.body) => w = v

\* From draft to promotion: what was drafted stays, what is promoted was tested
\* and recorded, and what is listed as a version was proposed.
PromptsAreTraceable ==
    /\ SettledDraftsAreKept
    /\ PromotedRunsAreRecorded
    /\ PromotedIsWhatWasTested
    /\ VersionsHavePullRequests

=============================================================================
