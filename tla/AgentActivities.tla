-------------------------- MODULE AgentActivities --------------------------
(***************************************************************************)
(* The activities of the agent runner: the code generator's sessions, the  *)
(* Git commit, branches, pull requests, comments and pages, attachments    *)
(* and stored artifacts, work items, the scan before a commit, the         *)
(* compensation chain and the calls of the language model.  Temporal runs  *)
(* an activity again when an attempt raises or its worker dies, so that a  *)
(* call whose answer is lost is made twice.                                *)
(***************************************************************************)
EXTENDS Jobs

CONSTANTS
    Paths           \* repository-relative paths

VARIABLES
    sessions,       \* open sessions of the code generator: <<job, attempt>>
    remote,         \* remote[b]: the tree of branch b, path -> content, or None
    posts,          \* what was created elsewhere: [what, by, try]
    temps,          \* temporary files and clones on disk: <<job, attempt>>
    item,           \* the row of automation.work_items, or None
    bucket,         \* the artifact bucket exists
    objects,        \* the artifacts in it
    assignee,       \* the assignee of the issue
    unsure          \* jobs that lost an answer or a worker (history)

actVars == <<sessions, remote, posts, temps, item, bucket, objects, assignee, unsure>>
repoSide == <<sessions, remote, temps>>
rowSide == <<item, bucket, objects, assignee>>

Empty == [p \in Paths |-> None]

ActInit(mix) ==
    /\ sessions = {} /\ posts = {} /\ temps = {} /\ unsure = {}
    /\ remote = mix.remote /\ item = mix.item
    /\ bucket = mix.bucket /\ objects = {} /\ assignee = None

Writes == {"open_pr", "remark", "page", "revise", "comment", "transition"}
Reads == {"get_issue", "get_page", "fetch_diff", "children", "link"}
Thinks == {"analyze", "generate", "describe", "document", "review", "research", "search", "scrape"}
ActOps == Writes \cup Reads \cup Thinks
          \cup {"opencode", "commit", "branch", "drop", "attach", "upload", "download", "erase", "status",
                "scan", "compensate", "assign"}

Here(x, o, pc) == At(x, o, pc) /\ Quiet
Move(x, pc) == Set(x, [job[x] EXCEPT !.pc = pc])
Trying(x) == <<x, job[x].try>>

\* Attempts of the policies: the calls of the language model are made once.
Attempts(x) == IF ask[x].op \in Thinks THEN 1 ELSE MaxAttempts

\* The attempt raises: Temporal starts the next one, or the workflow gets the error.
Raises(x) ==
    Set(x, IF job[x].try < Attempts(x)
           THEN [job[x] EXCEPT !.pc = "run", !.try = @ + 1]
           ELSE [job[x] EXCEPT !.pc = "end", !.out = "raised"])

Sure == UNCHANGED unsure
Unsure(x) == unsure' = unsure \cup {x}

ActBegins(x) ==
    /\ ask[x].op \in ActOps /\ job[x].pc = "idle" /\ Move(x, "run")
    /\ Works /\ Quiet /\ UNCHANGED actVars

\* The worker dies with the attempt: no finally clause runs.
WorkerDies(x) ==
    /\ ask[x].op \in ActOps /\ job[x].pc \notin {"idle", "end"}
    /\ Fault /\ Raises(x) /\ Unsure(x) /\ Quiet
    /\ UNCHANGED <<repoSide, rowSide, posts>>

-----------------------------------------------------------------------------
(* opencode_generate_code *)

\* A refused or unanswered POST /session leaves session_id unset: nothing to delete.
CreateSession(x) ==
    /\ Here(x, "opencode", "run") /\ UNCHANGED <<remote, posts, temps, rowSide>>
    /\ \/ Works /\ Sure /\ sessions' = sessions \cup {Trying(x)} /\ Move(x, "message")
       \/ Fault /\ Raises(x) /\ UNCHANGED sessions /\ Sure
       \/ Fault /\ Raises(x) /\ sessions' = sessions \cup {Trying(x)} /\ Unsure(x)

SendMessage(x) ==
    /\ Here(x, "opencode", "message") /\ UNCHANGED actVars
    /\ \/ Works /\ Move(x, "diff")
       \/ Fault /\ Move(x, "abort")

FirstNonEmpty(answer) ==
    CASE answer.message # {} -> answer.message
      [] answer.message = {} /\ answer.diff # {} -> answer.diff
      [] answer.message = {} /\ answer.diff = {} /\ answer.text # {} -> answer.text
      [] OTHER -> answer.recent

\* _safe_relative_path: no absolute path and no "..".
Safe(entries) == {e \in entries : e.safe}

\* The entries of the answer, else those of the diff, else the paths in its text,
\* else the files of the workspace changed since; an entry without content takes
\* the file's, and goes with neither.
CommitFiles(answer) == {e \in Safe(FirstNonEmpty(answer)) : e.action = "delete" \/ e.text # None \/ e.onDisk}

FetchDiff(x) ==
    /\ Here(x, "opencode", "diff") /\ UNCHANGED actVars
    /\ \/ Works /\ Set(x, [job[x] EXCEPT !.pc = "delete", !.got = CommitFiles(ask[x].answer)])
       \/ Fault /\ Move(x, "abort")

\* The first DELETE: any answer counts as cleaned, whatever its status.
DeleteSession(x) ==
    /\ Here(x, "opencode", "delete") /\ UNCHANGED <<remote, posts, temps, rowSide>>
    /\ \/ Works /\ sessions' = sessions \ {Trying(x)} /\ Sure /\ End(x, "ok")
       \/ Fault /\ UNCHANGED sessions /\ Unsure(x) /\ End(x, "ok")
       \/ Fault /\ UNCHANGED sessions /\ Sure /\ Move(x, "again")

\* The finally clause deletes a session that was not cleaned, once.
FinallyDelete(x) ==
    /\ Quiet /\ UNCHANGED <<remote, posts, temps, rowSide>>
    /\ \/ Works /\ sessions' = sessions \ {Trying(x)} /\ Sure
       \/ Fault /\ UNCHANGED sessions /\ Unsure(x)
    /\ \/ At(x, "opencode", "again") /\ End(x, "ok")
       \/ At(x, "opencode", "abort") /\ Raises(x)

-----------------------------------------------------------------------------
(* bitbucket_commit_via_git *)

\* What x's changes make of a tree; unsafe paths are left out.
Applied(x, tree) ==
    LET on(p) == {e \in Safe(ask[x].files) : e.path = p}
    IN  [p \in Paths |-> IF on(p) = {} THEN tree[p]
                         ELSE LET e == CHOOSE e \in on(p) : TRUE
                              IN  IF e.action = "delete" THEN None ELSE e.text]

\* A missing credential or repository raises on every attempt; without a safe
\* path there is nothing to do.
CommitBegins(x) ==
    /\ Here(x, "commit", "run") /\ Works /\ UNCHANGED <<sessions, remote, posts, rowSide>> /\ Sure
    /\ CASE ~ask[x].cred -> Raises(x) /\ UNCHANGED temps
         [] ask[x].cred /\ Safe(ask[x].files) = {} -> End(x, "nothing") /\ UNCHANGED temps
         [] OTHER -> Move(x, "clone") /\ temps' = temps \cup {Trying(x)}

\* "auto" and ai/* are no base: the default branch is cloned.
CloneBase(x) == IF ask[x].source \in {"", "auto", "ai/1"} THEN "main" ELSE ask[x].source

\* clone, checkout -B, write, add and commit touch the clone only.  A commit that
\* changes nothing is answered with the head of the clone and not pushed.
CloneAndCommit(x) ==
    /\ Here(x, "commit", "clone") /\ UNCHANGED <<sessions, remote, posts, rowSide>> /\ Sure
    /\ LET tree == remote[CloneBase(x)]
       IN  \/ /\ tree # None /\ Applied(x, tree) # tree /\ Works
              /\ Keep(x, "push", tree) /\ UNCHANGED temps
           \/ /\ tree # None /\ Applied(x, tree) = tree /\ Works
              /\ End(x, "same") /\ temps' = temps \ {Trying(x)}
           \/ /\ tree = None /\ Works
              /\ Raises(x) /\ temps' = temps \ {Trying(x)}
           \/ /\ Fault
              /\ Raises(x) /\ temps' = temps \ {Trying(x)}

\* push --force replaces whatever the branch had.
PushCommit(x) ==
    /\ Here(x, "commit", "push") /\ temps' = temps \ {Trying(x)} /\ UNCHANGED <<sessions, posts, rowSide>>
    /\ \/ /\ Works /\ Sure /\ remote' = [remote EXCEPT ![ask[x].branch] = Applied(x, job[x].val)]
          /\ End(x, "pushed")
       \/ Fault /\ Sure /\ UNCHANGED remote /\ Raises(x)
       \/ /\ Fault /\ Unsure(x) /\ remote' = [remote EXCEPT ![ask[x].branch] = Applied(x, job[x].val)]
          /\ Raises(x)

-----------------------------------------------------------------------------
(* bitbucket_create_branch, bitbucket_delete_branch *)

\* An error whose text has "already" or "409" in it counts as "already exists", which
\* is a success; another error may have such a text too (got tells, for the property).
CreateBranch(x) ==
    /\ Here(x, "branch", "run") /\ UNCHANGED <<sessions, temps, posts, rowSide>>
    /\ LET here == remote[ask[x].branch]
           made == [remote EXCEPT ![ask[x].branch] = remote[ask[x].source]]
       IN  \/ here # None /\ Works /\ Sure /\ UNCHANGED remote /\ End(x, "existed")
           \/ here = None /\ remote[ask[x].source] = None /\ Works /\ Sure /\ UNCHANGED remote /\ Raises(x)
           \/ here = None /\ remote[ask[x].source] # None /\ Works /\ Sure /\ remote' = made /\ End(x, "created")
           \/ here = None /\ Fault /\ Unsure(x) /\ remote' = made /\ Raises(x)
           \/ Fault /\ Sure /\ UNCHANGED remote /\ Raises(x)
           \/ /\ Fault /\ Sure /\ UNCHANGED remote
              /\ Set(x, [job[x] EXCEPT !.pc = "end", !.out = "existed", !.got = {"misread"}])

\* An error whose text has "404" or "not found" in it is a success, whatever it was.
DropBranch(x) ==
    /\ Here(x, "drop", "run") /\ UNCHANGED <<sessions, temps, posts, rowSide>>
    /\ LET gone == [remote EXCEPT ![ask[x].branch] = None]
       IN  \/ Works /\ Sure /\ remote' = gone /\ End(x, "ok")
           \/ Fault /\ Sure /\ UNCHANGED remote /\ End(x, "ok")
           \/ Fault /\ Sure /\ UNCHANGED remote /\ Raises(x)
           \/ Fault /\ Unsure(x) /\ remote' = gone /\ Raises(x)

-----------------------------------------------------------------------------
(* The tools of the MCP server *)

\* How a call_mcp_tool ends: with its result; with a transport error, before or
\* after the server acted; with a status >= 400; with an answer that is neither
\* JSON nor an event stream, or that is an error.
Outcomes == {"result", "lost", "refused", "garbled", "error"}
Acted == {"result", "lost", "garbled"}

\* All but the result raise.
parse_jsonrpc_result(x, outcome) == IF outcome = "result" THEN End(x, "ok") ELSE Raises(x)

Post(x) == posts' = posts \cup {[what |-> ask[x].op, by |-> x, try |-> job[x].try]}

\* A tool that creates something.
WriteTool(x, o) ==
    /\ Here(x, o, "run") /\ UNCHANGED <<repoSide, rowSide>>
    /\ \E outcome \in Outcomes :
           /\ IF outcome = "result" THEN Works ELSE Fault
           /\ IF outcome \in Acted THEN Post(x) ELSE UNCHANGED posts
           /\ IF outcome \in Acted \ {"result"} THEN Unsure(x) ELSE Sure
           /\ parse_jsonrpc_result(x, outcome)

ReadTool(x, o) ==
    /\ Here(x, o, "run") /\ UNCHANGED actVars
    /\ \/ Works /\ End(x, "ok")
       \/ Fault /\ Raises(x)

\* _repo_parts and _default_space: what neither the plan nor the department's
\* credential names is missing on every attempt.
Nowhere(x) ==
    /\ ask[x].op \in {"open_pr", "page"} /\ job[x].pc = "run" /\ ~ask[x].target
    /\ Works /\ Raises(x) /\ Quiet /\ UNCHANGED actVars

bitbucket_open_pr(x) == ask[x].op = "open_pr" /\ ask[x].target /\ WriteTool(x, "open_pr")
bitbucket_add_pr_comment(x) == WriteTool(x, "remark")
bitbucket_fetch_pr_diff(x) == ReadTool(x, "fetch_diff")
confluence_create_page(x) == ask[x].op = "page" /\ ask[x].target /\ WriteTool(x, "page")
confluence_update_page(x) == WriteTool(x, "revise")
confluence_get_page(x) == ReadTool(x, "get_page")
jira_add_comment(x) == WriteTool(x, "comment")
jira_transition_issue(x) == WriteTool(x, "transition")
jira_get_issue(x) == ReadTool(x, "get_issue")
jira_list_epic_children(x) == ReadTool(x, "children")

\* The link is best effort: without a credential or its URL it is empty.
jira_build_issue_link(x) ==
    /\ Here(x, "link", "run") /\ UNCHANGED actVars
    /\ \/ Works /\ End(x, IF ask[x].target THEN "ok" ELSE "empty")
       \/ Fault /\ End(x, "empty")

\* set_assignee_to_bot: an account that is only the department's name is asked
\* for; without an answer the assignment is skipped.
AssignBegins(x) ==
    /\ Here(x, "assign", "run") /\ UNCHANGED actVars
    /\ CASE ask[x].account = None -> Works /\ Raises(x)
         [] ask[x].account = "dept" -> \/ Works /\ Keep(x, "set", "bot")
                                       \/ Works /\ End(x, "skipped")
                                       \/ Fault /\ End(x, "skipped")
         [] OTHER -> Works /\ Keep(x, "set", ask[x].account)

Assign(x) ==
    /\ Here(x, "assign", "set") /\ UNCHANGED <<repoSide, posts, item, bucket, objects>>
    /\ \/ Works /\ Sure /\ assignee' = job[x].val /\ End(x, "ok")
       \/ Fault /\ Sure /\ UNCHANGED assignee /\ Raises(x)
       \/ Fault /\ Unsure(x) /\ assignee' = job[x].val /\ Raises(x)

\* compensation_chain_run: five of the six steps are skipped by design, and the
\* comment too without an issue; its failure is a step result, never an error.
Compensate(x) ==
    /\ Here(x, "compensate", "run") /\ UNCHANGED <<repoSide, rowSide>>
    /\ IF ~ask[x].target THEN Works /\ Sure /\ UNCHANGED posts /\ End(x, "skipped")
       ELSE \/ Works /\ Sure /\ Post(x) /\ End(x, "ok")
            \/ Fault /\ Sure /\ UNCHANGED posts /\ End(x, "failed")
            \/ Fault /\ Unsure(x) /\ Post(x) /\ End(x, "failed")

-----------------------------------------------------------------------------
(* upload_artifact_to_jira, artifact_upload, artifact_download, artifact_delete *)

\* A wrong extension and a failed download end the attempt with an answer.
AttachBegins(x) ==
    /\ Here(x, "attach", "run") /\ UNCHANGED <<sessions, remote, posts, rowSide>> /\ Sure
    /\ CASE ask[x].ext = "exe" -> Works /\ End(x, "unsupported_format") /\ UNCHANGED temps
         [] ask[x].ext # "exe" /\ ask[x].key \notin objects ->
                Works /\ End(x, "artifact_download_failed") /\ UNCHANGED temps
         [] ask[x].ext # "exe" /\ ask[x].key \in objects /\ ask[x].big ->
                Works /\ End(x, "file_too_large") /\ UNCHANGED temps
         [] OTHER -> \/ Works /\ Move(x, "send") /\ temps' = temps \cup {Trying(x)}
                     \/ Fault /\ End(x, "artifact_download_failed") /\ UNCHANGED temps

\* The finally clause unlinks the file.  A status >= 400 and an answer that cannot
\* be read end with an error code; only a transport error raises.
AttachSend(x) ==
    /\ Here(x, "attach", "send") /\ temps' = temps \ {Trying(x)} /\ UNCHANGED <<sessions, remote, rowSide>>
    /\ \/ Works /\ Sure /\ Post(x) /\ End(x, "ok")
       \/ Fault /\ Sure /\ UNCHANGED posts /\ End(x, "upload_failed")
       \/ Fault /\ Unsure(x) /\ Post(x) /\ End(x, "upload_failed")
       \/ Fault /\ Sure /\ UNCHANGED posts /\ Raises(x)
       \/ Fault /\ Unsure(x) /\ Post(x) /\ Raises(x)

\* _ensure_bucket_exists: head_bucket, then create_bucket.
HeadBucket(x) ==
    /\ Here(x, "upload", "run") /\ UNCHANGED actVars
    /\ \/ Works /\ Move(x, IF bucket THEN "put" ELSE "create")
       \/ Fault /\ Raises(x)

\* Creating a bucket that another upload made meanwhile is an error.
CreateBucket(x) ==
    /\ Here(x, "upload", "create") /\ UNCHANGED <<repoSide, posts, item, objects, assignee>> /\ Sure
    /\ IF bucket THEN Works /\ Raises(x) /\ UNCHANGED bucket
       ELSE \/ Works /\ bucket' = TRUE /\ Move(x, "put")
            \/ Fault /\ UNCHANGED bucket /\ Raises(x)

PutObject(x) ==
    /\ Here(x, "upload", "put") /\ UNCHANGED <<repoSide, posts, item, bucket, assignee>>
    /\ \/ Works /\ Sure /\ objects' = objects \cup {ask[x].key} /\ End(x, "ok")
       \/ Fault /\ Sure /\ UNCHANGED objects /\ Raises(x)
       \/ Fault /\ Unsure(x) /\ objects' = objects \cup {ask[x].key} /\ Raises(x)

Download(x) ==
    /\ Here(x, "download", "run") /\ UNCHANGED actVars
    /\ \/ Works /\ (IF ask[x].key \in objects THEN End(x, "ok") ELSE Raises(x))
       \/ Fault /\ Raises(x)

\* A missing object is a success.
Erase(x) ==
    /\ Here(x, "erase", "run") /\ UNCHANGED <<repoSide, posts, item, bucket, assignee>>
    /\ \/ Works /\ Sure /\ objects' = objects \ {ask[x].key} /\ End(x, "ok")
       \/ Fault /\ Sure /\ UNCHANGED objects /\ Raises(x)
       \/ Fault /\ Unsure(x) /\ objects' = objects \ {ask[x].key} /\ Raises(x)

-----------------------------------------------------------------------------
(* update_work_item_status, precommit_scanner *)

ForwardEdges == {<<"pending", "running">>, <<"pending", "failed">>, <<"running", "completed">>, <<"running", "failed">>}

is_valid_work_item_transition(from, to) == from = to \/ <<from, to>> \in ForwardEdges

\* One transaction with the row locked FOR UPDATE.
UpdateStatus(x) ==
    /\ Here(x, "status", "run") /\ UNCHANGED <<repoSide, posts, bucket, objects, assignee>>
    /\ LET allowed == item # None /\ is_valid_work_item_transition(item, ask[x].to)
       IN  \/ allowed /\ Works /\ Sure /\ item' = ask[x].to /\ End(x, "ok")
           \/ allowed /\ Fault /\ Unsure(x) /\ item' = ask[x].to /\ Raises(x)
           \/ ~allowed /\ Works /\ Sure /\ UNCHANGED item /\ Raises(x)
           \/ Fault /\ Sure /\ UNCHANGED item /\ Raises(x)

\* scan_diff blocks when a pattern matches; the audit row is best effort.
Scan(x) ==
    /\ At(x, "scan", "run") /\ UNCHANGED actVars
    /\ IF ask[x].matched = {} THEN Works /\ Quiet /\ End(x, "pass")
       ELSE BestEffortAudit(x, "precommit_secret_leak_blocked", "denied") /\ End(x, "block")

-----------------------------------------------------------------------------
(* The language model and the web search *)

\* llm_research searches first, when it may; a failed search is an empty one.
Search(x) ==
    /\ Here(x, "research", "run") /\ UNCHANGED actVars
    /\ \/ Works /\ Keep(x, "model", IF ask[x].web THEN "found" ELSE None)
       \/ ask[x].web /\ Works /\ Keep(x, "model", None)
       \/ ask[x].web /\ Fault /\ Keep(x, "model", None)

\* A failure finds nothing.
firecrawl_search(x) ==
    /\ Here(x, "search", "run") /\ UNCHANGED actVars
    /\ \/ Works /\ End(x, "ok")
       \/ Fault /\ End(x, "empty")

\* A failure and a blocked address are kinds of answer.
firecrawl_scrape(x) ==
    /\ Here(x, "scrape", "run") /\ UNCHANGED actVars
    /\ \/ Works /\ End(x, "success")
       \/ Works /\ End(x, "egress_blocked")
       \/ Fault /\ End(x, "error")

\* The provider answers or raises.  _parse_json_from_llm strips a fence and loads
\* the rest: "parsed" when that is JSON.
Complete(x, o, pc, parsed, unparsed) ==
    /\ Here(x, o, pc) /\ UNCHANGED actVars
    /\ \/ Fault /\ Raises(x)
       \/ Works /\ End(x, parsed)
       \/ Works /\ (IF unparsed = "raised" THEN Raises(x) ELSE End(x, unparsed))

\* Only the analysis needs JSON; the others take the answer as it stands.
llm_analyze_task(x) == Complete(x, "analyze", "run", "ok", "raised")
llm_generate_code(x) == Complete(x, "generate", "run", "ok", "no_files")
llm_generate_pr_description(x) == Complete(x, "describe", "run", "ok", "ok")
llm_generate_doc(x) == Complete(x, "document", "run", "ok", "untitled")
llm_review_code(x) == Complete(x, "review", "run", "ok", "comment")
llm_research(x) ==
    LET out == IF job[x].val = None THEN "unsourced" ELSE "sourced" IN Complete(x, "research", "model", out, out)

ActStep(x) ==
    \/ ActBegins(x) \/ WorkerDies(x)
    \/ CreateSession(x) \/ SendMessage(x) \/ FetchDiff(x) \/ DeleteSession(x) \/ FinallyDelete(x)
    \/ CommitBegins(x) \/ CloneAndCommit(x) \/ PushCommit(x) \/ CreateBranch(x) \/ DropBranch(x)
    \/ Nowhere(x) \/ bitbucket_open_pr(x) \/ bitbucket_add_pr_comment(x) \/ bitbucket_fetch_pr_diff(x)
    \/ confluence_create_page(x) \/ confluence_update_page(x) \/ confluence_get_page(x)
    \/ jira_add_comment(x) \/ jira_transition_issue(x) \/ jira_get_issue(x) \/ jira_list_epic_children(x)
    \/ jira_build_issue_link(x) \/ AssignBegins(x) \/ Assign(x) \/ Compensate(x)
    \/ AttachBegins(x) \/ AttachSend(x) \/ HeadBucket(x) \/ CreateBucket(x) \/ PutObject(x)
    \/ Download(x) \/ Erase(x) \/ UpdateStatus(x) \/ Scan(x)
    \/ Search(x) \/ firecrawl_search(x) \/ firecrawl_scrape(x)
    \/ llm_analyze_task(x) \/ llm_generate_code(x) \/ llm_generate_pr_description(x)
    \/ llm_generate_doc(x) \/ llm_review_code(x) \/ llm_research(x)

-----------------------------------------------------------------------------
Finished(x, o, out) == ask[x].op = o /\ job[x].pc = "end" /\ job[x].out = out

\* What an attempt opens it closes: a session, a clone or a temporary file outlives
\* its job only when a worker died or an answer was lost.
AttemptsCleanUp ==
    \A x \in Jobs : Ended(x) /\ x \notin unsure =>
        \A n \in 1..MaxAttempts : <<x, n>> \notin sessions \cup temps

\* A retried activity creates one pull request, comment, page, transition or
\* attachment; two only when an answer or a worker was lost in between, and one
\* that answers "ok" has created it.
RetriesCreateOnce ==
    \A x \in Jobs :
        LET mine == {p \in posts : p.by = x}
        IN  /\ Cardinality(mine) > 1 => x \in unsure
            /\ Ended(x) /\ ask[x].op \in Writes \cup {"attach", "compensate"} /\ job[x].out = "ok" => mine # {}

\* Jobs that write branch b, x aside, and did not end before x began.
Rivals(x, b) == {y \in Jobs \ {x} : /\ ask[y].op \in {"commit", "branch", "drop"} /\ ask[y].branch = b
                                    /\ job[y].pc # "idle" /\ y \notin job[x].before}

\* A commit that was answered is the head of its branch: the tree it cloned with
\* the safe changes of one attempt, however often it was retried, until somebody
\* else writes the branch.
AnsweredCommitIsHead ==
    \A x \in Jobs : Finished(x, "commit", "pushed") /\ Rivals(x, ask[x].branch) = {} =>
        remote[ask[x].branch] = Applied(x, job[x].val)

\* Whatever was committed, dropped and created, no branch holds an unsafe path's content.
OnlySafePathsCommitted ==
    \A b \in DOMAIN remote : remote[b] # None =>
        \A x \in Jobs : ask[x].op = "commit" =>
            \A e \in ask[x].files : ~e.safe /\ e.text # None => remote[b][e.path] # e.text

\* A branch that was answered as made or found is there until somebody drops it, over
\* lost answers and retries, unless the text of another error was taken for "found".
AnsweredBranchExists ==
    \A x \in Jobs : ask[x].op = "branch" /\ Ended(x) /\ job[x].out \in {"created", "existed"} /\ job[x].got = {} =>
        remote[ask[x].branch] # None \/ \E y \in Rivals(x, ask[x].branch) : ask[y].op = "drop"

\* A work item that was answered as completed or failed stays so: two jobs are
\* never told two different endings.
OneEndingPerItem ==
    \A x, y \in Jobs : Finished(x, "status", "ok") /\ Finished(y, "status", "ok")
                       /\ ask[x].to \in {"completed", "failed"} /\ ask[y].to \in {"completed", "failed"} =>
        ask[x].to = ask[y].to /\ item = ask[x].to

\* An artifact that was answered as stored is there until somebody erases it.
StoredIsThere ==
    \A x \in Jobs : Finished(x, "upload", "ok") =>
        ask[x].key \in objects
        \/ \E y \in Jobs : ask[y].op = "erase" /\ ask[y].key = ask[x].key /\ job[y].pc # "idle" /\ y \notin job[x].before

=============================================================================
