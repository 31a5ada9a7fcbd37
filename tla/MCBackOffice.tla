---------------------------- MODULE MCBackOffice ----------------------------
(* Up to three jobs at a time: two issues, a cap of three iterations, two   *)
(* pull requests, three branches of which two are the bot's, caps of two.   *)
EXTENDS BackOffice

CONSTANTS x1, x2, x3

Entry(n, c, d) == [name |-> n, compose |-> c, deps |-> d]
Manifest(d) == <<Entry("app", "a", {"db", "ext"}), Entry("db", "b", d)>>
Change(p, t) == [path |-> p, safe |-> TRUE, action |-> "update", text |-> t, onDisk |-> FALSE]
Generated(m, d, t, r) == [message |-> m, diff |-> d, text |-> t, recent |-> r]
Token(k) == [kid |-> k, alg |-> "RS256", sound |-> TRUE, sub |-> "ann", role |-> None, roles |-> {}, groups |-> {"admin"}]
Actor(n, r) == [id |-> n, role |-> r, depts |-> {"d1"}]
Path(k, d) == [kind |-> k, dept |-> d]
Name(n, s) == [name |-> n, spelt |-> s]
Ask(o) ==
    CASE o = "iterate" -> [op |-> o, issue |-> "A-1", who |-> "rep", approvers |-> {"lea"}, reporter |-> "rep"]
      [] o = "supersede" -> [op |-> o, old |-> None, new |-> 0, wf |-> "w"]
      [] o \in ReviewOps -> [op |-> o, role |-> "lead", target |-> {"bot", "mapping", "secret"}, pr |-> 1]
      [] o = "retain" -> [op |-> o, depts |-> {"d1"}]
      [] o \in BudgetOps \cup {"predict"} -> [op |-> o, dept |-> "d1", user |-> TRUE, wf |-> "w", wired |-> TRUE]
      [] o = "notify" -> [op |-> o, wf |-> "w", fails |-> TRUE, onSuccess |-> FALSE, channels |-> {},
                          webhook |-> TRUE, address |-> FALSE]
      [] o = "prune" -> [op |-> o, now |-> 10, env |-> None, flag |-> None, wf |-> "w"]
      [] o = "health" -> [op |-> o, runs |-> 6, carry |-> TRUE]
      [] o = "sync" -> [op |-> o, role |-> "lead", apply |-> TRUE]
      [] o = "slack" -> [op |-> o, kind |-> "mention", mac |-> "good", skew |-> 0, ts |-> None, known |-> TRUE,
                         empty |-> FALSE, msg |-> "m-1"]
      [] o = "chat" -> [op |-> o, fallback |-> TRUE]
      [] o = "admin" -> [op |-> o, production |-> FALSE, devSecrets |-> TRUE, manifest |-> Manifest({}), bots |-> {}]
      [] o = "worker" -> [op |-> o, kind |-> "automation"]
      [] o = "readyz" -> [op |-> o, proc |-> None]
      [] o = "opencode" -> [op |-> o, answer |-> Generated({}, {}, {}, {})]
      [] o = "commit" -> [op |-> o, cred |-> TRUE, files |-> {Change("a", o), Change("b", o)}, branch |-> "ai/1", source |-> "main"]
      [] o \in {"branch", "drop"} -> [op |-> o, branch |-> "ai/1", source |-> "main"]
      [] o \in Writes \cup {"link", "compensate"} -> [op |-> o, target |-> TRUE]
      [] o = "assign" -> [op |-> o, account |-> "acc"]
      [] o = "attach" -> [op |-> o, ext |-> "pdf", key |-> "k", big |-> FALSE]
      [] o \in {"upload", "download", "erase"} -> [op |-> o, key |-> "k"]
      [] o = "status" -> [op |-> o, to |-> "running"]
      [] o = "scan" -> [op |-> o, matched |-> {}]
      [] o = "research" -> [op |-> o, web |-> TRUE]
      [] o \in {"jira_event", "bb_event"} ->
            [op |-> o, event |-> "e1", subject |-> "s1", kind |-> "assigned", actor |-> "ann", assignee |-> "bot",
             dept |-> "d1", cred |-> TRUE, secrets |-> {"dept", "global"}, wellFormed |-> TRUE, ready |-> TRUE,
             signed |-> IF o = "jira_event" THEN "dept" ELSE "global", fetcher |-> TRUE, status |-> "Open"]
      [] o = "outputs" -> [op |-> o, post |-> FALSE, actions |-> <<>>]
      [] o = "repo" -> [op |-> o, field |-> None, label |-> None, line |-> None, allowed |-> {Name("shop", "Shop"), Name("web", "web")},
                        read |-> {None, Name("shop", "shop"), Name("eve", "eve")}]
      [] o = "doc" -> [op |-> o, sections |-> <<>>]
      [] o = "login" -> [op |-> o, mode |-> "production", guard |-> "admin", token |-> Token("k1")]
      [] o = "forward" -> [op |-> o, actor |-> Actor("ann", "dept_admin"), path |-> Path("rotate", "d1")]
      [] o = "use_token" -> [op |-> o, oidc |-> FALSE, token |-> x1]
      [] o = "signed" -> [op |-> o, path |-> "webhooks", signature |-> "sg", dept |-> "d1", configured |-> None]
      [] o = "observe" -> [op |-> o, issue |-> "A-1"]
      [] o = "results" -> [op |-> o, actions |-> <<>>]
      [] OTHER -> [op |-> o]
Nothing == Ask("-")
Iterate(i, w) == [Ask("iterate") EXCEPT !.issue = i, !.who = w]
Replace(o, n) == [Ask("supersede") EXCEPT !.old = o, !.new = n]
Review(o, r) == [Ask(o) EXCEPT !.role = r]
Spending(o, u) == [Ask(o) EXCEPT !.user = u]

Row(i, n) == [issue |-> i, n |-> n, by |-> None, try |-> 1]
Pr(b, d, o) == [branch |-> b, draft |-> d, bot |-> TRUE, open |-> o, labels |-> {}, banners |-> <<>>, wiped |-> FALSE, text |-> "body"]
Caps(n) == [s \in Scopes |-> n]
Does(w, o) == [what |-> w, on |-> o]
Alarm(p) == [s \in Scopes |-> IF s = "dept_weekly" THEN [pct |-> p, rang |-> FALSE] ELSE None]

Base == [bound |-> 1, iters |-> {}, people |-> {},
         prs |-> (1 :> Pr("ai/1", TRUE, TRUE) @@ 2 :> Pr("ai/1", FALSE, FALSE) @@ 3 :> None),
         branches |-> ("ai/1" :> [dept |-> "d1", old |-> TRUE, issue |-> "A-1"]
                    @@ "ai/2" :> [dept |-> "d2", old |-> TRUE, issue |-> None]
                    @@ "ai/3" :> [dept |-> "d2", old |-> FALSE, issue |-> "B-1"]
                    @@ "dev" :> [dept |-> "d1", old |-> TRUE, issue |-> "A-1"]),
         issues |-> ("A-1" :> "Done" @@ "B-1" :> "Open" @@ "bad" :> "Unknown"),
         rows |-> {}, migrated |-> ("v1" :> "old"), workspace |-> {}, mapping |-> {}, mail |-> {},
         caps |-> Caps(2), spent |-> Caps(0), alarms |-> Caps(None),
         remote |-> ("main" :> Empty @@ "ai/1" :> None @@ "dev" :> [Empty EXCEPT !["a"] = "old"]),
         item |-> "pending", bucket |-> FALSE,
         wiki |-> [probe |-> FALSE, editor |-> "bot", age |-> "fresh"],
         boots |-> {}, hookSecrets |-> [dept |-> None, global |-> "sg", first |-> None],
         flow |-> ("s1" :> "none" @@ "s2" :> "open" @@ "s3" :> "closed")]
Mix(a, b, c, base) == [ask |-> [x \in Jobs |-> CASE x = x1 -> a [] x = x2 -> b [] OTHER -> c]] @@ base
Fails(n) == [Base EXCEPT !.bound = n]
AtCap == [Base EXCEPT !.iters = {Row("A-1", 1), Row("A-1", 2), Row("A-1", 3)}]
Near == [Base EXCEPT !.iters = {Row("A-1", 1), Row("A-1", 2)}]
With(S) == [Base EXCEPT !.people = S]
Stale(s) == [Base EXCEPT !.issues = ("A-1" :> s @@ "B-1" :> "Open" @@ "bad" :> "Unknown"), !.people = {Does("push", "ai/1"), Does("reopen", "A-1")}]
Spent(f) == [Base EXCEPT !.spent = f]
Money(s) == [t \in Scopes |-> IF t = s THEN 2 ELSE 0]
Rings(n, b) == [Base EXCEPT !.alarms = Alarm(50), !.bound = b, !.spent = Caps(n \div 2), !.caps = Caps(n)]

Sends(w, f, c, m) == [Ask("notify") EXCEPT !.wf = w, !.fails = f, !.channels = c, !.address = m]
Prunes(t, r) == [Ask("prune") EXCEPT !.now = t, !.env = r]
Record(i, t, k) == [id |-> i, at |-> t, kind |-> k]
Trail == {Record(1, 2, "audit"), Record(2, 2, "audit"), Record(3, 3, "audit"), Record(4, 4, "audit"), Record(5, 9, "audit"),
          Record(1, 2, "cost"), Record(2, 9, "cost")}
Kept(n) == [Base EXCEPT !.rows = Trail, !.bound = n]
Repo(s, n) == [slug |-> s, name |-> n]
Repos(n) == [Base EXCEPT !.bound = n, !.workspace = {Repo("a", "A"), Repo("b", "B")}, !.mapping = {[slug |-> s, meta |-> "given"] : s \in {"a", "c"}}]
Mention(m, k) == [Ask("slack") EXCEPT !.msg = m, !.kind = k]
Mail(u, m, s) == [uid |-> u, msg |-> m, sender |-> s, addressed |-> s # "list", dept |-> s # "ext", text |-> "", subject |-> IF s = "mute" THEN "" ELSE "s"]
Mailed(S, n) == [Base EXCEPT !.mail = S, !.bound = n]
MCNormalised(m) == IF m \in {"m-1", "m+1"} THEN "m-1" ELSE m

Boots(o, k) == [Ask(o) EXCEPT !.kind = k]
Asks(p) == [Ask("readyz") EXCEPT !.proc = p]
Admin(m, b, p) == [Ask("admin") EXCEPT !.manifest = m, !.bots = b, !.production = p]
Bot(a, d) == [account |-> a, dept |-> d]

Hook(o, e, k, sub) == [Ask(o) EXCEPT !.event = e, !.kind = k, !.subject = sub]

Out(t, i, r) == [type |-> t, index |-> i, ref |-> r]
Outputs(p, s) == [Ask("outputs") EXCEPT !.post = p, !.actions = s]
Sect(p, h) == [path |-> p, hash |-> h]
Doc(s) == [Ask("doc") EXCEPT !.sections = s]
Act(k, b) == [kind |-> k, big |-> b, branch |-> TRUE]
Results(s) == [Ask("results") EXCEPT !.actions = s]
Wiki(p, e, a) == [Base EXCEPT !.wiki = [probe |-> p, editor |-> e, age |-> a]]

Login(g, t) == [Ask("login") EXCEPT !.guard = g, !.token = t]
Forwards(r, k, d) == [Ask("forward") EXCEPT !.actor = Actor("ann", r), !.path = Path(k, d)]
Uses(t) == [Ask("use_token") EXCEPT !.token = t]
Signs(s, d) == [Ask("signed") EXCEPT !.signature = s, !.dept = d]
Boot(s) == [Base EXCEPT !.boots = {[by |-> "old", state |-> s]}]
Hooked(d, g) == [Base EXCEPT !.hookSecrets = [dept |-> d, global |-> g, first |-> d]]

Bursts(i) == [Ask("observe") EXCEPT !.issue = i]

MCVersions == <<"v1", "v2", "v3">>
MCCrons == <<"audit-prune", "workspace-cleanup">>

MCMixes ==
    { \* iterations
      Mix(Iterate("A-1", "rep"), Iterate("A-1", "lea"), Iterate("A-1", "eve"), Base),
      Mix(Iterate("A-1", "rep"), Iterate("A-1", "lea"), Iterate("A-1", "lea"), Near),
      Mix(Iterate("A-1", "rep"), Iterate("B-1", ""), Iterate("bad", "lea"), Fails(2)),
      Mix(Iterate("A-1", "rep"), Nothing, Nothing, [AtCap EXCEPT !.bound = 6]),
      Mix(Iterate("A-1", "rep"), Nothing, Nothing, Fails(3)),
      \* superseded pull requests
      Mix(Replace(1, 2), Replace(2, 3), Replace(None, 2), With({Does("edit", 1)})),
      Mix(Replace(1, 2), Nothing, Nothing, [Base EXCEPT !.people = {Does("close", 1)}, !.bound = 3]),
      Mix(Replace(1, 2), Replace(3, 4), Nothing, Fails(3)),
      Mix(Replace(1, 2), Replace(1, 3), Nothing, Fails(2)),
      \* reviews
      Mix(Review("orphans", "viewer"), Review("inbox", "viewer"), Replace(1, 2), With({Does("close", 1)})),
      Mix(Review("orphans", "other"), Review("inbox", "nobody"), [Review("orphans", "lead") EXCEPT !.target = {"bot"}], Fails(2)),
      Mix(Review("open_draft", "lead"), Review("request_changes", "lead"), Review("approve_note", "viewer"), Fails(2)),
      Mix([Review("approve_note", "lead") EXCEPT !.target = {"bot", "mapping"}], [Review("inbox", "lead") EXCEPT !.target = {"bot", "mapping"}], Nothing, Base),
      \* retention
      Mix(Ask("retain"), Review("orphans", "lead"), Nothing, Stale("Done")),
      Mix(Ask("retain"), Replace(1, 2), Nothing, Stale("Done")),
      Mix([Ask("retain") EXCEPT !.depts = {"d1", "d2"}], Nothing, Nothing, [Stale("Closed") EXCEPT !.bound = 4]),
      Mix(Ask("retain"), Ask("retain"), Nothing, Stale("Unknown")),
      Mix(Ask("retain"), Ask("retain"), Nothing, Stale("Done")),
      \* budgets
      Mix(Spending("check", TRUE), Spending("enforce", TRUE), Spending("guard", TRUE), [Fails(0) EXCEPT !.caps = Caps(1)]),
      Mix(Spending("check", TRUE), Spending("check", FALSE), Nothing, [Spent(Money("user_monthly")) EXCEPT !.bound = 2]),
      Mix(Spending("check", TRUE), Spending("enforce", FALSE), Spending("guard", TRUE), Spent(Money("dept_monthly"))),
      Mix(Spending("check", TRUE), Spending("guard", FALSE), Nothing, [Base EXCEPT !.caps = Caps(0)]),
      Mix(Spending("check", TRUE), Spending("check", FALSE), Nothing, [Base EXCEPT !.caps = Caps(10), !.spent = Caps(9)]),
      Mix(Spending("enforce", TRUE), Spending("enforce", FALSE), Nothing, Rings(4, 0)),
      Mix(Spending("enforce", TRUE), Spending("enforce", TRUE), Nothing, Rings(2, 1)),
      Mix(Spending("enforce", FALSE), Spending("check", TRUE), Nothing, [Rings(4, 0) EXCEPT !.caps = Caps(3)]),
      Mix([Ask("check") EXCEPT !.dept = "d9"], [Ask("enforce") EXCEPT !.dept = "d9"], [Ask("guard") EXCEPT !.dept = "d9"], Base),
      Mix([Spending("check", TRUE) EXCEPT !.wired = FALSE], Spending("check", TRUE), Nothing, Spent(Money("dept_weekly"))),
      Mix([Ask("predict") EXCEPT !.user = FALSE], Ask("predict"), Nothing, Base),
      \* notifications
      Mix(Sends("w", TRUE, {"email"}, TRUE), Sends("w", TRUE, {}, FALSE), Sends("v", FALSE, {"slack"}, FALSE), Fails(2)),
      Mix(Sends("w", TRUE, {}, TRUE), [Sends("v", FALSE, {"slack"}, FALSE) EXCEPT !.onSuccess = TRUE], Nothing, Fails(3)),
      \* the archive
      Mix(Prunes(6, 3), Prunes(7, 3), Sends("w", TRUE, {}, FALSE), Kept(1)),
      Mix(Prunes(8, 4), [Prunes(9, None) EXCEPT !.flag = 4], Nothing, Kept(2)),
      Mix(Prunes(6, 0), Nothing, Nothing, Kept(7)),
      Mix(Prunes(3, 2), Nothing, Nothing, Kept(0)),
      \* SSH runners
      Mix(Ask("health"), Nothing, Nothing, Fails(2)),
      Mix([Ask("health") EXCEPT !.runs = 4], Nothing, Nothing, Fails(4)),
      Mix([Ask("health") EXCEPT !.carry = FALSE, !.runs = 4], Nothing, Nothing, Fails(1)),
      \* repository mappings
      Mix([Ask("sync") EXCEPT !.role = "admin"], [Ask("sync") EXCEPT !.role = "admin"], Nothing, Repos(1)),
      Mix([Ask("sync") EXCEPT !.role = "admin", !.apply = FALSE], Ask("sync"), [Ask("sync") EXCEPT !.role = "nobody"], Repos(2)),
      \* Slack and mail
      Mix(Mention("m-1", "mention"), Mention("m-1", "mention"), Mention("m+1", "mention"), Fails(1)),
      Mix(Mention("m-1", "broken"), Mention("m-1", "other_event"), Mention("m-1", "handshake"), Fails(0)),
      Mix([Mention("m-1", "handshake") EXCEPT !.mac = "bad"], [Mention("m-1", "mention") EXCEPT !.skew = -2],
          [Mention("m-1", "mention") EXCEPT !.known = FALSE], Fails(1)),
      Mix([Mention("m-1", "mention") EXCEPT !.msg = None], [Mention("m-1", "mention") EXCEPT !.msg = None, !.ts = "t-1", !.skew = 1], [Mention("m-1", "mention") EXCEPT !.empty = TRUE], Fails(1)),
      Mix(Ask("mail"), Ask("mail"), Nothing, Mailed({Mail(1, "m-1", "a"), Mail(2, "m-1", "b")}, 1)),
      Mix(Ask("mail"), Nothing, Nothing, Mailed({Mail(1, "m-1", "a"), Mail(2, "m-3", "")}, 2)),
      Mix(Ask("mail"), Nothing, Nothing, Mailed({Mail(1, "m-1", "list"), Mail(2, "m-2", "ext"), Mail(3, "m-3", "mute")}, 1)),
      \* the assistant
      Mix(Ask("chat"), Nothing, Nothing, Fails(4)),
      Mix([Ask("chat") EXCEPT !.fallback = FALSE], Mention("m-1", "mention"), Nothing, Fails(1)),
      \* the providers
      Mix(Ask("complete"), Ask("reset"), Nothing, Fails(1)),
      Mix(Ask("complete"), Ask("complete"), Ask("force"), Fails(0)),
      Mix(Ask("complete"), Ask("complete"), Nothing, Fails(1)),
      Mix(Ask("complete"), Ask("force"), Nothing, Fails(1)),
      \* processes
      Mix(Ask("service"), Asks(x1), Nothing, Fails(2)),
      Mix(Admin(Manifest({}), {Bot(1, "d1"), Bot(2, "d1")}, FALSE), Asks(x1), Nothing, Fails(3)),
      Mix(Ask("admin"), Ask("admin"), Nothing, Fails(1)),
      Mix(Admin(Manifest({"app"}), {}, FALSE), Asks(x1), Admin(Manifest({}), None, FALSE), Fails(1)),
      Mix(Admin(<<Entry("app", "a", {}), Entry("db", "a", {})>>, {}, FALSE), Admin(Manifest({}), {}, TRUE),
          Asks(x2), Fails(1)),
      Mix(Admin(Manifest({}), {Bot(1, "d1"), Bot(1, "d2")}, FALSE), Nothing, Nothing, Fails(0)),
      Mix(Ask("assistant"), Asks(x1), Nothing, Fails(3)),
      Mix(Boots("worker", "automation"), Boots("worker", "automation"), Nothing, Fails(2)),
      Mix(Boots("worker", "agent"), Boots("worker", "execution"), Nothing, Fails(1)),
      Mix(Ask("alarm"), Ask("alarm"), Ask("alarm"), Fails(2)),
      \* activities of the agent runner
      Mix([Ask("opencode") EXCEPT !.answer = Generated({}, {}, {Change("a", None)}, {Change("b", "new")})],
          [Ask("opencode") EXCEPT !.answer = Generated({[Change("a", "new") EXCEPT !.safe = FALSE]}, {}, {}, {})],
          Nothing, Fails(2)),
      Mix([Ask("opencode") EXCEPT !.answer = Generated({}, {[Change("a", None) EXCEPT !.action = "delete"]}, {}, {})],
          [Ask("opencode") EXCEPT !.answer = Generated({}, {}, {}, {Change("b", "new")})], Nothing, Fails(1)),
      Mix(Ask("opencode"), Nothing, Nothing, Fails(6)),
      Mix(Ask("branch"), Ask("commit"), Ask("open_pr"), Fails(1)),
      Mix(Ask("commit"), [Ask("commit") EXCEPT !.source = "ai/1", !.files = {Change("b", "two")}], Ask("drop"), Fails(1)),
      Mix(Ask("commit"), [Ask("commit") EXCEPT !.source = "dev", !.files = {Change("a", "old"), [Change("b", "bad") EXCEPT !.safe = FALSE]}],
          [Ask("commit") EXCEPT !.files = {[Change("b", "bad") EXCEPT !.safe = FALSE]}], Fails(1)),
      Mix([Ask("commit") EXCEPT !.cred = FALSE], [Ask("commit") EXCEPT !.source = "ai/1", !.files = {[Change("a", "n") EXCEPT !.action = "delete"]}], Ask("branch"), Fails(1)),
      Mix([Ask("branch") EXCEPT !.source = "ai/1"], [Ask("commit") EXCEPT !.source = "gone"], Ask("drop"),
          [Fails(1) EXCEPT !.remote = ("main" :> Empty @@ "ai/1" :> None @@ "gone" :> None)]),
      Mix(Ask("open_pr"), Ask("comment"), [Ask("page") EXCEPT !.target = FALSE], Fails(2)),
      Mix(Ask("transition"), Ask("get_issue"), Ask("compensate"), Fails(1)),
      Mix(Ask("remark"), Ask("fetch_diff"), [Ask("open_pr") EXCEPT !.target = FALSE], Fails(1)),
      Mix(Ask("revise"), Ask("get_page"), Ask("children"), Fails(1)),
      Mix(Ask("page"), Ask("link"), [Ask("link") EXCEPT !.target = FALSE], Fails(1)),
      Mix(Ask("link"), [Ask("compensate") EXCEPT !.target = FALSE], Nothing, Fails(1)),
      Mix([Ask("assign") EXCEPT !.account = "dept"], Ask("assign"), [Ask("assign") EXCEPT !.account = None], Fails(1)),
      Mix(Ask("upload"), Ask("attach"), [Ask("upload") EXCEPT !.key = "l"], Fails(1)),
      Mix(Ask("upload"), Ask("erase"), Ask("download"), Fails(1)),
      Mix(Ask("upload"), [Ask("attach") EXCEPT !.big = TRUE], [Ask("attach") EXCEPT !.ext = "exe"], Fails(1)),
      Mix(Ask("status"), [Ask("status") EXCEPT !.to = "completed"], [Ask("status") EXCEPT !.to = "failed"], Fails(1)),
      Mix([Ask("status") EXCEPT !.to = "failed"], Nothing, Nothing, [Fails(1) EXCEPT !.item = None]),
      Mix(Ask("scan"), [Ask("scan") EXCEPT !.matched = {"bearer"}], Ask("analyze"), Fails(1)),
      Mix(Ask("research"), Ask("document"), Ask("scrape"), Fails(1)),
      Mix(Ask("generate"), Ask("review"), Ask("search"), Fails(1)),
      Mix([Ask("research") EXCEPT !.web = FALSE], Ask("describe"), Ask("search"), Fails(1)),
      \* the first webhook handlers
      Mix(Ask("jira_event"), Ask("jira_event"), Hook("jira_event", "e2", "assigned", "s1"), Fails(1)),
      Mix(Ask("jira_event"), Ask("jira_event"), Ask("cleanup"), Fails(1)),
      Mix(Hook("jira_event", "e1", "comment", "s3"), Hook("jira_event", "e1", "comment", "s3"), Hook("jira_event", "e2", "comment", "s3"), Fails(1)),
      Mix(Hook("jira_event", "e1", "assigned", "s3"), Hook("jira_event", "e2", "comment", "s3"), Hook("bb_event", "e3", "assigned", "s3"), Fails(1)),
      Mix(Hook("jira_event", "e1", "comment", "s2"), Hook("jira_event", "e2", "assigned", "s2"), Hook("bb_event", "e3", "comment", "s3"), Fails(1)),
      Mix(Hook("bb_event", "e1", "assigned", "s1"), Hook("bb_event", "e1", "assigned", "s1"), Hook("bb_event", "e2", "comment", "s1"), Fails(2)),
      Mix(Hook("jira_event", "e1", "other", "s1"), [Ask("jira_event") EXCEPT !.dept = None, !.signed = "global"], Hook("jira_event", "e3", "assigned", "bad"), Fails(1)),
      Mix([Ask("jira_event") EXCEPT !.cred = FALSE], [Ask("jira_event") EXCEPT !.actor = "bot", !.event = "e2"], [Ask("jira_event") EXCEPT !.assignee = "ann", !.event = "e3"], Fails(1)),
      Mix([Ask("jira_event") EXCEPT !.secrets = {}], [Ask("jira_event") EXCEPT !.ready = FALSE], [Ask("jira_event") EXCEPT !.wellFormed = FALSE], Fails(0)),
      Mix([Hook("jira_event", "e1", "comment", "s3") EXCEPT !.status = "Done"], [Hook("jira_event", "e2", "comment", "s3") EXCEPT !.fetcher = FALSE],
          [Ask("bb_event") EXCEPT !.signed = "bad"], Fails(0)),
      Mix(Hook("bb_event", "e1", "other", "s1"), [Ask("bb_event") EXCEPT !.actor = "bot", !.event = "e2"], [Ask("bb_event") EXCEPT !.assignee = "ann", !.event = "e3"], Fails(0)),
      Mix(Hook("bb_event", "e1", "assigned", "bad"), [Ask("bb_event") EXCEPT !.dept = None, !.event = "e2"], Nothing, Fails(0)),
      \* bursts of events
      Mix(Bursts("A-1"), Bursts("A-1"), Bursts("A-1"), Fails(1)),
      Mix(Bursts("A-1"), Bursts("A-1"), Ask("flush_all"), Fails(1)),
      Mix(Bursts("A-1"), Bursts("B-1"), Ask("flush_all"), Fails(2)),
      Mix(Bursts("A-1"), Ask("flush_all"), Ask("aclose"), Fails(1)),
      Mix(Bursts("A-1"), Ask("aclose"), Ask("aclose"), Fails(1)),
      Mix(Bursts("A-1"), Bursts("A-1"), Ask("aclose"), Fails(1)),
      Mix(Bursts(None), Nothing, Nothing, Fails(1)),
      \* what a finished run does
      Mix(Outputs(FALSE, <<Out("jira_comment", 2, FALSE), Out("jira_transition", 1, FALSE), Out("x", 3, FALSE)>>),
          Outputs(FALSE, <<>>), Outputs(TRUE, <<Out("bitbucket_create_pr", None, FALSE), Out("bitbucket_pr", 9, TRUE)>>), Fails(1)),
      Mix(Outputs(TRUE, <<Out("confluence_page", 1, TRUE), Out("bitbucket_commit", 0, FALSE)>>),
          Outputs(FALSE, <<Out("confluence_create_page", None, FALSE), Out("jira_attachment", 0, TRUE), Out("jira_attachment", 0, FALSE), Out("jira_transition", 0, TRUE)>>),
          Nothing, Fails(1)),
      Mix(Outputs(FALSE, <<Out("jira_comment", 0, FALSE), Out("bitbucket_commit", 1, FALSE)>>), Nothing, Nothing, Fails(4)),
      Mix(Ask("repo"), [Ask("repo") EXCEPT !.field = Name("shop", "SHOP")], [Ask("repo") EXCEPT !.label = Name("eve", "eve")], Fails(2)),
      Mix([Ask("repo") EXCEPT !.line = Name("web", "Web")], [Ask("repo") EXCEPT !.allowed = {Name("web", "web")}],
          [Ask("repo") EXCEPT !.allowed = {Name("web", "web"), Name("web", "Web")}], Fails(4)),
      Mix(Doc(<<Sect("a", "h1"), Sect("b", "h1"), Sect("c", "h2")>>), Doc(<<Sect("a", "h3")>>), Nothing, Fails(1)),
      Mix(Doc(<<>>), Nothing, Nothing, Fails(1)),
      Mix(Doc(<<Sect("a", "h1")>>), Nothing, Nothing, Wiki(TRUE, "bot", "old")),
      Mix(Doc(<<Sect("a", "h1")>>), Nothing, Nothing, Wiki(FALSE, "ann", "future")),
      Mix(Results(<<Act("slack_notify", TRUE), Act("jira_comment", FALSE), Act("confluence_create_page", TRUE)>>),
          Results(<<Act("jira_transition", FALSE)>>), Results(<<Act("x", FALSE)>>), Fails(2)),
      Mix(Results(<<[Act("bitbucket_create_pr", FALSE) EXCEPT !.branch = FALSE]>>), Results(<<Act("jira_attachment", FALSE), Act("bitbucket_create_pr", FALSE)>>),
          Nothing, Fails(2)),
      \* who gets in
      Mix(Login("admin", Token("k1")), Login("context", Token("k2")), Login("admin", Token("k1")), Fails(1)),
      Mix(Login("admin", [Token("k1") EXCEPT !.sound = FALSE]), Login("admin", [Token("k1") EXCEPT !.groups = {}, !.role = "admin"]),
          Login("context", [Token("k1") EXCEPT !.groups = {}]), Fails(1)),
      Mix(Login("admin", [Token("k1") EXCEPT !.sub = None]), Login("admin", None), Login("context", [Token("k1") EXCEPT !.alg = "none"]), Fails(0)),
      Mix([Login("admin", Token(None)) EXCEPT !.mode = "dev"], Login("context", [Token("k1") EXCEPT !.sub = None]), Login("admin", Token(None)), Fails(0)),
      Mix(Forwards("dept_admin", "rotate", "d1"), Forwards("dept_admin", "rotate", "d2"), Forwards("dept_admin", "disable", "d1"), Fails(2)),
      Mix(Forwards("admin", "global", None), Forwards("admin", "sub", "d2"), Forwards("lead", "sub", "d1"), Fails(1)),
      Mix(Forwards("admin", "outside", None), Forwards("admin", "disable", "d9"), Nothing, Fails(1)),
      Mix(Ask("make_token"), Ask("make_token"), Uses(x1), Fails(1)),
      Mix(Ask("make_token"), Uses(x1), Uses(x1), Fails(1)),
      Mix(Ask("make_token"), Uses("old"), Uses(None), Boot("valid")),
      Mix(Ask("make_token"), Uses("old"), [Uses("old") EXCEPT !.oidc = TRUE], Boot("used")),
      Mix(Signs("sg", "d1"), Signs("sd", "d1"), Signs(None, "d1"), Hooked(None, "sg")),
      Mix(Signs("sg", None), Signs("bad", None), [Signs("sc", None) EXCEPT !.configured = "sc"], Hooked("empty", "sg")),
      Mix(Signs("sd", "d1"), Signs("sg", None), [Signs(None, None) EXCEPT !.path = "other"], Hooked("empty", None)),
      Mix(Signs("sd", "d1"), Signs("sg", "d1"), Signs("empty", None), Hooked("sd", "empty")),
      Mix(Signs("sg", "d1"), Nothing, Nothing, Hooked("sd", "sg")) }

=============================================================================
