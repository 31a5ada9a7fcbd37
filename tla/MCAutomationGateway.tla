------------------------- MODULE MCAutomationGateway -------------------------
(* Issues with and without front-matter, LLM answers on both sides of every *)
(* confidence bound, and departments with every kind of rule configuration. *)
EXTENDS AutomationGateway

Issue(frontmatter, command, branch, actions, epic, subtasks, web) ==
    [frontmatter |-> frontmatter, command |-> command, branch |-> branch,
     actions |-> actions, described |-> TRUE, epic |-> epic, subtasks |-> subtasks,
     web_enabled |-> web]

MCIssues ==
    { Issue(None, << >>, None, {}, FALSE, FALSE, FALSE),
      [Issue(None, << >>, None, {}, TRUE, TRUE, FALSE) EXCEPT !.described = FALSE],
      Issue("code_change_commit_only", << >>, "hotfix/*", {}, FALSE, FALSE, FALSE),
      Issue("script_execute", <<"list">>, "main", {"confluence_page", "mail"}, FALSE, FALSE, FALSE),
      Issue("test", <<"control", "text">>, None, {"mail"}, TRUE, TRUE, FALSE),
      Issue("bogus", << >>, None, {}, FALSE, FALSE, FALSE),
      Issue("noop_test", << >>, None, {}, FALSE, FALSE, TRUE) }

\* The event carries no text, or a comment that opens with a block of its own.
MCEvents == {None, Issue("pr_review", << >>, "release/*", {}, FALSE, FALSE, FALSE)}

Number(n) == [kind |-> "number", value |-> n]
Label(l)  == [kind |-> l, value |-> 0]

Answer(type, confidence, missing, command, branch) ==
    [outcome |-> "answer", type |-> type, confidence |-> confidence,
     missing |-> missing, command |-> command, branch |-> branch,
     actions |-> {}]

MCLlmAnswers ==
    { [Answer(None, Label("junk"), TRUE, << >>, None) EXCEPT !.outcome = o] :
        o \in {"no_prompt", "call_failed", "bad_json"} }
    \union
    { Answer("code_change_commit_only", Number(n), TRUE, << >>, "release/*") :
        n \in {69, 70, 84, 140} }
    \union
    { Answer("research_web", Label("medium"), TRUE, << >>, None),
      Answer("code_change_with_test", Label("high"), FALSE, <<"mixed">>, "main"),
      [Answer("script_execute", Label("high"), FALSE, <<"control", "text">>, None)
         EXCEPT !.actions = {"slack_notify"}],
      Answer("pr_review", Label("low"), FALSE, << >>, "main"),
      Answer("improvise", Label("high"), FALSE, << >>, None) }

Department(by, bots, keyed, runner, web, switch) ==
    [by |-> by, bots |-> bots, keyed |-> keyed, runner |-> runner, ssh |-> FALSE, web |-> web,
     switch |-> switch, readable |-> TRUE]

MCDepartments ==
    { Department("pipeline", {"jira", "bitbucket", "confluence"}, {"jira", "bitbucket"}, TRUE, FALSE, "true"),
      Department("intake", {"jira"}, {"jira"}, FALSE, TRUE, "yes"),
      [Department("pipeline", {"jira", "bitbucket"}, {"jira"}, TRUE, TRUE, "yes")
         EXCEPT !.readable = FALSE] }

MCRuleConfigs ==
    { [kind |-> "unreadable", rules |-> << >>],
      [kind |-> "malformed", rules |-> << >>],
      [kind |-> "rules",
       rules |-> << Rule({"hotfix/*"}, {"pr_review"}, {}),
                    Rule({"hotfix/*", "main"}, {}, {"pr_review"}) >>] }
=============================================================================
