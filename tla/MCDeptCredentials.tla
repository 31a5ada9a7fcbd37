--------------------------- MODULE MCDeptCredentials ---------------------------
(* Two departments, two services, two bot accounts and up to three calls.     *)
EXTENDS DeptCredentials

CONSTANTS r1, r2, r3

Call(o, x, S, a) == [op |-> o, dept |-> x, svcs |-> S, acct |-> a, typed |-> None,
                     role |-> "admin", own |-> x, proc |-> "p1", wf |-> TRUE]
Typed(c, t) == [c EXCEPT !.typed = t]
By(c, role, own) == [c EXCEPT !.role = role, !.own = own]
Broken(c) == [c EXCEPT !.wf = FALSE]
On(c, p) == [c EXCEPT !.proc = p]
J == {"jira"}
JB == {"jira", "bitbucket"}
Nothing == Call("-", "d1", J, "a")

Absent == [mode |-> "absent", acct |-> None]
Plain == [mode |-> "active", acct |-> None]
Conf(x, y) == [e \in Depts |-> IF e = "d1" THEN x ELSE y]
Row1 == {<<"d1", "jira">>}

Mix(n, a, b, c, t, f, known, old) ==
    [ask |-> [r \in Requests |-> CASE r = r1 -> a [] r = r2 -> b [] OTHER -> c],
     faults |-> n, ticks |-> t, cfg |-> f, entries |-> J, known |-> known, old |-> old,
     oldAcct |-> [e \in Depts |-> IF e = "d1" THEN "a" ELSE "b"], ref |-> "final"]
Elsewhere(m) == [m EXCEPT !.ref = "other"]

MCMixes ==
    { \* two additions, one removal, failures
      Mix(1, Call("add", "d1", J, "a"), Call("add", "d1", J, "b"), Nothing, 0, Conf(Absent, Absent), {"d1"}, Row1),
      Mix(1, Call("add", "d1", J, "a"), Call("remove", "d1", J, "a"), Nothing, 0, Conf(Plain, Absent), {"d1"}, Row1),
      Mix(2, Call("add", "d1", J, "a"), Call("rotate", "d1", J, "a"), Nothing, 0, Conf(Absent, Absent), {"d1"}, {}),
      Mix(1, Call("add", "d1", J, "b"), Call("add", "d2", J, "b"), Nothing, 0, Conf(Absent, Absent), {"d1", "d2"}, Row1),
      Mix(2, Call("add", "d1", J, "a"), Call("add", "d1", J, "a"), Call("remove", "d1", J, "a"), 0, Conf(Absent, Absent), {"d1"}, Row1),
      \* creation, import and the purge
      Mix(1, Call("wizard", "d2", JB, "b"), Typed(Call("create", "d2", J, "a"), "a"), Nothing, 0, Conf(Absent, Absent), {"d1"}, Row1),
      Mix(1, Call("wizard", "d2", J, "b"), Call("add", "d1", J, "a"), Nothing, 0, Conf(Plain, Absent), {"d1"}, Row1),
      Mix(1, Call("bulk", "d1", J, "b"), Call("add", "d1", J, "a"), Nothing, 0, Conf(Absent, Absent), {"d1"}, Row1),
      Mix(1, Call("bulk", "d2", JB, "b"), Call("dryrun", "d2", J, "b"), Call("disable", "d1", J, "a"), 0, Conf(Absent, Absent), {"d1"}, Row1),
      Mix(1, Typed(Call("create", "d2", J, "b"), "a"), Call("probe", "d1", J, "a"), Call("view", "d2", J, "a"), 0, Conf(Plain, [Plain EXCEPT !.acct = "a"]), {"d1"}, Row1),
      Mix(1, Call("view", "d2", J, "b"), Typed(Call("wizard", "d2", J, "b"), "b"), Nothing, 0, Conf(Absent, Plain), {"d1"}, Row1),
      \* roles and a stale configuration
      Mix(0, By(Call("add", "d1", J, "b"), "dept_admin", "d1"), By(Call("remove", "d1", J, "b"), "dept_admin", "d2"),
          By(Call("probe", "d2", J, "b"), "dept_admin", "d2"), 0, Conf(Plain, Plain), {"d1"}, Row1),
      Mix(0, By(Call("add", "d1", J, "b"), "lead", "d1"), Typed(Call("cfgNew", "d2", J, "b"), "b"),
          Call("add", "d2", J, "b"), 0, Conf(Plain, Absent), {"d1"}, Row1),
      Mix(0, Call("probe", "d1", J, "b"), Typed(Call("cfgNew", "d2", J, "b"), "b"), Call("add", "d2", J, "b"), 0, Conf(Plain, Absent), {"d1"}, Row1),
      Mix(0, Broken(Call("add", "d1", J, "a")), Broken(Call("create", "d2", J, "a")), Broken(Call("rotate", "d1", J, "a")), 0, Conf(Plain, Absent), {}, {}),
      \* departments.json names another path; a role the admin router does not know
      Elsewhere(Mix(1, Call("add", "d1", J, "b"), Call("probe", "d1", J, "a"), Call("get", "d1", J, "a"), 1, Conf(Plain, Absent), {"d1"}, Row1)),
      Elsewhere(Mix(0, Call("bulk", "d1", J, "b"), Call("startup", "d1", J, "a"), Call("get", "d1", J, "a"), 1, Conf(Plain, Absent), {"d1"}, {})),
      Mix(2, By(Call("create", "d2", JB, "b"), "lead", "d1"), By(Call("create", "d2", J, "b"), "dept_admin", "d2"),
          Nothing, 0, Conf(Absent, Absent), {"d1"}, Row1),
      Mix(1, By(Call("disable", "d1", J, "b"), "lead", "d1"), By(Call("remove", "d1", J, "b"), "lead", "d1"),
          Call("remove", "d2", J, "b"), 0, Conf(Absent, Absent), {"d1"}, Row1),
      \* the resolver
      Mix(0, Call("get", "d1", J, "a"), Call("get", "d1", J, "a"), Call("add", "d1", J, "b"), 3, Conf(Absent, Absent), {"d1"}, Row1),
      Mix(0, Call("get", "d1", J, "a"), Call("get", "d1", J, "a"), Call("rotate", "d1", J, "b"), 3, Conf(Absent, Absent), {"d1"}, Row1),
      Mix(0, Call("get", "d1", J, "a"), Call("get", "d1", J, "a"), Call("remove", "d1", J, "b"), 3, Conf(Absent, Absent), {"d1"}, Row1),
      \* accounts at the next start
      Mix(1, Typed(Call("add", "d1", J, "a"), "b"), Call("startup", "d1", J, "a"), Nothing, 0, Conf(Absent, Absent), {"d1"}, {}),
      \* editors of departments.json
      Mix(1, Typed(Call("cfgNew", "d2", J, "b"), "b"), On(Typed(Call("cfgPatch", "d1", J, "b"), "b"), "p2"), On(Call("cfgOff", "d2", J, "b"), "p2"), 0, Conf(Plain, Absent), {}, {}),
      Mix(0, Typed(Call("cfgPatch", "d1", J, "b"), "b"), Typed(Call("cfgNew", "d1", J, "b"), "a"), On(Call("cfgPatch", "d2", J, "b"), "p2"), 0,
          Conf([Plain EXCEPT !.acct = "a"], [mode |-> "disabled", acct |-> "b"]), {}, {}) }
=============================================================================
