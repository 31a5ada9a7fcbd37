--------------------------- MODULE MCAdminConsole ---------------------------
(* Up to three requests at a time over two prompts, two departments, one    *)
(* provider that exists and one that does not, two runners and the one a worker  *)
(* seeds, one workflow.                                                     *)
EXTENDS AdminConsole, TLC

CONSTANTS r1, r2, r3

Ask(o) == [op |-> o, who |-> "ann", path |-> "p", body |-> "x", mode |-> "", id |-> None,
           dept |-> "d1", val |-> "", ids |-> {}, proc |-> None]
Nothing == Ask("-")
Draft(w, p, b) == [Ask("draft") EXCEPT !.who = w, !.path = p, !.body = b]
Sandbox(m, b) == [Ask("sandbox") EXCEPT !.mode = m, !.body = b]
Path(o, p, b) == [Ask(o) EXCEPT !.path = p, !.body = b]
Flag(o, d, k, v) == [Ask(o) EXCEPT !.dept = d, !.id = k, !.val = v]
Prov(o, p, m, v) == [Ask(o) EXCEPT !.id = p, !.mode = m, !.val = v]
Pin(d, p) == [Ask("pin") EXCEPT !.dept = d, !.id = p]
On(o, x) == [Ask(o) EXCEPT !.id = x]
Run(o, i, m, v) == [Ask(o) EXCEPT !.id = i, !.mode = m, !.val = v]
Assign(d, S) == [Ask("assign") EXCEPT !.dept = d, !.ids = S]
Probe(d, m) == [Ask("probe") EXCEPT !.dept = d, !.mode = m]

Base == [faults |-> 1, wired |-> TRUE, merges |-> 0, start |-> MaxNow, provs |-> [p1 |-> "active", p2 |-> "absent"],
         pins |-> [d1 |-> None, d2 |-> None], flows |-> [w1 |-> "none"],
         runners |-> {"n1"}, seeding |-> "off", shared |-> FALSE, assigned |-> [d1 |-> {"n1"}, d2 |-> {}]]
Mix(a, b, c, base) ==
    [ask |-> [r \in Reqs |-> [(CASE r = r1 -> a [] r = r2 -> b [] OTHER -> c) EXCEPT
                                !.proc = IF base.shared THEN r1 ELSE r]]] @@ base
Calm == [Base EXCEPT !.faults = 0]
Off == [Calm EXCEPT !.wired = FALSE]
Pinned == [Base EXCEPT !.pins = [d1 |-> "p1", d2 |-> None]]
Clock == [Calm EXCEPT !.start = 0]
Live == [Base EXCEPT !.flows = [w1 |-> "running"]]
Two == [Calm EXCEPT !.runners = {"n1", "n2"}]

MCMixes ==
    { \* prompts: drafts, sandbox, promotion, commits
      Mix(Draft("ann", "p", "x"), Draft("bob", "p", "y"), Draft("ann", "o", "z"), Clock),
      Mix(Draft("ann", "p", "x"), Sandbox("branch", ""), Ask("promote"), Base),
      Mix(Draft("ann", "p", "x"), Draft("bob", "p", "y"), Ask("pr"), [Clock EXCEPT !.merges = 1]),
      Mix(Path("commit", "p", "x"), Path("commit", "p", "y"), Path("read", "p", ""), [Base EXCEPT !.merges = 1]),
      Mix(Path("commit", "p", "x"), Path("commit", "p", "x"), Path("commit", "p", "seed"), [Base EXCEPT !.merges = 1]),
      Mix(Path("commit", "p", "broken"), Sandbox("branch", ""), Nothing, Calm),
      Mix(Draft("ann", "p", "huge"), Draft("ann", "p", "broken"), Draft("ann", "none", "x"), Base),
      Mix(Draft("ann", "unsafe", "x"), Path("commit", "p", "huge"), Path("commit", "p", "seed"), Calm),
      Mix(Sandbox("body", "broken"), Sandbox("both", "x"), Sandbox("body", "x"), Base),
      Mix(Path("try", "p", "huge"), Path("try", "p", "x"), Path("read", "none", ""), Base),
      Mix(Draft("ann", "p", "x"), Ask("pr"), Nothing, Base),
      Mix(Ask("list"), [Ask("pr") EXCEPT !.path = "unsafe"], Draft("ann", "p", "x"), Calm),
      Mix(Draft("ann", "p", "x"), Path("read", "p", ""), On("purge", "W-1"), Off),
      Mix(Path("commit", "unsafe", "x"), Path("read", "unsafe", ""), [Sandbox("body", "x") EXCEPT !.path = "unsafe"], Calm),
      Mix(Flag("toggle", "d1", "k", "on"), On("pdel", "p1"), Run("rset", "n1", "host", "h1"), Off),
      \* flags
      Mix(Flag("override", "d1", "k", "on"), Flag("override", "d1", "l", "on"), Flag("unset", "d1", "k", ""), Base),
      Mix(Flag("override", "d2", "k", "on"), Flag("unset", "d1", "k", ""), Flag("override", "d9", "k", "on"), Calm),
      Mix(Flag("toggle", "d1", "k", "on"), Flag("toggle", "d1", "k", "off"), Flag("toggle", "d1", "l", "on"), Base),
      Mix(Flag("override", "d1", "k", "on"), Ask("dedit"), Flag("toggle", "d1", "k", "on"), [Base EXCEPT !.shared = TRUE]),
      Mix(Flag("override", "d1", "k", "on"), Ask("dedit"), Ask("dedit"), Base),
      Mix(Flag("toggle", "d1", "zz", "on"), Flag("override", "d1", "zz", "on"), Ask("flags"), Calm),
      \* providers
      Mix(Prov("pset", "p1", "api", "a1"), Prov("pset", "p1", "org", "o1"), Prov("pset", "p1", "status", "inactive"), Base),
      Mix(Prov("pset", "p1", "api", "a1"), Prov("pset", "p1", "api", "a2"), On("ptest", "p1"), Base),
      Mix(Prov("pset", "p1", "api", "a1"), On("pdel", "p1"), Pin("d1", "p1"), Base),
      Mix(Prov("pnew", "p2", "", "a1"), On("pdel", "p2"), Prov("pset", "p2", "org", "o1"), Base),
      Mix(Pin("d1", None), On("pdel", "p1"), On("ptest", "p1"), Pinned),
      Mix(Pin("d1", "p2"), [Ask("pinned") EXCEPT !.dept = "d1"], On("ptest", "p2"), Pinned),
      Mix(Prov("pset", "p1", "status", "inactive"), Pin("d2", "p1"), [Ask("pinned") EXCEPT !.dept = "d2"], Base),
      Mix(On("pdel", "p1"), On("pdel", "p1"), Ask("ptry"), Base),
      \* control
      Mix(On("cancel", "w1"), On("signal", "w1"), On("retry", "w1"), Live),
      Mix(On("purge", "W-1"), On("purge", "bad"), Ask("flows"), Base),
      Mix(On("purge", "W-1"), Ask("spaces"), On("retry", "w1"), Live),
      \* runners
      Mix(Run("rnew", "n2", "", "h1"), Run("rnew", "n2", "", "h2"), Run("rset", "n2", "host", "h3"), Base),
      Mix(Run("rnew", "n2", "", "h1"), Assign("d2", {"n2"}), Run("smoke", "n2", "", ""), Base),
      Mix(Run("smoke", "n1", "", ""), Run("rset", "n1", "status", "disabled"), Run("rset", "n1", "empty", ""), Base),
      Mix(Run("rnew", "n1", "", "h1"), Run("rset", "n2", "host", "h1"), Run("smoke", "n2", "", ""), Calm),
      Mix(Run("rnew", "n3", "", "h1"), Run("smoke", "n3", "", ""), Assign("d1", {"n3"}), [Base EXCEPT !.seeding = "due"]),
      Mix(Assign("d1", {"n1"}), Assign("d2", {}), Probe("d2", "ssh"), [Base EXCEPT !.seeding = "due"]),
      Mix(Ask("rlist"), Ask("rlist"), Ask("rlist"), Base),
      Mix(Assign("d1", {"n2"}), Assign("d1", {"n1", "n2"}), Assign("d2", {"n1"}), Two),
      Mix(Assign("d1", {"n2"}), Assign("d1", {}), Ask("matrix"), [Two EXCEPT !.faults = 1]),
      \* probes
      Mix(Probe("d1", "ssh"), Run("rset", "n1", "status", "disabled"), Assign("d2", {"n1"}), Base),
      Mix(Probe("d2", "ssh"), Probe("d2", "ssh"), Assign("d2", {"n1"}), Base),
      Mix(Probe("d9", "ssh"), Probe("d1", "unsupported"), Ask("matrix"), Base),
      Mix(Probe("d1", "ssh"), Run("rnew", "n2", "", "h1"), Ask("matrix"), [Base EXCEPT !.wired = FALSE]),
      Mix(Probe("d1", "ssh"), Probe("d2", "ssh"), Nothing, [Calm EXCEPT !.runners = {}, !.assigned = [d1 |-> {}, d2 |-> {}]]) }

MCPaths == {"p", "o"}
MCSafeName == [ann |-> "x", bob |-> "x"]
=============================================================================
