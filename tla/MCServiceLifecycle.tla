-------------------------- MODULE MCServiceLifecycle --------------------------
(* Three services in a chain and up to three requests.  The dependency has   *)
(* no form, so it can be started for its dependent; ui depends on a service  *)
(* with a form and lies deeper than the depth guard allows.                  *)
EXTENDS ServiceLifecycle

CONSTANTS r1, r2, r3

MCKind == [s \in Services |-> CASE s = "ui" -> "worker" [] s = "app" -> "http" [] OTHER -> "none"]
MCDependsOn == [s \in Services |-> CASE s = "ui" -> <<"app">> [] s = "app" -> <<"base">> [] OTHER -> <<>>]
MCSchema == [s \in Services |-> IF s = "app" THEN Keys ELSE {}]

Ask(o, s) == [op |-> o, svc |-> s]
Nothing == Ask("-", "ui")
Mix(n, a, b, c, off, warm) ==
    [ask |-> [r \in Requests |-> CASE r = r1 -> a [] r = r2 -> b [] OTHER -> c],
     faults |-> n, off |-> off, warm |-> warm]

MCMixes ==
    { Mix(1, Ask("start", "app"), Ask("stop", "app"), Nothing, {}, {}),
      Mix(1, Ask("start", "app"), Ask("poll", "app"), Ask("poll", "base"), {}, {}),
      Mix(0, Ask("start", "app"), Ask("start", "app"), Nothing, {}, {"base"}),
      Mix(0, Ask("start", "app"), Ask("restart", "app"), Nothing, {}, {"base"}),
      Mix(1, Ask("start", "app"), Ask("start", "base"), Nothing, {"base"}, {}),
      Mix(1, Ask("start", "ui"), Ask("stop", "ui"), Nothing, {}, {"ui"}),
      Mix(1, Ask("start", "ui"), Ask("tests", "ui"), Nothing, {}, {"app", "base"}),
      Mix(1, Ask("restart", "app"), Ask("poll", "app"), Nothing, {}, {"app", "base"}),
      Mix(0, Ask("start", "app"), Ask("restart", "app"), Nothing, {}, {"app", "base"}),
      Mix(1, Ask("restart", "app"), Ask("purge", "app"), Nothing, {}, {"app", "base"}),
      Mix(1, Ask("stop", "base"), Ask("start", "app"), Nothing, {}, {"base"}),
      Mix(1, Ask("poll", "app"), Ask("poll", "app"), Ask("poll", "app"), {}, {"app", "base"}),
      Mix(1, Ask("external", "ui"), Ask("external", "ui"), Ask("external", "ui"), {}, {}),
      Mix(2, Ask("start", "app"), Nothing, Nothing, {}, {}),
      Mix(2, Ask("restart", "app"), Nothing, Nothing, {}, {"app", "base"}),
      Mix(1, Ask("stop", "app"), Ask("probe", "ui"), Ask("forbidden", "app"), {}, {"app", "base"}) }
=============================================================================
