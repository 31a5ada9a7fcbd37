---------------------------- MODULE MCExecutionRun ----------------------------
(***************************************************************************)
(* Two runs and one tick of the cleanup scheduler on one host.             *)
(***************************************************************************)
EXTENDS ExecutionRun

CONSTANTS r1, r2, d1

MCRuns == {r1, r2}
MCOldDirs == <<d1>>

Shape(kind, dept, docker, push, policy) ==
    [kind |-> kind, dept |-> dept, runner |-> FALSE, keyed |-> TRUE, docker |-> docker,
     env |-> TRUE, quota |-> dept, push |-> push, policy |-> policy]

Ssh(policy) == Shape("run", TRUE, FALSE, FALSE, policy)
Docker(policy) == Shape("run", FALSE, TRUE, FALSE, policy)
Legacy(push, policy) == Shape("legacy", TRUE, FALSE, push, policy)

\* A run on a runner its caller names, with a bad name in its environment.
Refused(policy) == [Ssh(policy) EXCEPT !.runner = TRUE, !.env = FALSE]

\* Pairs that meet on the host: on its containers, on its credential helper,
\* on its disk.
MCPlans ==
    {[r \in MCRuns |-> IF r = r1 THEN pair[1] ELSE pair[2]]:
       pair \in {<<Docker("always"), Docker("on_success")>>,
                 <<Legacy(TRUE, "never"), Legacy(TRUE, "never")>>,
                 <<Ssh("delete_on_success"), Legacy(FALSE, "on_success")>>,
                 <<Refused("always"), Docker("never")>>}}
=============================================================================
