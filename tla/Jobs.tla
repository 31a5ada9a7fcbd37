-------------------------------- MODULE Jobs --------------------------------
(***************************************************************************)
(* What workflows, activities and service coroutines have in common.  A    *)
(* job runs between two awaits without interruption and interleaves with   *)
(* every other job at each await.  ask[x] is what job x was asked to do,   *)
(* job[x] where it is and what it has read.  A call to the outside fails   *)
(* at most "bound" times in a behaviour; "failed" counts the failures.     *)
(***************************************************************************)
EXTENDS Naturals, FiniteSets, Sequences

CONSTANTS
    Jobs,           \* the jobs of a behaviour
    None,           \* no value
    MaxAttempts,    \* maximum_attempts of the retry policies
    Mixes           \* the scenarios: the jobs, the faults and the state they start in

VARIABLES
    ask,            \* ask[x]: operation and arguments, fixed by the scenario
    job,            \* job[x]: control state and locals of job x
    failed,         \* calls that failed so far
    bound,          \* how many may fail
    audit           \* the audit rows written so far

jobVars == <<ask, job, failed, bound, audit>>

\* "before" is the set of jobs that had ended when this one began.
Fresh == [pc |-> "idle", try |-> 1, out |-> None, val |-> None, got |-> {}, todo |-> {}, before |-> {}]

JobsInit(mix) ==
    /\ ask = mix.ask
    /\ job = [x \in Jobs |-> Fresh]
    /\ failed = 0
    /\ bound = mix.bound
    /\ audit = {}

Ended(x) == job[x].pc = "end"

\* Jobs x and y were in progress at the same time.
Overlap(x, y) == job[x].pc # "idle" /\ job[y].pc # "idle"
                 /\ x \notin job[y].before /\ y \notin job[x].before

At(x, op, pc) == ask[x].op = op /\ job[x].pc = pc

Begins(x, op) == At(x, op, "idle")

Set(x, l) ==
    job' = [job EXCEPT ![x] =
               [l EXCEPT !.before = IF job[x].pc = "idle" THEN {y \in Jobs : Ended(y)} ELSE @]]

\* Go on at pc; a new call starts with its first attempt.
Goto(x, pc) == Set(x, [job[x] EXCEPT !.pc = pc, !.try = 1])

\* Go on at pc with the value v read from the outside.
Keep(x, pc, v) == Set(x, [job[x] EXCEPT !.pc = pc, !.val = v])

\* Go on at pc with the collection S gathered so far.
Gather(x, pc, S) == Set(x, [job[x] EXCEPT !.pc = pc, !.got = S, !.try = 1])

End(x, out) == Set(x, [job[x] EXCEPT !.pc = "end", !.out = out])

\* A call goes through, or it fails.
Works == UNCHANGED failed
Fault == failed < bound /\ failed' = failed + 1

\* An attempt of an activity fails or its worker dies: it runs again from
\* "first"; after the last attempt the caller's handler runs, at "handler".
Redo(x, first, handler) ==
    /\ Fault
    /\ Set(x, IF job[x].try < MaxAttempts
              THEN [job[x] EXCEPT !.pc = first, !.try = @ + 1]
              ELSE [job[x] EXCEPT !.pc = handler, !.try = 1])

AuditRow(x, action, result) == [by |-> x, action |-> action, result |-> result]

\* An audit write whose failure is logged and swallowed.
BestEffortAudit(x, action, result) ==
    \/ audit' = audit \cup {AuditRow(x, action, result)} /\ Works
    \/ audit' = audit /\ Fault

Quiet == UNCHANGED audit

=============================================================================
