--------------------------- MODULE AdminRequests ---------------------------
(***************************************************************************)
(* What the routes of the admin dashboard API have in common.  A request   *)
(* is a coroutine: it runs between two awaits without interruption and     *)
(* interleaves with every other request at each await.  The route of       *)
(* request r and its arguments are ask[r]; q[r] holds where it is and the  *)
(* values it has read so far.  Remote calls fail a bounded number of times *)
(* (faults).  Every route is behind require_admin, so the caller of a      *)
(* request is always an administrator.                                     *)
(***************************************************************************)
EXTENDS Naturals, FiniteSets

CONSTANTS
    Reqs,       \* the requests of a behaviour
    None,       \* no value
    Mixes       \* the scenarios: the requests, the faults and the state they start in

ASSUME RequestAssumption ==
    /\ None \notin Reqs /\ None \notin Nat
    /\ \A mix \in Mixes : mix.faults \in Nat /\ mix.wired \in BOOLEAN

VARIABLES
    ask,        \* ask[r]: route and arguments, fixed by the scenario
    q,          \* q[r]: control state and locals of request r
    faults,     \* remote calls that may still fail
    wired,      \* whether the optional adapters were attached at start-up
    audit       \* the audit rows written so far

reqVars == <<ask, q, faults, wired, audit>>

\* A request before it starts.  "before" is the set of requests that were
\* answered when it started: those it does not overlap with.
Fresh == [pc |-> "idle", reply |-> None, br |-> None, old |-> None,
          todo |-> {}, drop |-> {}, before |-> {}]

ReqInit(mix) ==
    /\ ask = mix.ask
    /\ q = [r \in Reqs |-> Fresh]
    /\ faults = mix.faults
    /\ wired = mix.wired
    /\ audit = {}

Answered == {r \in Reqs : q[r].pc = "done"}

\* Requests r and s were in progress at the same time.
Overlap(r, s) == q[r].pc # "idle" /\ q[s].pc # "idle"
                 /\ r \notin q[s].before /\ s \notin q[r].before

\* Request r runs route op and is about to take its first step.
Starts(r, op) == q[r].pc = "idle" /\ ask[r].op = op

At(r, op, pc) == q[r].pc = pc /\ ask[r].op = op

Into(r, x) == [x EXCEPT !.before = IF q[r].pc = "idle" THEN Answered ELSE @]

\* Go on at pc, keeping the locals.
Goto(r, pc) == q' = [q EXCEPT ![r] = Into(r, [@ EXCEPT !.pc = pc])]

\* Go on at pc with the value v read from the outside.
Read(r, pc, v) == q' = [q EXCEPT ![r] = Into(r, [@ EXCEPT !.pc = pc, !.old = v])]

Answer(r, code) == q' = [q EXCEPT ![r] = Into(r, [@ EXCEPT !.pc = "done", !.reply = code])]

\* A request answered with 200 whose body says that nothing was found, kept
\* or changed.
NoEffect == 299

\* A remote call goes through, or one of the faults is spent on it.
Works == UNCHANGED faults
Fault == faults > 0 /\ faults' = faults - 1

\* AsyncpgAuditEventsWriter.insert_audit: the row is written, or the
\* database is away and the row is lost without the caller noticing.
insert_audit(row) ==
    \/ audit' = audit \cup {row} /\ Works
    \/ audit' = audit /\ Fault

\* The audit row of request r: the action, its result and the replaced and
\* the new value where the route records them.
AuditRow(r, action, result, old, new) ==
    [by |-> r, action |-> action, result |-> result, old |-> old, new |-> new]

Quiet == UNCHANGED <<faults, audit>>

\* A call whose failure is not handled ends the request with code and leaves
\* no audit row.
Fails(r, code) == Fault /\ Answer(r, code) /\ UNCHANGED audit

=============================================================================
