------------------------- MODULE AdminConsoleProofs -------------------------
(***************************************************************************)
(* Proofs about the admin dashboard API.  The first part is about requests *)
(* as such: whatever a request does, it moves only itself, overlaps stay   *)
(* overlaps, and a request that was answered before another one started    *)
(* stays answered.  The later parts are one inductive invariant per family *)
(* of routes; each is kept by the steps of the other families because      *)
(* those change neither its stores nor its requests.                       *)
(***************************************************************************)
EXTENDS AdminConsole, TLAPS

-----------------------------------------------------------------------------
(* Requests *)

Fields == {"pc", "reply", "br", "old", "todo", "drop", "before"}
IsRequest(x) == x = [f \in Fields |-> x[f]]

\* q holds one record per request.
Shape == q = [r \in Reqs |-> q[r]] /\ \A r \in Reqs : IsRequest(q[r])

\* Only answered requests come before another one.
BeforeIsDone == \A r \in Reqs : \A s \in q[r].before : s \in Reqs /\ q[s].pc = "done"

DoneIsAnswered == \A r \in Reqs : q[r].pc = "done" <=> q[r].reply # None

RequestsOK == Shape /\ BeforeIsDone /\ DoneIsAnswered /\ faults \in Nat

\* What the scenario's assumptions say of the requests of a behaviour.
Asked ==
    /\ wired \in BOOLEAN
    /\ \A r \in Reqs : LET a == ask[r] IN
        /\ a.op = "draft" => a.who \in DOMAIN SafeName
        /\ a.op = "commit" => a.path \in Paths \cup {"unsafe"}
        /\ a.op = "toggle" => a.val \in {"on", "off"}
        /\ a.op \in {"pnew", "pset", "pdel", "ptest"} => a.id \in Providers
        /\ a.op = "pnew" =>
              /\ a.val # None
              /\ \A s \in Reqs \ {r} : ask[s].op = "pnew" => ask[s].id # a.id
        /\ a.op = "pset" =>
              \/ a.mode = "api" /\ a.val # None
              \/ a.mode = "org"
              \/ a.mode = "status" /\ a.val \in {"active", "inactive"}
        /\ a.op = "pin" => a.dept \in FlagDepts /\ a.id \in Providers \cup {None}
        /\ a.op \in {"cancel", "retry", "signal"} => a.id \in Flows
        /\ a.op \in {"rnew", "rset", "smoke"} => a.id \in Runners
        /\ a.op = "rnew" \/ (a.op = "rset" /\ a.mode = "host") => a.val # None
        /\ a.op = "rset" => a.mode \in {"empty", "host", "status"}
        /\ a.op = "assign" => a.dept \in RunDepts /\ a.ids \subseteq Runners

\* Request r takes a step: nobody else moves, it was not answered yet and is
\* under way now.
Moved(r) ==
    /\ Shape'
    /\ \A s \in Reqs \ {r} : q'[s] = q[s]
    /\ q[r].pc # "done" /\ q'[r].pc # "idle"
    /\ q'[r].before = IF q[r].pc = "idle" THEN Answered ELSE q[r].before
    /\ q'[r].pc = "done" <=> q'[r].reply # None

Results == {"ok", "denied", "error"}

\* The rows a step of request r adds to the audit trail are its own.
Noted(r) ==
    /\ faults' \in Nat
    /\ audit \subseteq audit'
    /\ \A x \in audit' : x \in audit \/ (x.by = r /\ x.result \in Results)

\* A request before it starts has the shape of a request.
LEMMA FreshRequest == IsRequest(Fresh)
  BY DEF IsRequest, Fresh, Fields

\* Goto changes the position of the request and nothing else of it.
LEMMA GotoMoves ==
  ASSUME RequestsOK, NEW r \in Reqs, NEW pc, q[r].pc # "done", pc \notin {"idle", "done"},
         Goto(r, pc)
  PROVE  /\ Moved(r) /\ q'[r].pc = pc
         /\ q'[r].reply = None /\ q'[r].br = q[r].br /\ q'[r].old = q[r].old
         /\ q'[r].todo = q[r].todo /\ q'[r].drop = q[r].drop
<1>1. q'[r].pc = pc /\ q'[r].reply = q[r].reply /\ q'[r].br = q[r].br /\ q'[r].old = q[r].old
      /\ q'[r].todo = q[r].todo /\ q'[r].drop = q[r].drop
  BY DEF RequestsOK, Shape, IsRequest, Fields, Goto, Into
<1>2. q'[r].before = IF q[r].pc = "idle" THEN Answered ELSE q[r].before
  BY DEF RequestsOK, Shape, IsRequest, Fields, Goto, Into
<1>3. Shape' /\ \A s \in Reqs \ {r} : q'[s] = q[s]
  BY DEF RequestsOK, Shape, IsRequest, Fields, Goto, Into
<1>4. q[r].reply = None
  BY DEF RequestsOK, DoneIsAnswered
<1> QED BY <1>1, <1>2, <1>3, <1>4 DEF Moved

\* Read changes the position and the value read.
LEMMA ReadMoves ==
  ASSUME RequestsOK, NEW r \in Reqs, NEW pc, NEW v, q[r].pc # "done",
         pc \notin {"idle", "done"}, Read(r, pc, v)
  PROVE  /\ Moved(r) /\ q'[r].pc = pc
         /\ q'[r].reply = None /\ q'[r].br = q[r].br /\ q'[r].old = v
         /\ q'[r].todo = q[r].todo /\ q'[r].drop = q[r].drop
<1>1. q'[r].pc = pc /\ q'[r].reply = q[r].reply /\ q'[r].br = q[r].br /\ q'[r].old = v
      /\ q'[r].todo = q[r].todo /\ q'[r].drop = q[r].drop
  <2>1. q'[r] = Into(r, [q[r] EXCEPT !.pc = pc, !.old = v])
    BY DEF RequestsOK, Shape, Read
  <2> QED BY <2>1 DEF RequestsOK, Shape, IsRequest, Fields, Into
<1>2. q'[r].before = IF q[r].pc = "idle" THEN Answered ELSE q[r].before
  BY DEF RequestsOK, Shape, IsRequest, Fields, Read, Into
<1>3. Shape' /\ \A s \in Reqs \ {r} : q'[s] = q[s]
  BY DEF RequestsOK, Shape, IsRequest, Fields, Read, Into
<1>4. q[r].reply = None
  BY DEF RequestsOK, DoneIsAnswered
<1> QED BY <1>1, <1>2, <1>3, <1>4 DEF Moved

\* Answer ends the request with a status code.
LEMMA AnswerMoves ==
  ASSUME RequestsOK, NEW r \in Reqs, NEW code \in Nat, q[r].pc # "done", Answer(r, code)
  PROVE  /\ Moved(r) /\ q'[r].pc = "done"
         /\ q'[r].reply = code /\ q'[r].br = q[r].br /\ q'[r].old = q[r].old
         /\ q'[r].todo = q[r].todo /\ q'[r].drop = q[r].drop
<1>1. q'[r].pc = "done" /\ q'[r].reply = code /\ q'[r].br = q[r].br /\ q'[r].old = q[r].old
      /\ q'[r].todo = q[r].todo /\ q'[r].drop = q[r].drop
  <2>1. q'[r] = Into(r, [q[r] EXCEPT !.pc = "done", !.reply = code])
    BY DEF RequestsOK, Shape, Answer
  <2> QED BY <2>1 DEF RequestsOK, Shape, IsRequest, Fields, Into
<1>2. q'[r].before = IF q[r].pc = "idle" THEN Answered ELSE q[r].before
  BY DEF RequestsOK, Shape, IsRequest, Fields, Answer, Into
<1>3. Shape' /\ \A s \in Reqs \ {r} : q'[s] = q[s]
  BY DEF RequestsOK, Shape, IsRequest, Fields, Answer, Into
<1>4. code # None
  BY RequestAssumption
<1> QED BY <1>1, <1>2, <1>3, <1>4 DEF Moved

\* insert_audit adds the row of the request or loses it.
LEMMA InsertNotes ==
  ASSUME RequestsOK, NEW r, NEW action, NEW result \in Results, NEW old, NEW new,
         insert_audit(AuditRow(r, action, result, old, new))
  PROVE  Noted(r) /\ \A x \in audit' : x \in audit \/ (x.by = r /\ x.result = result)
<1>1. AuditRow(r, action, result, old, new).by = r
      /\ AuditRow(r, action, result, old, new).result = result
  BY DEF AuditRow
<1>2. faults' \in Nat
  BY DEF insert_audit, Works, Fault, RequestsOK
<1> QED BY <1>1, <1>2 DEF insert_audit, Noted

\* The three results an audit row can have.
LEMMA ResultNames == "ok" \in Results /\ "denied" \in Results /\ "error" \in Results
  BY DEF Results

\* A quiet step leaves the audit trail as it is.
LEMMA QuietNotes ==
  ASSUME RequestsOK, NEW r, Quiet
  PROVE  Noted(r) /\ audit' = audit
  BY DEF Quiet, Noted, RequestsOK

\* A call that fails answers the request and adds no row.
LEMMA FailsMoves ==
  ASSUME RequestsOK, NEW r \in Reqs, NEW code \in Nat, q[r].pc # "done", Fails(r, code)
  PROVE  /\ Moved(r) /\ q'[r].pc = "done"
         /\ q'[r].reply = code /\ q'[r].br = q[r].br /\ q'[r].old = q[r].old
         /\ q'[r].todo = q[r].todo /\ q'[r].drop = q[r].drop
         /\ Noted(r) /\ audit' = audit
<1>1. Noted(r) /\ audit' = audit
  BY DEF Fails, Fault, Noted, RequestsOK
<1> QED BY <1>1, AnswerMoves DEF Fails

\* Requests that overlap do so for good, and a request under way cannot have
\* been answered before another one started.
LEMMA OverlapStays ==
  ASSUME RequestsOK, NEW r \in Reqs, Moved(r), NEW s \in Reqs, NEW t \in Reqs, Overlap(s, t)
  PROVE  Overlap(s, t)'
  BY DEF Moved, Overlap, RequestsOK

\* Two requests that are under way overlap.
LEMMA UnderWayOverlaps ==
  ASSUME RequestsOK, NEW s \in Reqs, NEW t \in Reqs,
         q[s].pc \notin {"idle", "done"}, q[t].pc \notin {"idle", "done"}
  PROVE  Overlap(s, t)
  BY DEF Overlap, RequestsOK, BeforeIsDone

\* A step keeps what holds of all requests.
LEMMA RequestsStay ==
  ASSUME RequestsOK, NEW r \in Reqs, Moved(r), faults' \in Nat
  PROVE  RequestsOK'
<1>1. BeforeIsDone'
  BY DEF RequestsOK, BeforeIsDone, Moved, Answered
<1>2. DoneIsAnswered'
  BY DEF RequestsOK, DoneIsAnswered, Moved
<1> QED BY <1>1, <1>2 DEF RequestsOK, Moved

\* A request that was idle continues with the record y.
LEMMA IntoMoves ==
  ASSUME RequestsOK, NEW r \in Reqs, NEW y, IsRequest(y), q[r].pc # "done", y.pc # "idle",
         y.pc = "done" <=> y.reply # None, y.before = q[r].before,
         q' = [q EXCEPT ![r] = Into(r, y)]
  PROVE  /\ Moved(r) /\ q'[r].pc = y.pc
         /\ q'[r].reply = y.reply /\ q'[r].br = y.br /\ q'[r].old = y.old
         /\ q'[r].todo = y.todo /\ q'[r].drop = y.drop
<1>1. q'[r] = Into(r, y) /\ q' = [s \in Reqs |-> q'[s]] /\ \A s \in Reqs \ {r} : q'[s] = q[s]
  BY DEF RequestsOK, Shape
<1>2. q'[r].pc = y.pc /\ q'[r].reply = y.reply /\ q'[r].br = y.br /\ q'[r].old = y.old
      /\ q'[r].todo = y.todo /\ q'[r].drop = y.drop
  BY <1>1 DEF Into, IsRequest, Fields
<1>3. q'[r].before = IF q[r].pc = "idle" THEN Answered ELSE q[r].before
  BY <1>1 DEF Into, IsRequest, Fields
<1>4. IsRequest(q'[r])
  BY <1>1 DEF Into, IsRequest, Fields
<1>5. Shape'
  BY <1>1, <1>4 DEF RequestsOK, Shape, IsRequest
<1> QED BY <1>1, <1>2, <1>3, <1>5 DEF Moved

\* A request under way continues with the record y.
LEMMA SetMoves ==
  ASSUME RequestsOK, NEW r \in Reqs, NEW y, IsRequest(y), q[r].pc \notin {"idle", "done"},
         y.pc # "idle", y.pc = "done" <=> y.reply # None, y.before = q[r].before,
         q' = [q EXCEPT ![r] = y]
  PROVE  Moved(r) /\ q'[r] = y
<1>1. q'[r] = y /\ q' = [s \in Reqs |-> q'[s]] /\ \A s \in Reqs \ {r} : q'[s] = q[s]
  BY DEF RequestsOK, Shape
<1>2. Shape'
  BY <1>1 DEF RequestsOK, Shape, IsRequest
<1> QED BY <1>1, <1>2 DEF Moved

\* A request that is not answered has no reply.
LEMMA NoReplyYet ==
  ASSUME RequestsOK, NEW r \in Reqs, q[r].pc # "done"
  PROVE  IsRequest(q[r]) /\ q[r].reply = None
  BY DEF RequestsOK, Shape, DoneIsAnswered

-----------------------------------------------------------------------------
(* Runners *)

\* Two creations of the runner ran at the same time.
Twice(i) == \E r, s \in Writers(i) : r # s /\ Overlap(r, s)

\* Another assignment of the department ran next to r or came later.
RivalAssign(r) ==
    \E s \in Reqs \ {r} : ask[s].op = "assign" /\ ask[s].dept = ask[r].dept
                          /\ q[s].pc # "idle" /\ s \notin q[r].before

\* The set A is B, but for the default runner that a worker may have added.
Meets(A, B) == A = B \/ (seeding # "off" /\ A = B \cup {DefaultRunner})

\* A creation that found no runner of its name and now sees one was not alone,
\* and one that is about to insert the row has its key in Vault.
CreationOK(r) == ask[r].op = "rnew" =>
    /\ q[r].pc \in {"idle", "key", "row", "done"}
    /\ (q[r].pc \in {"key", "row"} /\ Known(ask[r].id)) => Twice(ask[r].id) \/ Seeded(ask[r].id)
    /\ q[r].pc = "row" => /\ keys[ask[r].id] # None
                          /\ keys[ask[r].id] = ask[r].val \/ Twice(ask[r].id)

PatchOK(r) == ask[r].op = "rset" =>
    /\ q[r].pc \in {"idle", "row", "done"}
    /\ q[r].pc = "row" => Known(ask[r].id) /\ ask[r].mode \in {"host", "status"}

\* What is left to remove and to add leads to the assignment asked for.
AssignmentOK(r) == ask[r].op = "assign" =>
    /\ q[r].pc \in {"idle", "check", "current", "remove", "add", "audit", "done"}
    /\ q[r].pc \in {"remove", "add"} => q[r].todo \subseteq ask[r].ids
    /\ q[r].pc = "remove" =>
          \/ Meets(assigned[ask[r].dept] \ q[r].drop, ask[r].ids \ q[r].todo)
          \/ RivalAssign(r)
    /\ q[r].pc = "add" => Meets(assigned[ask[r].dept], ask[r].ids \ q[r].todo) \/ RivalAssign(r)
    /\ q[r].pc = "audit" \/ q[r].reply = 200 =>
          Meets(assigned[ask[r].dept], ask[r].ids) \/ RivalAssign(r)

ListOK(r) == ask[r].op = "rlist" =>
    /\ q[r].pc \in {"idle", "schedule", "done"}
    /\ q[r].reply = 200 => cron

OtherRunnerOK(r) ==
    /\ ask[r].op = "smoke" => q[r].pc \in {"idle", "secret", "run", "done"}
    /\ ask[r].op = "probe" => q[r].pc \in {"idle", "resolve", "connect", "store", "done"}

RunnerRequest(r) ==
    CreationOK(r) /\ PatchOK(r) /\ AssignmentOK(r) /\ ListOK(r) /\ OtherRunnerOK(r)

IsRow(x) == x = [f \in {"host", "status"} |-> x[f]]

RunnerTypes ==
    /\ rows = [i \in Runners |-> rows[i]]
    /\ \A i \in Runners : IsRow(rows[i]) /\ (Known(i) => rows[i].host # None)
    /\ keys = [i \in Runners |-> keys[i]]
    /\ assigned \in [RunDepts -> SUBSET Runners]
    /\ cron \in BOOLEAN

\* The inductive invariant of the runner routes.
RunnersOK == RunnerTypes /\ RunnerRowMatchesKey /\ \A r \in Reqs : RunnerRequest(r)

\* What excuses a request stays true.
LEMMA TwiceStays ==
  ASSUME RequestsOK, NEW r \in Reqs, Moved(r), ask' = ask, NEW i, Twice(i)
  PROVE  Twice(i)'
<1>1. PICK s \in Reqs, t \in Reqs : s \in Writers(i) /\ t \in Writers(i) /\ s # t /\ Overlap(s, t)
  BY DEF Twice, Writers
<1>2. Overlap(s, t)'
  BY <1>1, OverlapStays
<1>3. s \in Writers(i)' /\ t \in Writers(i)'
  BY <1>1 DEF Writers, Moved
<1> QED BY <1>1, <1>2, <1>3 DEF Twice

\* An assignment that was overtaken stays overtaken.
LEMMA RivalAssignStays ==
  ASSUME RequestsOK, NEW r \in Reqs, Moved(r), ask' = ask, NEW s \in Reqs, q[s].pc # "idle",
         RivalAssign(s)
  PROVE  RivalAssign(s)'
  BY DEF RivalAssign, Moved

\* A host that was patched stays patched: the request was answered.
LEMMA PatchedStays ==
  ASSUME RequestsOK, NEW r \in Reqs, Moved(r), ask' = ask, NEW i, HostPatched(i)
  PROVE  HostPatched(i)'
<1>1. PICK s \in Reqs : ask[s].op = "rset" /\ ask[s].id = i /\ ask[s].mode = "host"
                        /\ q[s].reply = 200
  BY DEF HostPatched
<1>2. s # r
  BY <1>1, NoReplyYet, RequestAssumption DEF Moved
<1> QED BY <1>1, <1>2 DEF HostPatched, Moved

\* A step that leaves the stores of the runners alone needs to be looked at
\* only for the request that takes it.
LEMMA RunnerStoresSame ==
  ASSUME RequestsOK, RunnersOK, NEW r \in Reqs, Moved(r), ask' = ask,
         UNCHANGED <<rows, keys, assigned, cron, seeding>>, RunnerRequest(r)'
  PROVE  RunnersOK'
<1>1. RunnerTypes'
  BY DEF RunnersOK, RunnerTypes, IsRow, Known, NoRow
<1>2. RunnerRowMatchesKey'
  BY TwiceStays, PatchedStays DEF RunnersOK, RunnerRowMatchesKey, Seeded, Known, NoRow, Twice
<1>3. ASSUME NEW s \in Reqs \ {r} PROVE RunnerRequest(s)'
  <2>1. RunnerRequest(s) /\ q'[s] = q[s] /\ \A i : Known(i)' = Known(i)
    BY DEF RunnersOK, Moved, Known, NoRow
  <2>2. CreationOK(s)'
    BY <2>1, TwiceStays DEF RunnerRequest, CreationOK, Seeded
  <2>3. PatchOK(s)'
    BY <2>1 DEF RunnerRequest, PatchOK
  <2>4. AssignmentOK(s)'
    <3>1. q[s].reply = 200 => q[s].pc = "done"
      BY RequestAssumption DEF RequestsOK, DoneIsAnswered
    <3> QED BY <2>1, <3>1, RivalAssignStays DEF RunnerRequest, AssignmentOK, Meets
  <2>5. ListOK(s)' /\ OtherRunnerOK(s)'
    BY <2>1 DEF RunnerRequest, ListOK, OtherRunnerOK
  <2> QED BY <2>2, <2>3, <2>4, <2>5 DEF RunnerRequest
<1> QED BY <1>1, <1>2, <1>3 DEF RunnersOK

RunnerRouteOps == RunnerOps \cup {"probe", "matrix"}

\* A request of the runner pages that was refused or failed has nothing left
\* to keep.
LEMMA RunnerAnswered ==
  ASSUME NEW r \in Reqs, ask' = ask, q'[r].pc = "done",
         q'[r].reply = 200 => ask[r].op \notin {"assign", "rlist"}
  PROVE  RunnerRequest(r)'
  BY DEF RunnerRequest, CreationOK, PatchOK, AssignmentOK, ListOK, OtherRunnerOK

\* Steps of the runner routes that only read.
LEMMA RunnerReads ==
  ASSUME RequestsOK, Asked, RunnersOK, NEW r \in Reqs, ask' = ask,
         \/ RunnersNotReady(r) \/ CreateRunner(r) \/ FindRunner(r) \/ StartSmoke(r)
         \/ read_ssh_secret(r) \/ run_docker_smoke_sync(r) \/ ListRunners(r)
  PROVE  Moved(r) /\ Noted(r) /\ ask[r].op \in RunnerRouteOps /\ RunnersOK'
<1> USE DEF RunnerRouteOps, RunnerOps, Ready, Starts, At
<1> SUFFICES Moved(r) /\ Noted(r) /\ ask[r].op \in RunnerRouteOps /\ RunnerRequest(r)'
             /\ UNCHANGED runnerVars
  BY RunnerStoresSame DEF runnerVars
<1>1. CASE RunnersNotReady(r)
  <2>1. Moved(r) /\ q'[r].pc = "done" /\ q'[r].reply = 503
    BY <1>1, AnswerMoves DEF RunnersNotReady
  <2> QED BY <1>1, <2>1, RunnerAnswered, QuietNotes DEF RunnersNotReady
<1>2. CASE CreateRunner(r)
  <2>1. CASE Known(ask[r].id)
    <3>1. Moved(r) /\ q'[r].pc = "done" /\ q'[r].reply = 409
      BY <1>2, <2>1, AnswerMoves DEF CreateRunner
    <3> QED BY <1>2, <3>1, RunnerAnswered, QuietNotes DEF CreateRunner
  <2>2. CASE ~ Known(ask[r].id)
    <3>1. Moved(r) /\ q'[r].pc = "key" /\ q'[r].reply = None
      BY <1>2, <2>2, GotoMoves DEF CreateRunner
    <3>2. RunnerRequest(r)'
      BY <1>2, <2>2, <3>1 DEF CreateRunner, RunnerRequest, CreationOK, PatchOK, AssignmentOK,
                              ListOK, OtherRunnerOK, runnerVars, Known, NoRow
    <3> QED BY <1>2, <3>1, <3>2, QuietNotes DEF CreateRunner
  <2> QED BY <2>1, <2>2
<1>3. CASE FindRunner(r)
  <2>1. CASE ~ Known(ask[r].id) \/ ask[r].mode = "empty"
    <3>1. Moved(r) /\ q'[r].pc = "done"
      BY <1>3, <2>1, AnswerMoves DEF FindRunner
    <3> QED BY <1>3, <3>1, RunnerAnswered, QuietNotes DEF FindRunner
  <2>2. CASE Known(ask[r].id) /\ ask[r].mode # "empty"
    <3>1. Moved(r) /\ q'[r].pc = "row" /\ q'[r].reply = None
      BY <1>3, <2>2, GotoMoves DEF FindRunner
    <3>2. RunnerRequest(r)'
      BY <1>3, <2>2, <3>1 DEF FindRunner, Asked, RunnerRequest, CreationOK, PatchOK, AssignmentOK,
                              ListOK, OtherRunnerOK, runnerVars, Known, NoRow
    <3> QED BY <1>3, <3>1, <3>2, QuietNotes DEF FindRunner
  <2> QED BY <2>1, <2>2
<1>4. CASE StartSmoke(r)
  <2>1. Moved(r) /\ (q'[r].pc = "done" \/ q'[r].pc = "secret")
    BY <1>4, AnswerMoves, GotoMoves DEF StartSmoke
  <2>2. RunnerRequest(r)'
    BY <1>4, <2>1 DEF StartSmoke, RunnerRequest, CreationOK, PatchOK, AssignmentOK, ListOK,
                      OtherRunnerOK
  <2> QED BY <1>4, <2>1, <2>2, QuietNotes DEF StartSmoke
<1>5. CASE read_ssh_secret(r)
  <2>1. Moved(r) /\ Noted(r) /\ (q'[r].pc = "done" \/ q'[r].pc = "run")
    BY <1>5, AnswerMoves, ReadMoves, FailsMoves, QuietNotes DEF read_ssh_secret
  <2>2. RunnerRequest(r)'
    BY <1>5, <2>1 DEF read_ssh_secret, RunnerRequest, CreationOK, PatchOK, AssignmentOK, ListOK,
                      OtherRunnerOK
  <2> QED BY <1>5, <2>1, <2>2 DEF read_ssh_secret
<1>6. CASE run_docker_smoke_sync(r)
  <2>1. Moved(r) /\ Noted(r) /\ q'[r].pc = "done"
    BY <1>6, AnswerMoves, FailsMoves, InsertNotes, ResultNames DEF run_docker_smoke_sync
  <2> QED BY <1>6, <2>1, RunnerAnswered DEF run_docker_smoke_sync
<1>7. CASE ListRunners(r)
  <2>1. Moved(r) /\ Noted(r) /\ q'[r].pc \in {"schedule", "done"}
        /\ (q'[r].reply = 200 => cron)
    BY <1>7, AnswerMoves, GotoMoves, FailsMoves, QuietNotes, RequestAssumption
       DEF ListRunners, NoEffect
  <2>2. RunnerRequest(r)'
    BY <1>7, <2>1 DEF ListRunners, RunnerRequest, CreationOK, PatchOK, AssignmentOK, ListOK,
                      OtherRunnerOK, runnerVars
  <2> QED BY <1>7, <2>1, <2>2 DEF ListRunners
<1> QED BY <1>1, <1>2, <1>3, <1>4, <1>5, <1>6, <1>7

\* A creation under way is a writer of its runner, and two of them overlap.
LEMMA CreationsOverlap ==
  ASSUME RequestsOK, NEW r \in Reqs, NEW s \in Reqs, r # s, ask[r].op = "rnew", ask[s].op = "rnew",
         ask[r].id = ask[s].id, q[r].pc \notin {"idle", "done"}, q[s].pc \notin {"idle", "done"}
  PROVE  Twice(ask[r].id)
  BY UnderWayOverlaps DEF Twice, Writers

\* The key goes to Vault: the row, if another creation made it meanwhile, may
\* name another host.
LEMMA SecretStep ==
  ASSUME RequestsOK, Asked, RunnersOK, NEW r \in Reqs, ask' = ask, write_ssh_secret(r)
  PROVE  Moved(r) /\ Noted(r) /\ ask[r].op \in RunnerRouteOps /\ RunnersOK'
<1> USE DEF RunnerRouteOps, RunnerOps, At
<1> DEFINE i == ask[r].id
<1>0. i \in Runners /\ ask[r].val # None /\ q[r].pc = "key" /\ ask[r].op = "rnew"
  BY DEF Asked, write_ssh_secret
<1>1. CASE keys' = [keys EXCEPT ![i] = ask[r].val] /\ Goto(r, "row") /\ Quiet
  <2>1. Moved(r) /\ Noted(r) /\ q'[r].pc = "row" /\ q'[r].reply = None
    BY <1>0, <1>1, GotoMoves, QuietNotes
  <2>2. UNCHANGED <<rows, assigned, cron, seeding>> /\ \A j : Known(j)' = Known(j)
    BY DEF write_ssh_secret, Known, NoRow
  <2>3. keys'[i] = ask[r].val /\ (\A j \in Runners \ {i} : keys'[j] = keys[j])
        /\ keys' = [j \in Runners |-> keys'[j]]
    BY <1>0, <1>1 DEF RunnersOK, RunnerTypes
  <2>4. RunnerTypes'
    BY <2>2, <2>3 DEF RunnersOK, RunnerTypes, IsRow
  <2>5. Known(i) => Twice(i) \/ Seeded(i)
    BY <1>0 DEF RunnersOK, RunnerRequest, CreationOK
  <2>6. RunnerRowMatchesKey'
    <3> SUFFICES ASSUME NEW j \in Runners, Known(j), ~ Seeded(j)
                 PROVE  keys'[j] # None
                        /\ (keys'[j] = rows[j].host \/ HostPatched(j)' \/ Twice(j)')
      BY <2>2 DEF RunnerRowMatchesKey, Seeded, Twice
    <3>1. CASE j = i
      BY <3>1, <1>0, <2>1, <2>3, <2>5, TwiceStays
    <3>2. CASE j # i
      BY <3>2, <2>1, <2>3, TwiceStays, PatchedStays DEF RunnersOK, RunnerRowMatchesKey, Seeded, Twice
    <3> QED BY <3>1, <3>2
  <2>7. ASSUME NEW s \in Reqs \ {r} PROVE RunnerRequest(s)'
    <3>1. RunnerRequest(s) /\ q'[s] = q[s]
      BY <2>1 DEF RunnersOK, Moved
    <3>2. CreationOK(s)'
      <4> SUFFICES ASSUME ask[s].op = "rnew" PROVE CreationOK(s)'
        BY DEF CreationOK
      <4>1. ask[s].id \in Runners
        BY DEF Asked
      <4>2. CASE ask[s].id = i /\ q[s].pc = "row"
        <5>1. Twice(i)'
          BY <1>0, <2>1, <4>2, CreationsOverlap, TwiceStays
        <5> QED BY <1>0, <2>3, <3>1, <4>2, <5>1 DEF CreationOK
      <4>3. CASE ~ (ask[s].id = i /\ q[s].pc = "row")
        BY <2>1, <2>2, <2>3, <3>1, <4>1, <4>3, TwiceStays DEF RunnerRequest, CreationOK, Seeded
      <4> QED BY <4>2, <4>3
    <3>3. q[s].reply = 200 => q[s].pc = "done"
      BY RequestAssumption DEF RequestsOK, DoneIsAnswered
    <3>4. AssignmentOK(s)'
      BY <2>1, <2>2, <3>1, <3>3, RivalAssignStays DEF RunnerRequest, AssignmentOK, Meets
    <3> QED BY <2>2, <3>1, <3>2, <3>4 DEF RunnerRequest, PatchOK, ListOK, OtherRunnerOK
  <2>8. RunnerRequest(r)'
    BY <1>0, <2>1, <2>2, <2>3, <2>5, TwiceStays
       DEF RunnerRequest, CreationOK, PatchOK, AssignmentOK, ListOK, OtherRunnerOK, Seeded
  <2> QED BY <1>0, <2>1, <2>4, <2>6, <2>7, <2>8 DEF RunnersOK
<1>2. CASE Fails(r, 502) /\ UNCHANGED keys
  <2>1. Moved(r) /\ Noted(r) /\ q'[r].pc = "done" /\ q'[r].reply = 502
    BY <1>0, <1>2, FailsMoves
  <2>2. RunnerRequest(r)' /\ UNCHANGED <<rows, keys, assigned, cron, seeding>>
    BY <1>2, <2>1, RunnerAnswered DEF write_ssh_secret
  <2> QED BY <1>0, <2>1, <2>2, RunnerStoresSame
<1> QED BY <1>1, <1>2 DEF write_ssh_secret

\* What a step that leaves assignments and schedule alone cannot touch.
LEMMA OthersKept ==
  ASSUME RequestsOK, RunnersOK, NEW r \in Reqs, Moved(r), ask' = ask,
         UNCHANGED <<assigned, cron, seeding>>, NEW s \in Reqs \ {r}
  PROVE  q'[s] = q[s] /\ RunnerRequest(s) /\ AssignmentOK(s)' /\ ListOK(s)' /\ OtherRunnerOK(s)'
<1>1. q'[s] = q[s] /\ RunnerRequest(s)
  BY DEF RunnersOK, Moved
<1>2. q[s].reply = 200 => q[s].pc = "done"
  BY RequestAssumption DEF RequestsOK, DoneIsAnswered
<1>3. AssignmentOK(s)'
  BY <1>1, <1>2, RivalAssignStays DEF RunnerRequest, AssignmentOK, Meets
<1> QED BY <1>1, <1>3 DEF RunnerRequest, ListOK, OtherRunnerOK

\* The row is inserted: its key is in Vault.
LEMMA InsertStep ==
  ASSUME RequestsOK, Asked, RunnersOK, NEW r \in Reqs, ask' = ask, InsertRunner(r)
  PROVE  Moved(r) /\ Noted(r) /\ ask[r].op \in RunnerRouteOps /\ RunnersOK'
<1> USE DEF RunnerRouteOps, RunnerOps, At
<1> DEFINE i == ask[r].id
<1>0. i \in Runners /\ ask[r].val # None /\ q[r].pc = "row" /\ ask[r].op = "rnew"
  BY DEF Asked, InsertRunner
<1>1. CASE /\ ~ Known(i) /\ Answer(r, 201) /\ Quiet
           /\ rows' = [rows EXCEPT ![i] = [host |-> ask[r].val, status |-> "active"]]
  <2>1. Moved(r) /\ Noted(r) /\ q'[r].pc = "done" /\ q'[r].reply = 201
    BY <1>0, <1>1, AnswerMoves, QuietNotes
  <2>2. UNCHANGED <<keys, assigned, cron, seeding>>
    BY DEF InsertRunner
  <2>3. rows'[i] = [host |-> ask[r].val, status |-> "active"]
        /\ (\A j \in Runners \ {i} : rows'[j] = rows[j]) /\ rows' = [j \in Runners |-> rows'[j]]
    BY <1>0, <1>1 DEF RunnersOK, RunnerTypes
  <2>4. \A j \in Runners \ {i} : Known(j)' = Known(j)
    BY <2>3 DEF Known, NoRow
  <2>5. IsRow(rows'[i]) /\ rows'[i].host = ask[r].val
    BY <2>3 DEF IsRow
  <2>6. RunnerTypes'
    BY <1>0, <2>2, <2>3, <2>4, <2>5 DEF RunnersOK, RunnerTypes
  <2>7. keys[i] # None /\ (keys[i] = ask[r].val \/ Twice(i))
    BY <1>0 DEF RunnersOK, RunnerRequest, CreationOK
  <2>8. RunnerRowMatchesKey'
    <3> SUFFICES ASSUME NEW j \in Runners, Known(j)', ~ Seeded(j)
                 PROVE  keys[j] # None
                        /\ (keys[j] = rows'[j].host \/ HostPatched(j)' \/ Twice(j)')
      BY <2>2 DEF RunnerRowMatchesKey, Seeded, Twice
    <3>1. CASE j = i
      BY <3>1, <2>1, <2>5, <2>7, TwiceStays
    <3>2. CASE j # i
      BY <3>2, <2>1, <2>3, <2>4, TwiceStays, PatchedStays DEF RunnersOK, RunnerRowMatchesKey, Seeded, Twice
    <3> QED BY <3>1, <3>2
  <2>9. ASSUME NEW s \in Reqs \ {r} PROVE RunnerRequest(s)'
    <3>1. q'[s] = q[s] /\ RunnerRequest(s) /\ AssignmentOK(s)' /\ ListOK(s)' /\ OtherRunnerOK(s)'
      BY <2>1, <2>2, OthersKept
    <3>2. CreationOK(s)'
      <4> SUFFICES ASSUME ask[s].op = "rnew" PROVE CreationOK(s)'
        BY DEF CreationOK
      <4>1. ask[s].id \in Runners
        BY DEF Asked
      <4>2. CASE ask[s].id = i /\ q[s].pc \in {"key", "row"}
        <5>1. Twice(i)'
          BY <1>0, <2>1, <4>2, CreationsOverlap, TwiceStays
        <5> QED BY <1>0, <2>2, <3>1, <4>2, <5>1 DEF RunnerRequest, CreationOK
      <4>3. CASE ~ (ask[s].id = i /\ q[s].pc \in {"key", "row"})
        BY <2>1, <2>2, <2>4, <3>1, <4>1, <4>3, TwiceStays DEF RunnerRequest, CreationOK, Seeded
      <4> QED BY <4>2, <4>3
    <3>3. PatchOK(s)'
      <4> SUFFICES ASSUME ask[s].op = "rset", q[s].pc = "row" PROVE Known(ask[s].id)'
        BY <3>1 DEF PatchOK, RunnerRequest
      <4>1. ask[s].id \in Runners /\ Known(ask[s].id)
        BY <3>1 DEF Asked, RunnerRequest, PatchOK
      <4> QED BY <1>1, <2>4, <4>1
    <3> QED BY <3>1, <3>2, <3>3 DEF RunnerRequest
  <2>10. RunnerRequest(r)'
    BY <1>0, <2>1, RunnerAnswered
  <2> QED BY <1>0, <2>1, <2>6, <2>8, <2>9, <2>10 DEF RunnersOK
<1>2. CASE UNCHANGED rows
  <2>1. Moved(r) /\ Noted(r) /\ q'[r].pc = "done"
    BY <1>0, AnswerMoves, FailsMoves, QuietNotes DEF InsertRunner
  <2>2. RunnerRequest(r)' /\ UNCHANGED <<rows, keys, assigned, cron, seeding>>
    BY <1>0, <1>2, <2>1, RunnerAnswered DEF InsertRunner
  <2> QED BY <1>0, <2>1, <2>2, RunnerStoresSame
<1> QED BY <1>1, <1>2 DEF InsertRunner

\* Host or status of a row is patched.
LEMMA PatchStep ==
  ASSUME RequestsOK, Asked, RunnersOK, NEW r \in Reqs, ask' = ask, UpdateRunner(r)
  PROVE  Moved(r) /\ Noted(r) /\ ask[r].op \in RunnerRouteOps /\ RunnersOK'
<1> USE DEF RunnerRouteOps, RunnerOps, At
<1> DEFINE i == ask[r].id
<1>0. /\ i \in Runners /\ q[r].pc = "row" /\ ask[r].op = "rset" /\ Known(i)
      /\ ask[r].mode \in {"host", "status"} /\ (ask[r].mode = "host" => ask[r].val # None)
  BY DEF Asked, UpdateRunner, RunnersOK, RunnerRequest, PatchOK
<1>1. Moved(r) /\ Noted(r) /\ q'[r].pc = "done" /\ q'[r].reply = 200
  BY <1>0, AnswerMoves, QuietNotes DEF UpdateRunner
<1>2. UNCHANGED <<keys, assigned, cron, seeding>>
  BY DEF UpdateRunner
<1>3. rows'[i] = [rows[i] EXCEPT ![ask[r].mode] = ask[r].val]
      /\ (\A j \in Runners \ {i} : rows'[j] = rows[j]) /\ rows' = [j \in Runners |-> rows'[j]]
  BY <1>0 DEF RunnersOK, RunnerTypes, UpdateRunner
<1>4. IsRow(rows[i]) /\ rows[i].host # None
  BY <1>0 DEF RunnersOK, RunnerTypes
<1>5. IsRow(rows'[i]) /\ rows'[i].host # None
      /\ (ask[r].mode = "status" => rows'[i].host = rows[i].host)
  BY <1>0, <1>3, <1>4 DEF IsRow
<1>6. \A j \in Runners : Known(j)' = Known(j)
  <2>1. rows'[i] # NoRow
    BY <1>5 DEF NoRow
  <2> QED BY <1>0, <1>3, <2>1 DEF Known, NoRow
<1>7. RunnerTypes'
  BY <1>0, <1>2, <1>3, <1>5, <1>6 DEF RunnersOK, RunnerTypes
<1>8. RunnerRowMatchesKey'
  <2> SUFFICES ASSUME NEW j \in Runners, Known(j), ~ Seeded(j)
               PROVE  keys[j] # None
                      /\ (keys[j] = rows'[j].host \/ HostPatched(j)' \/ Twice(j)')
    BY <1>2, <1>6 DEF RunnerRowMatchesKey, Seeded, Twice
  <2>1. keys[j] # None /\ (keys[j] = rows[j].host \/ HostPatched(j)' \/ Twice(j)')
    BY <1>1, TwiceStays, PatchedStays DEF RunnersOK, RunnerRowMatchesKey, Seeded, Twice
  <2>2. CASE j = i /\ ask[r].mode = "host"
    <3>1. HostPatched(i)'
      BY <1>0, <1>1, <2>2 DEF HostPatched
    <3> QED BY <2>1, <2>2, <3>1
  <2>3. CASE ~ (j = i /\ ask[r].mode = "host")
    BY <1>0, <1>3, <1>5, <2>1, <2>3
  <2> QED BY <2>2, <2>3
<1>9. ASSUME NEW s \in Reqs \ {r} PROVE RunnerRequest(s)'
  <2>1. q'[s] = q[s] /\ RunnerRequest(s) /\ AssignmentOK(s)' /\ ListOK(s)' /\ OtherRunnerOK(s)'
    BY <1>1, <1>2, OthersKept
  <2>2. ask[s].op \in {"rnew", "rset"} => Known(ask[s].id)' = Known(ask[s].id)
    BY <1>6 DEF Asked
  <2>3. CreationOK(s)'
    BY <1>1, <1>2, <2>1, <2>2, TwiceStays DEF RunnerRequest, CreationOK, Seeded
  <2>4. PatchOK(s)'
    BY <2>1, <2>2 DEF RunnerRequest, PatchOK
  <2> QED BY <2>1, <2>3, <2>4 DEF RunnerRequest
<1>10. RunnerRequest(r)'
  BY <1>0, <1>1, RunnerAnswered
<1> QED BY <1>0, <1>1, <1>7, <1>8, <1>9, <1>10 DEF RunnersOK

\* The schedule, once made, stays; every list that was told so is right.
LEMMA CronStep ==
  ASSUME RequestsOK, Asked, RunnersOK, NEW r \in Reqs, ask' = ask, ScheduleCron(r)
  PROVE  Moved(r) /\ Noted(r) /\ ask[r].op \in RunnerRouteOps /\ RunnersOK'
<1> USE DEF RunnerRouteOps, RunnerOps, At
<1>0. q[r].pc = "schedule" /\ ask[r].op = "rlist" /\ UNCHANGED <<rows, keys, assigned, seeding>>
  BY DEF ScheduleCron
<1>1. Moved(r) /\ Noted(r) /\ q'[r].pc = "done" /\ (q'[r].reply = 200 => cron')
  BY <1>0, AnswerMoves, FailsMoves, QuietNotes DEF ScheduleCron, CronAnswer, NoEffect
<1>2. cron' \in BOOLEAN /\ (cron => cron')
  BY DEF ScheduleCron, RunnersOK, RunnerTypes
<1>3. RunnerTypes'
  BY <1>0, <1>2 DEF RunnersOK, RunnerTypes, IsRow, Known, NoRow
<1>4. RunnerRowMatchesKey'
  BY <1>0, <1>1, TwiceStays, PatchedStays DEF RunnersOK, RunnerRowMatchesKey, Seeded, Known, NoRow, Twice
<1>5. ASSUME NEW s \in Reqs \ {r} PROVE RunnerRequest(s)'
  <2>1. q'[s] = q[s] /\ RunnerRequest(s)
    BY <1>1 DEF RunnersOK, Moved
  <2>2. q[s].reply = 200 => q[s].pc = "done"
    BY RequestAssumption DEF RequestsOK, DoneIsAnswered
  <2>3. AssignmentOK(s)'
    BY <1>0, <1>1, <2>1, <2>2, RivalAssignStays DEF RunnerRequest, AssignmentOK, Meets
  <2>4. CreationOK(s)' /\ PatchOK(s)'
    BY <1>0, <1>1, <2>1, TwiceStays DEF RunnerRequest, CreationOK, PatchOK, Known, NoRow, Seeded
  <2>5. ListOK(s)' /\ OtherRunnerOK(s)'
    BY <1>2, <2>1 DEF RunnerRequest, ListOK, OtherRunnerOK
  <2> QED BY <2>3, <2>4, <2>5 DEF RunnerRequest
<1>6. RunnerRequest(r)'
  BY <1>0, <1>1 DEF RunnerRequest, CreationOK, PatchOK, AssignmentOK, ListOK, OtherRunnerOK
<1> QED BY <1>0, <1>1, <1>3, <1>4, <1>5, <1>6 DEF RunnersOK

\* Up to the differences an assignment only reads.
LEMMA AssignReads ==
  ASSUME RequestsOK, Asked, RunnersOK, NEW r \in Reqs, ask' = ask,
         SeedDept(r) \/ CheckIds(r) \/ ReadCurrent(r) \/ BindBot(r) \/ AnswerAssign(r)
  PROVE  Moved(r) /\ Noted(r) /\ ask[r].op \in RunnerRouteOps /\ RunnersOK'
<1> USE DEF RunnerRouteOps, RunnerOps, Ready, Starts, At
<1>0. ask[r].op = "assign" /\ UNCHANGED <<rows, keys, assigned, cron, seeding>>
  BY DEF SeedDept, CheckIds, ReadCurrent, BindBot, AnswerAssign, runnerVars
<1> SUFFICES Moved(r) /\ Noted(r) /\ RunnerRequest(r)'
  BY <1>0, RunnerStoresSame
<1>1. CASE SeedDept(r)
  <2>1. Moved(r) /\ Noted(r) /\ q'[r].pc = "check" /\ q'[r].reply = None
    BY <1>1, GotoMoves, QuietNotes DEF SeedDept
  <2> QED BY <1>0, <2>1, RequestAssumption
          DEF RunnerRequest, CreationOK, PatchOK, AssignmentOK, ListOK, OtherRunnerOK
<1>2. CASE CheckIds(r)
  <2>1. Moved(r) /\ Noted(r) /\ q'[r].pc \in {"current", "done"} /\ q'[r].reply # 200
    BY <1>2, GotoMoves, AnswerMoves, QuietNotes, RequestAssumption DEF CheckIds
  <2> QED BY <1>0, <2>1
          DEF RunnerRequest, CreationOK, PatchOK, AssignmentOK, ListOK, OtherRunnerOK
<1>3. CASE ReadCurrent(r)
  <2> DEFINE y == [q[r] EXCEPT !.pc = "remove", !.todo = ask[r].ids \ assigned[ask[r].dept],
                               !.old = ask[r].ids \ assigned[ask[r].dept],
                               !.drop = assigned[ask[r].dept] \ ask[r].ids]
  <2>1. IsRequest(q[r]) /\ q[r].reply = None /\ q[r].pc = "current"
    BY <1>3, NoReplyYet DEF ReadCurrent
  <2>2. y.pc = "remove" /\ y.reply = None /\ y.before = q[r].before
    BY <2>1 DEF IsRequest, Fields
  <2>3. y.todo = ask[r].ids \ assigned[ask[r].dept] /\ y.drop = assigned[ask[r].dept] \ ask[r].ids
    BY <2>1 DEF IsRequest, Fields
  <2>4. IsRequest(y)
    BY <2>1 DEF IsRequest, Fields
  <2>5. q' = [q EXCEPT ![r] = y]
    BY <1>3 DEF ReadCurrent
  <2>6. Moved(r) /\ q'[r] = y
    <3> HIDE DEF y
    <3> QED BY <2>1, <2>2, <2>4, <2>5, SetMoves
  <2>7. Noted(r)
    BY <1>3, QuietNotes DEF ReadCurrent
  <2>8. AssignmentOK(r)'
    <3> HIDE DEF y
    <3>1. assigned[ask[r].dept] \ q'[r].drop = ask[r].ids \ q'[r].todo
      BY <2>3, <2>6
    <3> QED BY <1>0, <2>2, <2>3, <2>6, <3>1, RequestAssumption DEF AssignmentOK, Meets
  <2> QED BY <1>0, <2>6, <2>7, <2>8 DEF RunnerRequest, CreationOK, PatchOK, ListOK, OtherRunnerOK
<1>4. CASE AnswerAssign(r)
  <2>1. Moved(r) /\ q'[r].pc = "done" /\ q'[r].reply = 200
    BY <1>4, AnswerMoves DEF AnswerAssign
  <2>2. Noted(r)
    BY <1>4, ResultNames DEF AnswerAssign, AuditRow, Noted, Works, Fault, RequestsOK
  <2>3. Meets(assigned[ask[r].dept], ask[r].ids) \/ RivalAssign(r)'
    <3>1. Meets(assigned[ask[r].dept], ask[r].ids) \/ RivalAssign(r)
      BY <1>4 DEF AnswerAssign, RunnersOK, RunnerRequest, AssignmentOK
    <3> QED BY <1>4, <2>1, <3>1, RivalAssignStays DEF AnswerAssign
  <2> QED BY <1>0, <2>1, <2>2, <2>3
          DEF RunnerRequest, CreationOK, PatchOK, AssignmentOK, ListOK, OtherRunnerOK, Meets
<1>5. CASE BindBot(r)
  <2>1. CASE Goto(r, "audit") /\ Quiet
    <3>1. Moved(r) /\ Noted(r) /\ q'[r].pc = "audit" /\ q'[r].reply = None
      BY <1>5, <2>1, GotoMoves, QuietNotes DEF BindBot
    <3>2. Meets(assigned[ask[r].dept], ask[r].ids) \/ RivalAssign(r)'
      <4>1. Meets(assigned[ask[r].dept], ask[r].ids \ q[r].todo) \/ RivalAssign(r)
        BY <1>5 DEF BindBot, RunnersOK, RunnerRequest, AssignmentOK
      <4>2. ask[r].ids \ q[r].todo = ask[r].ids
        BY <1>5 DEF BindBot
      <4> QED BY <1>5, <3>1, <4>1, <4>2, RivalAssignStays DEF BindBot
    <3> QED BY <1>0, <3>1, <3>2, RequestAssumption
            DEF RunnerRequest, CreationOK, PatchOK, AssignmentOK, ListOK, OtherRunnerOK, Meets
  <2>2. CASE Fails(r, 500)
    <3>1. Moved(r) /\ Noted(r) /\ q'[r].pc = "done" /\ q'[r].reply = 500
      BY <1>5, <2>2, FailsMoves DEF BindBot
    <3> QED BY <1>0, <3>1, RunnerAnswered
  <2> QED BY <1>5, <2>1, <2>2 DEF BindBot
<1> QED BY <1>1, <1>2, <1>3, <1>4, <1>5

\* One statement of an assignment changes the rows of its department only:
\* every other assignment of the department has a rival in it.
LEMMA AssignWrites ==
  ASSUME RequestsOK, Asked, RunnersOK, NEW r \in Reqs, ask' = ask, Moved(r),
         ask[r].op = "assign", q[r].pc \notin {"idle", "done"}, UNCHANGED <<rows, keys, cron, seeding>>,
         NEW S \in SUBSET Runners, assigned' = [assigned EXCEPT ![ask[r].dept] = S],
         RunnerRequest(r)'
  PROVE  RunnersOK'
<1>1. ask[r].dept \in RunDepts
  BY DEF Asked
<1>2. assigned' \in [RunDepts -> SUBSET Runners]
      /\ \A d \in RunDepts \ {ask[r].dept} : assigned'[d] = assigned[d]
  BY <1>1 DEF RunnersOK, RunnerTypes
<1>3. RunnerTypes'
  BY <1>2 DEF RunnersOK, RunnerTypes, IsRow, Known, NoRow
<1>4. RunnerRowMatchesKey'
  BY TwiceStays, PatchedStays DEF RunnersOK, RunnerRowMatchesKey, Seeded, Known, NoRow, Twice
<1>5. ASSUME NEW s \in Reqs \ {r} PROVE RunnerRequest(s)'
  <2>1. q'[s] = q[s] /\ RunnerRequest(s)
    BY DEF RunnersOK, Moved
  <2>2. q[s].reply = 200 => q[s].pc = "done"
    BY RequestAssumption DEF RequestsOK, DoneIsAnswered
  <2>3. AssignmentOK(s)'
    <3> SUFFICES ASSUME ask[s].op = "assign" PROVE AssignmentOK(s)'
      BY DEF AssignmentOK
    <3>1. CASE ask[s].dept = ask[r].dept /\ q[s].pc # "idle"
      <4>1. RivalAssign(s)'
        BY <2>1, <3>1 DEF RivalAssign, RequestsOK, BeforeIsDone, Moved
      <4> QED BY <2>1, <4>1 DEF AssignmentOK, RunnerRequest
    <3>2. CASE q[s].pc = "idle"
      BY <2>1, <2>2, <3>2 DEF AssignmentOK, RunnerRequest
    <3>3. CASE ask[s].dept # ask[r].dept /\ q[s].pc # "idle"
      <4>1. assigned'[ask[s].dept] = assigned[ask[s].dept]
        BY <1>2, <3>3 DEF Asked
      <4> QED BY <2>1, <3>3, <4>1, RivalAssignStays DEF AssignmentOK, RunnerRequest, Meets
    <3> QED BY <3>1, <3>2, <3>3
  <2>4. CreationOK(s)' /\ PatchOK(s)'
    BY <2>1, TwiceStays DEF RunnerRequest, CreationOK, PatchOK, Known, NoRow, Seeded
  <2>5. ListOK(s)' /\ OtherRunnerOK(s)'
    BY <2>1 DEF RunnerRequest, ListOK, OtherRunnerOK
  <2> QED BY <2>3, <2>4, <2>5 DEF RunnerRequest
<1> QED BY <1>3, <1>4, <1>5 DEF RunnersOK

\* The DELETE and each INSERT of an assignment.
LEMMA AssignStep ==
  ASSUME RequestsOK, Asked, RunnersOK, NEW r \in Reqs, ask' = ask,
         RemoveAssignments(r) \/ AddAssignment(r)
  PROVE  Moved(r) /\ Noted(r) /\ ask[r].op \in RunnerRouteOps /\ RunnersOK'
<1> USE DEF RunnerRouteOps, RunnerOps, At
<1> DEFINE d == ask[r].dept
<1>0. /\ ask[r].op = "assign" /\ q[r].pc \in {"remove", "add"} /\ UNCHANGED <<rows, keys, cron, seeding>>
      /\ d \in RunDepts /\ ask[r].ids \subseteq Runners /\ q[r].todo \subseteq ask[r].ids
      /\ assigned[d] \subseteq Runners
  BY DEF RemoveAssignments, AddAssignment, Asked, RunnersOK, RunnerTypes, RunnerRequest, AssignmentOK
<1>1. CASE Fails(r, 500) /\ UNCHANGED assigned
  <2>1. Moved(r) /\ Noted(r) /\ q'[r].pc = "done" /\ q'[r].reply = 500
    BY <1>0, <1>1, FailsMoves
  <2> QED BY <1>0, <1>1, <2>1, RunnerAnswered, RunnerStoresSame
<1>2. CASE RemoveAssignments(r) /\ assigned' = [assigned EXCEPT ![d] = Removed(r)]
           /\ Goto(r, "add") /\ Quiet
  <2>1. Moved(r) /\ Noted(r) /\ q'[r].pc = "add" /\ q'[r].reply = None /\ q'[r].todo = q[r].todo
    BY <1>0, <1>2, GotoMoves, QuietNotes
  <2>2. Removed(r) \in SUBSET Runners /\ assigned'[d] = Removed(r)
    BY <1>0, <1>2 DEF Removed, RunnersOK, RunnerTypes
  <2>3. Meets(Removed(r), ask[r].ids \ q[r].todo) \/ RivalAssign(r)
    BY <1>2 DEF RemoveAssignments, RunnersOK, RunnerRequest, AssignmentOK, Removed
  <2>4. Meets(assigned'[d], ask[r].ids \ q[r].todo) \/ RivalAssign(r)
    BY <2>2, <2>3
  <2>5. AssignmentOK(r)'
    BY <1>0, <2>1, <2>4, RivalAssignStays, RequestAssumption DEF AssignmentOK, Meets
  <2>6. RunnerRequest(r)'
    BY <1>0, <2>5 DEF RunnerRequest, CreationOK, PatchOK, ListOK, OtherRunnerOK
  <2> QED BY <1>0, <1>2, <2>1, <2>2, <2>6, AssignWrites
<1>3. ASSUME AddAssignment(r), NEW i \in q[r].todo, Quiet,
             assigned' = [assigned EXCEPT ![d] = @ \cup {i}],
             q' = [q EXCEPT ![r].todo = @ \ {i}]
      PROVE  Moved(r) /\ Noted(r) /\ RunnersOK'
  <2> DEFINE y == [q[r] EXCEPT !.todo = @ \ {i}]
  <2>1. IsRequest(q[r]) /\ q[r].reply = None /\ q[r].pc = "add"
    BY <1>3, NoReplyYet DEF AddAssignment
  <2>2. y.pc = "add" /\ y.reply = None /\ y.before = q[r].before /\ y.todo = q[r].todo \ {i}
    BY <2>1 DEF IsRequest, Fields
  <2>3. IsRequest(y)
    BY <2>1 DEF IsRequest, Fields
  <2>4. q' = [q EXCEPT ![r] = y]
    BY <1>3
  <2>5. Moved(r) /\ q'[r] = y
    <3> HIDE DEF y
    <3> QED BY <2>1, <2>2, <2>3, <2>4, SetMoves
  <2>6. q'[r].pc = "add" /\ q'[r].reply = None /\ q'[r].todo = q[r].todo \ {i}
    <3> HIDE DEF y
    <3> QED BY <2>2, <2>5
  <2>7. (assigned[d] \cup {i}) \in SUBSET Runners /\ assigned'[d] = assigned[d] \cup {i}
        /\ assigned' = [assigned EXCEPT ![d] = assigned[d] \cup {i}]
    BY <1>0, <1>3 DEF RunnersOK, RunnerTypes
  <2>8. Meets(assigned[d], ask[r].ids \ q[r].todo) \/ RivalAssign(r)
    BY <2>1, <1>0 DEF RunnersOK, RunnerRequest, AssignmentOK
  <2>9. Meets(assigned'[d], ask[r].ids \ q'[r].todo) \/ RivalAssign(r)'
    <3>1. CASE RivalAssign(r)
      BY <1>0, <2>1, <2>5, <3>1, RivalAssignStays
    <3>2. CASE assigned[d] = ask[r].ids \ q[r].todo
      BY <1>0, <1>3, <2>6, <2>7, <3>2 DEF Meets
    <3>3. CASE seeding # "off" /\ assigned[d] = (ask[r].ids \ q[r].todo) \cup {DefaultRunner}
      BY <1>0, <1>3, <2>6, <2>7, <3>3 DEF Meets
    <3> QED BY <2>8, <3>1, <3>2, <3>3 DEF Meets
  <2>10. AssignmentOK(r)'
    BY <1>0, <2>6, <2>9, RequestAssumption DEF AssignmentOK, Meets
  <2>11. RunnerRequest(r)'
    BY <1>0, <2>10 DEF RunnerRequest, CreationOK, PatchOK, ListOK, OtherRunnerOK
  <2>12. RunnersOK'
    <3> HIDE DEF y
    <3> QED BY <1>0, <2>1, <2>5, <2>7, <2>11, AssignWrites
  <2> QED BY <1>3, <2>5, <2>12, QuietNotes
<1>4. CASE RemoveAssignments(r)
  BY <1>0, <1>1, <1>2, <1>4 DEF RemoveAssignments
<1>5. CASE AddAssignment(r)
  BY <1>0, <1>1, <1>3, <1>5 DEF AddAssignment
<1> QED BY <1>4, <1>5

\* Probes and the matrix leave every store but the probe rows alone.
LEMMA ProbeStep ==
  ASSUME RequestsOK, Asked, RunnersOK, NEW r \in Reqs, ask' = ask,
         StartProbe(r) \/ ResolveRunner(r) \/ ConnectRunner(r) \/ StoreProbe(r) \/ ReadMatrix(r)
  PROVE  Moved(r) /\ Noted(r) /\ ask[r].op \in RunnerRouteOps /\ RunnersOK'
<1> USE DEF RunnerRouteOps, Starts, At
<1>0. ask[r].op \in {"probe", "matrix"} /\ UNCHANGED <<rows, keys, assigned, cron, seeding>>
  BY DEF StartProbe, ResolveRunner, ConnectRunner, StoreProbe, ReadMatrix, runnerVars
<1> SUFFICES Moved(r) /\ Noted(r)
             /\ (ask[r].op = "probe" => q'[r].pc \in {"resolve", "connect", "store", "done"})
  <2>1. RunnerRequest(r)'
    BY <1>0 DEF RunnerRequest, CreationOK, PatchOK, AssignmentOK, ListOK, OtherRunnerOK
  <2> QED BY <1>0, <2>1, RunnerStoresSame
<1>1. CASE StartProbe(r)
  <2>1. Moved(r) /\ q'[r].pc \in {"resolve", "store", "done"}
    BY <1>1, AnswerMoves, ReadMoves DEF StartProbe
  <2>2. Noted(r)
    BY <1>1, QuietNotes DEF StartProbe, Works, Fault, Noted, RequestsOK, Quiet
  <2> QED BY <2>1, <2>2
<1>2. CASE ResolveRunner(r)
  <2>1. \/ Answer(r, 503) \/ Read(r, "store", Unhealthy(None))
        \/ \E i \in resolve_runner(ask[r].dept) :
              Read(r, "connect", [status |-> "resolved", runner |-> i])
    BY <1>2 DEF ResolveRunner
  <2>2. Moved(r) /\ q'[r].pc \in {"connect", "store", "done"}
    <3>0. q[r].pc = "resolve"
      BY <1>2 DEF ResolveRunner
    <3>1. CASE Answer(r, 503)
      BY <3>0, <3>1, AnswerMoves
    <3>2. CASE Read(r, "store", Unhealthy(None))
      BY <3>0, <3>2, ReadMoves
    <3>3. ASSUME NEW i, Read(r, "connect", [status |-> "resolved", runner |-> i])
          PROVE  Moved(r) /\ q'[r].pc = "connect"
      BY <3>0, <3>3, ReadMoves
    <3> QED BY <2>1, <3>1, <3>2, <3>3
  <2> QED BY <1>2, <2>2, QuietNotes DEF ResolveRunner
<1>3. CASE ConnectRunner(r)
  <2>1. Moved(r) /\ q'[r].pc = "store"
    BY <1>3, ReadMoves DEF ConnectRunner
  <2>2. Noted(r)
    BY <1>3 DEF ConnectRunner, Works, Fault, Noted, RequestsOK
  <2> QED BY <2>1, <2>2
<1>4. CASE StoreProbe(r)
  <2>1. Moved(r) /\ q'[r].pc = "done"
    BY <1>4, AnswerMoves DEF StoreProbe
  <2>2. Noted(r)
    BY <1>4 DEF StoreProbe, Works, Fault, Noted, RequestsOK
  <2> QED BY <2>1, <2>2
<1>5. CASE ReadMatrix(r)
  <2> DEFINE m == [e \in RunDepts |-> Cell(e)]
             y == [q[r] EXCEPT !.pc = "done", !.reply = 200, !.old = m]
  <2>1. IsRequest(q[r]) /\ q[r].reply = None /\ q[r].pc = "idle" /\ ask[r].op = "matrix"
    BY <1>5, NoReplyYet DEF ReadMatrix
  <2>2. q' = [q EXCEPT ![r] = Into(r, y)]
    BY <1>5 DEF ReadMatrix
  <2> HIDE DEF m
  <2>3. y.pc = "done" /\ y.reply = 200 /\ y.before = q[r].before
    BY <2>1 DEF IsRequest, Fields
  <2>4. IsRequest(y)
    BY <2>1 DEF IsRequest, Fields
  <2>5. Moved(r)
    <3> HIDE DEF y
    <3>1. y.reply # None
      BY <2>3, RequestAssumption
    <3> QED BY <2>1, <2>2, <2>3, <2>4, <3>1, IntoMoves
  <2> QED BY <1>5, <2>1, <2>5, QuietNotes DEF ReadMatrix
<1> QED BY <1>1, <1>2, <1>3, <1>4, <1>5

\* Every step of the runner pages keeps their invariant.
LEMMA RunnersKept ==
  ASSUME RequestsOK, Asked, RunnersOK, NEW r \in Reqs, ask' = ask, RunnerStep(r)
  PROVE  Moved(r) /\ Noted(r) /\ ask[r].op \in RunnerRouteOps /\ RunnersOK'
  BY RunnerReads, SecretStep, InsertStep, PatchStep, CronStep, AssignReads, AssignStep, ProbeStep
     DEF RunnerStep

-----------------------------------------------------------------------------
(* Feature flags *)

FlagOps == {"toggle", "override", "unset", "flags", "dedit"}

FlagTypes ==
    /\ flag \in [Flags -> {"on", "off"}]
    /\ over = [d \in FlagDepts |-> over[d]]
    /\ \A d \in FlagDepts : over[d] = [k \in Flags |-> over[d][k]]
    /\ lock \in Reqs \cup {None}

\* A toggle holds the value it will replace, unless a rival is at it; an edit
\* of the overrides holds the lock and the document as it is.
FlagRequest(r) ==
    /\ ask[r].op = "toggle" =>
          /\ q[r].pc \in {"idle", "update", "done"}
          /\ q[r].pc = "update" =>
                ask[r].id \in Flags /\ (q[r].old = flag[ask[r].id] \/ \E s \in Reqs : Rival(r, s))
    /\ ask[r].op \in OverrideOps =>
          /\ q[r].pc \in {"idle", "lock", "edit", "done"}
          /\ q[r].pc \in {"lock", "edit"} => ask[r].id \in Flags
          /\ q[r].pc = "edit" => lock = r /\ q[r].old = over

\* The inductive invariant of the flag routes.
FlagsOK == FlagTypes /\ \A r \in Reqs : FlagRequest(r)

\* What FlagEditsAreExact says of the request that takes the step.
ExactEdit(r) ==
    /\ over' # over =>
          /\ over' = [over EXCEPT ![ask[r].dept][ask[r].id] = over'[ask[r].dept][ask[r].id]]
          /\ q[r].old[ask[r].dept][ask[r].id] = over[ask[r].dept][ask[r].id]
    /\ flag' # flag => (q[r].old = flag[ask[r].id] \/ \E s \in Reqs : Rival(r, s))

\* A toggle with a rival keeps it.
LEMMA RivalStays ==
  ASSUME RequestsOK, NEW r \in Reqs, Moved(r), ask' = ask, NEW s \in Reqs, q[s].pc # "idle",
         \E t \in Reqs : Rival(s, t)
  PROVE  \E t \in Reqs : Rival(s, t)'
  BY DEF Rival, Moved

\* A step that leaves flags, overrides and lock alone keeps their invariant if
\* its own request's part holds afterwards.
LEMMA FlagStoresSame ==
  ASSUME RequestsOK, FlagsOK, NEW r \in Reqs, Moved(r), ask' = ask,
         UNCHANGED <<flag, over, lock>>, FlagRequest(r)'
  PROVE  FlagsOK' /\ ExactEdit(r)
<1>1. FlagTypes' /\ ExactEdit(r)
  BY DEF FlagsOK, FlagTypes, ExactEdit
<1>2. ASSUME NEW s \in Reqs \ {r} PROVE FlagRequest(s)'
  <2>1. q'[s] = q[s] /\ FlagRequest(s)
    BY DEF FlagsOK, Moved
  <2> QED BY <2>1, RivalStays DEF FlagRequest
<1> QED BY <1>1, <1>2 DEF FlagsOK

\* A request of another page, or one that was answered, has no flag to keep.
LEMMA NoFlagToKeep ==
  ASSUME NEW r \in Reqs, ask' = ask, ask[r].op \notin FlagOps \/ q'[r].pc = "done"
  PROVE  FlagRequest(r)'
  BY DEF FlagRequest, FlagOps, OverrideOps

\* The routes that read a flag, check that it exists or list the flags, and an
\* edit of the departments up to the lock.
LEMMA FlagReads ==
  ASSUME RequestsOK, FlagsOK, NEW r \in Reqs, ask' = ask,
         ReadFlag(r) \/ check_flag_exists(r) \/ ListFlags(r) \/ StartEdit(r)
  PROVE  Moved(r) /\ Noted(r) /\ ask[r].op \in FlagOps /\ FlagsOK' /\ ExactEdit(r)
         /\ UNCHANGED <<provVars, ctlVars>>
<1> USE DEF Begins, Starts, FlagOps, OverrideOps
<1>0. ask[r].op \in FlagOps /\ UNCHANGED <<flagVars, provVars, ctlVars>>
  BY DEF ReadFlag, check_flag_exists, ListFlags, StartEdit, settingVars, flagVars, provVars, ctlVars
<1> SUFFICES Moved(r) /\ Noted(r) /\ FlagRequest(r)'
  BY <1>0, FlagStoresSame DEF flagVars
<1>1. CASE ReadFlag(r)
  <2>1. CASE ask[r].id \in Flags
    <3>1. Moved(r) /\ q'[r].pc = "update" /\ q'[r].old = flag[ask[r].id]
      BY <1>1, <2>1, ReadMoves DEF ReadFlag
    <3> QED BY <1>0, <1>1, <2>1, <3>1, QuietNotes DEF ReadFlag, FlagRequest, flagVars
  <2>2. CASE ask[r].id \notin Flags
    <3>1. Moved(r) /\ q'[r].pc = "done"
      BY <1>1, <2>2, AnswerMoves DEF ReadFlag
    <3> QED BY <1>1, <3>1, QuietNotes, NoFlagToKeep DEF ReadFlag
  <2> QED BY <2>1, <2>2
<1>2. CASE check_flag_exists(r)
  <2>1. CASE ask[r].id \in Flags
    <3>1. Moved(r) /\ q'[r].pc = "lock"
      BY <1>2, <2>1, GotoMoves DEF check_flag_exists
    <3> QED BY <1>0, <1>2, <2>1, <3>1, QuietNotes DEF check_flag_exists, FlagRequest
  <2>2. CASE ask[r].id \notin Flags
    <3>1. Moved(r) /\ q'[r].pc = "done"
      BY <1>2, <2>2, AnswerMoves DEF check_flag_exists
    <3> QED BY <1>2, <3>1, QuietNotes, NoFlagToKeep DEF check_flag_exists
  <2> QED BY <2>1, <2>2
<1>3. CASE ListFlags(r)
  <2>1. Moved(r) /\ q'[r].pc = "done"
    BY <1>3, AnswerMoves DEF ListFlags
  <2> QED BY <1>3, <2>1, QuietNotes, NoFlagToKeep DEF ListFlags
<1>4. CASE StartEdit(r)
  <2>1. Moved(r) /\ q'[r].pc = "lock"
    BY <1>4, GotoMoves DEF StartEdit
  <2> QED BY <1>4, <2>1, QuietNotes DEF StartEdit, FlagRequest
<1> QED BY <1>1, <1>2, <1>3, <1>4

\* A global value is replaced: every other toggle of the flag has a rival.
LEMMA FlagWritten ==
  ASSUME RequestsOK, Asked, FlagsOK, NEW r \in Reqs, ask' = ask, WriteFlag(r)
  PROVE  Moved(r) /\ Noted(r) /\ ask[r].op \in FlagOps /\ FlagsOK' /\ ExactEdit(r)
         /\ UNCHANGED <<provVars, ctlVars>>
<1> USE DEF At, FlagOps, OverrideOps
<1>0. /\ ask[r].op = "toggle" /\ q[r].pc = "update" /\ UNCHANGED <<over, lock, provVars, ctlVars>>
      /\ ask[r].val \in {"on", "off"} /\ ask[r].id \in Flags
      /\ q[r].old = flag[ask[r].id] \/ \E s \in Reqs : Rival(r, s)
  BY DEF WriteFlag, Asked, FlagsOK, FlagRequest
<1>1. Moved(r) /\ Noted(r) /\ q'[r].pc = "done"
  BY <1>0, AnswerMoves, FailsMoves, InsertNotes, ResultNames DEF WriteFlag, FlagAudit
<1>2. CASE flag' = [flag EXCEPT ![ask[r].id] = ask[r].val]
  <2>1. flag' \in [Flags -> {"on", "off"}] /\ \A k \in Flags \ {ask[r].id} : flag'[k] = flag[k]
    BY <1>0, <1>2 DEF FlagsOK, FlagTypes
  <2>2. FlagTypes' /\ ExactEdit(r)
    BY <1>0, <2>1 DEF FlagsOK, FlagTypes, ExactEdit
  <2>3. ASSUME NEW s \in Reqs \ {r} PROVE FlagRequest(s)'
    <3>1. q'[s] = q[s] /\ FlagRequest(s)
      BY <1>1 DEF FlagsOK, Moved
    <3>2. CASE ask[s].op = "toggle" /\ q[s].pc = "update" /\ ask[s].id = ask[r].id
      <4>1. Rival(s, r)'
        BY <1>0, <1>1, <3>1, <3>2 DEF Rival, RequestsOK, BeforeIsDone, Moved
      <4> QED BY <3>1, <3>2, <4>1 DEF FlagRequest
    <3>3. CASE ~ (ask[s].op = "toggle" /\ q[s].pc = "update" /\ ask[s].id = ask[r].id)
      BY <1>0, <1>1, <2>1, <3>1, <3>3, RivalStays DEF FlagRequest
    <3> QED BY <3>2, <3>3
  <2> QED BY <1>0, <1>1, <2>2, <2>3, NoFlagToKeep DEF FlagsOK
<1>3. CASE UNCHANGED flag
  BY <1>0, <1>1, <1>3, FlagStoresSame, NoFlagToKeep DEF flagVars
<1> QED BY <1>2, <1>3 DEF WriteFlag

\* A request that waits for the lock leaves everything but the event loop as
\* it is.
LEMMA LoopBlocked ==
  ASSUME RequestsOK, FlagsOK, NEW r \in Reqs, ask' = ask, q[r].pc = "lock", UNCHANGED q, Quiet,
         UNCHANGED <<flag, over, lock>>
  PROVE  Moved(r) /\ Noted(r) /\ FlagsOK' /\ ExactEdit(r)
<1>1. q[r].reply = None /\ Shape
  BY NoReplyYet DEF RequestsOK
<1>2. Moved(r)
  BY <1>1 DEF Moved, Shape
<1>3. FlagRequest(r)'
  BY <1>2, RivalStays DEF FlagsOK, FlagRequest
<1> QED BY <1>2, <1>3, FlagStoresSame, QuietNotes

\* Whoever takes the lock finds nobody inside.
LEMMA LockTaken ==
  ASSUME RequestsOK, FlagsOK, NEW r \in Reqs, ask' = ask, Moved(r), lock = None, lock' = r,
         UNCHANGED <<flag, over>>, FlagRequest(r)'
  PROVE  FlagsOK' /\ ExactEdit(r)
<1>1. FlagTypes' /\ ExactEdit(r)
  BY DEF FlagsOK, FlagTypes, ExactEdit
<1>2. ASSUME NEW s \in Reqs \ {r} PROVE FlagRequest(s)'
  <2>1. q'[s] = q[s] /\ FlagRequest(s)
    BY DEF FlagsOK, Moved
  <2> QED BY <2>1, RivalStays, RequestAssumption DEF FlagRequest
<1> QED BY <1>1, <1>2 DEF FlagsOK

\* The document is read under the lock.
LEMMA OverridesRead ==
  ASSUME RequestsOK, Asked, FlagsOK, NEW r \in Reqs, ask' = ask, ReadOverrides(r)
  PROVE  Moved(r) /\ Noted(r) /\ ask[r].op \in FlagOps /\ FlagsOK' /\ ExactEdit(r)
         /\ UNCHANGED <<provVars, ctlVars>>
<1> USE DEF FlagOps, OverrideOps
<1>0. /\ ask[r].op \in OverrideOps /\ q[r].pc = "lock" /\ UNCHANGED <<flag, over, provVars, ctlVars>>
      /\ ask[r].id \in Flags /\ Quiet
  BY DEF ReadOverrides, FlagsOK, FlagRequest
<1>1. CASE LockConfig(r) /\ Read(r, "edit", over)
  <2>1. Moved(r) /\ Noted(r) /\ q'[r].pc = "edit" /\ q'[r].old = over
    BY <1>0, <1>1, ReadMoves, QuietNotes
  <2>2. lock = None /\ lock' = r
    BY <1>1 DEF LockConfig
  <2>3. FlagRequest(r)'
    BY <1>0, <2>1, <2>2 DEF FlagRequest
  <2> QED BY <1>0, <2>1, <2>2, <2>3, LockTaken
<1>2. CASE BlocksLoop(r) /\ UNCHANGED <<lock, q>>
  BY <1>0, <1>2, LoopBlocked
<1> QED BY <1>1, <1>2 DEF ReadOverrides

\* The department editor takes the lock and releases it without an edit.
LEMMA EditHeld ==
  ASSUME RequestsOK, Asked, FlagsOK, NEW r \in Reqs, ask' = ask, HoldConfig(r) \/ RefuseEdit(r)
  PROVE  Moved(r) /\ Noted(r) /\ ask[r].op \in FlagOps /\ FlagsOK' /\ ExactEdit(r)
         /\ UNCHANGED <<provVars, ctlVars>>
<1> USE DEF FlagOps, OverrideOps, At
<1>0. ask[r].op = "dedit" /\ UNCHANGED <<flag, over, provVars, ctlVars>>
  BY DEF HoldConfig, RefuseEdit
<1>1. FlagRequest(r)'
  BY <1>0 DEF FlagRequest
<1>2. CASE HoldConfig(r)
  <2>1. q[r].pc = "lock" /\ Quiet
    BY <1>2 DEF HoldConfig
  <2>2. CASE LockConfig(r) /\ Goto(r, "audit")
    <3>1. Moved(r) /\ Noted(r)
      BY <2>1, <2>2, GotoMoves, QuietNotes
    <3>2. lock = None /\ lock' = r
      BY <2>2 DEF LockConfig
    <3> QED BY <1>0, <1>1, <3>1, <3>2, LockTaken
  <2>3. CASE BlocksLoop(r) /\ UNCHANGED <<lock, q>>
    BY <1>0, <2>1, <2>3, LoopBlocked
  <2> QED BY <1>2, <2>2, <2>3 DEF HoldConfig
<1>3. CASE RefuseEdit(r)
  <2>1. Moved(r) /\ Noted(r)
    BY <1>3, AnswerMoves, InsertNotes, ResultNames DEF RefuseEdit
  <2>2. lock' = IF lock = r THEN None ELSE lock
    BY <1>3 DEF RefuseEdit
  <2>3. FlagTypes' /\ ExactEdit(r)
    BY <1>0, <2>2 DEF FlagsOK, FlagTypes, ExactEdit
  <2>4. ASSUME NEW s \in Reqs \ {r} PROVE FlagRequest(s)'
    <3>1. q'[s] = q[s] /\ FlagRequest(s)
      BY <2>1 DEF FlagsOK, Moved
    <3> QED BY <1>0, <2>1, <2>2, <3>1, RivalStays DEF FlagRequest
  <2> QED BY <1>0, <1>1, <2>1, <2>3, <2>4 DEF FlagsOK
<1> QED BY <1>2, <1>3

\* The document is written back with one entry changed: nobody else is inside.
LEMMA OverridesWritten ==
  ASSUME RequestsOK, Asked, FlagsOK, NEW r \in Reqs, ask' = ask, WriteOverrides(r)
  PROVE  Moved(r) /\ Noted(r) /\ ask[r].op \in FlagOps /\ FlagsOK' /\ ExactEdit(r)
         /\ UNCHANGED <<provVars, ctlVars>>
<1> USE DEF FlagOps, OverrideOps
<1> DEFINE d == ask[r].dept
           k == ask[r].id
           v == IF ask[r].op = "override" THEN ask[r].val ELSE None
<1>0. /\ ask[r].op \in OverrideOps /\ q[r].pc = "edit" /\ UNCHANGED <<flag, provVars, ctlVars>>
      /\ lock = r /\ lock' = None /\ k \in Flags /\ q[r].old = over
  BY DEF WriteOverrides, FlagsOK, FlagRequest
<1>1. Moved(r) /\ q'[r].pc = "done"
  BY <1>0, AnswerMoves DEF WriteOverrides, NoEffect
<1>2. Noted(r)
  BY <1>0, QuietNotes, InsertNotes, ResultNames DEF WriteOverrides, FlagAudit
<1>3. over' = over \/ (d \in FlagDepts /\ over' = [over EXCEPT ![d][k] = v])
  BY <1>0 DEF WriteOverrides, Edited
<1>4. /\ over' = [e \in FlagDepts |-> over'[e]]
      /\ \A e \in FlagDepts : over'[e] = [j \in Flags |-> over'[e][j]]
  BY <1>0, <1>3 DEF FlagsOK, FlagTypes
<1>5. FlagTypes'
  BY <1>0, <1>4 DEF FlagsOK, FlagTypes
<1>6. ExactEdit(r)
  <2>1. CASE over' = over
    BY <1>0, <2>1 DEF ExactEdit
  <2>2. CASE d \in FlagDepts /\ over' = [over EXCEPT ![d][k] = v]
    <3>1. over'[d][k] = v
      BY <1>0, <2>2 DEF FlagsOK, FlagTypes
    <3> QED BY <1>0, <2>2, <3>1 DEF ExactEdit
  <2> QED BY <1>3, <2>1, <2>2
<1>7. ASSUME NEW s \in Reqs \ {r} PROVE FlagRequest(s)'
  <2>1. q'[s] = q[s] /\ FlagRequest(s)
    BY <1>1 DEF FlagsOK, Moved
  <2> QED BY <1>0, <1>1, <2>1, RivalStays DEF FlagRequest
<1> QED BY <1>0, <1>1, <1>2, <1>5, <1>6, <1>7, NoFlagToKeep DEF FlagsOK

\* Every step of the flag routes keeps their invariant and edits exactly.
LEMMA FlagsKept ==
  ASSUME RequestsOK, Asked, FlagsOK, NEW r \in Reqs, ask' = ask, FlagStep(r)
  PROVE  Moved(r) /\ Noted(r) /\ ask[r].op \in FlagOps /\ FlagsOK' /\ ExactEdit(r)
         /\ UNCHANGED <<provVars, ctlVars>>
  BY FlagReads, FlagWritten, OverridesRead, OverridesWritten, EditHeld DEF FlagStep, toggle_flag

-----------------------------------------------------------------------------
(* Workflow control *)

ControlRouteOps == ControlOps \cup {"purge", "flows", "spaces"}

\* A control call that was not answered yet has done nothing and noted nothing.
ControlRequest(r) == ask[r].op \in ControlOps =>
    /\ q[r].pc \in {"idle", "act", "done"}
    /\ q[r].pc # "done" => <<r, ask[r].op>> \notin touched /\ \A x \in audit : x.by # r
    /\ q[r].reply = 200 => <<r, ask[r].op>> \in touched
    /\ q[r].reply = 404 => <<r, ask[r].op>> \notin touched
    /\ \A x \in audit : (x.by = r /\ x.result = "ok") => <<r, ask[r].op>> \in touched

ControlTypes ==
    /\ flows \in [Flows -> {"running", "closed", "none"}]
    /\ spaces \subseteq Spaces
    /\ \A x \in audit : x.by \in Reqs /\ x.result \in Results

\* The inductive invariant of the control routes and of the audit trail.
ControlOK == ControlTypes /\ \A r \in Reqs : ControlRequest(r)

\* The requests that do not move keep their part: effects and audit rows of a
\* step belong to the request that takes it.
LEMMA ControlOthers ==
  ASSUME RequestsOK, ControlOK, NEW r \in Reqs, Moved(r), Noted(r), ask' = ask,
         UNCHANGED touched \/ (ask[r].op \in ControlOps
                               /\ touched' = touched \cup {<<r, ask[r].op>>}),
         flows' \in [Flows -> {"running", "closed", "none"}], spaces' \subseteq Spaces,
         ControlRequest(r)'
  PROVE  ControlOK'
<1>1. ControlTypes'
  BY DEF ControlOK, ControlTypes, Noted
<1>2. ASSUME NEW s \in Reqs \ {r} PROVE ControlRequest(s)'
  <2>1. q'[s] = q[s] /\ ControlRequest(s)
    BY DEF ControlOK, Moved
  <2>2. (<<s, ask[s].op>> \in touched') = (<<s, ask[s].op>> \in touched)
    OBVIOUS
  <2>3. \A x \in audit' : x.by = s => x \in audit
    BY DEF Noted
  <2> QED BY <2>1, <2>2, <2>3 DEF ControlRequest
<1> QED BY <1>1, <1>2 DEF ControlOK

\* Steps of the other routes.
LEMMA ControlStoresSame ==
  ASSUME RequestsOK, ControlOK, NEW r \in Reqs, Moved(r), Noted(r), ask' = ask,
         UNCHANGED ctlVars, ask[r].op \notin ControlOps
  PROVE  ControlOK'
<1>1. ControlRequest(r)'
  BY DEF ControlRequest
<1>2. UNCHANGED touched /\ flows' \in [Flows -> {"running", "closed", "none"}]
      /\ spaces' \subseteq Spaces
  BY DEF ControlOK, ControlTypes, ctlVars
<1> QED BY <1>1, <1>2, ControlOthers

\* A control call that is refused with 404, or fails, has no effect noted.
LEMMA DeniedMoves ==
  ASSUME RequestsOK, NEW r \in Reqs, q[r].pc # "done", Denied(r)
  PROVE  /\ Moved(r) /\ Noted(r) /\ q'[r].pc = "done" /\ q'[r].reply = 404
         /\ \A x \in audit' : x \in audit \/ (x.by = r /\ x.result = "denied")
<1>1. Moved(r) /\ q'[r].pc = "done" /\ q'[r].reply = 404
  BY AnswerMoves DEF Denied
<1>2. Noted(r) /\ \A x \in audit' : x \in audit \/ (x.by = r /\ x.result = "denied")
  BY InsertNotes, ResultNames DEF Denied, ControlAudit
<1> QED BY <1>1, <1>2

\* A control call that failed is answered with 502 and notes an error at most.
LEMMA ErroredMoves ==
  ASSUME RequestsOK, NEW r \in Reqs, q[r].pc # "done", Errored(r)
  PROVE  /\ Moved(r) /\ Noted(r) /\ q'[r].pc = "done" /\ q'[r].reply = 502
         /\ \A x \in audit' : x \in audit \/ (x.by = r /\ x.result = "error")
<1>1. Moved(r) /\ q'[r].pc = "done" /\ q'[r].reply = 502
  BY AnswerMoves DEF Errored
<1>2. faults' \in Nat
  BY DEF Errored, Fault, RequestsOK
<1>3. audit \subseteq audit' /\ \A x \in audit' : x \in audit \/ (x.by = r /\ x.result = "error")
  BY DEF Errored, AuditRow
<1> QED BY <1>1, <1>2, <1>3, ResultNames DEF Noted

\* The look at the workflow before a control call, with its refusals.
LEMMA DescribeStep ==
  ASSUME RequestsOK, ControlOK, NEW r \in Reqs, ask' = ask, Describe(r)
  PROVE  Moved(r) /\ Noted(r) /\ ask[r].op \in ControlRouteOps /\ ControlOK'
         /\ UNCHANGED <<flagVars, provVars>>
<1> USE DEF ControlRouteOps, Begins, Starts
<1>0. ask[r].op \in ControlOps /\ q[r].pc = "idle" /\ UNCHANGED <<flagVars, provVars, ctlVars>>
  BY DEF Describe, settingVars, flagVars, provVars, ctlVars
<1>1. <<r, ask[r].op>> \notin touched /\ \A x \in audit : x.by # r
  BY <1>0 DEF ControlOK, ControlRequest
<1>2. flows' \in [Flows -> {"running", "closed", "none"}] /\ spaces' \subseteq Spaces
      /\ UNCHANGED touched
  BY <1>0 DEF ControlOK, ControlTypes, ctlVars
<1>3. Moved(r) /\ Noted(r) /\ ControlRequest(r)'
  <2>1. CASE Goto(r, "act") /\ Quiet
    <3>1. Moved(r) /\ Noted(r) /\ q'[r].pc = "act" /\ q'[r].reply = None /\ audit' = audit
      BY <1>0, <2>1, GotoMoves, QuietNotes
    <3> QED BY <1>1, <1>2, <3>1, RequestAssumption DEF ControlRequest
  <2>2. CASE Denied(r)
    <3>1. /\ Moved(r) /\ Noted(r) /\ q'[r].pc = "done" /\ q'[r].reply = 404
          /\ \A x \in audit' : x \in audit \/ (x.by = r /\ x.result = "denied")
      BY <1>0, <2>2, DeniedMoves
    <3> QED BY <1>1, <1>2, <3>1 DEF ControlRequest
  <2>3. CASE Errored(r)
    <3>1. /\ Moved(r) /\ Noted(r) /\ q'[r].pc = "done" /\ q'[r].reply = 502
          /\ \A x \in audit' : x \in audit \/ (x.by = r /\ x.result = "error")
      BY <1>0, <2>3, ErroredMoves
    <3> QED BY <1>1, <1>2, <3>1 DEF ControlRequest
  <2> QED BY <2>1, <2>2, <2>3 DEF Describe
<1> QED BY <1>0, <1>2, <1>3, ControlOthers

\* The cancel, retry or signal itself: its effect comes with its answer.
LEMMA ActStep ==
  ASSUME RequestsOK, ControlOK, NEW r \in Reqs, ask' = ask, ActOnFlow(r)
  PROVE  Moved(r) /\ Noted(r) /\ ask[r].op \in ControlRouteOps /\ ControlOK'
         /\ UNCHANGED <<flagVars, provVars>>
<1> USE DEF ControlRouteOps, At
<1> DEFINE mine == <<r, ask[r].op>>
<1>0. ask[r].op \in ControlOps /\ q[r].pc = "act" /\ UNCHANGED <<flagVars, provVars, flows, spaces>>
  BY DEF ActOnFlow
<1>1. mine \notin touched /\ \A x \in audit : x.by # r
  BY <1>0 DEF ControlOK, ControlRequest
<1>2. flows' \in [Flows -> {"running", "closed", "none"}] /\ spaces' \subseteq Spaces
  BY <1>0 DEF ControlOK, ControlTypes
<1>3. Moved(r) /\ Noted(r) /\ ControlRequest(r)' /\ touched' \in {touched, touched \cup {mine}}
  <2>1. CASE touched' = touched \cup {mine} /\ Answer(r, 200) /\ ControlAudit(r, "ok")
    <3>1. Moved(r) /\ q'[r].pc = "done" /\ q'[r].reply = 200
      BY <1>0, <2>1, AnswerMoves
    <3>2. Noted(r)
      BY <2>1, InsertNotes, ResultNames DEF ControlAudit
    <3> QED BY <2>1, <3>1, <3>2 DEF ControlRequest
  <2>2. CASE ActRefused(r) /\ UNCHANGED touched
    <3>1. /\ Moved(r) /\ Noted(r) /\ q'[r].pc = "done" /\ q'[r].reply = 404
          /\ \A x \in audit' : x \in audit \/ (x.by = r /\ x.result = "denied")
      BY <1>0, <2>2, DeniedMoves DEF ActRefused
    <3> QED BY <1>1, <2>2, <3>1 DEF ControlRequest
  <2>3. CASE Errored(r) /\ touched' \in {touched, touched \cup {mine}}
    <3>1. /\ Moved(r) /\ Noted(r) /\ q'[r].pc = "done" /\ q'[r].reply = 502
          /\ \A x \in audit' : x \in audit \/ (x.by = r /\ x.result = "error")
      BY <1>0, <2>3, ErroredMoves
    <3> QED BY <1>1, <2>3, <3>1 DEF ControlRequest
  <2> QED BY <2>1, <2>2, <2>3 DEF ActOnFlow
<1> QED BY <1>0, <1>2, <1>3, ControlOthers

\* Every step of the control routes keeps their invariant.
LEMMA ControlKept ==
  ASSUME RequestsOK, ControlOK, NEW r \in Reqs, ask' = ask, ControlStep(r)
  PROVE  Moved(r) /\ Noted(r) /\ ask[r].op \in ControlRouteOps /\ ControlOK'
         /\ UNCHANGED <<flagVars, provVars>>
<1> USE DEF ControlRouteOps
<1>1. CASE cancel_workflow(r) \/ retry_workflow(r) \/ signal_workflow(r)
  BY <1>1, DescribeStep, ActStep DEF cancel_workflow, retry_workflow, signal_workflow, Control
<1>2. CASE PurgeWorkspace(r)
  <2>0. ask[r].op = "purge" /\ q[r].pc = "idle" /\ UNCHANGED <<flagVars, provVars, flows, touched>>
    BY <1>2 DEF PurgeWorkspace, Starts
  <2>1. Moved(r) /\ q'[r].pc = "done"
    BY <1>2, <2>0, AnswerMoves DEF PurgeWorkspace, NoEffect
  <2>2. Noted(r)
    <3>1. CASE \/ insert_audit(AuditRow(r, "workspace_purge_rejected_invalid_key", "denied", None, None))
               \/ insert_audit(AuditRow(r, "workspace_manually_purged", "ok", None, None))
               \/ Quiet
      BY <3>1, InsertNotes, QuietNotes, ResultNames
    <3>2. CASE Fault /\ audit' = audit
                 \cup {AuditRow(r, "workspace_purge_failed", "error", None, None)}
      BY <3>2, ResultNames DEF Fault, AuditRow, Noted, RequestsOK
    <3> QED BY <1>2, <3>1, <3>2 DEF PurgeWorkspace
  <2>3. spaces' \subseteq Spaces /\ flows' \in [Flows -> {"running", "closed", "none"}]
    BY <1>2, <2>0 DEF PurgeWorkspace, ControlOK, ControlTypes
  <2>4. ControlRequest(r)'
    BY <2>0 DEF ControlRequest, ControlOps
  <2> QED BY <2>0, <2>1, <2>2, <2>3, <2>4, ControlOthers
<1>3. CASE ListOps(r)
  <2>0. ask[r].op \in {"flows", "spaces"} /\ q[r].pc = "idle"
        /\ UNCHANGED <<flagVars, provVars, ctlVars>>
    BY <1>3 DEF ListOps, Begins, Starts, settingVars, flagVars, provVars, ctlVars
  <2>1. Moved(r) /\ Noted(r)
    BY <1>3, <2>0, AnswerMoves, FailsMoves, QuietNotes DEF ListOps
  <2> QED BY <2>0, <2>1, ControlStoresSame DEF ControlOps
<1> QED BY <1>1, <1>2, <1>3 DEF ControlStep

-----------------------------------------------------------------------------
(* LLM providers *)

ProviderOps == {"pnew", "pset", "pdel", "ptest", "ptry", "pin", "pinned"}

IsCred(c) == c = [f \in {"api", "org"} |-> c[f]]
IsOld(x) == x = [f \in {"was", "cred"} |-> x[f]]

ProviderTypes ==
    /\ provs \in [Providers -> {"absent", "active", "inactive"}]
    /\ creds = [p \in Providers |-> creds[p]]
    /\ \A p \in Providers : IsCred(creds[p])
    /\ pins \in [FlagDepts -> Providers \cup {None}]
    /\ rowlock \in [Providers -> Reqs \cup {None}]

\* No creation of the provider is still to come: what happens to its row and
\* its secret from now on are updates and deletions.
Born(p) == \A r \in Reqs : (ask[r].op = "pnew" /\ ask[r].id = p) => q[r].reply = 201

\* A deletion took the key and has not taken the row, or never will.
Wiping(p) == \E s \in Reqs : ask[s].op = "pdel" /\ ask[s].id = p
                             /\ (q[s].pc = "drop" \/ q[s].reply \in {500, 502})

Gone(p) == \E s \in Reqs : ask[s].op = "pdel" /\ ask[s].id = p /\ q[s].reply = 204

\* Another update of the same field ran next to r or came later.
RivalSet(r) ==
    \E s \in Reqs \ {r} : /\ ask[s].op = "pset" /\ ask[s].id = ask[r].id
                          /\ ask[s].mode = ask[r].mode
                          /\ q[s].pc # "idle" /\ s \notin q[r].before

\* An update of the provider ran next to r.
OverlapSet(r) == \E s \in Reqs : ask[s].op = "pset" /\ ask[s].id = ask[r].id /\ Overlap(r, s)

\* The pin of d was made next to a deletion, or after one that failed.
PinExcuse(d, p) ==
    \E r \in Reqs, s \in Deleting(p) :
        ask[r].op = "pin" /\ ask[r].dept = d
        /\ (Overlap(r, s) \/ (s \in q[r].before /\ q[s].reply \in {500, 502}))

Rotated(r) == \/ creds[ask[r].id][ask[r].mode] = ask[r].val
              \/ RivalSet(r)
              \/ Deleting(ask[r].id) # {}

\* A creation that is about to commit has its key in Vault.
NewOK(r) == ask[r].op = "pnew" =>
    /\ q[r].pc \in {"idle", "vault", "commit", "done"}
    /\ q[r].pc = "commit" => creds[ask[r].id].api # None

\* An update past its UPDATE statement holds the row, unless the row was gone
\* by then, and what it will write back is what is in Vault, unless a deletion
\* took that.
UpdateOK(r) == ask[r].op = "pset" =>
    LET p == ask[r].id IN
    /\ q[r].pc \in {"idle", "go", "read", "write", "commit", "done"}
    /\ q[r].pc \in {"go", "read", "write", "commit"} =>
          /\ Born(p) /\ (Exists(p) \/ Gone(p))
          /\ \A s \in q[r].before : ~ (ask[s].op = "pdel" /\ ask[s].id = p /\ q[s].reply = 204)
    /\ q[r].pc \in {"read", "write", "commit"} =>
          /\ IsOld(q[r].old)
          /\ \/ q[r].old.was # "absent" /\ rowlock[p] = r /\ Exists(p)
             \/ q[r].old.was = "absent" /\ ~ Exists(p)
    /\ q[r].pc \in {"read", "write"} => ask[r].mode \in {"api", "org"}
    /\ q[r].pc = "write" =>
          /\ IsCred(q[r].old.cred)
          /\ q[r].old.was # "absent" =>
                q[r].old.cred = creds[p] \/ (creds[p] = NoCred /\ Deleting(p) # {})
    /\ (q[r].pc = "commit" /\ ChangesCredentials(r)) => Rotated(r)
    /\ q[r].reply = 200 => Born(p) /\ (ChangesCredentials(r) => Rotated(r))

\* A deletion found no pin, and those made since are by requests next to it.
DeleteOK(r) == ask[r].op = "pdel" =>
    LET p == ask[r].id IN
    /\ q[r].pc \in {"idle", "go", "wipe", "drop", "done"}
    /\ q[r].pc \in {"go", "wipe", "drop"} => Born(p)
    /\ q[r].pc = "wipe" =>
          \A d \in FlagDepts : pins[d] = p =>
              \E t \in Reqs : ask[t].op = "pin" /\ ask[t].dept = d /\ Overlap(t, r)
    /\ q[r].pc = "drop" => creds[p] = NoCred \/ OverlapSet(r)
    /\ q[r].reply = 204 => Born(p) /\ ~ Exists(p) /\ (creds[p] = NoCred \/ OverlapSet(r))

OtherProviderOK(r) ==
    /\ ask[r].op = "pin" => q[r].pc \in {"idle", "put", "done"}
    /\ ask[r].op = "pinned" => q[r].pc \in {"idle", "row", "done"}
    /\ ask[r].op = "ptest" => /\ q[r].pc \in {"idle", "go", "call", "note", "done"}
                              /\ q[r].pc = "note" => q[r].br \in {"ok", "error"}

ProviderRequest(r) == NewOK(r) /\ UpdateOK(r) /\ DeleteOK(r) /\ OtherProviderOK(r)

ProviderPart(p) ==
    /\ Exists(p) => Born(p)
    /\ (Exists(p) /\ creds[p].api = None) => Wiping(p)

PinPart(d) == pins[d] # None =>
    /\ Exists(pins[d])
    /\ creds[pins[d]].api # None \/ PinExcuse(d, pins[d])

\* The inductive invariant of the provider routes.
ProvidersOK ==
    /\ ProviderTypes
    /\ \A p \in Providers : ProviderPart(p)
    /\ \A d \in FlagDepts : PinPart(d)
    /\ \A r \in Reqs : ProviderRequest(r)

\* The invariant says what ProvidersKeepKeys says.
LEMMA ProvidersOKSuffices ==
  ASSUME RequestsOK, ProvidersOK
  PROVE  ProvidersKeepKeys
<1>1. VisibleProviderHasKey
  <2>1. \A s \in Reqs : q[s].reply \in {500, 502} => q[s].pc # "idle"
    BY RequestAssumption DEF RequestsOK, DoneIsAnswered
  <2>2. ASSUME NEW p, Wiping(p) PROVE Deleting(p) # {}
    BY <2>1, <2>2 DEF Wiping, Deleting
  <2> QED BY <2>2 DEF ProvidersOK, ProviderPart, VisibleProviderHasKey
<1>2. RotatedFieldIsKept
  <2> SUFFICES ASSUME NEW r \in Reqs, ask[r].op = "pset", ChangesCredentials(r), q[r].reply = 200
               PROVE  Rotated(r)
    BY DEF RotatedFieldIsKept, Rotated, RivalSet
  <2> QED BY DEF ProvidersOK, ProviderRequest, UpdateOK
<1>3. DeletedKeyIsNotRead
  <2> SUFFICES ASSUME NEW r \in Reqs, ask[r].op = "pdel", q[r].reply = 204
               PROVE  creds[ask[r].id] = NoCred \/ OverlapSet(r)
    BY DEF DeletedKeyIsNotRead, OverlapSet
  <2> QED BY DEF ProvidersOK, ProviderRequest, DeleteOK
<1>4. PinnedProviderWorks
  BY DEF ProvidersOK, PinPart, PinExcuse, PinnedProviderWorks
<1> QED BY <1>1, <1>2, <1>3, <1>4 DEF ProvidersKeepKeys

\* What was created, begun to be deleted, or overtaken stays so.
LEMMA ProviderFactsStay ==
  ASSUME RequestsOK, NEW r \in Reqs, Moved(r), ask' = ask
  PROVE  /\ \A p : (Born(p) => Born(p)') /\ (Gone(p) => Gone(p)')
                   /\ (Deleting(p) # {} => Deleting(p)' # {})
         /\ \A s \in Reqs : /\ (q[s].pc # "idle" /\ RivalSet(s)) => RivalSet(s)'
                            /\ OverlapSet(s) => OverlapSet(s)'
         /\ \A d, p : PinExcuse(d, p) => PinExcuse(d, p)'
<1>0. q[r].reply = None /\ 201 # None /\ 204 # None /\ 500 # None /\ 502 # None
  BY NoReplyYet, RequestAssumption DEF Moved
<1>1. ASSUME NEW p PROVE (Born(p) => Born(p)') /\ (Gone(p) => Gone(p)')
                         /\ (Deleting(p) # {} => Deleting(p)' # {})
  <2>1. Born(p) => Born(p)'
    BY <1>0 DEF Born, Moved
  <2>2. Gone(p) => Gone(p)'
    BY <1>0 DEF Gone, Moved
  <2>3. Deleting(p) # {} => Deleting(p)' # {}
    BY DEF Deleting, Moved
  <2> QED BY <2>1, <2>2, <2>3
<1>2. ASSUME NEW s \in Reqs PROVE /\ (q[s].pc # "idle" /\ RivalSet(s)) => RivalSet(s)'
                                  /\ OverlapSet(s) => OverlapSet(s)'
  <2>1. (q[s].pc # "idle" /\ RivalSet(s)) => RivalSet(s)'
    BY DEF RivalSet, Moved
  <2>2. OverlapSet(s) => OverlapSet(s)'
    BY OverlapStays DEF OverlapSet
  <2> QED BY <2>1, <2>2
<1>3. ASSUME NEW d, NEW p, PinExcuse(d, p) PROVE PinExcuse(d, p)'
  <2>1. PICK t \in Reqs, s \in Reqs :
           /\ s \in Deleting(p) /\ ask[t].op = "pin" /\ ask[t].dept = d
           /\ Overlap(t, s) \/ (s \in q[t].before /\ q[s].reply \in {500, 502})
    BY <1>3 DEF PinExcuse, Deleting
  <2>2. s \in Deleting(p)'
    BY <2>1 DEF Deleting, Moved
  <2>3. CASE Overlap(t, s)
    <3>1. Overlap(t, s)'
      BY <2>3, OverlapStays
    <3> QED BY <2>1, <2>2, <3>1 DEF PinExcuse
  <2>4. CASE s \in q[t].before /\ q[s].reply \in {500, 502}
    <3>1. s # r /\ q[s].pc = "done"
      BY <1>0, <2>4 DEF RequestsOK, BeforeIsDone
    <3>2. s \in q'[t].before /\ q'[s].reply \in {500, 502}
      BY <2>4, <3>1 DEF Moved, Answered
    <3> QED BY <2>1, <2>2, <3>2 DEF PinExcuse
  <2> QED BY <2>1, <2>3, <2>4
<1> QED BY <1>1, <1>2, <1>3

\* A request with a status code was answered.
LEMMA RepliedIsDone ==
  ASSUME RequestsOK, NEW s \in Reqs, q[s].reply \in Nat
  PROVE  q[s].pc = "done"
  BY RequestAssumption DEF RequestsOK, DoneIsAnswered

\* A request whose provider looks the same after the step keeps its part.
LEMMA RequestKept ==
  ASSUME RequestsOK, ProvidersOK, NEW r \in Reqs, Moved(r), ask' = ask, NEW s \in Reqs \ {r},
         ask[s].op \in {"pnew", "pset", "pdel"} =>
            /\ Exists(ask[s].id)' = Exists(ask[s].id)
            /\ creds'[ask[s].id] = creds[ask[s].id]
            /\ rowlock[ask[s].id] = s => rowlock'[ask[s].id] = s
            /\ ask[s].op = "pdel" => \A d \in FlagDepts : pins'[d] = ask[s].id => pins[d] = ask[s].id
  PROVE  ProviderRequest(s)'
<1> DEFINE p == ask[s].id
<1>0. q'[s] = q[s] /\ ProviderRequest(s)
  BY DEF ProvidersOK, Moved
<1>1. q[s].reply \in {200, 204} => q[s].pc = "done"
  BY RepliedIsDone
<1>2. NewOK(s)' /\ OtherProviderOK(s)'
  BY <1>0 DEF ProviderRequest, NewOK, OtherProviderOK
<1>3. UpdateOK(s)'
  <2> SUFFICES ASSUME ask[s].op = "pset" PROVE UpdateOK(s)'
    BY DEF UpdateOK
  <2>1. UpdateOK(s) /\ ChangesCredentials(s)' = ChangesCredentials(s)
    BY <1>0 DEF ProviderRequest, ChangesCredentials
  <2>2. (q[s].pc # "idle" /\ Rotated(s)) => Rotated(s)'
    BY ProviderFactsStay DEF Rotated
  <2>3. ASSUME q[s].pc \in {"go", "read", "write", "commit"}
        PROVE  /\ Born(p)' /\ (Exists(p)' \/ Gone(p)')
               /\ \A t \in q[s].before :
                     ~ (ask[t].op = "pdel" /\ ask[t].id = p /\ q'[t].reply = 204)
    <3>1. \A t \in q[s].before : t \in Reqs /\ t # r
      BY DEF RequestsOK, BeforeIsDone, Moved
    <3>2. \A t \in q[s].before : q'[t] = q[t]
      BY <3>1 DEF Moved
    <3> QED BY <2>1, <2>3, <3>2, ProviderFactsStay DEF UpdateOK
  <2>4. q[s].pc \in {"read", "write", "commit"} =>
          /\ IsOld(q[s].old)
          /\ \/ q[s].old.was # "absent" /\ rowlock'[p] = s /\ Exists(p)'
             \/ q[s].old.was = "absent" /\ ~ Exists(p)'
    BY <2>1 DEF UpdateOK
  <2>5. q[s].pc = "write" =>
          /\ IsCred(q[s].old.cred)
          /\ q[s].old.was # "absent" =>
                q[s].old.cred = creds'[p] \/ (creds'[p] = NoCred /\ Deleting(p)' # {})
    BY <2>1, ProviderFactsStay DEF UpdateOK
  <2>6. /\ q[s].pc \in {"idle", "go", "read", "write", "commit", "done"}
        /\ q[s].pc \in {"read", "write"} => ask[s].mode \in {"api", "org"}
        /\ (q[s].pc = "commit" /\ ChangesCredentials(s)) => Rotated(s)'
        /\ q[s].reply = 200 => Born(p)' /\ (ChangesCredentials(s) => Rotated(s)')
    BY <1>1, <2>1, <2>2, ProviderFactsStay DEF UpdateOK
  <2> QED BY <1>0, <2>1, <2>3, <2>4, <2>5, <2>6 DEF UpdateOK, NoCred
<1>4. DeleteOK(s)'
  <2> SUFFICES ASSUME ask[s].op = "pdel" PROVE DeleteOK(s)'
    BY DEF DeleteOK
  <2>1. DeleteOK(s)
    BY <1>0 DEF ProviderRequest
  <2>2. q[s].pc = "wipe" => \A d \in FlagDepts : pins'[d] = p =>
              \E t \in Reqs : ask[t].op = "pin" /\ ask[t].dept = d /\ Overlap(t, s)'
    BY <2>1, OverlapStays DEF DeleteOK
  <2> QED BY <1>0, <2>1, <2>2, ProviderFactsStay DEF DeleteOK, NoCred
<1> QED BY <1>2, <1>3, <1>4 DEF ProviderRequest

\* So does a provider that looks the same, and a pin of it.
LEMMA ProviderPartKept ==
  ASSUME RequestsOK, NEW r \in Reqs, Moved(r), ask' = ask, NEW p \in Providers, ProviderPart(p),
         Exists(p)' = Exists(p), creds'[p] = creds[p],
         (ask[r].op = "pdel" /\ ask[r].id = p /\ q[r].pc = "drop") => q'[r].reply = 500
  PROVE  ProviderPart(p)'
<1>1. Wiping(p) => Wiping(p)'
  <2>1. q[r].reply # 500 /\ q[r].reply # 502
    BY NoReplyYet, RequestAssumption DEF Moved
  <2> QED BY <2>1 DEF Wiping, Moved
<1> QED BY <1>1, ProviderFactsStay DEF ProviderPart

\* A pin whose provider keeps its row and its key is as good as before.
LEMMA PinPartKept ==
  ASSUME RequestsOK, NEW r \in Reqs, Moved(r), ask' = ask, NEW d \in FlagDepts, PinPart(d),
         pins'[d] = pins[d],
         pins[d] # None => /\ Exists(pins[d])' = Exists(pins[d])
                           /\ creds'[pins[d]].api = creds[pins[d]].api
  PROVE  PinPart(d)'
<1> SUFFICES ASSUME NEW e, e = pins[d], e # None
             PROVE  Exists(e)' /\ (creds'[e].api # None \/ PinExcuse(d, e)')
  BY DEF PinPart, Exists
<1>1. PinExcuse(d, e) => PinExcuse(d, e)'
  BY ProviderFactsStay
<1>2. Exists(e) /\ (creds[e].api # None \/ PinExcuse(d, e))
  BY DEF PinPart
<1>3. Exists(e)' = Exists(e) /\ creds'[e].api = creds[e].api
  BY DEF Exists
<1> QED BY <1>1, <1>2, <1>3

\* A step that adds and removes no row, leaves secrets and pins alone and frees
\* no lock of others needs to be looked at only for the request that takes it.
LEMMA ProviderRowsSame ==
  ASSUME RequestsOK, Asked, ProvidersOK, NEW r \in Reqs, Moved(r), ask' = ask,
         UNCHANGED <<creds, pins>>,
         provs' \in [Providers -> {"absent", "active", "inactive"}],
         \A p \in Providers : Exists(p)' = Exists(p),
         rowlock' \in [Providers -> Reqs \cup {None}],
         \A p \in Providers, s \in Reqs \ {r} : rowlock[p] = s => rowlock'[p] = s,
         ProviderRequest(r)',
         (ask[r].op = "pdel" /\ q[r].pc = "drop") => q'[r].reply = 500
  PROVE  ProvidersOK'
<1>1. ProviderTypes'
  BY DEF ProvidersOK, ProviderTypes, IsCred
<1>2. \A p \in Providers : ProviderPart(p)'
  BY ProviderPartKept DEF ProvidersOK
<1>3. ASSUME NEW d \in FlagDepts PROVE PinPart(d)'
  <2>1. pins'[d] = pins[d] /\ PinPart(d) /\ (pins[d] # None => pins[d] \in Providers)
    BY DEF ProvidersOK, ProviderTypes
  <2>2. pins[d] # None => Exists(pins[d])' = Exists(pins[d])
    BY <2>1 DEF Exists
  <2> QED BY <2>1, <2>2, PinPartKept
<1>4. ASSUME NEW s \in Reqs \ {r} PROVE ProviderRequest(s)'
  <2>1. ask[s].op \in {"pnew", "pset", "pdel"} => ask[s].id \in Providers
    BY DEF Asked
  <2> QED BY <2>1, RequestKept
<1> QED BY <1>1, <1>2, <1>3, <1>4 DEF ProvidersOK

\* A step that changes no row, secret or pin keeps the providers' invariant if
\* it takes no row lock from another request and its own part holds afterwards.
LEMMA ProviderStoresSame ==
  ASSUME RequestsOK, Asked, ProvidersOK, NEW r \in Reqs, Moved(r), ask' = ask,
         UNCHANGED <<provs, creds, pins>>,
         rowlock' \in [Providers -> Reqs \cup {None}],
         \A p \in Providers, s \in Reqs \ {r} : rowlock[p] = s => rowlock'[p] = s,
         ProviderRequest(r)',
         (ask[r].op = "pdel" /\ q[r].pc = "drop") => q'[r].reply = 500
  PROVE  ProvidersOK'
<1>1. /\ provs' \in [Providers -> {"absent", "active", "inactive"}]
      /\ \A p \in Providers : Exists(p)' = Exists(p)
  BY DEF ProvidersOK, ProviderTypes, Exists
<1> QED BY <1>1, ProviderRowsSame

\* A request of another page has no provider to keep.
LEMMA NoProviderToKeep ==
  ASSUME NEW r \in Reqs, ask' = ask, ask[r].op \notin ProviderOps
  PROVE  ProviderRequest(r)'
  BY DEF ProviderRequest, NewOK, UpdateOK, DeleteOK, OtherProviderOK, ProviderOps

\* Steps of the other routes.
LEMMA ProviderVarsSame ==
  ASSUME RequestsOK, Asked, ProvidersOK, NEW r \in Reqs, Moved(r), ask' = ask,
         UNCHANGED provVars, ProviderRequest(r)',
         (ask[r].op = "pdel" /\ q[r].pc = "drop") => q'[r].reply = 500
  PROVE  ProvidersOK'
<1>1. UNCHANGED <<provs, creds, pins>> /\ rowlock' = rowlock
      /\ rowlock' \in [Providers -> Reqs \cup {None}]
  BY DEF provVars, ProvidersOK, ProviderTypes
<1> QED BY <1>1, ProviderStoresSame

\* What every step of the provider routes establishes.
ProviderStepOK(r) ==
    /\ Moved(r) /\ Noted(r) /\ ask[r].op \in ProviderOps /\ ProvidersOK'
    /\ UNCHANGED <<flagVars, ctlVars>>

\* Steps that change nothing but the request.
LEMMA ProviderReads ==
  ASSUME RequestsOK, Asked, ProvidersOK, NEW r \in Reqs, ask' = ask,
         \/ CreateProvider(r) \/ LookUp(r) \/ CheckPins(r) \/ StartPin(r) \/ GetPin(r)
         \/ GetPinned(r) \/ ReadForTest(r) \/ CallProvider(r) \/ TestUnsaved(r)
  PROVE  ProviderStepOK(r)
<1> USE DEF ProviderOps, Begins, Starts, At
<1>0. ask[r].op \in ProviderOps /\ UNCHANGED <<flagVars, provVars, ctlVars>>
  BY DEF CreateProvider, LookUp, CheckPins, StartPin, GetPin, GetPinned, ReadForTest, CallProvider,
         TestUnsaved, settingVars, flagVars, provVars, ctlVars
<1>a. q[r].pc # "drop"
  BY DEF CreateProvider, LookUp, CheckPins, StartPin, GetPin, GetPinned, ReadForTest, CallProvider,
         TestUnsaved, ProvidersOK, ProviderRequest
<1> SUFFICES Moved(r) /\ Noted(r) /\ ProviderRequest(r)'
  BY <1>0, <1>a, ProviderVarsSame DEF ProviderStepOK
<1>b. ASSUME q'[r].pc = "done", q'[r].reply \notin {200, 204} \/ ask[r].op \notin {"pset", "pdel"}
      PROVE  ProviderRequest(r)'
  BY <1>b DEF ProviderRequest, NewOK, UpdateOK, DeleteOK, OtherProviderOK
<1>1. CASE CreateProvider(r)
  <2>1. Moved(r) /\ Noted(r) /\ q'[r].pc \in {"vault", "done"}
    BY <1>1, GotoMoves, FailsMoves, QuietNotes DEF CreateProvider
  <2> QED BY <1>1, <2>1 DEF CreateProvider, ProviderRequest, NewOK, UpdateOK, DeleteOK,
                            OtherProviderOK
<1>2. CASE LookUp(r)
  <2>0. ask[r].op \in {"pset", "pdel", "ptest"} /\ q[r].pc = "idle" /\ ask[r].id \in Providers
    BY <1>2 DEF LookUp, Asked
  <2>1. CASE Exists(ask[r].id)
    <3>1. Moved(r) /\ Noted(r) /\ q'[r].pc = "go" /\ q'[r].reply = None
      BY <1>2, <2>1, GotoMoves, QuietNotes DEF LookUp
    <3>2. Born(ask[r].id)' /\ Exists(ask[r].id)'
      BY <1>0, <2>0, <2>1, <3>1, ProviderFactsStay
         DEF ProvidersOK, ProviderPart, Exists, provVars
    <3>3. \A s \in q'[r].before : ~ (ask[s].op = "pdel" /\ ask[s].id = ask[r].id
                                     /\ q'[s].reply = 204)
      <4> SUFFICES ASSUME NEW s \in Reqs, s # r, ask[s].op = "pdel", ask[s].id = ask[r].id,
                          q[s].reply = 204
                   PROVE  FALSE
        BY <2>0, <3>1, RequestAssumption DEF Moved, Answered
      <4> QED BY <2>1 DEF ProvidersOK, ProviderRequest, DeleteOK
    <3>4. UpdateOK(r)'
      BY <3>1, <3>2, <3>3, RequestAssumption DEF UpdateOK
    <3>5. DeleteOK(r)'
      BY <3>1, <3>2, RequestAssumption DEF DeleteOK
    <3> QED BY <2>0, <3>1, <3>4, <3>5 DEF ProviderRequest, NewOK, OtherProviderOK
  <2>2. CASE ~ Exists(ask[r].id)
    <3>1. Moved(r) /\ Noted(r) /\ q'[r].pc = "done" /\ q'[r].reply \in {404, 299}
      BY <1>2, <2>2, AnswerMoves, QuietNotes DEF LookUp, NoEffect
    <3> QED BY <3>1, <1>b
  <2> QED BY <2>1, <2>2
<1>3. CASE CheckPins(r)
  <2>0. ask[r].op = "pdel" /\ q[r].pc = "go" /\ ask[r].id \in Providers
    BY <1>3 DEF CheckPins, Asked
  <2>1. CASE overrides_referencing(ask[r].id) = {}
    <3>1. Moved(r) /\ Noted(r) /\ q'[r].pc = "wipe" /\ q'[r].reply = None
      BY <1>3, <2>1, GotoMoves, QuietNotes DEF CheckPins
    <3>2. Born(ask[r].id)' /\ \A d \in FlagDepts : pins'[d] # ask[r].id
      BY <1>0, <2>0, <2>1, <3>1, ProviderFactsStay
         DEF ProvidersOK, ProviderRequest, DeleteOK, overrides_referencing, provVars
    <3> QED BY <2>0, <3>1, <3>2, RequestAssumption
            DEF ProviderRequest, NewOK, UpdateOK, DeleteOK, OtherProviderOK
  <2>2. CASE overrides_referencing(ask[r].id) # {}
    <3>1. Moved(r) /\ Noted(r) /\ q'[r].pc = "done" /\ q'[r].reply = 409
      BY <1>3, <2>2, AnswerMoves, QuietNotes DEF CheckPins
    <3> QED BY <3>1, <1>b
  <2> QED BY <2>1, <2>2
<1>4. CASE StartPin(r)
  <2>1. Moved(r) /\ Noted(r) /\ q'[r].pc \in {"put", "done"}
    BY <1>4, AnswerMoves, GotoMoves, QuietNotes DEF StartPin
  <2> QED BY <1>4, <2>1 DEF StartPin, ProviderRequest, NewOK, UpdateOK, DeleteOK, OtherProviderOK
<1>5. CASE GetPin(r)
  <2>1. Moved(r) /\ Noted(r) /\ q'[r].pc \in {"row", "done"}
    BY <1>5, AnswerMoves, ReadMoves, QuietNotes DEF GetPin, NoEffect
  <2> QED BY <1>5, <2>1 DEF GetPin, ProviderRequest, NewOK, UpdateOK, DeleteOK, OtherProviderOK
<1>6. CASE GetPinned(r)
  <2>1. Moved(r) /\ Noted(r) /\ q'[r].pc = "done"
    BY <1>6, AnswerMoves, QuietNotes DEF GetPinned, NoEffect
  <2> QED BY <1>6, <2>1, <1>b DEF GetPinned
<1>7. CASE ReadForTest(r)
  <2>1. Moved(r) /\ Noted(r) /\ q'[r].pc \in {"call", "done"}
    BY <1>7, ReadMoves, FailsMoves, QuietNotes DEF ReadForTest
  <2> QED BY <1>7, <2>1 DEF ReadForTest, ProviderRequest, NewOK, UpdateOK, DeleteOK,
                            OtherProviderOK
<1>8. CASE CallProvider(r)
  <2>0. ask[r].op = "ptest" /\ q[r].pc = "call" /\ audit' = audit
    BY <1>8 DEF CallProvider
  <2>1. PICK result \in {"ok", "error"} :
           /\ q' = [q EXCEPT ![r].pc = "note", ![r].br = result]
           /\ TestOutcome(q[r].old.api, result)
    BY <1>8 DEF CallProvider
  <2>2. faults' \in Nat
    BY <2>1 DEF TestOutcome, Works, Fault, RequestsOK
  <2> DEFINE y == [q[r] EXCEPT !.pc = "note", !.br = result]
  <2>3. IsRequest(q[r]) /\ q[r].reply = None
    BY <2>0, NoReplyYet
  <2>4. y.pc = "note" /\ y.reply = None /\ y.before = q[r].before /\ y.br = result /\ IsRequest(y)
    BY <2>3 DEF IsRequest, Fields
  <2>5. q' = [q EXCEPT ![r] = y]
    BY <2>1
  <2>6. Moved(r) /\ q'[r] = y
    <3> HIDE DEF y
    <3> QED BY <2>0, <2>4, <2>5, SetMoves
  <2>7. q'[r].pc = "note" /\ q'[r].br \in {"ok", "error"}
    <3> HIDE DEF y
    <3> QED BY <2>1, <2>4, <2>6
  <2>8. ProviderRequest(r)'
    BY <2>0, <2>7 DEF ProviderRequest, NewOK, UpdateOK, DeleteOK, OtherProviderOK
  <2> QED BY <2>0, <2>2, <2>6, <2>8 DEF Noted
<1>9. CASE TestUnsaved(r)
  <2>1. Moved(r) /\ q'[r].pc = "done"
    BY <1>9, AnswerMoves DEF TestUnsaved
  <2>2. Noted(r)
    BY <1>9, InsertNotes, ResultNames DEF TestUnsaved, ProviderAudit
  <2> QED BY <1>9, <2>1, <2>2, <1>b DEF TestUnsaved
<1> QED BY <1>1, <1>2, <1>3, <1>4, <1>5, <1>6, <1>7, <1>8, <1>9

\* The result of a test is stored on the row; no property reads it.
LEMMA TestStored ==
  ASSUME RequestsOK, Asked, ProvidersOK, NEW r \in Reqs, ask' = ask, StoreTest(r)
  PROVE  ProviderStepOK(r)
<1> USE DEF ProviderOps, At
<1>0. /\ ask[r].op = "ptest" /\ q[r].pc = "note" /\ q[r].br \in {"ok", "error"}
      /\ UNCHANGED <<flagVars, provs, creds, pins, rowlock, ctlVars>>
  BY DEF StoreTest, ProvidersOK, ProviderRequest, OtherProviderOK
<1>1. Moved(r) /\ q'[r].pc = "done"
  BY <1>0, AnswerMoves DEF StoreTest
<1>2. Noted(r)
  BY <1>0, InsertNotes, ResultNames DEF StoreTest, ProviderAudit
<1>3. ProviderRequest(r)'
  BY <1>0, <1>1 DEF ProviderRequest, NewOK, UpdateOK, DeleteOK, OtherProviderOK
<1>4. rowlock' \in [Providers -> Reqs \cup {None}]
  BY <1>0 DEF ProvidersOK, ProviderTypes
<1> QED BY <1>0, <1>1, <1>2, <1>3, <1>4, ProviderStoresSame DEF ProviderStepOK

\* While a provider is being created nobody else has to do with it.
LEMMA Unborn ==
  ASSUME RequestsOK, Asked, ProvidersOK, NEW r \in Reqs, ask[r].op = "pnew", q[r].pc # "done"
  PROVE  /\ ~ Born(ask[r].id) /\ ~ Exists(ask[r].id) /\ ask[r].id \in Providers
         /\ \A d \in FlagDepts : pins[d] # ask[r].id
         /\ \A s \in Reqs \ {r} : ask[s].id = ask[r].id =>
              /\ ask[s].op # "pnew"
              /\ ask[s].op = "pset" => q[s].pc \in {"idle", "done"} /\ q[s].reply # 200
              /\ ask[s].op = "pdel" => q[s].pc \in {"idle", "done"} /\ q[s].reply # 204
<1>1. ~ Born(ask[r].id)
  BY NoReplyYet, RequestAssumption DEF Born
<1>2. ask[r].id \in Providers /\ \A s \in Reqs \ {r} : ask[s].op = "pnew" => ask[s].id # ask[r].id
  BY DEF Asked
<1>3. ~ Exists(ask[r].id)
  BY <1>1, <1>2 DEF ProvidersOK, ProviderPart
<1>4. \A d \in FlagDepts : pins[d] # ask[r].id
  <2> SUFFICES ASSUME NEW d \in FlagDepts, pins[d] = ask[r].id PROVE FALSE
    OBVIOUS
  <2>1. pins[d] # None
    BY <1>2, SettingAssumption
  <2> QED BY <1>3, <2>1 DEF ProvidersOK, PinPart
<1>5. ASSUME NEW s \in Reqs \ {r}, ask[s].id = ask[r].id
      PROVE  /\ ask[s].op = "pset" => q[s].pc \in {"idle", "done"} /\ q[s].reply # 200
             /\ ask[s].op = "pdel" => q[s].pc \in {"idle", "done"} /\ q[s].reply # 204
  <2>1. UpdateOK(s) /\ DeleteOK(s)
    BY DEF ProvidersOK, ProviderRequest
  <2> QED BY <1>1, <1>5, <2>1 DEF UpdateOK, DeleteOK
<1> QED BY <1>1, <1>2, <1>3, <1>4, <1>5

\* A request that has not begun, or was refused, has no provider to keep.
LEMMA NothingToKeep ==
  ASSUME RequestsOK, NEW r \in Reqs, Moved(r), ask' = ask, NEW s \in Reqs \ {r},
         q[s].pc \in {"idle", "done"},
         (ask[s].op = "pset" /\ q[s].reply # 200) \/ (ask[s].op = "pdel" /\ q[s].reply # 204)
  PROVE  ProviderRequest(s)'
<1>1. q'[s] = q[s]
  BY DEF Moved
<1> QED BY <1>1 DEF ProviderRequest, NewOK, UpdateOK, DeleteOK, OtherProviderOK

\* 404 and the like.
LEMMA RefusedKeepsNothing ==
  ASSUME NEW r \in Reqs, ask' = ask, q'[r].pc = "done",
         q'[r].reply \notin {200, 204} \/ ask[r].op \notin {"pset", "pdel"}
  PROVE  ProviderRequest(r)'
  BY DEF ProviderRequest, NewOK, UpdateOK, DeleteOK, OtherProviderOK

\* The row is inserted last: it becomes visible with its key.
LEMMA CreateStep ==
  ASSUME RequestsOK, Asked, ProvidersOK, NEW r \in Reqs, ask' = ask,
         CreateCredentials(r) \/ CommitProvider(r)
  PROVE  ProviderStepOK(r)
<1> USE DEF ProviderOps, At
<1> DEFINE p == ask[r].id
<1>0. /\ ask[r].op = "pnew" /\ q[r].pc \in {"vault", "commit"} /\ ask[r].val # None
      /\ UNCHANGED <<flagVars, pins, rowlock, tested, ctlVars>>
  BY DEF CreateCredentials, CommitProvider, Asked
<1>a. /\ ~ Exists(p) /\ p \in Providers /\ (\A d \in FlagDepts : pins[d] # p)
      /\ \A s \in Reqs \ {r} : ask[s].id = p =>
           /\ ask[s].op # "pnew"
           /\ ask[s].op = "pset" => q[s].pc \in {"idle", "done"} /\ q[s].reply # 200
           /\ ask[s].op = "pdel" => q[s].pc \in {"idle", "done"} /\ q[s].reply # 204
  BY <1>0, Unborn
<1>b. rowlock' = rowlock /\ rowlock' \in [Providers -> Reqs \cup {None}]
      /\ pins' \in [FlagDepts -> Providers \cup {None}]
  BY <1>0 DEF ProvidersOK, ProviderTypes
<1>c. ASSUME Moved(r), \A e \in Providers \ {p} : Exists(e)' = Exists(e) /\ creds'[e] = creds[e],
             NEW s \in Reqs \ {r}
      PROVE  ProviderRequest(s)'
  <2>1. CASE ask[s].op \in {"pset", "pdel"} /\ ask[s].id = p
    BY <1>a, <1>c, <2>1, NothingToKeep
  <2>2. CASE ~ (ask[s].op \in {"pset", "pdel"} /\ ask[s].id = p)
    <3>1. ask[s].op \in {"pnew", "pset", "pdel"} => ask[s].id \in Providers \ {p}
      BY <1>a, <2>2 DEF Asked
    <3> QED BY <1>0, <1>c, <3>1, RequestKept
  <2> QED BY <2>1, <2>2
<1>d. ASSUME Moved(r), \A e \in Providers \ {p} : Exists(e)' = Exists(e) /\ creds'[e] = creds[e]
      PROVE  /\ \A e \in Providers \ {p} : ProviderPart(e)'
             /\ \A d \in FlagDepts : PinPart(d)'
  <2>1. \A e \in Providers \ {p} : ProviderPart(e)'
    BY <1>0, <1>d, ProviderPartKept DEF ProvidersOK
  <2>2. ASSUME NEW d \in FlagDepts PROVE PinPart(d)'
    <3>1. pins[d] # None => pins[d] \in Providers \ {p}
      BY <1>a DEF ProvidersOK, ProviderTypes
    <3>2. pins'[d] = pins[d] /\ PinPart(d)
      BY <1>0 DEF ProvidersOK
    <3>3. pins[d] # None => /\ Exists(pins[d])' = Exists(pins[d])
                            /\ creds'[pins[d]].api = creds[pins[d]].api
      BY <1>d, <3>1, <3>2 DEF Exists
    <3> QED BY <1>d, <3>2, <3>3, PinPartKept
  <2> QED BY <2>1, <2>2
<1>1. CASE (Fails(r, 502) \/ Fails(r, 500)) /\ UNCHANGED <<provs, creds>>
  <2>1. Moved(r) /\ Noted(r) /\ q'[r].pc = "done"
    BY <1>0, <1>1, FailsMoves
  <2>2. UNCHANGED <<provs, creds, pins>>
    BY <1>0, <1>1
  <2> QED BY <1>0, <1>b, <2>1, <2>2, RefusedKeepsNothing, ProviderStoresSame DEF ProviderStepOK
<1>2. CASE /\ write_llm_credentials(p, [api |-> ask[r].val, org |-> None])
           /\ Goto(r, "commit") /\ Quiet /\ UNCHANGED provs
  <2>1. Moved(r) /\ Noted(r) /\ q'[r].pc = "commit" /\ q'[r].reply = None
    BY <1>0, <1>2, GotoMoves, QuietNotes
  <2>2. /\ creds' = [e \in Providers |-> creds'[e]] /\ \A e \in Providers \ {p} : creds'[e] = creds[e]
        /\ creds'[p] = [api |-> ask[r].val, org |-> None]
    BY <1>2, <1>a DEF write_llm_credentials, ProvidersOK, ProviderTypes
  <2>3. IsCred(creds'[p]) /\ creds'[p].api # None
    BY <1>0, <2>2 DEF IsCred
  <2>4. \A e : Exists(e)' = Exists(e)
    BY <1>2 DEF Exists
  <2>5. ProviderTypes'
    BY <1>2, <1>b, <2>2, <2>3 DEF ProvidersOK, ProviderTypes
  <2>6. ProviderPart(p)'
    BY <1>a, <2>4 DEF ProviderPart
  <2>7. ProviderRequest(r)'
    BY <1>0, <2>1, <2>3 DEF ProviderRequest, NewOK, UpdateOK, DeleteOK, OtherProviderOK
  <2>8. ProvidersOK'
    BY <1>c, <1>d, <2>1, <2>2, <2>4, <2>5, <2>6, <2>7 DEF ProvidersOK
  <2> QED BY <1>0, <2>1, <2>8 DEF ProviderStepOK
<1>3. CASE /\ q[r].pc = "commit" /\ insert_provider(p) /\ Answer(r, 201)
           /\ ProviderAudit(r, "llm_provider_created", "ok") /\ UNCHANGED creds
  <2>1. Moved(r) /\ q'[r].pc = "done" /\ q'[r].reply = 201
    BY <1>0, <1>3, AnswerMoves
  <2>2. Noted(r)
    BY <1>3, InsertNotes, ResultNames DEF ProviderAudit
  <2>3. /\ provs' \in [Providers -> {"absent", "active", "inactive"}]
        /\ \A e \in Providers \ {p} : Exists(e)' = Exists(e)
    BY <1>3, <1>a DEF insert_provider, ProvidersOK, ProviderTypes, Exists
  <2>4. ProviderTypes'
    BY <1>3, <1>b, <2>3 DEF ProvidersOK, ProviderTypes, IsCred
  <2>5. creds'[p].api # None
    BY <1>0, <1>3 DEF ProvidersOK, ProviderRequest, NewOK
  <2>6. Born(p)'
    <3>1. \A s \in Reqs \ {r} : ask[s].op = "pnew" => ask[s].id # p
      BY <1>a
    <3> QED BY <2>1, <3>1 DEF Born
  <2>7. ProviderPart(p)'
    BY <2>5, <2>6 DEF ProviderPart
  <2>8. ProviderRequest(r)'
    BY <1>0, <2>1, RefusedKeepsNothing
  <2>9. ProvidersOK'
    BY <1>3, <1>c, <1>d, <2>1, <2>3, <2>4, <2>7, <2>8 DEF ProvidersOK
  <2> QED BY <1>0, <2>1, <2>2, <2>9 DEF ProviderStepOK
<1>4. CASE CreateCredentials(r)
  BY <1>1, <1>2, <1>4 DEF CreateCredentials
<1>5. CASE CommitProvider(r)
  BY <1>1, <1>3, <1>5 DEF CommitProvider
<1> QED BY <1>4, <1>5

\* The end of a transaction frees the rows it held and no others.
LEMMA UnlockKeeps ==
  ASSUME ProvidersOK, NEW r \in Reqs, Unlock(r)
  PROVE  /\ rowlock' \in [Providers -> Reqs \cup {None}]
         /\ \A p \in Providers, s \in Reqs \ {r} : rowlock[p] = s => rowlock'[p] = s
  BY DEF Unlock, ProvidersOK, ProviderTypes

\* UPDATE takes the row, or finds it gone.
LEMMA UpdateRowStep ==
  ASSUME RequestsOK, Asked, ProvidersOK, NEW r \in Reqs, ask' = ask, UpdateRow(r)
  PROVE  ProviderStepOK(r)
<1> USE DEF ProviderOps, At
<1> DEFINE p == ask[r].id
<1>0. /\ ask[r].op = "pset" /\ q[r].pc = "go" /\ p \in Providers
      /\ UNCHANGED <<flagVars, provs, creds, pins, ctlVars>>
      /\ ask[r].mode \in {"api", "org", "status"}
  BY DEF UpdateRow, Asked
<1>1. CASE Fails(r, 500) /\ UNCHANGED rowlock
  <2>1. Moved(r) /\ Noted(r) /\ q'[r].pc = "done" /\ q'[r].reply = 500
    BY <1>0, <1>1, FailsMoves
  <2>2. rowlock' = rowlock /\ rowlock' \in [Providers -> Reqs \cup {None}]
    BY <1>1 DEF ProvidersOK, ProviderTypes
  <2> QED BY <1>0, <2>1, <2>2, RefusedKeepsNothing, ProviderStoresSame DEF ProviderStepOK
<1>2. CASE /\ RowFree(p) /\ LockRow(r, p) /\ Quiet
           /\ Read(r, IF ChangesCredentials(r) THEN "read" ELSE "commit",
                   [was |-> provs[p], cred |-> NoCred])
  <2>1. /\ Moved(r) /\ Noted(r) /\ q'[r].reply = None
        /\ q'[r].pc = (IF ChangesCredentials(r) THEN "read" ELSE "commit")
        /\ q'[r].old = [was |-> provs[p], cred |-> NoCred]
    BY <1>0, <1>2, ReadMoves, QuietNotes
  <2>2. rowlock[p] = None /\ rowlock' \in [Providers -> Reqs \cup {None}]
        /\ (\A e \in Providers \ {p} : rowlock'[e] = rowlock[e]) /\ (Exists(p) => rowlock'[p] = r)
    BY <1>0, <1>2 DEF RowFree, LockRow, ProvidersOK, ProviderTypes
  <2>3. \A e \in Providers, s \in Reqs \ {r} : rowlock[e] = s => rowlock'[e] = s
    BY <2>2, RequestAssumption
  <2>4. Exists(p)' = Exists(p) /\ (Exists(p) <=> provs[p] # "absent")
    BY <1>0 DEF Exists
  <2>5. Born(p)' /\ (Exists(p)' \/ Gone(p)')
    BY <1>0, <2>1, <2>4, ProviderFactsStay DEF ProvidersOK, ProviderRequest, UpdateOK
  <2>6. \A s \in q'[r].before : ~ (ask[s].op = "pdel" /\ ask[s].id = p /\ q'[s].reply = 204)
    <3>1. q'[r].before = q[r].before /\ \A s \in q[r].before : q'[s] = q[s]
      BY <1>0, <2>1 DEF Moved, RequestsOK, BeforeIsDone
    <3> QED BY <1>0, <3>1 DEF ProvidersOK, ProviderRequest, UpdateOK
  <2>7. IsOld(q'[r].old) /\ q'[r].old.was = provs[p]
    BY <2>1 DEF IsOld
  <2>8. UpdateOK(r)'
    <3>1. CASE ChangesCredentials(r)
      <4>1. q'[r].pc = "read" /\ ask[r].mode \in {"api", "org"}
        BY <2>1, <3>1 DEF ChangesCredentials
      <4> QED BY <2>1, <2>2, <2>4, <2>5, <2>6, <2>7, <4>1, RequestAssumption DEF UpdateOK
    <3>2. CASE ~ ChangesCredentials(r)
      <4>1. q'[r].pc = "commit" /\ ~ ChangesCredentials(r)'
        BY <2>1, <3>2 DEF ChangesCredentials
      <4> QED BY <2>1, <2>2, <2>4, <2>5, <2>6, <2>7, <4>1, RequestAssumption DEF UpdateOK
    <3> QED BY <3>1, <3>2
  <2>9. ProviderRequest(r)'
    BY <1>0, <2>8 DEF ProviderRequest, NewOK, DeleteOK, OtherProviderOK
  <2> QED BY <1>0, <2>1, <2>2, <2>3, <2>9, ProviderStoresSame DEF ProviderStepOK
<1> QED BY <1>1, <1>2 DEF UpdateRow

\* The credentials are read under the row's lock.
LEMMA ReadCredentialsStep ==
  ASSUME RequestsOK, Asked, ProvidersOK, NEW r \in Reqs, ask' = ask, ReadCredentials(r)
  PROVE  ProviderStepOK(r)
<1> USE DEF ProviderOps, At
<1> DEFINE p == ask[r].id
<1>0. /\ ask[r].op = "pset" /\ q[r].pc = "read" /\ p \in Providers
      /\ UNCHANGED <<flagVars, provs, creds, pins, ctlVars>>
  BY DEF ReadCredentials, Asked
<1>1. CASE Fails(r, 502) /\ Unlock(r)
  <2>1. Moved(r) /\ Noted(r) /\ q'[r].pc = "done" /\ q'[r].reply = 502
    BY <1>0, <1>1, FailsMoves
  <2> QED BY <1>0, <1>1, <2>1, UnlockKeeps, RefusedKeepsNothing, ProviderStoresSame DEF ProviderStepOK
<1>2. CASE /\ q' = [q EXCEPT ![r].pc = "write", ![r].old.cred = creds[p]]
           /\ Quiet /\ UNCHANGED rowlock
  <2> DEFINE o == [q[r].old EXCEPT !.cred = creds[p]]
             y == [q[r] EXCEPT !.pc = "write", !.old = o]
  <2>1. IsRequest(q[r]) /\ q[r].reply = None /\ UpdateOK(r)
    BY <1>0, NoReplyYet DEF ProvidersOK, ProviderRequest
  <2>2. IsOld(q[r].old) /\ ask[r].mode \in {"api", "org"}
    BY <1>0, <2>1 DEF UpdateOK
  <2>3. IsOld(o) /\ o.was = q[r].old.was /\ o.cred = creds[p]
    BY <2>2 DEF IsOld
  <2>4. q' = [q EXCEPT ![r] = y]
    BY <1>2, <2>1 DEF IsRequest, Fields
  <2> HIDE DEF o
  <2>5. y.pc = "write" /\ y.reply = None /\ y.before = q[r].before /\ y.old = o /\ IsRequest(y)
    BY <2>1 DEF IsRequest, Fields
  <2> HIDE DEF y
  <2>6. Moved(r) /\ q'[r] = y
    BY <1>0, <2>4, <2>5, SetMoves
  <2>7. Noted(r)
    BY <1>2, QuietNotes
  <2>8. q'[r].pc = "write" /\ q'[r].reply = None /\ q'[r].old = o /\ q'[r].before = q[r].before
    BY <2>5, <2>6
  <2>9. Exists(p)' = Exists(p) /\ creds'[p] = creds[p] /\ rowlock'[p] = rowlock[p] /\ IsCred(creds[p])
    BY <1>0, <1>2 DEF Exists, ProvidersOK, ProviderTypes
  <2>10. Born(p)' /\ (Exists(p)' \/ Gone(p)')
    BY <1>0, <2>1, <2>6, <2>9, ProviderFactsStay DEF UpdateOK
  <2>11. \A s \in q'[r].before : ~ (ask[s].op = "pdel" /\ ask[s].id = p /\ q'[s].reply = 204)
    <3>1. \A s \in q[r].before : q'[s] = q[s]
      BY <1>0, <2>6 DEF Moved, RequestsOK, BeforeIsDone
    <3> QED BY <1>0, <2>1, <2>8, <3>1 DEF UpdateOK
  <2>12. \/ o.was # "absent" /\ rowlock[p] = r /\ Exists(p)
         \/ o.was = "absent" /\ ~ Exists(p)
    BY <1>0, <2>1, <2>3 DEF UpdateOK
  <2>13. UpdateOK(r)'
    BY <2>2, <2>3, <2>8, <2>9, <2>10, <2>11, <2>12, RequestAssumption DEF UpdateOK
  <2>14. ProviderRequest(r)'
    BY <1>0, <2>13 DEF ProviderRequest, NewOK, DeleteOK, OtherProviderOK
  <2>15. rowlock' = rowlock /\ rowlock' \in [Providers -> Reqs \cup {None}]
    BY <1>2 DEF ProvidersOK, ProviderTypes
  <2> QED BY <1>0, <2>6, <2>7, <2>14, <2>15, ProviderStoresSame DEF ProviderStepOK
<1> QED BY <1>1, <1>2 DEF ReadCredentials

\* The merged credentials are written back: nobody's field is lost, since the
\* row was held since they were read or its deletion has begun.
LEMMA WriteCredentialsStep ==
  ASSUME RequestsOK, Asked, ProvidersOK, NEW r \in Reqs, ask' = ask, WriteCredentials(r)
  PROVE  ProviderStepOK(r)
<1> USE DEF ProviderOps, At
<1> DEFINE p == ask[r].id
           m == Merged(r)
<1>0. /\ ask[r].op = "pset" /\ q[r].pc = "write" /\ p \in Providers
      /\ UNCHANGED <<flagVars, provs, pins, tested, ctlVars>>
      /\ ask[r].mode = "api" => ask[r].val # None
  BY DEF WriteCredentials, Asked
<1>1. CASE Fails(r, 502) /\ Unlock(r) /\ UNCHANGED creds
  <2>1. Moved(r) /\ Noted(r) /\ q'[r].pc = "done" /\ q'[r].reply = 502
    BY <1>0, <1>1, FailsMoves
  <2> QED BY <1>0, <1>1, <2>1, UnlockKeeps, RefusedKeepsNothing, ProviderStoresSame DEF ProviderStepOK
<1>2. CASE write_llm_credentials(p, m) /\ Goto(r, "commit") /\ Quiet /\ UNCHANGED rowlock
  <2>1. /\ Moved(r) /\ Noted(r) /\ q'[r].pc = "commit" /\ q'[r].reply = None
        /\ q'[r].old = q[r].old /\ q'[r].before = q[r].before
    BY <1>0, <1>2, GotoMoves, QuietNotes DEF Moved
  <2>2. UpdateOK(r)
    BY DEF ProvidersOK, ProviderRequest
  <2>3. /\ IsOld(q[r].old) /\ IsCred(q[r].old.cred) /\ ask[r].mode \in {"api", "org"}
        /\ Born(p) /\ (Exists(p) \/ Gone(p))
        /\ \/ q[r].old.was # "absent" /\ rowlock[p] = r /\ Exists(p)
           \/ q[r].old.was = "absent" /\ ~ Exists(p)
        /\ q[r].old.was # "absent" =>
              q[r].old.cred = creds[p] \/ (creds[p] = NoCred /\ Deleting(p) # {})
        /\ \A s \in q[r].before : ~ (ask[s].op = "pdel" /\ ask[s].id = p /\ q[s].reply = 204)
    BY <1>0, <2>2 DEF UpdateOK
  <2>4. /\ IsCred(m) /\ m[ask[r].mode] = ask[r].val
        /\ \A f \in {"api", "org"} \ {ask[r].mode} : m[f] = q[r].old.cred[f]
    BY <2>3 DEF Merged, IsCred
  <2> HIDE DEF m
  <2>5. /\ creds' = [e \in Providers |-> creds'[e]] /\ creds'[p] = m
        /\ \A e \in Providers \ {p} : creds'[e] = creds[e]
    BY <1>0, <1>2 DEF write_llm_credentials, ProvidersOK, ProviderTypes
  <2>6. \A e : Exists(e)' = Exists(e)
    BY <1>0 DEF Exists
  <2>7. ProviderTypes'
    BY <1>0, <1>2, <2>4, <2>5 DEF ProvidersOK, ProviderTypes
  <2>8. ~ Exists(p) => Deleting(p) # {}
    <3>1. \A s \in Reqs : q[s].reply = 204 => q[s].pc # "idle"
      BY RepliedIsDone
    <3> QED BY <2>3, <3>1 DEF Gone, Deleting
  <2>9. (Exists(p) /\ m.api = None) => creds[p].api = None
    <3> SUFFICES ASSUME Exists(p), m.api = None PROVE creds[p].api = None
      OBVIOUS
    <3>1. ask[r].mode = "org" /\ m.api = q[r].old.cred.api
      BY <1>0, <2>3, <2>4
    <3>2. q[r].old.cred = creds[p] \/ creds[p] = NoCred
      BY <2>3
    <3> QED BY <3>1, <3>2 DEF NoCred
  <2>10. \A e \in Providers : ProviderPart(e)'
    <3>1. \A e \in Providers \ {p} : ProviderPart(e)'
      BY <1>0, <2>1, <2>5, <2>6, ProviderPartKept DEF ProvidersOK
    <3>2. ProviderPart(p)'
      <4>1. Wiping(p) => Wiping(p)'
        BY <1>0, <2>1 DEF Wiping, Moved
      <4> QED BY <1>0, <2>1, <2>3, <2>5, <2>6, <2>9, <4>1, ProviderFactsStay
              DEF ProvidersOK, ProviderPart
    <3> QED BY <3>1, <3>2
  <2>11. ASSUME NEW d \in FlagDepts PROVE PinPart(d)'
    <3>0. pins'[d] = pins[d] /\ PinPart(d) /\ (pins[d] # None => pins[d] \in Providers)
      BY <1>0 DEF ProvidersOK, ProviderTypes
    <3>1. CASE pins[d] = p
      <4>1. p # None
        BY <1>0, SettingAssumption
      <4>2. Exists(p) /\ (creds[p].api # None \/ PinExcuse(d, p))
        BY <3>0, <3>1, <4>1 DEF PinPart
      <4>3. creds'[p].api # None \/ PinExcuse(d, p)'
        BY <2>1, <2>5, <2>9, <4>2, ProviderFactsStay
      <4> QED BY <2>6, <3>0, <3>1, <4>2, <4>3 DEF PinPart, Exists
    <3>2. CASE pins[d] # p
      <4>1. pins[d] # None => /\ Exists(pins[d])' = Exists(pins[d])
                              /\ creds'[pins[d]].api = creds[pins[d]].api
        BY <1>0, <2>5, <3>0, <3>2 DEF Exists
      <4> QED BY <2>1, <3>0, <4>1, PinPartKept
    <3> QED BY <3>1, <3>2
  <2>12. ASSUME NEW s \in Reqs \ {r} PROVE ProviderRequest(s)'
    <3>0. q'[s] = q[s] /\ ProviderRequest(s) /\ r \notin q[s].before /\ rowlock' = rowlock
      BY <1>0, <1>2, <2>1 DEF ProvidersOK, Moved, RequestsOK, BeforeIsDone
    <3>1. CASE ask[s].op = "pnew" /\ ask[s].id = p
      <4>1. q[s].pc = "done"
        BY <2>3, <3>1, Unborn
      <4> QED BY <3>0, <3>1, <4>1
              DEF ProviderRequest, NewOK, UpdateOK, DeleteOK, OtherProviderOK
    <3>2. CASE ask[s].op = "pset" /\ ask[s].id = p
      <4>0. UpdateOK(s) /\ ChangesCredentials(s)' = ChangesCredentials(s)
        BY <3>0 DEF ProviderRequest, ChangesCredentials
      <4>1. ASSUME q[s].pc # "idle", ChangesCredentials(s), Rotated(s) PROVE Rotated(s)'
        <5>1. CASE ask[s].mode = ask[r].mode
          <6>1. RivalSet(s)'
            BY <1>0, <2>1, <3>0, <3>2, <5>1 DEF RivalSet, Moved
          <6> QED BY <6>1 DEF Rotated
        <5>2. CASE ask[s].mode # ask[r].mode
          <6>1. m[ask[s].mode] = q[r].old.cred[ask[s].mode]
            BY <2>4, <4>1, <5>2 DEF ChangesCredentials
          <6>2. q[r].old.cred = creds[p] \/ Deleting(p) # {}
            BY <2>3, <2>8
          <6> QED BY <2>1, <2>5, <3>2, <4>1, <6>1, <6>2, ProviderFactsStay DEF Rotated
        <5> QED BY <5>1, <5>2
      <4>2. q[s].pc \in {"go", "read", "write", "commit"} =>
               /\ Born(p)' /\ (Exists(p)' \/ Gone(p)')
               /\ \A t \in q[s].before : ~ (ask[t].op = "pdel" /\ ask[t].id = p /\ q'[t].reply = 204)
        <5>1. \A t \in q[s].before : q'[t] = q[t]
          BY <2>1 DEF Moved, RequestsOK, BeforeIsDone
        <5> QED BY <2>1, <2>6, <3>2, <4>0, <5>1, ProviderFactsStay DEF UpdateOK
      <4>3. q[s].pc = "write" => IsCred(q[s].old.cred) /\ q[s].old.was = "absent"
        BY <2>3, <3>2, <4>0 DEF UpdateOK
      <4>4. q[s].reply = 200 => q[s].pc = "done"
        BY RepliedIsDone
      <4>5. q[s].pc \in {"read", "write", "commit"} =>
               /\ IsOld(q[s].old)
               /\ \/ q[s].old.was # "absent" /\ rowlock'[p] = s /\ Exists(p)'
                  \/ q[s].old.was = "absent" /\ ~ Exists(p)'
        BY <2>6, <3>0, <3>2, <4>0 DEF UpdateOK
      <4>6. /\ (q[s].pc = "commit" /\ ChangesCredentials(s)) => Rotated(s)'
            /\ q[s].reply = 200 => Born(p)' /\ (ChangesCredentials(s) => Rotated(s)')
        BY <2>1, <3>2, <4>0, <4>1, <4>4, ProviderFactsStay DEF UpdateOK
      <4>7. /\ q[s].pc \in {"idle", "go", "read", "write", "commit", "done"}
            /\ q[s].pc \in {"read", "write"} => ask[s].mode \in {"api", "org"}
        BY <3>2, <4>0 DEF UpdateOK
      <4>8. UpdateOK(s)'
        BY <3>0, <3>2, <4>0, <4>2, <4>3, <4>5, <4>6, <4>7 DEF UpdateOK
      <4> QED BY <3>2, <4>8 DEF ProviderRequest, NewOK, DeleteOK, OtherProviderOK
    <3>3. CASE ask[s].op = "pdel" /\ ask[s].id = p
      <4>0. DeleteOK(s)
        BY <3>0 DEF ProviderRequest
      <4>1. ASSUME q[s].pc = "drop" \/ q[s].reply = 204 PROVE OverlapSet(s)'
        <5>1. q[s].pc # "idle" /\ s \notin q[r].before
          BY <2>3, <3>3, <4>1, RepliedIsDone DEF RequestsOK, BeforeIsDone
        <5>2. Overlap(s, r)
          BY <1>0, <3>0, <5>1 DEF Overlap
        <5>3. Overlap(s, r)'
          BY <2>1, <5>2, OverlapStays
        <5> QED BY <1>0, <3>3, <5>3 DEF OverlapSet
      <4>2. q[s].pc = "wipe" => \A d \in FlagDepts : pins'[d] = p =>
              \E t \in Reqs : ask[t].op = "pin" /\ ask[t].dept = d /\ Overlap(t, s)'
        BY <1>0, <2>1, <3>3, <4>0, OverlapStays DEF DeleteOK
      <4>3. DeleteOK(s)'
        BY <2>1, <2>6, <3>0, <3>3, <4>0, <4>1, <4>2, ProviderFactsStay DEF DeleteOK
      <4> QED BY <3>3, <4>3 DEF ProviderRequest, NewOK, UpdateOK, OtherProviderOK
    <3>4. CASE ~ (ask[s].op \in {"pnew", "pset", "pdel"} /\ ask[s].id = p)
      <4>1. ask[s].op \in {"pnew", "pset", "pdel"} => ask[s].id \in Providers \ {p}
        BY <3>4 DEF Asked
      <4> QED BY <1>0, <2>1, <2>5, <2>6, <3>0, <4>1, RequestKept
    <3> QED BY <3>1, <3>2, <3>3, <3>4
  <2>13. ProviderRequest(r)'
    <3>1. Rotated(r)'
      BY <2>4, <2>5 DEF Rotated
    <3>2. \A s \in q[r].before : q'[s] = q[s]
      BY <1>0, <2>1 DEF Moved, RequestsOK, BeforeIsDone
    <3>3. Born(p)' /\ (Exists(p)' \/ Gone(p)')
      BY <2>1, <2>3, <2>6, ProviderFactsStay
    <3>4. UpdateOK(r)'
      BY <1>2, <2>1, <2>3, <2>6, <3>1, <3>2, <3>3, RequestAssumption DEF UpdateOK
    <3> QED BY <1>0, <3>4 DEF ProviderRequest, NewOK, DeleteOK, OtherProviderOK
  <2>14. ProvidersOK'
    BY <2>7, <2>10, <2>11, <2>12, <2>13 DEF ProvidersOK
  <2> QED BY <1>0, <2>1, <2>14 DEF ProviderStepOK
<1> QED BY <1>1, <1>2 DEF WriteCredentials

\* The update commits: at most the status of the row changes.
LEMMA CommitUpdateStep ==
  ASSUME RequestsOK, Asked, ProvidersOK, NEW r \in Reqs, ask' = ask, CommitUpdate(r)
  PROVE  ProviderStepOK(r)
<1> USE DEF ProviderOps, At
<1> DEFINE p == ask[r].id
           gone == q[r].old.was = "absent"
<1>0. /\ ask[r].op = "pset" /\ q[r].pc = "commit" /\ p \in Providers
      /\ UNCHANGED <<flagVars, creds, pins, tested, ctlVars>> /\ Unlock(r)
      /\ ask[r].mode = "status" => ask[r].val \in {"active", "inactive"}
  BY DEF CommitUpdate, Asked
<1>1. UpdateOK(r)
  BY DEF ProvidersOK, ProviderRequest
<1>2. Born(p) /\ (gone \/ Exists(p)) /\ (ChangesCredentials(r) => Rotated(r))
  BY <1>0, <1>1 DEF UpdateOK
<1>3. /\ rowlock' \in [Providers -> Reqs \cup {None}]
      /\ \A e \in Providers, s \in Reqs \ {r} : rowlock[e] = s => rowlock'[e] = s
  BY <1>0, UnlockKeeps
<1>4. provs' = (IF ask[r].mode = "status" /\ ~ gone
                THEN [provs EXCEPT ![p] = ask[r].val] ELSE provs) \/ provs' = provs
  BY DEF CommitUpdate
<1>5. /\ provs' \in [Providers -> {"absent", "active", "inactive"}]
      /\ \A e \in Providers : Exists(e)' = Exists(e)
  BY <1>0, <1>2, <1>4 DEF ProvidersOK, ProviderTypes, Exists
<1>6. CASE (gone /\ Answer(r, 404) /\ Quiet) \/ Fails(r, 500)
  <2>1. Moved(r) /\ Noted(r) /\ q'[r].pc = "done" /\ q'[r].reply \in {404, 500}
    BY <1>0, <1>6, AnswerMoves, QuietNotes, FailsMoves
  <2> QED BY <1>0, <1>3, <1>5, <2>1, RefusedKeepsNothing, ProviderRowsSame DEF ProviderStepOK
<1>7. CASE /\ Answer(r, 200)
           /\ ProviderAudit(r, IF ChangesCredentials(r) THEN "llm_provider_credentials_rotated"
                                                        ELSE "llm_provider_updated", "ok")
  <2>1. Moved(r) /\ q'[r].pc = "done" /\ q'[r].reply = 200
    BY <1>0, <1>7, AnswerMoves
  <2>2. Noted(r)
    BY <1>7, InsertNotes, ResultNames DEF ProviderAudit
  <2>3. Born(p)' /\ (ChangesCredentials(r)' => Rotated(r)')
    <3>1. ChangesCredentials(r)' = ChangesCredentials(r)
      BY DEF ChangesCredentials
    <3>2. Rotated(r) => Rotated(r)'
      BY <1>0, <2>1, ProviderFactsStay DEF Rotated
    <3> QED BY <1>2, <2>1, <3>1, <3>2, ProviderFactsStay
  <2>4. ProviderRequest(r)'
    BY <1>0, <2>1, <2>3 DEF ProviderRequest, NewOK, UpdateOK, DeleteOK, OtherProviderOK
  <2> QED BY <1>0, <1>3, <1>5, <2>1, <2>2, <2>4, ProviderRowsSame DEF ProviderStepOK
<1> QED BY <1>6, <1>7 DEF CommitUpdate

\* The deletion takes the key: from now on the row is excused by it, and so are
\* the pins made since it looked at them.
LEMMA WipeStep ==
  ASSUME RequestsOK, Asked, ProvidersOK, NEW r \in Reqs, ask' = ask, WipeCredentials(r)
  PROVE  ProviderStepOK(r)
<1> USE DEF ProviderOps, At
<1> DEFINE p == ask[r].id
<1>0. /\ ask[r].op = "pdel" /\ q[r].pc = "wipe" /\ p \in Providers
      /\ UNCHANGED <<flagVars, provs, pins, rowlock, tested, ctlVars>>
  BY DEF WipeCredentials, Asked
<1>a. rowlock' = rowlock /\ rowlock' \in [Providers -> Reqs \cup {None}]
  BY <1>0 DEF ProvidersOK, ProviderTypes
<1>1. CASE /\ Fault /\ Answer(r, 502) /\ UNCHANGED creds
           /\ audit' = audit \cup {AuditRow(r, "llm_provider_delete_vault_failed", "error", None, None)}
  <2>1. Moved(r) /\ q'[r].pc = "done" /\ q'[r].reply = 502
    BY <1>0, <1>1, AnswerMoves
  <2>2. Noted(r)
    BY <1>1, ResultNames DEF Noted, Fault, AuditRow, RequestsOK
  <2> QED BY <1>0, <1>1, <1>a, <2>1, <2>2, RefusedKeepsNothing, ProviderStoresSame DEF ProviderStepOK
<1>2. CASE /\ delete_llm_credentials(p)
           /\ \/ Goto(r, "drop") /\ Quiet
              \/ /\ Fault /\ Answer(r, 502)
                 /\ audit' = audit \cup {AuditRow(r, "llm_provider_delete_vault_failed", "error", None, None)}
  <2>1. Moved(r) /\ Noted(r) /\ \/ q'[r].pc = "drop" /\ q'[r].reply = None
                                \/ q'[r].pc = "done" /\ q'[r].reply = 502
    <3>1. CASE Goto(r, "drop") /\ Quiet
      BY <1>0, <3>1, GotoMoves, QuietNotes
    <3>2. CASE /\ Fault /\ Answer(r, 502)
               /\ audit' = audit \cup {AuditRow(r, "llm_provider_delete_vault_failed", "error", None, None)}
      <4>1. Moved(r) /\ q'[r].pc = "done" /\ q'[r].reply = 502
        BY <1>0, <3>2, AnswerMoves
      <4>2. Noted(r)
        BY <3>2, ResultNames DEF Noted, Fault, AuditRow, RequestsOK
      <4> QED BY <4>1, <4>2
    <3> QED BY <1>2, <3>1, <3>2
  <2>2. /\ creds' = [e \in Providers |-> creds'[e]] /\ creds'[p] = NoCred
        /\ \A e \in Providers \ {p} : creds'[e] = creds[e]
    BY <1>0, <1>2 DEF delete_llm_credentials, ProvidersOK, ProviderTypes
  <2>3. (\A e : Exists(e)' = Exists(e)) /\ IsCred(NoCred)
    BY <1>0 DEF Exists, IsCred, NoCred
  <2>4. ProviderTypes'
    BY <1>0, <1>a, <2>2, <2>3 DEF ProvidersOK, ProviderTypes
  <2>5. DeleteOK(r) /\ Born(p)
    BY <1>0 DEF ProvidersOK, ProviderRequest, DeleteOK
  <2>6. Wiping(p)' /\ Deleting(p)' # {} /\ r \in Deleting(p)'
    BY <1>0, <2>1 DEF Wiping, Deleting
  <2>7. \A e \in Providers : ProviderPart(e)'
    <3>1. \A e \in Providers \ {p} : ProviderPart(e)'
      BY <1>0, <2>1, <2>2, <2>3, ProviderPartKept DEF ProvidersOK
    <3>2. ProviderPart(p)'
      BY <2>1, <2>5, <2>6, ProviderFactsStay DEF ProviderPart
    <3> QED BY <3>1, <3>2
  <2>8. ASSUME NEW d \in FlagDepts PROVE PinPart(d)'
    <3>0. pins'[d] = pins[d] /\ PinPart(d) /\ (pins[d] # None => pins[d] \in Providers)
      BY <1>0 DEF ProvidersOK, ProviderTypes
    <3>1. CASE pins[d] = p
      <4>1. Exists(p)
        BY <1>0, <3>0, <3>1, SettingAssumption DEF PinPart
      <4>2. PICK t \in Reqs : ask[t].op = "pin" /\ ask[t].dept = d /\ Overlap(t, r)
        BY <1>0, <2>5, <3>1 DEF DeleteOK
      <4>3. PinExcuse(d, p)'
        BY <2>1, <2>6, <4>2, OverlapStays DEF PinExcuse
      <4> QED BY <2>3, <3>0, <3>1, <4>1, <4>3 DEF PinPart, Exists
    <3>2. CASE pins[d] # p
      <4>1. pins[d] # None => /\ Exists(pins[d])' = Exists(pins[d])
                              /\ creds'[pins[d]].api = creds[pins[d]].api
        BY <1>0, <2>2, <3>0, <3>2 DEF Exists
      <4> QED BY <2>1, <3>0, <4>1, PinPartKept
    <3> QED BY <3>1, <3>2
  <2>9. ASSUME NEW s \in Reqs \ {r} PROVE ProviderRequest(s)'
    <3>0. q'[s] = q[s] /\ ProviderRequest(s)
      BY <2>1 DEF ProvidersOK, Moved
    <3>1. CASE ask[s].op = "pnew" /\ ask[s].id = p
      <4>1. q[s].pc = "done"
        BY <2>5, <3>1, Unborn
      <4> QED BY <3>0, <3>1, <4>1
              DEF ProviderRequest, NewOK, UpdateOK, DeleteOK, OtherProviderOK
    <3>2. CASE ask[s].op = "pset" /\ ask[s].id = p
      <4>0. UpdateOK(s) /\ Rotated(s)' /\ ChangesCredentials(s)' = ChangesCredentials(s)
        BY <2>6, <3>0, <3>2 DEF ProviderRequest, Rotated, ChangesCredentials
      <4>1. q[s].pc \in {"go", "read", "write", "commit"} =>
               /\ Born(p)' /\ (Exists(p)' \/ Gone(p)')
               /\ \A t \in q[s].before : ~ (ask[t].op = "pdel" /\ ask[t].id = p /\ q'[t].reply = 204)
        <5>1. \A t \in q[s].before : q'[t] = q[t]
          BY <2>1 DEF Moved, RequestsOK, BeforeIsDone
        <5> QED BY <2>1, <2>3, <3>2, <4>0, <5>1, ProviderFactsStay DEF UpdateOK
      <4>2. q[s].pc \in {"read", "write", "commit"} =>
               /\ IsOld(q[s].old)
               /\ \/ q[s].old.was # "absent" /\ rowlock'[p] = s /\ Exists(p)'
                  \/ q[s].old.was = "absent" /\ ~ Exists(p)'
        BY <1>a, <2>3, <3>2, <4>0 DEF UpdateOK
      <4>3. /\ q[s].pc \in {"idle", "go", "read", "write", "commit", "done"}
            /\ q[s].pc \in {"read", "write"} => ask[s].mode \in {"api", "org"}
            /\ q[s].pc = "write" => IsCred(q[s].old.cred)
            /\ q[s].reply = 200 => Born(p)'
        BY <2>1, <3>2, <4>0, ProviderFactsStay DEF UpdateOK
      <4>4. creds'[p] = NoCred' /\ Deleting(p)' # {}
        BY <2>2, <2>6 DEF NoCred
      <4>5. UpdateOK(s)'
        BY <3>0, <3>2, <4>0, <4>1, <4>2, <4>3, <4>4 DEF UpdateOK
      <4> QED BY <3>2, <4>5 DEF ProviderRequest, NewOK, DeleteOK, OtherProviderOK
    <3>3. CASE ask[s].op = "pdel" /\ ask[s].id = p
      <4>0. DeleteOK(s)
        BY <3>0 DEF ProviderRequest
      <4>1. q[s].pc = "wipe" => \A d \in FlagDepts : pins'[d] = p =>
              \E t \in Reqs : ask[t].op = "pin" /\ ask[t].dept = d /\ Overlap(t, s)'
        BY <1>0, <2>1, <3>3, <4>0, OverlapStays DEF DeleteOK
      <4>2. creds'[p] = NoCred'
        BY <2>2 DEF NoCred
      <4>3. DeleteOK(s)'
        BY <2>1, <2>3, <3>0, <3>3, <4>0, <4>1, <4>2, ProviderFactsStay DEF DeleteOK
      <4> QED BY <3>3, <4>3 DEF ProviderRequest, NewOK, UpdateOK, OtherProviderOK
    <3>4. CASE ~ (ask[s].op \in {"pnew", "pset", "pdel"} /\ ask[s].id = p)
      <4>1. ask[s].op \in {"pnew", "pset", "pdel"} => ask[s].id \in Providers \ {p}
        BY <3>4 DEF Asked
      <4> QED BY <1>0, <2>1, <2>2, <2>3, <4>1, RequestKept
    <3> QED BY <3>1, <3>2, <3>3, <3>4
  <2>10. ProviderRequest(r)'
    <3>1. creds'[p] = NoCred' /\ Born(p)'
      BY <2>1, <2>2, <2>5, ProviderFactsStay DEF NoCred
    <3>2. DeleteOK(r)'
      BY <2>1, <3>1, RequestAssumption DEF DeleteOK
    <3> QED BY <1>0, <3>2 DEF ProviderRequest, NewOK, UpdateOK, OtherProviderOK
  <2>11. ProvidersOK'
    BY <2>4, <2>7, <2>8, <2>9, <2>10 DEF ProvidersOK
  <2> QED BY <1>0, <2>1, <2>11 DEF ProviderStepOK
<1> QED BY <1>1, <1>2 DEF WipeCredentials

\* The row goes last: nobody holds it and no department pins it.
LEMMA DropStep ==
  ASSUME RequestsOK, Asked, ProvidersOK, NEW r \in Reqs, ask' = ask, DropProvider(r)
  PROVE  ProviderStepOK(r)
<1> USE DEF ProviderOps, At
<1> DEFINE p == ask[r].id
<1>0. /\ ask[r].op = "pdel" /\ q[r].pc = "drop" /\ p \in Providers /\ rowlock[p] = None
      /\ UNCHANGED <<flagVars, creds, pins, rowlock, tested, ctlVars>>
  BY DEF DropProvider, RowFree, Asked
<1>a. rowlock' = rowlock /\ rowlock' \in [Providers -> Reqs \cup {None}]
  BY <1>0 DEF ProvidersOK, ProviderTypes
<1>1. CASE ((Answer(r, 500) /\ Quiet) \/ Fails(r, 500)) /\ UNCHANGED provs
  <2>1. Moved(r) /\ Noted(r) /\ q'[r].pc = "done" /\ q'[r].reply = 500
    BY <1>0, <1>1, AnswerMoves, QuietNotes, FailsMoves
  <2> QED BY <1>0, <1>1, <1>a, <2>1, RefusedKeepsNothing, ProviderStoresSame DEF ProviderStepOK
<1>2. CASE /\ \A d \in FlagDepts : pins[d] # p
           /\ provs' = [provs EXCEPT ![p] = "absent"]
           /\ Answer(r, 204) /\ ProviderAudit(r, "llm_provider_deleted", "ok")
  <2>1. Moved(r) /\ q'[r].pc = "done" /\ q'[r].reply = 204
    BY <1>0, <1>2, AnswerMoves
  <2>a. Noted(r)
    BY <1>2, InsertNotes, ResultNames DEF ProviderAudit
  <2>2. /\ provs' \in [Providers -> {"absent", "active", "inactive"}] /\ ~ Exists(p)'
        /\ \A e \in Providers \ {p} : Exists(e)' = Exists(e)
    BY <1>0, <1>2 DEF ProvidersOK, ProviderTypes, Exists
  <2>3. Gone(p)'
    BY <1>0, <2>1 DEF Gone
  <2>4. ProviderTypes'
    BY <1>0, <1>a, <2>2 DEF ProvidersOK, ProviderTypes, IsCred
  <2>5. DeleteOK(r) /\ Born(p) /\ (creds[p] = NoCred \/ OverlapSet(r))
    BY <1>0 DEF ProvidersOK, ProviderRequest, DeleteOK
  <2>7. \A e \in Providers : ProviderPart(e)'
    <3>1. \A e \in Providers \ {p} : ProviderPart(e)'
      BY <1>0, <2>1, <2>2, ProviderPartKept DEF ProvidersOK
    <3>2. ProviderPart(p)'
      BY <2>2 DEF ProviderPart
    <3> QED BY <3>1, <3>2
  <2>8. ASSUME NEW d \in FlagDepts PROVE PinPart(d)'
    <3>0. pins'[d] = pins[d] /\ PinPart(d) /\ (pins[d] # None => pins[d] \in Providers \ {p})
      BY <1>0, <1>2 DEF ProvidersOK, ProviderTypes
    <3>1. pins[d] # None => /\ Exists(pins[d])' = Exists(pins[d])
                            /\ creds'[pins[d]].api = creds[pins[d]].api
      BY <1>0, <2>2, <3>0 DEF Exists
    <3> QED BY <2>1, <3>0, <3>1, PinPartKept
  <2>9. ASSUME NEW s \in Reqs \ {r} PROVE ProviderRequest(s)'
    <3>0. q'[s] = q[s] /\ ProviderRequest(s) /\ s # None
      BY <2>1, RequestAssumption DEF ProvidersOK, Moved
    <3>1. CASE ask[s].op = "pnew" /\ ask[s].id = p
      <4>1. q[s].pc = "done"
        BY <2>5, <3>1, Unborn
      <4> QED BY <3>0, <3>1, <4>1
              DEF ProviderRequest, NewOK, UpdateOK, DeleteOK, OtherProviderOK
    <3>2. CASE ask[s].op = "pset" /\ ask[s].id = p
      <4>0. UpdateOK(s) /\ ChangesCredentials(s)' = ChangesCredentials(s)
        BY <3>0 DEF ProviderRequest, ChangesCredentials
      <4>a. (q[s].pc # "idle" /\ Rotated(s)) => Rotated(s)'
        BY <1>0, <2>1, ProviderFactsStay DEF Rotated
      <4>b. q[s].reply = 200 => q[s].pc = "done"
        BY RepliedIsDone
      <4>1. q[s].pc \in {"go", "read", "write", "commit"} =>
               /\ Born(p)' /\ (Exists(p)' \/ Gone(p)')
               /\ \A t \in q[s].before : ~ (ask[t].op = "pdel" /\ ask[t].id = p /\ q'[t].reply = 204)
        <5>1. \A t \in q[s].before : q'[t] = q[t]
          BY <2>1 DEF Moved, RequestsOK, BeforeIsDone
        <5> QED BY <2>1, <2>3, <3>2, <4>0, <5>1, ProviderFactsStay DEF UpdateOK
      <4>2. q[s].pc \in {"read", "write", "commit"} => IsOld(q[s].old) /\ q[s].old.was = "absent"
        BY <1>0, <3>0, <3>2, <4>0 DEF UpdateOK
      <4>3. /\ q[s].pc \in {"idle", "go", "read", "write", "commit", "done"}
            /\ q[s].pc \in {"read", "write"} => ask[s].mode \in {"api", "org"}
            /\ q[s].pc = "write" => IsCred(q[s].old.cred)
            /\ (q[s].pc = "commit" /\ ChangesCredentials(s)) => Rotated(s)'
            /\ q[s].reply = 200 => Born(p)' /\ (ChangesCredentials(s) => Rotated(s)')
        BY <2>1, <3>2, <4>0, <4>a, <4>b, ProviderFactsStay DEF UpdateOK
      <4>4. UpdateOK(s)'
        BY <2>2, <3>0, <3>2, <4>0, <4>1, <4>2, <4>3 DEF UpdateOK
      <4> QED BY <3>2, <4>4 DEF ProviderRequest, NewOK, DeleteOK, OtherProviderOK
    <3>3. CASE ask[s].op = "pdel" /\ ask[s].id = p
      <4>0. DeleteOK(s)
        BY <3>0 DEF ProviderRequest
      <4>1. q[s].pc = "wipe" => \A d \in FlagDepts : pins'[d] = p =>
              \E t \in Reqs : ask[t].op = "pin" /\ ask[t].dept = d /\ Overlap(t, s)'
        BY <1>0, <2>1, <3>3, <4>0, OverlapStays DEF DeleteOK
      <4>2. creds'[p] = creds[p] /\ NoCred' = NoCred
        BY <1>0 DEF NoCred
      <4>3. DeleteOK(s)'
        BY <2>1, <2>2, <3>0, <3>3, <4>0, <4>1, <4>2, ProviderFactsStay DEF DeleteOK
      <4> QED BY <3>3, <4>3 DEF ProviderRequest, NewOK, UpdateOK, OtherProviderOK
    <3>4. CASE ~ (ask[s].op \in {"pnew", "pset", "pdel"} /\ ask[s].id = p)
      <4>1. ask[s].op \in {"pnew", "pset", "pdel"} => ask[s].id \in Providers \ {p}
        BY <3>4 DEF Asked
      <4> QED BY <1>0, <2>1, <2>2, <4>1, RequestKept
    <3> QED BY <3>1, <3>2, <3>3, <3>4
  <2>10. ProviderRequest(r)'
    <3>1. creds'[p] = creds[p] /\ NoCred' = NoCred /\ Born(p)'
      BY <1>0, <2>1, <2>5, ProviderFactsStay DEF NoCred
    <3>2. OverlapSet(r) => OverlapSet(r)'
      BY <2>1, ProviderFactsStay
    <3>3. DeleteOK(r)'
      BY <2>1, <2>2, <2>5, <3>1, <3>2 DEF DeleteOK
    <3> QED BY <1>0, <3>3 DEF ProviderRequest, NewOK, UpdateOK, OtherProviderOK
  <2>11. ProvidersOK'
    BY <2>4, <2>7, <2>8, <2>9, <2>10 DEF ProvidersOK
  <2> QED BY <1>0, <2>1, <2>a, <2>11 DEF ProviderStepOK
<1> QED BY <1>1, <1>2 DEF DropProvider

\* A pin is written: whoever is deleting the provider runs next to it, or
\* failed before it began.
LEMMA PutPinStep ==
  ASSUME RequestsOK, Asked, ProvidersOK, NEW r \in Reqs, ask' = ask, PutPin(r)
  PROVE  ProviderStepOK(r)
<1> USE DEF ProviderOps, At
<1> DEFINE p == ask[r].id
           d == ask[r].dept
<1>0. /\ ask[r].op = "pin" /\ q[r].pc = "put" /\ p \in Providers \cup {None} /\ d \in FlagDepts
      /\ UNCHANGED <<flagVars, provs, creds, rowlock, tested, ctlVars>>
  BY DEF PutPin, Asked
<1>a. rowlock' = rowlock /\ rowlock' \in [Providers -> Reqs \cup {None}]
  BY <1>0 DEF ProvidersOK, ProviderTypes
<1>1. CASE Answer(r, 500) /\ Quiet /\ UNCHANGED pins
  <2>1. Moved(r) /\ Noted(r) /\ q'[r].pc = "done" /\ q'[r].reply = 500
    BY <1>0, <1>1, AnswerMoves, QuietNotes
  <2> QED BY <1>0, <1>1, <1>a, <2>1, RefusedKeepsNothing, ProviderStoresSame DEF ProviderStepOK
<1>2. CASE /\ p # None => Exists(p)
           /\ upsert_pin(d, p) /\ Answer(r, 200)
           /\ ProviderAudit(r, IF p = None THEN "dept_llm_provider_unpinned"
                                           ELSE "dept_llm_provider_pinned", "ok")
  <2>1. Moved(r) /\ q'[r].pc = "done" /\ q'[r].reply = 200
    BY <1>0, <1>2, AnswerMoves
  <2>2. Noted(r)
    BY <1>2, InsertNotes, ResultNames DEF ProviderAudit
  <2>3. /\ pins' \in [FlagDepts -> Providers \cup {None}] /\ pins'[d] = p
        /\ \A e \in FlagDepts \ {d} : pins'[e] = pins[e]
    BY <1>0, <1>2 DEF upsert_pin, ProvidersOK, ProviderTypes
  <2>4. \A e : Exists(e)' = Exists(e) /\ creds'[e] = creds[e]
    BY <1>0 DEF Exists
  <2>5. ProviderTypes'
    BY <1>0, <1>a, <2>3 DEF ProvidersOK, ProviderTypes, IsCred
  <2>6. \A e \in Providers : ProviderPart(e)'
    BY <1>0, <2>1, <2>4, ProviderPartKept DEF ProvidersOK
  <2>7. PinPart(d)'
    <3> SUFFICES ASSUME p # None PROVE Exists(p)' /\ (creds'[p].api # None \/ PinExcuse(d, p)')
      BY <2>3 DEF PinPart, Exists
    <3>1. Exists(p) /\ p \in Providers
      BY <1>0, <1>2
    <3>2. CASE creds[p].api = None
      <4>1. PICK s \in Reqs : ask[s].op = "pdel" /\ ask[s].id = p
                              /\ (q[s].pc = "drop" \/ q[s].reply \in {500, 502})
        BY <3>1, <3>2 DEF ProvidersOK, ProviderPart, Wiping
      <4>2. s # r /\ q'[s] = q[s] /\ q[s].pc # "idle" /\ r \notin q[s].before
        BY <1>0, <2>1, <4>1, RepliedIsDone DEF Moved, RequestsOK, BeforeIsDone
      <4>3. s \in Deleting(p)'
        BY <4>1, <4>2 DEF Deleting
      <4>4. CASE s \in q[r].before
        <5>1. s \in q'[r].before /\ q'[s].reply \in {500, 502}
          BY <1>0, <2>1, <4>1, <4>2, <4>4 DEF Moved, RequestsOK, BeforeIsDone
        <5> QED BY <1>0, <2>4, <3>1, <4>3, <5>1 DEF PinExcuse
      <4>5. CASE s \notin q[r].before
        <5>1. Overlap(r, s)
          BY <1>0, <4>2, <4>5 DEF Overlap
        <5>2. Overlap(r, s)'
          BY <2>1, <5>1, OverlapStays
        <5> QED BY <1>0, <2>4, <3>1, <4>3, <5>2 DEF PinExcuse
      <4> QED BY <4>4, <4>5
    <3> QED BY <2>4, <3>1, <3>2
  <2>8. ASSUME NEW e \in FlagDepts \ {d} PROVE PinPart(e)'
    <3>1. pins'[e] = pins[e] /\ PinPart(e)
      BY <2>3 DEF ProvidersOK
    <3>2. pins[e] # None => /\ Exists(pins[e])' = Exists(pins[e])
                            /\ creds'[pins[e]].api = creds[pins[e]].api
      BY <1>0, <3>1 DEF Exists
    <3> QED BY <2>1, <3>1, <3>2, PinPartKept
  <2>9. ASSUME NEW s \in Reqs \ {r} PROVE ProviderRequest(s)'
    <3>0. q'[s] = q[s] /\ ProviderRequest(s) /\ rowlock' = rowlock
      BY <1>a, <2>1 DEF ProvidersOK, Moved
    <3>1. CASE ask[s].op = "pdel"
      <4>0. DeleteOK(s)
        BY <3>0 DEF ProviderRequest
      <4>1. ASSUME q[s].pc = "wipe", NEW e \in FlagDepts, pins'[e] = ask[s].id
            PROVE  \E t \in Reqs : ask[t].op = "pin" /\ ask[t].dept = e /\ Overlap(t, s)'
        <5>1. CASE e = d
          <6>1. Overlap(r, s)
            BY <1>0, <4>1, UnderWayOverlaps
          <6> QED BY <1>0, <2>1, <5>1, <6>1, OverlapStays
        <5>2. CASE e # d
          BY <2>1, <2>3, <3>1, <4>0, <4>1, <5>2, OverlapStays DEF DeleteOK
        <5> QED BY <5>1, <5>2
      <4>2. NoCred' = NoCred
        BY DEF NoCred
      <4>3. DeleteOK(s)'
        BY <2>1, <2>4, <3>0, <3>1, <4>0, <4>1, <4>2, ProviderFactsStay DEF DeleteOK
      <4> QED BY <3>1, <4>3 DEF ProviderRequest, NewOK, UpdateOK, OtherProviderOK
    <3>2. CASE ask[s].op # "pdel"
      BY <2>1, <2>4, <3>0, <3>2, RequestKept
    <3> QED BY <3>1, <3>2
  <2>10. ProviderRequest(r)'
    BY <1>0, <2>1, RefusedKeepsNothing
  <2>11. ProvidersOK'
    BY <2>5, <2>6, <2>7, <2>8, <2>9, <2>10 DEF ProvidersOK
  <2> QED BY <1>0, <2>1, <2>2, <2>11 DEF ProviderStepOK
<1> QED BY <1>1, <1>2 DEF PutPin

\* A step of a provider route keeps the invariant.
LEMMA ProvidersKept ==
  ASSUME RequestsOK, Asked, ProvidersOK, NEW r \in Reqs, ask' = ask, ProviderStep(r)
  PROVE  ProviderStepOK(r)
  BY ProviderReads, CreateStep, UpdateRowStep, ReadCredentialsStep, WriteCredentialsStep,
     CommitUpdateStep, WipeStep, DropStep, PutPinStep, TestStored DEF ProviderStep

-----------------------------------------------------------------------------
(* The settings together *)

SettingRouteOps == FlagOps \cup ProviderOps \cup ControlRouteOps

\* What every step of the settings establishes.
SettingStepOK(r) ==
    /\ Moved(r) /\ Noted(r) /\ ask[r].op \in SettingRouteOps
    /\ FlagsOK' /\ ExactEdit(r) /\ ProvidersOK' /\ ControlOK'

\* Flags, providers and controls keep out of each other's way.
LEMMA SettingsKept ==
  ASSUME RequestsOK, Asked, FlagsOK, ProvidersOK, ControlOK, NEW r \in Reqs, ask' = ask,
         SettingStep(r)
  PROVE  SettingStepOK(r)
<1> USE DEF SettingRouteOps
<1>1. CASE SettingsNotReady(r)
  <2>0. /\ q[r].pc = "idle" /\ ask[r].op \in SettingRouteOps /\ Answer(r, 503) /\ Quiet
        /\ UNCHANGED flagVars /\ UNCHANGED provVars /\ UNCHANGED ctlVars
    BY <1>1 DEF SettingsNotReady, SettingOps, FlagOps, ProviderOps, ControlRouteOps, ControlOps,
                settingVars, flagVars, provVars, ctlVars
  <2>1. Moved(r) /\ q'[r].pc = "done" /\ q'[r].reply = 503
    BY <2>0, AnswerMoves
  <2>2. Noted(r) /\ audit' = audit
    BY <2>0, QuietNotes
  <2>3. FlagsOK' /\ ExactEdit(r)
    BY <2>0, <2>1, NoFlagToKeep, FlagStoresSame DEF flagVars
  <2>4. ProvidersOK'
    BY <2>0, <2>1, RefusedKeepsNothing, ProviderVarsSame
  <2>5. ControlRequest(r)'
    BY <2>0, <2>1, <2>2 DEF ControlOK, ControlRequest
  <2>6. ControlOK'
    BY <2>0, <2>1, <2>2, <2>5, ControlOthers DEF ctlVars, ControlOK, ControlTypes
  <2> QED BY <2>0, <2>1, <2>2, <2>3, <2>4, <2>6 DEF SettingStepOK
<1>2. CASE FlagStep(r)
  <2>1. /\ Moved(r) /\ Noted(r) /\ ask[r].op \in FlagOps /\ FlagsOK' /\ ExactEdit(r)
        /\ UNCHANGED provVars /\ UNCHANGED ctlVars
    BY <1>2, FlagsKept
  <2>2. ask[r].op \notin ProviderOps /\ ask[r].op \notin ControlOps
    BY <2>1 DEF FlagOps, ProviderOps, ControlOps
  <2>3. ask[r].op # "pdel"
    BY <2>1 DEF FlagOps
  <2> QED BY <2>1, <2>2, <2>3, NoProviderToKeep, ProviderVarsSame, ControlStoresSame
          DEF SettingStepOK
<1>3. CASE ProviderStep(r)
  <2>1. /\ Moved(r) /\ Noted(r) /\ ask[r].op \in ProviderOps /\ ProvidersOK'
        /\ UNCHANGED flagVars /\ UNCHANGED ctlVars
    BY <1>3, ProvidersKept DEF ProviderStepOK
  <2>2. ask[r].op \notin FlagOps /\ ask[r].op \notin ControlOps
    BY <2>1 DEF FlagOps, ProviderOps, ControlOps
  <2> QED BY <2>1, <2>2, NoFlagToKeep, FlagStoresSame, ControlStoresSame DEF SettingStepOK, flagVars
<1>4. CASE ControlStep(r)
  <2>1. /\ Moved(r) /\ Noted(r) /\ ask[r].op \in ControlRouteOps /\ ControlOK'
        /\ UNCHANGED flagVars /\ UNCHANGED provVars
    BY <1>4, ControlKept
  <2>2. ask[r].op \notin FlagOps /\ ask[r].op \notin ProviderOps /\ ask[r].op # "pdel"
    BY <2>1 DEF FlagOps, ProviderOps, ControlRouteOps, ControlOps
  <2> QED BY <2>1, <2>2, NoFlagToKeep, FlagStoresSame, NoProviderToKeep, ProviderVarsSame
          DEF SettingStepOK, flagVars
<1> QED BY <1>1, <1>2, <1>3, <1>4 DEF SettingStep

\* Steps of the other pages.
LEMMA SettingsStay ==
  ASSUME RequestsOK, Asked, FlagsOK, ProvidersOK, ControlOK, NEW r \in Reqs, ask' = ask,
         Moved(r), Noted(r), ask[r].op \notin SettingRouteOps, UNCHANGED settingVars
  PROVE  FlagsOK' /\ ExactEdit(r) /\ ProvidersOK' /\ ControlOK'
<1>1. UNCHANGED flagVars /\ UNCHANGED provVars /\ UNCHANGED ctlVars
  BY DEF settingVars, flagVars, provVars, ctlVars
<1>2. /\ ask[r].op \notin FlagOps /\ ask[r].op \notin ProviderOps /\ ask[r].op \notin ControlOps
      /\ ask[r].op # "pdel"
  BY DEF SettingRouteOps, ControlRouteOps, ProviderOps
<1> QED BY <1>1, <1>2, NoFlagToKeep, FlagStoresSame, NoProviderToKeep, ProviderVarsSame,
           ControlStoresSame DEF flagVars

-----------------------------------------------------------------------------
(* The prompt editor *)

IsHead(x) == x = [f \in {"tip", "base", "tree"} |-> x[f]]
IsTree(x) == x = [p \in Paths |-> x[p]]
IsPr(x) == x = [f \in {"by", "path", "src", "run", "body", "merged"} |-> x[f]]

DraftNames == {SafeName[w] : w \in DOMAIN SafeName} \X Nat \X {0, 1}

PromptTypes ==
    /\ heads = [b \in DOMAIN heads |-> heads[b]]
    /\ Main \in DOMAIN heads /\ None \notin DOMAIN heads
    /\ \A b \in DOMAIN heads : IsHead(heads[b]) /\ IsTree(heads[b].tree)
    /\ pending = [k \in DOMAIN pending |-> pending[k]]
    /\ \A k \in DOMAIN pending : k[1] \in DOMAIN heads /\ k[2] \in Paths /\ k = <<k[1], k[2]>>
    /\ now \in Nat

\* Past the check of its name a draft may still find that another one has the
\* branch; it never changes to another name.
Settled == {"create", "write", "build", "set"}

\* Two drafts that chose the same branch for good.
Clashed(b) ==
    \E r, s \in Reqs :
        /\ r # s /\ ask[r].op = "draft" /\ ask[s].op = "draft"
        /\ q[r].br = b /\ q[s].br = b /\ q[r].pc # "name" /\ q[s].pc # "name" /\ Overlap(r, s)

\* A draft that chose branch b for good ran next to request s.
Drafting(b, s) ==
    \E r \in Reqs : /\ ask[r].op = "draft" /\ q[r].br = b /\ q[r].pc # "name" /\ Overlap(r, s)

\* The names of answered requests are those of branches, so a name that was
\* found free is none of theirs.
FreshName(r) ==
    \A t \in q[r].before : ask[t].op \in {"draft", "sandbox"} => q[t].br # q[r].br

\* A draft is in the map, then in the commit, then on the branch.
DraftOK(r) == ask[r].op = "draft" =>
    LET b == q[r].br  p == ask[r].path IN
    /\ q[r].pc \in Settled \cup {"name"} => b \in DraftNames /\ p \in Paths
    /\ q[r].pc \in {"write", "build", "set"} => b \in DOMAIN heads
    /\ q[r].pc \in Settled \/ q[r].reply = 201 => b \in DraftNames /\ FreshName(r)
    /\ q[r].pc = "build" =>
          Clashed(b) \/ (<<b, p>> \in DOMAIN pending /\ pending[<<b, p>>] = ask[r].body)
    /\ q[r].pc = "set" => IsTree(q[r].old) /\ (Clashed(b) \/ q[r].old[p] = ask[r].body)
    /\ q[r].reply = 201 => Clashed(b) \/ heads[b].tree[p] = ask[r].body

\* What the sandbox read is what the branch holds.
SandboxOK(r) ==
    (ask[r].op = "sandbox" /\ (q[r].pc = "llm" \/ q[r].reply = 200) /\ q[r].br # None) =>
        /\ q[r].br \in DOMAIN heads /\ q[r].br # Main
        /\ \/ heads[q[r].br].tree[ask[r].path] = q[r].old
           \/ Clashed(q[r].br) \/ Drafting(q[r].br, r)

PromoteOK(r) == (ask[r].op \in {"pr", "promote"} /\ q[r].pc = "open") =>
    /\ q[r].br \in DOMAIN heads
    /\ ask[r].op = "promote" => \E y \in runs : y.id = q[r].old

\* A commit's branch, pull request and version row come in this order.
Proposed(r) == \E x \in prs : x.by = r /\ x.path = ask[r].path /\ x.src = CommitBranch(r)

CommitOK(r) == ask[r].op = "commit" =>
    LET b == CommitBranch(r) IN
    /\ q[r].pc = "idle" => b \notin DOMAIN heads
    /\ q[r].pc = "commit" => b \notin DOMAIN heads /\ ask[r].path \in Paths
    /\ q[r].pc \in {"pr", "version"} =>
          b \in DOMAIN heads /\ heads[b].tree[ask[r].path] = ask[r].body
    /\ q[r].pc = "version" => Proposed(r)

\* A name in an answered request is that of a branch.
NamedOK(r) == ask[r].op \in {"draft", "sandbox"} =>
    /\ q[r].pc = "idle" => q[r].br = None
    /\ (q[r].pc = "done" /\ q[r].br # None) => q[r].br \in DOMAIN heads

PromptRequest(r) == DraftOK(r) /\ SandboxOK(r) /\ PromoteOK(r) /\ CommitOK(r) /\ NamedOK(r)

\* A run is the row of a sandbox request that was answered with its id.
RunRow(y) == /\ y.id \in Reqs /\ ask[y.id].op = "sandbox" /\ q[y.id].reply = 200
             /\ y.path = ask[y.id].path /\ y.branch = q[y.id].br /\ y.body = q[y.id].old

\* A pull request of a promotion proposes what its run was made with.
PrRow(x) ==
    /\ IsPr(x) /\ x.by \in Reqs /\ x.src \in DOMAIN heads
    /\ ask[x.by].op = "promote" =>
          /\ \E y \in runs : y.id = x.run
          /\ (q[x.run].br = x.src /\ ask[x.run].path = x.path) =>
                q[x.run].old = x.body \/ Clashed(x.src) \/ Drafting(x.src, x.run)

\* A version row is of a commit that ended, with its branch and its pull request.
VersionRow(v) ==
    /\ v.by \in Reqs /\ ask[v.by].op = "commit" /\ q[v.by].pc = "done"
    /\ v.path = ask[v.by].path /\ v.body = ask[v.by].body
    /\ CommitBranch(v.by) \in DOMAIN heads /\ heads[CommitBranch(v.by)].tree[v.path] = v.body
    /\ Proposed(v.by)

\* The unique index of prompt_versions.
OneRowEach == \A v, w \in versions : (w.path = v.path /\ w.body = v.body) => w = v

\* The inductive invariant of the prompt editor.
PromptsOK ==
    /\ PromptTypes
    /\ \A r \in Reqs : PromptRequest(r)
    /\ \A y \in runs : RunRow(y)
    /\ \A x \in prs : PrRow(x)
    /\ \A v \in versions : VersionRow(v)
    /\ OneRowEach

\* The invariant says what PromptsAreTraceable says.
LEMMA PromptsOKSuffices ==
  ASSUME PromptsOK
  PROVE  PromptsAreTraceable
<1>1. \A b : Clashed(b) => Collided(b)
  BY DEF Clashed, Collided
<1>2. \A b, s : Drafting(b, s) => StillDrafting(b, s)
  BY DEF Drafting, StillDrafting
<1>3. SettledDraftsAreKept
  BY <1>1 DEF SettledDraftsAreKept, Drafted, PromptsOK, PromptRequest, DraftOK
<1>4. PromotedRunsAreRecorded
  BY DEF PromotedRunsAreRecorded, PromptsOK, PrRow
<1>5. PromotedIsWhatWasTested
  <2> SUFFICES ASSUME NEW x \in prs, NEW y \in runs, ask[x.by].op = "promote", y.id = x.run,
                      y.branch = x.src, y.path = x.path
               PROVE  y.body = x.body \/ Collided(x.src) \/ StillDrafting(x.src, y.id)
    BY DEF PromotedIsWhatWasTested
  <2>1. RunRow(y) /\ PrRow(x)
    BY DEF PromptsOK
  <2>2. q[x.run].old = x.body \/ Clashed(x.src) \/ Drafting(x.src, x.run)
    BY <2>1 DEF RunRow, PrRow
  <2> QED BY <1>1, <1>2, <2>1, <2>2 DEF RunRow
<1>6. VersionsHavePullRequests
  <2> SUFFICES ASSUME NEW v \in versions
               PROVE  \E x \in prs : x.by = v.by /\ x.path = v.path /\ heads[x.src].tree[v.path] = v.body
    BY DEF VersionsHavePullRequests, PromptsOK, OneRowEach
  <2>1. VersionRow(v)
    BY DEF PromptsOK
  <2> QED BY <2>1 DEF VersionRow, Proposed
<1> QED BY <1>3, <1>4, <1>5, <1>6 DEF PromptsAreTraceable

\* A draft keeps the branch it settled on.
Steady(r) == (ask[r].op = "draft" /\ q[r].pc \notin {"idle", "name"}) =>
                 q'[r].br = q[r].br /\ q'[r].pc # "name"

\* Drafts that clashed stay clashed, and a draft next to a request stays next to it.
LEMMA ClashesStay ==
  ASSUME RequestsOK, NEW r \in Reqs, Moved(r), ask' = ask, Steady(r)
  PROVE  /\ \A b : Clashed(b) => Clashed(b)'
         /\ \A b : \A s \in Reqs : Drafting(b, s) => Drafting(b, s)'
<1>1. ASSUME NEW t \in Reqs, ask[t].op = "draft", q[t].pc \notin {"idle", "name"}
      PROVE  q'[t].br = q[t].br /\ q'[t].pc # "name"
  BY <1>1 DEF Steady, Moved
<1>2. ASSUME NEW b, Clashed(b) PROVE Clashed(b)'
  <2>1. PICK t \in Reqs, s \in Reqs :
           /\ t # s /\ ask[t].op = "draft" /\ ask[s].op = "draft" /\ q[t].br = b /\ q[s].br = b
           /\ q[t].pc # "name" /\ q[s].pc # "name" /\ Overlap(t, s)
    BY <1>2 DEF Clashed
  <2>2. Overlap(t, s)'
    BY <2>1, OverlapStays
  <2>3. q[t].pc # "idle" /\ q[s].pc # "idle"
    BY <2>1 DEF Overlap
  <2> QED BY <1>1, <2>1, <2>2, <2>3 DEF Clashed
<1>3. ASSUME NEW b, NEW s \in Reqs, Drafting(b, s) PROVE Drafting(b, s)'
  <2>1. PICK t \in Reqs : /\ ask[t].op = "draft" /\ q[t].br = b /\ q[t].pc # "name" /\ Overlap(t, s)
    BY <1>3 DEF Drafting
  <2>2. Overlap(t, s)' /\ q[t].pc # "idle"
    BY <2>1, OverlapStays DEF Overlap
  <2> QED BY <1>1, <2>1, <2>2 DEF Drafting
<1> QED BY <1>2, <1>3

\* The stores only grow, but for the branches W that are being written.
Grown(W) ==
    /\ DOMAIN heads \subseteq DOMAIN heads'
    /\ \A b \in DOMAIN heads \ {Main} : b \in W \/ heads'[b].tree = heads[b].tree
    /\ \A k \in DOMAIN pending : k[1] \in W \/ (k \in DOMAIN pending' /\ pending'[k] = pending[k])
    /\ runs \subseteq runs'
    /\ \A x \in prs : \E z \in prs' : z.by = x.by /\ z.path = x.path /\ z.src = x.src

\* A request that does not move, and whose branch nobody writes without a
\* clash, keeps its part.
LEMMA RequestUnmoved ==
  ASSUME RequestsOK, PromptsOK, NEW s \in Reqs, q'[s] = q[s], ask' = ask,
         \A t \in q[s].before : q'[t] = q[t],
         NEW W, Grown(W),
         Clashed(q[s].br) => Clashed(q[s].br)',
         Drafting(q[s].br, s) => Drafting(q[s].br, s)',
         (ask[s].op = "draft" /\ (q[s].pc \in Settled \/ q[s].reply = 201) /\ q[s].br \in W)
            => Clashed(q[s].br)',
         (ask[s].op = "sandbox" /\ q[s].pc # "idle" /\ q[s].br \in W)
            => Drafting(q[s].br, s)',
         ask[s].op = "commit" =>
            /\ CommitBranch(s) \in DOMAIN heads' => CommitBranch(s) \in DOMAIN heads
            /\ CommitBranch(s) \notin W
  PROVE  PromptRequest(s)'
<1> DEFINE b == q[s].br
           p == ask[s].path
<1>0. PromptRequest(s) /\ PromptTypes /\ q'[s].br = b /\ Main' = Main
  BY DEF PromptsOK, Main
<1>a. q[s].reply \in {200, 201} => q[s].pc = "done"
  BY RepliedIsDone
<1>b. Main \notin DraftNames /\ \A e \in DraftNames : e # None
  BY PromptAssumption DEF Main, DraftNames, Branches
<1>1. DraftOK(s)'
  <2> SUFFICES ASSUME ask[s].op = "draft" PROVE DraftOK(s)'
    BY DEF DraftOK
  <2>0. DraftOK(s) /\ NamedOK(s) /\ DraftNames' = DraftNames
    BY <1>0 DEF PromptRequest, DraftNames
  <2>1. /\ q[s].pc \in Settled \cup {"name"} => b \in DraftNames /\ p \in Paths
        /\ q[s].pc \in {"write", "build", "set"} => b \in DOMAIN heads'
    BY <2>0 DEF DraftOK, Grown
  <2>2. q[s].pc \in Settled \/ q[s].reply = 201 => b \in DraftNames /\ FreshName(s)'
    BY <2>0 DEF DraftOK, FreshName
  <2>3. q[s].pc = "build" =>
          Clashed(b)' \/ (<<b, p>> \in DOMAIN pending' /\ pending'[<<b, p>>] = ask[s].body)
    BY <2>0 DEF DraftOK, Grown, Settled
  <2>4. q[s].pc = "set" => IsTree(q[s].old) /\ (Clashed(b)' \/ q[s].old[p] = ask[s].body)
    BY <2>0 DEF DraftOK
  <2>5. q[s].reply = 201 => Clashed(b)' \/ heads'[b].tree[p] = ask[s].body
    <3> SUFFICES ASSUME q[s].reply = 201 PROVE Clashed(b)' \/ heads'[b].tree[p] = ask[s].body
      OBVIOUS
    <3>1. b \in DraftNames /\ b \in DOMAIN heads \ {Main}
      BY <1>a, <1>b, <2>0 DEF DraftOK, NamedOK
    <3> QED BY <2>0, <3>1 DEF DraftOK, Grown
  <2> QED BY <1>0, <2>0, <2>1, <2>2, <2>3, <2>4, <2>5 DEF DraftOK, Settled, IsTree
<1>2. SandboxOK(s)'
  <2> SUFFICES ASSUME ask[s].op = "sandbox", q[s].pc = "llm" \/ q[s].reply = 200, b # None
               PROVE  /\ b \in DOMAIN heads' /\ b # Main
                      /\ heads'[b].tree[p] = q[s].old \/ Clashed(b)' \/ Drafting(b, s)'
    BY <1>0 DEF SandboxOK
  <2>1. SandboxOK(s) /\ q[s].pc # "idle"
    BY <1>0, <1>a DEF PromptRequest
  <2> QED BY <2>1 DEF SandboxOK, Grown
<1>3. PromoteOK(s)'
  BY <1>0 DEF PromptRequest, PromoteOK, Grown
<1>4. CommitOK(s)'
  <2> SUFFICES ASSUME ask[s].op = "commit" PROVE CommitOK(s)'
    BY DEF CommitOK
  <2>1. CommitOK(s) /\ CommitBranch(s)' = CommitBranch(s) /\ CommitBranch(s) # Main
    BY <1>0 DEF PromptRequest, CommitBranch, Main
  <2>2. Proposed(s) => Proposed(s)'
    BY <2>1 DEF Proposed, Grown
  <2> QED BY <2>1, <2>2 DEF CommitOK, Grown
<1>5. NamedOK(s)'
  BY <1>0 DEF PromptRequest, NamedOK, Grown
<1> QED BY <1>1, <1>2, <1>3, <1>4, <1>5 DEF PromptRequest

\* A version row of a request that does not move, on a branch nobody writes.
LEMMA VersionStays ==
  ASSUME NEW v, VersionRow(v), ask' = ask, q'[v.by] = q[v.by], NEW W, Grown(W),
         CommitBranch(v.by) \notin W
  PROVE  VersionRow(v)'
<1>1. CommitBranch(v.by)' = CommitBranch(v.by) /\ CommitBranch(v.by) # Main
  BY DEF CommitBranch, Main
<1>2. Proposed(v.by)'
  BY <1>1 DEF VersionRow, Proposed, Grown
<1>3. /\ CommitBranch(v.by) \in DOMAIN heads'
      /\ heads'[CommitBranch(v.by)].tree[v.path] = v.body
  BY <1>1 DEF VersionRow, Grown
<1> QED BY <1>1, <1>2, <1>3 DEF VersionRow

\* The branch a draft is writing.
WrittenBy(r) == IF ask[r].op = "draft" /\ q[r].pc \in Settled THEN {q[r].br} ELSE {}

\* What a step does to others: only a draft under way can touch somebody's
\* branch, and then the two clash.
LEMMA EditorOthers ==
  ASSUME RequestsOK, PromptsOK, NEW r \in Reqs, Moved(r), ask' = ask, Steady(r),
         Grown(WrittenBy(r)),
         \A c \in Reqs \ {r} : CommitBranch(c) \in DOMAIN heads' => CommitBranch(c) \in DOMAIN heads
  PROVE  /\ \A s \in Reqs \ {r} : PromptRequest(s)'
         /\ \A y \in runs : RunRow(y)'
         /\ \A x \in prs : PrRow(x)'
         /\ \A v \in versions : VersionRow(v)'
         /\ versions' = versions => OneRowEach'
<1>0. \A s \in Reqs : q[s].pc = "done" => s # r /\ q'[s] = q[s]
  BY DEF Moved
<1>a. \A s \in Reqs : q[s].reply \in {200, 201} => q[s].pc = "done"
  BY RepliedIsDone
<1>b. \A s \in Reqs : CommitBranch(s) \notin WrittenBy(r)
  <2>1. \A s \in Reqs : CommitBranch(s) \notin DraftNames
    BY PromptAssumption DEF CommitBranch, DraftNames
  <2>2. \A b \in WrittenBy(r) : b \in DraftNames
    BY DEF WrittenBy, PromptsOK, PromptRequest, DraftOK
  <2> QED BY <2>1, <2>2
<1>1. ASSUME NEW s \in Reqs \ {r} PROVE PromptRequest(s)'
  <2>0. q'[s] = q[s] /\ (\A t \in q[s].before : q'[t] = q[t]) /\ r \notin q[s].before
    BY DEF Moved, RequestsOK, BeforeIsDone
  <2>1. ASSUME q[s].br \in WrittenBy(r), q[s].pc # "idle", ask[s].op \in {"draft", "sandbox"}
        PROVE  /\ ask[r].op = "draft" /\ q[r].pc \in Settled /\ q[s].br = q[r].br
               /\ Overlap(r, s)
    <3>1. ask[r].op = "draft" /\ q[r].pc \in Settled /\ q[s].br = q[r].br
      BY <2>1 DEF WrittenBy
    <3>2. s \notin q[r].before
      BY <2>1, <3>1 DEF PromptsOK, PromptRequest, DraftOK, FreshName
    <3> QED BY <2>0, <2>1, <3>1, <3>2 DEF Overlap, Settled
  <2>2. (ask[s].op = "draft" /\ (q[s].pc \in Settled \/ q[s].reply = 201) /\ q[s].br \in WrittenBy(r))
            => Clashed(q[s].br)'
    <3> SUFFICES ASSUME ask[s].op = "draft", q[s].pc \in Settled \/ q[s].reply = 201,
                        q[s].br \in WrittenBy(r)
                 PROVE  Clashed(q[s].br)'
      OBVIOUS
    <3>1. q[s].pc \notin {"idle", "name"}
      BY <1>a DEF Settled
    <3>2. Clashed(q[s].br)
      BY <2>1, <3>1 DEF Clashed, Settled
    <3> QED BY <2>0, <3>2, ClashesStay DEF Clashed
  <2>3. (ask[s].op = "sandbox" /\ q[s].pc # "idle" /\ q[s].br \in WrittenBy(r))
            => Drafting(q[s].br, s)'
    <3> SUFFICES ASSUME ask[s].op = "sandbox", q[s].pc # "idle", q[s].br \in WrittenBy(r)
                 PROVE  Drafting(q[s].br, s)'
      OBVIOUS
    <3>1. Drafting(q[s].br, s)
      BY <2>1 DEF Drafting, Settled
    <3> QED BY <2>0, <3>1, ClashesStay DEF Drafting
  <2>4. CommitBranch(s) \notin WrittenBy(r)
    BY <1>b
  <2>5. /\ Clashed(q[s].br) => Clashed(q[s].br)'
        /\ Drafting(q[s].br, s) => Drafting(q[s].br, s)'
    BY <2>0, ClashesStay DEF Clashed, Drafting
  <2> QED BY <2>0, <2>2, <2>3, <2>4, <2>5, RequestUnmoved
<1>2. ASSUME NEW y \in runs PROVE RunRow(y)'
  BY <1>0, <1>a DEF PromptsOK, RunRow
<1>3. ASSUME NEW x \in prs PROVE PrRow(x)'
  <2>1. PrRow(x)
    BY DEF PromptsOK
  <2>2. x.src \in DOMAIN heads'
    BY <2>1 DEF PrRow, Grown
  <2>3. ASSUME ask[x.by].op = "promote"
        PROVE  /\ \E y \in runs' : y.id = x.run
               /\ (q'[x.run].br = x.src /\ ask[x.run].path = x.path) =>
                     q'[x.run].old = x.body \/ Clashed(x.src)' \/ Drafting(x.src, x.run)'
    <3>1. PICK y \in runs : y.id = x.run
      BY <2>1, <2>3 DEF PrRow
    <3>2. x.run \in Reqs /\ q'[x.run] = q[x.run] /\ y \in runs'
      BY <1>0, <1>a, <3>1 DEF PromptsOK, RunRow, Grown
    <3>3. /\ Clashed(x.src) => Clashed(x.src)'
          /\ Drafting(x.src, x.run) => Drafting(x.src, x.run)'
      BY <3>2, ClashesStay
    <3> QED BY <2>1, <2>3, <3>1, <3>2, <3>3 DEF PrRow
  <2> QED BY <2>1, <2>2, <2>3 DEF PrRow, IsPr
<1>4. ASSUME NEW v \in versions PROVE VersionRow(v)'
  <2>1. VersionRow(v)
    BY DEF PromptsOK
  <2>2. v.by \in Reqs /\ q'[v.by] = q[v.by] /\ CommitBranch(v.by) \notin WrittenBy(r)
    BY <1>0, <1>b, <2>1 DEF VersionRow
  <2> QED BY <2>1, <2>2, VersionStays
<1>5. versions' = versions => OneRowEach'
  BY DEF PromptsOK, OneRowEach
<1> QED BY <1>1, <1>2, <1>3, <1>4, <1>5

\* A step that leaves the repository and its tables alone needs to be looked
\* at only for the request that takes it.
LEMMA EditorSame ==
  ASSUME RequestsOK, PromptsOK, NEW r \in Reqs, Moved(r), ask' = ask, Steady(r),
         UNCHANGED <<heads, pending, runs, prs, versions, now>>, PromptRequest(r)'
  PROVE  PromptsOK'
<1>1. Grown(WrittenBy(r))
  BY DEF Grown
<1>2. PromptTypes'
  BY DEF PromptsOK, PromptTypes, IsHead, IsTree, Main
<1> QED BY <1>1, <1>2, EditorOthers DEF PromptsOK

\* A request of another page, and one of the editor that was refused.
LEMMA NoPromptToKeep ==
  ASSUME NEW r \in Reqs, ask' = ask,
         \/ ask[r].op \notin PromptOps
         \/ ask[r].op \in PromptOps \ {"draft", "sandbox", "pr", "promote", "commit"}
  PROVE  PromptRequest(r)' /\ Steady(r)
  BY DEF PromptRequest, DraftOK, SandboxOK, PromoteOK, CommitOK, NamedOK, PromptOps, Steady

\* A request of the editor that is refused owes nothing.
LEMMA PromptRefused ==
  ASSUME NEW r \in Reqs, ask' = ask, q'[r].pc = "done", q'[r].br = q[r].br,
         q'[r].reply \notin {200, 201},
         ask[r].op \in {"draft", "sandbox"} => q[r].br = None \/ q[r].br \in DOMAIN heads'
  PROVE  PromptRequest(r)' /\ Steady(r)
  BY DEF PromptRequest, DraftOK, SandboxOK, PromoteOK, CommitOK, NamedOK, PromptOps, Steady, Settled

\* Steps of the other pages.
LEMMA PromptsStay ==
  ASSUME RequestsOK, PromptsOK, NEW r \in Reqs, Moved(r), ask' = ask, ask[r].op \notin PromptOps,
         UNCHANGED promptVars
  PROVE  PromptsOK'
  BY NoPromptToKeep, EditorSame DEF promptVars

\* What every step of the editor establishes.
EditorStepOK(r) == Moved(r) /\ Noted(r) /\ ask[r].op \in PromptOps /\ PromptsOK'

\* A refusal before the request has done anything.
LEMMA RefusedAtOnce ==
  ASSUME RequestsOK, PromptsOK, NEW r \in Reqs, ask' = ask, q[r].pc = "idle", ask[r].op \in PromptOps,
         NEW code \in Nat, code \notin {200, 201}, Answer(r, code), Noted(r), UNCHANGED promptVars
  PROVE  EditorStepOK(r)
<1>1. Moved(r) /\ q'[r].pc = "done" /\ q'[r].reply = code /\ q'[r].br = q[r].br
  BY AnswerMoves
<1>2. ask[r].op \in {"draft", "sandbox"} => q[r].br = None
  BY DEF PromptsOK, PromptRequest, NamedOK
<1>3. PromptRequest(r)' /\ Steady(r)
  BY <1>1, <1>2, PromptRefused
<1> QED BY <1>1, <1>3, EditorSame DEF EditorStepOK, promptVars

\* The draft route up to the name of its branch, and the first half of its
\* commit.
LEMMA DraftReads ==
  ASSUME RequestsOK, Asked, PromptsOK, NEW r \in Reqs, ask' = ask,
         NotReady(r) \/ RefuseDraft(r) \/ StartDraft(r) \/ CheckBranch(r) \/ BuildCommit(r)
  PROVE  EditorStepOK(r)
<1> USE DEF At, Starts
<1> DEFINE b == q[r].br
           p == ask[r].path
<1>0. UNCHANGED promptVars /\ UNCHANGED <<heads, pending, runs, prs, versions, now>>
      /\ ask[r].op \in PromptOps
  BY DEF NotReady, RefuseDraft, StartDraft, CheckBranch, BuildCommit, promptVars, PromptOps
<1>a. PromptRequest(r) /\ DraftOK(r) /\ DraftNames' = DraftNames /\ PromptTypes
      /\ \A e \in DraftNames : e # None
  BY PromptAssumption DEF PromptsOK, PromptRequest, DraftNames, Branches
<1>1. CASE NotReady(r)
  <2>1. Noted(r) /\ q[r].pc = "idle" /\ Answer(r, 503)
    BY <1>1, QuietNotes DEF NotReady
  <2> QED BY <1>0, <2>1, RefusedAtOnce
<1>2. CASE RefuseDraft(r)
  <2>0. DraftRefusal(ask[r]) \in {400, 413, 422} /\ q[r].pc = "idle"
    BY <1>2 DEF RefuseDraft, DraftRefusal
  <2>1. Noted(r)
    BY <1>2, <2>0, QuietNotes, InsertNotes, ResultNames DEF RefuseDraft
  <2>2. Answer(r, DraftRefusal(ask[r]))
    BY <1>2 DEF RefuseDraft
  <2> QED BY <1>0, <2>0, <2>1, <2>2, RefusedAtOnce
<1>3. CASE StartDraft(r)
  <2>0. ask[r].op = "draft" /\ q[r].pc = "idle" /\ Noted(r)
    BY <1>3, QuietNotes DEF StartDraft
  <2>1. CASE Answer(r, 404)
    BY <1>0, <2>0, <2>1, RefusedAtOnce
  <2>2. CASE p \in Paths /\ q' = [q EXCEPT ![r] = Into(r, [@ EXCEPT !.pc = "name",
                                                    !.br = draft_branch_name(ask[r])])]
    <3> DEFINE y == [q[r] EXCEPT !.pc = "name", !.br = draft_branch_name(ask[r])]
    <3>1. IsRequest(q[r]) /\ q[r].reply = None /\ q' = [q EXCEPT ![r] = Into(r, y)]
      BY <2>0, <2>2, NoReplyYet DEF RequestsOK, Shape
    <3>2. /\ IsRequest(y) /\ y.pc = "name" /\ y.reply = None /\ y.before = q[r].before
          /\ y.br = draft_branch_name(ask[r])
      BY <3>1 DEF IsRequest, Fields
    <3> HIDE DEF y
    <3>3. Moved(r) /\ q'[r].pc = "name" /\ q'[r].reply = None /\ q'[r].br = draft_branch_name(ask[r])
      BY <2>0, <3>1, <3>2, IntoMoves
    <3>4. draft_branch_name(ask[r]) \in DraftNames
      BY <1>a, <2>0 DEF draft_branch_name, DraftNames, PromptTypes, Asked
    <3>5. PromptRequest(r)' /\ Steady(r)
      BY <1>a, <2>0, <2>2, <3>3, <3>4, RequestAssumption
         DEF PromptRequest, DraftOK, SandboxOK, PromoteOK, CommitOK, NamedOK, Steady, Settled
    <3> QED BY <1>0, <2>0, <3>3, <3>5, EditorSame DEF EditorStepOK
  <2> QED BY <1>3, <2>1, <2>2 DEF StartDraft, HasFile
<1>4. CASE CheckBranch(r)
  <2>0. ask[r].op = "draft" /\ q[r].pc = "name" /\ Noted(r) /\ b \in DraftNames /\ p \in Paths
    BY <1>4, <1>a, QuietNotes DEF CheckBranch, DraftOK
  <2>1. CASE b \notin DOMAIN heads /\ Goto(r, "create")
    <3>1. Moved(r) /\ q'[r].pc = "create" /\ q'[r].reply = None /\ q'[r].br = b
      BY <2>0, <2>1, GotoMoves
    <3>2. FreshName(r)'
      <4> SUFFICES ASSUME NEW t \in q[r].before, ask[t].op \in {"draft", "sandbox"}
                   PROVE  q'[t].br # b
        BY <2>0, <3>1 DEF FreshName, Moved
      <4>1. t \in Reqs /\ q[t].pc = "done" /\ q'[t] = q[t]
        BY <2>0, <3>1 DEF RequestsOK, BeforeIsDone, Moved
      <4>2. q[t].br = None \/ q[t].br \in DOMAIN heads
        BY <4>1 DEF PromptsOK, PromptRequest, NamedOK
      <4> QED BY <1>a, <2>0, <2>1, <4>1, <4>2
    <3>3. PromptRequest(r)' /\ Steady(r)
      BY <1>a, <2>0, <3>1, <3>2, RequestAssumption
         DEF PromptRequest, DraftOK, SandboxOK, PromoteOK, CommitOK, NamedOK, Steady, Settled
    <3> QED BY <1>0, <2>0, <3>1, <3>3, EditorSame DEF EditorStepOK
  <2>2. CASE q' = [q EXCEPT ![r].br[3] = 1]
    <3> DEFINE c == [b EXCEPT ![3] = 1]
               y == [q[r] EXCEPT !.br = c]
    <3>0. c \in DraftNames
      BY <2>0 DEF DraftNames
    <3>1. IsRequest(q[r]) /\ q[r].reply = None /\ q' = [q EXCEPT ![r] = y]
      BY <2>0, <2>2, NoReplyYet DEF RequestsOK, Shape
    <3> HIDE DEF c
    <3>2. /\ IsRequest(y) /\ y.pc = "name" /\ y.reply = None /\ y.before = q[r].before
          /\ y.br = c
      BY <2>0, <3>1 DEF IsRequest, Fields
    <3> HIDE DEF y
    <3>3. Moved(r) /\ q'[r] = y
      BY <2>0, <3>1, <3>2, SetMoves
    <3>4. q'[r].pc = "name" /\ q'[r].reply = None /\ q'[r].br = c
      BY <3>2, <3>3
    <3>5. PromptRequest(r)' /\ Steady(r)
      BY <1>a, <2>0, <3>0, <3>4, RequestAssumption
         DEF PromptRequest, DraftOK, SandboxOK, PromoteOK, CommitOK, NamedOK, Steady, Settled
    <3> QED BY <1>0, <2>0, <3>3, <3>5, EditorSame DEF EditorStepOK
  <2>3. CASE b \in DOMAIN heads /\ Answer(r, 409)
    <3>1. Moved(r) /\ q'[r].pc = "done" /\ q'[r].reply = 409 /\ q'[r].br = b
      BY <2>0, <2>3, AnswerMoves
    <3>2. PromptRequest(r)' /\ Steady(r)
      BY <1>0, <2>3, <3>1, PromptRefused
    <3> QED BY <1>0, <2>0, <3>1, <3>2, EditorSame DEF EditorStepOK
  <2> QED BY <1>4, <2>1, <2>2, <2>3 DEF CheckBranch, branch_exists
<1>5. CASE BuildCommit(r)
  <2>0. /\ ask[r].op = "draft" /\ q[r].pc = "build" /\ b \in DraftNames /\ p \in Paths
        /\ b \in DOMAIN heads /\ FreshName(r)
    BY <1>5, <1>a DEF BuildCommit, DraftOK, Settled
  <2>a. Noted(r)
    BY <1>5 DEF BuildCommit, Noted, Works, Fault, RequestsOK
  <2>1. CASE Read(r, "set", commit_tree(b))
    <3>1. /\ Moved(r) /\ q'[r].pc = "set" /\ q'[r].reply = None /\ q'[r].br = b
          /\ q'[r].old = commit_tree(b)
      BY <2>0, <2>1, ReadMoves
    <3>2. FreshName(r)'
      <4>1. q'[r].before = q[r].before /\ \A t \in q[r].before : q'[t] = q[t]
        BY <2>0, <3>1 DEF RequestsOK, BeforeIsDone, Moved
      <4> QED BY <2>0, <3>1, <4>1 DEF FreshName
    <3>3. Steady(r)
      BY <2>0, <3>1 DEF Steady
    <3>4. IsTree(q'[r].old)
      BY <3>1 DEF IsTree, commit_tree
    <3>5. Clashed(b) => Clashed(b)'
      BY <3>1, <3>3, ClashesStay DEF Clashed
    <3>6. Clashed(b)' \/ q'[r].old[p] = ask[r].body
      BY <1>a, <2>0, <3>1, <3>5 DEF DraftOK, commit_tree
    <3>7. PromptRequest(r)'
      BY <1>0, <1>a, <2>0, <3>1, <3>2, <3>4, <3>6, RequestAssumption
         DEF PromptRequest, DraftOK, SandboxOK, PromoteOK, CommitOK, NamedOK, Settled, IsTree
    <3> QED BY <1>0, <2>a, <3>1, <3>3, <3>7, EditorSame DEF EditorStepOK
  <2>2. CASE Answer(r, 500)
    <3>1. Moved(r) /\ q'[r].pc = "done" /\ q'[r].reply = 500 /\ q'[r].br = b
      BY <2>0, <2>2, AnswerMoves
    <3>2. PromptRequest(r)' /\ Steady(r)
      BY <1>0, <2>0, <3>1, PromptRefused
    <3> QED BY <1>0, <2>a, <3>1, <3>2, EditorSame DEF EditorStepOK
  <2> QED BY <1>5, <2>1, <2>2 DEF BuildCommit
<1> QED BY <1>1, <1>2, <1>3, <1>4, <1>5

\* The routes that only read, and those that keep nothing.
LEMMA EditorReads ==
  ASSUME RequestsOK, PromptsOK, NEW r \in Reqs, ask' = ask,
         SandboxInline(r) \/ ListPrompts(r) \/ ReadBody(r) \/ ReadSha(r)
  PROVE  EditorStepOK(r)
<1> USE DEF At, Starts
<1>0. /\ UNCHANGED <<heads, pending, runs, prs, versions, now>> /\ q[r].pc # "done"
      /\ ask[r].op \in {"try", "list", "read"} /\ ask[r].op \in PromptOps
  BY DEF SandboxInline, ListPrompts, ReadBody, ReadSha, promptVars, PromptOps
<1>1. PromptRequest(r)' /\ Steady(r)
  BY <1>0, NoPromptToKeep
<1>2. Noted(r)
  BY DEF SandboxInline, ListPrompts, ReadBody, ReadSha, Noted, Quiet, Works, Fault, RequestsOK
<1>3. Moved(r)
  <2>1. CASE SandboxInline(r) \/ ListPrompts(r)
    BY <1>0, <2>1, AnswerMoves DEF SandboxInline, ListPrompts
  <2>2. CASE ReadBody(r)
    BY <1>0, <2>2, AnswerMoves, ReadMoves DEF ReadBody
  <2>3. CASE ReadSha(r)
    <3> DEFINE o == [q[r].old EXCEPT !.tip = heads[Main].tip]
               y == [q[r] EXCEPT !.pc = "done", !.reply = 200, !.old = o]
    <3>1. IsRequest(q[r]) /\ q[r].pc = "sha"
      BY <1>0, <2>3, NoReplyYet DEF ReadSha
    <3>2. q' = [q EXCEPT ![r] = y]
      BY <2>3, <3>1 DEF ReadSha, IsRequest, Fields
    <3> HIDE DEF o
    <3>3. IsRequest(y) /\ y.pc = "done" /\ y.reply = 200 /\ y.before = q[r].before
      BY <3>1 DEF IsRequest, Fields
    <3> HIDE DEF y
    <3>4. (y.pc = "done" <=> y.reply # None) /\ y.pc # "idle"
      BY <3>3, RequestAssumption
    <3> QED BY <3>1, <3>2, <3>3, <3>4, SetMoves
  <2> QED BY <2>1, <2>2, <2>3
<1> QED BY <1>0, <1>1, <1>2, <1>3, EditorSame DEF EditorStepOK

\* The sandbox reads the branch, or takes the body of the request.
LEMMA SandboxStarts ==
  ASSUME RequestsOK, PromptsOK, NEW r \in Reqs, ask' = ask, StartSandbox(r)
  PROVE  EditorStepOK(r)
<1>0. /\ UNCHANGED promptVars /\ UNCHANGED <<heads, pending, runs, prs, versions, now>>
      /\ q[r].pc = "idle" /\ ask[r].op = "sandbox" /\ ask[r].op \in PromptOps /\ Noted(r)
  BY QuietNotes DEF StartSandbox, promptVars, PromptOps, Starts
<1>1. PICK b \in DOMAIN heads \cup {Missing} :
          IF SandboxRefusal(ask[r], b) # 0
          THEN Answer(r, SandboxRefusal(ask[r], b))
          ELSE q' = [q EXCEPT ![r] = Into(r, [@ EXCEPT
                        !.pc = "llm",
                        !.br = IF ask[r].mode = "branch" THEN b ELSE None,
                        !.old = SandboxBody(ask[r], b)])]
  BY DEF StartSandbox
<1>2. CASE SandboxRefusal(ask[r], b) # 0
  <2>1. SandboxRefusal(ask[r], b) \in {400, 404, 422}
    BY <1>2 DEF SandboxRefusal
  <2> QED BY <1>0, <1>1, <1>2, <2>1, RefusedAtOnce
<1>3. CASE SandboxRefusal(ask[r], b) = 0
  <2> DEFINE c == IF ask[r].mode = "branch" THEN b ELSE None
             o == SandboxBody(ask[r], b)
             y == [q[r] EXCEPT !.pc = "llm", !.br = c, !.old = o]
  <2>0. c # None => c \in DOMAIN heads /\ c # Main /\ o = heads[c].tree[ask[r].path]
    BY <1>3 DEF SandboxRefusal, SandboxBody, IsDraft, branch_exists, read_file
  <2>1. IsRequest(q[r]) /\ q[r].reply = None /\ q' = [q EXCEPT ![r] = Into(r, y)]
    BY <1>0, <1>1, <1>3, NoReplyYet DEF RequestsOK, Shape
  <2> HIDE DEF c, o
  <2>2. /\ IsRequest(y) /\ y.pc = "llm" /\ y.reply = None /\ y.before = q[r].before
        /\ y.br = c /\ y.old = o
    BY <2>1 DEF IsRequest, Fields
  <2> HIDE DEF y
  <2>3. Moved(r) /\ q'[r].pc = "llm" /\ q'[r].reply = None /\ q'[r].br = c /\ q'[r].old = o
    BY <1>0, <2>1, <2>2, IntoMoves
  <2>4. PromptRequest(r)' /\ Steady(r)
    BY <1>0, <2>0, <2>3, RequestAssumption
       DEF PromptRequest, DraftOK, SandboxOK, PromoteOK, CommitOK, NamedOK, Steady, Main
  <2> QED BY <1>0, <2>3, <2>4, EditorSame DEF EditorStepOK
<1> QED BY <1>2, <1>3

\* A branch is refused or accepted for a pull request.
LEMMA BranchChosen ==
  ASSUME RequestsOK, PromptsOK, NEW r \in Reqs, ask' = ask, UNCHANGED promptVars,
         q[r].pc = "idle", ask[r].op \in {"pr", "promote"},
         NEW b \in DOMAIN heads \cup {Missing}, NEW run,
         ask[r].op = "promote" => \E y \in runs : y.id = run,
         RefuseBranch(r, b) \/ AcceptBranch(r, b, run)
  PROVE  EditorStepOK(r)
<1>0. UNCHANGED <<heads, pending, runs, prs, versions, now>> /\ ask[r].op \in PromptOps
  BY DEF promptVars, PromptOps
<1>1. CASE RefuseBranch(r, b)
  <2>1. BranchRefusal(ask[r], b) \in {400, 404, 409}
    BY <1>1 DEF RefuseBranch, BranchRefusal
  <2>2. Noted(r)
    BY <1>1, QuietNotes, InsertNotes, ResultNames DEF RefuseBranch
  <2> QED BY <1>0, <1>1, <2>1, <2>2, RefusedAtOnce DEF RefuseBranch
<1>2. CASE AcceptBranch(r, b, run)
  <2> DEFINE y == [q[r] EXCEPT !.pc = "open", !.br = b, !.old = run]
  <2>0. b \in DOMAIN heads /\ Noted(r)
    BY <1>2, QuietNotes DEF AcceptBranch, BranchRefusal, branch_exists
  <2>1. IsRequest(q[r]) /\ q[r].reply = None /\ q' = [q EXCEPT ![r] = Into(r, y)]
    BY <1>2, NoReplyYet DEF AcceptBranch, RequestsOK, Shape
  <2>2. /\ IsRequest(y) /\ y.pc = "open" /\ y.reply = None /\ y.before = q[r].before
        /\ y.br = b /\ y.old = run
    BY <2>1 DEF IsRequest, Fields
  <2> HIDE DEF y
  <2>3. Moved(r) /\ q'[r].pc = "open" /\ q'[r].reply = None /\ q'[r].br = b /\ q'[r].old = run
    BY <2>1, <2>2, IntoMoves
  <2>4. PromptRequest(r)' /\ Steady(r)
    BY <1>0, <2>0, <2>3
       DEF PromptRequest, DraftOK, SandboxOK, PromoteOK, CommitOK, NamedOK, Steady
  <2> QED BY <1>0, <2>0, <2>3, <2>4, EditorSame DEF EditorStepOK
<1> QED BY <1>1, <1>2

\* The routes that open a pull request, up to the call.
LEMMA PullRequestStarts ==
  ASSUME RequestsOK, PromptsOK, NEW r \in Reqs, ask' = ask, StartPr(r) \/ StartPromote(r)
  PROVE  EditorStepOK(r)
<1>1. CASE StartPr(r)
  BY <1>1, BranchChosen DEF StartPr, Starts
<1>2. CASE StartPromote(r)
  <2>0. q[r].pc = "idle" /\ ask[r].op = "promote" /\ UNCHANGED promptVars /\ ask[r].op \in PromptOps
    BY <1>2 DEF StartPromote, Starts, PromptOps
  <2>1. CASE Fault /\ Answer(r, 502) /\ UNCHANGED audit
    <3>1. Noted(r)
      BY <2>1 DEF Noted, Fault, RequestsOK
    <3> QED BY <2>0, <2>1, <3>1, RefusedAtOnce
  <2>2. CASE Answer(r, 404) /\ Quiet
    BY <2>0, <2>2, QuietNotes, RefusedAtOnce
  <2>3. ASSUME NEW id \in PromotableRuns, NEW b \in DOMAIN heads \cup {Missing},
               RefuseBranch(r, b) \/ AcceptBranch(r, b, id)
        PROVE  EditorStepOK(r)
    <3>1. \E y \in runs : y.id = id
      BY <2>3 DEF PromotableRuns
    <3> QED BY <2>0, <2>3, <3>1, BranchChosen
  <2> QED BY <1>2, <2>1, <2>2, <2>3 DEF StartPromote
<1> QED BY <1>1, <1>2

\* The commit route compares the body with main first.
LEMMA CommitStarts ==
  ASSUME RequestsOK, Asked, PromptsOK, NEW r \in Reqs, ask' = ask, StartCommit(r)
  PROVE  EditorStepOK(r)
<1>0. /\ UNCHANGED promptVars /\ UNCHANGED <<heads, pending, runs, prs, versions, now>>
      /\ q[r].pc = "idle" /\ ask[r].op = "commit" /\ ask[r].op \in PromptOps /\ Noted(r)
  BY QuietNotes DEF StartCommit, promptVars, PromptOps, Starts
<1>1. CASE CommitRefusal(ask[r]) # 0
  <2>1. CommitRefusal(ask[r]) \in {400, 409, 413}
    BY <1>1 DEF CommitRefusal
  <2> QED BY <1>0, <1>1, <2>1, RefusedAtOnce DEF StartCommit
<1>2. CASE CommitRefusal(ask[r]) = 0
  <2>1. Moved(r) /\ q'[r].pc = "commit" /\ q'[r].reply = None
    BY <1>0, <1>2, GotoMoves DEF StartCommit
  <2>2. ask[r].path \in Paths
    BY <1>0, <1>2 DEF CommitRefusal, safe_path, Asked
  <2>3. CommitBranch(r) \notin DOMAIN heads /\ CommitBranch(r)' = CommitBranch(r)
    BY <1>0 DEF PromptsOK, PromptRequest, CommitOK, CommitBranch
  <2>4. PromptRequest(r)' /\ Steady(r)
    BY <1>0, <2>1, <2>2, <2>3, RequestAssumption
       DEF PromptRequest, DraftOK, SandboxOK, PromoteOK, CommitOK, NamedOK, Steady
  <2> QED BY <1>0, <2>1, <2>4, EditorSame DEF EditorStepOK
<1> QED BY <1>1, <1>2

\* A name nobody answered had stays such while its draft goes on.
LEMMA NameStaysFresh ==
  ASSUME RequestsOK, NEW r \in Reqs, Moved(r), ask' = ask, q[r].pc # "idle",
         q'[r].br = q[r].br, FreshName(r)
  PROVE  FreshName(r)'
<1>1. q'[r].before = q[r].before /\ \A t \in q[r].before : q'[t] = q[t]
  BY DEF RequestsOK, BeforeIsDone, Moved
<1> QED BY <1>1 DEF FreshName

\* The branches of drafts, of commits and main have different names.
LEMMA DraftNamesApart ==
  /\ \A b \in DraftNames : b # None /\ b # Main
  /\ \A b \in DraftNames, c \in Reqs : CommitBranch(c) # b
  /\ \A c \in Reqs : CommitBranch(c) # Main /\ CommitBranch(c) # None
  /\ \A c, d \in Reqs : CommitBranch(c) = CommitBranch(d) => c = d
  /\ DraftNames' = DraftNames /\ Main' = Main
<1>1. \A c \in Reqs : CommitBranch(c) \in Branches
  BY DEF CommitBranch, Branches
<1> QED BY <1>1, PromptAssumption DEF DraftNames, Main, CommitBranch, Branches

\* The branch is created from main, or found to be somebody else's.
LEMMA CreateBranchStep ==
  ASSUME RequestsOK, PromptsOK, NEW r \in Reqs, ask' = ask, CreateBranch(r)
  PROVE  EditorStepOK(r)
<1> DEFINE b == q[r].br
           p == ask[r].path
<1>0. /\ ask[r].op = "draft" /\ q[r].pc = "create" /\ Noted(r) /\ ask[r].op \in PromptOps
      /\ UNCHANGED <<pending, runs, prs, versions, now>>
  BY QuietNotes DEF CreateBranch, At, PromptOps
<1>a. b \in DraftNames /\ p \in Paths /\ FreshName(r) /\ PromptTypes
  BY <1>0 DEF PromptsOK, PromptRequest, DraftOK, Settled
<1>1. CASE ~ create_head_ok(b) /\ UNCHANGED heads /\ Answer(r, 500)
  <2>1. Moved(r) /\ q'[r].pc = "done" /\ q'[r].reply = 500 /\ q'[r].br = b
    BY <1>0, <1>1, AnswerMoves
  <2>2. b \in DOMAIN heads'
    BY <1>1 DEF create_head_ok, branch_exists
  <2>3. PromptRequest(r)' /\ Steady(r)
    BY <2>1, <2>2, PromptRefused
  <2> QED BY <1>0, <1>1, <2>1, <2>3, EditorSame DEF EditorStepOK
<1>2. CASE create_head(b) /\ Goto(r, "write")
  <2>1. Moved(r) /\ q'[r].pc = "write" /\ q'[r].reply = None /\ q'[r].br = b
    BY <1>0, <1>2, GotoMoves
  <2> DEFINE h == [tip |-> heads[Main].tip, base |-> heads[Main].tree, tree |-> heads[Main].tree]
  <2>2. IsHead(h) /\ IsTree(h.tree)
    BY <1>a DEF IsHead, PromptTypes
  <2>3. heads' = [e \in DOMAIN heads \cup {b} |-> IF e = b THEN h ELSE heads[e]]
    BY <1>2 DEF create_head, With
  <2> HIDE DEF h
  <2>4. /\ DOMAIN heads' = DOMAIN heads \cup {b} /\ heads'[b] = h
        /\ \A e \in DOMAIN heads \ {b} : heads'[e] = heads[e]
        /\ heads' = [e \in DOMAIN heads' |-> heads'[e]]
    BY <2>3
  <2>5. PromptTypes'
    <3>1. \A e \in DOMAIN heads' : IsHead(heads'[e]) /\ IsTree(heads'[e].tree)
      BY <1>a, <2>2, <2>4 DEF PromptTypes
    <3> QED BY <1>0, <1>a, <2>4, <3>1, DraftNamesApart DEF PromptTypes, IsHead, IsTree
  <2>6. Grown(WrittenBy(r)) /\ Steady(r)
    BY <1>0, <2>1, <2>4 DEF Grown, WrittenBy, Settled, Steady
  <2>7. \A c \in Reqs \ {r} : CommitBranch(c) \in DOMAIN heads' => CommitBranch(c) \in DOMAIN heads
    BY <1>a, <2>4, DraftNamesApart
  <2>8. PromptRequest(r)'
    BY <1>0, <1>a, <2>1, <2>4, NameStaysFresh, DraftNamesApart, RequestAssumption
       DEF PromptRequest, DraftOK, SandboxOK, PromoteOK, CommitOK, NamedOK, Settled
  <2>9. PromptsOK'
    BY <1>0, <2>1, <2>5, <2>6, <2>7, <2>8, EditorOthers DEF PromptsOK
  <2> QED BY <1>0, <2>1, <2>9 DEF EditorStepOK
<1> QED BY <1>1, <1>2 DEF CreateBranch

\* The body waits in the map under its branch and path.
LEMMA WriteDraftStep ==
  ASSUME RequestsOK, PromptsOK, NEW r \in Reqs, ask' = ask, WriteDraft(r)
  PROVE  EditorStepOK(r)
<1> DEFINE b == q[r].br
           p == ask[r].path
           k == <<b, p>>
<1>0. /\ ask[r].op = "draft" /\ q[r].pc = "write" /\ Noted(r) /\ ask[r].op \in PromptOps
      /\ UNCHANGED <<heads, runs, prs, versions, now>> /\ Goto(r, "build")
  BY QuietNotes DEF WriteDraft, At, PromptOps
<1>a. b \in DraftNames /\ p \in Paths /\ FreshName(r) /\ PromptTypes /\ b \in DOMAIN heads
  BY <1>0 DEF PromptsOK, PromptRequest, DraftOK, Settled
<1>1. Moved(r) /\ q'[r].pc = "build" /\ q'[r].reply = None /\ q'[r].br = b
  BY <1>0, GotoMoves
<1>2. pending' = [e \in DOMAIN pending \cup {k} |-> IF e = k THEN ask[r].body ELSE pending[e]]
  BY DEF WriteDraft, write_file, With
<1>3. /\ DOMAIN pending' = DOMAIN pending \cup {k} /\ pending'[k] = ask[r].body
      /\ \A e \in DOMAIN pending : e[1] = b \/ pending'[e] = pending[e]
      /\ pending' = [e \in DOMAIN pending' |-> pending'[e]]
  BY <1>2
<1>4. PromptTypes'
  <2>1. \A e \in DOMAIN pending' : e[1] \in DOMAIN heads /\ e[2] \in Paths /\ e = <<e[1], e[2]>>
    BY <1>a, <1>3 DEF PromptTypes
  <2> QED BY <1>0, <1>a, <1>3, <2>1, DraftNamesApart DEF PromptTypes, IsHead, IsTree
<1>5. Grown(WrittenBy(r)) /\ Steady(r)
  BY <1>0, <1>1, <1>3 DEF Grown, WrittenBy, Settled, Steady
<1>6. PromptRequest(r)'
  BY <1>0, <1>a, <1>1, <1>3, NameStaysFresh, DraftNamesApart, RequestAssumption
     DEF PromptRequest, DraftOK, SandboxOK, PromoteOK, CommitOK, NamedOK, Settled
<1>7. PromptsOK'
  BY <1>0, <1>1, <1>4, <1>5, <1>6, EditorOthers DEF PromptsOK
<1> QED BY <1>0, <1>1, <1>7 DEF EditorStepOK

\* The branch gets the commit and its pending writes go.
LEMMA SetHeadStep ==
  ASSUME RequestsOK, PromptsOK, NEW r \in Reqs, ask' = ask, SetHead(r)
  PROVE  EditorStepOK(r)
<1> DEFINE b == q[r].br
           p == ask[r].path
           o == q[r].old
<1>0. /\ ask[r].op = "draft" /\ q[r].pc = "set" /\ ask[r].op \in PromptOps
      /\ UNCHANGED <<runs, prs, versions, now>> /\ Answer(r, 201)
  BY DEF SetHead, At, PromptOps
<1>b. Noted(r)
  BY InsertNotes, ResultNames DEF SetHead
<1>a. /\ b \in DraftNames /\ p \in Paths /\ FreshName(r) /\ PromptTypes /\ b \in DOMAIN heads
      /\ IsTree(o) /\ (Clashed(b) \/ o[p] = ask[r].body)
  BY <1>0 DEF PromptsOK, PromptRequest, DraftOK, Settled
<1>1. Moved(r) /\ q'[r].pc = "done" /\ q'[r].reply = 201 /\ q'[r].br = b
  BY <1>0, AnswerMoves
<1> DEFINE h == [heads[b] EXCEPT !.tip = <<"draft", r>>, !.tree = o]
<1>2. IsHead(h) /\ h.tree = o
  BY <1>a DEF IsHead, PromptTypes
<1>3. heads' = [heads EXCEPT ![b] = h] /\ pending' = [k \in DOMAIN pending \ PendingOf(b) |-> pending[k]]
  BY <1>a DEF SetHead, set_commit, PromptTypes
<1> HIDE DEF h
<1>4. /\ DOMAIN heads' = DOMAIN heads /\ heads'[b] = h
      /\ \A e \in DOMAIN heads \ {b} : heads'[e] = heads[e]
      /\ heads' = [e \in DOMAIN heads' |-> heads'[e]]
  BY <1>a, <1>3 DEF PromptTypes
<1>5. /\ DOMAIN pending' = DOMAIN pending \ PendingOf(b)
      /\ \A k \in DOMAIN pending : k[1] = b \/ (k \in DOMAIN pending' /\ pending'[k] = pending[k])
      /\ pending' = [k \in DOMAIN pending' |-> pending'[k]]
  BY <1>3 DEF PendingOf
<1>6. PromptTypes'
  <2>1. \A e \in DOMAIN heads' : IsHead(heads'[e]) /\ IsTree(heads'[e].tree)
    BY <1>a, <1>2, <1>4 DEF PromptTypes
  <2>2. \A k \in DOMAIN pending' : k[1] \in DOMAIN heads' /\ k[2] \in Paths /\ k = <<k[1], k[2]>>
    BY <1>a, <1>4, <1>5 DEF PromptTypes
  <2> QED BY <1>0, <1>a, <1>4, <1>5, <2>1, <2>2, DraftNamesApart DEF PromptTypes, IsHead, IsTree
<1>7. Grown(WrittenBy(r)) /\ Steady(r)
  BY <1>0, <1>1, <1>4, <1>5 DEF Grown, WrittenBy, Settled, Steady
<1>8. PromptRequest(r)'
  <2>1. Clashed(b) => Clashed(b)'
    BY <1>1, <1>7, ClashesStay DEF Clashed
  <2>2. Clashed(b)' \/ heads'[b].tree[p] = ask[r].body
    BY <1>a, <1>2, <1>4, <2>1
  <2> QED BY <1>0, <1>a, <1>1, <1>4, <2>2, NameStaysFresh, DraftNamesApart
          DEF PromptRequest, DraftOK, SandboxOK, PromoteOK, CommitOK, NamedOK, Settled
<1>9. PromptsOK'
  BY <1>0, <1>1, <1>4, <1>6, <1>7, <1>8, EditorOthers DEF PromptsOK
<1> QED BY <1>0, <1>b, <1>1, <1>9 DEF EditorStepOK

\* The run is recorded with what the sandbox was given.
LEMMA RunSandboxStep ==
  ASSUME RequestsOK, PromptsOK, NEW r \in Reqs, ask' = ask, RunSandbox(r)
  PROVE  EditorStepOK(r)
<1> DEFINE b == q[r].br
<1>0. /\ ask[r].op = "sandbox" /\ q[r].pc = "llm" /\ ask[r].op \in PromptOps
      /\ UNCHANGED <<heads, pending, prs, versions, now>>
  BY DEF RunSandbox, At, PromptOps
<1>a. /\ SandboxOK(r) /\ PromptTypes /\ Steady(r) /\ Main' = Main
      /\ b # None => b \in DOMAIN heads /\ b # Main
  BY <1>0 DEF PromptsOK, PromptRequest, SandboxOK, Steady, Main
<1>1. CASE /\ Fault /\ UNCHANGED runs /\ (Answer(r, 500) \/ Answer(r, NoEffect))
           /\ \/ UNCHANGED audit
              \/ audit' = audit \cup {AuditRow(r, "prompt_sandbox_run_recorded", "error", None, None)}
  <2>1. Moved(r) /\ q'[r].pc = "done" /\ q'[r].reply \in {500, 299} /\ q'[r].br = b
    BY <1>0, <1>1, AnswerMoves DEF NoEffect
  <2>2. Noted(r)
    BY <1>1, ResultNames DEF Noted, Fault, AuditRow, RequestsOK
  <2>3. PromptRequest(r)'
    BY <1>0, <1>a, <2>1, PromptRefused
  <2> QED BY <1>0, <1>1, <1>a, <2>1, <2>2, <2>3, EditorSame DEF EditorStepOK
<1>2. CASE /\ runs' = runs \cup {record_sandbox_run(r)} /\ Answer(r, 200)
           /\ insert_audit(AuditRow(r, "prompt_sandbox_run_recorded", "ok", None, r))
  <2>1. Moved(r) /\ q'[r].pc = "done" /\ q'[r].reply = 200 /\ q'[r].br = b /\ q'[r].old = q[r].old
    BY <1>0, <1>2, AnswerMoves
  <2>2. Noted(r)
    BY <1>2, InsertNotes, ResultNames
  <2>3. Grown(WrittenBy(r)) /\ PromptTypes'
    BY <1>0, <1>2, <1>a DEF Grown, PromptTypes, IsHead, IsTree
  <2>5. /\ Clashed(b) => Clashed(b)'
        /\ Drafting(b, r) => Drafting(b, r)'
    BY <1>a, <2>1, ClashesStay DEF Clashed, Drafting
  <2>6. PromptRequest(r)'
    BY <1>0, <1>a, <2>1, <2>5
       DEF PromptRequest, DraftOK, SandboxOK, PromoteOK, CommitOK, NamedOK
  <2>7. \A y \in runs' : RunRow(y)'
    <3>1. \A y \in runs : RunRow(y)'
      BY <1>0, <1>a, <2>1, <2>3, EditorOthers
    <3> SUFFICES ASSUME NEW y, y = record_sandbox_run(r) PROVE RunRow(y)'
      BY <1>2, <3>1
    <3> QED BY <1>0, <2>1 DEF RunRow, record_sandbox_run
  <2>8. PromptsOK'
    BY <1>0, <1>a, <2>1, <2>3, <2>6, <2>7, EditorOthers DEF PromptsOK
  <2> QED BY <1>0, <2>1, <2>2, <2>8 DEF EditorStepOK
<1> QED BY <1>1, <1>2 DEF RunSandbox

\* A pull request is opened from what the branch holds at that moment.
LEMMA OpenPrStep ==
  ASSUME RequestsOK, PromptsOK, NEW r \in Reqs, ask' = ask, OpenPr(r)
  PROVE  EditorStepOK(r)
<1> DEFINE b == q[r].br
           z == PullRequest(r, b)
<1>0. /\ ask[r].op \in {"pr", "promote"} /\ q[r].pc = "open" /\ ask[r].op \in PromptOps
      /\ UNCHANGED <<heads, pending, runs, versions, now>>
  BY DEF OpenPr, PromptOps
<1>a. /\ PromptTypes /\ Steady(r) /\ b \in DOMAIN heads /\ b # None
      /\ ask[r].op = "promote" => \E y \in runs : y.id = q[r].old
  BY <1>0 DEF PromptsOK, PromptRequest, PromoteOK, Steady, PromptTypes
<1>b. PICK action : open_pr(r, action)
  BY DEF OpenPr
<1>1. CASE /\ Fault /\ Answer(r, 409) /\ UNCHANGED prs
           /\ audit' = audit \cup {AuditRow(r, "prompt_pr_conflict", "error", None, b)}
  <2>1. Moved(r) /\ q'[r].pc = "done" /\ q'[r].reply = 409 /\ q'[r].br = b
    BY <1>0, <1>1, AnswerMoves
  <2>2. Noted(r)
    BY <1>1, ResultNames DEF Noted, Fault, AuditRow, RequestsOK
  <2> QED BY <1>0, <1>1, <1>a, <2>1, <2>2, PromptRefused, EditorSame DEF EditorStepOK
<1>3. CASE Fails(r, 502) /\ UNCHANGED prs
  <2>1. Moved(r) /\ q'[r].pc = "done" /\ q'[r].reply = 502 /\ q'[r].br = b /\ Noted(r)
    BY <1>0, <1>3, FailsMoves
  <2> QED BY <1>0, <1>3, <1>a, <2>1, PromptRefused, EditorSame DEF EditorStepOK
<1>2. CASE /\ prs' = prs \cup {z} /\ Answer(r, 201)
           /\ insert_audit(AuditRow(r, action, "ok", None, b))
  <2>1. Moved(r) /\ q'[r].pc = "done" /\ q'[r].reply = 201
    BY <1>0, <1>2, AnswerMoves
  <2>2. Noted(r)
    BY <1>2, InsertNotes, ResultNames
  <2>3. Grown(WrittenBy(r)) /\ PromptTypes'
    BY <1>0, <1>2, <1>a DEF Grown, PromptTypes, IsHead, IsTree, Main
  <2>4. PromptRequest(r)'
    BY <1>0, <2>1 DEF PromptRequest, DraftOK, SandboxOK, PromoteOK, CommitOK, NamedOK
  <2>5. /\ IsPr(z) /\ z.by = r /\ z.src = b /\ z.run = q[r].old /\ z.path = ask[r].path
        /\ z.body = heads[b].tree[ask[r].path]
    BY DEF IsPr, PullRequest, read_file
  <2>6. \A x \in prs' : PrRow(x)'
    <3>1. \A x \in prs : PrRow(x)'
      BY <1>0, <1>a, <2>1, <2>3, EditorOthers
    <3> SUFFICES ASSUME NEW x, x = z PROVE PrRow(x)'
      BY <1>2, <3>1
    <3>2. ASSUME ask[r].op = "promote"
          PROVE  /\ \E y \in runs : y.id = x.run
                 /\ (q'[x.run].br = x.src /\ ask[x.run].path = x.path) =>
                       q'[x.run].old = x.body \/ Clashed(x.src)' \/ Drafting(x.src, x.run)'
      <4>1. PICK y \in runs : y.id = x.run
        BY <1>a, <2>5, <3>2
      <4>2. x.run \in Reqs /\ ask[x.run].op = "sandbox" /\ q[x.run].reply = 200
        BY <4>1 DEF PromptsOK, RunRow
      <4>3. q'[x.run] = q[x.run]
        BY <2>1, <4>2, RepliedIsDone DEF Moved
      <4>4. SandboxOK(x.run)
        BY <4>2 DEF PromptsOK, PromptRequest
      <4>5. /\ Clashed(x.src) => Clashed(x.src)'
            /\ Drafting(x.src, x.run) => Drafting(x.src, x.run)'
        BY <1>a, <2>1, <4>2, ClashesStay
      <4>6. (q[x.run].br = x.src /\ ask[x.run].path = x.path) =>
               q[x.run].old = x.body \/ Clashed(x.src) \/ Drafting(x.src, x.run)
        BY <1>a, <2>5, <4>2, <4>4 DEF SandboxOK
      <4> QED BY <4>1, <4>3, <4>5, <4>6
    <3> QED BY <1>0, <1>a, <2>5, <3>2 DEF PrRow, IsPr
  <2>7. PromptsOK'
    BY <1>0, <1>a, <2>1, <2>3, <2>4, <2>6, EditorOthers DEF PromptsOK
  <2> QED BY <1>0, <2>1, <2>2, <2>7 DEF EditorStepOK
<1> QED BY <1>b, <1>1, <1>2, <1>3 DEF open_pr

\* The commit route: its branch, its pull request, its row.
LEMMA CommitStep ==
  ASSUME RequestsOK, PromptsOK, NEW r \in Reqs, ask' = ask,
         CommitPrompt(r) \/ CommitPr(r) \/ CommitVersion(r)
  PROVE  EditorStepOK(r)
<1> DEFINE b == CommitBranch(r)
           p == ask[r].path
<1>0. /\ ask[r].op = "commit" /\ q[r].pc \in {"commit", "pr", "version"} /\ ask[r].op \in PromptOps
      /\ UNCHANGED <<pending, runs, now>>
  BY DEF CommitPrompt, CommitPr, CommitVersion, At, PromptOps
<1>a. PromptTypes /\ Steady(r) /\ CommitOK(r) /\ CommitBranch(r)' = b
  BY <1>0 DEF PromptsOK, PromptRequest, Steady, CommitBranch
<1>b. Noted(r)
  <2>1. CASE CommitPrompt(r) \/ CommitPr(r)
    BY <2>1 DEF CommitPrompt, CommitPr, Noted, Works, Fault, RequestsOK
  <2>2. CASE CommitVersion(r)
    <3>1. CASE UNCHANGED audit /\ Fault
      BY <3>1 DEF Noted, Fault, RequestsOK
    <3>2. CASE insert_audit(AuditRow(r, "prompt_updated", "ok", None, ask[r].body))
      BY <3>2, InsertNotes, ResultNames
    <3>3. CASE Quiet
      BY <3>3, QuietNotes
    <3>4. CASE Fails(r, 502)
      BY <3>4, <1>0, FailsMoves
    <3> QED BY <2>2, <3>1, <3>2, <3>3, <3>4 DEF CommitVersion
  <2> QED BY <2>1, <2>2
<1>1. CASE (Answer(r, 502) \/ Answer(r, 409)) /\ UNCHANGED <<heads, prs, versions>>
  <2>1. Moved(r) /\ q'[r].pc = "done" /\ q'[r].reply \in {409, 502} /\ q'[r].br = q[r].br
    BY <1>0, <1>1, AnswerMoves
  <2> QED BY <1>0, <1>1, <1>a, <1>b, <2>1, PromptRefused, EditorSame DEF EditorStepOK
<1>2. CASE /\ q[r].pc = "commit" /\ UNCHANGED <<prs, versions>> /\ Goto(r, "pr")
           /\ heads' = With(heads, b,
                 [tip |-> <<"commit", r>>, base |-> heads[Main].tree,
                  tree |-> [heads[Main].tree EXCEPT ![p] = ask[r].body]])
  <2>1. Moved(r) /\ q'[r].pc = "pr" /\ q'[r].reply = None
    BY <1>2, GotoMoves
  <2>a. b \notin DOMAIN heads /\ p \in Paths
    BY <1>a, <1>0, <1>2 DEF CommitOK
  <2> DEFINE h == [tip |-> <<"commit", r>>, base |-> heads[Main].tree,
                   tree |-> [heads[Main].tree EXCEPT ![p] = ask[r].body]]
  <2>2. IsHead(h) /\ IsTree(h.tree) /\ h.tree[p] = ask[r].body
    BY <1>a, <2>a DEF IsHead, IsTree, PromptTypes
  <2>3. heads' = [e \in DOMAIN heads \cup {b} |-> IF e = b THEN h ELSE heads[e]]
    BY <1>2 DEF With
  <2> HIDE DEF h
  <2>4. /\ DOMAIN heads' = DOMAIN heads \cup {b} /\ heads'[b] = h
        /\ \A e \in DOMAIN heads : heads'[e] = heads[e]
        /\ heads' = [e \in DOMAIN heads' |-> heads'[e]]
    BY <2>3, <2>a
  <2>5. PromptTypes'
    <3>1. \A e \in DOMAIN heads' : IsHead(heads'[e]) /\ IsTree(heads'[e].tree)
      BY <1>a, <2>2, <2>4 DEF PromptTypes
    <3> QED BY <1>0, <1>a, <2>4, <3>1, DraftNamesApart DEF PromptTypes, IsHead, IsTree
  <2>6. Grown(WrittenBy(r))
    BY <1>0, <1>2, <2>4 DEF Grown
  <2>7. \A c \in Reqs \ {r} : CommitBranch(c) \in DOMAIN heads' => CommitBranch(c) \in DOMAIN heads
    BY <2>4, DraftNamesApart
  <2>8. PromptRequest(r)'
    BY <1>0, <1>a, <2>1, <2>2, <2>4, RequestAssumption
       DEF PromptRequest, DraftOK, SandboxOK, PromoteOK, CommitOK, NamedOK
  <2>9. PromptsOK'
    BY <1>0, <1>2, <1>a, <2>1, <2>5, <2>6, <2>7, <2>8, EditorOthers DEF PromptsOK
  <2> QED BY <1>0, <1>b, <2>1, <2>9 DEF EditorStepOK
<1>3. CASE /\ q[r].pc = "pr" /\ UNCHANGED <<heads, versions>> /\ Goto(r, "version")
           /\ prs' = prs \cup {PullRequest(r, b)}
  <2> DEFINE z == PullRequest(r, b)
  <2>1. Moved(r) /\ q'[r].pc = "version" /\ q'[r].reply = None
    BY <1>3, GotoMoves
  <2>2. b \in DOMAIN heads /\ heads[b].tree[p] = ask[r].body
    BY <1>a, <1>0, <1>3 DEF CommitOK
  <2>3. Grown(WrittenBy(r)) /\ PromptTypes'
    BY <1>0, <1>3, <1>a DEF Grown, PromptTypes, IsHead, IsTree, Main
  <2>4. IsPr(z) /\ z.by = r /\ z.src = b /\ z.path = p
    BY DEF IsPr, PullRequest
  <2>5. \A x \in prs' : PrRow(x)'
    <3>1. \A x \in prs : PrRow(x)'
      BY <1>0, <1>3, <1>a, <2>1, <2>3, EditorOthers
    <3> SUFFICES ASSUME NEW x, x = z PROVE PrRow(x)'
      BY <1>3, <3>1
    <3> QED BY <1>0, <1>3, <2>2, <2>4 DEF PrRow, IsPr
  <2>6. Proposed(r)'
    BY <1>3, <1>a, <2>4 DEF Proposed
  <2>7. PromptRequest(r)'
    BY <1>0, <1>3, <1>a, <2>1, <2>2, <2>6, RequestAssumption
       DEF PromptRequest, DraftOK, SandboxOK, PromoteOK, CommitOK, NamedOK
  <2>8. PromptsOK'
    BY <1>0, <1>3, <1>a, <2>1, <2>3, <2>5, <2>7, EditorOthers DEF PromptsOK
  <2> QED BY <1>0, <1>b, <2>1, <2>8 DEF EditorStepOK
<1>4. CASE /\ q[r].pc = "version" /\ UNCHANGED <<heads, prs>> /\ (Answer(r, 201) \/ Answer(r, 502))
           /\ ~ AlreadyVersioned(ask[r])
           /\ versions' = versions \cup {[by |-> r, path |-> p, body |-> ask[r].body]}
  <2>1. Moved(r) /\ q'[r].pc = "done"
    BY <1>4, AnswerMoves
  <2>2. b \in DOMAIN heads /\ heads[b].tree[p] = ask[r].body /\ Proposed(r)
    BY <1>a, <1>0, <1>4 DEF CommitOK
  <2>3. Grown(WrittenBy(r)) /\ PromptTypes'
    BY <1>0, <1>4, <1>a DEF Grown, PromptTypes, IsHead, IsTree, Main
  <2>4. Proposed(r)'
    BY <1>4, <1>a, <2>2 DEF Proposed
  <2>5. PromptRequest(r)'
    BY <1>0, <1>4, <1>a, <2>1, <2>2, <2>4
       DEF PromptRequest, DraftOK, SandboxOK, PromoteOK, CommitOK, NamedOK
  <2>6. \A v \in versions' : VersionRow(v)'
    <3>1. \A v \in versions : VersionRow(v)'
      BY <1>0, <1>4, <1>a, <2>1, <2>3, EditorOthers
    <3> SUFFICES ASSUME NEW v, v = [by |-> r, path |-> p, body |-> ask[r].body] PROVE VersionRow(v)'
      BY <1>4, <3>1
    <3> QED BY <1>0, <1>4, <1>a, <2>1, <2>2, <2>4 DEF VersionRow
  <2>7. OneRowEach'
    BY <1>4 DEF OneRowEach, AlreadyVersioned, PromptsOK
  <2>8. PromptsOK'
    BY <1>0, <1>4, <1>a, <2>1, <2>3, <2>5, <2>6, <2>7, EditorOthers DEF PromptsOK
  <2> QED BY <1>0, <1>b, <2>1, <2>8 DEF EditorStepOK
<1>5. CASE CommitPrompt(r) \/ CommitPr(r)
  BY <1>1, <1>2, <1>3, <1>5 DEF CommitPrompt, CommitPr, At
<1>6. CASE CommitVersion(r)
  BY <1>1, <1>4, <1>6 DEF CommitVersion, At, Fails
<1> QED BY <1>5, <1>6

\* Every step of the editor keeps its invariant.
LEMMA PromptsKept ==
  ASSUME RequestsOK, Asked, PromptsOK, NEW r \in Reqs, ask' = ask, PromptStep(r)
  PROVE  EditorStepOK(r)
  BY DraftReads, EditorReads, SandboxStarts, PullRequestStarts, CommitStarts, CreateBranchStep,
     WriteDraftStep, SetHeadStep, RunSandboxStep, OpenPrStep, CommitStep DEF PromptStep

\* A reviewer's merge moves main and nothing else; the clock moves nothing.
LEMMA WorldKeepsPrompts ==
  ASSUME RequestsOK, PromptsOK, Merge \/ Tick
  PROVE  PromptsOK'
<1>0. UNCHANGED reqVars /\ UNCHANGED <<ask, q>> /\ UNCHANGED <<pending, runs, versions>>
  BY DEF Merge, Tick, reqVars
<1>1. PromptTypes' /\ Grown({}) /\ DOMAIN heads' = DOMAIN heads
  <2>1. CASE Tick
    BY <2>1 DEF Tick, PromptsOK, PromptTypes, Grown, IsHead, IsTree, Main
  <2>2. CASE Merge
    <3>1. PICK x \in prs :
            /\ heads' = [heads EXCEPT ![Main] =
                [tip |-> <<"main", merges>>, base |-> @.base,
                 tree |-> [p \in Paths |-> IF heads[x.src].tree[p] # heads[x.src].base[p]
                                           THEN heads[x.src].tree[p] ELSE @.tree[p]]]]
            /\ prs' = (prs \ {x}) \cup {[x EXCEPT !.merged = TRUE]}
      BY <2>2 DEF Merge
    <3> DEFINE h == [tip |-> <<"main", merges>>, base |-> heads[Main].base,
                     tree |-> [p \in Paths |-> IF heads[x.src].tree[p] # heads[x.src].base[p]
                                               THEN heads[x.src].tree[p] ELSE heads[Main].tree[p]]]
    <3>2. IsHead(h) /\ IsTree(h.tree)
      BY DEF IsHead, IsTree
    <3>3. heads' = [heads EXCEPT ![Main] = h]
      BY <3>1 DEF PromptsOK, PromptTypes
    <3> HIDE DEF h
    <3>4. /\ DOMAIN heads' = DOMAIN heads /\ heads'[Main] = h
          /\ \A e \in DOMAIN heads \ {Main} : heads'[e] = heads[e]
          /\ heads' = [e \in DOMAIN heads' |-> heads'[e]]
      BY <3>3 DEF PromptsOK, PromptTypes
    <3>5. PromptTypes'
      <4>1. \A e \in DOMAIN heads' : IsHead(heads'[e]) /\ IsTree(heads'[e].tree)
        BY <3>2, <3>4 DEF PromptsOK, PromptTypes
      <4>2. now' = now /\ pending' = pending
        BY <2>2 DEF Merge
      <4> QED BY <3>4, <4>1, <4>2, DraftNamesApart DEF PromptsOK, PromptTypes, IsHead, IsTree
    <3>6. \A y \in prs : \E z \in prs' : z.by = y.by /\ z.path = y.path /\ z.src = y.src
      <4> DEFINE n == [x EXCEPT !.merged = TRUE]
      <4>1. n.by = x.by /\ n.path = x.path /\ n.src = x.src
        BY DEF PromptsOK, PrRow, IsPr
      <4>2. n \in prs' /\ \A y \in prs \ {x} : y \in prs'
        BY <3>1
      <4> QED BY <4>1, <4>2
    <3> QED BY <1>0, <3>4, <3>5, <3>6 DEF Grown
  <2> QED BY <2>1, <2>2
<1>2. ASSUME NEW s \in Reqs PROVE PromptRequest(s)'
  <2>1. /\ Clashed(q[s].br) => Clashed(q[s].br)'
        /\ Drafting(q[s].br, s) => Drafting(q[s].br, s)'
    BY <1>0 DEF Clashed, Drafting, Overlap
  <2>2. q'[s] = q[s] /\ ask' = ask /\ \A t \in q[s].before : q'[t] = q[t]
    BY <1>0
  <2> QED BY <1>1, <2>1, <2>2, RequestUnmoved
<1>3. (\A y \in runs' : RunRow(y)') /\ (\A v \in versions' : VersionRow(v)') /\ OneRowEach'
  <2>1. \A y \in runs' : RunRow(y)'
    BY <1>0 DEF PromptsOK, RunRow
  <2>2. \A v \in versions' : VersionRow(v)'
    BY <1>0, <1>1, VersionStays DEF PromptsOK
  <2> QED BY <1>0, <2>1, <2>2 DEF PromptsOK, OneRowEach
<1>4. \A x \in prs : PrRow(x)'
  BY <1>0, <1>1 DEF PromptsOK, PrRow, IsPr, Clashed, Drafting, Overlap
<1>5. \A x \in prs' : PrRow(x)'
  <2>1. CASE Tick
    BY <1>4, <2>1 DEF Tick
  <2>2. CASE Merge
    <3>1. PICK x \in prs : prs' = (prs \ {x}) \cup {[x EXCEPT !.merged = TRUE]}
      BY <2>2 DEF Merge
    <3> SUFFICES ASSUME NEW n, n = [x EXCEPT !.merged = TRUE] PROVE PrRow(n)'
      BY <1>4, <3>1
    <3>2. PrRow(x)' /\ IsPr(x)
      BY <1>4 DEF PromptsOK, PrRow
    <3>3. IsPr(n) /\ n.by = x.by /\ n.path = x.path /\ n.src = x.src /\ n.run = x.run
          /\ n.body = x.body
      BY <3>2 DEF IsPr
    <3> QED BY <3>2, <3>3 DEF PrRow, IsPr
  <2> QED BY <2>1, <2>2
<1> QED BY <1>1, <1>2, <1>3, <1>5 DEF PromptsOK

-----------------------------------------------------------------------------
(* The console as a whole *)

\* The inductive invariant: one part per family of routes.
Inv ==
    /\ RequestsOK /\ Asked
    /\ PromptsOK /\ FlagsOK /\ ProvidersOK /\ ControlOK /\ RunnersOK

\* A scenario of the console starts in the invariant.
LEMMA InvInit == Init => Inv
<1> SUFFICES ASSUME NEW mix \in Mixes, ReqInit(mix), PromptInit(mix), SettingInit(mix), RunnerInit(mix)
             PROVE  Inv
  BY DEF Init
<1>0. /\ ask = mix.ask /\ audit = {} /\ (\A r \in Reqs : q[r] = Fresh)
      /\ \A r \in Reqs : q[r].pc = "idle" /\ q[r].reply = None /\ q[r].br = None /\ q[r].before = {}
  BY DEF ReqInit, Fresh
<1>a. \A n \in Nat : n # None
  BY RequestAssumption
<1>1. RequestsOK
  BY <1>0, FreshRequest, RequestAssumption
     DEF ReqInit, RequestsOK, Shape, BeforeIsDone, DoneIsAnswered
<1>2. Asked
  BY RequestAssumption, PromptAssumption, SettingAssumption, RunnerAssumption
     DEF ReqInit, SettingInit, Asked
<1>3. PromptsOK
  <2>1. PromptTypes
    <3> DEFINE h == [tip |-> <<"main", 0>>, base |-> Seed, tree |-> Seed]
    <3>1. IsHead(h) /\ IsTree(h.tree)
      BY DEF IsHead, IsTree, Seed
    <3>2. heads = [b \in {Main} |-> h] /\ pending = [k \in {} |-> None] /\ now = mix.start
      BY DEF PromptInit
    <3> HIDE DEF h
    <3>3. Main # None /\ now \in Nat
      <4>1. Main \in Branches
        BY DEF Main, Branches
      <4> QED BY <3>2, <4>1, PromptAssumption
    <3> QED BY <3>1, <3>2, <3>3 DEF PromptTypes
  <2>2. runs = {} /\ prs = {} /\ versions = {} /\ DOMAIN heads = {Main}
    BY DEF PromptInit
  <2>3. ASSUME NEW r \in Reqs PROVE PromptRequest(r)
    <3>1. q[r].reply \notin {200, 201}
      BY <1>0, <1>a
    <3> QED BY <1>0, <2>2, <3>1, DraftNamesApart
            DEF PromptRequest, DraftOK, SandboxOK, PromoteOK, CommitOK, NamedOK, Settled
  <2> QED BY <2>1, <2>2, <2>3 DEF PromptsOK, OneRowEach
<1>4. FlagsOK
  BY <1>0 DEF SettingInit, FlagsOK, FlagTypes, FlagRequest
<1>5. ControlOK
  <2>1. ControlTypes
    BY <1>0, SettingAssumption DEF SettingInit, ControlTypes
  <2>2. ASSUME NEW r \in Reqs PROVE ControlRequest(r)
    <3>1. q[r].reply \notin {200, 404} /\ touched = {}
      BY <1>0, <1>a DEF SettingInit
    <3> QED BY <1>0, <3>1 DEF ControlRequest
  <2> QED BY <2>1, <2>2 DEF ControlOK
<1>6. ProvidersOK
  <2>0. /\ provs = mix.provs /\ pins = mix.pins
        /\ creds = [p \in Providers |-> IF mix.provs[p] = "absent" THEN NoCred
                                        ELSE [api |-> "a0", org |-> "o0"]]
        /\ rowlock = [p \in Providers |-> None]
    BY DEF SettingInit
  <2>1. ProviderTypes
    <3>1. IsCred(NoCred) /\ IsCred([api |-> "a0", org |-> "o0"])
      BY DEF IsCred, NoCred
    <3>2. /\ provs \in [Providers -> {"absent", "active", "inactive"}]
          /\ pins \in [FlagDepts -> Providers \cup {None}]
      BY <2>0, SettingAssumption
    <3> QED BY <2>0, <3>1, <3>2 DEF ProviderTypes
  <2>2. ASSUME NEW p \in Providers, Exists(p) PROVE creds[p].api # None /\ Born(p)
    <3>1. creds[p].api = "a0"
      BY <2>0, <2>2 DEF Exists
    <3>2. \A r \in Reqs : ask[r].op = "pnew" => ask[r].id # p
      BY <1>0, <2>0, <2>2, SettingAssumption DEF Exists
    <3> QED BY <3>1, <3>2, SettingAssumption DEF Born
  <2>3. \A p \in Providers : ProviderPart(p)
    BY <2>2 DEF ProviderPart
  <2>4. ASSUME NEW d \in FlagDepts PROVE PinPart(d)
    <3>1. pins[d] # None => pins[d] \in Providers /\ Exists(pins[d])
      BY <2>0, SettingAssumption DEF Exists
    <3> QED BY <2>2, <3>1 DEF PinPart
  <2>5. ASSUME NEW r \in Reqs PROVE ProviderRequest(r)
    <3>1. q[r].reply \notin {200, 204}
      BY <1>0, <1>a
    <3> QED BY <1>0, <3>1 DEF ProviderRequest, NewOK, UpdateOK, DeleteOK, OtherProviderOK
  <2> QED BY <2>1, <2>3, <2>4, <2>5 DEF ProvidersOK
<1>7. RunnersOK
  <2>0. /\ rows = [i \in Runners |-> IF i \in mix.runners THEN [host |-> "h0", status |-> "active"]
                                     ELSE NoRow]
        /\ keys = [i \in Runners |-> IF i \in mix.runners THEN "h0" ELSE None]
        /\ assigned = mix.assigned /\ cron = FALSE
    BY DEF RunnerInit
  <2>1. RunnerTypes
    <3>1. IsRow(NoRow) /\ IsRow([host |-> "h0", status |-> "active"])
      BY DEF IsRow, NoRow
    <3>2. assigned \in [RunDepts -> SUBSET Runners] /\ cron \in BOOLEAN
      BY <2>0, RunnerAssumption
    <3>3. \A i \in Runners : Known(i) => rows[i].host # None
      BY <2>0, RunnerAssumption DEF Known
    <3> QED BY <2>0, <3>1, <3>2, <3>3 DEF RunnerTypes
  <2>2. RunnerRowMatchesKey
    BY <2>0, RunnerAssumption DEF RunnerRowMatchesKey, Known
  <2>3. ASSUME NEW r \in Reqs PROVE RunnerRequest(r)
    <3>1. q[r].reply # 200
      BY <1>0, <1>a
    <3> QED BY <1>0, <3>1
            DEF RunnerRequest, CreationOK, PatchOK, AssignmentOK, ListOK, OtherRunnerOK
  <2> QED BY <2>1, <2>2, <2>3 DEF RunnersOK
<1> QED BY <1>1, <1>2, <1>3, <1>4, <1>5, <1>6, <1>7 DEF Inv

\* A step of a request keeps the invariant, moves that request only and edits
\* flags exactly.
LEMMA StepKept ==
  ASSUME Inv, NEW r \in Reqs, Step(r)
  PROVE  Inv' /\ Moved(r) /\ ExactEdit(r)
<1>0. /\ ask' = ask /\ wired' = wired /\ RequestsOK /\ Asked /\ PromptsOK /\ FlagsOK /\ ProvidersOK
      /\ ControlOK /\ RunnersOK
  BY DEF Step, Inv
<1>1. Asked'
  BY <1>0 DEF Asked
<1>2. ASSUME Moved(r), Noted(r) PROVE RequestsOK'
  BY <1>0, <1>2, RequestsStay DEF Noted
<1>3. ASSUME Moved(r), ask[r].op \notin RunnerRouteOps, UNCHANGED runnerVars PROVE RunnersOK'
  <2>1. RunnerRequest(r)'
    BY <1>0, <1>3 DEF RunnerRequest, CreationOK, PatchOK, AssignmentOK, ListOK, OtherRunnerOK,
                      RunnerRouteOps, RunnerOps
  <2> QED BY <1>0, <1>3, <2>1, RunnerStoresSame DEF runnerVars
<1> USE DEF SettingRouteOps, FlagOps, ProviderOps, ControlRouteOps, ControlOps, PromptOps,
              RunnerRouteOps, RunnerOps
<1>4. CASE PromptStep(r) /\ UNCHANGED <<settingVars, runnerVars>>
  <2>1. EditorStepOK(r) /\ UNCHANGED settingVars /\ UNCHANGED runnerVars
    BY <1>0, <1>4, PromptsKept
  <2>2. Moved(r) /\ Noted(r) /\ PromptsOK' /\ ask[r].op \in PromptOps
    BY <2>1 DEF EditorStepOK
  <2>3. ask[r].op \notin SettingRouteOps /\ ask[r].op \notin RunnerRouteOps
    BY <2>2
  <2>4. FlagsOK' /\ ExactEdit(r) /\ ProvidersOK' /\ ControlOK'
    BY <1>0, <2>1, <2>2, <2>3, SettingsStay
  <2> QED BY <1>1, <1>2, <1>3, <2>1, <2>2, <2>3, <2>4 DEF Inv
<1>5. CASE SettingStep(r) /\ UNCHANGED <<promptVars, runnerVars>>
  <2>1. SettingStepOK(r) /\ UNCHANGED promptVars /\ UNCHANGED runnerVars
    BY <1>0, <1>5, SettingsKept
  <2>2. /\ Moved(r) /\ Noted(r) /\ ask[r].op \in SettingRouteOps
        /\ FlagsOK' /\ ExactEdit(r) /\ ProvidersOK' /\ ControlOK'
    BY <2>1 DEF SettingStepOK
  <2>3. ask[r].op \notin PromptOps /\ ask[r].op \notin RunnerRouteOps
    BY <2>2
  <2>4. PromptsOK'
    BY <1>0, <2>1, <2>2, <2>3, PromptsStay
  <2> QED BY <1>1, <1>2, <1>3, <2>1, <2>2, <2>3, <2>4 DEF Inv
<1>6. CASE RunnerStep(r) /\ UNCHANGED <<promptVars, settingVars>>
  <2>1. /\ Moved(r) /\ Noted(r) /\ ask[r].op \in RunnerRouteOps /\ RunnersOK'
        /\ UNCHANGED promptVars /\ UNCHANGED settingVars
    BY <1>0, <1>6, RunnersKept
  <2>2. ask[r].op \notin PromptOps /\ ask[r].op \notin SettingRouteOps
    BY <2>1
  <2>3. PromptsOK'
    BY <1>0, <2>1, <2>2, PromptsStay
  <2>4. FlagsOK' /\ ExactEdit(r) /\ ProvidersOK' /\ ControlOK'
    BY <1>0, <2>1, <2>2, SettingsStay
  <2> QED BY <1>1, <1>2, <2>1, <2>3, <2>4 DEF Inv
<1> QED BY <1>4, <1>5, <1>6 DEF Step

-----------------------------------------------------------------------------
(* Steps that no request takes *)

\* Requests that do not move keep what is known of them.
LEMMA RequestsRest ==
  ASSUME RequestsOK, Asked, ask' = ask, q' = q, wired' = wired, faults' \in Nat
  PROVE  RequestsOK' /\ Asked'
<1>1. ask' = ask /\ q' = q /\ faults' \in Nat /\ wired' = wired
  OBVIOUS
<1>2. RequestsOK'
  BY <1>1 DEF RequestsOK, Shape, BeforeIsDone, DoneIsAnswered, IsRequest
<1>3. Asked'
  BY <1>1 DEF Asked
<1> QED BY <1>2, <1>3

\* The flags' part, when neither requests nor flags change.
LEMMA FlagsRest ==
  ASSUME FlagsOK, ask' = ask, q' = q, UNCHANGED flagVars
  PROVE  FlagsOK'
<1>1. ask' = ask /\ q' = q /\ flag' = flag /\ over' = over /\ lock' = lock
  BY DEF reqVars, flagVars
<1>2. FlagTypes'
  BY <1>1 DEF FlagsOK, FlagTypes
<1>3. ASSUME NEW r \in Reqs PROVE FlagRequest(r)'
  <2>1. FlagRequest(r)
    BY DEF FlagsOK
  <2> QED BY <1>1, <2>1 DEF FlagRequest, Rival
<1> QED BY <1>2, <1>3 DEF FlagsOK

\* The providers' part, when neither requests nor providers change.
LEMMA ProvidersRest ==
  ASSUME ProvidersOK, ask' = ask, q' = q, UNCHANGED provVars
  PROVE  ProvidersOK'
<1>1. /\ ask' = ask /\ q' = q /\ provs' = provs /\ creds' = creds /\ pins' = pins
      /\ rowlock' = rowlock
  BY DEF reqVars, provVars
<1>2. ProviderTypes'
  BY <1>1 DEF ProvidersOK, ProviderTypes, IsCred
<1>3. /\ \A p : (Exists(p)' <=> Exists(p)) /\ (Born(p)' <=> Born(p)) /\ (Wiping(p)' <=> Wiping(p))
                /\ (Gone(p)' <=> Gone(p)) /\ Deleting(p)' = Deleting(p)
      /\ \A r, s \in Reqs : Overlap(r, s)' <=> Overlap(r, s)
  BY <1>1 DEF Exists, Born, Wiping, Gone, Deleting, Overlap
<1>4. \A p \in Providers : ProviderPart(p)'
  BY <1>1, <1>3 DEF ProvidersOK, ProviderPart
<1>5. \A d \in FlagDepts : PinPart(d)'
  BY <1>1 DEF ProvidersOK, PinPart, PinExcuse, Exists, Deleting, Overlap
<1>6. ASSUME NEW r \in Reqs PROVE ProviderRequest(r)'
  <2>1. ProviderRequest(r)
    BY DEF ProvidersOK
  <2>2. NewOK(r)' /\ OtherProviderOK(r)'
    BY <1>1, <2>1 DEF ProviderRequest, NewOK, OtherProviderOK
  <2>3. /\ Rotated(r) <=> Rotated(r)'
        /\ ChangesCredentials(r) <=> ChangesCredentials(r)'
        /\ OverlapSet(r) <=> OverlapSet(r)'
    BY <1>1 DEF Rotated, RivalSet, Deleting, ChangesCredentials, OverlapSet, Overlap
  <2>4. UpdateOK(r)'
    BY <1>1, <2>1, <2>3 DEF ProviderRequest, UpdateOK, Exists, Born, Gone, Deleting, IsOld, IsCred
  <2>5. DeleteOK(r)'
    BY <1>1, <2>1, <2>3 DEF ProviderRequest, DeleteOK, Exists, Born, Overlap
  <2> QED BY <2>2, <2>4, <2>5 DEF ProviderRequest
<1> QED BY <1>2, <1>4, <1>5, <1>6 DEF ProvidersOK

\* A workflow that ends changes its status and no answer.
LEMMA ControlRest ==
  ASSUME ControlOK, ask' = ask, q' = q, audit' = audit, FlowEnds \/ UNCHANGED ctlVars
  PROVE  ControlOK'
<1>1. ask' = ask /\ q' = q /\ audit' = audit /\ touched' = touched /\ spaces' = spaces
  BY DEF reqVars, ctlVars, FlowEnds
<1>2. flows' \in [Flows -> {"running", "closed", "none"}]
  BY DEF ControlOK, ControlTypes, FlowEnds, ctlVars
<1>3. ControlTypes'
  BY <1>1, <1>2 DEF ControlOK, ControlTypes
<1>4. ASSUME NEW r \in Reqs PROVE ControlRequest(r)'
  <2>1. ControlRequest(r)
    BY DEF ControlOK
  <2> QED BY <1>1, <2>1 DEF ControlRequest
<1> QED BY <1>3, <1>4 DEF ControlOK

\* The runners' part, when no request moves: a worker adds the row of the
\* default runner, and then the default runner to departments.
LEMMA RunnersRest ==
  ASSUME Asked, RunnersOK, ask' = ask, q' = q, UNCHANGED runnerVars \/ SeedRunner \/ SeedAssignments
  PROVE  RunnersOK'
<1>0. keys' = keys /\ cron' = cron
  BY DEF runnerVars, SeedRunner, SeedAssignments
<1>1. seeding' # "off" <=> seeding # "off"
  BY DEF runnerVars, SeedRunner, SeedAssignments
<1>2. /\ rows' = [i \in Runners |-> rows'[i]]
      /\ \A i \in Runners : /\ rows'[i] = rows[i] \/ (Seeded(i) /\ ~ Known(i))
                            /\ IsRow(rows'[i]) /\ (Known(i)' => rows'[i].host # None)
  <2>1. CASE UNCHANGED rows
    BY <2>1 DEF RunnersOK, RunnerTypes, Known, IsRow, NoRow
  <2>2. CASE seeding = "due" /\ rows' = [rows EXCEPT ![DefaultRunner] =
                IF Known(DefaultRunner) THEN @ ELSE [host |-> "ssh_host", status |-> "active"]]
    <3>1. IsRow([host |-> "ssh_host", status |-> "active"]) /\ "ssh_host" # None
      BY RunnerAssumption DEF IsRow
    <3>2. /\ rows' = [i \in Runners |-> rows'[i]]
          /\ \A i \in Runners \ {DefaultRunner} : rows'[i] = rows[i]
          /\ rows'[DefaultRunner] = IF Known(DefaultRunner) THEN rows[DefaultRunner]
                                    ELSE [host |-> "ssh_host", status |-> "active"]
      BY <2>2, RunnerAssumption DEF RunnersOK, RunnerTypes
    <3>3. ASSUME NEW i \in Runners
          PROVE  /\ rows'[i] = rows[i] \/ (Seeded(i) /\ ~ Known(i))
                 /\ IsRow(rows'[i]) /\ (Known(i)' => rows'[i].host # None)
      <4>1. IsRow(rows[i]) /\ (Known(i) => rows[i].host # None)
        BY DEF RunnersOK, RunnerTypes
      <4>2. CASE rows'[i] = rows[i]
        BY <4>1, <4>2 DEF Known, NoRow
      <4>3. CASE rows'[i] # rows[i]
        BY <2>2, <3>1, <3>2, <4>3 DEF Seeded
      <4> QED BY <4>2, <4>3
    <3> QED BY <3>2, <3>3
  <2> QED BY <2>1, <2>2 DEF runnerVars, SeedRunner, SeedAssignments
<1>3. \A i \in Runners : (Known(i) => Known(i)') /\ (Known(i)' => Known(i) \/ Seeded(i))
                         /\ (Seeded(i)' <=> Seeded(i))
  BY <1>1, <1>2 DEF Known, NoRow, Seeded
<1>4. /\ assigned' \in [RunDepts -> SUBSET Runners]
      /\ \A d \in RunDepts : \/ assigned'[d] = assigned[d]
                             \/ seeding # "off" /\ assigned'[d] = assigned[d] \cup {DefaultRunner}
  <2>1. CASE UNCHANGED assigned
    BY <2>1 DEF RunnersOK, RunnerTypes
  <2>2. CASE /\ seeding = "row"
             /\ assigned' = [d \in RunDepts |-> assigned[d] \cup
                               (IF d \in deptRows THEN {DefaultRunner} ELSE {})]
    BY <2>2, RunnerAssumption DEF RunnersOK, RunnerTypes
  <2> QED BY <2>1, <2>2 DEF runnerVars, SeedRunner, SeedAssignments
<1>5. RunnerTypes'
  BY <1>0, <1>2, <1>4 DEF RunnersOK, RunnerTypes
<1>6. \A i : (Twice(i)' <=> Twice(i)) /\ (HostPatched(i)' <=> HostPatched(i))
  BY DEF Twice, Writers, Overlap, HostPatched
<1>7. RunnerRowMatchesKey'
  <2> SUFFICES ASSUME NEW i \in Runners, Known(i)', ~ Seeded(i)
               PROVE  keys[i] # None /\ (keys[i] = rows'[i].host \/ HostPatched(i) \/ Twice(i))
    BY <1>0, <1>3, <1>6 DEF RunnerRowMatchesKey, Twice
  <2> QED BY <1>2, <1>3 DEF RunnersOK, RunnerRowMatchesKey, Twice
<1>8. ASSUME NEW r \in Reqs PROVE RunnerRequest(r)'
  <2>1. RunnerRequest(r)
    BY DEF RunnersOK
  <2>2. RivalAssign(r) <=> RivalAssign(r)'
    BY DEF RivalAssign
  <2>3. CreationOK(r)' /\ PatchOK(r)'
    <3>1. ask[r].op \in {"rnew", "rset"} => ask[r].id \in Runners
      BY DEF Asked
    <3> QED BY <1>0, <1>3, <1>6, <2>1, <3>1 DEF RunnerRequest, CreationOK, PatchOK
  <2>4. AssignmentOK(r)'
    <3> SUFFICES ASSUME ask[r].op = "assign" PROVE AssignmentOK(r)'
      BY DEF AssignmentOK
    <3> DEFINE d == ask[r].dept
    <3>1. \/ assigned'[d] = assigned[d]
          \/ seeding # "off" /\ assigned'[d] = assigned[d] \cup {DefaultRunner}
      BY <1>4 DEF Asked
    <3> DEFINE T == ask[r].ids \ q[r].todo
               A == assigned[d] \ q[r].drop
               Goal(X, B) == X = B \/ (seeding' # "off" /\ X = B \cup {DefaultRunner})
    <3>0. /\ q'[r] = q[r] /\ ask'[r] = ask[r] /\ AssignmentOK(r)
      BY <2>1 DEF RunnerRequest
    <3>2. Meets(assigned[d], T) => Goal(assigned'[d], T)
      BY <1>1, <3>1 DEF Meets
    <3>3. Meets(assigned[d], ask[r].ids) => Goal(assigned'[d], ask[r].ids)
      BY <1>1, <3>1 DEF Meets
    <3>4. Meets(A, T) => Goal(assigned'[d] \ q[r].drop, T)
      BY <1>1, <3>1 DEF Meets
    <3>5. /\ q[r].pc = "remove" => Goal(assigned'[d] \ q[r].drop, T) \/ RivalAssign(r)'
          /\ q[r].pc = "add" => Goal(assigned'[d], T) \/ RivalAssign(r)'
          /\ q[r].pc = "audit" \/ q[r].reply = 200 => Goal(assigned'[d], ask[r].ids) \/ RivalAssign(r)'
      BY <2>2, <3>0, <3>2, <3>3, <3>4 DEF AssignmentOK
    <3> QED BY <3>0, <3>5 DEF AssignmentOK, Meets
  <2> QED BY <1>0, <2>1, <2>3, <2>4 DEF RunnerRequest, ListOK, OtherRunnerOK
<1> QED BY <1>5, <1>7, <1>8 DEF RunnersOK

\* The editor's part, when neither requests nor the repository change.
LEMMA PromptsRest ==
  ASSUME RequestsOK, PromptsOK, ask' = ask, q' = q, UNCHANGED promptVars
  PROVE  PromptsOK'
<1>0. /\ ask' = ask /\ q' = q /\ heads' = heads /\ pending' = pending /\ runs' = runs /\ prs' = prs
      /\ versions' = versions /\ now' = now
  BY DEF reqVars, promptVars
<1>1. PromptTypes' /\ Grown({}) /\ DOMAIN heads' = DOMAIN heads
  BY <1>0 DEF PromptsOK, PromptTypes, Grown, IsHead, IsTree, Main
<1>2. ASSUME NEW s \in Reqs PROVE PromptRequest(s)'
  <2>1. /\ Clashed(q[s].br) => Clashed(q[s].br)'
        /\ Drafting(q[s].br, s) => Drafting(q[s].br, s)'
    BY <1>0 DEF Clashed, Drafting, Overlap
  <2>2. q'[s] = q[s] /\ ask' = ask /\ \A t \in q[s].before : q'[t] = q[t]
    BY <1>0
  <2> QED BY <1>1, <2>1, <2>2, RequestUnmoved
<1>3. (\A y \in runs' : RunRow(y)') /\ (\A v \in versions' : VersionRow(v)') /\ OneRowEach'
  <2>1. \A y \in runs' : RunRow(y)'
    BY <1>0 DEF PromptsOK, RunRow
  <2>2. \A v \in versions' : VersionRow(v)'
    BY <1>0, <1>1, VersionStays DEF PromptsOK
  <2> QED BY <1>0, <2>1, <2>2 DEF PromptsOK, OneRowEach
<1>4. \A x \in prs' : PrRow(x)'
  BY <1>0, <1>1 DEF PromptsOK, PrRow, IsPr, Clashed, Drafting, Overlap
<1> QED BY <1>1, <1>2, <1>3, <1>4 DEF PromptsOK

\* The world and stuttering steps keep the invariant.
LEMMA RestKept ==
  ASSUME Inv, World \/ UNCHANGED vars
  PROVE  Inv' /\ q' = q
<1>0. RequestsOK /\ Asked /\ PromptsOK /\ FlagsOK /\ ProvidersOK /\ ControlOK /\ RunnersOK
  BY DEF Inv
<1>1. ask' = ask /\ q' = q /\ wired' = wired /\ audit' = audit /\ faults' \in Nat
  BY <1>0 DEF World, Merge, Tick, FlowEnds, SeedRunner, SeedAssignments, Works, Fault, vars, reqVars,
              RequestsOK
<1>2. UNCHANGED flagVars /\ UNCHANGED provVars
  BY DEF World, FlowEnds, vars, settingVars, flagVars, provVars
<1>3. FlowEnds \/ UNCHANGED ctlVars
  BY DEF World, vars, settingVars, ctlVars
<1>4. Merge \/ Tick \/ UNCHANGED promptVars
  BY DEF World, vars
<1>5. UNCHANGED runnerVars \/ SeedRunner \/ SeedAssignments
  BY DEF World, vars
<1>6. PromptsOK'
  BY <1>0, <1>1, <1>4, WorldKeepsPrompts, PromptsRest
<1> QED BY <1>0, <1>1, <1>2, <1>3, <1>5, <1>6, RequestsRest, FlagsRest, ProvidersRest, ControlRest,
           RunnersRest DEF Inv

\* The invariant is inductive.
LEMMA InvNext == Inv /\ [Next]_vars => Inv'
  BY StepKept, RestKept DEF Next

-----------------------------------------------------------------------------
(* What the console promises *)

\* The inductive invariant holds in every state of every behaviour of the API:
\* whatever requests the scenario has, however they interleave at their awaits
\* and wherever the remote calls fail.
THEOREM ConsoleInvariant == Spec => []Inv
<1>1. Init => Inv
  BY InvInit
<1>2. Inv /\ [Next]_vars => Inv'
  BY InvNext
<1> QED BY <1>1, <1>2, PTL DEF Spec

\* The invariant gives what the routes of workflows and runners answer.
LEMMA InvAnswers == Inv => AnswersAreTrue
<1> SUFFICES ASSUME Inv PROVE AnswersAreTrue
  OBVIOUS
<1>0. RequestsOK /\ Asked /\ PromptsOK /\ FlagsOK /\ ProvidersOK /\ ControlOK /\ RunnersOK
  BY DEF Inv
<1>1. TypeOK
  <2>1. \A r \in Reqs : q[r].before \subseteq Reqs /\ (q[r].pc = "done") = (q[r].reply # None)
    BY <1>0 DEF RequestsOK, BeforeIsDone, DoneIsAnswered
  <2>2. faults \in Nat /\ wired \in BOOLEAN
    BY <1>0 DEF RequestsOK, Asked
  <2>3. \A x \in audit : x.by \in Reqs /\ x.result \in {"ok", "denied", "error"}
    BY <1>0 DEF ControlOK, ControlTypes, Results
  <2>4. /\ \A k \in DOMAIN pending : k[1] \in DOMAIN heads /\ k[2] \in Paths
        /\ \A b \in DOMAIN heads : DOMAIN heads[b].tree = Paths
    BY <1>0 DEF PromptsOK, PromptTypes, IsTree
  <2>5. flag \in [Flags -> {"on", "off"}] /\ lock \in Reqs \cup {None}
    BY <1>0 DEF FlagsOK, FlagTypes
  <2>6. /\ provs \in [Providers -> {"absent", "active", "inactive"}]
        /\ pins \in [FlagDepts -> Providers \cup {None}]
        /\ rowlock \in [Providers -> Reqs \cup {None}]
    BY <1>0 DEF ProvidersOK, ProviderTypes
  <2>7. flows \in [Flows -> {"running", "closed", "none"}] /\ spaces \subseteq Spaces
    BY <1>0 DEF ControlOK, ControlTypes
  <2>8. assigned \in [RunDepts -> SUBSET Runners] /\ cron \in BOOLEAN
    BY <1>0 DEF RunnersOK, RunnerTypes
  <2> QED BY <2>1, <2>2, <2>3, <2>4, <2>5, <2>6, <2>7, <2>8 DEF TypeOK
<1>2. ControlAnswersAreTrue
  BY <1>0 DEF ControlOK, ControlRequest, ControlAnswersAreTrue
<1>3. RunnerRowMatchesKey
  BY <1>0 DEF RunnersOK
<1>4. AssignedAsAnswered
  BY <1>0 DEF RunnersOK, RunnerRequest, AssignmentOK, RivalAssign, AssignedAsAnswered, Meets
<1>5. CronAnswerIsTrue
  BY <1>0 DEF RunnersOK, RunnerRequest, ListOK, CronAnswerIsTrue
<1> QED BY <1>1, <1>2, <1>3, <1>4, <1>5 DEF AnswersAreTrue

\* Type correctness of the console, and: a workflow control call answered with
\* 200 took effect, one answered with 404 did not, an audit row that says ok is
\* of an effect; a visible runner has its key, but for the one a worker seeds
\* without; an assignment answered with 200 is in force, the seeded runner aside;
\* a list that says the health check is scheduled is right.
THEOREM AnswersTrue == Spec => []AnswersAreTrue
  BY ConsoleInvariant, InvAnswers, PTL

\* A provider that can be seen has a key unless its deletion has begun, a
\* rotated field is in Vault, a deleted provider's keys cannot be read and a
\* pinned provider works, with the exceptions for overlapping requests that the code
\* leaves (the deletion takes the secret before the row; the update writes back
\* what it read).
THEOREM KeysKept == Spec => []ProvidersKeepKeys
<1>1. Inv => ProvidersKeepKeys
  BY ProvidersOKSuffices DEF Inv
<1> QED BY <1>1, ConsoleInvariant, PTL

\* A draft that was answered with 201 is on its branch, a promoted run is
\* recorded, a promotion proposes what its run tested and every version row has
\* its pull request and is the only row of its text, unless drafts chose the same branch name at the same time
\* or a draft was still being written next to the run.
THEOREM PromptsTraceable == Spec => []PromptsAreTraceable
<1>1. Inv => PromptsAreTraceable
  BY PromptsOKSuffices DEF Inv
<1> QED BY <1>1, ConsoleInvariant, PTL

\* An edit of the overrides changes exactly the entry it names, from the value
\* its request read, because the file lock is held from the read to the write;
\* a toggle replaces the value it read unless another toggle is next to it.
THEOREM FlagEditsExact == Spec => FlagEditsAreExact
<1> DEFINE Exact == \A r \in Reqs :
        /\ (over' # over /\ q'[r] # q[r]) =>
              /\ over' = [over EXCEPT ![ask[r].dept][ask[r].id] = over'[ask[r].dept][ask[r].id]]
              /\ q[r].old[ask[r].dept][ask[r].id] = over[ask[r].dept][ask[r].id]
        /\ (flag' # flag /\ q'[r] # q[r]) =>
              (q[r].old = flag[ask[r].id] \/ \E s \in Reqs : Rival(r, s))
<1>1. Inv /\ [Next]_vars => Exact
  <2> SUFFICES ASSUME Inv, [Next]_vars PROVE Exact
    OBVIOUS
  <2>1. ASSUME NEW s \in Reqs, Step(s) PROVE Exact
    <3>1. Moved(s) /\ ExactEdit(s)
      BY <2>1, StepKept
    <3>2. \A r \in Reqs : q'[r] # q[r] => r = s
      BY <3>1 DEF Moved
    <3> QED BY <3>1, <3>2 DEF ExactEdit
  <2>2. CASE World \/ UNCHANGED vars
    BY <2>2, RestKept
  <2> QED BY <2>1, <2>2 DEF Next
<1>2. Inv /\ [Next]_vars => [Exact]_<<over, flag>>
  BY <1>1
<1> QED BY <1>2, ConsoleInvariant, PTL DEF Spec, FlagEditsAreExact

=============================================================================
