------------------------ MODULE WebhookPipelineProofs ------------------------
(***************************************************************************)
(* DuplicatesNeedOverlap and LoopGuardHolds hold of WebhookPipeline for    *)
(* any number of deliveries, events and issues, any payloads and any       *)
(* thresholds.                                                             *)
(***************************************************************************)
EXTENDS WebhookPipeline, TLAPS

Pcs == Steps \union Answers \union {"idle", "dead"}

\* Awaits and answers a delivery has only after dedup let it pass.
Passed == Pcs \ {"idle", "exists", "insert", "duplicate", "dead"}

\* An event that met no overlap and no fault has at most one delivery beyond
\* the look-up, and once that one passed the row is there to stop the others.
DedupInv ==
    /\ \A e \in Events : rows[e] = "expired" => e \in faulty
    /\ \A d \in Deliveries :
          pc[d] \in Passed /\ ev[d] \notin overlapped \union faulty
              => rows[ev[d]] = "live"
    /\ \A c, d \in Deliveries :
          /\ c # d /\ ev[c] = ev[d]
          /\ pc[c] \in Passed \union {"insert"}
          /\ pc[d] \in Passed \union {"insert"}
          => ev[d] \in overlapped \union faulty

\* The window holds recorded drops only, and a handler blocks after a storm.
StormInv ==
    /\ \A i \in Issues : drops[i] <= botDrops[i]
    /\ \A d \in Deliveries :
          pc[d] = "block" => botDrops[IssueOf(d)] >= STORM_THRESHOLD
    /\ \A i \in blocks : botDrops[i] >= STORM_THRESHOLD

PInv == TypeOK /\ DedupInv /\ StormInv
-----------------------------------------------------------------------------
\* The handler actions after dedup: all of them start and end beyond it and
\* leave its table and its events alone.
LaterStep(d) ==
    /\ pc[d] \in Passed
    /\ \E step \in Passed : pc' = [pc EXCEPT ![d] = step]
    /\ UNCHANGED <<payload, ev, rows, overlapped>>
    /\ \/ faulty' = faulty
       \/ faulty' = faulty \union {ev[d]}

Guard(d) ==
    \/ \E outcome \in {"ok", "error"} :
          \/ IsBlocked(d, outcome) \/ RecordDrop(d, outcome)
          \/ IsStorm(d, outcome) \/ BlockIssue(d, outcome)
    \/ \E known \in BOOLEAN : BotIds(d, known)

Dispatch(d) ==
    \/ \E outcome \in {"ok", "error"} :
          \/ Signal(d, outcome) \/ ForwardApproval(d, outcome)
          \/ StartIteration(d, outcome) \/ StartWorkflow(d, outcome)
          \/ \E waiting \in BOOLEAN : IsNeedsInfo(d, outcome, waiting)
    \/ \E dept \in {"not_bot", "dept_disabled", "active"} : Resolve(d, dept)
    \/ \E count \in 0 .. MAX_CONCURRENT : Count(d, count)
    \/ \E verdict \in Verdicts : Budget(d, verdict)

\* Every handler step is a dedup step, a guard step or a dispatcher step.
LEMMA HandleSplit ==
    ASSUME NEW d \in Deliveries, Handle(d)
    PROVE  \/ \E outcome \in {"ok", "error"} : Exists(d, outcome)
           \/ \E outcome \in {"ok", "error"} : Insert(d, outcome)
           \/ Guard(d) \/ Dispatch(d)
BY DEF Handle, Guard, Dispatch

\* The loop guard's actions are later steps.
LEMMA GuardIsLater ==
    ASSUME TypeOK, NEW d \in Deliveries, Guard(d)
    PROVE  LaterStep(d)
<1>1. ASSUME NEW o \in {"ok", "error"}, IsBlocked(d, o) PROVE LaterStep(d)
  BY <1>1 DEF IsBlocked, LaterStep, Goes, Notes, Passed, Pcs, Steps, Answers,
              Dropped, Acting, tables
<1>2. ASSUME NEW o \in {"ok", "error"}, RecordDrop(d, o) PROVE LaterStep(d)
  BY <1>2 DEF RecordDrop, LaterStep, Goes, Notes, Passed, Pcs, Steps, Answers,
              Dropped, Acting
<1>3. ASSUME NEW o \in {"ok", "error"}, IsStorm(d, o) PROVE LaterStep(d)
  BY <1>3 DEF IsStorm, LaterStep, Goes, Notes, Passed, Pcs, Steps, Answers,
              Dropped, Acting, tables
<1>4. ASSUME NEW o \in {"ok", "error"}, BlockIssue(d, o) PROVE LaterStep(d)
  BY <1>4 DEF BlockIssue, LaterStep, Goes, Notes, Passed, Pcs, Steps, Answers,
              Dropped, Acting
<1>5. ASSUME NEW known \in BOOLEAN, BotIds(d, known) PROVE LaterStep(d)
  BY <1>5 DEF BotIds, LaterStep, Goes, Passed, Pcs, Steps, Answers, Dropped,
              Acting, tables
<1> QED BY <1>1, <1>2, <1>3, <1>4, <1>5 DEF Guard

\* The dispatcher's actions are later steps.
LEMMA DispatchIsLater ==
    ASSUME TypeOK, NEW d \in Deliveries, Dispatch(d)
    PROVE  LaterStep(d)
<1> USE DEF LaterStep, Goes, Passed, Pcs, Steps, Answers, Dropped, Acting
<1>1. ASSUME NEW o \in {"ok", "error"},
             Signal(d, o) \/ ForwardApproval(d, o) \/ StartIteration(d, o)
      PROVE  LaterStep(d)
  BY <1>1 DEF Signal, ForwardApproval, StartIteration, Notes, tables
<1>2. ASSUME NEW o \in {"ok", "error"}, StartWorkflow(d, o) PROVE LaterStep(d)
  BY <1>2 DEF StartWorkflow, Notes, tables
<1>3. ASSUME NEW o \in {"ok", "error"}, NEW waiting \in BOOLEAN,
             IsNeedsInfo(d, o, waiting)
      PROVE  LaterStep(d)
  <2> DEFINE going == (o = "ok" /\ Running(IssueOf(d))) \/ waiting
  <2>1. CASE going
    BY <1>3, <2>1 DEF IsNeedsInfo, Notes, tables
  <2>2. CASE ~going
    BY <1>3, <2>2 DEF IsNeedsInfo, Notes, tables
  <2> QED BY <2>1, <2>2
<1>4. ASSUME NEW dept \in {"not_bot", "dept_disabled", "active"},
             Resolve(d, dept)
      PROVE  LaterStep(d)
  <2>1. PICK step \in {"dispatch_unassigned", "not_bot", "dept_disabled",
                       "budget", "iteration_unauthorized", "needs_info",
                       "count"} : Goes(d, "resolve", step)
    <3>1. Carries(d).assigned \in BOOLEAN
      BY <1>4, PipelineAssumption
      DEF Resolve, TypeOK, Carries, AllPayloads
    <3> QED BY <1>4, <3>1 DEF Resolve
  <2> QED BY <1>4, <2>1 DEF Resolve, tables, history
<1>5. ASSUME NEW count \in 0 .. MAX_CONCURRENT, Count(d, count)
      PROVE  LaterStep(d)
  BY <1>5 DEF Count, tables, history
<1>6. ASSUME NEW verdict \in Verdicts, Budget(d, verdict) PROVE LaterStep(d)
  BY <1>6 DEF Budget, Verdicts, tables, history
<1> QED BY <1>1, <1>2, <1>3, <1>4, <1>5, <1>6 DEF Dispatch
-----------------------------------------------------------------------------
\* Dedup survives the steps beyond it.
LEMMA LaterKeepsDedup ==
    ASSUME TypeOK, DedupInv, NEW d \in Deliveries, LaterStep(d)
    PROVE  DedupInv'
<1>1. PICK step \in Passed : pc' = [pc EXCEPT ![d] = step]
  BY DEF LaterStep
<1>2. \A c \in Deliveries : pc'[c] \in Passed \union {"insert"}
                           => pc[c] \in Passed \union {"insert"}
  BY <1>1 DEF LaterStep, TypeOK
<1>3. \A c \in Deliveries : pc'[c] \in Passed => pc[c] \in Passed
  BY <1>1 DEF LaterStep, TypeOK
<1>4. /\ ev' = ev /\ rows' = rows /\ overlapped' = overlapped
      /\ faulty \subseteq faulty'
  BY DEF LaterStep
<1> QED BY <1>2, <1>3, <1>4 DEF DedupInv

\* _exists, then _insert.
LEMMA ExistsKeepsDedup ==
    ASSUME TypeOK, DedupInv, NEW d \in Deliveries,
           NEW o \in {"ok", "error"}, Exists(d, o)
    PROVE  DedupInv'
<1>0. /\ pc \in [Deliveries -> Pcs] /\ pc[d] = "exists" /\ ev[d] \in Events
      /\ ev' = ev /\ rows' = rows
      /\ faulty \subseteq faulty' /\ overlapped \subseteq overlapped'
  BY DEF TypeOK, Pcs, Exists, Goes, Notes, tables, Steps
<1>1. CASE o # "ok"
  <2>1. ev[d] \in faulty' /\ \A c \in Deliveries \ {d} : pc'[c] = pc[c]
    BY <1>0, <1>1 DEF Exists, Goes, Notes
  <2> QED BY <1>0, <2>1 DEF DedupInv
<1>2. CASE o = "ok" /\ rows[ev[d]] = "live"
  <2>1. /\ pc'[d] = "duplicate"
        /\ \A c \in Deliveries \ {d} : pc'[c] = pc[c]
    BY <1>0, <1>2 DEF Exists, Goes
  <2>2. pc'[d] \notin Passed \union {"insert"}
    BY <2>1 DEF Passed
  <2> QED BY <1>0, <2>1, <2>2 DEF DedupInv
<1>3. CASE o = "ok" /\ rows[ev[d]] # "live"
  <2>1. /\ pc'[d] = "insert"
        /\ \A c \in Deliveries \ {d} : pc'[c] = pc[c]
    BY <1>0, <1>3 DEF Exists, Goes
  <2>2. pc'[d] \notin Passed
    BY <2>1 DEF Passed
  <2>3. ASSUME NEW c \in Deliveries \ {d}, ev[c] = ev[d],
               pc[c] \in Passed \union {"insert"}
        PROVE  ev[d] \in overlapped' \union faulty'
    <3>1. CASE pc[c] \in Passed
      BY <1>0, <1>3, <2>3, <3>1 DEF DedupInv
    <3>2. CASE pc[c] = "insert"
      BY <2>3, <3>2 DEF Exists
    <3> QED BY <2>3, <3>1, <3>2
  <2> QED BY <1>0, <2>1, <2>2, <2>3 DEF DedupInv
<1> QED BY <1>1, <1>2, <1>3

\* Writing the row of an event keeps DedupInv.
LEMMA InsertKeepsDedup ==
    ASSUME TypeOK, DedupInv, NEW d \in Deliveries,
           NEW o \in {"ok", "error"}, Insert(d, o)
    PROVE  DedupInv'
<1>0. /\ pc \in [Deliveries -> Pcs] /\ pc[d] = "insert" /\ ev[d] \in Events
      /\ rows \in [Events -> {"absent", "live", "expired"}]
      /\ ev' = ev /\ overlapped' = overlapped /\ faulty \subseteq faulty'
      /\ pc'[d] = "blocked"
      /\ \A c \in Deliveries \ {d} : pc'[c] = pc[c]
      /\ \A e \in Events : rows'[e] = rows[e] \/ rows'[e] = "live"
  BY DEF TypeOK, Pcs, Insert, Goes, Notes, Steps
<1>1. ev[d] \in overlapped' \union faulty' \/ rows'[ev[d]] = "live"
  <2>1. CASE o # "ok"
    BY <2>1 DEF Insert, Notes
  <2>2. CASE o = "ok"
    BY <1>0, <2>2 DEF Insert, DedupInv
  <2> QED BY <2>1, <2>2
<1>2. \A c \in Deliveries : pc'[c] \in Passed \union {"insert"}
                           => pc[c] \in Passed \union {"insert"}
  BY <1>0
<1>3. \A e \in Events : rows'[e] = "expired" => e \in faulty'
  BY <1>0 DEF DedupInv
<1>4. ASSUME NEW c \in Deliveries, pc'[c] \in Passed,
             ev[c] \notin overlapped' \union faulty'
      PROVE  rows'[ev[c]] = "live"
  <2>1. CASE c = d
    BY <1>1, <1>4, <2>1
  <2>2. CASE c # d
    <3>1. pc[c] \in Passed /\ ev[c] \in Events
      BY <1>0, <1>4, <2>2 DEF TypeOK, Passed
    <3> QED BY <1>0, <1>4, <3>1 DEF DedupInv
  <2> QED BY <2>1, <2>2
<1> QED BY <1>0, <1>2, <1>3, <1>4 DEF DedupInv
\* The provider, the clock and a stop of the process.
LEMMA EnvironmentKeepsDedup ==
    ASSUME TypeOK, DedupInv, Environment
    PROVE  DedupInv'
<1>1. ASSUME NEW d \in Deliveries, NEW e \in Events, Arrive(d, e)
      PROVE  DedupInv'
  <2>1. /\ pc[d] = "idle" /\ pc'[d] = "exists"
        /\ \A c \in Deliveries \ {d} : pc'[c] = pc[c] /\ ev'[c] = ev[c]
        /\ UNCHANGED <<rows, overlapped, faulty>>
    BY <1>1 DEF Arrive, Goes, TypeOK, tables, history
  <2>2. pc'[d] \notin Passed \union {"insert"}
    BY <2>1 DEF Passed
  <2> QED BY <2>1, <2>2 DEF DedupInv
<1>2. ASSUME NEW e \in Events, RowExpires(e)
      PROVE  DedupInv'
  <2>1. /\ \A f \in Events \ {e} : rows'[f] = rows[f]
        /\ e \in faulty' /\ faulty \subseteq faulty'
        /\ UNCHANGED <<ev, pc, overlapped>>
    BY <1>2 DEF RowExpires, TypeOK
  <2>2. \A d \in Deliveries : pc[d] \in Passed => ev[d] \in Events
    BY DEF TypeOK, Passed
  <2> QED BY <2>1, <2>2 DEF DedupInv
<1>3. ASSUME cleanup_expired PROVE DedupInv'
  <2>1. /\ \A f \in Events : rows'[f] = rows[f] \/ rows[f] = "expired"
        /\ \A f \in Events : rows'[f] # "expired"
        /\ UNCHANGED <<ev, pc, overlapped, faulty>>
    BY <1>3 DEF cleanup_expired, TypeOK, history
  <2>2. \A d \in Deliveries : pc[d] \in Passed => ev[d] \in Events
    BY DEF TypeOK, Passed
  <2> QED BY <2>1, <2>2 DEF DedupInv
<1>4. ASSUME Crash PROVE DedupInv'
  <2>1. /\ \A d \in Deliveries : pc'[d] = pc[d] \/ pc'[d] = "dead"
        /\ faulty \subseteq faulty' /\ UNCHANGED <<ev, rows, overlapped>>
    BY <1>4 DEF Crash, tables
  <2>2. "dead" \notin Passed \union {"insert"}
    BY DEF Passed
  <2> QED BY <2>1, <2>2 DEF DedupInv
<1>5. ASSUME NEW i \in Issues, DropAges(i) \/ BlockEnds(i) \/ GatewayCloses(i)
      PROVE  DedupInv'
  BY <1>5 DEF DropAges, BlockEnds, GatewayCloses, DedupInv, tables, history
<1> QED BY <1>1, <1>2, <1>3, <1>4, <1>5 DEF Environment

\* Dedup, over every step.
LEMMA DedupInductive ==
    ASSUME TypeOK, DedupInv, [Next]_vars
    PROVE  DedupInv'
<1>1. ASSUME NEW d \in Deliveries, Handle(d) PROVE DedupInv'
  BY <1>1, HandleSplit, GuardIsLater, DispatchIsLater, LaterKeepsDedup,
     ExistsKeepsDedup, InsertKeepsDedup
<1>2. CASE UNCHANGED vars
  BY <1>2 DEF vars, tables, history, DedupInv
<1> QED BY <1>1, <1>2, EnvironmentKeepsDedup DEF Next
-----------------------------------------------------------------------------
\* Types: the handler.
LEMMA HandlePreservesType ==
    ASSUME TypeOK, NEW d \in Deliveries, Handle(d)
    PROVE  TypeOK'
<1> USE DEF TypeOK
<1>0. Passed \subseteq Pcs \ {"idle"}
  BY DEF Passed
<1>1. ASSUME NEW o \in {"ok", "error"}, Exists(d, o) PROVE TypeOK'
  <2>1. PICK step \in {"blocked", "duplicate", "insert"} : Goes(d, "exists", step)
    BY <1>1 DEF Exists
  <2> QED BY <1>1, <2>1 DEF Exists, Goes, Notes, Steps, Answers, Dropped,
             tables, cluster
<1>2. ASSUME NEW o \in {"ok", "error"}, Insert(d, o) PROVE TypeOK'
  BY <1>2 DEF Insert, Goes, Notes, Steps, cluster
<1>3. ASSUME Guard(d) PROVE TypeOK'
  <2>0. PICK step \in Passed : pc' = [pc EXCEPT ![d] = step]
    BY <1>3, GuardIsLater DEF LaterStep
  <2>1. /\ pc' \in [Deliveries -> Pcs] /\ ev' = ev /\ payload' = payload
        /\ rows' = rows /\ overlapped' = overlapped
        /\ faulty' \subseteq Events
        /\ ev[d] \in Events /\ IssueOf(d) \in Issues
        /\ \A c \in Deliveries : pc'[c] # "idle" => ev[c] \in Events
    BY <1>0, <1>3, <2>0, GuardIsLater, PipelineAssumption
    DEF LaterStep, Pcs, IssueOf, Carries, AllPayloads
  <2>2. UNCHANGED gateway
    BY <1>3 DEF Guard, IsBlocked, RecordDrop, IsStorm, BlockIssue, BotIds,
                cluster
  <2> DEFINE Kept == /\ drops' \in [Issues -> Nat]
                     /\ botDrops' \in [Issues -> Nat]
                     /\ blocks' \subseteq Issues
                     /\ blinded' \subseteq Events
  <2>3. Kept
    <3>1. ASSUME NEW o \in {"ok", "error"}, RecordDrop(d, o)
          PROVE  Kept
      BY <2>1, <3>1 DEF RecordDrop
    <3>2. ASSUME NEW o \in {"ok", "error"},
                 IsBlocked(d, o) \/ IsStorm(d, o) \/ BlockIssue(d, o)
          PROVE  Kept
      BY <2>1, <3>2 DEF IsBlocked, IsStorm, BlockIssue, tables
    <3>3. ASSUME NEW known \in BOOLEAN, BotIds(d, known)
          PROVE  Kept
      BY <2>1, <3>3 DEF BotIds, tables
    <3> QED BY <1>3, <3>1, <3>2, <3>3 DEF Guard
  <2> QED BY <2>1, <2>2, <2>3 DEF Pcs
<1>4. ASSUME Dispatch(d) PROVE TypeOK'
  <2>0. PICK step \in Passed : pc' = [pc EXCEPT ![d] = step]
    BY <1>4, DispatchIsLater DEF LaterStep
  <2>1. /\ pc' \in [Deliveries -> Pcs] /\ ev' = ev /\ payload' = payload
        /\ rows' = rows /\ overlapped' = overlapped
        /\ faulty' \subseteq Events
        /\ ev[d] \in Events /\ IssueOf(d) \in Issues
        /\ \A c \in Deliveries : pc'[c] # "idle" => ev[c] \in Events
    BY <1>0, <1>4, <2>0, DispatchIsLater, PipelineAssumption
    DEF LaterStep, Pcs, IssueOf, Carries, AllPayloads
  <2>2. UNCHANGED <<drops, blocks, blinded, botDrops>>
    BY <1>4 DEF Dispatch, Signal, ForwardApproval, StartIteration,
                StartWorkflow, IsNeedsInfo, Resolve, Count, Budget, tables,
                history
  <2> DEFINE Kept == gateway' \in [Issues -> {"none", "running", "closed"}]
  <2>3. Kept
    <3>1. ASSUME NEW o \in {"ok", "error"}, StartWorkflow(d, o)
          PROVE  Kept
      BY <2>1, <3>1 DEF StartWorkflow
    <3>2. CASE UNCHANGED cluster
      BY <3>2 DEF cluster
    <3> QED BY <1>4, <3>1, <3>2 DEF Dispatch, Signal, ForwardApproval,
               StartIteration, IsNeedsInfo, Resolve, Count, Budget
  <2> QED BY <2>1, <2>2, <2>3 DEF Pcs
<1> QED BY HandleSplit, <1>1, <1>2, <1>3, <1>4

\* Types: the environment.
LEMMA EnvironmentPreservesType ==
    ASSUME TypeOK, Environment
    PROVE  TypeOK'
<1> USE DEF TypeOK, tables, cluster, history
<1>1. ASSUME NEW d \in Deliveries, NEW e \in Events, Arrive(d, e) PROVE TypeOK'
  BY <1>1 DEF Arrive, Goes, Steps
<1>2. ASSUME NEW e \in Events, RowExpires(e) PROVE TypeOK'
  BY <1>2 DEF RowExpires
<1>3. ASSUME cleanup_expired PROVE TypeOK'
  BY <1>3 DEF cleanup_expired
<1>4. ASSUME Crash PROVE TypeOK'
  <2>1. {ev[d] : d \in {c \in Deliveries : pc[c] \in Steps}} \subseteq Events
    BY DEF Steps
  <2> QED BY <1>4, <2>1 DEF Crash
<1>5. ASSUME NEW i \in Issues, DropAges(i) PROVE TypeOK'
  BY <1>5 DEF DropAges
<1>6. ASSUME NEW i \in Issues, BlockEnds(i) \/ GatewayCloses(i) PROVE TypeOK'
  BY <1>6 DEF BlockEnds, GatewayCloses
<1> QED BY <1>1, <1>2, <1>3, <1>4, <1>5, <1>6 DEF Environment
-----------------------------------------------------------------------------
\* Steps that record nothing, send no handler to block and add no block.
LEMMA QuietKeepsStorm ==
    ASSUME TypeOK, StormInv, UNCHANGED <<payload, ev, drops, blocks, botDrops>>,
           \A d \in Deliveries : pc'[d] = "block" => pc[d] = "block"
    PROVE  StormInv'
BY DEF StormInv, IssueOf, Carries

\* Every step keeps StormInv.
LEMMA StormInductive ==
    ASSUME TypeOK, StormInv, [Next]_vars
    PROVE  StormInv'
<1> DEFINE Quiet == /\ UNCHANGED <<payload, ev, drops, blocks, botDrops>>
                    /\ \A d \in Deliveries : pc'[d] = "block" => pc[d] = "block"
<1>0. ASSUME Quiet PROVE StormInv'
  BY <1>0, QuietKeepsStorm
<1>1. ASSUME NEW d \in Deliveries, Handle(d) PROVE StormInv'
  <2>0. ASSUME NEW s, pc' = [pc EXCEPT ![d] = s], s # "block"
        PROVE  \A c \in Deliveries : pc'[c] = "block" => pc[c] = "block"
    BY <2>0 DEF TypeOK
  <2>1. ASSUME NEW o \in {"ok", "error"}, Exists(d, o) PROVE StormInv'
    <3>1. PICK s \in {"blocked", "duplicate", "insert"} :
              pc' = [pc EXCEPT ![d] = s]
      BY <2>1 DEF Exists, Goes
    <3>2. Quiet
      BY <2>0, <2>1, <3>1 DEF Exists, tables
    <3> QED BY <1>0, <3>2
  <2>2. ASSUME NEW o \in {"ok", "error"}, Insert(d, o) PROVE StormInv'
    BY <1>0, <2>0, <2>2 DEF Insert, Goes
  <2>3. ASSUME NEW o \in {"ok", "error"}, IsBlocked(d, o) PROVE StormInv'
    BY <1>0, <2>0, <2>3 DEF IsBlocked, Goes, tables
  <2>4. ASSUME NEW known \in BOOLEAN, BotIds(d, known) PROVE StormInv'
    BY <1>0, <2>0, <2>4 DEF BotIds, Goes, tables
  <2>5. ASSUME NEW o \in {"ok", "error"}, RecordDrop(d, o) PROVE StormInv'
    <3>1. /\ IssueOf(d) \in Issues
          /\ \A c \in Deliveries : pc'[c] = "block" =>
                 pc[c] = "block" /\ IssueOf(c) \in Issues
          /\ payload' = payload /\ ev' = ev /\ blocks' = blocks
      BY <2>5, PipelineAssumption
      DEF RecordDrop, Goes, TypeOK, IssueOf, Carries, AllPayloads
    <3>2. \A i \in Issues : botDrops'[i] >= botDrops[i]
      BY <2>5 DEF RecordDrop, TypeOK
    <3>3. \A i \in Issues : drops'[i] <= botDrops'[i]
      BY <2>5, <3>1 DEF RecordDrop, TypeOK, StormInv
    <3>4. \A i \in Issues : botDrops[i] \in Nat /\ botDrops'[i] \in Nat
      BY <2>5 DEF RecordDrop, TypeOK
    <3>5. blocks \subseteq Issues
      BY DEF TypeOK
    <3>6. \A c \in Deliveries :
              pc'[c] = "block" => botDrops'[IssueOf(c)] >= STORM_THRESHOLD
      BY <3>1, <3>2, <3>4, PipelineAssumption DEF StormInv
    <3>7. \A i \in blocks : botDrops'[i] >= STORM_THRESHOLD
      BY <3>2, <3>4, <3>5, PipelineAssumption DEF StormInv
    <3> QED BY <3>1, <3>3, <3>6, <3>7 DEF StormInv, IssueOf, Carries
  <2>6. ASSUME NEW o \in {"ok", "error"}, IsStorm(d, o) PROVE StormInv'
    <3>1. IssueOf(d) \in Issues
      BY <2>6, PipelineAssumption
      DEF IsStorm, Goes, TypeOK, IssueOf, Carries, AllPayloads
    <3>2. pc'[d] = "block" => botDrops[IssueOf(d)] >= STORM_THRESHOLD
      BY <2>6, <3>1, PipelineAssumption DEF IsStorm, Goes, TypeOK, StormInv
    <3>3. \A c \in Deliveries \ {d} : pc'[c] = pc[c]
      BY <2>6 DEF IsStorm, Goes, TypeOK
    <3> QED BY <2>6, <3>2, <3>3 DEF IsStorm, StormInv, tables, IssueOf, Carries
  <2>7. ASSUME NEW o \in {"ok", "error"}, BlockIssue(d, o) PROVE StormInv'
    <3>1. \A c \in Deliveries : pc'[c] = "block" => pc[c] = "block"
      BY <2>0, <2>7 DEF BlockIssue, Goes
    <3>2. \A i \in blocks' : botDrops[i] >= STORM_THRESHOLD
      BY <2>7 DEF BlockIssue, Goes, StormInv
    <3> QED BY <2>7, <3>1, <3>2 DEF BlockIssue, StormInv, IssueOf, Carries
  <2>8. ASSUME Dispatch(d) PROVE StormInv'
    <3>1. PICK s \in Passed : pc' = [pc EXCEPT ![d] = s]
      BY <2>8, DispatchIsLater DEF LaterStep
    <3>2. s # "block"
      <4>1. Carries(d).assigned \in BOOLEAN \/ pc[d] # "resolve"
        BY PipelineAssumption DEF TypeOK, Carries, AllPayloads
      <4>2. pc'[d] # "block"
        BY <2>8, <4>1 DEF Dispatch, Signal, ForwardApproval, StartIteration,
           StartWorkflow, IsNeedsInfo, Resolve, Count, Budget, Verdicts, Goes,
           TypeOK
      <4> QED BY <3>1, <4>2 DEF TypeOK
    <3>3. UNCHANGED <<payload, ev, drops, blocks, botDrops>>
      BY <2>8 DEF Dispatch, Signal, ForwardApproval, StartIteration,
         StartWorkflow, IsNeedsInfo, Resolve, Count, Budget, tables, history
    <3> QED BY <1>0, <2>0, <3>1, <3>2, <3>3
  <2> QED BY <1>1, HandleSplit, <2>1, <2>2, <2>3, <2>4, <2>5, <2>6, <2>7, <2>8
          DEF Guard
<1>2. ASSUME Environment PROVE StormInv'
  <2>1. ASSUME NEW d \in Deliveries, NEW e \in Events, Arrive(d, e)
        PROVE  StormInv'
    BY <2>1 DEF Arrive, Goes, TypeOK, StormInv, tables, history, IssueOf, Carries
  <2>2. ASSUME NEW i \in Issues, DropAges(i) PROVE StormInv'
    <3>1. \A j \in Issues : drops'[j] <= drops[j]
      BY <2>2 DEF DropAges, TypeOK
    <3>2. \A j \in Issues : drops'[j] \in Nat /\ drops[j] \in Nat /\ botDrops[j] \in Nat
      BY <2>2 DEF DropAges, TypeOK
    <3>3. \A j \in Issues : drops'[j] <= botDrops[j]
      BY <3>1, <3>2 DEF StormInv
    <3> QED BY <2>2, <3>3 DEF DropAges, StormInv, history, IssueOf, Carries
  <2>3. ASSUME NEW i \in Issues, BlockEnds(i) PROVE StormInv'
    BY <2>3 DEF BlockEnds, StormInv, history, IssueOf, Carries
  <2>4. ASSUME Crash PROVE StormInv'
    <3>1. Quiet
      BY <2>4 DEF Crash, tables
    <3> QED BY <1>0, <3>1
  <2>5. ASSUME \/ cleanup_expired
               \/ \E e \in Events : RowExpires(e)
               \/ \E i \in Issues : GatewayCloses(i)
        PROVE  StormInv'
    BY <1>0, <2>5 DEF cleanup_expired, RowExpires, GatewayCloses, tables, history
  <2> QED BY <1>2, <2>1, <2>2, <2>3, <2>4, <2>5 DEF Environment
<1>3. CASE UNCHANGED vars
  BY <1>0, <1>3 DEF vars, tables, history
<1> QED BY <1>1, <1>2, <1>3 DEF Next
-----------------------------------------------------------------------------
\* PInv is an invariant of the pipeline: types, one run per issue, the dedup
\* row of every passed event, and the storm behind every block.
THEOREM PipelineInvariant == Spec => []PInv
<1>1. Init => PInv
  <2> SUFFICES ASSUME Init PROVE PInv OBVIOUS
  <2>1. TypeOK
    BY DEF Init, TypeOK
  <2>2. StormInv
    BY PipelineAssumption DEF Init, StormInv
  <2>3. DedupInv
    <3>1. \A d \in Deliveries : pc[d] \notin Passed \union {"insert"}
      BY DEF Init, Passed
    <3> QED BY <3>1 DEF Init, DedupInv
  <2> QED BY <2>1, <2>2, <2>3 DEF PInv
<1>2. PInv /\ [Next]_vars => PInv'
  <2> SUFFICES ASSUME PInv, [Next]_vars PROVE PInv' OBVIOUS
  <2>1. TypeOK'
    <3>1. CASE UNCHANGED vars
      BY <3>1 DEF PInv, TypeOK, vars, tables, cluster, history
    <3> QED BY <3>1, HandlePreservesType, EnvironmentPreservesType
            DEF PInv, Next
  <2> QED BY <2>1, DedupInductive, StormInductive DEF PInv
<1> QED BY <1>1, <1>2, PTL DEF Spec

\* EventDedup.check: whatever acts twice on one event slipped through the gap
\* between look-up and insert, or met a fault.
THEOREM DedupWindow == Spec => []DuplicatesNeedOverlap
<1>1. PInv => DuplicatesNeedOverlap
  <2>1. Acting \subseteq Passed
    BY DEF Acting, Passed, Pcs, Answers
  <2> QED BY <2>1 DEF PInv, DedupInv, DuplicatesNeedOverlap
<1> QED BY <1>1, PipelineInvariant, PTL

\* LoopGuard._block_issue: no block without STORM_THRESHOLD recorded drops.
THEOREM BlocksAreEarned == Spec => []BlockNeedsStorm
<1>1. PInv => BlockNeedsStorm
  BY DEF PInv, StormInv, BlockNeedsStorm
<1> QED BY <1>1, PipelineInvariant, PTL
-----------------------------------------------------------------------------
\* Awaits and answers of a delivery whose author the guard let pass.
Admitted == {"resolve", "needs_info", "signal", "approval", "count", "budget",
             "start", "iterate"} \union Acting

\* Who is admitted: people, bots the guard did not see for what they are, and
\* bots that approve somebody else's work.
Rightly(d) ==
    Carries(d).author \in Bots =>
        \/ ev[d] \in blinded \union faulty
        \/ /\ Carries(d).kind = "approve"
           /\ Carries(d).author = "bot" \/ ~Carries(d).assigned

AdmissionInv == \A d \in Deliveries : pc[d] \in Admitted => Rightly(d)

\* A step that admits nobody new and forgets no fault keeps the admissions.
LEMMA KeepsAdmission ==
    ASSUME AdmissionInv, payload' = payload,
           blinded \subseteq blinded', faulty \subseteq faulty',
           \A d \in Deliveries : pc'[d] \in Admitted =>
               pc[d] \in Admitted /\ ev'[d] = ev[d]
    PROVE  AdmissionInv'
BY DEF AdmissionInv, Rightly, Carries

\* Every step keeps AdmissionInv.
LEMMA AdmissionInductive ==
    ASSUME TypeOK, AdmissionInv, [Next]_vars
    PROVE  AdmissionInv'
<1> DEFINE Kept == /\ payload' = payload
                   /\ blinded \subseteq blinded' /\ faulty \subseteq faulty'
                   /\ \A d \in Deliveries : pc'[d] \in Admitted =>
                          pc[d] \in Admitted /\ ev'[d] = ev[d]
<1>0. ASSUME Kept PROVE AdmissionInv'
  BY <1>0, KeepsAdmission
<1>1. ASSUME NEW d \in Deliveries, Handle(d) PROVE AdmissionInv'
  <2>0. ASSUME NEW s, pc' = [pc EXCEPT ![d] = s], ev' = ev,
               s \notin Admitted \/ pc[d] \in Admitted
        PROVE  \A c \in Deliveries : pc'[c] \in Admitted =>
                   pc[c] \in Admitted /\ ev'[c] = ev[c]
    BY <2>0 DEF TypeOK
  <2>1. ASSUME NEW o \in {"ok", "error"}, Exists(d, o) PROVE AdmissionInv'
    <3>1. PICK s \in {"blocked", "duplicate", "insert"} :
              pc' = [pc EXCEPT ![d] = s]
      BY <2>1 DEF Exists, Goes
    <3>2. s \notin Admitted
      BY <3>1 DEF Admitted, Acting
    <3> QED BY <1>0, <2>0, <2>1, <3>1, <3>2 DEF Exists, Notes
  <2>2. ASSUME NEW o \in {"ok", "error"}, Insert(d, o) PROVE AdmissionInv'
    <3>1. "blocked" \notin Admitted
      BY DEF Admitted, Acting
    <3> QED BY <1>0, <2>0, <2>2, <3>1 DEF Insert, Goes, Notes
  <2>3. ASSUME NEW o \in {"ok", "error"},
               \/ IsBlocked(d, o) \/ RecordDrop(d, o)
               \/ IsStorm(d, o) \/ BlockIssue(d, o)
        PROVE  AdmissionInv'
    <3>1. PICK s \in {"loop_guard_blocked", "bots", "storm", "block", "loop_guard"} :
              pc' = [pc EXCEPT ![d] = s]
      BY <2>3 DEF IsBlocked, RecordDrop, IsStorm, BlockIssue, Goes
    <3>2. s \notin Admitted
      BY <3>1 DEF Admitted, Acting
    <3> QED BY <1>0, <2>0, <2>3, <3>1, <3>2
            DEF IsBlocked, RecordDrop, IsStorm, BlockIssue, Notes
  <2>4. ASSUME NEW known \in BOOLEAN, BotIds(d, known) PROVE AdmissionInv'
    <3>1. /\ pc[d] = "bots" /\ payload' = payload /\ ev' = ev
          /\ faulty' = faulty /\ blinded \subseteq blinded'
          /\ \A c \in Deliveries \ {d} : pc'[c] = pc[c]
      BY <2>4 DEF BotIds, Goes, TypeOK
    <3>2. Carries(d) \in AllPayloads
      BY <3>1, PipelineAssumption DEF TypeOK, Carries
    <3>3. pc'[d] \in Admitted => Rightly(d)'
      <4>1. CASE Carries(d).author \notin Bots
        BY <3>1, <4>1 DEF Rightly, Carries
      <4>2. CASE Carries(d).author \in Bots /\ ~known
        BY <2>4, <3>1, <4>2 DEF BotIds, Rightly, Carries
      <4>3. CASE Carries(d).author \in Bots /\ approval_gate_exempt(d)
        BY <3>1, <3>2, <4>3
        DEF approval_gate_exempt, Rightly, Carries, Bots, AllPayloads
      <4>4. CASE Carries(d).author \in Bots /\ known /\ ~approval_gate_exempt(d)
        <5>1. pc'[d] = "record"
          BY <2>4, <4>4 DEF BotIds, Goes, TypeOK
        <5> QED BY <5>1 DEF Admitted, Acting
      <4> QED BY <4>1, <4>2, <4>3, <4>4
    <3> QED BY <3>1, <3>3 DEF AdmissionInv, Rightly, Carries
  <2>5. ASSUME Dispatch(d) PROVE AdmissionInv'
    <3>1. PICK s \in Passed : pc' = [pc EXCEPT ![d] = s]
      BY <2>5, DispatchIsLater DEF LaterStep
    <3>2. pc[d] \in Admitted
      BY <2>5 DEF Dispatch, Signal, ForwardApproval, StartIteration, Goes,
         StartWorkflow, IsNeedsInfo, Resolve, Count, Budget, Admitted
    <3>3. payload' = payload /\ ev' = ev /\ faulty \subseteq faulty'
      BY <2>5, DispatchIsLater DEF LaterStep
    <3>4. blinded' = blinded
      BY <2>5 DEF Dispatch, Signal, ForwardApproval, StartIteration,
         StartWorkflow, IsNeedsInfo, Resolve, Count, Budget, history
    <3> QED BY <1>0, <2>0, <3>1, <3>2, <3>3, <3>4
  <2> QED BY <1>1, HandleSplit, <2>1, <2>2, <2>3, <2>4, <2>5 DEF Guard
<1>2. ASSUME Environment PROVE AdmissionInv'
  <2>1. ASSUME NEW d \in Deliveries, NEW e \in Events, Arrive(d, e)
        PROVE  AdmissionInv'
    <3>1. "exists" \notin Admitted
      BY DEF Admitted, Acting
    <3> QED BY <1>0, <2>1, <3>1 DEF Arrive, Goes, TypeOK, history
  <2>2. ASSUME Crash PROVE AdmissionInv'
    <3>1. "dead" \notin Admitted
      BY DEF Admitted, Acting
    <3> QED BY <1>0, <2>2, <3>1 DEF Crash
  <2>3. ASSUME \/ cleanup_expired
               \/ \E e \in Events : RowExpires(e)
               \/ \E i \in Issues : DropAges(i) \/ BlockEnds(i) \/ GatewayCloses(i)
        PROVE  AdmissionInv'
    BY <1>0, <2>3 DEF cleanup_expired, RowExpires, DropAges, BlockEnds,
       GatewayCloses, history
  <2> QED BY <1>2, <2>1, <2>2, <2>3 DEF Environment
<1>3. CASE UNCHANGED vars
  BY <1>0, <1>3 DEF vars, history
<1> QED BY <1>1, <1>2, <1>3 DEF Next

\* A step that adds no drop, ends no block, takes no handler out of the storm
\* check and forgets no fault leaves every storm noticed.
LEMMA KeepsNoticed ==
    ASSUME StormIsNoticed, TypeOK, payload' = payload, blocks \subseteq blocks',
           faulty \subseteq faulty', \A i \in Issues : drops'[i] = drops[i],
           \A d \in Deliveries : pc[d] \in {"storm", "block"} =>
               pc'[d] \in {"storm", "block"} /\ ev'[d] = ev[d]
    PROVE  StormIsNoticed'
<1>1. SUFFICES ASSUME NEW i \in Issues, drops'[i] >= STORM_THRESHOLD,
                      i \notin blocks',
                      ~ \E e \in faulty' : payload'[e].issue = i,
                      TypeOK
               PROVE  \E d \in Deliveries :
                          pc'[d] \in {"storm", "block"} /\ IssueOf(d)' = i
  BY PipelineAssumption DEF StormIsNoticed, TypeOK
<1>2. drops[i] \in Nat /\ ~(drops[i] < STORM_THRESHOLD)
  BY <1>1, PipelineAssumption DEF TypeOK
<1>3. PICK d \in Deliveries : pc[d] \in {"storm", "block"} /\ IssueOf(d) = i
  BY <1>1, <1>2 DEF StormIsNoticed
<1> QED BY <1>1, <1>3 DEF IssueOf, Carries

\* Every step keeps StormIsNoticed.
LEMMA NoticedInductive ==
    ASSUME TypeOK, TypeOK', StormIsNoticed, [Next]_vars
    PROVE  StormIsNoticed'
<1> DEFINE Kept == /\ payload' = payload /\ blocks \subseteq blocks'
                   /\ faulty \subseteq faulty'
                   /\ \A i \in Issues : drops'[i] = drops[i]
                   /\ \A d \in Deliveries : pc[d] \in {"storm", "block"} =>
                          pc'[d] \in {"storm", "block"} /\ ev'[d] = ev[d]
<1>0. ASSUME Kept PROVE StormIsNoticed'
  BY <1>0, KeepsNoticed
<1>1. ASSUME NEW d \in Deliveries, Handle(d) PROVE StormIsNoticed'
  <2>0. ASSUME NEW s, pc' = [pc EXCEPT ![d] = s], ev' = ev,
               pc[d] \notin {"storm", "block"} \/ s \in {"storm", "block"}
        PROVE  \A c \in Deliveries : pc[c] \in {"storm", "block"} =>
                   pc'[c] \in {"storm", "block"} /\ ev'[c] = ev[c]
    BY <2>0 DEF TypeOK
  <2>1. ASSUME NEW o \in {"ok", "error"}, Exists(d, o) \/ Insert(d, o) \/ IsBlocked(d, o)
        PROVE  StormIsNoticed'
    <3>1. /\ pc[d] \in {"exists", "insert", "blocked"}
          /\ \E s : pc' = [pc EXCEPT ![d] = s]
      BY <2>1 DEF Exists, Insert, IsBlocked, Goes
    <3>2. UNCHANGED <<payload, ev, drops, blocks>> /\ faulty \subseteq faulty'
      BY <2>1 DEF Exists, Insert, IsBlocked, Notes, tables
    <3> QED BY <1>0, <2>0, <3>1, <3>2
  <2>2. ASSUME NEW known \in BOOLEAN, BotIds(d, known) PROVE StormIsNoticed'
    BY <1>0, <2>0, <2>2 DEF BotIds, Goes, tables
  <2>3. ASSUME Dispatch(d) PROVE StormIsNoticed'
    <3>1. /\ pc[d] \notin {"storm", "block"}
          /\ \E s : pc' = [pc EXCEPT ![d] = s]
      BY <2>3 DEF Dispatch, Signal, ForwardApproval, StartIteration, Goes,
         StartWorkflow, IsNeedsInfo, Resolve, Count, Budget
    <3>2. payload' = payload /\ ev' = ev /\ faulty \subseteq faulty'
      BY <2>3, DispatchIsLater DEF LaterStep
    <3>3. UNCHANGED <<drops, blocks>>
      BY <2>3 DEF Dispatch, Signal, ForwardApproval, StartIteration,
         StartWorkflow, IsNeedsInfo, Resolve, Count, Budget, tables
    <3> QED BY <1>0, <2>0, <3>1, <3>2, <3>3
  \* The other three belong to one issue and leave the rest as it is.
  <2>4. ASSUME NEW o \in {"ok", "error"},
               RecordDrop(d, o) \/ IsStorm(d, o) \/ BlockIssue(d, o),
               NEW i \in Issues, i # IssueOf(d),
               ~(drops[i] < STORM_THRESHOLD), i \notin blocks,
               ~ \E e \in faulty : payload[e].issue = i
        PROVE  \E c \in Deliveries :
                   pc'[c] \in {"storm", "block"} /\ IssueOf(c)' = i
    <3>1. PICK c \in Deliveries : pc[c] \in {"storm", "block"} /\ IssueOf(c) = i
      BY <2>4 DEF StormIsNoticed
    <3>2. c # d
      BY <2>4, <3>1
    <3>3. pc'[c] = pc[c] /\ payload' = payload /\ ev' = ev
      BY <2>4, <3>2 DEF RecordDrop, IsStorm, BlockIssue, Goes, TypeOK
    <3> QED BY <3>1, <3>3 DEF IssueOf, Carries
  <2>5. ASSUME NEW o \in {"ok", "error"},
               RecordDrop(d, o) \/ IsStorm(d, o) \/ BlockIssue(d, o)
        PROVE  StormIsNoticed'
    <3>0. /\ pc[d] \in {"record", "storm", "block"} /\ IssueOf(d) \in Issues
          /\ ev[d] \in Events
      BY <2>5, PipelineAssumption DEF RecordDrop, IsStorm, BlockIssue, Goes,
         TypeOK, IssueOf, Carries, AllPayloads
    <3>1. /\ payload' = payload /\ ev' = ev /\ IssueOf(d)' = IssueOf(d)
          /\ blocks \subseteq blocks' /\ faulty \subseteq faulty'
          /\ \A i \in Issues \ {IssueOf(d)} : drops'[i] = drops[i]
      BY <2>5, <3>0 DEF RecordDrop, IsStorm, BlockIssue, Notes, tables,
         TypeOK, IssueOf, Carries
    <3>2. \/ drops'[IssueOf(d)] < STORM_THRESHOLD
          \/ IssueOf(d) \in blocks'
          \/ pc'[d] \in {"storm", "block"}
          \/ ev[d] \in faulty'
      <4>1. CASE RecordDrop(d, o)
        BY <4>1 DEF RecordDrop, Goes, TypeOK
      <4>2. CASE IsStorm(d, o)
        <5>1. drops' = drops /\ drops[IssueOf(d)] \in Nat
          BY <3>0, <4>2 DEF IsStorm, TypeOK, tables
        <5>2. CASE o = "ok" /\ drops[IssueOf(d)] >= STORM_THRESHOLD
          BY <4>2, <5>2 DEF IsStorm, Goes, TypeOK
        <5>3. CASE o # "ok"
          BY <4>2, <5>3 DEF IsStorm, Notes
        <5> QED BY <5>1, <5>2, <5>3, PipelineAssumption
      <4>3. CASE BlockIssue(d, o)
        BY <4>3 DEF BlockIssue, Notes
      <4> QED BY <2>5, <4>1, <4>2, <4>3
    <3>3. ASSUME NEW i \in Issues
          PROVE  \/ drops'[i] < STORM_THRESHOLD \/ i \in blocks'
                 \/ \E c \in Deliveries :
                       pc'[c] \in {"storm", "block"} /\ IssueOf(c)' = i
                 \/ \E e \in faulty' : payload'[e].issue = i
      <4>1. CASE i = IssueOf(d)
        BY <3>1, <3>2, <4>1 DEF IssueOf, Carries
      <4>2. CASE i # IssueOf(d)
        BY <2>4, <2>5, <3>1, <4>2
      <4> QED BY <4>1, <4>2
    <3> QED BY <3>3 DEF StormIsNoticed
  <2> QED BY <1>1, HandleSplit, <2>1, <2>2, <2>3, <2>5 DEF Guard
<1>2. ASSUME Environment PROVE StormIsNoticed'
  <2>1. ASSUME NEW d \in Deliveries, NEW e \in Events, Arrive(d, e)
        PROVE  StormIsNoticed'
    BY <1>0, <2>1 DEF Arrive, Goes, TypeOK, tables, history
  <2>2. ASSUME NEW j \in Issues, DropAges(j) PROVE StormIsNoticed'
    <3>1. \A i \in Issues : /\ drops'[i] <= drops[i]
                            /\ drops[i] \in Nat /\ drops'[i] \in Nat
      BY <2>2 DEF DropAges, TypeOK
    <3>2. UNCHANGED <<payload, ev, pc, blocks, faulty>>
      BY <2>2 DEF DropAges, history
    <3> QED BY <3>1, <3>2, PipelineAssumption DEF StormIsNoticed, IssueOf, Carries
  <2>3. ASSUME NEW j \in Issues, BlockEnds(j) PROVE StormIsNoticed'
    <3>1. /\ drops[j] < STORM_THRESHOLD \/ \E e \in faulty : payload[e].issue = j
          /\ UNCHANGED <<payload, ev, pc, drops, faulty>>
          /\ blocks' = blocks \ {j}
      BY <2>3, PipelineAssumption DEF BlockEnds, history, TypeOK
    <3> QED BY <3>1 DEF StormIsNoticed, IssueOf, Carries
  <2>4. ASSUME Crash PROVE StormIsNoticed'
    <3>1. /\ UNCHANGED <<payload, ev, drops, blocks>> /\ faulty \subseteq faulty'
          /\ \A d \in Deliveries : pc[d] \in {"storm", "block"} => ev[d] \in faulty'
      BY <2>4 DEF Crash, tables, Steps
    <3> QED BY <3>1 DEF StormIsNoticed, IssueOf, Carries
  <2>5. ASSUME \/ cleanup_expired
               \/ \E e \in Events : RowExpires(e)
               \/ \E i \in Issues : GatewayCloses(i)
        PROVE  StormIsNoticed'
    BY <1>0, <2>5 DEF cleanup_expired, RowExpires, GatewayCloses, tables, history
  <2> QED BY <1>2, <2>1, <2>2, <2>3, <2>4, <2>5 DEF Environment
<1>3. CASE UNCHANGED vars
  BY <1>0, <1>3 DEF vars, tables, history
<1> QED BY <1>1, <1>2, <1>3 DEF Next

\* LoopGuard.check for any number of concurrent deliveries, errors and crashes:
\* blocks are earned, storms are noticed and recognised bots trigger nothing.
THEOREM GuardHolds == Spec => []LoopGuardHolds
<1> DEFINE GInv == StormIsNoticed /\ AdmissionInv
<1>1. Init => GInv
  BY PipelineAssumption DEF Init, StormIsNoticed, AdmissionInv, Admitted, Acting
<1>2. PInv /\ PInv' /\ GInv /\ [Next]_vars => GInv'
  BY NoticedInductive, AdmissionInductive DEF PInv
<1>3. PInv /\ GInv => LoopGuardHolds
  <2>1. AdmissionInv => BotsTriggerNothing
    BY DEF AdmissionInv, Rightly, Admitted, BotsTriggerNothing
  <2> QED BY <2>1 DEF PInv, StormInv, BlockNeedsStorm, LoopGuardHolds
<1> HIDE DEF GInv
<1> QED BY <1>1, <1>2, <1>3, PipelineInvariant, PTL DEF Spec
==============================================================================
