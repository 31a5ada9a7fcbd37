------------------------- MODULE ApprovalGateProofs -------------------------
(***************************************************************************)
(* The approval gate for any users, files, patterns and number of signals: *)
(* an approval or a rejection is the decision of an authorised user.       *)
(***************************************************************************)
EXTENDS ApprovalGate, TLAPS

\* The handler only ever stores a user of Users with what that user wrote.
DecisionIsDelivered ==
    decision # None =>
        /\ decisionUser \in Users
        /\ result = None => <<decisionUser, decision>> \in delivered

\* While the coroutine has not decided there is no result, and the files it
\* waits for are the sensitive files of the commit.
Undecided ==
    /\ pc \in {"start", "post_request", "audit_request", "waiting"}
       => result = None
    /\ pc \in {"post_outcome", "audit_outcome", "done"} => result # None
    /\ pc = "start" => audit = {} /\ comments = {}

Inv == TypeOK /\ DecisionIsDelivered /\ Undecided
       /\ ApprovalIsGenuine /\ RejectionIsGenuine

\* A parsed decision is one of the two decisions, or None.
LEMMA ParseType ==
    \A t \in Texts : parse_approval_decision(t) \in {"approve", "reject", None}
BY DEF parse_approval_decision, Texts

\* What the constructor of a result returns.
LEMMA ResultFields ==
    ASSUME NEW a \in BOOLEAN, NEW b \in BOOLEAN, NEW c \in Users \union {None}
    PROVE  LET r == GateResult(a, b, c) IN
           /\ r \in Results /\ r # None
           /\ r.approved = a /\ r.timed_out = b /\ r.approver_id = c
BY GateAssumption DEF GateResult, Results

\* Inv holds when the gate opens.
LEMMA InitInv == Init => Inv
BY GateAssumption DEF Init, Inv, TypeOK, DecisionIsDelivered, Undecided,
   ApprovalIsGenuine, RejectionIsGenuine

\* A comment signal keeps Inv: what it stores was delivered by its user.
LEMMA ReceiveInv ==
    ASSUME Inv, NEW u \in Users, NEW t \in Texts, approval_received(u, t)
    PROVE  Inv'
<1> DEFINE parsed == parse_approval_decision(t)
<1>1. parsed \in {"approve", "reject", None}
  BY ParseType
<1> HIDE DEF parsed
<1>2. CASE parsed = None
  BY <1>2, GateAssumption DEF approval_received, parsed, Inv, TypeOK,
     DecisionIsDelivered, Undecided, ApprovalIsGenuine, RejectionIsGenuine
<1>3. CASE parsed # None
  <2>1. /\ decision' = parsed /\ decisionUser' = u /\ unchecked' = TRUE
        /\ delivered' = IF result = None THEN delivered \union {<<u, parsed>>}
                        ELSE delivered
        /\ UNCHANGED <<inp, pc, matched, result, comments, audit>>
    BY <1>3 DEF approval_received, parsed
  <2>2. TypeOK'
    BY <2>1, <1>1, <1>3 DEF Inv, TypeOK
  <2>3. DecisionIsDelivered' /\ Undecided'
    BY <2>1, <1>1 DEF Inv, DecisionIsDelivered, Undecided
  <2>4. ApprovalIsGenuine' /\ RejectionIsGenuine'
    BY <2>1 DEF Inv, ApprovalIsGenuine, RejectionIsGenuine
  <2> QED BY <2>2, <2>3, <2>4 DEF Inv
<1> QED BY <1>2, <1>3

\* Opening the gate, or passing it when no file needs approval, keeps Inv.
LEMMA BeginInv == Inv /\ Begin => Inv'
<1> SUFFICES ASSUME Inv, Begin PROVE Inv'
  OBVIOUS
<1> DEFINE m == match_approval_paths(inp.commit_files, inp.required)
<1>1. /\ m \subseteq Files
      /\ m = {} => ~ \E f \in inp.commit_files, p \in inp.required \ BadPatterns :
                        <<f, p>> \in Matches
  BY DEF match_approval_paths, Inv, TypeOK
<1>2. /\ pc = "start" /\ matched' = m
      /\ UNCHANGED <<inp, decision, decisionUser, unchecked, comments, audit,
                     delivered>>
      /\ \/ pc' = "post_request" /\ result' = result
         \/ /\ pc' = "done" /\ result' = GateResult(TRUE, FALSE, None)
            /\ inp.required = {} \/ m = {}
  BY DEF Begin
<1> HIDE DEF m
<1>3. CASE pc' = "post_request" /\ result' = result
  BY <1>1, <1>2, <1>3 DEF Inv, TypeOK, DecisionIsDelivered, Undecided,
     ApprovalIsGenuine, RejectionIsGenuine
<1>4. CASE /\ pc' = "done" /\ result' = GateResult(TRUE, FALSE, None)
           /\ inp.required = {} \/ m = {}
  <2>1. /\ result' \in Results /\ result' # None
        /\ result'.approved = TRUE /\ result'.timed_out = FALSE
    BY <1>4, ResultFields
  <2>2. TypeOK'
    BY <1>1, <1>2, <1>4, <2>1 DEF Inv, TypeOK
  <2>3. DecisionIsDelivered' /\ Undecided'
    BY <1>2, <1>4, <2>1 DEF Inv, DecisionIsDelivered, Undecided
  <2>4. ApprovalIsGenuine' /\ RejectionIsGenuine'
    BY <1>1, <1>2, <1>4, <2>1 DEF ApprovalIsGenuine, RejectionIsGenuine
  <2> QED BY <2>2, <2>3, <2>4 DEF Inv
<1> QED BY <1>2, <1>3, <1>4

\* The wait condition keeps Inv: it takes an approver's decision or clears it.
LEMMA CheckInv == Inv /\ CheckCondition => Inv'
<1> SUFFICES ASSUME Inv, CheckCondition PROVE Inv'
  OBVIOUS
<1>1. CASE decision = None
  BY <1>1 DEF CheckCondition, Inv, TypeOK, DecisionIsDelivered, Undecided,
     ApprovalIsGenuine, RejectionIsGenuine
<1>2. CASE decision # None /\ decisionUser \notin inp.approvers
  BY <1>2, GateAssumption DEF CheckCondition, is_authorized_approver, Inv,
     TypeOK, DecisionIsDelivered, Undecided, ApprovalIsGenuine,
     RejectionIsGenuine
<1>3. CASE decision # None /\ decisionUser \in inp.approvers
  <2>1. /\ result' = GateResult(decision = "approve", FALSE, decisionUser)
        /\ pc' = "post_outcome" /\ unchecked' = FALSE
        /\ UNCHANGED <<decision, decisionUser, inp, matched, comments, audit,
                       delivered>>
    BY <1>3 DEF CheckCondition, is_authorized_approver
  <2>2. /\ <<decisionUser, decision>> \in delivered /\ decisionUser \in Users
        /\ decision \in {"approve", "reject"}
    BY <1>3 DEF CheckCondition, Inv, TypeOK, DecisionIsDelivered, Undecided
  <2>3. (decision = "approve") \in BOOLEAN
    OBVIOUS
  <2>4. /\ result'.approved = (decision = "approve")
        /\ ~result'.timed_out
        /\ result'.approver_id = decisionUser
        /\ result' \in Results /\ result' # None
    BY <2>1, <2>2, <2>3, ResultFields
  <2>5. TypeOK'
    BY <2>1, <2>2, <2>4 DEF Inv, TypeOK
  <2>6. DecisionIsDelivered' /\ Undecided'
    BY <2>1, <2>2, <2>4 DEF Inv, Undecided, DecisionIsDelivered
  <2>7. ApprovalIsGenuine' /\ RejectionIsGenuine'
    BY <2>1, <2>2, <2>4, <1>3 DEF ApprovalIsGenuine, RejectionIsGenuine
  <2> QED BY <2>5, <2>6, <2>7 DEF Inv
<1> QED BY <1>1, <1>2, <1>3

\* The timeout keeps Inv: it decides against and names nobody.
LEMMA TimeoutInv == Inv /\ Timeout => Inv'
<1> SUFFICES ASSUME Inv, Timeout PROVE Inv'
  OBVIOUS
<1>1. /\ result'.approved = FALSE /\ result'.timed_out = TRUE
      /\ result'.approver_id = None /\ result' # None
      /\ result' \in Results
  BY ResultFields DEF Timeout
<1> QED BY <1>1 DEF Timeout, Inv, TypeOK, DecisionIsDelivered, Undecided,
           ApprovalIsGenuine, RejectionIsGenuine

\* The comment and audit activities move the coroutine on and touch neither
\* the decision nor the result.
LEMMA ActivityInv ==
    ASSUME Inv, NEW ok \in BOOLEAN,
           \/ PostRequest(ok) \/ AuditRequest(ok)
           \/ PostOutcome(ok) \/ AuditOutcome(ok)
    PROVE  Inv'
<1>1. /\ UNCHANGED <<inp, matched, decision, decisionUser, result, delivered>>
      /\ unchecked' \in BOOLEAN
  BY DEF PostRequest, AuditRequest, PostOutcome, AuditOutcome, Inv, TypeOK
<1>2. Verdict(result) \in {"approved", "rejected", "timeout"}
  BY DEF Verdict
<1>3. /\ pc' \in {"audit_request", "waiting", "audit_outcome", "done"}
      /\ pc' \in {"audit_request", "waiting"} <=>
            pc \in {"post_request", "audit_request"}
      /\ pc \in {"post_request", "audit_request", "post_outcome",
                 "audit_outcome"}
      /\ comments' \subseteq comments \union {"requested", Verdict(result)}
      /\ audit' \subseteq audit \union {"requested", Verdict(result)}
  BY DEF PostRequest, AuditRequest, PostOutcome, AuditOutcome
<1>4. TypeOK'
  BY <1>1, <1>2, <1>3 DEF Inv, TypeOK
<1>5. DecisionIsDelivered' /\ Undecided'
  BY <1>1, <1>3 DEF Inv, DecisionIsDelivered, Undecided
<1>6. ApprovalIsGenuine' /\ RejectionIsGenuine'
  BY <1>1 DEF Inv, ApprovalIsGenuine, RejectionIsGenuine
<1> QED BY <1>4, <1>5, <1>6 DEF Inv

\* Inv is inductive: it holds in every state of every behaviour.
THEOREM GateInvariant == Spec => []Inv
<1>1. Inv /\ [Next]_vars => Inv'
  <2> SUFFICES ASSUME Inv, [Next]_vars PROVE Inv'
    OBVIOUS
  <2>1. CASE Step
    BY <2>1, BeginInv, CheckInv, TimeoutInv, ActivityInv DEF Step
  <2>2. CASE \E u \in Users, t \in Texts : approval_received(u, t)
    BY <2>2, ReceiveInv
  <2>3. CASE UNCHANGED vars
    BY <2>3 DEF vars, Inv, TypeOK, DecisionIsDelivered, Undecided,
       ApprovalIsGenuine, RejectionIsGenuine
  <2> QED BY <2>1, <2>2, <2>3 DEF Next, Done
<1> QED BY InitInv, <1>1, PTL DEF Spec

\* A sensitive commit is approved only by an approver's own [approve].
THEOREM ApprovalGenuine == Spec => []ApprovalIsGenuine
<1>1. Inv => ApprovalIsGenuine
  BY DEF Inv
<1> QED BY <1>1, GateInvariant, PTL

\* A commit is discarded as rejected only by an approver's own [reject].
THEOREM RejectionGenuine == Spec => []RejectionIsGenuine
<1>1. Inv => RejectionIsGenuine
  BY DEF Inv
<1> QED BY <1>1, GateInvariant, PTL

\* Inside Inv no step makes the trail disagree with the result: the result is
\* set once, while the trail still holds nothing but the request, and only its
\* own verdict is written afterwards.
LEMMA TrailStep ==
    ASSUME Inv, TrailMatchesResult, [Next]_vars
    PROVE  TrailMatchesResult'
<1>1. CASE UNCHANGED <<result, comments, audit>>
  BY <1>1 DEF TrailMatchesResult
<1>2. CASE UNCHANGED <<comments, audit>> /\ result = None
  BY <1>2 DEF TrailMatchesResult
<1>3. CASE \E ok \in BOOLEAN : PostRequest(ok) \/ AuditRequest(ok)
  <2>1. /\ result' = result
        /\ comments' \union audit' \subseteq (comments \union audit) \union {"requested"}
    BY <1>3 DEF PostRequest, AuditRequest
  <2> QED BY <2>1 DEF TrailMatchesResult
<1>4. CASE \E ok \in BOOLEAN : PostOutcome(ok) \/ AuditOutcome(ok)
  <2>1. /\ result' = result /\ result # None
        /\ comments' \union audit' \subseteq
              (comments \union audit) \union {Verdict(result)}
    BY <1>4 DEF PostOutcome, AuditOutcome, Inv, Undecided
  <2> QED BY <2>1 DEF TrailMatchesResult, Verdict
<1>5. CASE Begin \/ CheckCondition \/ Timeout
  BY <1>5, <1>2 DEF Begin, CheckCondition, Timeout, Inv, Undecided
<1>6. CASE \E u \in Users, t \in Texts : approval_received(u, t)
  BY <1>6, <1>1 DEF approval_received
<1>7. CASE UNCHANGED vars
  BY <1>7, <1>1 DEF vars
<1> QED BY <1>3, <1>4, <1>5, <1>6, <1>7 DEF Next, Step, Done

\* Whatever the signals and the failing activities do, the gate is what its
\* docstring promises: genuine decisions, and a trail that tells the result.
THEOREM GateSound == Spec => []GateIsSound
<1>1. Init => TrailMatchesResult
  BY DEF Init, TrailMatchesResult
<1>2. Inv /\ TrailMatchesResult /\ [Next]_vars => TrailMatchesResult'
  BY TrailStep
<1>3. Inv /\ TrailMatchesResult => GateIsSound
  BY DEF Inv, GateIsSound
<1> QED BY <1>1, <1>2, <1>3, GateInvariant, PTL DEF Spec
=============================================================================
