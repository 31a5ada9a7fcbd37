------------------------- MODULE WebhookIntakeProofs -------------------------
(***************************************************************************)
(* The intake for any number of requests, issues, departments and events,  *)
(* any mix of deliveries and any cap: an event starts once, an answered    *)
(* event was handled, and nothing runs that was not entitled to.           *)
(***************************************************************************)
EXTENDS WebhookIntake, FiniteSetTheorems, TLAPS

\* The request holds the claim on its delivery id.
Holder(r) == req[r].pc \in {"start", "release"}

\* Where a request can be: the stages belong to a route, and no event of a
\* known bot gets past the filter chain.
StageOf(q) ==
    /\ q.pc = "free" <=> q.ev = None
    /\ q.ev # None => q.ev \in mix
    /\ q.pc \in {"v3", "cap", "day", "month", "claim", "start", "release"} =>
          Info[q.ev].route = "v3"
    /\ q.pc \in {"cap", "day", "month", "claim", "start", "release"} => Info[q.ev].actor # "bot"
    /\ q.pc = "v2" => Info[q.ev].route = "v2"
    /\ q.pc \in {"assigned", "handover", "newdept"} => Info[q.ev].route = "assigned"
    /\ q.pc \in {"day", "month", "claim", "start", "release"} =>
          IsFiniteSet(q.seen) /\ Cardinality(q.seen) < Cap

StageInv == \A r \in Requests: StageOf(req[r])

\* A delivery id is held by at most one request, and an event that started
\* keeps its id claimed for good.
ClaimInv ==
    /\ \A r \in Requests: Holder(r) => Info[req[r].ev].id \in claimed
    /\ \A r, q \in Requests:
          (Holder(r) /\ Holder(q) /\ Info[req[r].ev].id = Info[req[q].ev].id) => r = q
    /\ \A e \in mix: (Info[e].route = "v3" /\ e \notin fault) =>
          \/ starts[e] = 0
          \/ /\ starts[e] = 1
             /\ Info[e].id \in claimed
             /\ \A r \in Requests: Holder(r) => Info[req[r].ev].id # Info[e].id

\* Every claim has its holder, or its start, or a fault of the v3 route.
BackInv ==
    /\ \A d \in claimed: \E e \in mix:
          /\ Info[e].route = "v3" /\ Info[e].id = d
          /\ e \in fault \cup handled \/ \E r \in Requests: Holder(r) /\ req[r].ev = e
    /\ \A r \in Requests: req[r].pc = "release" => req[r].ev \in failed

\* An event answered with 2xx is accounted for, or a request is about to start it.
AckInv ==
    \A e \in mix: (Info[e].route = "v3" /\ Alone(e) /\ answer[e] = "ok" /\ e \notin settled) =>
        \/ e \in handled \cup failed \cup fault
        \/ \E r \in Requests: req[r].pc = "start" /\ req[r].ev = e

\* As long as no start raced, the runs fit under the cap.
CapInv ==
    /\ IsFiniteSet(items)
    /\ ~raced => IsFiniteSet(Running) /\ Cardinality(Running) <= Cap

\* A handover that has asked for the cancellation, or has started, leaves the
\* original run alone only with a cause.
TwoInv ==
    \A i \in Issues:
        /\ ~Idle(<<"jira", i>>)
        /\ \/ ~Idle(<<"rev1", i>>)
           \/ \E r \in Requests: req[r].pc = "newdept" /\ Info[req[r].ev].issue = i
        => i \in overrun \/ run[<<"jira", i>>].cancel

IInv ==
    /\ TypeOK /\ StageInv /\ ClaimInv /\ BackInv /\ AckInv /\ CapInv /\ TwoInv
    /\ BotsStartNothing

-----------------------------------------------------------------------------
(* What the steps have in common.                                          *)

\* The request is over; the provider has seen the answer, or given up on it.
LEMMA RespondFacts ==
    ASSUME TypeOK, StageInv, NEW r \in Requests, req[r].pc # "free", NEW code, Respond(r, code)
    PROVE  /\ req[r].ev \in mix
           /\ req' \in [Requests -> RequestShape]
           /\ req'[r] = Free /\ \A q \in Requests \ {r}: req'[q] = req[q]
           /\ answer' \in [mix -> {"none", "ok", "retry"}]
           /\ \A e \in mix: answer[e] = "ok" => answer'[e] = "ok"
           /\ \A e \in mix: answer'[e] = "ok" =>
                 answer[e] = "ok" \/ (e = req[r].ev /\ code = "2xx")
<1>1. req[r].ev \in mix BY DEF StageInv, StageOf
<1>2. Free \in RequestShape BY DEF Free, RequestShape
<1>3. req' = [req EXCEPT ![r] = Free] BY DEF Respond
<1> DEFINE v == IF code = "2xx" \/ answer[req[r].ev] = "ok" THEN "ok" ELSE "retry"
<1>4. answer' = [answer EXCEPT ![req[r].ev] = v] BY DEF Respond
<1>5. v \in {"none", "ok", "retry"} /\ (v = "ok" => code = "2xx" \/ answer[req[r].ev] = "ok")
      /\ (answer[req[r].ev] = "ok" => v = "ok")
  OBVIOUS
<1> HIDE DEF v
<1> QED BY <1>1, <1>2, <1>3, <1>4, <1>5 DEF TypeOK

\* The request goes on to another stage.
LEMMA MoveFacts ==
    ASSUME TypeOK, NEW r \in Requests, NEW p, p \in {"cap", "month", "claim", "start", "release",
                                                     "handover", "newdept"},
           req' = [req EXCEPT ![r].pc = p]
    PROVE  /\ req' \in [Requests -> RequestShape]
           /\ req'[r].pc = p /\ req'[r].ev = req[r].ev /\ req'[r].seen = req[r].seen
           /\ \A q \in Requests \ {r}: req'[q] = req[q]
BY DEF TypeOK, RequestShape

\* A step of one request that starts nothing and neither takes nor gives back a
\* claim: it ends the request, or moves it before its claim.
LEMMA QuietStep ==
    ASSUME IInv, NEW r \in Requests,
           req' \in [Requests -> RequestShape],
           \A q \in Requests \ {r}: req'[q] = req[q],
           UNCHANGED <<mix, claimed, run, items, starts, failed, handled, raced, overrun>>,
           fault \subseteq fault', settled \subseteq settled',
           req'[r].pc \notin {"start", "release", "newdept"}, StageOf(req[r])',
           Holder(r) => req[r].ev \in fault',
           \A e \in mix: answer'[e] = "ok" =>
              \/ answer[e] = "ok"
              \/ e \in settled' \cup handled \/ Info[e].route # "v3"
              \/ Info[e].id \in claimed /\ ~Holder(r)
    PROVE  /\ StageInv' /\ ClaimInv' /\ BackInv' /\ AckInv' /\ CapInv' /\ TwoInv'
           /\ BotsStartNothing'
<1> USE DEF IInv
<1>1. StageInv' BY DEF StageInv, StageOf
<1>2. ClaimInv' BY DEF ClaimInv, Holder
<1>3. BackInv'
  <2>1. SUFFICES ASSUME NEW d \in claimed
                 PROVE  \E e \in mix: /\ Info[e].route = "v3" /\ Info[e].id = d
                                      /\ \/ e \in fault' \cup handled
                                         \/ \E q \in Requests: Holder(q)' /\ req'[q].ev = e
    BY DEF BackInv, Holder
  <2>2. PICK e \in mix: /\ Info[e].route = "v3" /\ Info[e].id = d
                        /\ e \in fault \cup handled \/ \E q \in Requests: Holder(q) /\ req[q].ev = e
    BY DEF BackInv
  <2> QED BY <2>2 DEF Holder
<1>4. AckInv'
  <2> SUFFICES ASSUME NEW e \in mix, Info[e].route = "v3", Alone(e), answer'[e] = "ok", e \notin settled'
               PROVE  \/ e \in handled \cup failed \cup fault'
                      \/ \E q \in Requests: req'[q].pc = "start" /\ req'[q].ev = e
    BY DEF AckInv, Alone
  <2>1. CASE answer[e] = "ok"
    <3>1. \/ e \in handled \cup failed \cup fault
          \/ \E q \in Requests: req[q].pc = "start" /\ req[q].ev = e
      BY <2>1 DEF AckInv
    <3> QED BY <3>1 DEF Holder
  <2>2. CASE Info[e].id \in claimed /\ ~Holder(r)
    <3>1. PICK f \in mix: /\ Info[f].route = "v3" /\ Info[f].id = Info[e].id
                          /\ f \in fault \cup handled \/ \E q \in Requests: Holder(q) /\ req[q].ev = f
      BY <2>2 DEF BackInv
    <3>2. f = e BY <3>1 DEF Alone
    <3>3. CASE f \in fault \cup handled BY <3>2, <3>3
    <3>4. ASSUME NEW q \in Requests, Holder(q), req[q].ev = f
          PROVE  \/ e \in handled \cup failed \cup fault'
                 \/ \E p \in Requests: req'[p].pc = "start" /\ req'[p].ev = e
      BY <2>2, <3>2, <3>4 DEF Holder, BackInv
    <3> QED BY <3>1, <3>3, <3>4
  <2>3. CASE e \in handled BY <2>3
  <2> QED BY <2>1, <2>2, <2>3
<1>5. CapInv' BY DEF CapInv, Running
<1>6. TwoInv'
  <2> SUFFICES ASSUME NEW i \in Issues, ~Idle(<<"jira", i>>),
                      \/ ~Idle(<<"rev1", i>>)
                      \/ \E q \in Requests: req'[q].pc = "newdept" /\ Info[req'[q].ev].issue = i
               PROVE  i \in overrun \/ run[<<"jira", i>>].cancel
    BY DEF TwoInv, Idle
  <2> QED BY DEF TwoInv
<1>7. BotsStartNothing' BY DEF BotsStartNothing
<1> QED BY <1>1, <1>2, <1>3, <1>4, <1>5, <1>6, <1>7

\* A request that ends without a start or a claim given back: a rejection, an
\* error, a filtered or known event, a crash.
LEMMA LeavingStep ==
    ASSUME IInv, NEW r \in Requests, req[r].pc # "free", NEW code, Respond(r, code),
           UNCHANGED <<mix, tries, claimed, burst, iter, run, items, today, starts, failed,
                       handled, raced, overrun>>,
           window' \subseteq Issues,
           fault \subseteq fault', fault' \subseteq fault \cup {req[r].ev},
           settled \subseteq settled', settled' \subseteq settled \cup {req[r].ev},
           Holder(r) => req[r].ev \in fault',
           code = "2xx" => \/ req[r].ev \in settled' \/ Info[req[r].ev].route # "v3"
                           \/ Info[req[r].ev].id \in claimed /\ ~Holder(r)
    PROVE  IInv'
<1> USE DEF IInv
<1>1. /\ req[r].ev \in mix
      /\ req' \in [Requests -> RequestShape]
      /\ req'[r] = Free /\ \A q \in Requests \ {r}: req'[q] = req[q]
      /\ answer' \in [mix -> {"none", "ok", "retry"}]
      /\ \A e \in mix: answer'[e] = "ok" => answer[e] = "ok" \/ (e = req[r].ev /\ code = "2xx")
  BY RespondFacts
<1>2. StageOf(req[r])' /\ req'[r].pc = "free" BY <1>1 DEF StageOf, Free
<1>3. TypeOK' BY <1>1 DEF TypeOK
<1>4. \A e \in mix: answer'[e] = "ok" =>
         \/ answer[e] = "ok"
         \/ e \in settled' \cup handled \/ Info[e].route # "v3"
         \/ Info[e].id \in claimed /\ ~Holder(r)
  BY <1>1
<1> QED BY <1>1, <1>2, <1>3, <1>4, QuietStep

-----------------------------------------------------------------------------
(* Deliveries, filters and counts.                                         *)

\* A delivery puts the event at the entry of its route.
LEMMA StepDeliver ==
    ASSUME IInv, NEW r \in Requests, NEW e \in mix, Deliver(r, e)
    PROVE  IInv'
<1> USE NoneAssumption, MixesAssumption, BoundsAssumption, InfoAssumption DEF IInv
<1>1. /\ UNCHANGED <<mix, answer, claimed, window, burst, iter, temporal, history>>
      /\ req[r].pc = "free" /\ tries' = [tries EXCEPT ![e] = @ + 1] /\ tries[e] < MaxTries
      /\ req' = [req EXCEPT ![r] = [Free EXCEPT !.pc = Info[e].route, !.ev = e]]
  BY DEF Deliver
<1>2. e \in Events /\ e # None BY DEF TypeOK
<1>3. Info[e].route \in {"v3", "v2", "assigned"} BY <1>2 DEF EventShape
<1> DEFINE new == [Free EXCEPT !.pc = Info[e].route, !.ev = e]
<1>4. new \in RequestShape /\ new.pc = Info[e].route /\ new.ev = e
  BY <1>2, <1>3 DEF Free, RequestShape
<1> HIDE DEF new
<1>5. /\ req' \in [Requests -> RequestShape]
      /\ req'[r] = new /\ \A q \in Requests \ {r}: req'[q] = req[q]
  BY <1>1, <1>4 DEF TypeOK, new
<1>6. StageOf(req[r])' BY <1>1, <1>2, <1>3, <1>4, <1>5 DEF StageOf
<1>7. tries' \in [mix -> 0..MaxTries] BY <1>1 DEF TypeOK
<1>8. TypeOK' BY <1>1, <1>5, <1>7 DEF TypeOK, temporal, history, verdicts
<1>9. /\ StageInv' /\ ClaimInv' /\ BackInv' /\ AckInv' /\ CapInv' /\ TwoInv'
      /\ BotsStartNothing'
  BY <1>1, <1>3, <1>4, <1>5, <1>6, QuietStep DEF temporal, history, verdicts, Holder
<1> QED BY <1>8, <1>9

\* A request that crashes while it holds a claim leaves a fault behind.
LEMMA StepCrash ==
    ASSUME IInv, NEW r \in Requests, Crash(r)
    PROVE  IInv'
<1> USE NoneAssumption, MixesAssumption, BoundsAssumption DEF IInv
<1>1. /\ UNCHANGED <<mix, tries, claimed, window, burst, iter, temporal, starts, verdicts, raced,
                     overrun>>
      /\ req[r].pc # "free" /\ Respond(r, "lost") /\ fault' = fault \cup {req[r].ev}
  BY DEF Crash
<1>2. req[r].ev \in mix /\ window' \subseteq Issues BY <1>1 DEF StageInv, StageOf, TypeOK
<1>3. UNCHANGED <<mix, tries, claimed, burst, iter, run, items, today, starts, failed, handled,
                  raced, overrun, settled>>
  BY <1>1 DEF temporal, verdicts
<1> QED BY <1>1, <1>2, <1>3, LeavingStep

\* What the filter chain lets through is signed and not from a known bot, and
\* what it calls a duplicate is claimed.
LEMMA ChainVerdicts ==
    ASSUME NEW e, NEW v \in evaluate(e)
    PROVE  /\ v \in {"401", "400", "500", "drop", "pass", "duplicate", "coalesced", "emit"}
           /\ v \in {"pass", "emit"} => Info[e].actor # "bot"
           /\ v = "duplicate" => Info[e].id \in claimed
<1>1. CASE ~Info[e].signed BY <1>1 DEF evaluate
<1>2. CASE Info[e].signed /\ Info[e].dept = None BY <1>2 DEF evaluate
<1>3. CASE Info[e].signed /\ Info[e].dept # None /\ stage_loop_guard(e) BY <1>3 DEF evaluate
<1>4. CASE /\ Info[e].signed /\ Info[e].dept # None /\ ~stage_loop_guard(e)
           /\ stage_streamlit_bypass(e)
  BY <1>4 DEF evaluate, stage_loop_guard
<1>5. CASE /\ Info[e].signed /\ Info[e].dept # None /\ ~stage_loop_guard(e)
           /\ ~stage_streamlit_bypass(e)
  <2>1. PICK d \in {FALSE, Info[e].id \in claimed}:
          v = IF d THEN "duplicate"
              ELSE IF stage_mention_filter(e) THEN "drop"
              ELSE IF first_iter_exception(e) THEN "pass"
              ELSE register(e)
    BY <1>5 DEF evaluate, stage_replay_dedup
  <2>2. register(e) \in {"pass", "500", "coalesced", "emit"} BY DEF register
  <2> QED BY <1>5, <2>1, <2>2 DEF stage_loop_guard
<1> QED BY <1>1, <1>2, <1>3, <1>4, <1>5

\* The filter chain: what it drops is settled, what it calls a duplicate is
\* claimed by somebody else.
LEMMA StepProcess ==
    ASSUME IInv, NEW r \in Requests, process_webhook(r)
    PROVE  IInv'
<1> USE NoneAssumption, MixesAssumption, BoundsAssumption, InfoAssumption DEF IInv
<1> DEFINE e == req[r].ev
<1>1. /\ UNCHANGED <<mix, tries, claimed, burst, iter, temporal, starts, fault, failed, handled,
                     raced, overrun>>
      /\ req[r].pc = "v3"
  BY DEF process_webhook
<1>2. e \in mix /\ e # None /\ e \in Events /\ Info[e].route = "v3" /\ Info[e].issue \in Issues
  BY <1>1 DEF StageInv, StageOf, TypeOK, EventShape
<1>3. UNCHANGED <<mix, claimed, run, items, starts, failed, handled, raced, overrun, fault>>
  BY <1>1 DEF temporal
<1>4. ~Holder(r) BY <1>1 DEF Holder
<1>5. ASSUME NEW code, Respond(r, code), settled \subseteq settled',
             settled' \subseteq settled \cup {e}, window' \subseteq window \cup {Info[e].issue},
             code = "2xx" => e \in settled' \/ Info[e].id \in claimed
      PROVE  IInv'
  <2>1. window' \subseteq Issues BY <1>2, <1>5 DEF TypeOK
  <2>2. UNCHANGED <<mix, tries, claimed, burst, iter, run, items, today, starts, failed, handled,
                    raced, overrun, fault>>
    BY <1>1 DEF temporal
  <2> QED BY <1>1, <1>4, <1>5, <2>1, <2>2, LeavingStep
<1>6. ASSUME req' = [req EXCEPT ![r].pc = "cap"], answer' = answer, settled' = settled,
             window' \subseteq window \cup {Info[e].issue}, Info[e].actor # "bot"
      PROVE  IInv'
  <2>1. /\ req' \in [Requests -> RequestShape]
        /\ req'[r].pc = "cap" /\ req'[r].ev = req[r].ev
        /\ \A q \in Requests \ {r}: req'[q] = req[q]
    BY <1>6, MoveFacts
  <2>2. StageOf(req[r])' BY <1>1, <1>2, <1>6, <2>1 DEF StageOf
  <2>3. TypeOK' BY <1>1, <1>2, <1>6, <2>1 DEF TypeOK, temporal
  <2> QED BY <1>3, <1>4, <1>6, <2>1, <2>2, <2>3, QuietStep
<1>7. CASE ~supported(e)
  <2>1. Respond(r, "2xx") /\ settled' = settled \cup {e} /\ window' = window
    BY <1>7 DEF process_webhook
  <2> QED BY <1>5, <2>1
<1>8. CASE supported(e)
  <2>1. PICK v \in evaluate(e):
          /\ window' = IF v = "emit" THEN window \cup {Info[e].issue} ELSE window
          /\ settled' = IF v \in {"drop", "coalesced"} THEN settled \cup {e} ELSE settled
          /\ IF v \in {"pass", "emit"}
             THEN req' = [req EXCEPT ![r].pc = "cap"] /\ UNCHANGED answer
             ELSE Respond(r, IF v \in {"drop", "coalesced", "duplicate"} THEN "2xx" ELSE v)
    BY <1>8 DEF process_webhook
  <2>2. /\ v \in {"401", "400", "500", "drop", "pass", "duplicate", "coalesced", "emit"}
        /\ v \in {"pass", "emit"} => Info[e].actor # "bot"
        /\ v = "duplicate" => Info[e].id \in claimed
    BY ChainVerdicts
  <2>3. window' \subseteq window \cup {Info[e].issue} BY <2>1
  <2>4. CASE v \in {"pass", "emit"} BY <1>6, <2>1, <2>2, <2>3, <2>4
  <2>5. CASE v \in {"drop", "coalesced"}
    <3>1. Respond(r, "2xx") /\ settled' = settled \cup {e} BY <2>1, <2>5
    <3> QED BY <1>5, <2>3, <3>1
  <2>6. CASE v = "duplicate"
    <3>1. Respond(r, "2xx") /\ settled' = settled BY <2>1, <2>6
    <3> QED BY <1>5, <2>2, <2>3, <2>6, <3>1
  <2>7. CASE v \in {"401", "400", "500"}
    <3>1. Respond(r, v) /\ settled' = settled /\ v # "2xx" BY <2>1, <2>7
    <3> QED BY <1>5, <2>3, <3>1
  <2> QED BY <2>2, <2>4, <2>5, <2>6, <2>7
<1> QED BY <1>7, <1>8

\* The license cap: a request that goes on has counted fewer items than the cap.
LEMMA StepCap ==
    ASSUME IInv, NEW r \in Requests,
           \/ count_concurrent_workflows(r) \/ count_workflows_today(r)
           \/ sum_monthly_token_cost(r) \/ database_error(r)
    PROVE  IInv'
<1> USE NoneAssumption, MixesAssumption, BoundsAssumption DEF IInv
<1>1. /\ UNCHANGED <<mix, tries, claimed, window, burst, iter, temporal, history>>
      /\ req[r].pc \in {"cap", "day", "month", "claim"}
      /\ \/ Respond(r, "429") \/ Respond(r, "500")
         \/ req[r].pc = "day" /\ req' = [req EXCEPT ![r].pc = "month"] /\ answer' = answer
         \/ req[r].pc = "month" /\ req' = [req EXCEPT ![r].pc = "claim"] /\ answer' = answer
         \/ /\ req[r].pc = "cap" /\ ~over_concurrent(Cardinality(items))
            /\ req' = [req EXCEPT ![r].pc = "day", ![r].seen = items] /\ answer' = answer
  BY DEF count_concurrent_workflows, count_workflows_today, sum_monthly_token_cost, database_error
<1>2. ~Holder(r) /\ req[r].ev \in mix /\ StageOf(req[r])
  BY <1>1 DEF Holder, StageInv, StageOf
<1>3. UNCHANGED <<mix, tries, claimed, burst, iter, run, items, today, starts, failed, handled,
                  raced, overrun, fault, settled>>
  BY <1>1 DEF temporal, history, verdicts
<1>4. ASSUME NEW code \in {"429", "500"}, Respond(r, code) PROVE IInv'
  BY <1>1, <1>2, <1>3, <1>4, LeavingStep DEF TypeOK
<1>5. ASSUME NEW p \in {"month", "claim"}, req' = [req EXCEPT ![r].pc = p], answer' = answer,
             req[r].pc \in {"day", "month"}
      PROVE  IInv'
  <2>1. /\ req' \in [Requests -> RequestShape]
        /\ req'[r].pc = p /\ req'[r].ev = req[r].ev /\ req'[r].seen = req[r].seen
        /\ \A q \in Requests \ {r}: req'[q] = req[q]
    BY <1>5, MoveFacts
  <2>2. StageOf(req[r])' BY <1>2, <1>3, <1>5, <2>1 DEF StageOf
  <2>3. TypeOK' BY <1>1, <1>3, <1>5, <2>1 DEF TypeOK
  <2> QED BY <1>2, <1>3, <1>5, <2>1, <2>2, <2>3, QuietStep
<1>6. CASE /\ req[r].pc = "cap" /\ ~over_concurrent(Cardinality(items))
           /\ req' = [req EXCEPT ![r].pc = "day", ![r].seen = items] /\ answer' = answer
  <2>1. /\ req' \in [Requests -> RequestShape]
        /\ req'[r].pc = "day" /\ req'[r].ev = req[r].ev /\ req'[r].seen = items
        /\ \A q \in Requests \ {r}: req'[q] = req[q]
    <3>1. items \in SUBSET WorkflowIds /\ req[r] \in RequestShape BY DEF TypeOK
    <3>2. /\ req'[r] = [[req[r] EXCEPT !.pc = "day"] EXCEPT !.seen = items]
          /\ \A q \in Requests \ {r}: req'[q] = req[q]
          /\ req' = [q \in Requests |-> req'[q]]
      BY <1>6 DEF TypeOK
    <3>3. /\ req'[r] \in RequestShape
          /\ req'[r].pc = "day" /\ req'[r].ev = req[r].ev /\ req'[r].seen = items
      BY <3>1, <3>2 DEF RequestShape
    <3> QED BY <3>2, <3>3 DEF TypeOK
  <2>2. IsFiniteSet(items) /\ Cardinality(items) < Cap
    <3>1. IsFiniteSet(items) BY DEF CapInv
    <3>2. Cardinality(items) \in Nat BY <3>1, FS_CardinalityType
    <3> QED BY <1>6, <3>1, <3>2 DEF over_concurrent
  <2>3. StageOf(req[r])' BY <1>2, <1>3, <1>6, <2>1, <2>2 DEF StageOf
  <2>4. TypeOK' BY <1>1, <1>3, <1>6, <2>1 DEF TypeOK
  <2> QED BY <1>2, <1>3, <1>6, <2>1, <2>3, <2>4, QuietStep
<1> QED BY <1>1, <1>4, <1>5, <1>6

-----------------------------------------------------------------------------
(* Claims and starts.                                                      *)

\* A claim is taken only when nobody holds it and nothing was started with it.
LEMMA StepClaim ==
    ASSUME IInv, NEW r \in Requests, claim(r)
    PROVE  IInv'
<1> USE NoneAssumption, MixesAssumption, BoundsAssumption DEF IInv
<1> DEFINE e == req[r].ev
           d == Info[e].id
<1>1. /\ UNCHANGED <<mix, tries, window, burst, iter, temporal, history>>
      /\ req[r].pc = "claim"
  BY DEF claim
<1>2. ~Holder(r) /\ e \in mix /\ StageOf(req[r]) BY <1>1 DEF Holder, StageInv, StageOf
<1>3. UNCHANGED <<mix, tries, window, burst, iter, run, items, today, starts, failed, handled,
                  raced, overrun, fault, settled>>
  BY <1>1 DEF temporal, history, verdicts
<1>4. CASE d \in claimed
  <2>1. Respond(r, "2xx") /\ claimed' = claimed BY <1>4 DEF claim
  <2> QED BY <1>1, <1>2, <1>3, <1>4, <2>1, LeavingStep DEF TypeOK
<1>5. CASE d \notin claimed
  <2>1. claimed' = claimed \cup {d} /\ req' = [req EXCEPT ![r].pc = "start"] /\ answer' = answer
    BY <1>5 DEF claim
  <2>2. /\ req' \in [Requests -> RequestShape]
        /\ req'[r].pc = "start" /\ req'[r].ev = e /\ req'[r].seen = req[r].seen
        /\ \A q \in Requests \ {r}: req'[q] = req[q]
    BY <2>1, MoveFacts
  <2>3. TypeOK' BY <1>2, <1>3, <2>1, <2>2 DEF TypeOK
  <2>4. StageInv' BY <1>1, <1>2, <1>3, <2>2 DEF StageInv, StageOf
  <2> HIDE DEF e, d
  <2>5. Info[e].route = "v3" BY <1>1, <1>2 DEF StageOf, e
  <2>6. ClaimInv'
    <3>1. \A q \in Requests: Holder(q)' <=> Holder(q) \/ q = r BY <2>2 DEF Holder
    <3>2. \A q \in Requests: Holder(q) => Info[req[q].ev].id # d BY <1>5 DEF ClaimInv
    <3>3. \A f \in mix: Info[f].route = "v3" /\ f \notin fault /\ Info[f].id = d => starts[f] = 0
      BY <1>5 DEF ClaimInv
    <3>4. Info[req'[r].ev].id = d BY <2>2 DEF d
    <3>5. \A q \in Requests: Holder(q)' => Info[req'[q].ev].id \in claimed'
      BY <2>1, <2>2, <3>1, <3>4 DEF ClaimInv
    <3>6. \A q, p \in Requests:
            (Holder(q)' /\ Holder(p)' /\ Info[req'[q].ev].id = Info[req'[p].ev].id) => q = p
      BY <2>2, <3>1, <3>2, <3>4 DEF ClaimInv
    <3>7. \A f \in mix: (Info[f].route = "v3" /\ f \notin fault) =>
            \/ starts[f] = 0
            \/ /\ starts[f] = 1
               /\ Info[f].id \in claimed'
               /\ \A q \in Requests: Holder(q)' => Info[req'[q].ev].id # Info[f].id
      BY <2>1, <2>2, <3>1, <3>3, <3>4 DEF ClaimInv
    <3> QED BY <1>3, <3>5, <3>6, <3>7 DEF ClaimInv
  <2>7. BackInv'
    <3>1. ASSUME NEW c \in claimed'
          PROVE  \E f \in mix:
                    /\ Info[f].route = "v3" /\ Info[f].id = c
                    /\ f \in fault \cup handled \/ \E q \in Requests: Holder(q)' /\ req'[q].ev = f
      <4>1. CASE c = d BY <1>2, <2>2, <2>5, <4>1 DEF Holder, d, e
      <4>2. CASE c \in claimed BY <1>2, <2>2, <4>2 DEF BackInv, Holder
      <4> QED BY <2>1, <4>1, <4>2
    <3> QED BY <1>3, <2>2, <3>1 DEF BackInv
  <2>8. AckInv' BY <1>3, <2>1, <2>2 DEF AckInv, Alone
  <2>9. CapInv' /\ BotsStartNothing'
    BY <1>3 DEF CapInv, Running, BotsStartNothing
  <2>10. TwoInv' BY <1>3, <2>2 DEF TwoInv, Idle
  <2> QED BY <2>3, <2>4, <2>6, <2>7, <2>8, <2>9, <2>10
<1> QED BY <1>4, <1>5

\* An unused id starts to run, any other is left alone.
LEMMA StartFacts ==
    ASSUME TypeOK, NEW w \in WorkflowIds, NEW d \in Depts \cup {None}, NEW e \in mix,
           StartRun(w, d, e)
    PROVE  /\ run' \in [WorkflowIds -> RunShape] /\ starts' \in [mix -> Nat]
           /\ overrun' \subseteq Issues /\ overrun \subseteq overrun'
           /\ \A x \in WorkflowIds: x # w \/ ~Unused(w) => run'[x] = run[x]
           /\ \A f \in mix: f # e => starts'[f] = starts[f]
           /\ starts'[e] = starts[e] \/ starts'[e] = starts[e] + 1
           /\ \A i \in Issues:
                 /\ Unused(w) /\ w = <<"jira", i>>
                 /\ \/ ~Idle(<<"rev1", i>>)
                    \/ \E q \in Requests: req[q].pc = "newdept" /\ Info[req[q].ev].issue = i
                 => i \in overrun'
<1> DEFINE new == [st |-> "running", dept |-> d, cancel |-> FALSE]
<1>1. new \in RunShape BY DEF RunShape
<1>2. run' = IF Unused(w) THEN [run EXCEPT ![w] = new] ELSE run BY DEF StartRun
<1>3. starts' = [starts EXCEPT ![e] = @ + 1] BY DEF StartRun
<1> HIDE DEF new
<1>4. /\ run' \in [WorkflowIds -> RunShape]
      /\ \A x \in WorkflowIds: x # w \/ ~Unused(w) => run'[x] = run[x]
  BY <1>1, <1>2 DEF TypeOK
<1>5. /\ starts' \in [mix -> Nat]
      /\ \A f \in mix: f # e => starts'[f] = starts[f]
      /\ starts'[e] = starts[e] \/ starts'[e] = starts[e] + 1
  BY <1>3 DEF TypeOK
<1>6. w[1] \in Kinds /\ w[2] \in Issues BY DEF WorkflowIds
<1>7. overrun' \subseteq Issues /\ overrun \subseteq overrun'
  BY <1>6 DEF StartRun, TypeOK
<1>8. ASSUME NEW i \in Issues, Unused(w), w = <<"jira", i>>,
             \/ ~Idle(<<"rev1", i>>)
             \/ \E q \in Requests: req[q].pc = "newdept" /\ Info[req[q].ev].issue = i
      PROVE  i \in overrun'
  BY <1>8 DEF StartRun
<1> QED BY <1>4, <1>5, <1>7, <1>8

\* A start of anything but a handed-over run, and what runs then.
LEMMA StartTwo ==
    ASSUME TypeOK, TwoInv, NEW w \in WorkflowIds, NEW d \in Depts \cup {None}, NEW e \in mix,
           StartRun(w, d, e), w[1] # "rev1", mix' = mix,
           \A q \in Requests: req'[q].pc = "newdept" => req'[q] = req[q]
    PROVE  TwoInv'
<1>1. /\ overrun \subseteq overrun'
      /\ \A x \in WorkflowIds: x # w \/ ~Unused(w) => run'[x] = run[x]
      /\ \A i \in Issues:
            /\ Unused(w) /\ w = <<"jira", i>>
            /\ \/ ~Idle(<<"rev1", i>>)
               \/ \E q \in Requests: req[q].pc = "newdept" /\ Info[req[q].ev].issue = i
            => i \in overrun'
  BY StartFacts
<1> SUFFICES ASSUME NEW i \in Issues, ~Idle(<<"jira", i>>)',
                    \/ ~Idle(<<"rev1", i>>)'
                    \/ \E q \in Requests: req'[q].pc = "newdept" /\ Info[req'[q].ev].issue = i
             PROVE  i \in overrun' \/ run'[<<"jira", i>>].cancel
  BY DEF TwoInv
<1>2. <<"jira", i>> \in WorkflowIds /\ <<"rev1", i>> \in WorkflowIds /\ w # <<"rev1", i>>
  BY DEF WorkflowIds, Kinds
<1>3. \/ ~Idle(<<"rev1", i>>)
      \/ \E q \in Requests: req[q].pc = "newdept" /\ Info[req[q].ev].issue = i
  BY <1>1, <1>2 DEF Idle
<1>4. CASE Unused(w) /\ w = <<"jira", i>> BY <1>1, <1>3, <1>4
<1>5. CASE ~Unused(w) \/ w # <<"jira", i>>
  <2>1. run'[<<"jira", i>>] = run[<<"jira", i>>] BY <1>1, <1>2, <1>5
  <2> QED BY <1>1, <1>3, <2>1 DEF TwoInv, Idle
<1> QED BY <1>4, <1>5

\* The runs after a start: one more at most.
LEMMA StartCap ==
    ASSUME TypeOK, NEW w \in WorkflowIds, NEW d \in Depts \cup {None}, NEW e \in mix,
           StartRun(w, d, e), NEW seen, IsFiniteSet(seen), Cardinality(seen) < Cap,
           Running \subseteq seen
    PROVE  IsFiniteSet(Running)' /\ (Cardinality(Running) <= Cap)'
<1>1. \A x \in WorkflowIds: x # w \/ ~Unused(w) => run'[x] = run[x] BY StartFacts
<1>2. Running' \subseteq seen \cup {w} BY <1>1 DEF Running, Idle
<1>3. /\ IsFiniteSet(seen \cup {w})
      /\ Cardinality(seen \cup {w}) = Cardinality(seen) \/ Cardinality(seen \cup {w}) = Cardinality(seen) + 1
  BY FS_AddElement
<1>4. IsFiniteSet(Running') /\ Cardinality(Running') <= Cardinality(seen \cup {w})
  BY <1>2, <1>3, FS_Subset
<1>5. /\ Cardinality(seen) \in Nat /\ Cardinality(seen \cup {w}) \in Nat
      /\ Cardinality(Running') \in Nat /\ Cap \in Nat
  BY <1>3, <1>4, FS_CardinalityType, BoundsAssumption
<1>6. Cardinality(Running') <= Cap BY <1>3, <1>4, <1>5
<1> QED BY <1>4, <1>6

\* The start of the v3 route uses the claim up.
LEMMA StepStart ==
    ASSUME IInv, NEW r \in Requests, start_workflow_idempotent(r)
    PROVE  IInv'
<1> USE NoneAssumption, MixesAssumption, BoundsAssumption, InfoAssumption DEF IInv
<1> DEFINE e == req[r].ev
           w == KeyOf(e)
<1>1. /\ UNCHANGED <<mix, tries, claimed, window, burst, iter, items, today, fault, failed, settled>>
      /\ req[r].pc = "start" /\ StartRun(w, Info[e].dept, e)
      /\ raced' = (raced \/ ~(Running \subseteq req[r].seen))
      /\ handled' = handled \cup {e} /\ Respond(r, "2xx")
  BY DEF start_workflow_idempotent
<1>2. /\ e \in mix /\ e \in Events /\ Holder(r) /\ Info[e].route = "v3" /\ Info[e].actor # "bot"
      /\ IsFiniteSet(req[r].seen) /\ Cardinality(req[r].seen) < Cap
  BY <1>1 DEF Holder, StageInv, StageOf, TypeOK
<1>3. Info[e].issue \in Issues /\ Info[e].dept \in Depts \cup {None} BY <1>2 DEF EventShape
<1>4. w \in WorkflowIds /\ w[1] # "rev1" BY <1>3 DEF KeyOf, WorkflowIds, Kinds
<1>5. /\ req' \in [Requests -> RequestShape]
      /\ req'[r] = Free /\ \A q \in Requests \ {r}: req'[q] = req[q]
      /\ answer' \in [mix -> {"none", "ok", "retry"}]
      /\ \A f \in mix: answer'[f] = "ok" => answer[f] = "ok" \/ f = e
  BY <1>1, RespondFacts
<1>6. Free.pc = "free" /\ Free.ev = None BY DEF Free
<1> HIDE DEF e, w
<1>7. /\ run' \in [WorkflowIds -> RunShape] /\ starts' \in [mix -> Nat]
      /\ overrun' \subseteq Issues
      /\ \A f \in mix: f # e => starts'[f] = starts[f]
      /\ starts'[e] = starts[e] \/ starts'[e] = starts[e] + 1
  BY <1>1, <1>2, <1>3, <1>4, StartFacts
<1>8. raced' \in BOOLEAN /\ (~raced' => ~raced /\ Running \subseteq req[r].seen) BY <1>1
<1>9. TypeOK' BY <1>1, <1>2, <1>5, <1>7, <1>8 DEF TypeOK
<1>10. StageInv' BY <1>1, <1>5, <1>6 DEF StageInv, StageOf
<1>11. ClaimInv'
  <2>1. \A q \in Requests: Holder(q)' <=> Holder(q) /\ q # r BY <1>5, <1>6 DEF Holder
  <2>2. \A q \in Requests \ {r}: Holder(q) => Info[req[q].ev].id # Info[e].id
    BY <1>2 DEF ClaimInv, e
  <2>3. Info[e].id \in claimed /\ (e \notin fault => starts[e] = 0)
    BY <1>2 DEF ClaimInv, e
  <2>4. \A q \in Requests: Holder(q)' => Info[req'[q].ev].id \in claimed
    BY <1>5, <2>1 DEF ClaimInv
  <2>5. \A q, p \in Requests:
          (Holder(q)' /\ Holder(p)' /\ Info[req'[q].ev].id = Info[req'[p].ev].id) => q = p
    BY <1>5, <2>1 DEF ClaimInv
  <2>6. ASSUME NEW f \in mix, Info[f].route = "v3", f \notin fault
        PROVE  \/ starts'[f] = 0
               \/ /\ starts'[f] = 1
                  /\ Info[f].id \in claimed
                  /\ \A q \in Requests: Holder(q)' => Info[req'[q].ev].id # Info[f].id
    <3>1. CASE f = e BY <1>5, <1>7, <2>1, <2>2, <2>3, <2>6, <3>1
    <3>2. CASE f # e BY <1>5, <1>7, <2>1, <2>6, <3>2 DEF ClaimInv
    <3> QED BY <3>1, <3>2
  <2> QED BY <1>1, <2>4, <2>5, <2>6 DEF ClaimInv
<1>12. BackInv'
  <2>1. ASSUME NEW c \in claimed
        PROVE  \E f \in mix:
                  /\ Info[f].route = "v3" /\ Info[f].id = c
                  /\ f \in fault \cup handled' \/ \E q \in Requests: Holder(q)' /\ req'[q].ev = f
    <3>1. PICK f \in mix:
                  /\ Info[f].route = "v3" /\ Info[f].id = c
                  /\ f \in fault \cup handled \/ \E q \in Requests: Holder(q) /\ req[q].ev = f
      BY DEF BackInv
    <3>2. CASE f = e BY <1>1, <3>1, <3>2
    <3>3. CASE f # e BY <1>1, <1>5, <3>1, <3>3 DEF Holder, e
    <3> QED BY <3>2, <3>3
  <2> QED BY <1>1, <1>5, <1>6, <2>1 DEF BackInv
<1>13. AckInv'
  <2> SUFFICES ASSUME NEW f \in mix, Info[f].route = "v3", Alone(f), answer'[f] = "ok", f \notin settled
               PROVE  \/ f \in handled' \cup failed \cup fault
                      \/ \E q \in Requests: req'[q].pc = "start" /\ req'[q].ev = f
    BY <1>1 DEF AckInv, Alone
  <2>1. CASE f = e BY <1>1, <2>1
  <2>2. CASE f # e BY <1>1, <1>5, <2>2 DEF AckInv, e
  <2> QED BY <2>1, <2>2
<1>14. CapInv'
  <2>1. ~raced' => IsFiniteSet(Running)' /\ (Cardinality(Running) <= Cap)'
    BY <1>1, <1>2, <1>3, <1>4, <1>8, StartCap
  <2> QED BY <1>1, <2>1 DEF CapInv
<1>15. TwoInv'
  <2>1. \A q \in Requests: req'[q].pc = "newdept" => req'[q] = req[q] BY <1>5, <1>6
  <2> QED BY <1>1, <1>2, <1>3, <1>4, <2>1, StartTwo
<1>16. BotsStartNothing'
  BY <1>1, <1>2, <1>7 DEF BotsStartNothing
<1> QED BY <1>9, <1>10, <1>11, <1>12, <1>13, <1>14, <1>15, <1>16

\* A run that did not change is not a race, and one that did is.
LEMMA RacedCap ==
    ASSUME CapInv, raced \in BOOLEAN, raced' = (raced \/ run' # run), items' = items
    PROVE  CapInv' /\ raced' \in BOOLEAN
<1>1. CASE run' = run
  <2>1. Running' = Running BY <1>1 DEF Running
  <2>2. raced' = raced BY <1>1
  <2> QED BY <2>1, <2>2 DEF CapInv
<1>2. CASE run' # run
  <2>1. raced' = TRUE BY <1>2
  <2> QED BY <2>1 DEF CapInv
<1> QED BY <1>1, <1>2

\* A start that fails keeps its claim for the release, and is a fault when the
\* run exists all the same.
LEMMA StepStartFailed ==
    ASSUME IInv, NEW r \in Requests, start_failed(r)
    PROVE  IInv'
<1> USE NoneAssumption, MixesAssumption, BoundsAssumption, InfoAssumption DEF IInv
<1> DEFINE e == req[r].ev
           w == KeyOf(e)
<1>1. /\ UNCHANGED <<mix, tries, answer, claimed, window, burst, iter, items, today, settled, handled>>
      /\ req[r].pc = "start" /\ req' = [req EXCEPT ![r].pc = "release"]
      /\ failed' = failed \cup {e} /\ raced' = (raced \/ run' # run)
      /\ \/ UNCHANGED <<run, starts, overrun, fault>>
         \/ StartRun(w, Info[e].dept, e) /\ fault' = fault \cup {e}
  BY DEF start_failed
<1>2. e \in mix /\ e \in Events /\ Info[e].route = "v3" /\ Info[e].actor # "bot" /\ StageOf(req[r])
  BY <1>1 DEF StageInv, StageOf, TypeOK
<1>3. Info[e].issue \in Issues /\ Info[e].dept \in Depts \cup {None} BY <1>2 DEF EventShape
<1>4. w \in WorkflowIds /\ w[1] # "rev1" BY <1>3 DEF KeyOf, WorkflowIds, Kinds
<1>5. /\ req' \in [Requests -> RequestShape]
      /\ req'[r].pc = "release" /\ req'[r].ev = req[r].ev /\ req'[r].seen = req[r].seen
      /\ \A q \in Requests \ {r}: req'[q] = req[q]
  BY <1>1, MoveFacts
<1> HIDE DEF w
<1>6. /\ run' \in [WorkflowIds -> RunShape] /\ starts' \in [mix -> Nat]
      /\ overrun' \subseteq Issues /\ fault \subseteq fault' /\ fault' \subseteq mix
      /\ \A f \in mix: f # e => starts'[f] = starts[f]
      /\ starts'[e] = starts[e] \/ e \in fault'
  <2>1. CASE UNCHANGED <<run, starts, overrun, fault>> BY <2>1 DEF TypeOK
  <2>2. CASE StartRun(w, Info[e].dept, e) /\ fault' = fault \cup {e}
    <3>1. /\ run' \in [WorkflowIds -> RunShape] /\ starts' \in [mix -> Nat]
          /\ overrun' \subseteq Issues
          /\ \A f \in mix: f # e => starts'[f] = starts[f]
      BY <1>2, <1>3, <1>4, <2>2, StartFacts
    <3> QED BY <1>2, <2>2, <3>1 DEF TypeOK
  <2> QED BY <1>1, <2>1, <2>2
<1>7. CapInv' /\ raced' \in BOOLEAN BY <1>1, RacedCap DEF TypeOK
<1>8. TypeOK' BY <1>1, <1>2, <1>5, <1>6, <1>7 DEF TypeOK
<1>9. StageInv' BY <1>1, <1>2, <1>5 DEF StageInv, StageOf
<1>10. \A q \in Requests: Holder(q)' = Holder(q) /\ req'[q].ev = req[q].ev
  BY <1>1, <1>5 DEF Holder
<1>11. ClaimInv' BY <1>1, <1>6, <1>10 DEF ClaimInv
<1>12. BackInv'
  <2>1. \A q \in Requests: req'[q].pc = "release" => req'[q].ev \in failed'
    BY <1>1, <1>5 DEF BackInv
  <2>2. ASSUME NEW c \in claimed
        PROVE  \E f \in mix:
                  /\ Info[f].route = "v3" /\ Info[f].id = c
                  /\ f \in fault' \cup handled \/ \E q \in Requests: Holder(q)' /\ req'[q].ev = f
    BY <1>6, <1>10 DEF BackInv
  <2> QED BY <1>1, <2>1, <2>2 DEF BackInv
<1>13. AckInv'
  <2> SUFFICES ASSUME NEW f \in mix, Info[f].route = "v3", Alone(f), answer[f] = "ok", f \notin settled
               PROVE  \/ f \in handled \cup failed' \cup fault'
                      \/ \E q \in Requests: req'[q].pc = "start" /\ req'[q].ev = f
    BY <1>1 DEF AckInv, Alone
  <2>1. CASE f = e BY <1>1, <2>1
  <2>2. CASE f # e BY <1>1, <1>5, <1>6, <2>2 DEF AckInv
  <2> QED BY <2>1, <2>2
<1>14. TwoInv'
  <2>1. \A q \in Requests: req'[q].pc = "newdept" => req'[q] = req[q] BY <1>5
  <2>2. CASE UNCHANGED <<run, starts, overrun, fault>> BY <1>1, <2>1, <2>2 DEF TwoInv, Idle
  <2>3. CASE StartRun(w, Info[e].dept, e)
    BY <1>1, <1>2, <1>3, <1>4, <2>1, <2>3, StartTwo
  <2> QED BY <1>1, <2>2, <2>3
<1>15. BotsStartNothing'
  BY <1>1, <1>2, <1>6 DEF BotsStartNothing
<1> QED BY <1>7, <1>8, <1>9, <1>11, <1>12, <1>13, <1>14, <1>15

\* The release gives the id back only while nothing was started with it.
LEMMA StepRelease ==
    ASSUME IInv, NEW r \in Requests, release(r)
    PROVE  IInv'
<1> USE NoneAssumption, MixesAssumption, BoundsAssumption, InfoAssumption DEF IInv
<1> DEFINE e == req[r].ev
<1>1. /\ UNCHANGED <<mix, tries, window, burst, iter, temporal, starts, verdicts, raced, overrun>>
      /\ req[r].pc = "release" /\ Respond(r, "500")
      /\ \/ claimed' = claimed \ {Info[e].id} /\ fault' = fault
         \/ fault' = fault \cup {e} /\ claimed' = claimed
  BY DEF release
<1>2. UNCHANGED <<mix, tries, window, burst, iter, run, items, today, starts, failed, handled, settled,
                  raced, overrun>>
  BY <1>1 DEF temporal, verdicts
<1>3. e \in mix /\ Holder(r) /\ e \in failed BY <1>1 DEF Holder, StageInv, StageOf, BackInv
<1>4. CASE fault' = fault \cup {e} /\ claimed' = claimed
  BY <1>1, <1>2, <1>3, <1>4, LeavingStep DEF TypeOK
<1>5. CASE claimed' = claimed \ {Info[e].id} /\ fault' = fault
  <2>1. /\ req' \in [Requests -> RequestShape]
        /\ req'[r] = Free /\ \A q \in Requests \ {r}: req'[q] = req[q]
        /\ answer' \in [mix -> {"none", "ok", "retry"}]
        /\ \A f \in mix: answer'[f] = "ok" => answer[f] = "ok"
    BY <1>1, RespondFacts
  <2>2. Free.pc = "free" /\ Free.ev = None BY DEF Free
  <2>3. TypeOK' BY <1>2, <1>5, <2>1 DEF TypeOK
  <2>4. StageInv' BY <1>2, <2>1, <2>2 DEF StageInv, StageOf
  <2>5. \A q \in Requests: Holder(q)' <=> Holder(q) /\ q # r BY <2>1, <2>2 DEF Holder
  <2>6. \A q \in Requests \ {r}: Holder(q) => Info[req[q].ev].id # Info[e].id
    BY <1>3 DEF ClaimInv
  <2>7. ClaimInv'
    <3>1. \A q \in Requests: Holder(q)' => Info[req'[q].ev].id \in claimed'
      BY <1>5, <2>1, <2>5, <2>6 DEF ClaimInv
    <3>2. \A q, p \in Requests:
            (Holder(q)' /\ Holder(p)' /\ Info[req'[q].ev].id = Info[req'[p].ev].id) => q = p
      BY <2>1, <2>5 DEF ClaimInv
    <3>3. ASSUME NEW f \in mix, Info[f].route = "v3", f \notin fault
          PROVE  \/ starts[f] = 0
                 \/ /\ starts[f] = 1
                    /\ Info[f].id \in claimed'
                    /\ \A q \in Requests: Holder(q)' => Info[req'[q].ev].id # Info[f].id
      BY <1>3, <1>5, <2>1, <2>5, <3>3 DEF ClaimInv
    <3> QED BY <1>2, <1>5, <3>1, <3>2, <3>3 DEF ClaimInv
  <2>8. BackInv'
    <3>1. ASSUME NEW c \in claimed'
          PROVE  \E f \in mix:
                    /\ Info[f].route = "v3" /\ Info[f].id = c
                    /\ f \in fault \cup handled \/ \E q \in Requests: Holder(q)' /\ req'[q].ev = f
      <4>1. PICK f \in mix:
                    /\ Info[f].route = "v3" /\ Info[f].id = c
                    /\ f \in fault \cup handled \/ \E q \in Requests: Holder(q) /\ req[q].ev = f
        BY <1>5 DEF BackInv
      <4>2. f # e BY <1>5, <4>1
      <4> QED BY <2>1, <2>5, <4>1, <4>2
    <3> QED BY <1>2, <1>5, <2>1, <2>2, <3>1 DEF BackInv
  <2>9. AckInv'
    <3> SUFFICES ASSUME NEW f \in mix, Info[f].route = "v3", Alone(f), answer'[f] = "ok", f \notin settled
                 PROVE  \/ f \in handled \cup failed \cup fault
                        \/ \E q \in Requests: req'[q].pc = "start" /\ req'[q].ev = f
      BY <1>2, <1>5 DEF AckInv, Alone
    <3> QED BY <1>1, <2>1 DEF AckInv
  <2>10. CapInv' /\ BotsStartNothing'
    BY <1>2 DEF CapInv, Running, BotsStartNothing
  <2>11. TwoInv' BY <1>2, <2>1, <2>2 DEF TwoInv, Idle
  <2> QED BY <2>3, <2>4, <2>7, <2>8, <2>9, <2>10, <2>11
<1> QED BY <1>1, <1>4, <1>5

-----------------------------------------------------------------------------
(* The other routes.                                                       *)

\* A start on a route that has neither claims nor a cap.
LEMMA OtherStart ==
    ASSUME IInv, NEW r \in Requests, req[r].pc \in {"v2", "assigned", "newdept"},
           NEW w \in WorkflowIds, NEW d \in Depts \cup {None},
           StartRun(w, d, req[r].ev), NEW code, Respond(r, code),
           Info[req[r].ev].route = "v2" => Info[req[r].ev].actor # "bot",
           raced' = (raced \/ run' # run),
           UNCHANGED <<mix, tries, claimed, window, burst, iter, items, today, fault, failed,
                       settled, handled>>,
           TwoInv'
    PROVE  IInv'
<1> USE NoneAssumption, MixesAssumption, BoundsAssumption DEF IInv
<1> DEFINE e == req[r].ev
<1>1. e \in mix /\ ~Holder(r) /\ Info[e].route \in {"v2", "assigned"}
  BY DEF Holder, StageInv, StageOf
<1>2. /\ req' \in [Requests -> RequestShape]
      /\ req'[r] = Free /\ \A q \in Requests \ {r}: req'[q] = req[q]
      /\ answer' \in [mix -> {"none", "ok", "retry"}]
      /\ \A f \in mix: answer'[f] = "ok" => answer[f] = "ok" \/ f = e
  BY RespondFacts
<1>3. Free.pc = "free" /\ Free.ev = None BY DEF Free
<1>4. /\ run' \in [WorkflowIds -> RunShape] /\ starts' \in [mix -> Nat]
      /\ overrun' \subseteq Issues
      /\ \A f \in mix: f # e => starts'[f] = starts[f]
  BY <1>1, StartFacts
<1>5. CapInv' /\ raced' \in BOOLEAN BY RacedCap DEF TypeOK
<1>6. TypeOK' BY <1>2, <1>4, <1>5 DEF TypeOK
<1>7. StageInv' BY <1>2, <1>3 DEF StageInv, StageOf
<1>8. \A q \in Requests: Holder(q)' = Holder(q) /\ (Holder(q) => req'[q] = req[q])
  BY <1>1, <1>2, <1>3 DEF Holder
<1>9. ClaimInv'
  <2>1. \A f \in mix: Info[f].route = "v3" => starts'[f] = starts[f] BY <1>1, <1>4
  <2> QED BY <1>8, <2>1 DEF ClaimInv
<1>10. BackInv'
  <2>1. \A q \in Requests: req'[q].pc = "release" => req'[q].ev \in failed BY <1>2, <1>3 DEF BackInv
  <2>2. ASSUME NEW c \in claimed
        PROVE  \E f \in mix:
                  /\ Info[f].route = "v3" /\ Info[f].id = c
                  /\ f \in fault \cup handled \/ \E q \in Requests: Holder(q)' /\ req'[q].ev = f
    BY <1>8 DEF BackInv
  <2> QED BY <2>1, <2>2 DEF BackInv
<1>11. AckInv'
  <2> SUFFICES ASSUME NEW f \in mix, Info[f].route = "v3", Alone(f), answer'[f] = "ok", f \notin settled
               PROVE  \/ f \in handled \cup failed \cup fault
                      \/ \E q \in Requests: req'[q].pc = "start" /\ req'[q].ev = f
    BY DEF AckInv, Alone
  <2>1. answer[f] = "ok" BY <1>1, <1>2
  <2> QED BY <1>2, <2>1 DEF AckInv
<1>12. BotsStartNothing'
  <2>1. \A f \in mix: (Info[f].route # "assigned" /\ Info[f].actor = "bot") => starts'[f] = 0
    BY <1>1, <1>4 DEF BotsStartNothing
  <2> QED BY <2>1 DEF BotsStartNothing
<1> QED BY <1>5, <1>6, <1>7, <1>9, <1>10, <1>11, <1>12

\* The v2 routes and issue_assigned up to the handover.
LEMMA StepRoutes ==
    ASSUME IInv, NEW r \in Requests, process_jira_webhook(r) \/ handle_issue_assigned(r)
    PROVE  IInv'
<1> USE NoneAssumption, MixesAssumption, BoundsAssumption, InfoAssumption DEF IInv
<1> DEFINE e == req[r].ev
<1>1. /\ UNCHANGED <<mix, tries, claimed, window, burst, iter, items, today, fault, verdicts>>
      /\ req[r].pc \in {"v2", "assigned"} /\ raced' = (raced \/ run' # run)
      /\ \/ /\ \E code \in {"4xx", "2xx", "500"}: Respond(r, code)
            /\ UNCHANGED <<run, starts, overrun>>
         \/ /\ req[r].pc = "v2" /\ Info[e].actor # "bot"
            /\ StartRun(V2Key(e), Info[e].dept, e) /\ \E code \in {"2xx", "500"}: Respond(r, code)
         \/ /\ req[r].pc = "assigned"
            /\ StartRun(<<"jira", Info[e].issue>>, Info[e].to, e)
            /\ \E code \in {"2xx", "500"}: Respond(r, code)
         \/ /\ req[r].pc = "assigned" /\ Info[e].to # None
            /\ req' = [req EXCEPT ![r].pc = "handover"]
            /\ UNCHANGED <<answer, run, starts, overrun>>
  BY DEF process_jira_webhook, handle_issue_assigned
<1>2. UNCHANGED <<failed, settled, handled>> BY <1>1 DEF verdicts
<1>3. e \in mix /\ e \in Events /\ ~Holder(r) /\ Info[e].route \in {"v2", "assigned"} /\ StageOf(req[r])
  BY <1>1 DEF Holder, StageInv, StageOf, TypeOK
<1>4. Info[e].issue \in Issues /\ Info[e].dept \in Depts \cup {None} /\ Info[e].to \in Depts \cup {None}
  BY <1>3 DEF EventShape
<1>5. run' = run => raced' = raced BY <1>1 DEF TypeOK
<1>6. ASSUME NEW code, Respond(r, code), UNCHANGED <<run, starts, overrun>> PROVE IInv'
  <2>1. window' \subseteq Issues BY <1>1 DEF TypeOK
  <2> QED BY <1>1, <1>2, <1>3, <1>5, <1>6, <2>1, LeavingStep
<1>7. ASSUME NEW w \in WorkflowIds, NEW d \in Depts \cup {None}, w[1] # "rev1",
             StartRun(w, d, e), NEW code, Respond(r, code), req[r].pc = "v2" => Info[e].actor # "bot"
      PROVE  IInv'
  <2>1. \A q \in Requests: req'[q].pc = "newdept" => req'[q] = req[q]
    <3>1. Free.pc = "free" BY DEF Free
    <3>2. req'[r] = Free /\ \A q \in Requests \ {r}: req'[q] = req[q] BY <1>1, <1>7, RespondFacts
    <3> QED BY <3>1, <3>2
  <2>2. TwoInv' BY <1>1, <1>3, <1>7, <2>1, StartTwo
  <2>3. Info[e].route = "v2" => Info[e].actor # "bot" BY <1>1, <1>3, <1>7 DEF StageOf
  <2> QED BY <1>1, <1>2, <1>7, <2>2, <2>3, OtherStart
<1>8. CASE /\ req[r].pc = "assigned" /\ Info[e].to # None
           /\ req' = [req EXCEPT ![r].pc = "handover"]
           /\ UNCHANGED <<answer, run, starts, overrun>>
  <2>1. /\ req' \in [Requests -> RequestShape]
        /\ req'[r].pc = "handover" /\ req'[r].ev = req[r].ev
        /\ \A q \in Requests \ {r}: req'[q] = req[q]
    BY <1>8, MoveFacts
  <2>2. raced' = raced BY <1>5, <1>8
  <2>3. StageOf(req[r])' BY <1>1, <1>3, <1>8, <2>1 DEF StageOf
  <2>4. TypeOK' BY <1>1, <1>2, <1>8, <2>1, <2>2 DEF TypeOK
  <2> QED BY <1>1, <1>2, <1>3, <1>8, <2>1, <2>2, <2>3, <2>4, QuietStep
<1>9. V2Key(e) \in WorkflowIds /\ V2Key(e)[1] # "rev1" /\ <<"jira", Info[e].issue>> \in WorkflowIds
  BY <1>4 DEF WorkflowIds, Kinds, V2Key
<1>10. CASE /\ req[r].pc = "v2" /\ Info[e].actor # "bot"
            /\ StartRun(V2Key(e), Info[e].dept, e) /\ \E code \in {"2xx", "500"}: Respond(r, code)
  <2> QED BY <1>4, <1>7, <1>9, <1>10
<1>11. CASE /\ req[r].pc = "assigned"
            /\ StartRun(<<"jira", Info[e].issue>>, Info[e].to, e)
            /\ \E code \in {"2xx", "500"}: Respond(r, code)
  <2>1. <<"jira", Info[e].issue>>[1] # "rev1" OBVIOUS
  <2> QED BY <1>4, <1>7, <1>9, <1>11, <2>1
<1> QED BY <1>1, <1>6, <1>8, <1>10, <1>11

\* A cancel request changes nothing else of a run.
LEMMA CancelFacts ==
    ASSUME TypeOK, NEW w \in WorkflowIds, run' = [run EXCEPT ![w].cancel = TRUE]
    PROVE  /\ run' \in [WorkflowIds -> RunShape] /\ run'[w].cancel
           /\ \A x \in WorkflowIds: /\ run'[x].st = run[x].st
                                    /\ run[x].cancel => run'[x].cancel
<1> DEFINE new == [run[w] EXCEPT !.cancel = TRUE]
<1>1. run[w] \in RunShape BY DEF TypeOK
<1>2. new \in RunShape /\ new.st = run[w].st /\ new.cancel = TRUE BY <1>1 DEF RunShape
<1>3. run' = [run EXCEPT ![w] = new] OBVIOUS
<1> HIDE DEF new
<1> QED BY <1>2, <1>3 DEF TypeOK

\* The first half of a handover: the old run is idle, asked to stop, or noted.
LEMMA StepHandover ==
    ASSUME IInv, NEW r \in Requests, cancel_old_run(r)
    PROVE  IInv'
<1> USE NoneAssumption, MixesAssumption, BoundsAssumption, InfoAssumption DEF IInv
<1> DEFINE e == req[r].ev
           w == <<"jira", Info[e].issue>>
<1>1. /\ UNCHANGED <<mix, tries, answer, claimed, window, burst, iter, items, today, starts, fault,
                     verdicts, raced>>
      /\ req[r].pc = "handover" /\ req' = [req EXCEPT ![r].pc = "newdept"]
      /\ \/ ~Idle(w) /\ run' = [run EXCEPT ![w].cancel = TRUE] /\ overrun' = overrun
         \/ overrun' = (IF Idle(w) THEN overrun ELSE overrun \cup {Info[e].issue}) /\ run' = run
  BY DEF cancel_old_run
<1>2. UNCHANGED <<failed, settled, handled>> BY <1>1 DEF verdicts
<1>3. e \in mix /\ e \in Events /\ StageOf(req[r]) BY <1>1 DEF StageInv, StageOf, TypeOK
<1>4. Info[e].issue \in Issues /\ w \in WorkflowIds BY <1>3 DEF EventShape, WorkflowIds, Kinds
<1>5. /\ req' \in [Requests -> RequestShape]
      /\ req'[r].pc = "newdept" /\ req'[r].ev = req[r].ev
      /\ \A q \in Requests \ {r}: req'[q] = req[q]
  BY <1>1, MoveFacts
<1> HIDE DEF w
<1>6. /\ run' \in [WorkflowIds -> RunShape]
      /\ overrun' \subseteq Issues /\ overrun \subseteq overrun'
      /\ \A x \in WorkflowIds: /\ run'[x].st = run[x].st
                               /\ run[x].cancel => run'[x].cancel
      /\ ~Idle(w) => run'[w].cancel \/ Info[e].issue \in overrun'
  <2>1. CASE ~Idle(w) /\ run' = [run EXCEPT ![w].cancel = TRUE] /\ overrun' = overrun
    BY <1>4, <2>1, CancelFacts DEF TypeOK
  <2>2. CASE overrun' = (IF Idle(w) THEN overrun ELSE overrun \cup {Info[e].issue}) /\ run' = run
    BY <1>4, <2>2 DEF TypeOK
  <2> QED BY <1>1, <2>1, <2>2
<1>7. TypeOK' BY <1>1, <1>2, <1>5, <1>6 DEF TypeOK
<1>8. StageInv' BY <1>1, <1>3, <1>5 DEF StageInv, StageOf
<1>9. \A q \in Requests: Holder(q)' = Holder(q) /\ req'[q].ev = req[q].ev BY <1>1, <1>5 DEF Holder
<1>10. ClaimInv' BY <1>1, <1>9 DEF ClaimInv
<1>11. BackInv'
  <2>1. \A q \in Requests: req'[q].pc = "release" => req'[q].ev \in failed BY <1>5 DEF BackInv
  <2>2. ASSUME NEW c \in claimed
        PROVE  \E f \in mix:
                  /\ Info[f].route = "v3" /\ Info[f].id = c
                  /\ f \in fault \cup handled \/ \E q \in Requests: Holder(q)' /\ req'[q].ev = f
    BY <1>9 DEF BackInv
  <2> QED BY <1>1, <1>2, <2>1, <2>2 DEF BackInv
<1>12. AckInv' BY <1>1, <1>2, <1>5 DEF AckInv, Alone
<1>13. CapInv'
  <2>1. Running' = Running BY <1>6 DEF Running
  <2> QED BY <1>1, <2>1 DEF CapInv
<1>14. TwoInv'
  <2> SUFFICES ASSUME NEW i \in Issues, ~Idle(<<"jira", i>>)',
                      \/ ~Idle(<<"rev1", i>>)'
                      \/ \E q \in Requests: req'[q].pc = "newdept" /\ Info[req'[q].ev].issue = i
               PROVE  i \in overrun' \/ run'[<<"jira", i>>].cancel
    BY DEF TwoInv
  <2>1. <<"jira", i>> \in WorkflowIds /\ <<"rev1", i>> \in WorkflowIds BY DEF WorkflowIds, Kinds
  <2>2. ~Idle(<<"jira", i>>) /\ (~Idle(<<"rev1", i>>)' => ~Idle(<<"rev1", i>>))
    BY <1>6, <2>1 DEF Idle
  <2>3. CASE Info[e].issue = i BY <1>6, <2>2, <2>3 DEF w
  <2>4. CASE Info[e].issue # i
    <3>1. \/ ~Idle(<<"rev1", i>>)
          \/ \E q \in Requests: req[q].pc = "newdept" /\ Info[req[q].ev].issue = i
      BY <1>5, <2>2, <2>4
    <3>2. i \in overrun \/ run[<<"jira", i>>].cancel BY <2>2, <3>1 DEF TwoInv
    <3> QED BY <1>6, <2>1, <3>2
  <2> QED BY <2>3, <2>4
<1>15. BotsStartNothing'
  BY <1>1 DEF BotsStartNothing
<1> QED BY <1>7, <1>8, <1>10, <1>11, <1>12, <1>13, <1>14, <1>15

\* The second half: the handed-over run starts.
LEMMA StepNewDept ==
    ASSUME IInv, NEW r \in Requests, start_new_dept(r)
    PROVE  IInv'
<1> USE NoneAssumption, MixesAssumption, BoundsAssumption, InfoAssumption DEF IInv
<1> DEFINE e == req[r].ev
           w == <<"rev1", Info[e].issue>>
<1>1. /\ UNCHANGED <<mix, tries, claimed, window, burst, iter, items, today, fault, verdicts>>
      /\ req[r].pc = "newdept"
      /\ \/ /\ StartRun(w, Info[e].to, e) /\ raced' = (raced \/ run' # run)
            /\ \E code \in {"2xx", "500"}: Respond(r, code)
         \/ Respond(r, "500") /\ UNCHANGED <<run, starts, overrun, raced>>
  BY DEF start_new_dept
<1>2. UNCHANGED <<failed, settled, handled>> BY <1>1 DEF verdicts
<1>3. e \in mix /\ e \in Events /\ ~Holder(r) /\ Info[e].route = "assigned"
  BY <1>1 DEF Holder, StageInv, StageOf, TypeOK
<1>4. Info[e].issue \in Issues /\ Info[e].to \in Depts \cup {None} /\ w \in WorkflowIds
  BY <1>3 DEF EventShape, WorkflowIds, Kinds
<1>5. CASE Respond(r, "500") /\ UNCHANGED <<run, starts, overrun, raced>>
  <2>1. window' \subseteq Issues BY <1>1 DEF TypeOK
  <2> QED BY <1>1, <1>2, <1>3, <1>5, <2>1, LeavingStep
<1>6. CASE /\ StartRun(w, Info[e].to, e) /\ raced' = (raced \/ run' # run)
           /\ \E code \in {"2xx", "500"}: Respond(r, code)
  <2>1. /\ overrun \subseteq overrun'
        /\ \A x \in WorkflowIds: x # w \/ ~Unused(w) => run'[x] = run[x]
    <3> HIDE DEF w
    <3> QED BY <1>3, <1>4, <1>6, StartFacts
  <2>2. req'[r] = Free /\ \A q \in Requests \ {r}: req'[q] = req[q] BY <1>1, <1>6, RespondFacts
  <2>3. Free.pc = "free" BY DEF Free
  <2>4. TwoInv'
    <3> SUFFICES ASSUME NEW i \in Issues, ~Idle(<<"jira", i>>)',
                        \/ ~Idle(<<"rev1", i>>)'
                        \/ \E q \in Requests: req'[q].pc = "newdept" /\ Info[req'[q].ev].issue = i
                 PROVE  i \in overrun' \/ run'[<<"jira", i>>].cancel
      BY DEF TwoInv
    <3>1. <<"jira", i>> \in WorkflowIds /\ <<"rev1", i>> \in WorkflowIds /\ <<"jira", i>> # w
      BY DEF WorkflowIds, Kinds
    <3>2. run'[<<"jira", i>>] = run[<<"jira", i>>] BY <2>1, <3>1
    <3>3. \/ ~Idle(<<"rev1", i>>)
          \/ \E q \in Requests: req[q].pc = "newdept" /\ Info[req[q].ev].issue = i
      <4>1. CASE w = <<"rev1", i>> BY <1>1, <4>1
      <4>2. CASE w # <<"rev1", i>> BY <2>1, <2>2, <2>3, <3>1, <4>2 DEF Idle
      <4> QED BY <4>1, <4>2
    <3> QED BY <2>1, <3>2, <3>3 DEF TwoInv, Idle
  <2>5. Info[e].route = "v2" => Info[e].actor # "bot" BY <1>3
  <2> HIDE DEF w
  <2> QED BY <1>1, <1>2, <1>4, <1>6, <2>4, <2>5, OtherStart
<1> QED BY <1>1, <1>5, <1>6

-----------------------------------------------------------------------------
(* The runs and their end.                                                 *)

\* A step outside the requests: nothing starts, nothing loses its cancel request.
LEMMA OutsideStep ==
    ASSUME IInv, UNCHANGED <<mix, req, answer, claimed, starts, fault, failed, settled, handled, raced,
                             overrun>>,
           TypeOK', IsFiniteSet(items'),
           \A x \in WorkflowIds: /\ run'[x].st = "running" => run[x].st = "running"
                                 /\ run[x].cancel => run'[x].cancel
    PROVE  IInv'
<1> USE DEF IInv
<1>1. StageInv' /\ ClaimInv' /\ BotsStartNothing'
  BY DEF StageInv, StageOf, ClaimInv, Holder, BotsStartNothing
<1>2. BackInv' BY DEF BackInv, Holder
<1>3. AckInv' BY DEF AckInv, Alone
<1>4. CapInv'
  <2>1. Running' \subseteq Running BY DEF Running
  <2>2. ASSUME ~raced PROVE IsFiniteSet(Running') /\ Cardinality(Running') <= Cap
    <3>1. IsFiniteSet(Running) /\ Cardinality(Running) <= Cap BY <2>2 DEF CapInv
    <3>2. IsFiniteSet(Running') /\ Cardinality(Running') <= Cardinality(Running)
      BY <2>1, <3>1, FS_Subset
    <3>3. Cardinality(Running) \in Nat /\ Cardinality(Running') \in Nat /\ Cap \in Nat
      BY <3>1, <3>2, FS_CardinalityType, BoundsAssumption
    <3> QED BY <3>1, <3>2, <3>3
  <2> QED BY <2>2 DEF CapInv
<1>5. TwoInv'
  <2> SUFFICES ASSUME NEW i \in Issues, ~Idle(<<"jira", i>>)',
                      \/ ~Idle(<<"rev1", i>>)'
                      \/ \E q \in Requests: req[q].pc = "newdept" /\ Info[req[q].ev].issue = i
               PROVE  i \in overrun \/ run'[<<"jira", i>>].cancel
    BY DEF TwoInv
  <2>1. <<"jira", i>> \in WorkflowIds /\ <<"rev1", i>> \in WorkflowIds BY DEF WorkflowIds, Kinds
  <2> QED BY <2>1 DEF TwoInv, Idle
<1> QED BY <1>1, <1>2, <1>3, <1>4, <1>5

\* A run ends, is cancelled or has its work item written; a window closes.
LEMMA StepOutside ==
    ASSUME IInv,
           \/ \E i \in Issues: CloseWindow(i)
           \/ \E a \in Actors, w \in WorkflowIds: cancel_workflow(a, w)
           \/ \E w \in WorkflowIds: RunEnds(w) \/ WriteWorkItem(w)
    PROVE  IInv'
<1> USE NoneAssumption, MixesAssumption, BoundsAssumption DEF IInv
<1>1. ASSUME NEW i \in Issues, CloseWindow(i) PROVE IInv'
  <2>1. /\ UNCHANGED <<mix, req, tries, answer, claimed, burst, iter, run, items, today, starts, fault,
                       failed, settled, handled, raced, overrun>>
        /\ window' = window \ {i}
    BY <1>1 DEF CloseWindow, temporal, history, verdicts
  <2>2. TypeOK' BY <2>1 DEF TypeOK
  <2>3. IsFiniteSet(items') BY <2>1 DEF CapInv
  <2> QED BY <2>1, <2>2, <2>3, OutsideStep
<1>2. ASSUME NEW a \in Actors, NEW w \in WorkflowIds, cancel_workflow(a, w) PROVE IInv'
  <2>1. /\ UNCHANGED <<mix, req, tries, answer, claimed, window, burst, iter, items, today, starts, fault,
                       failed, settled, handled, raced, overrun>>
        /\ run' = [run EXCEPT ![w].cancel = TRUE]
    BY <1>2 DEF cancel_workflow, verdicts
  <2>2. TypeOK'
    <3>1. run' \in [WorkflowIds -> RunShape] BY <2>1, CancelFacts
    <3> QED BY <2>1, <3>1 DEF TypeOK
  <2>3. IsFiniteSet(items') BY <2>1 DEF CapInv
  <2>4. \A x \in WorkflowIds: run'[x].st = run[x].st /\ (run[x].cancel => run'[x].cancel)
    BY <2>1, CancelFacts
  <2> QED BY <2>1, <2>2, <2>3, <2>4, OutsideStep
<1>3. ASSUME NEW w \in WorkflowIds, RunEnds(w) PROVE IInv'
  <2>1. /\ UNCHANGED <<mix, req, tries, answer, claimed, window, burst, today, starts, fault,
                       failed, settled, handled, raced, overrun>>
        /\ run' = [run EXCEPT ![w].st = "closed"]
        /\ items' = items \ {w} /\ iter' = [iter EXCEPT ![w[2]] = 2]
    BY <1>3 DEF RunEnds, history, verdicts
  <2>2. TypeOK'
    <3>1. run' \in [WorkflowIds -> RunShape]
      <4>1. run[w] \in RunShape BY DEF TypeOK
      <4>2. [run[w] EXCEPT !.st = "closed"] \in RunShape BY <4>1 DEF RunShape
      <4> QED BY <2>1, <4>2 DEF TypeOK
    <3>2. iter' \in [Issues -> {1, 2}] BY <2>1 DEF TypeOK
    <3> QED BY <2>1, <3>1, <3>2 DEF TypeOK
  <2>3. IsFiniteSet(items')
    BY <2>1, FS_RemoveElement DEF CapInv
  <2>4. \A x \in WorkflowIds: /\ run'[x].st = "running" => run[x].st = "running"
                              /\ run[x].cancel => run'[x].cancel
    BY <2>1 DEF TypeOK, RunShape
  <2> QED BY <2>1, <2>2, <2>3, <2>4, OutsideStep
<1>4. ASSUME NEW w \in WorkflowIds, WriteWorkItem(w) PROVE IInv'
  <2>1. /\ UNCHANGED <<mix, req, tries, answer, claimed, window, burst, iter, run, starts, fault,
                       failed, settled, handled, raced, overrun>>
        /\ items' = items \cup {w} /\ today' = IF today < DayCap THEN today + 1 ELSE today
    BY <1>4 DEF WriteWorkItem, history, verdicts
  <2>2. TypeOK' BY <2>1 DEF TypeOK
  <2>3. IsFiniteSet(items')
    BY <2>1, FS_AddElement DEF CapInv
  <2> QED BY <2>1, <2>2, <2>3, OutsideStep
<1> QED BY <1>1, <1>2, <1>3, <1>4

-----------------------------------------------------------------------------
(* What follows.                                                           *)

\* IInv is inductive: it holds in every state, whatever is sent and however the
\* requests interleave, fail and crash.
THEOREM IntakeInvariant == Spec => []IInv
<1> USE NoneAssumption, MixesAssumption, BoundsAssumption, InfoAssumption
<1>1. Init => IInv
  <2> SUFFICES ASSUME Init PROVE IInv OBVIOUS
  <2>1. Free \in RequestShape /\ Free.pc = "free" /\ Free.ev = None BY DEF Free, RequestShape
  <2>2. req \in [Requests -> RequestShape] /\ \A r \in Requests: req[r] = Free BY <2>1 DEF Init
  <2>3. /\ run \in [WorkflowIds -> RunShape]
        /\ \A w \in WorkflowIds: run[w].st = "none"
    BY DEF Init, RunShape
  <2>4. TypeOK
    <3>1. /\ tries \in [mix -> 0..MaxTries] /\ starts \in [mix -> Nat] /\ iter \in [Issues -> {1, 2}]
          /\ answer \in [mix -> {"none", "ok", "retry"}] /\ today \in 0..DayCap
      BY DEF Init
    <3> QED BY <2>2, <2>3, <3>1 DEF Init, TypeOK
  <2>5. StageInv BY <2>1, <2>2 DEF StageInv, StageOf
  <2>6. ClaimInv /\ BackInv BY <2>1, <2>2 DEF Init, ClaimInv, BackInv, Holder
  <2>7. AckInv BY DEF Init, AckInv
  <2>8. CapInv
    <3>1. Running = {} /\ items = {} BY <2>3 DEF Init, Running
    <3>2. IsFiniteSet({}) /\ Cardinality({}) = 0 BY FS_EmptySet
    <3> QED BY <3>1, <3>2 DEF CapInv
  <2>9. TwoInv
    <3>1. \A i \in Issues: <<"jira", i>> \in WorkflowIds BY DEF WorkflowIds, Kinds
    <3> QED BY <2>3, <3>1 DEF TwoInv, Idle
  <2>10. BotsStartNothing
    BY DEF Init, BotsStartNothing
  <2> QED BY <2>4, <2>5, <2>6, <2>7, <2>8, <2>9, <2>10 DEF IInv
<1>2. IInv /\ [Next]_vars => IInv'
  <2> SUFFICES ASSUME IInv, [Next]_vars PROVE IInv' OBVIOUS
  <2>1. CASE UNCHANGED vars
    <3>1. UNCHANGED <<mix, req, tries, answer, claimed, window, burst, iter, run, items, today, starts,
                      fault, failed, settled, handled, raced, overrun>>
      BY <2>1 DEF vars
    <3>2. TypeOK' BY <3>1 DEF IInv, TypeOK
    <3>3. IsFiniteSet(items') BY <3>1 DEF IInv, CapInv
    <3> QED BY <3>1, <3>2, <3>3, OutsideStep
  <2>2. CASE Next
    BY <2>2, StepDeliver, StepCrash, StepProcess, StepCap, StepClaim, StepStart, StepStartFailed,
       StepRelease, StepRoutes, StepHandover, StepNewDept, StepOutside DEF Next
  <2> QED BY <2>1, <2>2
<1> QED BY <1>1, <1>2, PTL DEF Spec

\* An event delivered to v3 any number of times starts at most one run, and a
\* claim that stays is backed by a run, short of a fault.
THEOREM DeliversOnce == Spec => []DeliveredOnce
<1>1. IInv => DeliveredOnce
  <2> SUFFICES ASSUME IInv PROVE DeliveredOnce OBVIOUS
  <2> USE DEF IInv
  <2>1. OneStartPerDelivery BY DEF ClaimInv, OneStartPerDelivery
  <2>2. ClaimIsBackedByStart BY DEF BackInv, ClaimIsBackedByStart, InProgress
  <2> QED BY <2>1, <2>2 DEF DeliveredOnce
<1> QED BY <1>1, IntakeInvariant, PTL

\* A 2xx for an event that has a delivery id of its own and that no filter
\* dropped means its run was started, unless its start failed or a fault came
\* between.
THEOREM AnswersMeanIt == Spec => []AcknowledgedIsHandled
<1>1. IInv => AcknowledgedIsHandled
  BY DEF IInv, AckInv, AcknowledgedIsHandled, Acknowledged, InProgress
<1> QED BY <1>1, IntakeInvariant, PTL

\* For every cap, mix of events and interleaving: no event of a bot starts a run,
\* the cap is exceeded only by a race, two runs for an issue need a cause, and
\* only the entitled cancel.
THEOREM StartsEntitled == Spec => []StartsAreEntitled
<1>1. IInv => StartsAreEntitled
  <2> SUFFICES ASSUME IInv PROVE StartsAreEntitled OBVIOUS
  <2> USE DEF IInv
  <2>1. CapExceededNeedsRace
    <3>1. SUFFICES ASSUME ~raced PROVE ~(Cardinality(Running) > Cap) BY DEF CapExceededNeedsRace
    <3>2. IsFiniteSet(Running) /\ Cardinality(Running) <= Cap BY <3>1 DEF CapInv
    <3>3. Cardinality(Running) \in Nat BY <3>2, FS_CardinalityType
    <3> QED BY <3>2, <3>3, BoundsAssumption
  <2>2. TwoRunsNeedCause BY DEF TwoInv, TwoRunsNeedCause
  <2> QED BY <2>1, <2>2 DEF StartsAreEntitled
<1> QED BY <1>1, IntakeInvariant, PTL

=============================================================================
