----------------------------- MODULE Assistant ------------------------------
(***************************************************************************)
(* A turn of the chat assistant: ChatHandler.stream consumes the events of *)
(* LlmOrchestrator.stream_with_tool_loop under a timeout and passes them   *)
(* to the client.  Both are generators: the orchestrator goes on only when *)
(* the handler asks for the next event, and the handler only when the      *)
(* client has taken the last one.  job[x].val holds the counters of the    *)
(* turn.                                                                   *)
(***************************************************************************)
EXTENDS Jobs

CONSTANTS
    TokenCap,           \* deps.token_cap
    ToolLimit,          \* tool calls of a turn: 8 in the code
    MaxRateLimits       \* _MAX_429_ATTEMPTS

VARIABLES
    tools,              \* tool calls that were carried out: [by, n, write]
    shown                \* shown[x]: the kinds of event the client has received

chatVars == <<tools, shown>>

ChatInit == tools = {} /\ shown = [x \in Jobs |-> {}]

FreshTurn == [tokens |-> 0, calls |-> 0, limited |-> 0, fallback |-> FALSE, write |-> FALSE]

Turn(x) == job[x].val

Tell(x, event) == shown' = [shown EXCEPT ![x] = @ \cup {event}]

\* The catalogue of tools is listed before anything else; a failure ends the turn.
ChatBegins(x) ==
    /\ Begins(x, "chat") /\ UNCHANGED chatVars /\ Quiet
    /\ \/ Works /\ Keep(x, "stream", FreshTurn)
       \/ Fault /\ End(x, "raised")

\* An event is handed to the client; the handler is suspended until it is taken.
Passed(x, event, pc, turn) == Tell(x, event) /\ Set(x, [job[x] EXCEPT !.pc = pc, !.val = turn])

\* The event that ends a turn is passed on like any other; once the client has
\* taken it the turn is audited.
Terminal(x, event, turn) == Passed(x, event, "audit_next", turn)

\* A chunk of text; every chunk counts towards the cap, of which the provider's
\* retries and the fallback get no fresh share.
TextArrives(x) ==
    /\ At(x, "chat", "stream") /\ Works /\ Quiet /\ UNCHANGED tools
    /\ LET t == [Turn(x) EXCEPT !.tokens = @ + 1]
       IN  IF t.tokens > TokenCap THEN Terminal(x, "token_cap_exceeded", t)
           ELSE Passed(x, "token", "stream_next", t)

\* The model asks for a tool.  The handler sees the event before the call is
\* carried out and turns a write into a redirect.
ToolCallArrives(x) ==
    /\ At(x, "chat", "stream") /\ Works /\ Quiet /\ UNCHANGED tools
    /\ \E write \in BOOLEAN :
          LET t == [Turn(x) EXCEPT !.calls = @ + 1, !.write = write]
          IN  IF t.calls > ToolLimit THEN Terminal(x, "error", t)
              ELSE IF write THEN Passed(x, "redirect_to_task_creator", "redirect_next", t)
              ELSE Passed(x, "tool_call", "tool_next", t)

\* What follows each event the handler is suspended at.
AfterEvent == [stream_next |-> "stream", tool_next |-> "tool", redirect_next |-> "redirect", audit_next |-> "audit"]

\* The client took the event and the generators go on.
ClientTakes(x) ==
    /\ ask[x].op = "chat" /\ job[x].pc \in DOMAIN AfterEvent /\ Works /\ Quiet
    /\ Set(x, [job[x] EXCEPT !.pc = AfterEvent[@]])
    /\ UNCHANGED chatVars

\* The tool runs; a failure is an error event.
ToolRuns(x) ==
    /\ At(x, "chat", "tool") /\ Quiet
    /\ \/ /\ Works /\ Passed(x, "tool_result", "stream_next", Turn(x))
          /\ tools' = tools \cup {[by |-> x, n |-> Turn(x).calls, write |-> Turn(x).write]}
       \/ Fault /\ Terminal(x, "error", Turn(x)) /\ UNCHANGED tools

AnswerDone(x) == At(x, "chat", "stream") /\ Works /\ Quiet /\ Terminal(x, "done", Turn(x)) /\ UNCHANGED tools

\* HTTP 429: wait and ask again with the history so far, three times in a turn.
RateLimited(x) ==
    /\ At(x, "chat", "stream") /\ Fault /\ Quiet /\ UNCHANGED tools
    /\ LET t == [Turn(x) EXCEPT !.limited = @ + 1]
       IN  IF t.limited >= MaxRateLimits THEN Terminal(x, "rate_limit_exhausted", t)
           ELSE Keep(x, "stream", t) /\ UNCHANGED shown

\* The provider is gone: after a minute of it the fallback takes over, once;
\* otherwise the exception leaves the handler, without an audit row.
ProviderGone(x) ==
    /\ At(x, "chat", "stream") /\ Fault /\ Quiet /\ UNCHANGED tools
    /\ IF ~Turn(x).fallback /\ ask[x].fallback
       THEN Passed(x, "fallback_provider_active", "stream_next", [Turn(x) EXCEPT !.fallback = TRUE])
       ELSE End(x, "raised") /\ UNCHANGED shown

\* Any other exception of the provider is an error event.
ProviderBreaks(x) ==
    /\ At(x, "chat", "stream") /\ Fault /\ Quiet /\ Terminal(x, "error", Turn(x)) /\ UNCHANGED tools

\* _write_audit: a failed write is remembered in got, for the property.
WriteAudit(x, action, result) ==
    \/ Works /\ audit' = audit \cup {AuditRow(x, action, result)} /\ UNCHANGED chatVars
    \/ Fault /\ UNCHANGED <<audit, chatVars>>

Lost(x) == IF failed' = failed THEN {} ELSE {"row"}

TurnAudited(x) ==
    /\ At(x, "chat", "audit") /\ WriteAudit(x, "chat_message", "ok")
    /\ Set(x, [job[x] EXCEPT !.pc = "end", !.out = "done", !.got = Lost(x)])

\* The redirect is audited while the timeout still runs.
RedirectAudited(x) ==
    /\ At(x, "chat", "redirect") /\ WriteAudit(x, "chat_message", "ok")
    /\ Set(x, [job[x] EXCEPT !.pc = "end", !.out = "redirected", !.got = Lost(x)])

\* The timeout strikes while the handler waits for the provider, a tool or the
\* audit row of a redirect, which may have been written.
TurnTimesOut(x) ==
    /\ ask[x].op = "chat" /\ job[x].pc \in {"stream", "tool", "redirect"} /\ Fault /\ UNCHANGED chatVars
    /\ Goto(x, "late")
    /\ \/ Quiet
       \/ job[x].pc = "redirect" /\ audit' = audit \cup {AuditRow(x, "chat_message", "ok")}

LateAudited(x) ==
    /\ At(x, "chat", "late")
    /\ \/ Works /\ audit' = audit \cup {AuditRow(x, "assistant_llm_timeout", "error")} /\ Tell(x, "error")
       \/ Fault /\ Quiet /\ Tell(x, "error")
    /\ UNCHANGED tools
    /\ Set(x, [job[x] EXCEPT !.pc = "end", !.out = "late", !.got = Lost(x)])

\* The client goes away, or the timeout strikes, while the handler is suspended at
\* an event, the redirect and the last one included: the generator is closed and
\* writes nothing.
TurnAbandoned(x) ==
    /\ ask[x].op = "chat" /\ job[x].pc \in DOMAIN AfterEvent /\ Fault /\ Quiet
    /\ End(x, "abandoned") /\ UNCHANGED chatVars

ChatStep(x) ==
    \/ ChatBegins(x) \/ TextArrives(x) \/ ToolCallArrives(x) \/ ClientTakes(x) \/ ToolRuns(x)
    \/ AnswerDone(x) \/ RateLimited(x) \/ ProviderGone(x) \/ ProviderBreaks(x)
    \/ TurnAudited(x) \/ RedirectAudited(x) \/ TurnTimesOut(x) \/ LateAudited(x) \/ TurnAbandoned(x)

\* No call that writes is carried out, whatever the provider asks for and however
\* often it is asked again.
NoWriteToolRuns == \A t \in tools : ~t.write

\* A turn carries out at most the allowed number of calls and passes on no more
\* text than the cap, over all retries and the fallback together.
TurnStaysInLimits ==
    \A x \in Jobs : ask[x].op = "chat" /\ job[x].pc # "idle" /\ job[x].out # "raised" =>
        /\ Cardinality({t \in tools : t.by = x}) <= ToolLimit
        /\ "token_cap_exceeded" \notin shown[x] => Turn(x).tokens <= TokenCap

\* A turn whose events the client took to the last one, a redirect included, and a
\* turn that ran late left an audit row unless that write failed.
EndedTurnIsAudited ==
    \A x \in Jobs : ask[x].op = "chat" /\ job[x].out \in {"done", "redirected", "late"} /\ job[x].got = {} =>
        \E a \in audit : a.by = x

-----------------------------------------------------------------------------
(***************************************************************************)
(* FallbackLLMClient: all callers of one client share its provider flag.   *)
(* A switch to the fallback sets the flag, tells the dashboard and only    *)
(* then schedules a probe of the primary; one successful probe switches    *)
(* back, a failed one leaves everybody on the fallback.                    *)
(***************************************************************************)

CONSTANTS
    MaxServerErrors     \* _MAX_5XX_RETRIES

VARIABLES
    usingFallback,      \* _using_fallback
    probe,              \* _health_probe_task: "none", "sleeping", "asking" or "failed"
    healthy             \* the primary answers (outside)

llmVars == <<usingFallback, probe, healthy>>

LlmInit == usingFallback = FALSE /\ probe = "none" /\ healthy = TRUE

\* complete() reads the flag once.
CompleteBegins(x) ==
    /\ Begins(x, "complete") /\ Works /\ Quiet /\ UNCHANGED llmVars
    /\ Goto(x, IF usingFallback THEN "fallback" ELSE "primary")

\* The primary answers; it times out, which switches at once; it answers 5xx,
\* which is tried again a few times; or any other error leaves complete().
AsksPrimary(x) ==
    /\ At(x, "complete", "primary") /\ Quiet /\ UNCHANGED llmVars
    /\ \/ healthy /\ Works /\ End(x, "primary")
       \/ Fault /\ End(x, "raised")
       \/ ~healthy /\ Works /\ Goto(x, "switch")
       \/ ~healthy /\ Works /\ Set(x, IF job[x].try < MaxServerErrors THEN [job[x] EXCEPT !.try = @ + 1]
                                      ELSE [job[x] EXCEPT !.pc = "switch", !.try = 1])

\* _switch_to_fallback up to the notification, which is awaited.
Switches(x) ==
    /\ At(x, "complete", "switch") /\ Works /\ Quiet /\ Goto(x, "notify")
    /\ usingFallback' = TRUE /\ UNCHANGED <<probe, healthy>>

\* _schedule_health_probe: a running probe is cancelled, a new one starts.
ScheduleHealthProbe == "sleeping"

\* The dashboard was told or could not be told; the probe is scheduled either way.
Notified(x) ==
    /\ At(x, "complete", "notify") /\ Quiet /\ (Works \/ Fault)
    /\ probe' = ScheduleHealthProbe /\ Goto(x, "fallback") /\ UNCHANGED <<usingFallback, healthy>>

AsksFallback(x) ==
    /\ At(x, "complete", "fallback") /\ Quiet /\ UNCHANGED llmVars
    /\ \/ Works /\ End(x, "fallback")
       \/ Fault /\ \E out \in {"unavailable", "raised"} : End(x, out)

\* The caller is cancelled at an await: no handler of the client sees it, and after
\* the flag was set the probe is not scheduled.
CallerCancelled(x) ==
    /\ ask[x].op = "complete" /\ job[x].pc \in {"primary", "notify", "fallback"} /\ Fault /\ Quiet
    /\ End(x, IF job[x].pc = "notify" THEN "cancelled_unprobed" ELSE "cancelled")
    /\ UNCHANGED llmVars

\* reset(): an operator's way back to the primary.
Resets(x) ==
    /\ Begins(x, "reset") /\ Works /\ Quiet /\ End(x, "done")
    /\ usingFallback' = FALSE /\ UNCHANGED healthy
    /\ probe' = IF probe \in {"sleeping", "asking"} THEN "none" ELSE probe

\* force_health_probe() asks the primary now.
Forces(x) ==
    /\ Begins(x, "force") /\ Works /\ Quiet /\ End(x, IF healthy THEN "primary" ELSE "fallback")
    /\ usingFallback' = (usingFallback /\ ~healthy) /\ UNCHANGED <<probe, healthy>>

LlmStep(x) ==
    \/ CompleteBegins(x) \/ AsksPrimary(x) \/ Switches(x) \/ Notified(x) \/ AsksFallback(x)
    \/ CallerCancelled(x)
    \/ Resets(x) \/ Forces(x)

\* _delayed_health_probe: the delay passes, then the primary is asked.
ProbeWakes == probe = "sleeping" /\ probe' = "asking" /\ UNCHANGED <<usingFallback, healthy>>

ProbeEnds ==
    /\ probe = "asking" /\ UNCHANGED healthy
    /\ IF healthy THEN usingFallback' = FALSE /\ probe' = "none"
       ELSE UNCHANGED usingFallback /\ probe' = "failed"

PrimaryChanges == (\E x \in Jobs : ask[x].op \in {"complete", "force"}) /\ healthy' = ~healthy /\ UNCHANGED <<usingFallback, probe>>

\* Nobody is left on the fallback without a way back: a probe is due, a caller is
\* about to schedule one, or a probe has asked the primary and was refused.  Only a
\* caller cancelled while the dashboard is told leaves the flag without a probe.
FallbackHasAWayBack ==
    usingFallback => \/ probe # "none"
                     \/ \E x \in Jobs : At(x, "complete", "notify") \/ job[x].out = "cancelled_unprobed"

=============================================================================
