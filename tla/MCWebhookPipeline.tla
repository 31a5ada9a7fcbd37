-------------------------- MODULE MCWebhookPipeline --------------------------
\* Two events on one issue, three requests to deliver them with.
EXTENDS WebhookPipeline, TLC

CONSTANTS d1, d2, d3, e1, e2, i1

MCDeliveries == {d1, d2, d3}
MCPair       == {d1, d2}
MCEvents     == {e1, e2}
MCIssues     == {i1}

Carrying(kind, author) ==
    [issue |-> i1, kind |-> kind, author |-> author, assigned |-> TRUE]

MCPayloads ==
    {Carrying("update", "reporter"), Carrying("iterate", "reporter"),
     Carrying("approve", "bot"), Carrying("approve", "assigned_bot"),
     Carrying("iterate", "stranger"),
     [Carrying("plain", "stranger") EXCEPT !.assigned = FALSE]}

MCSymmetry == Permutations(MCDeliveries) \union Permutations(MCEvents)

==============================================================================
