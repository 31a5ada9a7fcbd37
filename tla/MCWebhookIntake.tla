--------------------------- MODULE MCWebhookIntake ---------------------------
(***************************************************************************)
(* Two request slots, one issue, and the events that tell the routes apart.*)
(***************************************************************************)
EXTENDS WebhookIntake, TLC

CONSTANTS r1, r2, i1, d1, d2, d3

Base == [route |-> "v3", src |-> "created", issue |-> i1, id |-> "1", actor |-> "other",
         prefix |-> FALSE, tag |-> FALSE, signed |-> TRUE, capable |-> TRUE,
         dept |-> d1, to |-> None]

Created == Base
Comment == [Base EXCEPT !.src = "comment", !.id = "2"]
ReporterComment == [Comment EXCEPT !.actor = "reporter", !.id = "3"]
BotTagged == [Comment EXCEPT !.actor = "bot", !.tag = TRUE, !.id = "4"]
Tagged == [Comment EXCEPT !.tag = TRUE, !.id = "5"]
Unknown == [Comment EXCEPT !.actor = "unknown", !.prefix = TRUE, !.id = "6"]
PullRequest == [Base EXCEPT !.src = "pr", !.id = ""]
OtherPr == [PullRequest EXCEPT !.id = "7"]
NoHeader == [Base EXCEPT !.id = ""]
Fulfilled == [Base EXCEPT !.src = "fulfilled"]
Unsigned == [Base EXCEPT !.signed = FALSE]
V2Created == [Base EXCEPT !.route = "v2"]
V2Comment == [V2Created EXCEPT !.src = "comment", !.actor = "reporter"]
V2Bot == [V2Created EXCEPT !.actor = "bot"]
V2Unknown == [V2Created EXCEPT !.dept = None]
HandoverTo(d) == [Base EXCEPT !.route = "assigned", !.to = d]
Assigned == HandoverTo(d1)
BadAssigned == [HandoverTo(d1) EXCEPT !.signed = FALSE]
Foreign == [HandoverTo(d1) EXCEPT !.dept = None]
Incapable == [HandoverTo(d1) EXCEPT !.capable = FALSE]

MCInfo ==
    [created |-> Created, comment |-> Comment, reporterComment |-> ReporterComment,
     botTagged |-> BotTagged, tagged |-> Tagged, unknown |-> Unknown, pr |-> PullRequest, otherPr |-> OtherPr,
     noHeader |-> NoHeader, fulfilled |-> Fulfilled, unsigned |-> Unsigned,
     v2Created |-> V2Created, v2Comment |-> V2Comment, v2Bot |-> V2Bot, v2Unknown |-> V2Unknown,
     handover2 |-> HandoverTo(d2), handover3 |-> HandoverTo(d3), assigned |-> Assigned,
     badAssigned |-> BadAssigned, foreign |-> Foreign, incapable |-> Incapable]
MCEvents == DOMAIN MCInfo
MCMixes == {{"created", "otherPr"}, {"created", "handover2"}, {"botTagged", "tagged"}, {"comment", "reporterComment"},
            {"v2Created", "v2Bot", "v2Unknown"}, {"v2Created", "v2Comment"}, {"pr", "noHeader"}, {"handover2", "handover3"},
            {"assigned", "comment"}, {"unknown", "fulfilled", "unsigned"}, {"foreign", "incapable", "badAssigned"}}

MCRequests == {r1, r2}
MCIssues == {i1}
MCDepts == {d1, d2, d3}
Perms == Permutations(MCRequests)
=============================================================================
