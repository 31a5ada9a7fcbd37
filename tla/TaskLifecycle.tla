---------------------------- MODULE TaskLifecycle ----------------------------
(***************************************************************************)
(* What the gateway promises the people around a Jira task, without saying *)
(* how: the reporter is waited for a bounded number of times, the task is  *)
(* then either handed to one child workflow or refused, never both, and when    *)
(* the run closes its outcome has been told once.  A run that is cancelled *)
(* while it waits for the reporter has started nothing and told nobody.    *)
(***************************************************************************)
EXTENDS Naturals

CONSTANT MaxQuestions      \* how often the task may wait for the reporter

VARIABLES
    phase,      \* "weighing", "waiting", "working", "refused", "closed" or "cancelled"
    questions,  \* questions whose answer the task waited for
    started,    \* a child workflow was started for the task
    told        \* the outcome that was told: "nothing", "completed" or "failed"

lifeVars == <<phase, questions, started, told>>

LifeInit == phase = "weighing" /\ questions = 0 /\ started = FALSE /\ told = "nothing"

AskReporter ==
    /\ phase = "weighing" /\ questions < MaxQuestions
    /\ phase' = "waiting" /\ questions' = questions + 1
    /\ UNCHANGED <<started, told>>

ReporterAnswers ==
    /\ phase = "waiting"
    /\ phase' = "weighing"
    /\ UNCHANGED <<questions, started, told>>

Refuse ==
    /\ phase \in {"weighing", "waiting"}
    /\ phase' = "refused"
    /\ UNCHANGED <<questions, started, told>>

HandOver ==
    /\ phase = "weighing"
    /\ phase' = "working" /\ started' = TRUE
    /\ UNCHANGED <<questions, told>>

Tell ==
    /\ phase \in {"working", "refused"}
    /\ told' = IF phase = "working" THEN "completed" ELSE "failed"
    /\ phase' = "closed"
    /\ UNCHANGED <<questions, started>>

CancelWaiting ==
    /\ phase = "waiting"
    /\ phase' = "cancelled"
    /\ UNCHANGED <<questions, started, told>>

Progress == AskReporter \/ ReporterAnswers \/ Refuse \/ HandOver \/ Tell

LifeNext == Progress \/ CancelWaiting

LifeSafety == LifeInit /\ [][LifeNext]_lifeVars

\* A task does not stay where it is: it is asked about, refused, handed over
\* or its outcome told.
LifeSpec == LifeSafety /\ WF_lifeVars(Progress)
=============================================================================
