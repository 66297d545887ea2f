-------------------------- MODULE OutreachProperties --------------------------
(***************************************************************************)
(* What action plans and their e-mails promise.                             *)
(***************************************************************************)
EXTENDS ActionPlans

\* A step of a plan is fired at most once, whatever the overlap of two ticks of
\* the job, a crash or an edit of the plan (the claim of actionPlanStep.job.ts).
FiresOnce == \A e \in Executions : fired[e] <= 1

\* A contact follows at most one plan, also when two users assign different
\* plans at the same time (assignToContact and the partial unique index).
OneActivePlan ==
    \A a, b \in Assignments :
        assignment[a] = "ACTIVE" /\ assignment[b] = "ACTIVE" /\ ContactOf[a] = ContactOf[b]
        => a = b

\* A step that reads SENT was really sent, and so was a queued mail that reads
\* SENT: sendTemplateEmailInDb and the retry job look at the outcome.
SentMeansAccepted ==
    \A m \in Mails : execution[m] = "SENT" \/ queue[m].status = "SENT" => accepted[m] > 0

\* A mail is tried MaxAttempts times in all, however the first attempt and the
\* retries are spread over the step job and the retry job (whose ticks must not
\* overlap: their claim has no condition on the status).  Only a death of the
\* process costs one more, or the failure of both updates of the row: of the one
\* that claims it and of the one that records the outcome.
AttemptsBounded ==
    \A m \in Mails : tries[m] <= MaxAttempts + crashes + (dbFaults \div 2)

\* A step skipped when its plan was removed from the contact stays skipped: no
\* tick that had read it before fires it.
SkippedStaysQuiet ==
    [][\A e \in Executions : execution[e] = "SKIPPED" =>
          execution'[e] \in {"SKIPPED", "gone"} /\ fired'[e] = fired[e]]_outreachVars

\* Every queued mail is delivered or given up in the end, also over restarts; a
\* failed database update may leave a row PROCESSING until the next restart.
MailSettles ==
    \A m \in Mails : queue[m].status \in Live
                     ~> queue[m].status \in {"SENT", "DEAD"} \/ dbFaults > 0

\* A mail that waits for its retry when its address is suppressed is given up,
\* never sent: dispatchEmail asks the suppression list at each attempt.
SuppressedMailDies ==
    \A m \in Mails :
        queue[m].status \in {"WAITING", "PENDING"} /\ RecipientOf[m] \in suppressed
        ~> queue[m].status = "DEAD" \/ dbFaults > 0

\* Every step of an assigned plan comes to an end, if the process stays up: it
\* is sent, fails, is skipped, or is deleted with its plan's steps.
StepsSettle ==
    \A e \in Executions : execution[e] \in {"PROCESSING"} \cup Unclaimed
                          ~> execution[e] \in Settled \/ crashes + dbFaults > 0

-----------------------------------------------------------------------------
(* What comments of the code say and the code does not do. *)

\* A mail of a plan that was removed from its contact is not sent any more: the
\* retry job hands no mail of a removed assignment to a transport.
CancelledMailIsNotSent ==
    [][\A t \in Ticks : attempt[t].stage = "gate" /\ attempt'[t].stage = "handoff" =>
          assignment[AssignmentOf[attempt[t].mail]] # "REMOVED"]_outreachVars

\* The retry job delivers no mail twice, not even over a restart.
DeliveredOnce == \A m \in Mails : accepted[m] <= 1
=============================================================================
