----------------------------- MODULE ActionPlans -----------------------------
(***************************************************************************)
(* Action plans: assigning a plan to a contact, removing it, moving the     *)
(* contact to Do-Not-Call, editing or deleting the plan                     *)
(* (src/routes/systemSettings/actionplan/service.ts and moveToDncInDb of    *)
(* src/routes/contact/service.ts), and the cron job that fires the steps    *)
(* that are due (src/jobs/actionPlanStep.job.ts).  An EMAIL step sends a    *)
(* template e-mail through EmailDelivery; a PHONE_CALL or TASK step creates *)
(* one row in one transaction.                                              *)
(*                                                                         *)
(* Rows are named before they exist: an assignment is of one contact to one *)
(* plan, an execution is one step of one assignment.  A database            *)
(* transaction is one action where it only writes, and two where it writes  *)
(* what it has checked before.                                              *)
(***************************************************************************)
EXTENDS EmailDelivery

CONSTANTS
    Contacts, Plans,
    Assignments,     \* rows of ContactActionPlan that may be created
    ContactOf, PlanOf,
    Executions,      \* rows of ActionPlanStepExecution, one per step
    AssignmentOf

\* The mails are the EMAIL steps; each goes to the contact's address.  The
\* callers of sendEmail are the overlapping ticks of the step job.
Jobs == Callers

ASSUME PlanAssumption ==
    /\ ContactOf \in [Assignments -> Contacts]
    /\ PlanOf \in [Assignments -> Plans]
    /\ AssignmentOf \in [Executions -> Assignments]
    /\ Mails \subseteq Executions /\ Recipients = Contacts
    /\ \A m \in Mails : RecipientOf[m] = ContactOf[AssignmentOf[m]]
    /\ None \notin Executions

VARIABLES
    assignment,   \* status of each assignment row
    execution,    \* status of each execution row
    assigning,    \* assignToContact transactions that have passed their checks
    deleted,      \* plans deleted
    job,          \* the local variables of each tick of the step job
    fired         \* history: how often a step was fired

planVars == <<assignment, execution, assigning, deleted>>
outreachVars == <<mailVars, faultVars, planVars, job, fired>>

-----------------------------------------------------------------------------

\* WAITING and PENDING are both PENDING in the database: dueAt is still to come,
\* or has passed.  "gone" was deleted.
Unclaimed == {"WAITING", "PENDING"}
Settled == {"SENT", "FAILED", "SKIPPED", "gone"}

JobStages == {"idle", "loop", "claimed", "mailing", "recording", "failing"}
Job == [stage : JobStages,
        found : SUBSET Executions,     \* the executions of the batch still to do
        removed : SUBSET Executions,   \* whose assignment was not ACTIVE when read
        cur : Executions \cup {None}]
IdleJob == [stage |-> "idle", found |-> {}, removed |-> {}, cur |-> None]

OutreachTypeOK ==
    /\ MailTypes
    /\ assignment \in [Assignments -> {"none", "ACTIVE", "REMOVED", "gone"}]
    /\ execution \in [Executions -> {"none", "PROCESSING"} \cup Unclaimed \cup Settled]
    /\ assigning \in SUBSET Assignments
    /\ deleted \in SUBSET Plans
    /\ job \in [Jobs -> Job]
    /\ \A j \in Jobs : job[j].stage \notin {"idle", "loop"} => job[j].cur \in Executions
    /\ fired \in [Executions -> Nat]

OutreachInit ==
    /\ MailInit
    /\ assignment = [a \in Assignments |-> "none"]
    /\ execution = [e \in Executions |-> "none"]
    /\ assigning = {} /\ deleted = {}
    /\ job = [j \in Jobs |-> IdleJob]
    /\ fired = [e \in Executions |-> 0]

ActiveFor(c) == {a \in Assignments : ContactOf[a] = c /\ assignment[a] = "ACTIVE"}

-----------------------------------------------------------------------------
(* Requests of the users. *)

\* assignToContact finds the plan, and no other plan active for the contact.
AssignChecks(a) ==
    /\ assignment[a] = "none" /\ a \notin assigning
    /\ PlanOf[a] \notin deleted
    /\ \A b \in ActiveFor(ContactOf[a]) : PlanOf[b] = PlanOf[a]
    /\ assigning' = assigning \cup {a}
    /\ UNCHANGED <<mailVars, assignment, execution, deleted, job, fired>>

\* Mutant: without the partial unique index.
AssignWritesAlways(a) ==
    LET superseded == {b \in ActiveFor(ContactOf[a]) : PlanOf[b] = PlanOf[a]}
    IN  /\ a \in assigning
        /\ assigning' = assigning \ {a}
        /\ assignment' = [b \in Assignments |-> IF b = a THEN "ACTIVE"
                                                ELSE IF b \in superseded THEN "REMOVED"
                                                ELSE assignment[b]]
        /\ execution' = [e \in Executions |-> IF AssignmentOf[e] = a THEN "WAITING"
                                              ELSE execution[e]]
        /\ UNCHANGED <<mailVars, deleted, job, fired>>

\* It supersedes the active assignments of the same plan and writes the new one
\* with its executions, unless the partial unique index, or a foreign key to a
\* plan deleted meanwhile, rejects the transaction.
AssignWrites(a) ==
    LET superseded == {b \in ActiveFor(ContactOf[a]) : PlanOf[b] = PlanOf[a]}
    IN  /\ a \in assigning
        /\ assigning' = assigning \ {a}
        /\ IF ActiveFor(ContactOf[a]) \ superseded # {} \/ PlanOf[a] \in deleted
           THEN UNCHANGED <<assignment, execution>>
           ELSE /\ assignment' = [b \in Assignments |->
                                    IF b = a THEN "ACTIVE"
                                    ELSE IF b \in superseded THEN "REMOVED"
                                    ELSE assignment[b]]
                /\ execution' = [e \in Executions |->
                                   IF AssignmentOf[e] = a THEN "WAITING" ELSE execution[e]]
        /\ UNCHANGED <<mailVars, deleted, job, fired>>

Removed(as) == [a \in Assignments |-> IF a \in as THEN "REMOVED" ELSE assignment[a]]
Skipped(as) == [e \in Executions |-> IF AssignmentOf[e] \in as /\ execution[e] \in Unclaimed
                                     THEN "SKIPPED" ELSE execution[e]]

\* unassign; the user may name an assignment that was superseded.
Unassign(a) ==
    /\ assignment[a] \in {"ACTIVE", "REMOVED"}
    /\ assignment' = Removed({a}) /\ execution' = Skipped({a})
    /\ UNCHANGED <<mailVars, assigning, deleted, job, fired>>

\* moveToDncInDb, with stopActivePlansForContact in the same transaction.  No
\* other part of this module reads the status DO_NOT_CALL.
MoveToDnc(c) ==
    /\ ActiveFor(c) # {}
    /\ assignment' = Removed(ActiveFor(c)) /\ execution' = Skipped(ActiveFor(c))
    /\ UNCHANGED <<mailVars, assigning, deleted, job, fired>>

\* Foreign keys cascade: with the steps of a plan go their executions.
Cascaded(as) == [e \in Executions |->
                   IF AssignmentOf[e] \in as /\ execution[e] # "none" THEN "gone"
                   ELSE execution[e]]
Of(p) == {a \in Assignments : PlanOf[a] = p}

\* update replaces all the steps of the plan; the assignments stay.
EditPlan(p) ==
    /\ p \notin deleted
    /\ execution' = Cascaded(Of(p))
    /\ UNCHANGED <<mailVars, assignment, assigning, deleted, job, fired>>

DeletePlan(p) ==
    /\ p \notin deleted
    /\ deleted' = deleted \cup {p}
    /\ execution' = Cascaded(Of(p))
    /\ assignment' = [a \in Assignments |->
                        IF PlanOf[a] = p /\ assignment[a] # "none" THEN "gone"
                        ELSE assignment[a]]
    /\ UNCHANGED <<mailVars, assigning, job, fired>>

Requests ==
    \/ \E a \in Assignments : AssignChecks(a) \/ AssignWrites(a) \/ Unassign(a)
    \/ \E c \in Contacts : MoveToDnc(c)
    \/ \E p \in Plans : EditPlan(p) \/ DeletePlan(p)

-----------------------------------------------------------------------------
(* The step job.  j is one tick of it; ticks overlap when one takes longer  *)
(* than the five minutes to the next.                                       *)

\* dueAt passes.
StepDue(e) ==
    /\ execution[e] = "WAITING"
    /\ execution' = [execution EXCEPT ![e] = "PENDING"]
    /\ UNCHANGED <<mailVars, assignment, assigning, deleted, job, fired>>

exceptJob == <<assignment, assigning, deleted>>

\* The tick reads the due executions, and with each the status of its assignment.
JobFetches(j) ==
    LET due == {e \in Executions : execution[e] = "PENDING"}
    IN  /\ job[j].stage = "idle" /\ due # {}
        /\ job' = [job EXCEPT ![j] =
              [stage |-> "loop", found |-> due, cur |-> None,
               removed |-> {e \in due : assignment[AssignmentOf[e]] # "ACTIVE"}]]
        /\ UNCHANGED <<mailVars, planVars, fired>>

\* The loop goes on with the rest of the batch, or the tick ends.
Loop(j, rest) ==
    job' = [job EXCEPT ![j] = IF rest = {} THEN IdleJob
                              ELSE [stage |-> "loop", found |-> rest, cur |-> None,
                                    removed |-> job[j].removed \cap rest]]
Hold(j, e) ==
    job' = [job EXCEPT ![j] = [stage |-> "claimed", found |-> job[j].found \ {e},
                               removed |-> job[j].removed, cur |-> e]]
At(j, stage) == job' = [job EXCEPT ![j].stage = stage]

\* Mutant: the claim does not ask for the status PENDING.
JobClaimsAnyway(j, e) ==
    /\ job[j].stage = "loop" /\ e \in job[j].found
    /\ execution[e] # "gone"
    /\ execution' = [execution EXCEPT ![e] = "PROCESSING"]
    /\ Hold(j, e)
    /\ UNCHANGED <<mailVars, exceptJob, fired>>

\* PENDING -> PROCESSING, or somebody else was first.
JobClaims(j, e) ==
    /\ job[j].stage = "loop" /\ e \in job[j].found
    /\ IF execution[e] \in Unclaimed
       THEN /\ execution' = [execution EXCEPT ![e] = "PROCESSING"]
            /\ Hold(j, e)
       ELSE Loop(j, job[j].found \ {e}) /\ UNCHANGED execution
    /\ UNCHANGED <<mailVars, exceptJob, fired>>

\* The row of the current execution takes its final status.  When the row has
\* been deleted the update throws: inside the try it leads to the catch block,
\* outside it ends the tick.
Final(j, status, otherwise) ==
    IF execution[job[j].cur] = "gone"
    THEN job' = otherwise /\ UNCHANGED execution
    ELSE execution' = [execution EXCEPT ![job[j].cur] = status] /\ Loop(j, job[j].found)

EndOf(j) == [job EXCEPT ![j] = IdleJob]

\* The assignment was no longer active when the tick read it.
JobSkips(j) ==
    /\ job[j].stage = "claimed" /\ job[j].cur \in job[j].removed
    /\ Final(j, "SKIPPED", EndOf(j))
    /\ UNCHANGED <<mailVars, exceptJob, fired>>

\* sendTemplateEmailInDb: the template and the address are there, or it throws.
JobFiresEmail(j) ==
    /\ job[j].stage = "claimed" /\ job[j].cur \in Mails \ job[j].removed
    /\ \/ /\ Dispatch(j, job[j].cur) /\ At(j, "mailing")
          /\ fired' = [fired EXCEPT ![job[j].cur] = @ + 1]
       \/ At(j, "failing") /\ UNCHANGED <<attempt, tries, fired>>
    /\ UNCHANGED <<queue, tick, suppressed, accepted, execution, exceptJob>>

\* createCallbackInDb and createTaskInDb write a row that refers to the execution,
\* which must exist; or they throw.
JobFiresOther(j) ==
    /\ job[j].stage = "claimed" /\ job[j].cur \notin Mails \cup job[j].removed
    /\ \/ /\ execution[job[j].cur] # "gone" /\ At(j, "recording")
          /\ fired' = [fired EXCEPT ![job[j].cur] = @ + 1]
       \/ At(j, "failing") /\ UNCHANGED fired
    /\ UNCHANGED <<mailVars, execution, exceptJob>>

\* Mutant: the outcome of sendEmail is not looked at.
JobMailedIgnored(j) ==
    /\ job[j].stage = "mailing" /\ Returned(j)
    /\ At(j, "recording")
    /\ Free(j) /\ queue' = Enqueued(j)
    /\ UNCHANGED <<tick, suppressed, tries, accepted, execution, exceptJob, fired>>

\* sendEmail queues what was refused; sendTemplateEmailInDb throws unless the
\* mail was accepted.
JobMailed(j) ==
    /\ job[j].stage = "mailing" /\ Returned(j)
    /\ At(j, IF attempt[j].stage = "accepted" THEN "recording" ELSE "failing")
    /\ Free(j) /\ queue' = Enqueued(j)
    /\ UNCHANGED <<tick, suppressed, tries, accepted, execution, exceptJob, fired>>

JobRecords(j) ==
    /\ job[j].stage = "recording"
    /\ Final(j, "SENT", [job EXCEPT ![j].stage = "failing"])
    /\ UNCHANGED <<mailVars, exceptJob, fired>>

\* Mutant: the catch block only logs.
JobFailsSilently(j) ==
    /\ job[j].stage = "failing"
    /\ Loop(j, job[j].found) /\ UNCHANGED execution
    /\ UNCHANGED <<mailVars, exceptJob, fired>>

JobFails(j) ==
    /\ job[j].stage = "failing"
    /\ Final(j, "FAILED", EndOf(j))
    /\ UNCHANGED <<mailVars, exceptJob, fired>>

\* The final update throws although the row is there; the catch block's throws
\* too and the tick ends.
JobLosesRow(j) ==
    /\ job[j].stage \in {"recording", "failing"} /\ crashes + dbFaults < MaxFaults
    /\ job' = EndOf(j)
    /\ dbFaults' = dbFaults + 1
    /\ UNCHANGED <<mailVars, crashes, planVars, fired>>

JobStep(j) ==
    \/ JobFetches(j) \/ \E e \in Executions : JobClaims(j, e)
    \/ JobSkips(j) \/ JobFiresEmail(j) \/ JobFiresOther(j)
    \/ JobMailed(j) \/ JobRecords(j) \/ JobFails(j)

\* Nothing resets the executions that a dead process has left PROCESSING.
Crash ==
    /\ MailCrash
    /\ job' = [j \in Jobs |-> IdleJob]
    /\ assigning' = {}
    /\ UNCHANGED <<assignment, execution, deleted, fired>>

-----------------------------------------------------------------------------

OutreachNext ==
    \/ Requests /\ UNCHANGED faultVars
    \/ (\E j \in Jobs : JobStep(j)) /\ UNCHANGED faultVars
    \/ (\E e \in Executions : StepDue(e)) /\ UNCHANGED faultVars
    \/ \E j \in Jobs : JobLosesRow(j)
    \/ MailNext /\ UNCHANGED <<planVars, job, fired>>
    \/ Crash

MailOnly == UNCHANGED <<planVars, job, fired, faultVars>>

OutreachSpec == OutreachInit /\ [][OutreachNext]_outreachVars

\* Cron runs the ticks for ever, time passes, the database and the transports
\* answer.  Users, bounces, crashes and database faults may stay away.
OutreachFair ==
    /\ \A e \in Executions : WF_outreachVars(StepDue(e) /\ UNCHANGED faultVars)
    /\ \A m \in Mails : WF_outreachVars(RetryDue(m) /\ MailOnly)
    /\ \A j \in Jobs :
          WF_outreachVars(\/ JobStep(j) /\ UNCHANGED faultVars
                          \/ (Gate(j) \/ HandOff(j)) /\ MailOnly)
    /\ \A t \in Ticks : WF_outreachVars((TickStep(t) \/ Gate(t) \/ HandOff(t)) /\ MailOnly)

FairOutreachSpec == OutreachSpec /\ OutreachFair
=============================================================================
