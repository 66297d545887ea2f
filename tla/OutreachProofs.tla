---------------------------- MODULE OutreachProofs ----------------------------
(***************************************************************************)
(* Theorems about OutreachSpec, for any contacts, plans, assignments, steps *)
(* and overlapping ticks of the two jobs, and any number of faults.         *)
(***************************************************************************)
EXTENDS OutreachProperties, TLAPS

USE EmailAssumption, PlanAssumption

-----------------------------------------------------------------------------
(* Types. *)

PlanTypes ==
    /\ assignment \in [Assignments -> {"none", "ACTIVE", "REMOVED", "gone"}]
    /\ execution \in [Executions -> {"none", "PROCESSING"} \cup Unclaimed \cup Settled]
    /\ assigning \in SUBSET Assignments
    /\ deleted \in SUBSET Plans

LEMMA InitTypes == OutreachInit => OutreachTypeOK
  BY DEF OutreachInit, MailInit, OutreachTypeOK, MailTypes, NoAttempt, Attempt,
         IdleTick, Tick, IdleJob, Job, JobStages, Row, Live

\* What a step leaves alone keeps its type.
LEMMA MailKept ==
    ASSUME OutreachTypeOK, UNCHANGED mailVars, UNCHANGED faultVars
    PROVE  MailTypes'
  BY DEF OutreachTypeOK, MailTypes, mailVars, faultVars

LEMMA RequestsTypes == ASSUME OutreachTypeOK, Requests, UNCHANGED faultVars PROVE OutreachTypeOK'
<1>1. UNCHANGED <<mailVars, job, fired>>
  BY DEF Requests, AssignChecks, AssignWrites, Unassign, MoveToDnc, EditPlan, DeletePlan
<1>2. PlanTypes'
  <2>0. PlanTypes  BY DEF OutreachTypeOK, PlanTypes
  <2>1. CASE \E a \in Assignments : AssignChecks(a)
    BY <2>0, <2>1 DEF AssignChecks, PlanTypes
  <2>2. CASE \E a \in Assignments : AssignWrites(a)
    BY <2>0, <2>2 DEF AssignWrites, PlanTypes, Unclaimed
  <2>3. CASE \E a \in Assignments : Unassign(a)
    BY <2>0, <2>3 DEF Unassign, Removed, Skipped, PlanTypes, Settled
  <2>4. CASE \E c \in Contacts : MoveToDnc(c)
    BY <2>0, <2>4 DEF MoveToDnc, Removed, Skipped, PlanTypes, Settled
  <2>5. CASE \E p \in Plans : EditPlan(p) \/ DeletePlan(p)
    BY <2>0, <2>5 DEF EditPlan, DeletePlan, Cascaded, PlanTypes, Settled
  <2> QED BY <2>1, <2>2, <2>3, <2>4, <2>5 DEF Requests
<1> QED BY <1>1, <1>2, MailKept DEF OutreachTypeOK, PlanTypes

\* The steps of the retry job and of a dispatch.
LEMMA DispatchingTypes ==
    ASSUME OutreachTypeOK, UNCHANGED <<planVars, job, fired, faultVars>>,
           NEW w \in Workers, Gate(w) \/ HandOff(w)
    PROVE  OutreachTypeOK'
<1>1. attempt[w].stage \in {"gate", "handoff"} /\ attempt[w].mail \in Mails
  BY DEF Gate, HandOff, OutreachTypeOK, MailTypes, Attempt
<1>2. MailTypes'
  <2>1. attempt' \in [Workers -> Attempt]
    BY <1>1 DEF Gate, HandOff, OutreachTypeOK, MailTypes, Attempt, Outcomes
  <2>2. accepted' \in [Mails -> Nat]
    BY <1>1 DEF Gate, HandOff, OutreachTypeOK, MailTypes
  <2>3. \A v \in Workers : attempt'[v].stage # "none" => attempt'[v].mail \in Mails
    BY <1>1 DEF Gate, HandOff, OutreachTypeOK, MailTypes, Attempt
  <2> QED BY <2>1, <2>2, <2>3 DEF Gate, HandOff, OutreachTypeOK, MailTypes, faultVars
<1> QED BY <1>2 DEF OutreachTypeOK, Gate, HandOff, planVars

LEMMA TickTypes ==
    ASSUME OutreachTypeOK, UNCHANGED <<planVars, job, fired>>,
           NEW t \in Ticks,
           \/ TickStep(t) /\ UNCHANGED faultVars
           \/ TickClaimFails(t) \/ TickLosesRow(t)
    PROVE  OutreachTypeOK'
<1> USE DEF OutreachTypeOK, MailTypes
<1>0. t \in Workers  BY DEF Workers
<1>1. CASE TickFetches(t) /\ UNCHANGED faultVars
  <2> DEFINE due == {m \in Mails : queue[m].status = "PENDING"}
             found == {[mail |-> m, attempts |-> queue[m].attempts] : m \in due}
  <2>1. \A i \in found : i \in Item  BY DEF Row, Item, Live
  <2>2. tick' = [tick EXCEPT ![t] = [stage |-> "claiming", items |-> found]]
    BY <1>1 DEF TickFetches
  <2> HIDE DEF found
  <2> QED BY <1>1, <2>1, <2>2 DEF TickFetches, Tick, planVars, faultVars
<1>2. CASE TickClaims(t) /\ UNCHANGED faultVars
  <2>1. queue' \in [Mails -> Row]  BY <1>2 DEF TickClaims, Claimed, Row, Live
  <2>2. tick' \in [Ticks -> Tick]
    BY <1>2 DEF TickClaims, Tick
  <2> QED BY <1>2, <2>1, <2>2 DEF TickClaims, planVars, faultVars
<1>3. CASE TickDispatches(t) /\ UNCHANGED faultVars
  <2>1. PICK i \in tick[t].items : Dispatch(t, i.mail)  BY <1>3 DEF TickDispatches
  <2>2. i.mail \in Mails  BY DEF Tick, Item
  <2> QED BY <1>0, <1>3, <2>1, <2>2 DEF TickDispatches, Dispatch, Attempt, planVars, faultVars
<1>4. ASSUME NEW i \in tick[t].items, NextItem(t, i)
      PROVE  /\ attempt' \in [Workers -> Attempt] /\ tick' \in [Ticks -> Tick]
             /\ \A w \in Workers : attempt'[w].stage # "none" => attempt'[w].mail \in Mails
  <2>1. attempt' = [attempt EXCEPT ![t] = NoAttempt]  BY <1>4 DEF NextItem, Free
  <2>2. \E r \in Tick : r.items \subseteq tick[t].items /\ tick' = [tick EXCEPT ![t] = r]
    <3>1. IdleTick \in Tick  BY DEF IdleTick, Tick
    <3>2. [stage |-> "loop", items |-> tick[t].items \ {i}] \in Tick  BY DEF Tick
    <3> QED BY <1>4, <3>1, <3>2 DEF NextItem, IdleTick
  <2> QED BY <1>0, <2>1, <2>2 DEF NoAttempt, Attempt
<1>5. CASE TickRecords(t) /\ UNCHANGED faultVars
  <2>1. PICK i \in tick[t].items :
           queue' = [queue EXCEPT ![i.mail] = After(i, attempt[t].stage)] /\ NextItem(t, i)
    BY <1>5 DEF TickRecords
  <2>2. i \in Item  BY DEF Tick
  <2>3. After(i, attempt[t].stage) \in Row
    BY <2>2 DEF After, Row, Live, Item
  <2>5. i.mail \in Mails  BY <2>2 DEF Item
  <2> QED BY <1>4, <1>5, <2>1, <2>3, <2>5 DEF TickRecords, planVars, faultVars
<1>6. CASE TickClaimFails(t)
  <2>1. tick' \in [Ticks -> Tick]
    BY <1>6 DEF TickClaimFails, Tick
  <2> QED BY <1>6, <2>1 DEF TickClaimFails, planVars
<1>7. CASE TickLosesRow(t)
  <2>1. PICK i \in tick[t].items : NextItem(t, i)  BY <1>7 DEF TickLosesRow
  <2> QED BY <1>4, <1>7, <2>1 DEF TickLosesRow, planVars
<1> QED BY <1>1, <1>2, <1>3, <1>5, <1>6, <1>7 DEF TickStep

LEMMA MailTypesKept ==
    ASSUME OutreachTypeOK, MailNext, UNCHANGED <<planVars, job, fired>>
    PROVE  OutreachTypeOK'
<1>1. CASE \E m \in Mails : RetryDue(m) /\ UNCHANGED faultVars
  BY <1>1 DEF RetryDue, OutreachTypeOK, MailTypes, Row, Live, planVars, faultVars
<1>2. CASE \E r \in Recipients : Suppress(r) /\ UNCHANGED faultVars
  BY <1>2 DEF Suppress, OutreachTypeOK, MailTypes, planVars, faultVars
<1> QED BY <1>1, <1>2, DispatchingTypes, TickTypes DEF MailNext

\* The steps of the step job.
LEMMA JobStepTypes ==
    ASSUME OutreachTypeOK, UNCHANGED faultVars, NEW j \in Jobs, JobStep(j)
    PROVE  OutreachTypeOK'
<1> USE DEF OutreachTypeOK
<1>0. j \in Workers  BY DEF Workers, Jobs
<1>a. ASSUME NEW s \in JobStages, At(j, s), job[j].cur \in Executions
      PROVE  /\ job' \in [Jobs -> Job]
             /\ \A k \in Jobs : job'[k].stage \notin {"idle", "loop"} => job'[k].cur \in Executions
  BY <1>a DEF At, Job
<1>b. ASSUME NEW rest \in SUBSET Executions, Loop(j, rest)
      PROVE  /\ job' \in [Jobs -> Job]
             /\ \A k \in Jobs : job'[k].stage \notin {"idle", "loop"} => job'[k].cur \in Executions
  <2>1. \E r \in Job : r.stage \in {"idle", "loop"} /\ job' = [job EXCEPT ![j] = r]
    <3>1. IdleJob \in Job  BY DEF IdleJob, Job, JobStages
    <3>2. [stage |-> "loop", found |-> rest, cur |-> None, removed |-> job[j].removed \cap rest] \in Job
      BY DEF Job, JobStages
    <3> QED BY <1>b, <3>1, <3>2 DEF Loop, IdleJob
  <2> QED BY <2>1
<1>c. ASSUME job' = EndOf(j)
      PROVE  /\ job' \in [Jobs -> Job]
             /\ \A k \in Jobs : job'[k].stage \notin {"idle", "loop"} => job'[k].cur \in Executions
  BY <1>c DEF EndOf, IdleJob, Job, JobStages
<1>d. job[j].found \subseteq Executions /\ job[j].removed \subseteq Executions  BY DEF Job
<1>1. CASE JobFetches(j)
  <2> DEFINE due == {e \in Executions : execution[e] = "PENDING"}
             r == [stage |-> "loop", found |-> due, cur |-> None,
                   removed |-> {e \in due : assignment[AssignmentOf[e]] # "ACTIVE"}]
  <2>1. r \in Job  BY DEF Job, JobStages
  <2>2. job' = [job EXCEPT ![j] = r] /\ r.stage = "loop"  BY <1>1 DEF JobFetches
  <2> HIDE DEF r
  <2>3. MailTypes'  BY <1>1, MailKept DEF JobFetches
  <2> QED BY <1>1, <2>1, <2>2, <2>3 DEF JobFetches, planVars
<1>2. ASSUME NEW e \in Executions, JobClaims(j, e) PROVE OutreachTypeOK'
  <2>1. MailTypes'  BY <1>2, MailKept DEF JobClaims
  <2>2. CASE execution[e] \in Unclaimed
    <3> DEFINE r == [stage |-> "claimed", found |-> job[j].found \ {e},
                     removed |-> job[j].removed, cur |-> e]
    <3>1. r \in Job /\ r.cur \in Executions  BY <1>d DEF Job, JobStages
    <3>2. job' = [job EXCEPT ![j] = r] /\ execution' = [execution EXCEPT ![e] = "PROCESSING"]
      BY <1>2, <2>2 DEF JobClaims, Hold
    <3> HIDE DEF r
    <3> QED BY <1>2, <2>1, <3>1, <3>2 DEF JobClaims, exceptJob
  <2>3. CASE execution[e] \notin Unclaimed
    BY <1>2, <1>b, <1>d, <2>1, <2>3 DEF JobClaims, exceptJob
  <2> QED BY <2>2, <2>3
<1>3. ASSUME job[j].cur \in Executions, UNCHANGED <<mailVars, exceptJob, fired>>,
             NEW s \in Settled, NEW o, Final(j, s, o),
             o = EndOf(j) \/ o = [job EXCEPT ![j].stage = "failing"]
      PROVE  OutreachTypeOK'
  <2>1. MailTypes'  BY <1>3, MailKept
  <2>2. CASE execution[job[j].cur] = "gone"
    <3>1. job' = o /\ execution' = execution  BY <1>3, <2>2 DEF Final
    <3>2. CASE o = EndOf(j)  BY <1>3, <1>c, <2>1, <3>1, <3>2 DEF exceptJob
    <3>3. CASE o = [job EXCEPT ![j].stage = "failing"]
      BY <1>3, <1>a, <2>1, <3>1, <3>3 DEF exceptJob, At, JobStages
    <3> QED BY <1>3, <3>2, <3>3
  <2>3. CASE execution[job[j].cur] # "gone"
    BY <1>3, <1>b, <1>d, <2>1, <2>3 DEF Final, exceptJob
  <2> QED BY <2>2, <2>3
<1>4. CASE JobSkips(j)
  BY <1>3, <1>4 DEF JobSkips, Settled
<1>5. CASE JobFiresEmail(j)
  <2>1. job[j].cur \in Mails  BY <1>5 DEF JobFiresEmail
  <2>2. CASE Dispatch(j, job[j].cur) /\ At(j, "mailing") /\ fired' = [fired EXCEPT ![job[j].cur] = @ + 1]
    <3>1. MailTypes'
      BY <1>0, <1>5, <2>1, <2>2 DEF JobFiresEmail, Dispatch, MailTypes, Attempt, faultVars
    <3> QED BY <1>5, <1>a, <2>1, <2>2, <3>1 DEF JobFiresEmail, exceptJob, JobStages
  <2>3. CASE At(j, "failing") /\ UNCHANGED <<attempt, tries, fired>>
    <3>1. MailTypes'  BY <1>5, <2>3, MailKept DEF JobFiresEmail, mailVars
    <3> QED BY <1>5, <1>a, <2>1, <2>3, <3>1 DEF JobFiresEmail, exceptJob, JobStages
  <2> QED BY <1>5, <2>2, <2>3 DEF JobFiresEmail
<1>6. CASE JobFiresOther(j)
  <2>1. MailTypes'  BY <1>6, MailKept DEF JobFiresOther
  <2>2. job[j].cur \in Executions  BY <1>6 DEF JobFiresOther
  <2>3. \E s \in JobStages : At(j, s)  BY <1>6 DEF JobFiresOther, JobStages
  <2> QED BY <1>6, <1>a, <2>1, <2>2, <2>3 DEF JobFiresOther, exceptJob
<1>7. CASE JobMailed(j)
  <2>1. job[j].cur \in Executions  BY <1>7 DEF JobMailed
  <2>2. \E s \in JobStages : At(j, s)  BY <1>7 DEF JobMailed, JobStages
  <2>3. queue' \in [Mails -> Row]
    BY <1>0, <1>7 DEF JobMailed, Enqueued, MailTypes, Row, Live
  <2>4. MailTypes'
    BY <1>0, <1>7, <2>3 DEF JobMailed, Free, NoAttempt, MailTypes, Attempt, faultVars
  <2> QED BY <1>7, <1>a, <2>1, <2>2, <2>4 DEF JobMailed, exceptJob
<1>8. CASE JobRecords(j)
  BY <1>3, <1>8 DEF JobRecords, Settled
<1>9. CASE JobFails(j)
  BY <1>3, <1>9 DEF JobFails, Settled
<1> QED BY <1>1, <1>2, <1>4, <1>5, <1>6, <1>7, <1>8, <1>9 DEF JobStep

\* Every step keeps the types.
LEMMA StepTypes == OutreachTypeOK /\ [OutreachNext]_outreachVars => OutreachTypeOK'
<1> SUFFICES ASSUME OutreachTypeOK, [OutreachNext]_outreachVars PROVE OutreachTypeOK'
  OBVIOUS
<1>1. CASE Requests /\ UNCHANGED faultVars  BY <1>1, RequestsTypes
<1>2. CASE (\E j \in Jobs : JobStep(j)) /\ UNCHANGED faultVars  BY <1>2, JobStepTypes
<1>3. ASSUME NEW e \in Executions, StepDue(e), UNCHANGED faultVars PROVE OutreachTypeOK'
  <2>1. MailTypes'  BY <1>3, MailKept DEF StepDue
  <2> QED BY <1>3, <2>1 DEF StepDue, OutreachTypeOK, Unclaimed
<1>4. ASSUME NEW j \in Jobs, JobLosesRow(j) PROVE OutreachTypeOK'
  <2>1. MailTypes'
    BY <1>4 DEF JobLosesRow, OutreachTypeOK, MailTypes, mailVars
  <2>2. IdleJob \in Job  BY DEF IdleJob, Job, JobStages
  <2> QED BY <1>4, <2>1, <2>2 DEF JobLosesRow, EndOf, IdleJob, OutreachTypeOK, planVars
<1>5. CASE MailNext /\ UNCHANGED <<planVars, job, fired>>  BY <1>5, MailTypesKept
<1>6. CASE Crash
  <2>1. MailTypes'
    <3>1. queue' \in [Mails -> Row]
      BY <1>6 DEF Crash, MailCrash, Reset, OutreachTypeOK, MailTypes, Row, Live
    <3>2. NoAttempt \in Attempt /\ IdleTick \in Tick
      BY DEF NoAttempt, Attempt, IdleTick, Tick
    <3> QED BY <1>6, <3>1, <3>2 DEF Crash, MailCrash, OutreachTypeOK, MailTypes, NoAttempt
  <2>2. IdleJob \in Job  BY DEF IdleJob, Job, JobStages
  <2> QED BY <1>6, <2>1, <2>2 DEF Crash, IdleJob, OutreachTypeOK
<1>7. CASE UNCHANGED outreachVars
  BY <1>7 DEF outreachVars, mailVars, faultVars, planVars, OutreachTypeOK, MailTypes
<1> QED BY <1>1, <1>2, <1>3, <1>4, <1>5, <1>6, <1>7 DEF OutreachNext

\* Every reachable state has its type (ActionPlans and EmailDelivery).
THEOREM OutreachTypeCorrect == OutreachSpec => []OutreachTypeOK
  BY InitTypes, StepTypes, PTL DEF OutreachSpec

-----------------------------------------------------------------------------
(* Plans and their steps.  The invariants are not inductive alone: a step is  *)
(* fired once because the tick that has claimed it is the only one to hold    *)
(* it, and what a tick holds no request makes claimable again.                *)

StepsInv ==
    /\ \A j \in Jobs : job[j].stage \in {"idle", "loop"} => job[j].cur = None
    /\ \A j, k \in Jobs : job[j].cur # None /\ job[j].cur = job[k].cur => j = k
    /\ \A j \in Jobs : job[j].cur # None => execution[job[j].cur] \in {"PROCESSING", "gone"}
    /\ \A j \in Jobs : job[j].stage = "claimed" => fired[job[j].cur] = 0
    /\ \A e \in Executions : execution[e] \in {"none"} \cup Unclaimed => fired[e] = 0
    /\ FiresOnce

PlansInv ==
    /\ \A a \in assigning : assignment[a] = "none"
    /\ \A e \in Executions : assignment[AssignmentOf[e]] = "none" => execution[e] = "none"
    /\ OneActivePlan

Inv == OutreachTypeOK /\ StepsInv /\ PlansInv

LEMMA InitInv == OutreachInit => Inv
<1> SUFFICES ASSUME OutreachInit PROVE StepsInv /\ PlansInv
  BY InitTypes DEF Inv
<1>1. StepsInv  BY DEF OutreachInit, StepsInv, FiresOnce, IdleJob
<1>2. PlansInv  BY DEF OutreachInit, PlansInv, OneActivePlan
<1> QED BY <1>1, <1>2

\* A request keeps PlansInv, ...
LEMMA RequestsPlans == ASSUME Inv, Requests PROVE PlansInv'
<1> USE DEF PlansInv, OneActivePlan
<1>0. PlansInv /\ PlanTypes  BY DEF Inv, OutreachTypeOK, PlanTypes
<1>1. CASE \E a \in Assignments : AssignChecks(a)
  BY <1>0, <1>1 DEF AssignChecks
<1>2. ASSUME NEW a \in Assignments, AssignWrites(a) PROVE PlansInv'
  BY <1>0, <1>2 DEF AssignWrites, PlanTypes, ActiveFor
<1>3. ASSUME NEW a \in Assignments, Unassign(a) PROVE PlansInv'
  BY <1>0, <1>3 DEF Unassign, Removed, Skipped, PlanTypes, Unclaimed
<1>4. ASSUME NEW c \in Contacts, MoveToDnc(c) PROVE PlansInv'
  BY <1>0, <1>4 DEF MoveToDnc, Removed, Skipped, ActiveFor, PlanTypes, Unclaimed
<1>5. CASE \E p \in Plans : EditPlan(p) \/ DeletePlan(p)
  BY <1>0, <1>5 DEF EditPlan, DeletePlan, Cascaded, PlanTypes
<1> QED BY <1>1, <1>2, <1>3, <1>4, <1>5 DEF Requests

\* ... and makes no step claimable that was not new or claimable before.
LEMMA RequestsQuiet ==
    ASSUME Inv, Requests
    PROVE  /\ UNCHANGED <<job, fired>>
           /\ \A e \in Executions :
                 /\ execution[e] \in {"PROCESSING", "gone"} => execution'[e] \in {"PROCESSING", "gone"}
                 /\ execution[e] = "SKIPPED" => execution'[e] \in {"SKIPPED", "gone"}
                 /\ execution'[e] \in {"none"} \cup Unclaimed => execution[e] \in {"none"} \cup Unclaimed
<1>0. PlansInv /\ PlanTypes  BY DEF Inv, OutreachTypeOK, PlanTypes
<1>1. CASE \E a \in Assignments : AssignChecks(a)
  BY <1>1 DEF AssignChecks
<1>2. CASE \E a \in Assignments : AssignWrites(a)
  BY <1>0, <1>2 DEF AssignWrites, PlanTypes, PlansInv
<1>3. CASE \E a \in Assignments : Unassign(a)
  BY <1>0, <1>3 DEF Unassign, Skipped, PlanTypes, Unclaimed
<1>4. CASE \E c \in Contacts : MoveToDnc(c)
  BY <1>0, <1>4 DEF MoveToDnc, Skipped, PlanTypes, Unclaimed
<1>5. CASE \E p \in Plans : EditPlan(p) \/ DeletePlan(p)
  BY <1>0, <1>5 DEF EditPlan, DeletePlan, Cascaded, PlanTypes, Unclaimed
<1> QED BY <1>1, <1>2, <1>3, <1>4, <1>5 DEF Requests

\* A tick that lets go of its step, or that ends, leaves the others as they are.
LEMMA LetsGo ==
    ASSUME Inv, NEW j \in Jobs, UNCHANGED fired,
           NEW r \in Job, r.cur = None, r.stage \in {"idle", "loop"},
           job' = [job EXCEPT ![j] = r],
           \/ UNCHANGED execution
           \/ /\ job[j].cur \in Executions
              /\ \E s \in Settled : execution' = [execution EXCEPT ![job[j].cur] = s]
    PROVE  StepsInv'
  BY DEF Inv, OutreachTypeOK, StepsInv, FiresOnce, Settled, Unclaimed

\* A tick that goes on with its step, which it may have fired.
LEMMA GoesOn ==
    ASSUME Inv, NEW j \in Jobs, NEW s \in JobStages \ {"idle", "loop", "claimed"}, At(j, s),
           job[j].cur \in Executions, UNCHANGED execution,
           \/ UNCHANGED fired
           \/ job[j].stage = "claimed" /\ fired' = [fired EXCEPT ![job[j].cur] = @ + 1]
    PROVE  StepsInv'
<1> USE DEF Inv, OutreachTypeOK, StepsInv, At, Job
<1>1. \A k \in Jobs : job'[k].cur = job[k].cur
                    /\ (k # j => job'[k].stage = job[k].stage) /\ job'[j].stage = s
  OBVIOUS
<1>2. \A k \in Jobs : k # j /\ job[k].stage = "claimed" => job[k].cur # job[j].cur
  OBVIOUS
<1>3. FiresOnce'  BY DEF FiresOnce
<1>4. \A k \in Jobs : job'[k].stage = "claimed" => fired'[job'[k].cur] = 0
  BY <1>1, <1>2
<1>5. \A e \in Executions : execution'[e] \in {"none"} \cup Unclaimed => fired'[e] = 0
  BY DEF Unclaimed
<1> QED BY <1>1, <1>3, <1>4, <1>5

LEMMA LoopEnds ==
    ASSUME OutreachTypeOK, NEW j \in Jobs, NEW rest \in SUBSET Executions, Loop(j, rest)
    PROVE  \E r \in Job : /\ r.cur = None /\ r.stage \in {"idle", "loop"}
                         /\ job' = [job EXCEPT ![j] = r]
<1>1. IdleJob \in Job  BY DEF IdleJob, Job, JobStages
<1>2. job[j] \in Job  BY DEF OutreachTypeOK
<1>3. [stage |-> "loop", found |-> rest, cur |-> None, removed |-> job[j].removed \cap rest] \in Job
  BY <1>2 DEF Job, JobStages
<1> QED BY <1>1, <1>3 DEF Loop, IdleJob

\* The row of the step gets its final status, or the row is gone.
LEMMA FinalSteps ==
    ASSUME Inv, NEW j \in Jobs, job[j].cur \in Executions, UNCHANGED fired,
           NEW s \in Settled, NEW o, Final(j, s, o),
           o = EndOf(j) \/ o = [job EXCEPT ![j].stage = "failing"]
    PROVE  StepsInv'
<1>0. OutreachTypeOK /\ job[j].found \in SUBSET Executions  BY DEF Inv, OutreachTypeOK, Job
<1>1. CASE execution[job[j].cur] = "gone" /\ o = EndOf(j)
  <2>1. IdleJob \in Job /\ IdleJob.cur = None /\ IdleJob.stage = "idle"
    BY DEF IdleJob, Job, JobStages
  <2> QED BY <1>1, <2>1, LetsGo DEF Final, EndOf
<1>2. CASE execution[job[j].cur] = "gone" /\ o = [job EXCEPT ![j].stage = "failing"]
  <2>1. At(j, "failing") /\ "failing" \in JobStages  BY <1>2 DEF Final, At, JobStages
  <2> QED BY <1>2, <2>1, GoesOn DEF Final
<1>3. CASE execution[job[j].cur] # "gone"
  <2>1. PICK r \in Job : /\ r.cur = None /\ r.stage \in {"idle", "loop"}
                         /\ job' = [job EXCEPT ![j] = r]
    BY <1>0, <1>3, LoopEnds DEF Final
  <2> QED BY <1>3, <2>1, LetsGo DEF Final
<1> QED BY <1>1, <1>2, <1>3

\* The steps of a tick of the step job keep the invariant.
LEMMA JobStepInv == ASSUME Inv, NEW j \in Jobs, JobStep(j) PROVE StepsInv'
<1>0. OutreachTypeOK /\ job[j] \in Job  BY DEF Inv, OutreachTypeOK
<1>1. CASE JobFetches(j)
  <2> DEFINE due == {e \in Executions : execution[e] = "PENDING"}
             r == [stage |-> "loop", found |-> due, cur |-> None,
                   removed |-> {e \in due : assignment[AssignmentOf[e]] # "ACTIVE"}]
  <2>1. r \in Job /\ r.cur = None /\ r.stage = "loop"  BY DEF Job, JobStages
  <2>2. job' = [job EXCEPT ![j] = r] /\ UNCHANGED <<fired, execution>>
    BY <1>1 DEF JobFetches, planVars
  <2> HIDE DEF r
  <2> QED BY <2>1, <2>2, LetsGo
<1>2. ASSUME NEW e \in Executions, JobClaims(j, e) PROVE StepsInv'
  <2>1. CASE execution[e] \in Unclaimed
    <3> DEFINE r == [stage |-> "claimed", found |-> job[j].found \ {e},
                     removed |-> job[j].removed, cur |-> e]
    <3>1. r.cur = e /\ r.stage = "claimed"  OBVIOUS
    <3>2. job' = [job EXCEPT ![j] = r] /\ execution' = [execution EXCEPT ![e] = "PROCESSING"]
          /\ UNCHANGED fired
      BY <1>2, <2>1 DEF JobClaims, Hold
    <3>3. \A k \in Jobs : job[k].cur # e  BY <2>1 DEF Inv, StepsInv, Unclaimed
    <3>4. fired[e] = 0  BY <2>1 DEF Inv, StepsInv
    <3> HIDE DEF r
    <3> QED BY <3>1, <3>2, <3>3, <3>4 DEF Inv, OutreachTypeOK, StepsInv, FiresOnce, Unclaimed
  <2>2. CASE execution[e] \notin Unclaimed
    <3>1. Loop(j, job[j].found \ {e}) /\ UNCHANGED <<execution, fired>>
      BY <1>2, <2>2 DEF JobClaims
    <3>2. job[j].found \ {e} \in SUBSET Executions  BY <1>0 DEF Job
    <3> QED BY <1>0, <3>1, <3>2, LoopEnds, LetsGo
  <2> QED BY <2>1, <2>2
<1>a. job[j].stage \notin {"idle", "loop"} => job[j].cur \in Executions
  BY DEF Inv, OutreachTypeOK
<1>3. CASE JobSkips(j)  BY <1>a, <1>3, FinalSteps DEF JobSkips, Settled
<1>4. CASE JobFiresEmail(j)
  BY <1>a, <1>4, GoesOn DEF JobFiresEmail, exceptJob, JobStages
<1>5. CASE JobFiresOther(j)
  BY <1>a, <1>5, GoesOn DEF JobFiresOther, JobStages
<1>6. CASE JobMailed(j)
  BY <1>a, <1>6, GoesOn DEF JobMailed, JobStages
<1>7. CASE JobRecords(j)  BY <1>a, <1>7, FinalSteps DEF JobRecords, Settled
<1>8. CASE JobFails(j)  BY <1>a, <1>8, FinalSteps DEF JobFails, Settled
<1> QED BY <1>1, <1>2, <1>3, <1>4, <1>5, <1>6, <1>7, <1>8 DEF JobStep

\* They touch no assignment, no step that is not assigned, and no skipped step.
LEMMA JobStepQuiet ==
    ASSUME Inv, NEW j \in Jobs, JobStep(j)
    PROVE  /\ UNCHANGED <<assignment, assigning>>
           /\ \A e \in Executions : execution[e] = "none" => execution'[e] = "none"
           /\ \A e \in Executions : execution[e] = "SKIPPED" =>
                 execution'[e] = "SKIPPED" /\ fired'[e] = fired[e]
<1>a. execution \in [Executions -> {"none", "PROCESSING"} \cup Unclaimed \cup Settled]
      /\ fired \in [Executions -> Nat]
  BY DEF Inv, OutreachTypeOK
<1>b. job[j].stage \notin {"idle", "loop"} =>
        job[j].cur \in Executions /\ execution[job[j].cur] \in {"PROCESSING", "gone"}
  BY DEF Inv, OutreachTypeOK, StepsInv
<1>1. CASE JobFetches(j)  BY <1>1 DEF JobFetches, planVars
<1>2. CASE \E e \in Executions : JobClaims(j, e)
  BY <1>2, <1>a DEF JobClaims, exceptJob, Unclaimed
<1>3. CASE JobSkips(j)  BY <1>a, <1>b, <1>3 DEF JobSkips, Final, exceptJob
<1>4. CASE JobFiresEmail(j)  BY <1>a, <1>b, <1>4 DEF JobFiresEmail, exceptJob
<1>5. CASE JobFiresOther(j)  BY <1>a, <1>b, <1>5 DEF JobFiresOther, exceptJob
<1>6. CASE JobMailed(j)  BY <1>6 DEF JobMailed, exceptJob
<1>7. CASE JobRecords(j)  BY <1>a, <1>b, <1>7 DEF JobRecords, Final, exceptJob
<1>8. CASE JobFails(j)  BY <1>a, <1>b, <1>8 DEF JobFails, Final, exceptJob
<1> QED BY <1>1, <1>2, <1>3, <1>4, <1>5, <1>6, <1>7, <1>8 DEF JobStep

\* What is left to the rest of the process: time, a lost row, e-mails, a crash.
LEMMA RestQuiet ==
    ASSUME Inv,
           \/ \E e \in Executions : StepDue(e)
           \/ \E j \in Jobs : JobLosesRow(j)
           \/ UNCHANGED <<planVars, job, fired>>
           \/ Crash
    PROVE  /\ StepsInv' /\ PlansInv'
           /\ \A e \in Executions : execution[e] = "SKIPPED" => execution'[e] = "SKIPPED"
           /\ UNCHANGED fired
<1> USE DEF Inv, OutreachTypeOK, StepsInv, PlansInv, FiresOnce, OneActivePlan
<1>1. CASE \E e \in Executions : StepDue(e)
  BY <1>1 DEF StepDue, Unclaimed
<1>2. ASSUME NEW j \in Jobs, JobLosesRow(j) PROVE StepsInv'
  BY <1>2 DEF JobLosesRow, planVars, EndOf, IdleJob
<1>3. CASE \E j \in Jobs : JobLosesRow(j)
  BY <1>2, <1>3 DEF JobLosesRow, planVars
<1>4. CASE UNCHANGED <<planVars, job, fired>>
  BY <1>4 DEF planVars
<1>5. CASE Crash
  BY <1>5 DEF Crash, IdleJob
<1> QED BY <1>1, <1>3, <1>4, <1>5

\* Every step keeps the invariant and lets skipped steps rest.
LEMMA StepInv ==
    ASSUME Inv, [OutreachNext]_outreachVars
    PROVE  /\ Inv'
           /\ \A e \in Executions : execution[e] = "SKIPPED" =>
                 execution'[e] \in {"SKIPPED", "gone"} /\ fired'[e] = fired[e]
<1>0. OutreachTypeOK'  BY StepTypes DEF Inv
<1>1. CASE Requests
  <2>1. StepsInv'
    BY <1>1, RequestsQuiet DEF Inv, OutreachTypeOK, StepsInv, FiresOnce
  <2> QED BY <1>0, <1>1, <2>1, RequestsPlans, RequestsQuiet DEF Inv
<1>2. ASSUME NEW j \in Jobs, JobStep(j)
      PROVE  /\ Inv'
             /\ \A e \in Executions : execution[e] = "SKIPPED" =>
                   execution'[e] = "SKIPPED" /\ fired'[e] = fired[e]
  <2>1. PlansInv'
    BY <1>2, JobStepQuiet DEF Inv, OutreachTypeOK, PlansInv, OneActivePlan
  <2> QED BY <1>0, <1>2, <2>1, JobStepInv, JobStepQuiet DEF Inv
<1>3. CASE \/ \E e \in Executions : StepDue(e)
           \/ \E j \in Jobs : JobLosesRow(j)
           \/ UNCHANGED <<planVars, job, fired>>
           \/ Crash
  BY <1>0, <1>3, RestQuiet DEF Inv
<1> QED BY <1>1, <1>2, <1>3 DEF OutreachNext, outreachVars

\* No step of a plan is fired twice (FiresOnce).
THEOREM StepsFireOnce == OutreachSpec => []FiresOnce
<1>1. Inv => FiresOnce  BY DEF Inv, StepsInv
<1> QED BY <1>1, InitInv, StepInv, PTL DEF OutreachSpec

\* A contact follows one plan at most (OneActivePlan).
THEOREM ContactFollowsOnePlan == OutreachSpec => []OneActivePlan
<1>1. Inv => OneActivePlan  BY DEF Inv, PlansInv
<1> QED BY <1>1, InitInv, StepInv, PTL DEF OutreachSpec

\* A step skipped with its plan is never fired (SkippedStaysQuiet).
THEOREM SkippedStepsRest == OutreachSpec => SkippedStaysQuiet
<1>1. Inv /\ [OutreachNext]_outreachVars =>
        [\A e \in Executions : execution[e] = "SKIPPED" =>
            execution'[e] \in {"SKIPPED", "gone"} /\ fired'[e] = fired[e]]_outreachVars
  BY StepInv
<1> QED BY <1>1, InitInv, StepInv, PTL DEF OutreachSpec, SkippedStaysQuiet

-----------------------------------------------------------------------------
(* What reads SENT was accepted.  The outcome travels from the transport to   *)
(* the row through a tick: through the step it records, or the item.          *)

MailInv ==
    /\ \A w \in Workers : attempt[w].stage = "accepted" => accepted[attempt[w].mail] > 0
    /\ \A j \in Jobs : job[j].stage = "mailing" /\ job[j].cur \in Mails
                      => attempt[j].mail = job[j].cur
    /\ \A j \in Jobs : job[j].stage = "recording" /\ job[j].cur \in Mails
                      => accepted[job[j].cur] > 0
    /\ SentMeansAccepted

\* Steps that hand no mail over and write no SENT.
JobsQuiet ==
    \A j \in Jobs : job'[j].stage \in {"mailing", "recording"} /\ job'[j].cur \in Mails
                    => job'[j] = job[j]
RowsQuiet ==
    \A m \in Mails : /\ execution'[m] = "SENT" => execution[m] = "SENT" \/ accepted[m] > 0
                     /\ queue'[m].status = "SENT" => queue[m].status = "SENT"

LEMMA MailInvKept ==
    ASSUME MailInv, attempt' = attempt, accepted' = accepted, JobsQuiet, RowsQuiet
    PROVE  MailInv'
  BY DEF MailInv, SentMeansAccepted, JobsQuiet, RowsQuiet

LEMMA RequestsMail == ASSUME OutreachTypeOK, MailInv, Requests PROVE MailInv'
<1>1. UNCHANGED <<mailVars, job>>
  BY DEF Requests, AssignChecks, AssignWrites, Unassign, MoveToDnc, EditPlan, DeletePlan
<1>2. \A m \in Mails : execution'[m] = "SENT" => execution[m] = "SENT"
  <2>0. execution \in [Executions -> {"none", "PROCESSING"} \cup Unclaimed \cup Settled]
    BY DEF OutreachTypeOK
  <2>1. CASE \E a \in Assignments : AssignChecks(a) \/ AssignWrites(a)
    BY <2>0, <2>1 DEF AssignChecks, AssignWrites
  <2>2. CASE \E a \in Assignments : Unassign(a)
    BY <2>0, <2>2 DEF Unassign, Skipped
  <2>3. CASE \E c \in Contacts : MoveToDnc(c)
    BY <2>0, <2>3 DEF MoveToDnc, Skipped
  <2>4. CASE \E p \in Plans : EditPlan(p) \/ DeletePlan(p)
    BY <2>0, <2>4 DEF EditPlan, DeletePlan, Cascaded
  <2> QED BY <2>1, <2>2, <2>3, <2>4 DEF Requests
<1>3. attempt' = attempt /\ accepted' = accepted /\ JobsQuiet /\ RowsQuiet
  BY <1>1, <1>2 DEF mailVars, JobsQuiet, RowsQuiet
<1> QED BY <1>3, MailInvKept

LEMMA DispatchMail ==
    ASSUME OutreachTypeOK, MailInv, UNCHANGED <<planVars, job>>,
           NEW w \in Workers, Gate(w) \/ HandOff(w)
    PROVE  MailInv'
<1> USE DEF OutreachTypeOK, MailTypes, MailInv, SentMeansAccepted, Attempt
<1>1. attempt[w].stage \in {"gate", "handoff"} /\ attempt[w].mail \in Mails
  BY DEF Gate, HandOff
<1>2. /\ \A v \in Workers : attempt'[v].mail = attempt[v].mail
      /\ \A m \in Mails : accepted[m] > 0 => accepted'[m] > 0
      /\ queue' = queue /\ execution' = execution /\ job' = job
  <2>1. CASE Gate(w)  BY <2>1 DEF Gate, planVars
  <2>2. CASE HandOff(w)  BY <1>1, <2>2 DEF HandOff, planVars
  <2> QED BY <2>1, <2>2
<1>3. \A v \in Workers : attempt'[v].stage = "accepted" => accepted'[attempt'[v].mail] > 0
  <2>1. CASE Gate(w)  BY <2>1 DEF Gate
  <2>2. CASE HandOff(w)  BY <1>1, <2>2 DEF HandOff
  <2> QED BY <2>1, <2>2
<1>4. \A j \in Jobs : j \in Workers  BY DEF Workers, Jobs
<1>5. \A j \in Jobs : job'[j].stage = "recording" /\ job'[j].cur \in Mails
                      => accepted'[job'[j].cur] > 0
  BY <1>2
<1>6. SentMeansAccepted'  BY <1>2
<1> QED BY <1>2, <1>3, <1>4, <1>5, <1>6

LEMMA TickMail ==
    ASSUME OutreachTypeOK, MailInv, UNCHANGED <<planVars, job>>, NEW t \in Ticks,
           TickStep(t) \/ TickClaimFails(t) \/ TickLosesRow(t)
    PROVE  MailInv'
<1> USE DEF OutreachTypeOK, MailTypes
<1>0. t \in Workers /\ t \notin Jobs  BY DEF Workers, Jobs
<1>1. CASE TickFetches(t) \/ TickClaimFails(t)
  <2>1. attempt' = attempt /\ accepted' = accepted /\ JobsQuiet /\ RowsQuiet
    BY <1>1 DEF TickFetches, TickClaimFails, planVars, JobsQuiet, RowsQuiet
  <2> QED BY <2>1, MailInvKept
<1>2. CASE TickClaims(t)
  <2>1. attempt' = attempt /\ accepted' = accepted /\ JobsQuiet
    BY <1>2 DEF TickClaims, planVars, JobsQuiet
  <2>2. RowsQuiet
    BY <1>2 DEF TickClaims, Claimed, Row, planVars, RowsQuiet
  <2> QED BY <2>1, <2>2, MailInvKept
<1>3. CASE TickDispatches(t)
  BY <1>0, <1>3 DEF TickDispatches, Dispatch, planVars, MailInv, SentMeansAccepted
<1>4. CASE TickRecords(t)
  <2>1. PICK i \in tick[t].items : /\ i.mail = attempt[t].mail
                                  /\ queue' = [queue EXCEPT ![i.mail] = After(i, attempt[t].stage)]
                                  /\ attempt' = [attempt EXCEPT ![t] = NoAttempt]
    BY <1>4 DEF TickRecords, NextItem, Free
  <2>2. i.mail \in Mails  BY DEF Tick, Item
  <2>3. After(i, attempt[t].stage).status = "SENT" => accepted[i.mail] > 0
    BY <1>0, <2>1 DEF After, MailInv
  <2>4. accepted' = accepted  BY <1>4 DEF TickRecords
  <2> QED BY <1>0, <2>1, <2>2, <2>3, <2>4 DEF planVars, NoAttempt, MailInv, SentMeansAccepted
<1>5. CASE TickLosesRow(t)
  <2>1. attempt' = [attempt EXCEPT ![t] = NoAttempt] /\ UNCHANGED <<accepted, queue>>
    BY <1>5 DEF TickLosesRow, NextItem, Free
  <2> QED BY <1>0, <2>1 DEF planVars, NoAttempt, MailInv, SentMeansAccepted
<1> QED BY <1>1, <1>2, <1>3, <1>4, <1>5 DEF TickStep

\* A tick of the step job that does not go on with its step.
LEMMA FinalMail ==
    ASSUME OutreachTypeOK, MailInv, NEW j \in Jobs, job[j].cur \in Executions,
           UNCHANGED mailVars, NEW s \in Settled, NEW o, Final(j, s, o),
           o = EndOf(j) \/ o = [job EXCEPT ![j].stage = "failing"],
           s = "SENT" => job[j].stage = "recording"
    PROVE  MailInv'
<1>1. JobsQuiet
  <2>1. CASE execution[job[j].cur] = "gone"
    BY <2>1 DEF Final, EndOf, IdleJob, OutreachTypeOK, Job, JobsQuiet
  <2>2. CASE execution[job[j].cur] # "gone"
    BY <2>2 DEF Final, Loop, IdleJob, OutreachTypeOK, JobsQuiet
  <2> QED BY <2>1, <2>2
<1>2. RowsQuiet
  <2>1. CASE execution[job[j].cur] = "gone"
    BY <2>1 DEF Final, mailVars, RowsQuiet
  <2>2. CASE execution[job[j].cur] # "gone"
    <3>1. execution' = [execution EXCEPT ![job[j].cur] = s]  BY <2>2 DEF Final
    <3>2. s = "SENT" /\ job[j].cur \in Mails => accepted[job[j].cur] > 0  BY DEF MailInv
    <3> QED BY <3>1, <3>2 DEF mailVars, RowsQuiet, OutreachTypeOK
  <2> QED BY <2>1, <2>2
<1> QED BY <1>1, <1>2, MailInvKept DEF mailVars

LEMMA JobMail == ASSUME OutreachTypeOK, MailInv, NEW j \in Jobs, JobStep(j) PROVE MailInv'
<1>0. j \in Workers /\ (job[j].stage \notin {"idle", "loop"} => job[j].cur \in Executions)
  BY DEF OutreachTypeOK, Workers, Jobs
<1>1. CASE JobFetches(j)
  <2>1. attempt' = attempt /\ accepted' = accepted /\ RowsQuiet
    BY <1>1 DEF JobFetches, mailVars, planVars, RowsQuiet
  <2>2. JobsQuiet  BY <1>1 DEF JobFetches, JobsQuiet, OutreachTypeOK
  <2> QED BY <2>1, <2>2, MailInvKept
<1>2. ASSUME NEW e \in Executions, JobClaims(j, e) PROVE MailInv'
  <2>1. JobsQuiet
    <3>1. CASE execution[e] \in Unclaimed
      BY <1>2, <3>1 DEF JobClaims, Hold, JobsQuiet, OutreachTypeOK
    <3>2. CASE execution[e] \notin Unclaimed
      BY <1>2, <3>2 DEF JobClaims, Loop, IdleJob, JobsQuiet, OutreachTypeOK
    <3> QED BY <3>1, <3>2
  <2>2. attempt' = attempt /\ accepted' = accepted /\ RowsQuiet
    BY <1>2 DEF JobClaims, OutreachTypeOK, mailVars, RowsQuiet
  <2> QED BY <2>1, <2>2, MailInvKept
<1>3. CASE JobSkips(j)  BY <1>0, <1>3, FinalMail DEF JobSkips, Settled
<1>4. CASE JobFiresEmail(j)
  <2>1. CASE Dispatch(j, job[j].cur) /\ At(j, "mailing")
    BY <1>0, <1>4, <2>1 DEF JobFiresEmail, Dispatch, At, MailInv, SentMeansAccepted,
                            OutreachTypeOK, MailTypes, Job
  <2>2. CASE At(j, "failing") /\ UNCHANGED attempt
    <3>1. JobsQuiet  BY <2>2 DEF At, OutreachTypeOK, Job, JobsQuiet
    <3>2. accepted' = accepted /\ RowsQuiet  BY <1>4 DEF JobFiresEmail, RowsQuiet
    <3> QED BY <2>2, <3>1, <3>2, MailInvKept
  <2> QED BY <1>4, <2>1, <2>2 DEF JobFiresEmail
<1>5. CASE JobFiresOther(j)
  <2>1. job[j].cur \notin Mails  BY <1>5 DEF JobFiresOther
  <2>2. At(j, "failing") \/ At(j, "recording")  BY <1>5 DEF JobFiresOther
  <2>3. JobsQuiet  BY <2>1, <2>2 DEF At, OutreachTypeOK, Job, JobsQuiet
  <2>4. attempt' = attempt /\ accepted' = accepted /\ RowsQuiet
    BY <1>5 DEF JobFiresOther, mailVars, RowsQuiet
  <2> QED BY <2>3, <2>4, MailInvKept
<1>6. CASE JobMailed(j)
  <2> USE DEF OutreachTypeOK, MailTypes
  <2>1. (job[j].cur \in Mails => attempt[j].mail = job[j].cur) /\ attempt[j].stage \in Outcomes
    BY <1>6 DEF JobMailed, MailInv, Returned
  <2>2. attempt' = [attempt EXCEPT ![j] = NoAttempt] /\ UNCHANGED <<accepted, execution>>
        /\ At(j, IF attempt[j].stage = "accepted" THEN "recording" ELSE "failing")
    BY <1>6 DEF JobMailed, Free
  <2>3. \A m \in Mails : queue'[m].status = "SENT" => queue[m].status = "SENT"
    BY <1>0, <1>6 DEF JobMailed, Enqueued
  <2>4. \A k \in Jobs : job'[k].stage = "recording" /\ job'[k].cur \in Mails
                        => accepted[job'[k].cur] > 0
    BY <1>0, <2>1, <2>2 DEF At, Job, MailInv
  <2>5. \A k \in Jobs : job'[k].stage = "mailing" => k # j /\ job[k].stage = "mailing"
                                                     /\ job'[k].cur = job[k].cur
    BY <2>2 DEF At, Job
  <2> QED BY <1>0, <2>2, <2>3, <2>4, <2>5 DEF NoAttempt, MailInv, SentMeansAccepted
<1>7. CASE JobRecords(j)  BY <1>0, <1>7, FinalMail DEF JobRecords, Settled
<1>8. CASE JobFails(j)  BY <1>0, <1>8, FinalMail DEF JobFails, Settled
<1> QED BY <1>1, <1>2, <1>3, <1>4, <1>5, <1>6, <1>7, <1>8 DEF JobStep

LEMMA StepMail ==
    OutreachTypeOK /\ MailInv /\ [OutreachNext]_outreachVars => MailInv'
<1> SUFFICES ASSUME OutreachTypeOK, MailInv, [OutreachNext]_outreachVars PROVE MailInv'
  OBVIOUS
<1>1. ASSUME NEW e \in Executions, StepDue(e) PROVE MailInv'
  <2>1. attempt' = attempt /\ accepted' = accepted /\ JobsQuiet /\ RowsQuiet
    BY <1>1 DEF StepDue, mailVars, OutreachTypeOK, JobsQuiet, RowsQuiet
  <2> QED BY <2>1, MailInvKept
<1>2. ASSUME NEW j \in Jobs, JobLosesRow(j) PROVE MailInv'
  <2>1. attempt' = attempt /\ accepted' = accepted /\ RowsQuiet
    BY <1>2 DEF JobLosesRow, mailVars, planVars, RowsQuiet
  <2>2. JobsQuiet  BY <1>2 DEF JobLosesRow, EndOf, IdleJob, OutreachTypeOK, JobsQuiet
  <2> QED BY <2>1, <2>2, MailInvKept
<1>3. CASE MailNext /\ UNCHANGED <<planVars, job, fired>>
  <2>1. CASE (\E m \in Mails : RetryDue(m)) \/ (\E r \in Recipients : Suppress(r))
    <3>1. attempt' = attempt /\ accepted' = accepted /\ JobsQuiet
      BY <1>3, <2>1 DEF RetryDue, Suppress, JobsQuiet
    <3>2. RowsQuiet
      BY <1>3, <2>1 DEF RetryDue, Suppress, planVars, OutreachTypeOK, MailTypes, Row, RowsQuiet
    <3> QED BY <3>1, <3>2, MailInvKept
  <2> QED BY <1>3, <2>1, DispatchMail, TickMail DEF MailNext
<1>4. CASE Crash
  BY <1>4 DEF Crash, MailCrash, Reset, NoAttempt, IdleJob, MailInv, SentMeansAccepted,
              OutreachTypeOK, MailTypes, Row
<1>5. CASE UNCHANGED outreachVars
  <2>1. attempt' = attempt /\ accepted' = accepted /\ JobsQuiet /\ RowsQuiet
    BY <1>5 DEF outreachVars, mailVars, planVars, JobsQuiet, RowsQuiet
  <2> QED BY <2>1, MailInvKept
<1> QED BY <1>1, <1>2, <1>3, <1>4, <1>5, RequestsMail, JobMail DEF OutreachNext

LEMMA InitMail == OutreachInit => MailInv
  BY DEF OutreachInit, MailInit, MailInv, SentMeansAccepted, NoAttempt, IdleJob

\* A step or a queued mail that reads SENT was accepted by a transport
\* (SentMeansAccepted).
THEOREM SentWasAccepted == OutreachSpec => []SentMeansAccepted
<1>1. MailInv => SentMeansAccepted  BY DEF MailInv
<1> QED BY <1>1, InitMail, StepMail, OutreachTypeCorrect, PTL DEF OutreachSpec

-----------------------------------------------------------------------------
(* Attempts.  The row counts those whose outcome it was told; the others cost  *)
(* a death of the process, or the failure of both updates of the row.  Let t  *)
(* be the tick of the retry job: while it runs it alone changes the rows it    *)
(* has found.                                                                  *)

Found(t, m) == \E i \in tick[t].items : i.mail = m
UnderWay(t, m) == attempt[t].stage # "none" /\ attempt[t].mail = m

\* Twice what the faults may have cost so far.
Cost == 2 * crashes + dbFaults
\* Twice the attempts that the row has not counted.
Untold(m) == 2 * (tries[m] - queue[m].attempts)

\* The tick has in its hands what the rows say.
TickAgrees(t) ==
    /\ tick[t].stage = "idle" => tick[t].items = {}
    /\ \A i \in tick[t].items :
          /\ i.attempts = queue[i.mail].attempts
          /\ queue[i.mail].status \in (IF tick[t].stage = "claiming" THEN {"PENDING"}
                                       ELSE {"PENDING", "PROCESSING"})

\* A mail has a row when its step was fired, and its dispatch by the step job is over.
RowsFired ==
    /\ \A m \in Mails : queue[m].status = "none" => tries[m] <= fired[m]
    /\ \A m \in Mails : queue[m].status # "none" => fired[m] > 0
    /\ \A j \in Jobs : job[j].stage = "mailing" =>
          /\ job[j].cur \in Mails
          /\ queue[job[j].cur].status = "none" /\ fired[job[j].cur] > 0

\* What the row of m has yet to be told of.
Told(t, m) ==
    /\ queue[m].status \in Live => queue[m].attempts < MaxAttempts /\ Untold(m) <= Cost + 2
    /\ queue[m].status \in {"WAITING", "PENDING"} /\ ~UnderWay(t, m) => Untold(m) <= Cost
    /\ queue[m].status = "PENDING" /\ Found(t, m) /\ tick[t].stage = "loop" =>
          Untold(m) <= (IF UnderWay(t, m) THEN Cost + 1 ELSE Cost - 1)
    /\ queue[m].status = "PROCESSING" /\ Found(t, m) /\ ~UnderWay(t, m) => Untold(m) <= Cost
    /\ queue[m].status \in {"SENT", "DEAD"} => 2 * tries[m] <= 2 * MaxAttempts + Cost

CountInv(t) == RowsFired /\ TickAgrees(t) /\ \A m \in Mails : Told(t, m)

LEMMA CountsAreNumbers ==
    ASSUME OutreachTypeOK
    PROVE  /\ MaxAttempts \in Nat /\ MaxAttempts >= 2
           /\ crashes \in Nat /\ dbFaults \in Nat
           /\ \A m \in Mails : tries[m] \in Nat /\ queue[m].attempts \in Nat
           /\ \A e \in Executions : fired[e] \in Nat
  BY EmailAssumption DEF OutreachTypeOK, MailTypes, Row

LEMMA CostGrows ==
    ASSUME OutreachTypeOK, OutreachTypeOK', crashes <= crashes', dbFaults <= dbFaults'
    PROVE  Cost \in Nat /\ Cost' \in Nat /\ Cost <= Cost'
<1>1. /\ crashes \in Nat /\ dbFaults \in Nat
      /\ crashes' \in Nat /\ dbFaults' \in Nat
  BY EmailAssumption DEF OutreachTypeOK, MailTypes
<1>2. PICK a \in Nat : a = crashes  BY <1>1
<1>3. PICK b \in Nat : b = dbFaults  BY <1>1
<1>4. PICK c \in Nat : c = crashes'  BY <1>1
<1>5. PICK d \in Nat : d = dbFaults'  BY <1>1
<1>6. a <= c /\ b <= d  BY <1>2, <1>3, <1>4, <1>5
<1>7. 2 * a + b <= 2 * c + d /\ 2 * a + b \in Nat /\ 2 * c + d \in Nat  BY <1>6
<1>8. Cost = 2 * a + b  BY <1>2, <1>3 DEF Cost
<1>9. Cost' = 2 * c + d  BY <1>4, <1>5 DEF Cost
<1> QED BY <1>7, <1>8, <1>9

\* A mail whose row and attempts a step leaves alone.
LEMMA ToldSame ==
    ASSUME OutreachTypeOK, OutreachTypeOK', crashes <= crashes', dbFaults <= dbFaults',
           NEW t, NEW m \in Mails, Told(t, m),
           queue'[m] = queue[m], tries'[m] = tries[m],
           Found(t, m)' => Found(t, m),
           Found(t, m)' /\ tick'[t].stage = "loop" => tick[t].stage = "loop",
           UnderWay(t, m) => UnderWay(t, m)'
    PROVE  Told(t, m)'
<1>1. Untold(m)' = Untold(m) /\ Untold(m) \in Int  BY CountsAreNumbers DEF Untold
<1>2. Cost <= Cost' /\ Cost' \in Nat /\ Cost \in Nat  BY CostGrows
<1> QED BY <1>1, <1>2, CountsAreNumbers DEF Told

\* Steps that touch neither rows nor attempts, nor what the tick holds.
LEMMA CountSame ==
    ASSUME NEW t, CountInv(t), OutreachTypeOK, OutreachTypeOK',
           queue' = queue, tick' = tick, tries' = tries,
           \A m \in Mails : UnderWay(t, m)' <=> UnderWay(t, m),
           crashes <= crashes', dbFaults <= dbFaults',
           \A e \in Executions : fired[e] <= fired'[e],
           \A j \in Jobs : job'[j].stage = "mailing" =>
                              job[j].stage = "mailing" /\ job'[j].cur = job[j].cur
    PROVE  CountInv(t)'
<1>1. RowsFired'
  <2>1. RowsFired  BY DEF CountInv
  <2>2. \A m \in Mails : m \in Executions  BY PlanAssumption
  <2>3. \A m \in Mails : /\ fired'[m] \in Nat /\ fired[m] \in Nat /\ tries[m] \in Nat
                         /\ fired[m] <= fired'[m]
    BY <2>2, CountsAreNumbers DEF OutreachTypeOK
  <2>4. ASSUME NEW j \in Jobs, job'[j].stage = "mailing"
        PROVE  /\ job'[j].cur \in Mails
               /\ queue[job'[j].cur].status = "none" /\ fired'[job'[j].cur] > 0
    <3>1. job[j].stage = "mailing" /\ job'[j].cur = job[j].cur  BY <2>4
    <3>2. job[j].cur \in Mails /\ queue[job[j].cur].status = "none" /\ fired[job[j].cur] > 0
      BY <2>1, <2>4, <3>1 DEF RowsFired
    <3> QED BY <2>3, <2>4, <3>1, <3>2
  <2>5. \A m \in Mails : /\ queue[m].status = "none" => tries[m] <= fired'[m]
                         /\ queue[m].status # "none" => fired'[m] > 0
    BY <2>1, <2>3 DEF RowsFired
  <2> QED BY <2>4, <2>5 DEF RowsFired
<1>2. TickAgrees(t)'  BY DEF CountInv, TickAgrees
<1>3. ASSUME NEW m \in Mails PROVE Told(t, m)'
  BY ToldSame DEF CountInv, Found
<1> QED BY <1>1, <1>2, <1>3 DEF CountInv

\* What the tick of the retry job does to the rows and to what it holds.
LEMMA CostOfFaults ==
    ASSUME OutreachTypeOK, OutreachTypeOK', crashes' = crashes, dbFaults' = dbFaults + 1
    PROVE  Cost \in Nat /\ Cost' = Cost + 1
  BY CountsAreNumbers DEF Cost

LEMMA CostOfCrash ==
    ASSUME OutreachTypeOK, OutreachTypeOK', crashes' = crashes + 1, dbFaults' = dbFaults
    PROVE  Cost \in Nat /\ Cost' = Cost + 2
<1>1. 2 * (crashes + 1) = 2 * crashes + 2  BY CountsAreNumbers
<1> QED BY <1>1, CountsAreNumbers DEF Cost

LEMMA CountDue ==
    ASSUME NEW t \in Ticks, OutreachTypeOK, OutreachTypeOK', CountInv(t), NEW n \in Mails, RetryDue(n),
           UNCHANGED <<job, fired, faultVars>>
    PROVE  CountInv(t)'
<1>1. /\ queue[n].status = "WAITING" /\ queue'[n].status = "PENDING"
      /\ queue'[n].attempts = queue[n].attempts
      /\ \A m \in Mails \ {n} : queue'[m] = queue[m]
      /\ UNCHANGED <<attempt, tick, tries>>
  BY DEF RetryDue, OutreachTypeOK, MailTypes, Row
<1>2. RowsFired'
  BY <1>1 DEF CountInv, RowsFired
<1>3. ~Found(t, n) /\ \A i \in tick[t].items : i.mail # n
  BY <1>1 DEF CountInv, TickAgrees, Found
<1>4. TickAgrees(t)'
  <2>1. \A i \in tick[t].items : i.mail \in Mails
    BY DEF OutreachTypeOK, MailTypes, Tick, Item
  <2> QED BY <1>1, <1>3, <2>1 DEF CountInv, TickAgrees
<1>5. ASSUME NEW m \in Mails \ {n} PROVE Told(t, m)'
  BY <1>1, ToldSame, CountsAreNumbers DEF CountInv, Found, UnderWay, faultVars
<1>6. Told(t, n)'
  <2>1. Told(t, n)  BY DEF CountInv
  <2>2. Cost' = Cost  BY DEF Cost, faultVars
  <2>3. Untold(n)' = Untold(n)  BY <1>1 DEF Untold
  <2>4. ~Found(t, n)' /\ (UnderWay(t, n)' <=> UnderWay(t, n))  BY <1>1, <1>3 DEF Found, UnderWay
  <2> QED BY <1>1, <2>1, <2>2, <2>3, <2>4 DEF Told, Live
<1> QED BY <1>2, <1>4, <1>5, <1>6 DEF CountInv

LEMMA CountFetches ==
    ASSUME NEW t \in Ticks, OutreachTypeOK, OutreachTypeOK', CountInv(t), TickFetches(t),
           UNCHANGED <<job, fired, faultVars>>
    PROVE  CountInv(t)'
<1>1. UNCHANGED <<queue, attempt, tries>> /\ tick'[t].stage = "claiming"
  BY DEF TickFetches, OutreachTypeOK, MailTypes
<1>2. \A i \in tick'[t].items : /\ i.mail \in Mails /\ queue[i.mail].status = "PENDING"
                               /\ i.attempts = queue[i.mail].attempts
  BY DEF TickFetches, OutreachTypeOK, MailTypes
<1>3. RowsFired'  BY <1>1 DEF CountInv, RowsFired
<1>4. TickAgrees(t)'  BY <1>1, <1>2 DEF TickAgrees
<1>5. ASSUME NEW m \in Mails PROVE Told(t, m)'
  <2>1. Told(t, m)  BY DEF CountInv
  <2>2. Cost' = Cost /\ Untold(m)' = Untold(m)  BY <1>1 DEF Cost, faultVars, Untold
  <2>3. UnderWay(t, m)' <=> UnderWay(t, m)  BY <1>1 DEF UnderWay
  <2>4. Found(t, m)' => queue[m].status = "PENDING"  BY <1>2 DEF Found
  <2> QED BY <1>1, <2>1, <2>2, <2>3, <2>4 DEF Told
<1> QED BY <1>3, <1>4, <1>5 DEF CountInv

LEMMA CountClaims ==
    ASSUME NEW t \in Ticks, OutreachTypeOK, OutreachTypeOK', CountInv(t), TickClaims(t),
           UNCHANGED <<job, fired, faultVars>>
    PROVE  CountInv(t)'
<1>1. /\ UNCHANGED <<attempt, tries>>
      /\ tick[t].stage = "claiming" /\ tick'[t].stage = "loop" /\ tick'[t].items = tick[t].items
  BY DEF TickClaims, OutreachTypeOK, MailTypes, Tick
<1>2. ASSUME NEW m \in Mails
      PROVE  /\ queue'[m].attempts = queue[m].attempts
             /\ queue'[m].status = IF Found(t, m) THEN "PROCESSING" ELSE queue[m].status
             /\ Found(t, m) => queue[m].status = "PENDING"
  <2>1. queue'[m] = IF Found(t, m) THEN [queue[m] EXCEPT !.status = "PROCESSING"] ELSE queue[m]
    BY DEF TickClaims, Claimed, Found
  <2>2. queue[m] \in Row  BY DEF OutreachTypeOK, MailTypes
  <2>3. Found(t, m) => queue[m].status = "PENDING"
    BY <1>1 DEF Found, CountInv, TickAgrees
  <2> QED BY <2>1, <2>2, <2>3 DEF Row
<1>3. RowsFired'
  BY <1>1, <1>2 DEF CountInv, RowsFired
<1>4. TickAgrees(t)'
  <2>1. \A i \in tick[t].items : i.mail \in Mails /\ Found(t, i.mail)
    BY DEF Found, OutreachTypeOK, MailTypes, Tick, Item
  <2> QED BY <1>1, <1>2, <2>1 DEF CountInv, TickAgrees
<1>5. ASSUME NEW m \in Mails PROVE Told(t, m)'
  <2>1. Told(t, m)  BY DEF CountInv
  <2>2. Cost' = Cost /\ Untold(m)' = Untold(m)  BY <1>1, <1>2 DEF Cost, faultVars, Untold
  <2>3. UnderWay(t, m)' <=> UnderWay(t, m)  BY <1>1 DEF UnderWay
  <2>4. Found(t, m)' <=> Found(t, m)  BY <1>1 DEF Found
  <2> QED BY <1>1, <1>2, <2>1, <2>2, <2>3, <2>4 DEF Told, Live
<1> QED BY <1>3, <1>4, <1>5 DEF CountInv

LEMMA CountClaimFails ==
    ASSUME NEW t \in Ticks, OutreachTypeOK, OutreachTypeOK', CountInv(t), TickClaimFails(t),
           UNCHANGED <<job, fired>>
    PROVE  CountInv(t)'
<1>1. /\ UNCHANGED <<queue, attempt, tries>>
      /\ tick[t].stage = "claiming" /\ tick'[t].stage = "loop" /\ tick'[t].items = tick[t].items
  BY DEF TickClaimFails, OutreachTypeOK, MailTypes, Tick
<1>3. RowsFired'
  BY <1>1 DEF CountInv, RowsFired
<1>4. TickAgrees(t)'
  BY <1>1 DEF CountInv, TickAgrees
<1>5. ASSUME NEW m \in Mails PROVE Told(t, m)'
  <2>1. Told(t, m)  BY DEF CountInv
  <2>2. Cost \in Nat /\ Cost' = Cost + 1  BY CostOfFaults DEF TickClaimFails
  <2>3. UnderWay(t, m)' <=> UnderWay(t, m)  BY <1>1 DEF UnderWay
  <2>4. Found(t, m)' <=> Found(t, m)  BY <1>1 DEF Found
  <2>5. Untold(m)' = Untold(m) /\ Untold(m) \in Int  BY <1>1, CountsAreNumbers DEF Untold
  <2>6. PICK u \in Int, c \in Nat : u = Untold(m) /\ c = Cost  BY <2>2, <2>5
  <2>7. /\ u <= c + 2 => u <= (c + 1) + 2
        /\ u <= c => u <= c + 1 /\ u <= (c + 1) - 1
        /\ u <= c + 2 => u <= (c + 1) + 1
    BY <2>6
  <2>8. 2 * tries[m] <= 2 * MaxAttempts + c => 2 * tries[m] <= 2 * MaxAttempts + (c + 1)
    BY CountsAreNumbers
  <2>9. /\ UNCHANGED <<queue[m], tries[m], MaxAttempts>>
        /\ Untold(m)' = u /\ Cost' = c + 1
    BY <1>1, <2>2, <2>5, <2>6
  <2> QED BY <1>1, <2>1, <2>3, <2>4, <2>6, <2>7, <2>8, <2>9 DEF Told, Live
<1> QED BY <1>3, <1>4, <1>5 DEF CountInv

LEMMA CountDispatches ==
    ASSUME NEW t \in Ticks, OutreachTypeOK, OutreachTypeOK', CountInv(t), TickDispatches(t),
           UNCHANGED <<job, fired, faultVars>>
    PROVE  CountInv(t)'
<1>1. PICK i \in tick[t].items : Dispatch(t, i.mail)  BY DEF TickDispatches
<1>2. i.mail \in Mails /\ Found(t, i.mail)
  BY DEF Found, OutreachTypeOK, MailTypes, Tick, Item
<1>3. /\ UNCHANGED <<queue, tick>> /\ tick[t].stage = "loop"
      /\ tries'[i.mail] = tries[i.mail] + 1 /\ \A m \in Mails \ {i.mail} : tries'[m] = tries[m]
      /\ attempt[t].stage = "none" /\ attempt'[t].stage = "gate" /\ attempt'[t].mail = i.mail
  BY <1>1, <1>2 DEF TickDispatches, Dispatch, NoAttempt, OutreachTypeOK, MailTypes, Workers
<1>4. queue[i.mail].status \in {"PENDING", "PROCESSING"}
  BY <1>3 DEF CountInv, TickAgrees
<1>5. RowsFired'  BY <1>3, <1>4 DEF CountInv, RowsFired
<1>6. TickAgrees(t)'  BY <1>3 DEF CountInv, TickAgrees
<1>7. ASSUME NEW m \in Mails \ {i.mail} PROVE Told(t, m)'
  BY <1>3, ToldSame, CountsAreNumbers DEF CountInv, Found, UnderWay, faultVars
<1>8. Told(t, i.mail)'
  <2>1. Told(t, i.mail)  BY <1>2 DEF CountInv
  <2>2. PICK u \in Int, c \in Nat : u = Untold(i.mail) /\ c = Cost
    BY <1>2, CountsAreNumbers DEF Untold, Cost
  <2>3. Cost' = c /\ Untold(i.mail)' = u + 2
    BY <1>2, <1>3, <2>2, CountsAreNumbers DEF Cost, faultVars, Untold
  <2>4. ~UnderWay(t, i.mail) /\ UnderWay(t, i.mail)' /\ Found(t, i.mail)'
    BY <1>2, <1>3 DEF UnderWay, Found
  <2>5. queue[i.mail].attempts < MaxAttempts
        /\ (queue[i.mail].status = "PENDING" => u <= c - 1)
        /\ (queue[i.mail].status = "PROCESSING" => u <= c)
    BY <1>2, <1>3, <1>4, <2>1, <2>2, <2>4 DEF Told, Live
  <2>6. /\ u <= c - 1 => u + 2 <= c + 1 /\ u + 2 <= c + 2
        /\ u <= c => u + 2 <= c + 2
    BY <2>2
  <2> QED BY <1>3, <1>4, <2>3, <2>4, <2>5, <2>6 DEF Told
<1> QED BY <1>5, <1>6, <1>7, <1>8 DEF CountInv

\* An item is the only one of its mail.
LEMMA ItemsDiffer ==
    ASSUME NEW t \in Ticks, OutreachTypeOK, TickAgrees(t),
           NEW i \in tick[t].items, NEW k \in tick[t].items, i.mail = k.mail
    PROVE  i = k
<1>1. i \in Item /\ k \in Item  BY DEF OutreachTypeOK, MailTypes, Tick
<1>2. i.attempts = k.attempts  BY DEF TickAgrees
<1> QED BY <1>1, <1>2 DEF Item

\* The tick goes on to the next item, or ends.
LEMMA NextItems ==
    ASSUME NEW t \in Ticks, OutreachTypeOK, TickAgrees(t), tick[t].stage = "loop", Returned(t),
           NEW i \in tick[t].items, i.mail = attempt[t].mail, NextItem(t, i)
    PROVE  /\ i.mail \in Mails
           /\ UnderWay(t, i.mail) /\ \A m : ~UnderWay(t, m)'
           /\ tick'[t].items = tick[t].items \ {i}
           /\ tick'[t].stage \in {"idle", "loop"}
           /\ tick'[t].stage = "idle" => tick'[t].items = {}
           /\ ~Found(t, i.mail)' /\ \A m : Found(t, m)' => Found(t, m)
           /\ \A m \in Mails \ {i.mail} : ~UnderWay(t, m)
           /\ \A k \in tick'[t].items : k.mail \in Mails \ {i.mail}
<1>1. i.mail \in Mails /\ \A k \in tick[t].items : k.mail \in Mails
  BY DEF OutreachTypeOK, MailTypes, Tick, Item
<1>2. UnderWay(t, i.mail) /\ \A m \in Mails \ {i.mail} : ~UnderWay(t, m)
  BY DEF UnderWay, Returned, Outcomes
<1>3. \A m : ~UnderWay(t, m)'
  BY DEF NextItem, Free, NoAttempt, UnderWay, OutreachTypeOK, MailTypes, Workers
<1>4. /\ tick'[t].items = tick[t].items \ {i}
      /\ tick'[t].stage \in {"idle", "loop"}
      /\ tick'[t].stage = "idle" => tick'[t].items = {}
  BY DEF NextItem, IdleTick, OutreachTypeOK, MailTypes
<1>5. \A k \in tick'[t].items : k.mail \in Mails \ {i.mail}
  BY <1>1, <1>4, ItemsDiffer
<1> QED BY <1>1, <1>2, <1>3, <1>4, <1>5 DEF Found

LEMMA CountRecords ==
    ASSUME NEW t \in Ticks, OutreachTypeOK, OutreachTypeOK', CountInv(t), TickRecords(t),
           UNCHANGED <<job, fired, faultVars>>
    PROVE  CountInv(t)'
<1>0. TickAgrees(t) /\ tick[t].stage = "loop" /\ Returned(t) /\ UNCHANGED tries
  BY DEF CountInv, TickRecords
<1>1. PICK i \in tick[t].items :
         /\ i.mail = attempt[t].mail
         /\ queue' = [queue EXCEPT ![i.mail] = After(i, attempt[t].stage)]
         /\ NextItem(t, i)
  BY DEF TickRecords
<1>2. /\ i.mail \in Mails
      /\ UnderWay(t, i.mail) /\ \A m : ~UnderWay(t, m)'
      /\ tick'[t].items = tick[t].items \ {i}
      /\ tick'[t].stage \in {"idle", "loop"}
      /\ tick'[t].stage = "idle" => tick'[t].items = {}
      /\ ~Found(t, i.mail)' /\ \A m : Found(t, m)' => Found(t, m)
      /\ \A m \in Mails \ {i.mail} : ~UnderWay(t, m)
      /\ \A k \in tick'[t].items : k.mail \in Mails \ {i.mail}
  BY <1>0, <1>1, NextItems
<1>3. /\ queue'[i.mail] = After(i, attempt[t].stage)
      /\ \A m \in Mails \ {i.mail} : queue'[m] = queue[m]
  BY <1>1, <1>2 DEF OutreachTypeOK, MailTypes
<1>4. PICK n \in Nat : n = queue[i.mail].attempts /\ i.attempts = n
  BY <1>0, <1>2, CountsAreNumbers DEF TickAgrees
<1>5. queue[i.mail].status \in {"PENDING", "PROCESSING"}
  BY <1>0, <1>1 DEF TickAgrees
<1>6. \/ queue'[i.mail].status = "SENT"
      \/ queue'[i.mail].status = "DEAD"
      \/ /\ queue'[i.mail].status = "WAITING" /\ queue'[i.mail].attempts = n + 1
         /\ n + 1 < MaxAttempts
  <2>1. MaxAttempts \in Nat  BY CountsAreNumbers
  <2> QED BY <1>3, <1>4, <2>1 DEF After
<1>7. RowsFired'
  <2>1. queue'[i.mail].status # "none"  BY <1>6
  <2> QED BY <1>0, <1>2, <1>3, <1>5, <2>1 DEF CountInv, RowsFired
<1>8. TickAgrees(t)'
  BY <1>0, <1>2, <1>3 DEF TickAgrees
<1>9. ASSUME NEW m \in Mails \ {i.mail} PROVE Told(t, m)'
  BY <1>0, <1>2, <1>3, ToldSame, CountsAreNumbers DEF CountInv, faultVars
<1>10. Told(t, i.mail)'
  <2>1. Told(t, i.mail)  BY <1>2 DEF CountInv
  <2>2. PICK c \in Nat, k \in Nat, b \in Nat :
           c = Cost /\ k = tries[i.mail] /\ b = MaxAttempts
    BY <1>2, CountsAreNumbers DEF Cost
  <2>3. n < b /\ 2 * (k - n) <= c + 2
    BY <1>2, <1>4, <1>5, <2>1, <2>2 DEF Told, Live, Untold
  <2>4. 2 * k <= 2 * b + c /\ 2 * (k - (n + 1)) <= c /\ 2 * (k - (n + 1)) <= c + 2
    BY <1>4, <2>2, <2>3
  <2>5. Cost' = c /\ tries'[i.mail] = k
    BY <1>0, <2>2 DEF Cost, faultVars
  <2>6. queue'[i.mail].status = "WAITING" => Untold(i.mail)' = 2 * (k - (n + 1))
    BY <1>6, <2>5 DEF Untold
  <2> QED BY <1>2, <1>6, <2>2, <2>4, <2>5, <2>6 DEF Told, Live
<1> QED BY <1>7, <1>8, <1>9, <1>10 DEF CountInv

LEMMA CountLoses ==
    ASSUME NEW t \in Ticks, OutreachTypeOK, OutreachTypeOK', CountInv(t), TickLosesRow(t),
           UNCHANGED <<job, fired>>
    PROVE  CountInv(t)'
<1>0. /\ TickAgrees(t) /\ tick[t].stage = "loop" /\ Returned(t) /\ UNCHANGED <<queue, tries>>
      /\ crashes' = crashes /\ dbFaults' = dbFaults + 1
  BY DEF CountInv, TickLosesRow
<1>1. PICK i \in tick[t].items : i.mail = attempt[t].mail /\ NextItem(t, i)
  BY DEF TickLosesRow
<1>2. /\ i.mail \in Mails
      /\ UnderWay(t, i.mail) /\ \A m : ~UnderWay(t, m)'
      /\ tick'[t].items = tick[t].items \ {i}
      /\ tick'[t].stage \in {"idle", "loop"}
      /\ tick'[t].stage = "idle" => tick'[t].items = {}
      /\ ~Found(t, i.mail)' /\ \A m : Found(t, m)' => Found(t, m)
      /\ \A m \in Mails \ {i.mail} : ~UnderWay(t, m)
      /\ \A k \in tick'[t].items : k.mail \in Mails \ {i.mail}
  BY <1>0, <1>1, NextItems
<1>3. queue[i.mail].status \in {"PENDING", "PROCESSING"}
  BY <1>0, <1>1 DEF TickAgrees
<1>4. RowsFired'  BY <1>0 DEF CountInv, RowsFired
<1>5. TickAgrees(t)'  BY <1>0, <1>2 DEF TickAgrees
<1>6. crashes <= crashes' /\ dbFaults <= dbFaults'  BY <1>0, CountsAreNumbers
<1>7. ASSUME NEW m \in Mails \ {i.mail} PROVE Told(t, m)'
  BY <1>0, <1>2, <1>6, ToldSame DEF CountInv
<1>8. Told(t, i.mail)'
  <2>1. Told(t, i.mail)  BY <1>2 DEF CountInv
  <2>2. PICK u \in Int, c \in Nat : u = Untold(i.mail) /\ c = Cost
    BY <1>2, CountsAreNumbers DEF Untold, Cost
  <2>3. Cost' = c + 1 /\ Untold(i.mail)' = u  BY <1>0, <2>2, CostOfFaults DEF Untold
  <2>4. /\ queue[i.mail].attempts < MaxAttempts /\ u <= c + 2
        /\ queue[i.mail].status = "PENDING" => u <= c + 1
    BY <1>0, <1>1, <1>2, <1>3, <2>1, <2>2 DEF Told, Live, Found
  <2>5. u <= c + 2 => u <= (c + 1) + 2  BY <2>2
  <2> QED BY <1>0, <1>2, <1>3, <2>3, <2>4, <2>5 DEF Told
<1> QED BY <1>4, <1>5, <1>7, <1>8 DEF CountInv

LEMMA CountCrash ==
    ASSUME NEW t \in Ticks, OutreachTypeOK, OutreachTypeOK', CountInv(t), Crash
    PROVE  CountInv(t)'
<1>1. /\ tick'[t] = IdleTick /\ attempt'[t] = NoAttempt
      /\ UNCHANGED <<tries, fired>> /\ \A j \in Jobs : job'[j] = IdleJob
  BY DEF Crash, MailCrash, Workers
<1>2. ASSUME NEW m \in Mails
      PROVE  /\ queue'[m].attempts = queue[m].attempts
             /\ queue'[m].status = IF queue[m].status = "PROCESSING" THEN "PENDING"
                                   ELSE queue[m].status
  <2>1. queue'[m] = IF queue[m].status = "PROCESSING"
                    THEN [queue[m] EXCEPT !.status = "PENDING"] ELSE queue[m]
    BY DEF Crash, MailCrash, Reset
  <2>2. queue[m] \in Row  BY DEF OutreachTypeOK, MailTypes
  <2> QED BY <2>1, <2>2 DEF Row
<1>3. RowsFired'
  BY <1>1, <1>2 DEF CountInv, RowsFired, IdleJob
<1>4. TickAgrees(t)'  BY <1>1 DEF TickAgrees, IdleTick
<1>5. ASSUME NEW m \in Mails PROVE Told(t, m)'
  <2>1. Told(t, m)  BY DEF CountInv
  <2>2. ~Found(t, m)' /\ ~UnderWay(t, m)'
    BY <1>1 DEF Found, UnderWay, IdleTick, NoAttempt
  <2>3. PICK u \in Int, c \in Nat : u = Untold(m) /\ c = Cost
    BY CountsAreNumbers DEF Untold, Cost
  <2>4. Cost' = c + 2 /\ Untold(m)' = u
    BY <1>1, <1>2, <2>3, CostOfCrash DEF Crash, MailCrash, Untold
  <2>5. /\ u <= c + 2 => u <= (c + 2) + 2
        /\ 2 * tries[m] <= 2 * MaxAttempts + c => 2 * tries[m] <= 2 * MaxAttempts + (c + 2)
    BY <2>3, CountsAreNumbers
  <2>6. queue[m].status \in Live => queue[m].attempts < MaxAttempts /\ u <= c + 2
    BY <2>1, <2>3 DEF Told
  <2>7. u <= c => u <= c + 2  BY <2>3
  <2> QED BY <1>1, <1>2, <2>1, <2>2, <2>3, <2>4, <2>5, <2>6, <2>7 DEF Told, Live
<1> QED BY <1>3, <1>4, <1>5 DEF CountInv

\* The step job dispatches the mail of its step, ...
LEMMA CountFires ==
    ASSUME NEW t \in Ticks, OutreachTypeOK, OutreachTypeOK', StepsInv, CountInv(t),
           NEW j \in Jobs, JobFiresEmail(j), UNCHANGED faultVars
    PROVE  CountInv(t)'
<1>0. /\ job[j].stage = "claimed" /\ job[j].cur \in Mails /\ UNCHANGED <<queue, tick>>
      /\ j # t /\ t \in Workers /\ j \in Workers
  BY EmailAssumption DEF JobFiresEmail, Jobs, Workers
<1>a. crashes <= crashes' /\ dbFaults <= dbFaults'  BY CountsAreNumbers DEF faultVars
<1>1. CASE At(j, "failing") /\ UNCHANGED <<attempt, tries, fired>>
  <2>1. \A k \in Jobs : job'[k].stage = "mailing" =>
                           job[k].stage = "mailing" /\ job'[k].cur = job[k].cur
    BY <1>1 DEF At, OutreachTypeOK, Job
  <2>2. \A m \in Mails : UnderWay(t, m)' <=> UnderWay(t, m)  BY <1>1 DEF UnderWay
  <2>3. \A e \in Executions : fired[e] <= fired'[e]  BY <1>1, CountsAreNumbers
  <2> QED BY <1>0, <1>a, <1>1, <2>1, <2>2, <2>3, CountSame
<1>2. CASE /\ Dispatch(j, job[j].cur) /\ At(j, "mailing")
           /\ fired' = [fired EXCEPT ![job[j].cur] = @ + 1]
  <2>1. PICK n \in Mails : n = job[j].cur  BY <1>0
  <2>2. /\ tries'[n] = tries[n] + 1 /\ \A m \in Mails \ {n} : tries'[m] = tries[m]
        /\ attempt'[t] = attempt[t]
    BY <1>0, <1>2, <2>1 DEF Dispatch, OutreachTypeOK, MailTypes
  <2>3. n \in Executions  BY PlanAssumption
  <2>4. /\ fired[n] = 0 /\ fired'[n] = 1
        /\ \A m \in Mails \ {n} : fired'[m] = fired[m]
    <3>1. fired[n] = 0  BY <1>0, <2>1 DEF StepsInv
    <3>2. \A m \in Mails : m \in Executions  BY PlanAssumption
    <3> QED BY <1>2, <2>1, <2>3, <3>1, <3>2 DEF OutreachTypeOK
  <2>5. queue[n].status = "none" /\ tries[n] = 0
    <3>1. queue[n].status = "none"  BY <2>4 DEF CountInv, RowsFired
    <3>2. tries[n] <= 0  BY <2>4, <3>1 DEF CountInv, RowsFired
    <3> QED BY <3>1, <3>2, CountsAreNumbers
  <2>6. /\ job'[j].cur = n /\ \A k \in Jobs : job'[k].cur = job[k].cur
        /\ \A k \in Jobs \ {j} : job'[k] = job[k]
    BY <1>2, <2>1 DEF At, OutreachTypeOK, Job
  <2>7. RowsFired'
    <3>1. \A m \in Mails : queue[m].status = "none" => tries'[m] <= fired'[m]
      BY <2>2, <2>4, <2>5 DEF CountInv, RowsFired
    <3>2. \A m \in Mails : queue[m].status # "none" => fired'[m] > 0
      BY <2>4, <2>5 DEF CountInv, RowsFired
    <3>3. ASSUME NEW k \in Jobs, job'[k].stage = "mailing"
          PROVE  job'[k].cur \in Mails /\ queue[job'[k].cur].status = "none" /\ fired'[job'[k].cur] > 0
      <4>1. CASE k = j  BY <2>4, <2>5, <2>6, <4>1
      <4>2. CASE k # j
        <5>1. job[k].stage = "mailing" /\ job[k].cur = job'[k].cur /\ job'[k].cur # n
          BY <1>0, <2>1, <2>3, <2>6, <3>3, <4>2, PlanAssumption DEF StepsInv
        <5> QED BY <2>4, <3>3, <5>1 DEF CountInv, RowsFired
      <4> QED BY <4>1, <4>2
    <3> QED BY <1>0, <3>1, <3>2, <3>3 DEF RowsFired
  <2>8. TickAgrees(t)'  BY <1>0 DEF CountInv, TickAgrees
  <2>9. ASSUME NEW m \in Mails PROVE Told(t, m)'
    <3>1. CASE m = n  BY <1>0, <2>5, <3>1 DEF Told, Live
    <3>2. CASE m # n
      BY <1>0, <1>a, <2>2, <3>2, ToldSame DEF CountInv, Found, UnderWay
    <3> QED BY <3>1, <3>2
  <2> QED BY <2>7, <2>8, <2>9 DEF CountInv
<1> QED BY <1>1, <1>2 DEF JobFiresEmail

\* ... and queues it when it was refused.
LEMMA CountMailed ==
    ASSUME NEW t \in Ticks, OutreachTypeOK, OutreachTypeOK', StepsInv, MailInv, CountInv(t),
           NEW j \in Jobs, JobMailed(j), UNCHANGED faultVars
    PROVE  CountInv(t)'
<1>0. /\ job[j].stage = "mailing" /\ UNCHANGED <<tick, tries, fired>>
      /\ j # t /\ t \in Workers /\ j \in Workers
      /\ job[j].cur \in Executions
  BY EmailAssumption DEF JobMailed, Jobs, Workers, OutreachTypeOK
<1>a. crashes <= crashes' /\ dbFaults <= dbFaults'  BY CountsAreNumbers DEF faultVars
<1>1. attempt'[t] = attempt[t]  BY <1>0 DEF JobMailed, Free
<1>2. /\ job'[j].stage # "mailing" /\ \A k \in Jobs \ {j} : job'[k] = job[k]
  BY DEF JobMailed, At, OutreachTypeOK, Job
<1>3. CASE queue' = queue
  <2>1. \A k \in Jobs : job'[k].stage = "mailing" =>
                           job[k].stage = "mailing" /\ job'[k].cur = job[k].cur
    BY <1>2
  <2>2. \A m \in Mails : UnderWay(t, m)' <=> UnderWay(t, m)  BY <1>1 DEF UnderWay
  <2>3. \A e \in Executions : fired[e] <= fired'[e]  BY <1>0, CountsAreNumbers
  <2> QED BY <1>0, <1>a, <1>3, <2>1, <2>2, <2>3, CountSame
<1>4. CASE queue' = [queue EXCEPT ![attempt[j].mail] = [status |-> "WAITING", attempts |-> 1]]
           /\ job[j].cur \in Mails
  <2>1. PICK n \in Mails : n = job[j].cur /\ attempt[j].mail = n
    BY <1>0, <1>4 DEF MailInv
  <2>2. /\ queue'[n].status = "WAITING" /\ queue'[n].attempts = 1
        /\ \A m \in Mails \ {n} : queue'[m] = queue[m]
    BY <1>4, <2>1 DEF OutreachTypeOK, MailTypes
  <2>3. n \in Executions  BY PlanAssumption
  <2>4. queue[n].status = "none" /\ fired[n] > 0 /\ tries[n] <= fired[n] /\ fired[n] <= 1
    BY <1>0, <1>4, <2>1, <2>3 DEF CountInv, RowsFired, StepsInv, FiresOnce
  <2>5. \A k \in Jobs \ {j} : job[k].cur # n
    BY <2>1, <2>3, PlanAssumption DEF StepsInv
  <2>6. RowsFired'
    BY <1>0, <1>2, <2>2, <2>4, <2>5 DEF CountInv, RowsFired
  <2>7. TickAgrees(t)'
    <3>1. \A i \in tick[t].items : i.mail \in Mails
      BY DEF OutreachTypeOK, MailTypes, Tick, Item
    <3>2. \A i \in tick[t].items : queue[i.mail].status # "none"
      BY DEF CountInv, TickAgrees
    <3>3. \A i \in tick[t].items : i.mail \in Mails \ {n}  BY <2>4, <3>1, <3>2
    <3> QED BY <1>0, <2>2, <3>3 DEF CountInv, TickAgrees
  <2>8. ASSUME NEW m \in Mails PROVE Told(t, m)'
    <3>1. CASE m = n
      <4>1. PICK k \in Nat, c \in Nat : k = tries[n] /\ c = Cost
        BY CountsAreNumbers DEF Cost
      <4>2. k <= 1 /\ 1 < MaxAttempts  BY <2>4, <2>3, <4>1, CountsAreNumbers
      <4>3. 2 * (k - 1) <= c /\ 2 * (k - 1) <= c + 2  BY <4>1, <4>2
      <4>4. Cost' = c /\ Untold(n)' = 2 * (k - 1)
        BY <1>0, <2>2, <4>1 DEF Cost, faultVars, Untold
      <4> QED BY <2>2, <3>1, <4>2, <4>3, <4>4 DEF Told, Live
    <3>2. CASE m # n
      BY <1>0, <1>a, <1>1, <2>2, <3>2, ToldSame DEF CountInv, Found, UnderWay
    <3> QED BY <3>1, <3>2
  <2> QED BY <2>6, <2>7, <2>8 DEF CountInv
<1>5. job[j].cur \in Mails
  BY <1>0 DEF CountInv, RowsFired
<1> QED BY <1>3, <1>4, <1>5 DEF JobMailed, Enqueued

\* All other steps leave rows and attempts alone.
LEMMA CountJobs ==
    ASSUME NEW t \in Ticks, OutreachTypeOK, OutreachTypeOK', StepsInv, MailInv, CountInv(t),
           NEW j \in Jobs, JobStep(j), UNCHANGED faultVars
    PROVE  CountInv(t)'
<1>a. crashes <= crashes' /\ dbFaults <= dbFaults'  BY CountsAreNumbers DEF faultVars
<1>1. ASSUME UNCHANGED mailVars, job'[j].stage # "mailing", \A k \in Jobs \ {j} : job'[k] = job[k],
             \A e \in Executions : fired[e] <= fired'[e]
      PROVE  CountInv(t)'
  <2>1. queue' = queue /\ tick' = tick /\ tries' = tries /\ attempt' = attempt
    BY <1>1 DEF mailVars
  <2>2. \A m \in Mails : UnderWay(t, m)' <=> UnderWay(t, m)  BY <2>1 DEF UnderWay
  <2>3. \A k \in Jobs : job'[k].stage = "mailing" =>
                           job[k].stage = "mailing" /\ job'[k].cur = job[k].cur
    BY <1>1
  <2> QED BY <1>a, <1>1, <2>1, <2>2, <2>3, CountSame
<1>b. UNCHANGED fired => \A e \in Executions : fired[e] <= fired'[e]
  BY CountsAreNumbers
<1>2. CASE JobFetches(j)
  BY <1>1, <1>2, <1>b DEF JobFetches, OutreachTypeOK
<1>3. ASSUME NEW rest, Loop(j, rest)
      PROVE  job'[j].stage # "mailing" /\ \A k \in Jobs \ {j} : job'[k] = job[k]
  BY <1>3 DEF Loop, IdleJob, OutreachTypeOK
<1>4. ASSUME NEW s, s # "mailing", At(j, s)
      PROVE  job'[j].stage # "mailing" /\ \A k \in Jobs \ {j} : job'[k] = job[k]
  BY <1>4 DEF At, OutreachTypeOK, Job
<1>5. ASSUME NEW e \in Executions, JobClaims(j, e) PROVE CountInv(t)'
  <2>1. job'[j].stage # "mailing" /\ \A k \in Jobs \ {j} : job'[k] = job[k]
    <3>1. CASE Hold(j, e)  BY <3>1 DEF Hold, OutreachTypeOK
    <3> QED BY <1>3, <1>5, <3>1 DEF JobClaims
  <2> QED BY <1>1, <1>5, <1>b, <2>1 DEF JobClaims
<1>6. ASSUME NEW s, NEW o, Final(j, s, o),
             o = EndOf(j) \/ o = [job EXCEPT ![j].stage = "failing"]
      PROVE  job'[j].stage # "mailing" /\ \A k \in Jobs \ {j} : job'[k] = job[k]
  <2>1. CASE job' = EndOf(j)  BY <2>1 DEF EndOf, IdleJob, OutreachTypeOK
  <2>2. CASE job' = [job EXCEPT ![j].stage = "failing"]  BY <1>4, <2>2 DEF At
  <2> QED BY <1>3, <1>6, <2>1, <2>2 DEF Final
<1>7. CASE JobSkips(j)  BY <1>1, <1>6, <1>7, <1>b DEF JobSkips
<1>8. CASE JobRecords(j)  BY <1>1, <1>6, <1>8, <1>b DEF JobRecords
<1>9. CASE JobFails(j)  BY <1>1, <1>6, <1>9, <1>b DEF JobFails
<1>10. CASE JobFiresOther(j)
  <2>1. \A e \in Executions : fired[e] <= fired'[e]
    BY <1>10, <1>b, CountsAreNumbers DEF JobFiresOther, OutreachTypeOK
  <2> QED BY <1>1, <1>4, <1>10, <2>1 DEF JobFiresOther
<1> QED BY <1>2, <1>5, <1>7, <1>8, <1>9, <1>10, CountFires, CountMailed DEF JobStep

LEMMA StepCount ==
    ASSUME NEW t, Ticks = {t}, OutreachTypeOK, OutreachTypeOK', StepsInv, MailInv, CountInv(t),
           [OutreachNext]_outreachVars
    PROVE  CountInv(t)'
<1>0. t \in Ticks  OBVIOUS
<1>1. ASSUME queue' = queue, tick' = tick, tries' = tries, UNCHANGED fired,
             \A m \in Mails : UnderWay(t, m)' <=> UnderWay(t, m),
             crashes <= crashes' /\ dbFaults <= dbFaults',
             \A j \in Jobs : job'[j] = job[j] \/ job'[j].stage # "mailing"
      PROVE  CountInv(t)'
  BY <1>1, CountSame, CountsAreNumbers
<1>a. UNCHANGED faultVars => crashes <= crashes' /\ dbFaults <= dbFaults'
  BY CountsAreNumbers DEF faultVars
<1>b. UNCHANGED attempt => \A m \in Mails : UnderWay(t, m)' <=> UnderWay(t, m)
  BY DEF UnderWay
<1>2. CASE Requests /\ UNCHANGED faultVars
  <2>1. UNCHANGED <<mailVars, job, fired>>
    BY <1>2 DEF Requests, AssignChecks, AssignWrites, Unassign, MoveToDnc, EditPlan, DeletePlan
  <2> QED BY <1>1, <1>2, <1>a, <1>b, <2>1 DEF mailVars
<1>3. ASSUME NEW j \in Jobs, JobStep(j), UNCHANGED faultVars PROVE CountInv(t)'
  BY <1>0, <1>3, CountJobs
<1>4. ASSUME NEW e \in Executions, StepDue(e), UNCHANGED faultVars PROVE CountInv(t)'
  BY <1>1, <1>4, <1>a, <1>b DEF StepDue, mailVars
<1>5. ASSUME NEW j \in Jobs, JobLosesRow(j) PROVE CountInv(t)'
  <2>1. \A k \in Jobs : job'[k] = job[k] \/ job'[k].stage # "mailing"
    BY <1>5 DEF JobLosesRow, EndOf, IdleJob, OutreachTypeOK
  <2>2. crashes <= crashes' /\ dbFaults <= dbFaults'
    BY <1>5, CountsAreNumbers DEF JobLosesRow
  <2> QED BY <1>1, <1>5, <1>b, <2>1, <2>2 DEF JobLosesRow, mailVars
<1>6. CASE MailNext /\ UNCHANGED <<planVars, job, fired>>
  <2>1. ASSUME NEW w \in Workers, Gate(w) \/ HandOff(w), UNCHANGED faultVars PROVE CountInv(t)'
    <3>1. UNCHANGED <<queue, tick, tries>>  BY <2>1 DEF Gate, HandOff
    <3>2. /\ attempt'[t].mail = attempt[t].mail
          /\ attempt'[t].stage # "none" <=> attempt[t].stage # "none"
      <4>1. t \in Workers /\ attempt \in [Workers -> Attempt]
        BY <1>0 DEF Workers, OutreachTypeOK, MailTypes
      <4>2. attempt[w].stage # "none" /\ \E s \in {"suppressed", "handoff", "accepted", "refused"} :
               attempt' = [attempt EXCEPT ![w].stage = s]
        BY <2>1 DEF Gate, HandOff
      <4> QED BY <2>1, <4>1, <4>2 DEF Attempt
    <3>3. \A m \in Mails : UnderWay(t, m)' <=> UnderWay(t, m)  BY <3>2 DEF UnderWay
    <3> QED BY <1>1, <1>6, <1>a, <2>1, <3>1, <3>3
  <2>2. ASSUME NEW m \in Mails, RetryDue(m), UNCHANGED faultVars PROVE CountInv(t)'
    BY <1>0, <1>6, <2>2, CountDue
  <2>3. ASSUME NEW r \in Recipients, Suppress(r), UNCHANGED faultVars PROVE CountInv(t)'
    BY <1>1, <1>6, <1>a, <1>b, <2>3 DEF Suppress
  <2>4. CASE TickStep(t) /\ UNCHANGED faultVars
    BY <1>0, <1>6, <2>4, CountFetches, CountClaims, CountDispatches, CountRecords DEF TickStep
  <2>5. CASE TickClaimFails(t) \/ TickLosesRow(t)
    BY <1>0, <1>6, <2>5, CountClaimFails, CountLoses
  <2> QED BY <1>6, <2>1, <2>2, <2>3, <2>4, <2>5 DEF MailNext
<1>7. CASE Crash  BY <1>0, <1>7, CountCrash
<1>8. CASE UNCHANGED outreachVars
  BY <1>1, <1>8, <1>a, <1>b DEF outreachVars, mailVars
<1> QED BY <1>2, <1>3, <1>4, <1>5, <1>6, <1>7, <1>8 DEF OutreachNext

\* Where the ticks of the retry job do not overlap, a mail is tried at most
\* MaxAttempts times, and once more for each death of the process or pair of
\* failed updates (emailQueue.job.ts and the first dispatch in sendEmail).
THEOREM MailAttemptsBounded ==
    ASSUME NEW t, Ticks = {t} PROVE OutreachSpec => []AttemptsBounded
<1>1. OutreachInit => CountInv(t)
  <2> SUFFICES ASSUME OutreachInit PROVE CountInv(t)  OBVIOUS
  <2>1. RowsFired  BY PlanAssumption DEF OutreachInit, MailInit, RowsFired, IdleJob
  <2>2. TickAgrees(t)  BY DEF OutreachInit, MailInit, TickAgrees, IdleTick
  <2>3. \A m \in Mails : Told(t, m)  BY DEF OutreachInit, MailInit, Told, Live
  <2> QED BY <2>1, <2>2, <2>3 DEF CountInv
<1>2. OutreachTypeOK /\ StepsInv /\ CountInv(t) => AttemptsBounded
  <2> SUFFICES ASSUME OutreachTypeOK, StepsInv, CountInv(t), NEW m \in Mails
               PROVE  tries[m] <= MaxAttempts + crashes + (dbFaults \div 2)
    BY DEF AttemptsBounded
  <2>1. PICK k \in Nat, b \in Nat, a \in Nat, c \in Nat, d \in Nat :
           /\ k = tries[m] /\ b = MaxAttempts /\ a = queue[m].attempts
           /\ c = crashes /\ d = dbFaults /\ b >= 2
    BY CountsAreNumbers
  <2>2. 2 * k <= 2 * b + (2 * c + d) => k <= b + c + (d \div 2)  BY <2>1
  <2>3. CASE queue[m].status = "none"
    <3>1. m \in Executions  BY PlanAssumption
    <3>2. k <= 1  BY <2>1, <2>3, <3>1, CountsAreNumbers DEF CountInv, RowsFired, StepsInv, FiresOnce
    <3> QED BY <2>1, <2>2, <3>2
  <2>4. CASE queue[m].status \in Live
    <3>1. a < b /\ 2 * (k - a) <= 2 * c + d + 2
      BY <2>1, <2>4 DEF CountInv, Told, Untold, Cost
    <3> QED BY <2>1, <2>2, <3>1
  <2>5. CASE queue[m].status \in {"SENT", "DEAD"}
    BY <2>1, <2>2, <2>5 DEF CountInv, Told, Cost
  <2> QED BY <2>3, <2>4, <2>5 DEF OutreachTypeOK, MailTypes, Row
<1>3. Inv /\ MailInv /\ CountInv(t) /\ [OutreachNext]_outreachVars
      => (Inv /\ MailInv /\ CountInv(t))'
  BY StepInv, StepMail, StepTypes, StepCount DEF Inv
<1>4. Inv /\ MailInv /\ CountInv(t) => AttemptsBounded  BY <1>2 DEF Inv
<1> QED BY <1>1, InitMail, InitInv, <1>3, <1>4, PTL DEF OutreachSpec

=============================================================================
