---------------------------- MODULE EmailDelivery ----------------------------
(***************************************************************************)
(* Sending one template e-mail (dispatchEmail and sendEmail of              *)
(* src/services/email.service.ts), the table of mails that wait for a retry *)
(* (EmailQueue), the cron job that retries them (jobs/emailQueue.job.ts)    *)
(* and the suppression list.  Every mail of this model carries the          *)
(* unsubscribe footer, as template e-mails do, so that every reason to be   *)
(* suppressed stops it.  Which transport takes the mail (the tenant's SMTP  *)
(* server, MailerSend, or the second after the first has failed) is left    *)
(* out: the mail is accepted or refused.                                    *)
(*                                                                         *)
(* A worker is an asynchronous function that is sending mails: a tick of    *)
(* the retry job, or a caller of sendEmail.                                 *)
(***************************************************************************)
EXTENDS Integers, FiniteSets

CONSTANTS
    Mails,         \* one per mail that may be sent
    Recipients,    \* the addresses
    RecipientOf,   \* whom a mail is for
    None,          \* no mail
    Ticks,         \* ticks of the retry job that may overlap
    Callers,       \* callers of sendEmail
    MaxAttempts,   \* maxAttempts of a queued mail (3 in the code)
    MaxFaults      \* bound: restarts of the process, and final updates that throw

ASSUME EmailAssumption ==
    /\ RecipientOf \in [Mails -> Recipients]
    /\ None \notin Mails
    /\ Ticks \cap Callers = {}
    /\ MaxAttempts \in Nat \ {0, 1}
    /\ MaxFaults \in Nat

VARIABLES
    queue,       \* the EmailQueue row of each mail
    attempt,     \* the dispatchEmail call each worker is in
    tick,        \* the local variables of each tick of the retry job
    suppressed,  \* addresses on the suppression list
    tries, accepted,      \* history: dispatches of a mail, transports that took it
    crashes, dbFaults     \* history

mailVars == <<queue, attempt, tick, suppressed, tries, accepted>>
faultVars == <<crashes, dbFaults>>

-----------------------------------------------------------------------------

Workers == Ticks \cup Callers

\* WAITING and PENDING are both PENDING in the database: nextRetryAt is still to
\* come, or has passed.
Live == {"WAITING", "PENDING", "PROCESSING"}
Row == [status : {"none", "SENT", "DEAD"} \cup Live, attempts : Nat]

Outcomes == {"accepted", "refused", "suppressed"}
Attempt == [mail : Mails \cup {None}, stage : {"none", "gate", "handoff"} \cup Outcomes]
NoAttempt == [mail |-> None, stage |-> "none"]

Item == [mail : Mails, attempts : Nat]
Tick == [stage : {"idle", "claiming", "loop"}, items : SUBSET Item]
IdleTick == [stage |-> "idle", items |-> {}]

MailTypes ==
    /\ queue \in [Mails -> Row]
    /\ attempt \in [Workers -> Attempt]
    /\ \A w \in Workers : attempt[w].stage # "none" => attempt[w].mail \in Mails
    /\ tick \in [Ticks -> Tick]
    /\ suppressed \in SUBSET Recipients
    /\ tries \in [Mails -> Nat] /\ accepted \in [Mails -> Nat]
    /\ crashes \in 0 .. MaxFaults /\ dbFaults \in 0 .. MaxFaults

MailInit ==
    /\ queue = [m \in Mails |-> [status |-> "none", attempts |-> 0]]
    /\ attempt = [w \in Workers |-> NoAttempt]
    /\ tick = [t \in Ticks |-> IdleTick]
    /\ suppressed = {}
    /\ tries = [m \in Mails |-> 0] /\ accepted = [m \in Mails |-> 0]
    /\ crashes = 0 /\ dbFaults = 0

-----------------------------------------------------------------------------
(* dispatchEmail *)

\* dispatchEmail(m) is called and awaits the suppression list.
Dispatch(w, m) ==
    /\ attempt' = [attempt EXCEPT ![w] = [mail |-> m, stage |-> "gate"]]
    /\ tries' = [tries EXCEPT ![m] = @ + 1]

\* Mutant: a retry trusts the check made when the mail was first sent.
GateOnce(w) ==
    /\ attempt[w].stage = "gate"
    /\ attempt' = [attempt EXCEPT ![w].stage =
                      IF w \in Callers /\ RecipientOf[attempt[w].mail] \in suppressed
                      THEN "suppressed" ELSE "handoff"]
    /\ UNCHANGED <<queue, tick, suppressed, tries, accepted>>

\* The suppression gate.
Gate(w) ==
    /\ attempt[w].stage = "gate"
    /\ attempt' = [attempt EXCEPT ![w].stage =
                      IF RecipientOf[attempt[w].mail] \in suppressed
                      THEN "suppressed" ELSE "handoff"]
    /\ UNCHANGED <<queue, tick, suppressed, tries, accepted>>

\* The transport takes the mail or refuses it.
HandOff(w) ==
    /\ attempt[w].stage = "handoff"
    /\ \/ /\ attempt' = [attempt EXCEPT ![w].stage = "accepted"]
          /\ accepted' = [accepted EXCEPT ![attempt[w].mail] = @ + 1]
       \/ /\ attempt' = [attempt EXCEPT ![w].stage = "refused"]
          /\ UNCHANGED accepted
    /\ UNCHANGED <<queue, tick, suppressed, tries>>

\* dispatchEmail has returned to w.
Returned(w) == attempt[w].stage \in Outcomes
Free(w) == attempt' = [attempt EXCEPT ![w] = NoAttempt]

\* What sendEmail does next: a refused mail is queued, a suppressed one is not.
Enqueued(w) ==
    IF attempt[w].stage = "refused"
    THEN [queue EXCEPT ![attempt[w].mail] = [status |-> "WAITING", attempts |-> 1]]
    ELSE queue

-----------------------------------------------------------------------------
(* The retry job. *)

\* nextRetryAt passes.
RetryDue(m) ==
    /\ queue[m].status = "WAITING"
    /\ queue' = [queue EXCEPT ![m].status = "PENDING"]
    /\ UNCHANGED <<attempt, tick, suppressed, tries, accepted>>

Claimed(items) ==
    [m \in Mails |-> IF \E i \in items : i.mail = m
                     THEN [queue[m] EXCEPT !.status = "PROCESSING"] ELSE queue[m]]

\* A tick finds the due mails ...
TickFetches(t) ==
    LET due == {m \in Mails : queue[m].status = "PENDING"}
        found == {[mail |-> m, attempts |-> queue[m].attempts] : m \in due}
    IN  /\ tick[t].stage = "idle" /\ due # {}
        /\ tick' = [tick EXCEPT ![t] = [stage |-> "claiming", items |-> found]]
        /\ UNCHANGED <<queue, attempt, suppressed, tries, accepted>>

\* ... and marks them, whatever has become of them ...
TickClaims(t) ==
    /\ tick[t].stage = "claiming"
    /\ tick' = [tick EXCEPT ![t].stage = "loop"]
    /\ queue' = Claimed(tick[t].items)
    /\ UNCHANGED <<attempt, suppressed, tries, accepted>>

\* ... or fails to, and goes on all the same.
TickClaimFails(t) ==
    /\ tick[t].stage = "claiming" /\ crashes + dbFaults < MaxFaults
    /\ tick' = [tick EXCEPT ![t].stage = "loop"]
    /\ dbFaults' = dbFaults + 1
    /\ UNCHANGED <<queue, attempt, suppressed, tries, accepted, crashes>>

TickDispatches(t) ==
    /\ tick[t].stage = "loop" /\ attempt[t] = NoAttempt
    /\ \E i \in tick[t].items : Dispatch(t, i.mail)
    /\ UNCHANGED <<queue, tick, suppressed, accepted>>

\* The item is done with; the tick ends with its last one.
NextItem(t, i) ==
    LET rest == tick[t].items \ {i}
    IN  /\ Free(t)
        /\ tick' = [tick EXCEPT ![t] = IF rest = {} THEN IdleTick
                                       ELSE [stage |-> "loop", items |-> rest]]

\* Mutant: one retry too many.
AfterOneMore(i, outcome) ==
    IF outcome = "accepted" THEN [status |-> "SENT", attempts |-> i.attempts]
    ELSE IF outcome = "suppressed" \/ i.attempts + 1 > MaxAttempts
    THEN [status |-> "DEAD", attempts |-> i.attempts + 1]
    ELSE [status |-> "WAITING", attempts |-> i.attempts + 1]

\* The row after an attempt: delivered, given up, or to be retried.
After(i, outcome) ==
    IF outcome = "accepted" THEN [status |-> "SENT", attempts |-> i.attempts]
    ELSE IF outcome = "suppressed" \/ i.attempts + 1 >= MaxAttempts
    THEN [status |-> "DEAD", attempts |-> i.attempts + 1]
    ELSE [status |-> "WAITING", attempts |-> i.attempts + 1]

TickRecords(t) ==
    /\ tick[t].stage = "loop" /\ Returned(t)
    /\ \E i \in tick[t].items :
          /\ i.mail = attempt[t].mail
          /\ queue' = [queue EXCEPT ![i.mail] = After(i, attempt[t].stage)]
          /\ NextItem(t, i)
    /\ UNCHANGED <<suppressed, tries, accepted>>

TickStep(t) == TickFetches(t) \/ TickClaims(t) \/ TickDispatches(t) \/ TickRecords(t)

\* The update throws: the row stays PROCESSING until the process restarts.
TickLosesRow(t) ==
    /\ tick[t].stage = "loop" /\ Returned(t) /\ crashes + dbFaults < MaxFaults
    /\ \E i \in tick[t].items : i.mail = attempt[t].mail /\ NextItem(t, i)
    /\ dbFaults' = dbFaults + 1
    /\ UNCHANGED <<queue, suppressed, tries, accepted, crashes>>

\* Mutant: the startup does not look for rows a dead process has left.
NotReset == queue

\* The startup hands the rows of a dead process to the next tick.
Reset ==
    [m \in Mails |-> IF queue[m].status = "PROCESSING"
                     THEN [queue[m] EXCEPT !.status = "PENDING"] ELSE queue[m]]

\* The process dies and restarts: the functions under way are gone.
MailCrash ==
    /\ crashes + dbFaults < MaxFaults
    /\ crashes' = crashes + 1
    /\ attempt' = [w \in Workers |-> NoAttempt]
    /\ tick' = [t \in Ticks |-> IdleTick]
    /\ queue' = Reset
    /\ UNCHANGED <<suppressed, tries, accepted, dbFaults>>

\* A bounce, a complaint or an unsubscription; nothing removes an address.
Suppress(r) ==
    /\ r \notin suppressed
    /\ suppressed' = suppressed \cup {r}
    /\ UNCHANGED <<queue, attempt, tick, tries, accepted>>

\* Everything but the crash, which takes the callers down as well.
MailNext ==
    \/ /\ \/ \E w \in Workers : Gate(w) \/ HandOff(w)
          \/ \E m \in Mails : RetryDue(m)
          \/ \E t \in Ticks : TickStep(t)
          \/ \E r \in Recipients : Suppress(r)
       /\ UNCHANGED faultVars
    \/ \E t \in Ticks : TickClaimFails(t) \/ TickLosesRow(t)
=============================================================================
