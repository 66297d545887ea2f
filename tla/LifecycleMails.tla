---------------------------- MODULE LifecycleMails ----------------------------
(***************************************************************************)
(* The mails of the daily job src/jobs/userLifecycle.job.ts: to who stays    *)
(* away, who has not subscribed, who has cancelled, whose trial ends and     *)
(* whose card expires.  Each is sent in a window of one day, and only that   *)
(* of the card looks up whether it was sent before.                         *)
(*                                                                         *)
(* The clock counts days at the job's hour: what happens until the next run  *)
(* bears the number of the last.  A run selects the rows of a mail, writes   *)
(* to them one by one, and goes on to the next mail.  The mails themselves   *)
(* are those of EmailDelivery.                                              *)
(***************************************************************************)
EXTENDS Integers, Sequences

CONSTANTS
    People,           \* admins and agents
    AgentsOf,         \* those who are agents
    AwayFor,          \* days since the last sign-in
    UnsubscribedFor,  \* days since the account was made
    CancelledFor,     \* days since the subscription's row was written
    TrialDays,        \* TRIAL_PERIOD_DAYS
    Advance,          \* TRIAL_ENDING_SOON_EMAIL_ADVANCE_DAYS
    CardFrom, CardUntil,  \* the month before that in which the card expires
    Remembered25,     \* days for which a mail about the card is looked up
    LastDay,          \* bound of the clock
    MaxChanges,       \* bound of what happens to the accounts
    Unknown

ASSUME LifecycleAssumption ==
    /\ {AwayFor, UnsubscribedFor, CancelledFor, TrialDays, Advance, Remembered25} \subseteq Nat
    /\ AgentsOf \subseteq People
    /\ Unknown \notin Int

VARIABLES
    person,           \* User and UserSubscription rows, as far as the job looks
    run,              \* the job: the mail it is at and to whom
    sent,             \* EmailLog
    day, changes

mailVars == <<person, run, sent, day, changes>>

Mails == <<"away", "subscribe", "comeback", "trialEnds", "card">>
Optional == {"away", "subscribe", "trialEnds"}  \* the mails that can be declined

\* end is UserSubscription.endDate, at its updatedAt.
NoPerson == [made |-> Unknown, login |-> Unknown, subscribed |-> FALSE, trial |-> FALSE,
             row |-> "none", end |-> Unknown, at |-> 0, card |-> FALSE, declines |-> {}]
NotRunning == [mail |-> 0, todo |-> {}]

LifecycleInit ==
    /\ person = [p \in People |-> NoPerson]
    /\ run = NotRunning /\ sent = {} /\ day = 0 /\ changes = 0

-----------------------------------------------------------------------------
(* What happens to an account: Accounts and Team say when. *)

Changed(p, row) ==
    /\ changes < MaxChanges /\ changes' = changes + 1
    /\ person' = [person EXCEPT ![p] = row]
    /\ UNCHANGED <<run, sent, day>>
Known(p) == person[p].made # Unknown

SignUp(p) ==
    /\ ~Known(p)
    /\ \E declines \in {{}, Optional}, trial \in BOOLEAN :
         Changed(p, [NoPerson EXCEPT !.made = day, !.trial = trial /\ p \notin AgentsOf,
                                     !.subscribed = (p \in AgentsOf), !.declines = declines])
\* The after-hook of a sign-in.
SignIn(p) == Known(p) /\ Changed(p, [person[p] EXCEPT !.login = day])
\* A row with or without the end of its period, which a webhook may move.
Subscribes(p) ==
    /\ Known(p) /\ p \notin AgentsOf /\ person[p].row # "ACTIVE"
    /\ \E end \in {Unknown, day + 1, day + 2}, card \in BOOLEAN :
         Changed(p, [person[p] EXCEPT !.subscribed = TRUE, !.row = "ACTIVE", !.end = end,
                                      !.at = day, !.card = card])
Cancels(p) ==
    /\ person[p].row = "ACTIVE"
    /\ Changed(p, [person[p] EXCEPT !.subscribed = FALSE, !.trial = FALSE, !.row = "CANCELLED",
                                    !.at = day])
\* Another webhook writes the row, whatever its status.
RowWritten(p) ==
    /\ person[p].row # "none" /\ person[p].at # day
    /\ Changed(p, [person[p] EXCEPT !.at = day])

-----------------------------------------------------------------------------
(* Whom each mail is for.  At a run, rows of the day d are d + n days old when  *)
(* they are in the window from n + 1 to n days ago.                          *)

InWindow(d, n) == d # Unknown /\ day - (n + 1) <= d /\ d < day - n

Away == {p \in People : person[p].subscribed /\ InWindow(person[p].login, AwayFor)}

\* Mutant: everybody who has been there for long enough, as it once was.
NeverSubscribed ==
    {p \in People \ AgentsOf :
        /\ ~person[p].subscribed /\ person[p].row = "none"
        /\ Known(p) /\ person[p].made < day - UnsubscribedFor}

Unsubscribed ==
    {p \in People \ AgentsOf :
        /\ ~person[p].subscribed /\ person[p].row = "none"
        /\ InWindow(person[p].made, UnsubscribedFor)}

Cancelled == {p \in People : person[p].row = "CANCELLED" /\ InWindow(person[p].at, CancelledFor)}

\* The row's end, if it has one, or the nominal end of the trial.
TrialEnd(p) == IF person[p].end # Unknown THEN person[p].end ELSE person[p].made + TrialDays
OnTrial == {p \in People \ AgentsOf : Known(p) /\ person[p].trial}
\* isUserOnTrial: the flag is stale where the row's period ends much later.
isUserOnTrial(p) == person[p].trial /\ (person[p].end = Unknown \/ person[p].end <= day + TrialDays + 2)
TrialEndsSoon(p) == day + Advance <= TrialEnd(p) /\ TrialEnd(p) < day + Advance + 1

\* The card of an active row expires next month.
CardExpires == {p \in People : person[p].row = "ACTIVE" /\ person[p].card /\ day \in CardFrom..CardUntil}
AlreadyReminded(p) == \E m \in sent : m.to = p /\ m.mail = "card" /\ m.on >= day - Remembered25

Recipients(n) ==
    CASE Mails[n] = "away" -> Away
      [] Mails[n] = "subscribe" -> Unsubscribed
      [] Mails[n] = "comeback" -> Cancelled
      [] Mails[n] = "trialEnds" -> {p \in OnTrial : TrialEndsSoon(p)}
      [] Mails[n] = "card" -> CardExpires

\* What is asked of each in turn, when it is the recipient's.
AwayDeclined(p) == "away" \in person[p].declines
SubscribeDeclined(p) == "subscribe" \in person[p].declines
ComebackDeclined(p) == "subscribe" \in person[p].declines
TrialEndsDropped(p) == ~isUserOnTrial(p) \/ "trialEnds" \in person[p].declines

Skipped(n, p) ==
    CASE Mails[n] = "away" -> AwayDeclined(p)
      [] Mails[n] = "subscribe" -> SubscribeDeclined(p)
      [] Mails[n] = "comeback" -> ComebackDeclined(p)
      [] Mails[n] = "trialEnds" -> TrialEndsDropped(p)
      [] Mails[n] = "card" -> AlreadyReminded(p)

\* What a mail is about: the day from which its window is counted.
ReasonFor(n, p) ==
    CASE Mails[n] = "away" -> person[p].login
      [] Mails[n] = "subscribe" -> person[p].made
      [] Mails[n] = "comeback" -> person[p].at
      [] Mails[n] = "trialEnds" -> TrialEnd(p)
      [] Mails[n] = "card" -> Unknown

Selected(n) == {[to |-> p, about |-> ReasonFor(n, p)] : p \in Recipients(n)}

-----------------------------------------------------------------------------
(* The job. *)

\* The next day, on which the process may be down at the job's hour.
DailyRun ==
    /\ run = NotRunning /\ day < LastDay /\ day' = day + 1
    /\ UNCHANGED <<person, sent, changes>>
    /\ \/ run' = [mail |-> 1, todo |-> Selected(1)']
       \/ UNCHANGED run

\* An account may change between being selected and being written to.
Nudged(r) ==
    /\ sent' = IF Skipped(run.mail, r.to) THEN sent
               ELSE sent \cup {[mail |-> Mails[run.mail], to |-> r.to, on |-> day, about |-> r.about]}
    /\ run' = [run EXCEPT !.todo = @ \ {r}]
    /\ UNCHANGED <<person, day, changes>>

\* All have been written to, or an error ends the mail but not the run.
NextMail ==
    /\ run.mail \in DOMAIN Mails
    /\ run' = IF run.mail = Len(Mails) THEN NotRunning
              ELSE [mail |-> run.mail + 1, todo |-> Selected(run.mail + 1)]
    /\ UNCHANGED <<person, sent, day, changes>>

RunDies == run # NotRunning /\ run' = NotRunning /\ UNCHANGED <<person, sent, day, changes>>

Nudging ==
    \/ DailyRun \/ NextMail \/ RunDies
    \/ \E r \in run.todo : Nudged(r)
    \/ \E p \in People : SignUp(p) \/ SignIn(p) \/ Subscribes(p) \/ Cancels(p) \/ RowWritten(p)

LifecycleSpec == LifecycleInit /\ [][Nudging]_mailVars

-----------------------------------------------------------------------------
(* What is promised. *)

\* "an unbounded createdAt matches the same still-unsubscribed user on every
\* single run forever, not once" (src/jobs/userLifecycle.job.ts:64): whatever
\* runs are missed or cut off and whatever changes in between, nobody is sent
\* the same mail twice for the same reason, nor one about the card within the
\* days for which it is looked up.
NudgedOnce ==
    \A m1, m2 \in sent :
        m1.mail = m2.mail /\ m1.to = m2.to /\ m1.on < m2.on =>
            IF m1.mail = "card" THEN m2.on > m1.on + Remembered25 ELSE m1.about # m2.about
=============================================================================
