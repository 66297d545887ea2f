------------------------------ MODULE Accounts ------------------------------
(***************************************************************************)
(* The account as a whole: the webhook receives an event that is due, skips *)
(* it if a BillingEvent row has its id, and handles it; whatever the        *)
(* outcome it records the event and answers.  Requests run beside it, and   *)
(* the process may die.                                                     *)
(***************************************************************************)
EXTENDS LineBilling

\* With Ordered, the oldest event that is due, after the one before.
InTurn(e) == Ordered => e = Min(due) /\ \A h \in Handlers : frame[h].ev \in {0, e}

\* A signup takes long: with "slowSignup" Stripe delivers it again meanwhile.
Receive(h, e) ==
    /\ At(h, "idle") /\ e \in due /\ InTurn(e)
    /\ e \notin processed \cup rejected
    /\ \/ \A h2 \in Handlers : frame[h2].ev # e
       \/ "slowSignup" \in Faults /\ sent[e].type = "signup"
    /\ frame' = [frame EXCEPT ![h].at = "begin", ![h].ev = e]
    /\ UNCHANGED exceptFrame

Skip(e) ==
    /\ e \in due /\ InTurn(e)
    /\ e \in processed \cup rejected
    /\ due' = due \ {e}
    /\ UNCHANGED <<stripe, items, sent, eventVars, planVars, lineVars, frame>>

Record(h) ==
    /\ At(h, "record")
    /\ processed' = processed \cup ({frame[h].ev} \ rejected)   \* the first row stays
    /\ due' = due \ {frame[h].ev}
    /\ frame' = [frame EXCEPT ![h] = Idle]
    /\ UNCHANGED <<stripe, items, sent, rejected, mishaps, planVars, lineVars>>

\* The database refuses to update a user who is gone: recorded FAILED, but
\* answered with 200.
StepFails(h) ==
    /\ ~user.present
    /\ \/ frame[h].at \in {"updatedFlags", "deletedFlags", "failedFlag", "paidFlag",
                            "subscribeFlag"}
       \/ Handles(h, "subscribe") \/ Handles(h, "lead")
    /\ rejected' = rejected \cup ({frame[h].ev} \ processed)
    /\ due' = due \ {frame[h].ev}
    /\ frame' = [frame EXCEPT ![h] = Idle]
    /\ UNCHANGED <<stripe, items, sent, processed, mishaps, planVars, lineVars>>

\* A flag that a request sets of a user who is gone, or a number when none is on
\* sale: an error is answered.
RequestFails(c) ==
    /\ \/ SoldOut /\ frame[c].at \in {"buyIncluded", "buyPaid", "buyBehalf"}
       \/ ~user.present /\ frame[c].at \in {"renewFlag", "endTrialFlags"}
       \/ /\ ~user.present /\ At(c, "suspendLeads")
          /\ \A s \in LeadSubs : lead[s] # "PENDING_SETUP"
    /\ Return(c)
    /\ UNCHANGED exceptFrame

\* A signup that failed is answered with 500: Stripe delivers it again.
Reject(h) ==
    /\ At(h, "reject")
    /\ rejected' = rejected \cup ({frame[h].ev} \ processed)
    /\ frame' = [frame EXCEPT ![h] = Idle]
    /\ UNCHANGED <<stripeVars, processed, mishaps, planVars, lineVars>>

CutsSignup(h) == frame[h].at \in {"signupRow", "signupFlag", "undoRow", "undoUser", "reject"}

\* The process dies: what was being handled is due again, requests are lost.
\* "crash" spares a signup, "cutSignup" hits one before its flag or while it is
\* undone, "crashInSignup" any time.
\* Bound: a crash that may have a row added again happens once for each plan.
Crash ==
    /\ \/ "crashInSignup" \in Faults
       \/ /\ "cutSignup" \in Faults /\ Len(sent) < MaxTrouble
          /\ \E h \in Handlers : CutsSignup(h)
       \/ /\ "crash" \in Faults
          /\ \A h \in Handlers : ~At(h, "idle") => Ev(h).type # "signup"
    /\ Len(rows) < Cardinality(PlanSubs) + 1
    /\ frame # [p \in Procs |-> Idle]
    /\ frame' = [p \in Procs |-> Idle]
    /\ mishaps' = IF \E h \in Handlers : CutsSignup(h) THEN mishaps \cup {"cut"} ELSE mishaps
    /\ UNCHANGED <<stripeVars, processed, rejected, planVars, lineVars>>

-----------------------------------------------------------------------------

StripeActs ==
    \E s \in Subs : \/ \E type \in {"signup", "subscribe", "lead"} : Checkout(s, type)
                    \/ PeriodEnds(s) \/ RetryPays(s) \/ LastRetryFails(s)

Handle(h) ==
    \/ SignupExists(h) \/ SignupUser(h) \/ SignupRow(h) \/ SignupFlag(h) \/ SignupBuy(h)
    \/ SignupStore(h) \/ SignupLost(h) \/ SignupDone(h) \/ UndoRow(h) \/ UndoUser(h)
    \/ UndoFails(h)
    \/ SubscribeRow(h) \/ SubscribeFlag(h) \/ LeadPurchased(h)
    \/ NoPlan(h) \/ UpdatedRow(h) \/ UpdatedTrial(h) \/ UpdatedFlags(h)
    \/ DeletedLead(h) \/ DeletedRow(h) \/ DeletedFlags(h)
    \/ FailedRow(h) \/ FailedFlag(h) \/ PaidRow(h) \/ Uncollectible(h)
    \/ TopUp(h) \/ TopUpBuy(h) \/ TopUpStore(h) \/ TopUpEnds(h)
    \/ ReleaseFinds(h) \/ ReleaseOne(h) \/ ReleaseDeletes(h) \/ ReleaseFails(h)
    \/ NoAddon(h) \/ CancelAddon(h) \/ DropAddon(h)
    \/ Unpaid(h) \/ UnpaidRelease(h) \/ UnpaidRow(h) \/ UnpaidCount(h)
    \/ StepFails(h) \/ Record(h) \/ Reject(h)

Start(c) ==
    \/ Cancel(c) \/ Renew(c) \/ ChangePlan(c) \/ EndTrial(c) \/ NewCard(c) \/ Suspend(c)
    \/ CancelLead(c) \/ Buy(c) \/ BuyOnBehalf(c) \/ Delete(c) \/ DeleteUser(c)

Answer(c) ==
    \/ CancelAtStripe(c) \/ CancelRow(c) \/ RenewAtStripe(c) \/ RenewRow(c) \/ RenewFlag(c)
    \/ EndTrialAtStripe(c) \/ EndTrialFlags(c) \/ CardPays(c)
    \/ SuspendAtStripe(c) \/ SuspendRow(c) \/ SuspendAddon(c) \/ SuspendLead(c) \/ SuspendFlags(c)
    \/ NoAddon(c) \/ CancelAddon(c) \/ DropAddon(c)
    \/ BuyIncluded(c) \/ StoreIncluded(c) \/ BuyPaid(c) \/ ChargeFirst(c) \/ AddonRow(c)
    \/ ChargeItem(c) \/ Declined(c) \/ Transfer(c) \/ StorePaid(c) \/ GiveBack(c)
    \/ DeleteRelease(c) \/ DeleteItem(c) \/ DeleteCount(c) \/ DeleteRow(c)
    \/ UserReleases(c) \/ UserReleased(c) \/ UserRow(c) \/ RequestFails(c)

AccountNext ==
    \/ StripeActs
    \/ \E e \in due : Skip(e) \/ \E h \in Handlers : Receive(h, e)
    \/ \E h \in Handlers : Handle(h) \/ SignupFails(h)
    \/ \E c \in Clients : Start(c) \/ Answer(c)
    \/ Crash

AccountSpec == AccountInit /\ [][AccountNext]_accountVars

\* A process that has started goes on, Stripe delivers again what is due, and
\* the server does not die for ever.
AccountFairness ==
    /\ <>[][~Crash]_accountVars
    /\ WF_accountVars(\E e \in due : Skip(e) \/ \E h \in Handlers : Receive(h, e))
    /\ \A h \in Handlers : WF_accountVars(Handle(h))
    /\ \A c \in Clients : WF_accountVars(Answer(c))

FairAccountSpec == AccountSpec /\ AccountFairness
=============================================================================
