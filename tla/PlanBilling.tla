----------------------------- MODULE PlanBilling -----------------------------
(***************************************************************************)
(* The plan of an account: what Stripe does with the subscriptions, the     *)
(* webhook's handlers of their events up to the point where phone numbers   *)
(* are bought or released (LineBilling), and the requests that change the   *)
(* plan: cancel, renew, change, subscribe again, end the trial, pay on a    *)
(* new card, suspend the account (src/routes/billing/controller.ts,         *)
(* src/services/endTrial.service.ts, src/services/                          *)
(* accountSuspension.service.ts).                                           *)
(***************************************************************************)
EXTENDS AccountState

-----------------------------------------------------------------------------
(* Stripe. *)

stripeOnly == <<eventVars, planVars, lineVars, frame>>
Trouble == mishaps \cap ({"undo", "cut"} \cup AddonSubs) # {}
Room == Len(sent) < (IF Trouble THEN MaxTrouble ELSE MaxEvents)

\* A subscription changes its status, and Stripe tells of it.
Moves(s, status, types, final) ==
    /\ Room
    /\ stripe' = [stripe EXCEPT ![s].status = status]
    /\ Emits([i \in DOMAIN types |-> About(types[i], s, status, final)])
    /\ items' = IF status = "canceled" /\ s \in AddonSubs THEN [items EXCEPT ![s] = {}] ELSE items
    /\ UNCHANGED stripeOnly

NoPlanRuns == \A s \in PlanSubs : stripe[s].status \in {"none", "canceled"}

\* A new customer pays for the trial checkout, an existing one for a plan, or
\* for a lead-store service.  Bound: a customer subscribes again only when no
\* plan runs, which is what the checkout is offered for.
Checkout(s, type) ==
    /\ stripe[s].status = "none"
    /\ \/ /\ type = "signup" /\ s \in PlanSubs /\ sent = <<>>
          /\ Moves(s, "trialing", <<"signup">>, FALSE)
       \/ /\ type = "subscribe" /\ type \in Requests /\ s \in PlanSubs
          /\ user.present /\ rows # <<>> /\ NoPlanRuns
          /\ Moves(s, "active", <<"subscribe">>, FALSE)
       \/ /\ type = "lead" /\ type \in Requests /\ s \in LeadSubs /\ user.present
          /\ Moves(s, "active", <<"lead">>, FALSE)

\* A trial or a period ends: the subscription ends with it if it is closing,
\* and is charged otherwise; with retries turned off one failure is final.
PeriodEnds(s) ==
    /\ stripe[s].status \in {"trialing", "active"}
    /\ IF stripe[s].closing THEN Moves(s, "canceled", <<"deleted">>, FALSE)
       ELSE \/ Moves(s, "active", IF stripe[s].status = "trialing"
                                  THEN <<"updated", "paid">> ELSE <<"paid">>, FALSE)
            \/ \E final \in BOOLEAN : Moves(s, "past_due", <<"updated", "failed">>, final)

\* A retry of the charge succeeds, or the last one fails; what follows is a
\* setting of the Stripe account.
RetryPays(s) ==
    /\ stripe[s].status = "past_due"
    /\ Moves(s, "active", <<"updated", "paid">>, FALSE)

LastRetryFails(s) ==
    /\ stripe[s].status = "past_due" /\ Room
    /\ LET last == About("failed", s, "past_due", TRUE)
           ends == \E settled \in {"canceled", "past_due"} :
                     /\ stripe' = [stripe EXCEPT ![s].status = settled]
                     /\ items' = IF settled = "canceled" /\ s \in AddonSubs
                                 THEN [items EXCEPT ![s] = {}] ELSE items
                     /\ Emits(IF settled = "canceled"
                              THEN <<last, About("deleted", s, "canceled", FALSE)>>
                              ELSE <<last, About("uncollectible", s, "past_due", TRUE)>>)
       IN  ends
    /\ UNCHANGED stripeOnly

-----------------------------------------------------------------------------
(* checkout.session.completed. *)

exceptUser == <<stripeVars, eventVars, rows, lead, lineVars>>
exceptRows == <<stripeVars, eventVars, user, lead, lineVars>>
exceptTwilio == <<stripeVars, eventVars, planVars, addonRow, callerIds>>
exceptCallerIds == <<stripeVars, eventVars, planVars, addonRow, twilio>>
exceptFrame == <<stripeVars, eventVars, planVars, lineVars>>

Handles(h, type) == h \in Handlers /\ At(h, "begin") /\ Ev(h).type = type

\* The e-mail address is known: nothing is provisioned.
SignupExists(h) ==
    /\ Handles(h, "signup") /\ user.present
    /\ Goto(h, "record")
    /\ UNCHANGED exceptFrame

\* The user with its account, company and settings, and the Twilio sub-account.
SignupUser(h) ==
    /\ Handles(h, "signup") /\ ~user.present
    /\ user' = [NoUser EXCEPT !.present = TRUE, !.trial = "ACTIVE"]
    /\ Goto(h, "signupRow")
    /\ UNCHANGED exceptUser

SignupRow(h) ==
    /\ At(h, "signupRow") /\ user.present
    /\ rows' = Append(rows, [sub |-> Ev(h).sub, status |-> "ACTIVE"])
    /\ frame' = [frame EXCEPT ![h].at = "signupFlag", ![h].row = Len(rows) + 1]
    /\ UNCHANGED exceptRows

\* isSubscribed, and how many numbers to buy.
SignupFlag(h) ==
    /\ At(h, "signupFlag") /\ user.present
    /\ user' = [user EXCEPT !.isSubscribed = TRUE]
    /\ frame' = [frame EXCEPT ![h].at = "signupBuy", ![h].left = Min({Included, TrialCap})]
    /\ UNCHANGED exceptUser

\* A number that is on sale is bought.
Buys(p, stage, next) ==
    /\ At(p, stage)
    /\ \E n \in Phones :
         /\ twilio[n] = "sale"
         /\ twilio' = [twilio EXCEPT ![n] = "held"]
         /\ frame' = [frame EXCEPT ![p].at = next, ![p].phone = n]
    /\ UNCHANGED exceptTwilio

SoldOut == \A n \in Phones : twilio[n] # "sale"

StoresIncluded(h, stage, next) ==
    /\ At(h, stage) /\ user.present
    /\ callerIds' = [callerIds EXCEPT ![frame[h].phone] = "INCLUDED"]
    /\ frame' = [frame EXCEPT ![h].at = next, ![h].left = @ - 1]
    /\ UNCHANGED exceptCallerIds

SignupBuy(h) == frame[h].left > 0 /\ Buys(h, "signupBuy", "signupStore")
SignupStore(h) == StoresIncluded(h, "signupStore", "signupBuy")

\* The library and the first folder.
SignupDone(h) ==
    /\ At(h, "signupBuy") /\ frame[h].left = 0
    /\ Goto(h, "record")
    /\ UNCHANGED exceptFrame

InSignup(h) == frame[h].at \in {"signupRow", "signupFlag", "signupBuy", "signupStore"}

\* Mutant: only an account with a subscription row is rolled back.
UndoesEarly(h) == Goto(h, IF frame[h].row = 0 THEN "reject" ELSE "undoRow")

\* The row goes, then the user and all that cascades.
Undoes(h) == Goto(h, IF frame[h].row = 0 THEN "undoUser" ELSE "undoRow")

\* Any step may throw, and one does when the user has been deleted meanwhile, or
\* (with "signup") when no number is on sale.
SignupFails(h) ==
    /\ "signup" \in Faults /\ InSignup(h)
    /\ Undoes(h)
    /\ UNCHANGED exceptFrame

SignupLost(h) ==
    /\ InSignup(h)
    /\ IF At(h, "signupBuy") THEN "signup" \in Faults /\ frame[h].left > 0 /\ SoldOut ELSE ~user.present
    /\ Undoes(h)
    /\ UNCHANGED exceptFrame

\* A failure of either write is logged.  Without the row's, the user's takes the
\* row along; without the user's, the user stays.
UndoRow(h) ==
    /\ At(h, "undoRow")
    /\ \/ rows' = [i \in 1..Len(rows) - 1 |-> rows[IF i < frame[h].row THEN i ELSE i + 1]]
       \/ "undo" \in Faults /\ UNCHANGED rows
    /\ Goto(h, "undoUser")
    /\ UNCHANGED exceptRows

UndoUser(h) ==
    /\ At(h, "undoUser")
    /\ user' = NoUser /\ rows' = <<>>
    /\ lead' = [s \in LeadSubs |-> "none"]
    /\ addonRow' = None
    /\ callerIds' = [p \in Phones |-> "none"]
    /\ Goto(h, "reject")
    /\ UNCHANGED <<stripeVars, eventVars, twilio>>

UndoFails(h) ==
    /\ At(h, "undoUser") /\ user.present /\ "undo" \in Faults /\ Len(sent) <= MaxTrouble
    /\ mishaps' = mishaps \cup {"undo"}
    /\ Goto(h, "reject")
    /\ UNCHANGED <<stripeVars, processed, rejected, planVars, lineVars>>

\* An existing user's first or next plan: a new row, then the flag.
SubscribeRow(h) ==
    /\ Handles(h, "subscribe") /\ user.present
    /\ rows' = Append(rows, [sub |-> Ev(h).sub, status |-> "ACTIVE"])
    /\ Goto(h, "subscribeFlag")
    /\ UNCHANGED exceptRows

SubscribeFlag(h) ==
    /\ At(h, "subscribeFlag") \/ At(h, "paidFlag")
    /\ user.present
    /\ user' = [user EXCEPT !.isSubscribed = TRUE]
    /\ Goto(h, "record")
    /\ UNCHANGED exceptUser

LeadPurchased(h) ==
    /\ Handles(h, "lead") /\ user.present
    /\ lead' = [lead EXCEPT ![Ev(h).sub] = "PENDING_SETUP"]
    /\ Goto(h, "record")
    /\ UNCHANGED <<stripeVars, eventVars, user, rows, lineVars>>

-----------------------------------------------------------------------------
(* Events of a subscription and of its invoices.  The row is looked up by   *)
(* the Stripe customer without an order: it may be any row of the account.  *)

mapStripeSubscriptionStatus(status) ==
    CASE status \in {"active", "trialing"} -> "ACTIVE"
      [] status = "canceled" -> "CANCELLED"
      [] OTHER -> "PENDING"

IsLive(ev) == ev.status \in {"active", "trialing"} /\ ~ev.closing

\* A lead-store checkout makes a Stripe customer of its own.
RowsOf(ev) == IF ev.sub \in LeadSubs THEN {} ELSE DOMAIN rows
OfLeadStore(ev) == ev.sub \in LeadSubs /\ lead[ev.sub] # "none"

\* The first of two writes: the status of a row.
WritesRow(h, status, next) ==
    /\ \E r \in RowsOf(Ev(h)) : rows' = [rows EXCEPT ![r].status = status]
    /\ Goto(h, next)
    /\ UNCHANGED exceptRows

\* Nothing to write for the customer.
NoPlan(h) ==
    /\ At(h, "begin") /\ RowsOf(Ev(h)) = {}
    /\ \/ Ev(h).type \in {"updated", "paid"}
       \/ Ev(h).type = "deleted" /\ ~OfLeadStore(Ev(h))
       \/ Ev(h).type = "failed" /\ ~Ev(h).final
    /\ Goto(h, "record")
    /\ UNCHANGED exceptFrame

UpdatedRow(h) ==
    /\ Handles(h, "updated")
    /\ WritesRow(h, IF Ev(h).closing THEN "CANCELLED"
                    ELSE mapStripeSubscriptionStatus(Ev(h).status), "updatedTrial")

UpdatedTrial(h) ==
    /\ At(h, "updatedTrial")
    /\ frame' = [frame EXCEPT ![h].at = "updatedFlags", ![h].old = user.trial]
    /\ UNCHANGED exceptFrame

\* Mutant: a plan that is not closing is live, whatever its status.
UpdatedFlagsOpen(h) ==
    LET ev == Ev(h) IN
    /\ At(h, "updatedFlags") /\ user.present
    /\ user' = [user EXCEPT !.isSubscribed = ~ev.closing]
    /\ Goto(h, "record")
    /\ UNCHANGED exceptUser

\* The flags; the first active update after a trial tops up the numbers.
UpdatedFlags(h) ==
    LET ev == Ev(h) IN
    /\ At(h, "updatedFlags") /\ user.present
    /\ user' = [user EXCEPT !.isSubscribed = IsLive(ev),
                            !.trial = IF ~IsLive(ev) THEN @
                                      ELSE IF ev.status = "trialing" THEN "ACTIVE" ELSE "NONE"]
    /\ Goto(h, IF IsLive(ev) /\ ev.status = "active" /\ frame[h].old = "ACTIVE"
               THEN "topUp" ELSE "record")
    /\ UNCHANGED exceptUser

DeletedLead(h) ==
    /\ Handles(h, "deleted") /\ OfLeadStore(Ev(h))
    /\ lead' = [lead EXCEPT ![Ev(h).sub] = "CANCELLED"]
    /\ Goto(h, "record")
    /\ UNCHANGED <<stripeVars, eventVars, user, rows, lineVars>>

DeletedRow(h) ==
    /\ Handles(h, "deleted")
    /\ WritesRow(h, "CANCELLED", "deletedFlags")

DeletedFlags(h) ==
    /\ At(h, "deletedFlags") /\ user.present
    /\ user' = [user EXCEPT !.isSubscribed = FALSE, !.trial = "EXPIRED"]
    /\ Goto(h, "release")
    /\ UNCHANGED exceptUser

FailedRow(h) ==
    /\ Handles(h, "failed")
    /\ WritesRow(h, "PENDING", "failedFlag")

FailedFlag(h) ==
    /\ At(h, "failedFlag") /\ user.present
    /\ user' = [user EXCEPT !.isSubscribed = FALSE]
    /\ frame' = [frame EXCEPT ![h].at = IF Ev(h).final THEN "unpaid" ELSE "record",
                              ![h].todo = Ev(h).items]
    /\ UNCHANGED exceptUser

PaidRow(h) ==
    /\ Handles(h, "paid")
    /\ WritesRow(h, "ACTIVE", "paidFlag")

\* invoice.marked_uncollectible, or the last failure for a customer without rows.
Uncollectible(h) ==
    /\ \/ Handles(h, "uncollectible")
       \/ Handles(h, "failed") /\ RowsOf(Ev(h)) = {} /\ Ev(h).final
    /\ frame' = [frame EXCEPT ![h].at = "unpaid", ![h].todo = Ev(h).items]
    /\ UNCHANGED exceptFrame

-----------------------------------------------------------------------------
(* Requests. *)

Newest == Len(rows)
NewestActive == LET active == {i \in DOMAIN rows : rows[i].status = "ACTIVE"}
                IN  IF active = {} THEN 0 ELSE Max(active)

exceptStripe == <<eventVars, planVars, lineVars>>
exceptPlan == <<stripeVars, eventVars, lead, lineVars>>

\* A request changes a subscription that has not ended at Stripe.
Amends(s, status, closing, types) ==
    /\ stripe' = [stripe EXCEPT ![s] = [status |-> status, closing |-> closing]]
    /\ Emits([i \in DOMAIN types |->
                [About(types[i], s, status, FALSE) EXCEPT !.closing = closing]])
    /\ UNCHANGED items

RowWith(status, r) == IF r \in DOMAIN rows THEN [rows EXCEPT ![r].status = status] ELSE rows

Reads(c, kind, r, stage) ==
    /\ kind \in Requests /\ c \in Clients /\ At(c, "idle") /\ Room
    /\ user.present /\ r \in DOMAIN rows
    /\ frame' = [frame EXCEPT ![c].at = stage, ![c].row = r, ![c].sub = rows[r].sub]
    /\ UNCHANGED exceptFrame

\* cancelSubscription: Stripe first, unless it has ended there, then the row.
Cancel(c) == Reads(c, "cancel", NewestActive, "cancel")
CancelAtStripe(c) ==
    LET s == frame[c].sub IN
    /\ At(c, "cancel")
    /\ IF stripe[s].status = "canceled" THEN UNCHANGED stripeVars
       ELSE Amends(s, stripe[s].status, TRUE, <<"updated">>)
    /\ Goto(c, "cancelRow")
    /\ UNCHANGED exceptStripe

CancelRow(c) ==
    /\ At(c, "cancelRow")
    /\ rows' = RowWith("CANCELLED", frame[c].row)
    /\ Return(c)
    /\ UNCHANGED exceptRows

\* upgradeSubscription: renews or upgrades unless it has ended at Stripe.
Renew(c) == Reads(c, "renew", Newest, "renew")
RenewAtStripe(c) ==
    LET s == frame[c].sub IN
    /\ At(c, "renew")
    /\ IF stripe[s].status = "canceled" THEN Return(c) /\ UNCHANGED stripeVars
       ELSE Amends(s, stripe[s].status, FALSE, <<"updated">>) /\ Goto(c, "renewRow")
    /\ UNCHANGED exceptStripe

RenewRow(c) ==
    /\ At(c, "renewRow")
    /\ rows' = RowWith("ACTIVE", frame[c].row)
    /\ Goto(c, "renewFlag")
    /\ UNCHANGED exceptRows

RenewFlag(c) ==
    /\ At(c, "renewFlag") /\ user.present
    /\ user' = [user EXCEPT !.isSubscribed = TRUE]
    /\ Return(c)
    /\ UNCHANGED exceptUser

\* changeSubscriptionPlan: Stripe tells of it; of the row only the plan changes.
ChangePlan(c) ==
    /\ "change" \in Requests /\ c \in Clients /\ At(c, "idle") /\ Room
    /\ \E s \in PlanSubs :
         /\ stripe[s].status \notin {"none", "canceled"}
         /\ Amends(s, stripe[s].status, stripe[s].closing, <<"updated">>)
    /\ UNCHANGED <<exceptStripe, frame>>

\* resolveAccountStatus says TRIALING.  The end of a trial and that of a month
\* are both within the window in which the flag is believed.
OnTrial == rows # <<>> /\ rows[Newest].status = "ACTIVE" /\ user.trial = "ACTIVE"

\* endTrialAndBillNow: checked here and at Stripe, charged, then the flags.
EndTrial(c) == OnTrial /\ Reads(c, "endTrial", Newest, "endTrial")
EndTrialAtStripe(c) ==
    LET s == frame[c].sub IN
    /\ At(c, "endTrial")
    /\ IF stripe[s].status # "trialing" THEN Return(c) /\ UNCHANGED stripeVars
       ELSE /\ \/ Amends(s, "active", stripe[s].closing, <<"updated", "paid">>)
               \/ Amends(s, "past_due", stripe[s].closing, <<"updated", "failed">>)
            /\ Goto(c, "endTrialFlags")
    /\ UNCHANGED exceptStripe

EndTrialFlags(c) ==
    /\ At(c, "endTrialFlags") /\ user.present
    /\ user' = [user EXCEPT !.trial = "NONE", !.isSubscribed = TRUE]
    /\ Return(c)
    /\ UNCHANGED exceptUser

\* updateCardPaymentMethod pays an open invoice of the subscription on the new
\* card if the row it read says PENDING.
NewCard(c) ==
    /\ rows # <<>> /\ rows[Newest].status = "PENDING"
    /\ Reads(c, "card", Newest, "card")

CardPays(c) ==
    LET s == frame[c].sub IN
    /\ At(c, "card")
    /\ IF stripe[s].status # "past_due" THEN UNCHANGED stripeVars
       ELSE \/ Amends(s, "active", stripe[s].closing, <<"updated", "paid">>)
            \/ UNCHANGED stripeVars
    /\ Return(c)
    /\ UNCHANGED exceptStripe

\* cancelLeadStoreSubscription; an error of Stripe is logged.
CancelLead(c) ==
    /\ "lead" \in Requests /\ c \in Clients /\ At(c, "idle") /\ Room
    /\ \E s \in LeadSubs :
         /\ lead[s] = "PENDING_SETUP"
         /\ TriesToCancel(s)
         /\ lead' = [lead EXCEPT ![s] = "CANCELLED"]
    /\ UNCHANGED <<eventVars, user, rows, lineVars, frame>>

\* The user is suspended; the rows to cancel are read.
Suspend(c) ==
    /\ "suspend" \in Requests /\ c \in Clients /\ At(c, "idle") /\ Room
    /\ user.present /\ ~user.suspended
    /\ user' = [user EXCEPT !.suspended = TRUE]
    /\ frame' = [frame EXCEPT ![c].at = "suspend",
                              ![c].rowIds = {i \in DOMAIN rows : rows[i].status # "CANCELLED"}]
    /\ UNCHANGED exceptUser

\* Each is cancelled at Stripe, then here; one that fails is left as it is.
SuspendAtStripe(c) ==
    /\ At(c, "suspend")
    /\ \E r \in frame[c].rowIds :
         \/ /\ IF r \in DOMAIN rows THEN CancelsAtStripe(rows[r].sub) ELSE UNCHANGED stripeVars
            /\ frame' = [frame EXCEPT ![c].at = "suspendRow", ![c].row = r]
         \/ /\ "stripe" \in Faults /\ UNCHANGED stripeVars
            /\ frame' = [frame EXCEPT ![c].rowIds = @ \ {r}]
    /\ UNCHANGED exceptStripe

SuspendRow(c) ==
    /\ At(c, "suspendRow")
    /\ rows' = RowWith("CANCELLED", frame[c].row)
    /\ frame' = [frame EXCEPT ![c].at = "suspend", ![c].rowIds = @ \ {frame[c].row}]
    /\ UNCHANGED exceptRows

\* Then the add-on numbers (LineBilling), each lead-store subscription, and the
\* flags.
SuspendAddon(c) ==
    /\ At(c, "suspend") /\ frame[c].rowIds = {}
    /\ frame' = [frame EXCEPT ![c].at = "cancelAddon", ![c].then = "suspendLeads"]
    /\ UNCHANGED exceptFrame

SuspendLead(c) ==
    /\ At(c, "suspendLeads")
    /\ \E s \in LeadSubs :
         /\ lead[s] = "PENDING_SETUP"
         /\ CancelsAtStripe(s)
         /\ lead' = [lead EXCEPT ![s] = "CANCELLED"]
    /\ UNCHANGED <<eventVars, user, rows, lineVars, frame>>

SuspendFlags(c) ==
    /\ At(c, "suspendLeads")
    /\ "stripe" \in Faults \/ \A s \in LeadSubs : lead[s] # "PENDING_SETUP"
    /\ user.present
    /\ user' = [user EXCEPT !.isSubscribed = FALSE, !.trial = "NONE"]
    /\ Return(c)
    /\ UNCHANGED exceptUser
=============================================================================
