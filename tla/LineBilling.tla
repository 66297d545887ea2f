----------------------------- MODULE LineBilling -----------------------------
(***************************************************************************)
(* The phone numbers of an account: topping up after a trial                *)
(* (src/services/trialProvisioning.service.ts), releasing when a plan ends  *)
(* or an add-on is not paid (src/routes/webhooks/stripe.ts), buying within  *)
(* the plan or as a paid add-on, for oneself or for a user                  *)
(* (src/routes/calling/controller.ts), deleting                             *)
(* (src/routes/systemSettings/callerId/controller.ts), and the add-on       *)
(* subscription at Stripe (src/services/phoneNumberBilling.service.ts).     *)
(*                                                                         *)
(* A number that is released and bought again is another purchase.  An      *)
(* error of Twilio on a release is logged and the number stays held.        *)
(***************************************************************************)
EXTENDS PlanBilling

\* A release is tried; "twilio" makes it fail.
Releases(n) ==
    \/ twilio' = [twilio EXCEPT ![n] = "released"]
    \/ "twilio" \in Faults /\ UNCHANGED twilio

-----------------------------------------------------------------------------
(* provisionRemainingIncludedNumbers; its errors are caught and logged. *)

TopUp(h) ==
    LET missing == Included - Cardinality(Numbers) IN
    /\ At(h, "topUp")
    /\ frame' = [frame EXCEPT ![h].at = "topUpBuy", ![h].left = Max({0, missing})]
    /\ UNCHANGED exceptFrame

TopUpBuy(h) == frame[h].left > 0 /\ Buys(h, "topUpBuy", "topUpStore")
TopUpStore(h) == StoresIncluded(h, "topUpStore", "topUpBuy")

TopUpEnds(h) ==
    /\ \/ At(h, "topUpBuy") /\ frame[h].left = 0
       \/ At(h, "topUpBuy") /\ SoldOut
       \/ frame[h].at \in {"topUpBuy", "topUpStore"} /\ ("topUp" \in Faults \/ ~user.present)
    /\ Goto(h, "record")
    /\ UNCHANGED exceptFrame

-----------------------------------------------------------------------------
(* releaseAllNumbersForUser: all it finds, then their rows, then the add-on  *)
(* subscription.  If the query, the client of Twilio or the delete throws,    *)
(* the webhook logs it and records the event as PROCESSED all the same.       *)

\* Mutant: stops at one number.
ReleaseFindsMany(h) ==
    /\ At(h, "release")
    /\ frame' = [frame EXCEPT ![h].at = IF Cardinality(Numbers) <= 1 THEN "record" ELSE "releasing",
                              ![h].todo = Numbers, ![h].found = Numbers]
    /\ mishaps' = mishaps \ {"release"}
    /\ UNCHANGED <<stripeVars, processed, rejected, planVars, lineVars>>

ReleaseFinds(h) ==
    /\ At(h, "release")
    /\ frame' = [frame EXCEPT ![h].at = IF Numbers = {} THEN "record" ELSE "releasing",
                              ![h].todo = Numbers, ![h].found = Numbers]
    /\ mishaps' = mishaps \ {"release"}
    /\ UNCHANGED <<stripeVars, processed, rejected, planVars, lineVars>>

ReleaseFails(h) ==
    /\ "release" \in Faults
    /\ \/ At(h, "release") /\ mishaps' = mishaps \cup {"release"}
       \/ /\ At(h, "releasing") /\ frame[h].todo = {}
          /\ mishaps' = mishaps \cup {"release"} \cup frame[h].found
    /\ Goto(h, "record")
    /\ UNCHANGED <<stripeVars, processed, rejected, planVars, lineVars>>

ReleaseOne(h) ==
    /\ At(h, "releasing")
    /\ \E n \in frame[h].todo :
         /\ Releases(n)
         /\ frame' = [frame EXCEPT ![h].todo = @ \ {n}]
    /\ UNCHANGED exceptTwilio

ReleaseDeletes(h) ==
    /\ At(h, "releasing") /\ frame[h].todo = {}
    /\ callerIds' = [n \in Phones |-> IF n \in frame[h].found THEN "none" ELSE callerIds[n]]
    /\ frame' = [frame EXCEPT ![h].at = "cancelAddon", ![h].then = "record"]
    /\ UNCHANGED exceptCallerIds

-----------------------------------------------------------------------------
(* cancelAddonSubscriptionForUser, called by a release, by the last unpaid   *)
(* number, by deleting the last paid number and by a suspension.            *)

NoAddon(p) ==
    /\ At(p, "cancelAddon") /\ addonRow = None
    /\ Goto(p, frame[p].then)
    /\ UNCHANGED exceptFrame

\* Mutant: the row is dropped without cancelling at Stripe.
CancelAddonHere(p) ==
    /\ At(p, "cancelAddon") /\ addonRow # None
    /\ Goto(p, "dropAddon")
    /\ UNCHANGED <<stripeVars, eventVars, planVars, lineVars>>

\* The row that is dropped is the account's, whichever was read.  Two cancellations
\* overlap only with "slowCancel": the one that ends last drops a row bought since.
\* An error of Stripe, or of the delete, is logged, and the steps go on.
CancelAddon(p) ==
    /\ At(p, "cancelAddon") /\ addonRow # None
    /\ "slowCancel" \in Faults \/ \A q \in Procs : ~At(q, "dropAddon")
    /\ \/ CancelsAtStripe(addonRow) /\ UNCHANGED mishaps
       \/ /\ "stripe" \in Faults
          /\ mishaps' = mishaps \cup {addonRow} /\ UNCHANGED stripeVars
    /\ Goto(p, "dropAddon")
    /\ UNCHANGED <<processed, rejected, planVars, lineVars>>

DropAddon(p) ==
    /\ At(p, "dropAddon")
    /\ addonRow' = None \/ ("db" \in Faults /\ UNCHANGED addonRow)
    /\ Goto(p, frame[p].then)
    /\ UNCHANGED <<stripeVars, eventVars, planVars, twilio, callerIds>>

-----------------------------------------------------------------------------
(* releaseAddonNumbersForUncollectibleInvoice: one item after the other. *)

Unpaid(h) ==
    /\ At(h, "unpaid")
    /\ \/ /\ frame[h].todo = {}
          /\ Goto(h, "record")
       \/ \E n \in frame[h].todo :
            frame' = [frame EXCEPT ![h].at = IF callerIds[n] = "ADDON" THEN "unpaidRelease"
                                             ELSE "unpaid",
                                   ![h].todo = @ \ {n}, ![h].phone = n]
    /\ UNCHANGED exceptFrame

UnpaidRelease(h) ==
    /\ At(h, "unpaidRelease")
    /\ Releases(frame[h].phone)
    /\ Goto(h, "unpaidRow")
    /\ UNCHANGED exceptTwilio

\* The row is deleted, unless it is gone.
DeletesRow(p, stage, next) ==
    /\ At(p, stage)
    /\ callerIds' = [callerIds EXCEPT ![frame[p].phone] = "none"]
    /\ next
    /\ UNCHANGED exceptCallerIds
UnpaidRow(h) == DeletesRow(h, "unpaidRow", Goto(h, "unpaidCount"))

UnpaidCount(h) ==
    /\ At(h, "unpaidCount")
    /\ frame' = [frame EXCEPT ![h].at = IF PaidNumbers = {} THEN "cancelAddon" ELSE "unpaid",
                              ![h].then = "unpaid"]
    /\ UNCHANGED exceptFrame

-----------------------------------------------------------------------------
(* buyNumber and its paid variants. *)

AtTrialCap == OnTrial /\ Cardinality(Numbers) >= TrialCap

Asks(c, kind, stage) ==
    /\ kind \in Requests /\ c \in Clients /\ At(c, "idle") /\ Room
    /\ user.present
    /\ Goto(c, stage)
    /\ UNCHANGED exceptFrame

\* Within the plan free of charge, then as an add-on that the user confirms;
\* by staff always as an add-on.
Buy(c) ==
    /\ ~AtTrialCap
    /\ Asks(c, "buy", IF Cardinality(Numbers) < Included THEN "buyIncluded" ELSE "buyPaid")
BuyOnBehalf(c) == ~AtTrialCap /\ rows # <<>> /\ Asks(c, "behalf", "buyBehalf")

BuyIncluded(c) == Buys(c, "buyIncluded", "storeIncluded")
StoreIncluded(c) ==
    /\ At(c, "storeIncluded")
    /\ \/ user.present /\ callerIds' = [callerIds EXCEPT ![frame[c].phone] = "INCLUDED"]
       \/ ("db" \in Faults \/ ~user.present) /\ UNCHANGED callerIds
    /\ Return(c)
    /\ UNCHANGED exceptCallerIds

\* A paid number is bought first, and given back when what follows fails.
BuyPaid(c) == rows # <<>> /\ (Buys(c, "buyPaid", "charge") \/ Buys(c, "buyBehalf", "chargeBehalf"))

Charges(c) == At(c, "charge") \/ At(c, "chargeBehalf")
Charged(c) == IF At(c, "chargeBehalf") THEN "transfer" ELSE "storePaid"

\* The first add-on creates the subscription, charged at once.
ChargeFirst(c) ==
    /\ Charges(c) /\ addonRow = None
    /\ \E s \in AddonSubs :
         /\ stripe[s].status = "none"
         /\ stripe' = [stripe EXCEPT ![s].status = "active"]
         /\ items' = [items EXCEPT ![s] = {frame[c].phone}]
         /\ Emits(<<About("paid", s, "active", FALSE)>>)
         /\ frame' = [frame EXCEPT ![c].at = IF At(c, "charge") THEN "addonRow" ELSE "addonRowBehalf",
                                   ![c].sub = s]
    /\ UNCHANGED exceptStripe

\* Its row is unique for the user.
AddonRow(c) ==
    /\ At(c, "addonRow") \/ At(c, "addonRowBehalf")
    /\ IF addonRow = None /\ user.present
       THEN /\ addonRow' = frame[c].sub
            /\ Goto(c, IF At(c, "addonRow") THEN "storePaid" ELSE "transfer")
       ELSE /\ Goto(c, "giveBack")
            /\ UNCHANGED addonRow
    /\ UNCHANGED <<stripeVars, eventVars, planVars, twilio, callerIds>>

\* Another adds an item, of which an invoice is paid at once.
ChargeItem(c) ==
    LET s == addonRow IN
    /\ Charges(c) /\ s # None
    /\ IF stripe[s].status = "canceled"
       THEN Goto(c, "giveBack") /\ UNCHANGED stripeVars
       ELSE /\ items' = [items EXCEPT ![s] = @ \cup {frame[c].phone}]
            /\ Emits(<<About("paid", s, stripe[s].status, FALSE)>>)
            /\ frame' = [frame EXCEPT ![c].at = Charged(c), ![c].sub = s]
            /\ UNCHANGED stripe
    /\ UNCHANGED exceptStripe

\* The card is declined; an item added before is removed.
Declined(c) ==
    /\ Charges(c) /\ "card" \in Faults
    /\ Goto(c, "giveBack")
    /\ UNCHANGED exceptFrame

\* The number moves to the user's sub-account, or its item goes.
Transfer(c) ==
    /\ At(c, "transfer")
    /\ \/ Goto(c, "storePaid") /\ UNCHANGED items
       \/ /\ "twilio" \in Faults
          /\ items' = [items EXCEPT ![frame[c].sub] = IF Cardinality(@) = 1 THEN @
                                                      ELSE @ \ {frame[c].phone}]
          /\ Goto(c, "giveBack")
    /\ UNCHANGED <<stripe, sent, due, exceptStripe>>

StorePaid(c) ==
    /\ At(c, "storePaid")
    /\ \/ /\ user.present
          /\ callerIds' = [callerIds EXCEPT ![frame[c].phone] = "ADDON"]
          /\ Return(c)
       \/ ("db" \in Faults \/ ~user.present) /\ Goto(c, "giveBack") /\ UNCHANGED callerIds
    /\ UNCHANGED exceptCallerIds

GiveBack(c) ==
    /\ At(c, "giveBack")
    /\ Releases(frame[c].phone)
    /\ Return(c)
    /\ UNCHANGED exceptTwilio

-----------------------------------------------------------------------------
(* deleteCallerId. *)

Delete(c) ==
    /\ "delete" \in Requests /\ c \in Clients /\ At(c, "idle") /\ Room
    /\ \E n \in Numbers :
         frame' = [frame EXCEPT ![c].at = "deleteRelease", ![c].phone = n,
                                ![c].found = {n} \cap PaidNumbers]
    /\ UNCHANGED exceptFrame

DeleteRelease(c) ==
    /\ At(c, "deleteRelease")
    /\ Releases(frame[c].phone)
    /\ Goto(c, IF frame[c].found = {} THEN "deleteRow" ELSE "deleteItem")
    /\ UNCHANGED exceptTwilio

\* Stripe keeps the last item of a subscription; that error, as any, is logged.
RemovesItem(n) ==
    \/ items' = [s \in AddonSubs |-> IF items[s] = {n} THEN items[s] ELSE items[s] \ {n}]
    \/ "stripe" \in Faults /\ UNCHANGED items

DeleteItem(c) ==
    /\ At(c, "deleteItem")
    /\ RemovesItem(frame[c].phone)
    /\ Goto(c, "deleteCount")
    /\ UNCHANGED <<stripe, sent, due, exceptStripe>>

DeleteCount(c) ==
    /\ At(c, "deleteCount")
    /\ frame' = [frame EXCEPT ![c].at = IF PaidNumbers \ {frame[c].phone} = {} THEN "cancelAddon"
                                        ELSE "deleteRow",
                              ![c].then = "deleteRow"]
    /\ UNCHANGED exceptFrame

\* Mutant: without deleting the row.
DeleteRowNever(c) ==
    /\ At(c, "deleteRow")
    /\ Return(c)
    /\ UNCHANGED exceptFrame

DeleteRow(c) == DeletesRow(c, "deleteRow", Return(c))

-----------------------------------------------------------------------------
(* deleteUserFromDb: the numbers are released and their items removed, the   *)
(* add-on subscription is cancelled, and the user goes with all that        *)
(* cascades.  The plan goes on at Stripe.                                   *)

DeleteUser(c) ==
    /\ "deleteUser" \in Requests /\ c \in Clients /\ At(c, "idle") /\ Room
    /\ user.present
    /\ frame' = [frame EXCEPT ![c].at = "userReleasing", ![c].todo = Numbers,
                              ![c].found = Numbers]
    /\ UNCHANGED exceptFrame

UserReleases(c) ==
    /\ At(c, "userReleasing")
    /\ \E n \in frame[c].todo :
         /\ Releases(n)
         /\ RemovesItem(n)
         /\ frame' = [frame EXCEPT ![c].todo = @ \ {n}]
    /\ UNCHANGED <<stripe, sent, due, eventVars, planVars, addonRow, callerIds>>

UserReleased(c) ==
    /\ At(c, "userReleasing") /\ frame[c].todo = {}
    /\ frame' = [frame EXCEPT ![c].at = "cancelAddon", ![c].then = "userRow"]
    /\ UNCHANGED exceptFrame

UserRow(c) ==
    /\ At(c, "userRow")
    /\ user' = [NoUser EXCEPT !.deleted = TRUE] /\ rows' = <<>>
    /\ lead' = [s \in LeadSubs |-> "none"]
    /\ addonRow' = None
    /\ callerIds' = [n \in Phones |-> "none"]
    /\ Return(c)
    /\ UNCHANGED <<stripeVars, eventVars, twilio>>
=============================================================================
