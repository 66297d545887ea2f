---------------------------- MODULE AccountState ----------------------------
(***************************************************************************)
(* One customer account and what it pays for: the plan, the phone numbers   *)
(* of the plan and the paid add-on numbers.  The same facts are kept in     *)
(* three places: Stripe's subscriptions, Twilio's numbers, and the rows of  *)
(* the database (User, UserSubscription, PhoneNumberSubscription,           *)
(* CallerId, LeadStore, BillingEvent).                                      *)
(*                                                                         *)
(* Stripe tells the server what happened through events that a webhook      *)
(* handles (src/routes/webhooks/stripe.ts); users and staff change the same *)
(* rows through requests.  Every handler and every request is a process     *)
(* that may be interleaved with the others at each await; its local         *)
(* variables are a frame.  An event that Stripe has sent is due until a     *)
(* handler has answered it with a 2xx status.                               *)
(***************************************************************************)
EXTENDS Sequences, FiniteSets, FiniteSetsExt, Integers

CONSTANTS
    Handlers,        \* executions of the webhook that may overlap
    Clients,         \* requests that may overlap
    PlanSubs, AddonSubs, LeadSubs,   \* Stripe subscriptions, by what they sell
    Phones,          \* purchases of a number at Twilio
    Included,        \* includedNumbers of the plan
    TrialCap,        \* TRIAL_NUMBER_CAP
    Requests,        \* the kinds of request this instance makes
    Faults,          \* the faults of this instance
    Ordered,         \* events are handled one at a time, oldest first
    MaxEvents,       \* bound: nothing new starts once so many events were sent
    MaxTrouble,      \* bound: the same, once an error was only logged
    None

Subs == PlanSubs \cup AddonSubs \cup LeadSubs
Procs == Handlers \cup Clients

ASSUME AccountAssumption ==
    /\ Included \in Nat /\ TrialCap \in Nat /\ MaxEvents \in Nat /\ MaxTrouble \in Nat
    /\ IsFiniteSet(Phones) /\ Ordered \in BOOLEAN
    /\ {None, "undo", "cut", "release"} \cap (Phones \cup Subs) = {}
    /\ Handlers \cap Clients = {}
    /\ PlanSubs \cap AddonSubs = {} /\ LeadSubs \cap (PlanSubs \cup AddonSubs) = {}

VARIABLES
    stripe,       \* the subscriptions at Stripe
    items,        \* numbers that are items of each add-on subscription
    sent,         \* the events Stripe has sent
    due,          \* events not answered with success yet
    processed,    \* BillingEvent rows PROCESSED
    rejected,     \* BillingEvent rows FAILED
    mishaps,      \* history: what failed and was only logged, or was cut off
    user,         \* the User row
    rows,         \* its UserSubscription rows, newest last
    lead,         \* status of the LeadStore row of each lead subscription
    addonRow,     \* the PhoneNumberSubscription row: its subscription
    twilio,       \* each purchase at Twilio
    callerIds,    \* billingSource of the CallerId row of each number
    frame         \* the local variables of each process

stripeVars == <<stripe, items, sent, due>>
eventVars == <<processed, rejected, mishaps>>
planVars == <<user, rows, lead>>
lineVars == <<addonRow, twilio, callerIds>>
accountVars == <<stripeVars, eventVars, planVars, lineVars, frame>>

-----------------------------------------------------------------------------

StripeStatus == {"none", "trialing", "active", "past_due", "canceled"}
RowStatus == {"ACTIVE", "PENDING", "CANCELLED"}

\* "subscribe" and "lead" are checkout.session.completed for an existing user
\* and for the lead store, "signup" for a new one; "failed", "paid" and
\* "uncollectible" are events of an invoice, which bills the items.
EventTypes == {"signup", "subscribe", "lead", "updated", "deleted",
               "failed", "paid", "uncollectible"}
Event == [type : EventTypes, sub : Subs, status : StripeStatus, closing : BOOLEAN,
          final : BOOLEAN,               \* next_payment_attempt is null
          items : SUBSET Phones]

\* "undo": a signup was not rolled back; "cut": one died before its flag, or
\* while it was undone; "release": the last release of all numbers threw; an
\* add-on that Stripe did not cancel; a number released whose row stayed.
Mishap == {"undo", "cut", "release"} \cup AddonSubs \cup Phones

TrialStatus == {"NONE", "ACTIVE", "EXPIRED"}
User == [present : BOOLEAN, isSubscribed : BOOLEAN, trial : TrialStatus,
         suspended : BOOLEAN,
         deleted : BOOLEAN]              \* history: an admin deleted the user
NoUser == [present |-> FALSE, isSubscribed |-> FALSE, trial |-> "NONE",
           suspended |-> FALSE, deleted |-> FALSE]

Row == [sub : PlanSubs, status : RowStatus]

\* Where a handler of an event awaits, and where a request does.
HandlerStages ==
    {"idle", "begin", "record", "reject",
     "signupRow", "signupFlag", "signupBuy", "signupStore", "undoRow", "undoUser",
     "subscribeFlag", "updatedTrial", "updatedFlags", "deletedFlags", "failedFlag", "paidFlag",
     "topUp", "topUpBuy", "topUpStore", "release", "releasing", "cancelAddon", "dropAddon",
     "unpaid", "unpaidRelease", "unpaidRow", "unpaidCount"}
ClientStages ==
    {"idle", "cancel", "cancelRow", "renew", "renewRow", "renewFlag",
     "endTrial", "endTrialFlags", "card",
     "suspend", "suspendRow", "suspendLeads", "cancelAddon", "dropAddon",
     "buyIncluded", "storeIncluded", "buyPaid", "buyBehalf", "charge", "chargeBehalf",
     "addonRow", "addonRowBehalf", "transfer", "storePaid", "giveBack",
     "deleteRelease", "deleteItem", "deleteCount", "deleteRow", "userReleasing", "userRow"}
Callers == {"record", "unpaid", "suspendLeads", "deleteRow", "userRow"}

Frame == [at : HandlerStages \cup ClientStages,
          ev : Nat,                      \* the event it handles
          row : Nat, old : TrialStatus,  \* what it has read
          rowIds : SUBSET Nat,
          todo : SUBSET Phones, found : SUBSET Phones,
          left : Nat, phone : Phones \cup {None}, sub : Subs \cup {None},
          then : Callers \cup {"none"}]    \* where a procedure returns to
Idle == [at |-> "idle", ev |-> 0, row |-> 0, old |-> "NONE", rowIds |-> {},
         todo |-> {}, found |-> {}, left |-> 0, phone |-> None, sub |-> None,
         then |-> "none"]

AccountTypeOK ==
    /\ stripe \in [Subs -> [status : StripeStatus, closing : BOOLEAN]]
    /\ items \in [AddonSubs -> SUBSET Phones]
    /\ sent \in Seq(Event)
    /\ due \subseteq DOMAIN sent
    /\ processed \cup rejected \subseteq DOMAIN sent
    /\ mishaps \subseteq Mishap
    /\ user \in User
    /\ rows \in Seq(Row)
    /\ lead \in [LeadSubs -> {"none", "PENDING_SETUP", "CANCELLED"}]
    /\ addonRow \in AddonSubs \cup {None}
    /\ twilio \in [Phones -> {"sale", "held", "released"}]
    /\ callerIds \in [Phones -> {"none", "INCLUDED", "ADDON"}]
    /\ frame \in [Procs -> Frame]
    /\ \A h \in Handlers :
         /\ frame[h].at \in HandlerStages
         /\ frame[h].at # "idle" => frame[h].ev \in DOMAIN sent
    /\ \A c \in Clients : frame[c].at \in ClientStages
    /\ \A p \in Procs : frame[p].at \in {"cancelAddon", "dropAddon"} =>
         frame[p].then \in (IF p \in Handlers THEN {"record", "unpaid"}
                           ELSE {"suspendLeads", "deleteRow", "userRow"})

AccountInit ==
    /\ stripe = [s \in Subs |-> [status |-> "none", closing |-> FALSE]]
    /\ items = [s \in AddonSubs |-> {}]
    /\ sent = <<>> /\ due = {} /\ processed = {} /\ rejected = {} /\ mishaps = {}
    /\ user = NoUser /\ rows = <<>>
    /\ lead = [s \in LeadSubs |-> "none"]
    /\ addonRow = None
    /\ twilio = [p \in Phones |-> "sale"]
    /\ callerIds = [p \in Phones |-> "none"]
    /\ frame = [p \in Procs |-> Idle]

-----------------------------------------------------------------------------

Held == {p \in Phones : twilio[p] = "held"}
Numbers == {p \in Phones : callerIds[p] # "none"}
PaidNumbers == {p \in Phones : callerIds[p] = "ADDON"}

At(p, stage) == frame[p].at = stage
Goto(p, stage) == frame' = [frame EXCEPT ![p].at = stage]
Ev(h) == sent[frame[h].ev]

\* A handler ends by recording its event, a request by answering.
Return(p) == IF p \in Handlers THEN Goto(p, "record")
             ELSE frame' = [frame EXCEPT ![p] = Idle]

\* Stripe sends the events of one change in this order.
Emits(events) ==
    /\ sent' = sent \o events
    /\ due' = due \cup (Len(sent) + 1 .. Len(sent) + Len(events))

About(type, s, status, final) ==
    [type |-> type, sub |-> s, status |-> status, closing |-> stripe[s].closing,
     final |-> final, items |-> IF s \in AddonSubs THEN items[s] ELSE {}]

\* What Stripe does with a subscription that is cancelled at once.
CancelsAtStripe(s) ==
    IF stripe[s].status \in {"none", "canceled"}
    THEN UNCHANGED <<stripe, items, sent, due>>
    ELSE /\ stripe' = [stripe EXCEPT ![s].status = "canceled"]
         /\ Emits(<<About("deleted", s, "canceled", FALSE)>>)
         /\ items' = IF s \in AddonSubs THEN [items EXCEPT ![s] = {}] ELSE items

\* Stripe may refuse; the error is caught.
TriesToCancel(s) == CancelsAtStripe(s) \/ ("stripe" \in Faults /\ UNCHANGED stripeVars)
=============================================================================
