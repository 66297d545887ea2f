---------------------------- MODULE AccountProofs ----------------------------
(***************************************************************************)
(* The promises of an account for any number of subscriptions, phone        *)
(* numbers, events, handlers and, but for ChargedAddonKnown, requests.      *)
(***************************************************************************)
EXTENDS AccountProperties, FiniteSetTheorems, SequenceTheorems, TLAPS

USE AccountAssumption
USE DEF stripeVars, eventVars, planVars, lineVars, accountVars, exceptUser, exceptRows,
        exceptTwilio, exceptCallerIds, exceptFrame, exceptStripe, exceptPlan, stripeOnly,
        At, Goto, Procs, Subs

-----------------------------------------------------------------------------
(* Types.  What a process is about: a plan it changes, an add-on it has      *)
(* charged, a number it has bought; and what an event may be about.         *)

Buying == {"signupStore", "topUpStore", "storeIncluded", "charge", "chargeBehalf", "addonRow",
           "addonRowBehalf", "transfer", "storePaid", "giveBack"}

FrameType ==
    /\ frame \in [Procs -> Frame]
    /\ \A h \in Handlers :
         /\ frame[h].at \in HandlerStages
         /\ frame[h].at # "idle" => frame[h].ev \in DOMAIN sent
    /\ \A c \in Clients : frame[c].at \in ClientStages
    /\ \A p \in Procs : frame[p].at \in {"cancelAddon", "dropAddon"} =>
         frame[p].then \in (IF p \in Handlers THEN {"record", "unpaid"}
                           ELSE {"suspendLeads", "deleteRow", "userRow"})

StripeType ==
    /\ stripe \in [Subs -> [status : StripeStatus, closing : BOOLEAN]]
    /\ items \in [AddonSubs -> SUBSET Phones]
    /\ sent \in Seq(Event)
    /\ due \subseteq DOMAIN sent

EventKind(ev) ==
    /\ ev.type \in {"signup", "subscribe"} => ev.sub \in PlanSubs
    /\ ev.type = "lead" => ev.sub \in LeadSubs

FrameKind(p) ==
    /\ frame[p].at \in {"cancel", "renew", "endTrial", "card"} => frame[p].sub \in PlanSubs
    /\ frame[p].at \in {"addonRow", "addonRowBehalf", "transfer", "storePaid"} =>
         frame[p].sub \in AddonSubs
    /\ frame[p].at \in Buying => frame[p].phone \in Phones
    /\ frame[p].at \in {"signupStore", "topUpStore"} => frame[p].left > 0

KindsOK ==
    /\ \A e \in DOMAIN sent : EventKind(sent[e])
    /\ \A p \in Procs : FrameKind(p)
    /\ \A h \in Handlers : frame[h].at = "signupRow" => Ev(h).type = "signup"

TypeInv == AccountTypeOK /\ KindsOK

LEMMA TypeParts == TypeInv => FrameType /\ StripeType /\ KindsOK
  BY DEF TypeInv, AccountTypeOK, FrameType, StripeType

\* A request that answers forgets its local variables.
LEMMA Answers == ASSUME NEW c \in Clients, Return(c)
                 PROVE  frame' = [frame EXCEPT ![c] = Idle]
  BY DEF Return

LEMMA MinMax == ASSUME NEW a \in Nat, NEW b \in Int
                PROVE  /\ b \in Nat => Min({a, b}) \in Nat
                       /\ Max({0, b}) \in Nat
<1>1. b \in Nat => \E x \in {a, b} : \A y \in {a, b} : x =< y  OBVIOUS
<1>2. \E x \in {0, b} : \A y \in {0, b} : x >= y /\ x \in Nat  OBVIOUS
<1> QED BY <1>1, <1>2 DEF Min, Max

LEMMA IdleTyped == Idle \in Frame /\ Idle.at = "idle"
  BY DEF Idle, Frame, HandlerStages, ClientStages, Callers, TrialStatus

-----------------------------------------------------------------------------
(* What Stripe tells: the events that a step sends, and the items they bill. *)

LEMMA EmitsTells ==
    ASSUME sent \in Seq(Event), due \subseteq DOMAIN sent, NEW events \in Seq(Event),
           Emits(events)
    PROVE  /\ sent' \in Seq(Event) /\ Len(sent') = Len(sent) + Len(events)
           /\ \A e \in DOMAIN sent : sent'[e] = sent[e]
           /\ \A e \in DOMAIN sent' \ DOMAIN sent : sent'[e] = events[e - Len(sent)]
                                                    /\ e - Len(sent) \in DOMAIN events
           /\ due' \subseteq DOMAIN sent'
  BY DEF Emits

LEMMA AboutTells ==
    ASSUME StripeType, NEW type \in EventTypes, NEW s \in Subs, NEW status \in StripeStatus,
           NEW final \in BOOLEAN
    PROVE  /\ About(type, s, status, final) \in Event
           /\ About(type, s, status, final).type = type
           /\ About(type, s, status, final).sub = s
           /\ \A n \in About(type, s, status, final).items : s \in AddonSubs /\ n \in items[s]
  BY DEF About, StripeType, Event

\* A step sends nothing, or events after those sent; a signup is the first of
\* all.  Its items were items of the subscription before; an item of a
\* subscription is added for the number of a request that charges it; and an
\* add-on subscription starts by such a request.
NewEvent(e, ev) ==
    /\ EventKind(ev)
    /\ ev.type = "signup" => e = 1
    /\ \A n \in ev.items : ev.sub \in AddonSubs /\ n \in items[ev.sub]

Ended == {"none", "canceled"}
StripeTold ==
    /\ stripe' \in [Subs -> [status : StripeStatus, closing : BOOLEAN]]
    /\ items' \in [AddonSubs -> SUBSET Phones]
    /\ sent' \in Seq(Event) /\ due' \subseteq DOMAIN sent'
    /\ Len(sent) <= Len(sent')
    /\ \A e \in DOMAIN sent : sent'[e] = sent[e]
    /\ \A e \in DOMAIN sent' \ DOMAIN sent : NewEvent(e, sent'[e])
    /\ \A s \in AddonSubs : \A n \in items'[s] :
         n \in items[s] \/ \E c \in Clients : Charges(c) /\ frame[c].phone = n
    /\ \A s \in AddonSubs : stripe'[s].status \notin Ended =>
         stripe[s].status \notin Ended \/ \E c \in Clients : ChargeFirst(c) /\ frame'[c].sub = s

LEMMA MovesTold ==
    ASSUME TypeInv, NEW s \in Subs, NEW status \in StripeStatus, NEW types \in Seq(EventTypes),
           NEW final \in BOOLEAN, Moves(s, status, types, final),
           s \in AddonSubs => stripe[s].status \notin Ended,
           \A i \in DOMAIN types :
             /\ types[i] \in {"signup", "subscribe"} => s \in PlanSubs
             /\ types[i] = "lead" => s \in LeadSubs
             /\ types[i] = "signup" => sent = <<>> /\ i = 1
    PROVE  StripeTold
<1> DEFINE events == [i \in DOMAIN types |-> About(types[i], s, status, final)]
<1>1. StripeType  BY TypeParts
<1>2. \A i \in DOMAIN types : types[i] \in EventTypes  OBVIOUS
<1>3. events \in Seq(Event) /\ DOMAIN events = DOMAIN types  BY <1>1, <1>2, AboutTells
<1>4. Emits(events)  BY DEF Moves
<1>5. \A e \in DOMAIN sent' \ DOMAIN sent : NewEvent(e, sent'[e])
  <2> SUFFICES ASSUME NEW e \in DOMAIN sent' \ DOMAIN sent PROVE NewEvent(e, sent'[e])
    OBVIOUS
  <2>1. sent \in Seq(Event) /\ due \subseteq DOMAIN sent  BY <1>1 DEF StripeType
  <2>2. sent'[e] = events[e - Len(sent)] /\ e - Len(sent) \in DOMAIN types
    BY <1>3, <1>4, <2>1, EmitsTells
  <2>3. PICK i \in DOMAIN types : i = e - Len(sent) /\ sent'[e] = About(types[i], s, status, final)
    BY <2>2
  <2>4. /\ sent'[e].type = types[i] /\ sent'[e].sub = s
        /\ \A n \in sent'[e].items : s \in AddonSubs /\ n \in items[s]
    BY <1>1, <1>2, <2>3, AboutTells
  <2>5. types[i] = "signup" => e = 1  BY <2>1, <2>3
  <2> QED BY <2>4, <2>5 DEF NewEvent, EventKind
<1>6. /\ sent' \in Seq(Event) /\ due' \subseteq DOMAIN sent' /\ Len(sent) <= Len(sent')
      /\ \A e \in DOMAIN sent : sent'[e] = sent[e]
  <2> HIDE DEF events
  <2>1. Len(events) \in Nat  BY <1>3
  <2> QED BY <1>1, <1>3, <1>4, <2>1, EmitsTells DEF StripeType
<1>7. stripe' = [stripe EXCEPT ![s].status = status]  BY DEF Moves
<1>8. items' \in [AddonSubs -> SUBSET Phones] /\ \A a \in AddonSubs : items'[a] \subseteq items[a]
  BY <1>1 DEF Moves, StripeType
<1> QED BY <1>1, <1>5, <1>6, <1>7, <1>8 DEF StripeTold, StripeType

LEMMA AmendsTold ==
    ASSUME TypeInv, NEW s \in PlanSubs, NEW status \in StripeStatus, NEW closing \in BOOLEAN,
           NEW types \in Seq({"updated", "paid", "failed"}), Amends(s, status, closing, types)
    PROVE  StripeTold
<1> DEFINE events == [i \in DOMAIN types |->
                        [About(types[i], s, status, FALSE) EXCEPT !.closing = closing]]
<1>1. StripeType  BY TypeParts
<1>2. \A i \in DOMAIN types : types[i] \in EventTypes /\ types[i] \in {"updated", "paid", "failed"}
  BY DEF EventTypes
<1>3. \A i \in DOMAIN types : events[i] \in Event /\ events[i].type = types[i] /\ events[i].items = {}
  <2> SUFFICES ASSUME NEW i \in DOMAIN types
               PROVE  events[i] \in Event /\ events[i].type = types[i] /\ events[i].items = {}
    OBVIOUS
  <2>1. PICK ev : ev = About(types[i], s, status, FALSE)  OBVIOUS
  <2>2. ev \in Event /\ ev.type = types[i] /\ ev.items = {}
    BY <1>1, <1>2, <2>1 DEF About, StripeType, Event
  <2> QED BY <2>1, <2>2 DEF Event
<1>4. events \in Seq(Event) /\ DOMAIN events = DOMAIN types
  <2>1. DOMAIN events = DOMAIN types  OBVIOUS
  <2>2. events = [i \in DOMAIN types |-> events[i]]  OBVIOUS
  <2> HIDE DEF events
  <2>3. events \in [1..Len(types) -> Event] /\ Len(types) \in Nat  BY <1>3, <2>1, <2>2
  <2> QED BY <2>1, <2>3
<1>5. Emits(events)  BY DEF Amends
<1> HIDE DEF events
<1>6. Len(events) \in Nat  BY <1>4
<1>7. sent \in Seq(Event) /\ due \subseteq DOMAIN sent  BY <1>1 DEF StripeType
<1>8. /\ sent' \in Seq(Event) /\ due' \subseteq DOMAIN sent' /\ Len(sent) <= Len(sent')
      /\ \A e \in DOMAIN sent : sent'[e] = sent[e]
  BY <1>4, <1>5, <1>6, <1>7, EmitsTells
<1>9. \A e \in DOMAIN sent' \ DOMAIN sent : NewEvent(e, sent'[e])
  <2> SUFFICES ASSUME NEW e \in DOMAIN sent' \ DOMAIN sent PROVE NewEvent(e, sent'[e])
    OBVIOUS
  <2>1. sent'[e] = events[e - Len(sent)] /\ e - Len(sent) \in DOMAIN types
    BY <1>4, <1>5, <1>7, EmitsTells
  <2> QED BY <1>2, <1>3, <2>1 DEF NewEvent, EventKind
<1> QED BY <1>1, <1>8, <1>9 DEF StripeTold, StripeType, Amends

\* An event of its own that is neither a checkout nor of another's items.
LEMMA SendsOne ==
    ASSUME TypeInv, NEW type \in {"deleted", "paid"}, NEW s \in Subs, NEW status \in StripeStatus,
           Emits(<<About(type, s, status, FALSE)>>)
    PROVE  /\ sent' \in Seq(Event) /\ due' \subseteq DOMAIN sent' /\ Len(sent) <= Len(sent')
           /\ \A e \in DOMAIN sent : sent'[e] = sent[e]
           /\ \A e \in DOMAIN sent' \ DOMAIN sent : NewEvent(e, sent'[e])
<1>1. PICK ev : ev = About(type, s, status, FALSE)  OBVIOUS
<1>2. StripeType /\ FALSE \in BOOLEAN /\ type \in EventTypes  BY TypeParts DEF EventTypes
<1>3. /\ ev \in Event /\ ev.type = type /\ ev.sub = s
      /\ \A n \in ev.items : s \in AddonSubs /\ n \in items[s]
  BY <1>1, <1>2 DEF About, StripeType, Event
<1>4. <<ev>> \in Seq(Event) /\ Len(<<ev>>) = 1 /\ DOMAIN <<ev>> = {1} /\ <<ev>>[1] = ev  BY <1>3
<1>5. Emits(<<ev>>)  BY <1>1
<1>6. sent \in Seq(Event) /\ due \subseteq DOMAIN sent  BY <1>2 DEF StripeType
<1>7. /\ sent' \in Seq(Event) /\ Len(sent') = Len(sent) + 1 /\ due' \subseteq DOMAIN sent'
      /\ \A e \in DOMAIN sent : sent'[e] = sent[e]
      /\ \A e \in DOMAIN sent' \ DOMAIN sent : sent'[e] = ev
  <2>1. PICK events \in Seq(Event) : events = <<ev>>  BY <1>4
  <2>2. Emits(events) /\ Len(events) = 1 /\ DOMAIN events = {1} /\ events[1] = ev
    BY <1>4, <1>5, <2>1
  <2>3. /\ sent' \in Seq(Event) /\ Len(sent') = Len(sent) + 1 /\ due' \subseteq DOMAIN sent'
        /\ \A e \in DOMAIN sent : sent'[e] = sent[e]
        /\ \A e \in DOMAIN sent' \ DOMAIN sent : sent'[e] = events[e - Len(sent)]
                                                 /\ e - Len(sent) \in {1}
    BY <1>6, <2>2, EmitsTells
  <2> QED BY <2>2, <2>3
<1> QED BY <1>3, <1>6, <1>7 DEF NewEvent, EventKind

LEMMA CancelsTold == ASSUME TypeInv, NEW s \in Subs, CancelsAtStripe(s) PROVE StripeTold
<1>1. StripeType  BY TypeParts
<1>2. CASE stripe[s].status \in {"none", "canceled"}
  BY <1>1, <1>2 DEF CancelsAtStripe, StripeTold, StripeType
<1>3. CASE stripe[s].status \notin {"none", "canceled"}
  <2>1. /\ stripe' = [stripe EXCEPT ![s].status = "canceled"]
        /\ Emits(<<About("deleted", s, "canceled", FALSE)>>)
        /\ items' = IF s \in AddonSubs THEN [items EXCEPT ![s] = {}] ELSE items
    BY <1>3 DEF CancelsAtStripe
  <2>2. "canceled" \in StripeStatus  BY DEF StripeStatus
  <2>3. /\ sent' \in Seq(Event) /\ due' \subseteq DOMAIN sent' /\ Len(sent) <= Len(sent')
        /\ \A e \in DOMAIN sent : sent'[e] = sent[e]
        /\ \A e \in DOMAIN sent' \ DOMAIN sent : NewEvent(e, sent'[e])
    BY <2>1, <2>2, SendsOne
  <2> QED BY <1>1, <2>1, <2>2, <2>3 DEF StripeTold, StripeType, Ended
<1> QED BY <1>2, <1>3

LEMMA ChargeFirstTold == ASSUME TypeInv, NEW c \in Clients, ChargeFirst(c) PROVE StripeTold
<1>1. PICK s \in AddonSubs :
          /\ stripe' = [stripe EXCEPT ![s].status = "active"]
          /\ items' = [items EXCEPT ![s] = {frame[c].phone}]
          /\ Emits(<<About("paid", s, "active", FALSE)>>)
          /\ frame' = [frame EXCEPT
                         ![c].at = IF At(c, "charge") THEN "addonRow" ELSE "addonRowBehalf",
                         ![c].sub = s]
  BY DEF ChargeFirst
<1>2. StripeType /\ FrameType /\ FrameKind(c)  BY TypeParts DEF KindsOK
<1>3. Charges(c)  BY DEF ChargeFirst
<1>4. frame[c].phone \in Phones  BY <1>2, <1>3 DEF Charges, FrameKind, Buying
<1>5. "active" \in StripeStatus  BY DEF StripeStatus
<1>6. /\ sent' \in Seq(Event) /\ due' \subseteq DOMAIN sent' /\ Len(sent) <= Len(sent')
      /\ \A e \in DOMAIN sent : sent'[e] = sent[e]
      /\ \A e \in DOMAIN sent' \ DOMAIN sent : NewEvent(e, sent'[e])
  BY <1>1, <1>5, SendsOne
<1>7. \A a \in AddonSubs : \A n \in items'[a] : n \in items[a] \/ n = frame[c].phone
  BY <1>1, <1>2 DEF StripeType
<1>8. frame'[c].sub = s  BY <1>1, <1>2 DEF FrameType, Frame
<1>9. /\ stripe' \in [Subs -> [status : StripeStatus, closing : BOOLEAN]]
      /\ items' \in [AddonSubs -> SUBSET Phones]
      /\ \A a \in AddonSubs : a # s => stripe'[a] = stripe[a]
  BY <1>1, <1>2, <1>4, <1>5 DEF StripeType
<1> QED BY <1>3, <1>6, <1>7, <1>8, <1>9 DEF StripeTold

LEMMA ChargeItemTold == ASSUME TypeInv, NEW c \in Clients, ChargeItem(c) PROVE StripeTold
<1>1. StripeType /\ FrameKind(c) /\ addonRow \in AddonSubs
  BY TypeParts DEF KindsOK, TypeInv, AccountTypeOK, ChargeItem
<1>2. Charges(c)  BY DEF ChargeItem
<1>3. frame[c].phone \in Phones  BY <1>1, <1>2 DEF Charges, FrameKind, Buying
<1>4. CASE stripe[addonRow].status = "canceled"
  BY <1>1, <1>4 DEF ChargeItem, StripeTold, StripeType
<1>5. CASE stripe[addonRow].status # "canceled"
  <2>1. /\ items' = [items EXCEPT ![addonRow] = @ \cup {frame[c].phone}]
        /\ Emits(<<About("paid", addonRow, stripe[addonRow].status, FALSE)>>)
        /\ UNCHANGED stripe
    BY <1>5 DEF ChargeItem
  <2>2. stripe[addonRow].status \in StripeStatus  BY <1>1 DEF StripeType
  <2>3. /\ sent' \in Seq(Event) /\ due' \subseteq DOMAIN sent' /\ Len(sent) <= Len(sent')
        /\ \A e \in DOMAIN sent : sent'[e] = sent[e]
        /\ \A e \in DOMAIN sent' \ DOMAIN sent : NewEvent(e, sent'[e])
    BY <1>1, <2>1, <2>2, SendsOne
  <2>4. /\ items' \in [AddonSubs -> SUBSET Phones]
        /\ \A a \in AddonSubs : \A n \in items'[a] : n \in items[a] \/ n = frame[c].phone
    BY <1>1, <1>3, <2>1 DEF StripeType
  <2> QED BY <1>1, <1>2, <2>1, <2>3, <2>4 DEF StripeTold, StripeType
<1> QED BY <1>4, <1>5

LEMMA SilentTold ==
    ASSUME TypeInv, UNCHANGED <<stripe, sent>>, due' \subseteq due,
           items' \in [AddonSubs -> SUBSET Phones],
           \A s \in AddonSubs : items'[s] \subseteq items[s]
    PROVE  StripeTold
  BY TypeParts DEF StripeTold, StripeType

LEMMA UnchangedTold == ASSUME TypeInv, UNCHANGED stripeVars PROVE StripeTold
  BY TypeParts DEF StripeTold, StripeType

LEMMA StripeActsTold == ASSUME TypeInv, StripeActs PROVE StripeTold
<1>1. PICK s \in Subs :
          (\E type \in {"signup", "subscribe", "lead"} : Checkout(s, type))
          \/ PeriodEnds(s) \/ RetryPays(s) \/ LastRetryFails(s)
  BY DEF StripeActs
<1>2. StripeType /\ {"trialing", "active", "past_due", "canceled"} \subseteq StripeStatus
      /\ {TRUE, FALSE} = BOOLEAN
  BY TypeParts DEF StripeStatus
<1>3. CASE \E type \in {"signup", "subscribe", "lead"} : Checkout(s, type)
  <2>1. CASE s \in PlanSubs /\ sent = <<>> /\ Moves(s, "trialing", <<"signup">>, FALSE)
    <3>1. <<"signup">> \in Seq(EventTypes) /\ DOMAIN <<"signup">> = {1} /\ <<"signup">>[1] = "signup"
      BY DEF EventTypes
    <3>2. s \notin AddonSubs /\ \A i \in DOMAIN <<"signup">> : i = 1  BY <2>1, <3>1
    <3>3. "trialing" \in StripeStatus /\ FALSE \in BOOLEAN  BY <1>2
    <3> QED BY <2>1, <3>1, <3>2, <3>3, MovesTold
  <2>2. CASE s \in PlanSubs /\ Moves(s, "active", <<"subscribe">>, FALSE)
    <3>1. <<"subscribe">> \in Seq(EventTypes) /\ DOMAIN <<"subscribe">> = {1}
          /\ <<"subscribe">>[1] = "subscribe"
      BY DEF EventTypes
    <3>2. s \notin AddonSubs  BY <2>2
    <3>3. "active" \in StripeStatus /\ FALSE \in BOOLEAN  BY <1>2
    <3> QED BY <2>2, <3>1, <3>2, <3>3, MovesTold
  <2>3. CASE s \in LeadSubs /\ Moves(s, "active", <<"lead">>, FALSE)
    <3>1. <<"lead">> \in Seq(EventTypes) /\ DOMAIN <<"lead">> = {1} /\ <<"lead">>[1] = "lead"
      BY DEF EventTypes
    <3>2. s \notin AddonSubs  BY <2>3
    <3>3. "active" \in StripeStatus /\ FALSE \in BOOLEAN  BY <1>2
    <3> QED BY <2>3, <3>1, <3>2, <3>3, MovesTold
  <2> QED BY <1>3, <2>1, <2>2, <2>3 DEF Checkout
<1>4. ASSUME NEW status \in {"active", "past_due", "canceled"}, NEW final \in BOOLEAN,
             NEW types \in Seq({"updated", "paid", "failed", "deleted"}),
             Moves(s, status, types, final), stripe[s].status \notin Ended
      PROVE  StripeTold
  <2>1. status \in StripeStatus  BY <1>2
  <2>2. /\ types \in Seq(EventTypes)
        /\ \A i \in DOMAIN types : types[i] \notin {"signup", "subscribe", "lead"}
    BY DEF EventTypes
  <2> QED BY <1>4, <2>1, <2>2, MovesTold
<1>5. /\ <<"updated", "paid">> \in Seq({"updated", "paid", "failed", "deleted"})
      /\ <<"updated", "failed">> \in Seq({"updated", "paid", "failed", "deleted"})
      /\ <<"paid">> \in Seq({"updated", "paid", "failed", "deleted"})
      /\ <<"deleted">> \in Seq({"updated", "paid", "failed", "deleted"})
  OBVIOUS
<1>6. CASE PeriodEnds(s)
  <2>1. stripe[s].status \notin Ended  BY <1>6 DEF PeriodEnds, Ended
  <2>2. CASE Moves(s, "canceled", <<"deleted">>, FALSE)  BY <1>4, <1>5, <2>1, <2>2
  <2>3. CASE Moves(s, "active", <<"updated", "paid">>, FALSE)  BY <1>4, <1>5, <2>1, <2>3
  <2>4. CASE Moves(s, "active", <<"paid">>, FALSE)  BY <1>4, <1>5, <2>1, <2>4
  <2>5. CASE \E final \in BOOLEAN : Moves(s, "past_due", <<"updated", "failed">>, final)
    BY <1>4, <1>5, <2>1, <2>5
  <2>6. \/ Moves(s, "canceled", <<"deleted">>, FALSE)
        \/ Moves(s, "active", IF stripe[s].status = "trialing" THEN <<"updated", "paid">>
                              ELSE <<"paid">>, FALSE)
        \/ \E final \in BOOLEAN : Moves(s, "past_due", <<"updated", "failed">>, final)
    BY <1>6, Zenon DEF PeriodEnds
  <2>7. CASE stripe[s].status = "trialing"  BY <2>2, <2>3, <2>5, <2>6, <2>7
  <2>8. CASE stripe[s].status # "trialing"  BY <2>2, <2>4, <2>5, <2>6, <2>8
  <2> QED BY <2>7, <2>8
<1>7. CASE RetryPays(s)
  <2>1. stripe[s].status \notin Ended /\ Moves(s, "active", <<"updated", "paid">>, FALSE)
    BY <1>7 DEF RetryPays, Ended
  <2> QED BY <1>4, <1>5, <2>1
<1>8. CASE LastRetryFails(s)
  <2>1. stripe[s].status \notin Ended  BY <1>8 DEF LastRetryFails, Ended
  <2>2. PICK last : last = About("failed", s, "past_due", TRUE)  OBVIOUS
  <2>3. PICK settled \in {"canceled", "past_due"} :
          /\ stripe' = [stripe EXCEPT ![s].status = settled]
          /\ items' = IF settled = "canceled" /\ s \in AddonSubs
                      THEN [items EXCEPT ![s] = {}] ELSE items
          /\ Emits(IF settled = "canceled"
                   THEN <<About("failed", s, "past_due", TRUE),
                          About("deleted", s, "canceled", FALSE)>>
                   ELSE <<About("failed", s, "past_due", TRUE),
                          About("uncollectible", s, "past_due", TRUE)>>)
    BY <1>8, Zenon DEF LastRetryFails
  <2> DEFINE tail == IF settled = "canceled" THEN About("deleted", s, "canceled", FALSE)
                     ELSE About("uncollectible", s, "past_due", TRUE)
  <2>15. Emits(<<last, tail>>)
    <3>1. CASE settled = "canceled"  BY <2>2, <2>3, <3>1
    <3>2. CASE settled # "canceled"  BY <2>2, <2>3, <3>2
    <3> QED BY <3>1, <3>2
  <2>16. PICK ends : ends = tail  OBVIOUS
  <2>4. /\ last \in Event /\ last.type = "failed" /\ last.sub = s
        /\ \A n \in last.items : s \in AddonSubs /\ n \in items[s]
    BY <1>2, <2>2 DEF About, StripeType, Event, EventTypes, StripeStatus
  <2>5. /\ ends \in Event /\ ends.type \in {"deleted", "uncollectible"} /\ ends.sub = s
        /\ \A n \in ends.items : s \in AddonSubs /\ n \in items[s]
    BY <1>2, <2>16 DEF About, StripeType, Event, EventTypes, StripeStatus
  <2>17. <<last, ends>> \in Seq(Event)  BY <2>4, <2>5
  <2>6. PICK events \in Seq(Event) : events = <<last, ends>>  BY <2>17
  <2>7. Emits(events) /\ Len(events) = 2 /\ DOMAIN events = {1, 2}
        /\ events[1] = last /\ events[2] = ends
    BY <2>15, <2>16, <2>6
  <2>8. sent \in Seq(Event) /\ due \subseteq DOMAIN sent  BY <1>2 DEF StripeType
  <2>9. /\ sent' \in Seq(Event) /\ Len(sent') = Len(sent) + 2 /\ due' \subseteq DOMAIN sent'
        /\ \A e \in DOMAIN sent : sent'[e] = sent[e]
        /\ \A e \in DOMAIN sent' \ DOMAIN sent : sent'[e] = events[e - Len(sent)]
                                                 /\ e - Len(sent) \in {1, 2}
    BY <2>7, <2>8, EmitsTells
  <2>10. \A e \in DOMAIN sent' \ DOMAIN sent : sent'[e] \in {last, ends}  BY <2>7, <2>9
  <2>11. \A e \in DOMAIN sent' \ DOMAIN sent : NewEvent(e, sent'[e])
    BY <2>4, <2>5, <2>10 DEF NewEvent, EventKind
  <2>12. stripe' \in [Subs -> [status : StripeStatus, closing : BOOLEAN]]
    BY <1>2, <2>3 DEF StripeType
  <2>13. items' \in [AddonSubs -> SUBSET Phones] /\ \A a \in AddonSubs : items'[a] \subseteq items[a]
    BY <1>2, <2>3 DEF StripeType
  <2>14. \A a \in AddonSubs : stripe'[a].status \notin Ended => stripe[a].status \notin Ended
    BY <1>2, <2>1, <2>3 DEF StripeType
  <2> QED BY <2>8, <2>9, <2>11, <2>12, <2>13, <2>14 DEF StripeTold
<1> QED BY <1>1, <1>3, <1>6, <1>7, <1>8

LEMMA SubTyped ==
    ASSUME TypeInv, NEW c \in Clients, frame[c].at \in {"cancel", "renew", "endTrial", "card"}
    PROVE  /\ frame[c].sub \in PlanSubs
           /\ stripe[frame[c].sub].status \in StripeStatus
           /\ stripe[frame[c].sub].closing \in BOOLEAN
  BY TypeParts DEF KindsOK, FrameKind, StripeType

LEMMA AmendKinds ==
    /\ <<"updated">> \in Seq({"updated", "paid", "failed"})
    /\ <<"updated", "paid">> \in Seq({"updated", "paid", "failed"})
    /\ <<"updated", "failed">> \in Seq({"updated", "paid", "failed"})
    /\ {"active", "past_due"} \subseteq StripeStatus /\ {TRUE, FALSE} \subseteq BOOLEAN
  BY DEF StripeStatus

\* The requests that speak to Stripe of a plan.
LEMMA PlanRequestsTold ==
    ASSUME TypeInv, NEW c \in Clients,
           CancelAtStripe(c) \/ RenewAtStripe(c) \/ ChangePlan(c) \/ EndTrialAtStripe(c)
           \/ CardPays(c) \/ CancelLead(c) \/ SuspendLead(c) \/ SuspendAtStripe(c)
    PROVE  StripeTold
<1>1. CASE CancelAtStripe(c)
  <2>1. PICK s : s = frame[c].sub  OBVIOUS
  <2>2. s \in PlanSubs /\ stripe[s].status \in StripeStatus
    BY <1>1, <2>1, SubTyped DEF CancelAtStripe
  <2>3. UNCHANGED stripeVars \/ Amends(s, stripe[s].status, TRUE, <<"updated">>)
    BY <1>1, <2>1 DEF CancelAtStripe
  <2> QED BY <2>2, <2>3, AmendKinds, AmendsTold, UnchangedTold
<1>2. CASE RenewAtStripe(c)
  <2>1. PICK s : s = frame[c].sub  OBVIOUS
  <2>2. s \in PlanSubs /\ stripe[s].status \in StripeStatus
    BY <1>2, <2>1, SubTyped DEF RenewAtStripe
  <2>3. UNCHANGED stripeVars \/ Amends(s, stripe[s].status, FALSE, <<"updated">>)
    BY <1>2, <2>1 DEF RenewAtStripe
  <2> QED BY <2>2, <2>3, AmendKinds, AmendsTold, UnchangedTold
<1>3. CASE ChangePlan(c)
  <2>1. PICK s \in PlanSubs : Amends(s, stripe[s].status, stripe[s].closing, <<"updated">>)
    BY <1>3 DEF ChangePlan
  <2>2. stripe[s].status \in StripeStatus /\ stripe[s].closing \in BOOLEAN
    BY TypeParts DEF StripeType
  <2> QED BY <2>1, <2>2, AmendKinds, AmendsTold
<1>4. CASE EndTrialAtStripe(c)
  <2>1. PICK s : s = frame[c].sub  OBVIOUS
  <2>2. s \in PlanSubs /\ stripe[s].closing \in BOOLEAN
    BY <1>4, <2>1, SubTyped DEF EndTrialAtStripe
  <2>3. \/ UNCHANGED stripeVars
        \/ Amends(s, "active", stripe[s].closing, <<"updated", "paid">>)
        \/ Amends(s, "past_due", stripe[s].closing, <<"updated", "failed">>)
    BY <1>4, <2>1 DEF EndTrialAtStripe
  <2> QED BY <2>2, <2>3, AmendKinds, AmendsTold, UnchangedTold
<1>5. CASE CardPays(c)
  <2>1. PICK s : s = frame[c].sub  OBVIOUS
  <2>2. s \in PlanSubs /\ stripe[s].closing \in BOOLEAN
    BY <1>5, <2>1, SubTyped DEF CardPays
  <2>3. \/ UNCHANGED stripeVars
        \/ Amends(s, "active", stripe[s].closing, <<"updated", "paid">>)
    BY <1>5, <2>1 DEF CardPays
  <2> QED BY <2>2, <2>3, AmendKinds, AmendsTold, UnchangedTold
<1>6. CASE CancelLead(c) \/ SuspendLead(c)
  <2>1. PICK s \in LeadSubs : CancelsAtStripe(s) \/ UNCHANGED stripeVars
    BY <1>6 DEF CancelLead, SuspendLead, TriesToCancel
  <2> QED BY <2>1, CancelsTold, UnchangedTold
<1>7. CASE SuspendAtStripe(c)
  <2>1. PICK r \in frame[c].rowIds :
            \/ IF r \in DOMAIN rows THEN CancelsAtStripe(rows[r].sub) ELSE UNCHANGED stripeVars
            \/ UNCHANGED stripeVars
    BY <1>7, Zenon DEF SuspendAtStripe
  <2>4. CASE UNCHANGED stripeVars  BY <2>4, UnchangedTold
  <2>2. CASE r \in DOMAIN rows /\ ~UNCHANGED stripeVars
    <3>1. PICK s : s = rows[r].sub  OBVIOUS
    <3>2. rows \in Seq(Row)  BY DEF TypeInv, AccountTypeOK
    <3>3. rows[r] \in Row  BY <2>2, <3>2
    <3>4. s \in Subs  BY <3>1, <3>3 DEF Row
    <3>5. CancelsAtStripe(s)  BY <2>1, <2>2, <3>1
    <3> QED BY <3>4, <3>5, CancelsTold
  <2>3. CASE r \notin DOMAIN rows  BY <2>1, <2>3, UnchangedTold
  <2> QED BY <2>2, <2>3, <2>4
<1> QED BY <1>1, <1>2, <1>3, <1>4, <1>5, <1>6, <1>7

\* The procedures and requests of the add-on numbers that speak to Stripe.
LEMMA LineStepsTold ==
    ASSUME TypeInv, NEW p \in Procs,
           CancelAddon(p) \/ (p \in Clients /\ (ChargeFirst(p) \/ ChargeItem(p) \/ Transfer(p)
                                                \/ DeleteItem(p) \/ UserReleases(p)))
    PROVE  StripeTold
<1>1. CASE CancelAddon(p)
  <2>1. PICK s : s = addonRow  OBVIOUS
  <2>2. s \in Subs /\ (CancelsAtStripe(s) \/ UNCHANGED stripeVars)
    BY <1>1, <2>1 DEF CancelAddon, TypeInv, AccountTypeOK
  <2> QED BY <2>2, CancelsTold, UnchangedTold
<1>2. CASE p \in Clients /\ (ChargeFirst(p) \/ ChargeItem(p))
  BY <1>2, ChargeFirstTold, ChargeItemTold
<1>3. CASE p \in Clients /\ (Transfer(p) \/ DeleteItem(p) \/ UserReleases(p))
  <2>1. UNCHANGED <<stripe, sent, due>>
    BY <1>3 DEF Transfer, DeleteItem, UserReleases
  <2>2. items' \in [AddonSubs -> SUBSET Phones] /\ \A s \in AddonSubs : items'[s] \subseteq items[s]
    <3>1. items \in [AddonSubs -> SUBSET Phones]  BY TypeParts DEF StripeType
    <3>2. CASE Transfer(p)  BY <3>1, <3>2 DEF Transfer
    <3>3. CASE DeleteItem(p)  BY <3>1, <3>3 DEF DeleteItem, RemovesItem
    <3>4. CASE UserReleases(p)
      <4>1. PICK n \in frame[p].todo : RemovesItem(n)  BY <3>4 DEF UserReleases
      <4> QED BY <3>1, <4>1 DEF RemovesItem
    <3> QED BY <1>3, <3>2, <3>3, <3>4
  <2> QED BY <2>1, <2>2, SilentTold
<1> QED BY <1>1, <1>2, <1>3

LEMMA StripeTells == ASSUME TypeInv, [AccountNext]_accountVars PROVE StripeTold
<1>1. CASE UNCHANGED accountVars  BY <1>1, UnchangedTold
<1>2. CASE StripeActs  BY <1>2, StripeActsTold
<1>3. ASSUME NEW e \in due, Skip(e) PROVE StripeTold
  BY <1>3, SilentTold, TypeParts DEF Skip, StripeType
<1>4. ASSUME NEW e \in due, NEW h \in Handlers, Receive(h, e) PROVE StripeTold
  BY <1>4, UnchangedTold DEF Receive
<1>5. ASSUME NEW h \in Handlers, Handle(h) PROVE StripeTold
  <2>1. CASE StepFails(h) \/ Record(h)
    <3>1. UNCHANGED <<stripe, items, sent>> /\ due' \subseteq due
      BY <2>1 DEF StepFails, Record
    <3> QED BY <3>1, SilentTold, TypeParts DEF StripeType
  <2>2. CASE CancelAddon(h)  BY <2>2, LineStepsTold
  <2>3. CASE /\ ~(StepFails(h) \/ Record(h) \/ CancelAddon(h))
    <3>1. UNCHANGED stripeVars
      BY <1>5, <2>3 DEF Handle, SignupExists, SignupUser, SignupRow, SignupFlag, SignupBuy, Buys,
         SignupStore, StoresIncluded, SignupLost, SignupDone, UndoRow, UndoUser, UndoFails,
         SubscribeRow, SubscribeFlag, LeadPurchased, NoPlan, UpdatedRow, WritesRow, UpdatedTrial,
         UpdatedFlags, DeletedLead, DeletedRow, DeletedFlags, FailedRow, FailedFlag, PaidRow,
         Uncollectible, TopUp, TopUpBuy, TopUpStore, TopUpEnds, ReleaseFinds, ReleaseOne,
         ReleaseDeletes, ReleaseFails, NoAddon, DropAddon, Unpaid, UnpaidRelease, UnpaidRow,
         DeletesRow, UnpaidCount, Reject
    <3> QED BY <3>1, UnchangedTold
  <2> QED BY <2>1, <2>2, <2>3
<1>6. ASSUME NEW h \in Handlers, SignupFails(h) PROVE StripeTold
  BY <1>6, UnchangedTold DEF SignupFails
<1>7. ASSUME NEW c \in Clients, Start(c) PROVE StripeTold
  <2>1. CASE ChangePlan(c) \/ CancelLead(c)  BY <2>1, PlanRequestsTold
  <2>2. CASE ~(ChangePlan(c) \/ CancelLead(c))
    <3>1. UNCHANGED stripeVars
      BY <1>7, <2>2 DEF Start, Cancel, Renew, EndTrial, NewCard, Reads, Suspend, Buy, BuyOnBehalf,
         Asks, Delete, DeleteUser
    <3> QED BY <3>1, UnchangedTold
  <2> QED BY <2>1, <2>2
<1>8. ASSUME NEW c \in Clients, Answer(c) PROVE StripeTold
  <2>1. CASE CancelAtStripe(c) \/ RenewAtStripe(c) \/ EndTrialAtStripe(c) \/ CardPays(c)
             \/ SuspendLead(c) \/ SuspendAtStripe(c)
    BY <2>1, PlanRequestsTold
  <2>2. CASE CancelAddon(c) \/ ChargeFirst(c) \/ ChargeItem(c) \/ Transfer(c) \/ DeleteItem(c)
             \/ UserReleases(c)
    BY <2>2, LineStepsTold
  <2>3. CASE CancelRow(c) \/ RenewRow(c) \/ RenewFlag(c) \/ EndTrialFlags(c) \/ SuspendRow(c)
             \/ SuspendAddon(c) \/ SuspendFlags(c) \/ NoAddon(c) \/ DropAddon(c)
             \/ BuyIncluded(c) \/ StoreIncluded(c) \/ BuyPaid(c) \/ AddonRow(c) \/ Declined(c)
             \/ StorePaid(c) \/ GiveBack(c) \/ DeleteRelease(c) \/ DeleteCount(c) \/ DeleteRow(c)
             \/ UserReleased(c) \/ UserRow(c) \/ RequestFails(c)
    <3>1. UNCHANGED stripeVars
      BY <2>3 DEF CancelRow, RenewRow, RenewFlag, EndTrialFlags, SuspendRow, SuspendAddon,
         SuspendFlags, NoAddon, DropAddon, BuyIncluded, Buys, StoreIncluded, BuyPaid, AddonRow,
         Declined, StorePaid, GiveBack, DeleteRelease, DeleteCount, DeleteRow, DeletesRow,
         UserReleased, UserRow, RequestFails
    <3> QED BY <3>1, UnchangedTold
  <2> QED BY <1>8, <2>1, <2>2, <2>3 DEF Answer
<1>9. CASE Crash  BY <1>9, UnchangedTold DEF Crash
<1> QED BY <1>1, <1>2, <1>3, <1>4, <1>5, <1>6, <1>7, <1>8, <1>9 DEF AccountNext

-----------------------------------------------------------------------------
(* A step of one process leaves the others where they are and itself in a    *)
(* frame of the right kind.                                                 *)

TurnOK(p) ==
    /\ frame' \in [Procs -> Frame]
    /\ \A q \in Procs \ {p} : frame'[q] = frame[q]
    /\ p \in Handlers =>
         /\ frame'[p].at \in HandlerStages
         /\ frame'[p].at # "idle" => frame'[p].ev \in DOMAIN sent
         /\ frame'[p].at = "signupRow" => sent[frame'[p].ev].type = "signup"
    /\ p \in Clients => frame'[p].at \in ClientStages
    /\ frame'[p].at \in {"cancelAddon", "dropAddon"} =>
         frame'[p].then \in (IF p \in Handlers THEN {"record", "unpaid"}
                            ELSE {"suspendLeads", "deleteRow", "userRow"})
    /\ FrameKind(p)'

LEMMA TurnTyped ==
    ASSUME TypeInv, StripeTold, NEW p \in Procs, TurnOK(p)
    PROVE  FrameType' /\ KindsOK'
<1>1. FrameType /\ KindsOK /\ StripeType  BY TypeParts
<1>2. DOMAIN sent \subseteq DOMAIN sent' /\ \A e \in DOMAIN sent : sent'[e] = sent[e]
  BY <1>1 DEF StripeTold, StripeType
<1>3. FrameType'  BY <1>1, <1>2 DEF TurnOK, FrameType
<1>4. \A q \in Procs : FrameKind(q)'  BY <1>1 DEF TurnOK, KindsOK, FrameKind
<1>5. \A e \in DOMAIN sent' : EventKind(sent'[e])
  BY <1>1, <1>2 DEF StripeTold, NewEvent, KindsOK
<1>6. \A h \in Handlers : frame'[h].at = "signupRow" => sent'[frame'[h].ev].type = "signup"
  <2> SUFFICES ASSUME NEW h \in Handlers, frame'[h].at = "signupRow"
               PROVE  sent'[frame'[h].ev].type = "signup"
    OBVIOUS
  <2>1. CASE h = p  BY <1>2, <2>1 DEF TurnOK
  <2>2. CASE h # p
    <3>1. frame'[h] = frame[h]  BY <2>2 DEF TurnOK
    <3>2. frame[h].ev \in DOMAIN sent /\ sent[frame[h].ev].type = "signup"
      BY <1>1, <3>1 DEF FrameType, KindsOK, Ev
    <3> QED BY <1>2, <3>1, <3>2
  <2> QED BY <2>1, <2>2
<1> QED BY <1>3, <1>4, <1>5, <1>6 DEF KindsOK, Ev

\* A process that changes its stage only, and one that answers.
LEMMA GotoTurns ==
    ASSUME TypeInv, NEW p \in Procs, NEW stage, Goto(p, stage),
           p \in Handlers => frame[p].at # "idle",
           p \in Handlers => stage \in HandlerStages \ {"signupRow"},
           p \in Clients => stage \in ClientStages,
           stage \notin {"cancel", "renew", "endTrial", "card", "signupStore", "topUpStore"},
           stage \in Buying => frame[p].at \in Buying,
           stage \in {"addonRow", "addonRowBehalf", "transfer", "storePaid"} =>
             frame[p].at \in {"addonRow", "addonRowBehalf", "transfer", "storePaid"},
           stage = "dropAddon" => frame[p].at = "cancelAddon",
           stage # "cancelAddon"
    PROVE  TurnOK(p)
<1>1. FrameType /\ FrameKind(p)  BY TypeParts DEF KindsOK
<1>2. frame[p] \in Frame /\ stage \in HandlerStages \cup ClientStages  BY <1>1 DEF FrameType
<1>3. [frame[p] EXCEPT !.at = stage] \in Frame  BY <1>2 DEF Frame
<1>4. frame' = [frame EXCEPT ![p] = [frame[p] EXCEPT !.at = stage]]  OBVIOUS
<1>5. frame' \in [Procs -> Frame] /\ frame'[p] = [frame[p] EXCEPT !.at = stage]
      /\ \A q \in Procs \ {p} : frame'[q] = frame[q]
  BY <1>1, <1>3, <1>4 DEF FrameType
<1>6. /\ frame'[p].at = stage /\ frame'[p].ev = frame[p].ev /\ frame'[p].then = frame[p].then
      /\ frame'[p].sub = frame[p].sub /\ frame'[p].phone = frame[p].phone
  BY <1>2, <1>5 DEF Frame
<1> QED BY <1>1, <1>5, <1>6 DEF TurnOK, FrameType, FrameKind, Buying

LEMMA IdleTurns ==
    ASSUME TypeInv, NEW p \in Procs, frame' = [frame EXCEPT ![p] = Idle]
    PROVE  TurnOK(p)
<1>1. FrameType  BY TypeParts
<1>2. frame' \in [Procs -> Frame] /\ frame'[p] = Idle /\ \A q \in Procs \ {p} : frame'[q] = frame[q]
  BY <1>1, IdleTyped DEF FrameType
<1> QED BY <1>2, IdleTyped DEF TurnOK, FrameKind, Buying, HandlerStages, ClientStages

\* The steps of the webhook that only go on to another stage.
LEMMA HandlerGoes ==
    ASSUME TypeInv, NEW h \in Handlers,
           \/ SignupExists(h) \/ SignupUser(h) \/ SignupDone(h) \/ SignupFails(h) \/ SignupLost(h)
           \/ UndoRow(h) \/ UndoUser(h) \/ UndoFails(h) \/ SubscribeRow(h) \/ SubscribeFlag(h)
           \/ LeadPurchased(h) \/ NoPlan(h) \/ UpdatedRow(h) \/ UpdatedFlags(h) \/ DeletedLead(h)
           \/ DeletedRow(h) \/ DeletedFlags(h) \/ FailedRow(h) \/ PaidRow(h) \/ TopUpEnds(h)
           \/ ReleaseFails(h) \/ NoAddon(h) \/ CancelAddon(h) \/ DropAddon(h)
           \/ UnpaidRelease(h) \/ UnpaidRow(h)
           \/ StepFails(h) \/ Record(h) \/ Reject(h)
    PROVE  TurnOK(h)
<1>1. FrameType /\ h \in Procs /\ h \notin Clients  BY TypeParts
<1>2. CASE SignupUser(h)
  <2>1. /\ frame[h].at = "begin" /\ Goto(h, "signupRow") /\ sent[frame[h].ev].type = "signup"
    BY <1>2 DEF SignupUser, Handles, Ev
  <2>2. frame[h] \in Frame /\ frame[h].ev \in DOMAIN sent  BY <1>1, <2>1 DEF FrameType
  <2>3. [frame[h] EXCEPT !.at = "signupRow"] \in Frame
    BY <2>2 DEF Frame, HandlerStages
  <2>4. frame' = [frame EXCEPT ![h] = [frame[h] EXCEPT !.at = "signupRow"]]  BY <2>1
  <2>5. frame' \in [Procs -> Frame] /\ frame'[h] = [frame[h] EXCEPT !.at = "signupRow"]
        /\ \A q \in Procs \ {h} : frame'[q] = frame[q]
    BY <1>1, <2>3, <2>4 DEF FrameType
  <2>6. frame'[h].at = "signupRow" /\ frame'[h].ev = frame[h].ev  BY <2>2, <2>5 DEF Frame
  <2> QED BY <1>1, <2>1, <2>2, <2>5, <2>6 DEF TurnOK, FrameKind, Buying, HandlerStages
<1>3. CASE Record(h) \/ Reject(h) \/ StepFails(h)
  <2>1. frame' = [frame EXCEPT ![h] = Idle]  BY <1>3 DEF Record, Reject, StepFails
  <2> QED BY <1>1, <2>1, IdleTurns
<1>4. CASE DropAddon(h) \/ NoAddon(h)
  <2>1. frame[h].at \in {"cancelAddon", "dropAddon"} /\ Goto(h, frame[h].then)
    BY <1>4 DEF DropAddon, NoAddon
  <2>2. frame[h].then \in {"record", "unpaid"}  BY <1>1, <2>1 DEF FrameType
  <2> QED BY <1>1, <2>1, <2>2, GotoTurns DEF HandlerStages, Buying
<1>5. CASE ~(SignupUser(h) \/ Record(h) \/ Reject(h) \/ StepFails(h) \/ DropAddon(h) \/ NoAddon(h))
  <2>1. PICK stage \in {"record", "undoUser", "undoRow", "reject", "subscribeFlag", "updatedTrial",
                        "topUp", "deletedFlags", "release", "failedFlag", "paidFlag",
                        "dropAddon", "unpaidRow", "unpaidCount"} :
            /\ Goto(h, stage) /\ frame[h].at # "idle"
            /\ stage = "dropAddon" => frame[h].at = "cancelAddon"
    BY <1>5 DEF SignupExists, SignupDone, SignupFails, SignupLost, InSignup, Undoes, Handles,
       UndoRow, UndoUser, UndoFails, SubscribeRow, SubscribeFlag, LeadPurchased, NoPlan, UpdatedRow,
       WritesRow, UpdatedFlags, DeletedLead, DeletedRow, DeletedFlags, FailedRow, PaidRow, TopUpEnds,
       ReleaseFails, CancelAddon, UnpaidRelease, UnpaidRow, DeletesRow
  <2> QED BY <1>1, <2>1, GotoTurns DEF HandlerStages, Buying
<1> QED BY <1>2, <1>3, <1>4, <1>5

LEMMA BuysTurns ==
    ASSUME TypeInv, NEW p \in Procs, NEW stage, NEW next, Buys(p, stage, next), stage # "idle",
           p \in Handlers => next \in HandlerStages, p \in Clients => next \in ClientStages,
           next \in {"signupStore", "topUpStore", "storeIncluded", "charge", "chargeBehalf"},
           next \in {"signupStore", "topUpStore"} => frame[p].left > 0
    PROVE  TurnOK(p)
<1>1. FrameType /\ next \in HandlerStages \cup ClientStages
  BY TypeParts
<1>2. PICK n \in Phones : frame' = [frame EXCEPT ![p].at = next, ![p].phone = n]
  BY DEF Buys
<1>3. /\ frame' \in [Procs -> Frame] /\ \A q \in Procs \ {p} : frame'[q] = frame[q]
      /\ frame'[p].at = next /\ frame'[p].phone = n /\ frame'[p].left = frame[p].left
      /\ frame'[p].ev = frame[p].ev
  BY <1>1, <1>2 DEF FrameType, Frame
<1> QED BY <1>1, <1>3 DEF TurnOK, FrameType, FrameKind, Buys

\* A handler whose frame becomes f.
LEMMA HandlerSets ==
    ASSUME TypeInv, NEW h \in Handlers, NEW f \in Frame, frame' = [frame EXCEPT ![h] = f],
           frame[h].at # "idle", f.ev = frame[h].ev,
           f.at \in {"signupFlag", "signupBuy", "updatedFlags", "unpaid"}
    PROVE  TurnOK(h)
<1>1. FrameType /\ h \in Procs /\ h \notin Clients  BY TypeParts
<1>2. frame' \in [Procs -> Frame] /\ frame'[h] = f /\ \A q \in Procs \ {h} : frame'[q] = frame[q]
  BY <1>1 DEF FrameType
<1> QED BY <1>1, <1>2 DEF TurnOK, FrameKind, FrameType, Buying, HandlerStages

LEMMA HandlerMoves ==
    ASSUME TypeInv, NEW h \in Handlers,
           \/ SignupRow(h) \/ SignupFlag(h) \/ SignupBuy(h) \/ SignupStore(h)
           \/ UpdatedTrial(h) \/ FailedFlag(h) \/ Uncollectible(h)
           \/ TopUp(h) \/ TopUpBuy(h) \/ TopUpStore(h)
           \/ ReleaseFinds(h) \/ ReleaseOne(h) \/ ReleaseDeletes(h) \/ Unpaid(h) \/ UnpaidCount(h)
    PROVE  TurnOK(h)
<1> USE DEF TurnOK, FrameKind, Buying
<1>1. FrameType /\ FrameKind(h) /\ h \in Procs /\ h \notin Clients  BY TypeParts DEF KindsOK
<1>2. frame \in [Procs -> Frame] /\ frame[h] \in Frame  BY <1>1 DEF FrameType
<1>3. frame[h].at # "idle" => frame[h].ev \in DOMAIN sent /\ Ev(h).items \subseteq Phones
  <2>1. frame[h].at # "idle" => frame[h].ev \in DOMAIN sent  BY <1>1 DEF FrameType
  <2>2. \A e \in DOMAIN sent : sent[e] \in Event  BY TypeParts DEF StripeType
  <2> QED BY <2>1, <2>2 DEF Event, Ev
<1>4. Numbers \subseteq Phones  BY DEF Numbers
<1>5. CASE SignupRow(h)
  <2>1. Len(rows) + 1 \in Nat  BY DEF TypeInv, AccountTypeOK
  <2>2. PICK f : f = [frame[h] EXCEPT !.at = "signupFlag", !.row = Len(rows) + 1]  OBVIOUS
  <2>3. frame' = [frame EXCEPT ![h] = f] /\ frame[h].at = "signupRow"
    BY <1>5, <2>2 DEF SignupRow
  <2>4. f \in Frame /\ f.at = "signupFlag" /\ f.ev = frame[h].ev
    BY <1>2, <2>1, <2>2 DEF Frame, HandlerStages
  <2> QED BY <2>3, <2>4, HandlerSets
<1>6. CASE SignupFlag(h)
  <2>2. Included \in Nat /\ TrialCap \in Nat /\ TrialCap \in Int
    BY AccountAssumption DEF AccountAssumption
  <2>1. Min({Included, TrialCap}) \in Nat  BY <2>2, MinMax, Zenon
  <2>3. PICK n \in Nat : n = Min({Included, TrialCap})  BY <2>1
  <2>4. PICK f : f = [frame[h] EXCEPT !.at = "signupBuy", !.left = n]  OBVIOUS
  <2>5. frame' = [frame EXCEPT ![h] = f] /\ frame[h].at = "signupFlag"
    BY <1>6, <2>3, <2>4 DEF SignupFlag
  <2>6. f \in Frame /\ f.at = "signupBuy" /\ f.ev = frame[h].ev
    BY <1>2, <2>4 DEF Frame, HandlerStages
  <2> QED BY <2>5, <2>6, HandlerSets
<1>7. CASE SignupBuy(h)  BY <1>1, <1>7, BuysTurns DEF SignupBuy, HandlerStages
<1>8. CASE SignupStore(h)
  <2>1. frame[h].left > 0 /\ frame[h].left - 1 \in Nat
    BY <1>1, <1>2, <1>8 DEF SignupStore, StoresIncluded, Frame
  <2> QED BY <1>1, <1>2, <1>3, <1>8, <2>1 DEF SignupStore, StoresIncluded, Frame, HandlerStages
<1>9. CASE UpdatedTrial(h)
  <2>1. user.trial \in TrialStatus  BY DEF TypeInv, AccountTypeOK, User
  <2>2. PICK f : f = [frame[h] EXCEPT !.at = "updatedFlags", !.old = user.trial]  OBVIOUS
  <2>3. frame' = [frame EXCEPT ![h] = f] /\ frame[h].at = "updatedTrial"
    BY <1>9, <2>2 DEF UpdatedTrial
  <2>4. f \in Frame /\ f.at = "updatedFlags" /\ f.ev = frame[h].ev
    BY <1>2, <2>1, <2>2 DEF Frame, HandlerStages
  <2> QED BY <2>3, <2>4, HandlerSets
<1>10. CASE FailedFlag(h)
  <2>1. PICK stage \in {"unpaid", "record"} :
            frame' = [frame EXCEPT ![h].at = stage, ![h].todo = Ev(h).items]
    BY <1>10 DEF FailedFlag
  <2>2. stage \in HandlerStages /\ frame[h].at = "failedFlag"  BY <1>10 DEF FailedFlag, HandlerStages
  <2>3. frame' \in [Procs -> Frame] /\ \A q \in Procs \ {h} : frame'[q] = frame[q]
    BY <1>1, <1>2, <1>3, <2>1, <2>2 DEF Frame
  <2>4. frame'[h].at = stage /\ frame'[h].ev = frame[h].ev  BY <1>1, <1>2, <2>1 DEF Frame
  <2> QED BY <1>1, <1>3, <2>2, <2>3, <2>4
<1>11. CASE Uncollectible(h)
  <2>1. frame[h].at = "begin"  BY <1>11 DEF Uncollectible, Handles
  <2>2. PICK f : f = [frame[h] EXCEPT !.at = "unpaid", !.todo = Ev(h).items]  OBVIOUS
  <2>3. frame' = [frame EXCEPT ![h] = f]  BY <1>11, <2>2 DEF Uncollectible
  <2>4. f \in Frame /\ f.at = "unpaid" /\ f.ev = frame[h].ev
    BY <1>2, <1>3, <2>1, <2>2 DEF Frame, HandlerStages
  <2> QED BY <2>1, <2>3, <2>4, HandlerSets
<1>12. CASE TopUp(h)
  <2>1. Cardinality(Numbers) \in Int
    BY <1>4, FS_Subset, FS_CardinalityType DEF AccountAssumption
  <2>2. Included - Cardinality(Numbers) \in Int  BY <2>1, AccountAssumption DEF AccountAssumption
  <2>3. Max({0, Included - Cardinality(Numbers)}) \in Nat
    BY <2>2, MinMax, AccountAssumption DEF AccountAssumption
  <2> QED BY <1>1, <1>2, <1>3, <1>12, <2>3 DEF TopUp, Frame, HandlerStages
<1>13. CASE TopUpBuy(h)  BY <1>1, <1>13, BuysTurns DEF TopUpBuy, HandlerStages
<1>14. CASE TopUpStore(h)
  <2>1. frame[h].left > 0 /\ frame[h].left - 1 \in Nat
    BY <1>1, <1>2, <1>14 DEF TopUpStore, StoresIncluded, Frame
  <2> QED BY <1>1, <1>2, <1>3, <1>14, <2>1 DEF TopUpStore, StoresIncluded, Frame, HandlerStages
<1>15. CASE ReleaseFinds(h)
  <2>1. PICK stage \in {"record", "releasing"} :
            frame' = [frame EXCEPT ![h].at = stage, ![h].todo = Numbers, ![h].found = Numbers]
    BY <1>15 DEF ReleaseFinds
  <2>2. stage \in HandlerStages /\ frame[h].at = "release"  BY <1>15 DEF ReleaseFinds, HandlerStages
  <2>3. frame' \in [Procs -> Frame] /\ \A q \in Procs \ {h} : frame'[q] = frame[q]
    BY <1>1, <1>2, <1>4, <2>1, <2>2 DEF Frame
  <2>4. frame'[h].at = stage /\ frame'[h].ev = frame[h].ev  BY <1>1, <1>2, <2>1 DEF Frame
  <2> QED BY <1>1, <1>3, <2>2, <2>3, <2>4
<1>16. CASE ReleaseOne(h)  BY <1>1, <1>2, <1>3, <1>16 DEF ReleaseOne, Frame, HandlerStages
<1>17. CASE ReleaseDeletes(h)
  <2>1. frame' = [frame EXCEPT ![h].at = "cancelAddon", ![h].then = "record"]
    BY <1>17 DEF ReleaseDeletes
  <2>2. frame' \in [Procs -> Frame] /\ \A q \in Procs \ {h} : frame'[q] = frame[q]
    BY <1>1, <1>2, <2>1 DEF Frame, HandlerStages, Callers
  <2>3. frame'[h].at = "cancelAddon" /\ frame'[h].then = "record" /\ frame'[h].ev = frame[h].ev
    BY <1>1, <1>2, <2>1 DEF Frame
  <2> QED BY <1>1, <1>3, <1>17, <2>2, <2>3 DEF ReleaseDeletes, HandlerStages
<1>18. CASE Unpaid(h)
  <2>1. CASE Goto(h, "record")
    BY <1>1, <1>2, <1>3, <1>18, <2>1 DEF Unpaid, Frame, HandlerStages
  <2>2. CASE ~Goto(h, "record")
    <3>1. PICK n \in frame[h].todo, stage \in {"unpaidRelease", "unpaid"} :
            frame' = [frame EXCEPT ![h].at = stage, ![h].todo = @ \ {n}, ![h].phone = n]
      BY <1>18, <2>2 DEF Unpaid
    <3>2. n \in Phones  BY <1>2 DEF Frame
    <3>3. stage \in HandlerStages /\ frame[h].at = "unpaid"  BY <1>18 DEF Unpaid, HandlerStages
    <3>4. frame' \in [Procs -> Frame] /\ \A q \in Procs \ {h} : frame'[q] = frame[q]
      BY <1>1, <1>2, <3>1, <3>2, <3>3 DEF Frame
    <3>5. frame'[h].at = stage /\ frame'[h].ev = frame[h].ev  BY <1>1, <1>2, <3>1 DEF Frame
    <3> QED BY <1>1, <1>3, <3>1, <3>3, <3>4, <3>5
  <2> QED BY <2>1, <2>2
<1>19. CASE UnpaidCount(h)
  <2>1. PICK stage \in {"cancelAddon", "unpaid"} :
            frame' = [frame EXCEPT ![h].at = stage, ![h].then = "unpaid"]
    BY <1>19 DEF UnpaidCount
  <2>4. stage \in HandlerStages /\ "unpaid" \in Callers  BY DEF HandlerStages, Callers
  <2>2. frame' \in [Procs -> Frame] /\ \A q \in Procs \ {h} : frame'[q] = frame[q]
    BY <1>1, <1>2, <2>1, <2>4 DEF Frame
  <2>3. frame'[h].at = stage /\ frame'[h].then = "unpaid" /\ frame'[h].ev = frame[h].ev
    BY <1>1, <1>2, <2>1 DEF Frame
  <2> QED BY <1>1, <1>3, <1>19, <2>2, <2>3 DEF UnpaidCount, HandlerStages
<1> QED BY <1>5, <1>6, <1>7, <1>8, <1>9, <1>10, <1>11, <1>12, <1>13, <1>14, <1>15, <1>16, <1>17,
           <1>18, <1>19

LEMMA StaysTurns == ASSUME TypeInv, NEW p \in Procs, UNCHANGED frame PROVE TurnOK(p)
  BY TypeParts DEF TurnOK, FrameType, KindsOK, FrameKind, Ev

\* The requests that answer, or only go on to another stage.
LEMMA ClientGoes ==
    ASSUME TypeInv, NEW c \in Clients,
           \/ CancelAtStripe(c) \/ CancelRow(c) \/ RenewAtStripe(c) \/ RenewRow(c) \/ RenewFlag(c)
           \/ EndTrialAtStripe(c) \/ EndTrialFlags(c) \/ CardPays(c) \/ SuspendFlags(c)
           \/ NoAddon(c) \/ CancelAddon(c) \/ DropAddon(c) \/ Buy(c) \/ BuyOnBehalf(c)
           \/ StoreIncluded(c) \/ AddonRow(c) \/ Declined(c) \/ Transfer(c) \/ StorePaid(c)
           \/ GiveBack(c) \/ DeleteRelease(c) \/ DeleteItem(c) \/ DeleteRow(c) \/ UserRow(c)
           \/ RequestFails(c) \/ ChangePlan(c) \/ CancelLead(c) \/ SuspendLead(c)
    PROVE  TurnOK(c)
<1>1. FrameType /\ c \in Procs /\ c \notin Handlers
  BY TypeParts, AccountAssumption DEF AccountAssumption
<1>2. CASE Return(c)
  <2>1. frame' = [frame EXCEPT ![c] = Idle]  BY <1>2, Answers
  <2> QED BY <1>1, <2>1, IdleTurns
<1>3. CASE UNCHANGED frame  BY <1>1, <1>3, StaysTurns
<1>4. CASE DropAddon(c) \/ NoAddon(c)
  <2>1. frame[c].at \in {"cancelAddon", "dropAddon"} /\ Goto(c, frame[c].then)
    BY <1>4 DEF DropAddon, NoAddon
  <2>2. frame[c].then \in {"suspendLeads", "deleteRow", "userRow"}
    BY <1>1, <2>1 DEF FrameType
  <2> QED BY <1>1, <2>1, <2>2, GotoTurns DEF ClientStages, Buying
<1>5. CASE ~(Return(c) \/ UNCHANGED frame \/ DropAddon(c) \/ NoAddon(c))
  <2>1. PICK stage \in {"cancelRow", "renewRow", "renewFlag", "endTrialFlags", "dropAddon",
                        "buyIncluded", "buyPaid", "buyBehalf", "giveBack", "storePaid", "transfer",
                        "deleteRow", "deleteItem", "deleteCount"} :
            /\ Goto(c, stage)
            /\ stage = "dropAddon" => frame[c].at = "cancelAddon"
            /\ stage = "giveBack" => frame[c].at \in Buying
            /\ stage \in {"storePaid", "transfer"} =>
                 frame[c].at \in {"addonRow", "addonRowBehalf", "transfer"}
    <3>1. CASE CancelAtStripe(c) \/ CancelRow(c) \/ RenewAtStripe(c) \/ RenewRow(c) \/ RenewFlag(c)
               \/ EndTrialAtStripe(c) \/ EndTrialFlags(c) \/ CardPays(c) \/ SuspendFlags(c)
               \/ CancelAddon(c)
      BY <1>5, <3>1 DEF CancelAtStripe, CancelRow, RenewAtStripe, RenewRow, RenewFlag,
         EndTrialAtStripe, EndTrialFlags, CardPays, SuspendFlags, CancelAddon
    <3>2. CASE Buy(c) \/ BuyOnBehalf(c)  BY <3>2 DEF Buy, BuyOnBehalf, Asks
    <3>3. CASE StoreIncluded(c) \/ AddonRow(c) \/ Declined(c) \/ Transfer(c) \/ StorePaid(c)
               \/ GiveBack(c)
      BY <1>5, <3>3 DEF StoreIncluded, AddonRow, Declined, Charges, Transfer, StorePaid, GiveBack,
         Buying
    <3>4. CASE DeleteRelease(c) \/ DeleteItem(c) \/ DeleteRow(c) \/ UserRow(c) \/ RequestFails(c)
      BY <1>5, <3>4 DEF DeleteRelease, DeleteItem, DeleteRow, DeletesRow, UserRow, RequestFails
    <3>5. CASE ChangePlan(c) \/ CancelLead(c) \/ SuspendLead(c)
      BY <1>5, <3>5 DEF ChangePlan, CancelLead, SuspendLead
    <3> QED BY <1>5, <3>1, <3>2, <3>3, <3>4, <3>5
  <2> QED BY <1>1, <2>1, GotoTurns DEF ClientStages, Buying
<1> QED BY <1>2, <1>3, <1>4, <1>5

\* A request that sets several of its local variables.
LEMMA ClientSets ==
    ASSUME TypeInv, NEW c \in Clients, NEW f \in Frame, frame' = [frame EXCEPT ![c] = f],
           f.at \in ClientStages,
           f.at \in {"cancel", "renew", "endTrial", "card"} => f.sub \in PlanSubs,
           f.at \in {"addonRow", "addonRowBehalf", "transfer", "storePaid"} => f.sub \in AddonSubs,
           f.at \in Buying => f.phone \in Phones,
           f.at \notin {"signupStore", "topUpStore", "dropAddon"},
           f.at = "cancelAddon" => f.then \in {"suspendLeads", "deleteRow", "userRow"}
    PROVE  TurnOK(c)
<1>1. c \in Procs /\ c \notin Handlers /\ frame \in [Procs -> Frame]
  BY TypeParts, AccountAssumption DEF AccountAssumption, FrameType
<1>2. frame' \in [Procs -> Frame] /\ frame'[c] = f /\ \A q \in Procs \ {c} : frame'[q] = frame[q]
  BY <1>1
<1> QED BY <1>1, <1>2 DEF TurnOK, FrameKind

\* A request looks up a row of a plan.
LEMMA ReadsTurns ==
    ASSUME TypeInv, NEW c, NEW kind, NEW r, NEW stage \in {"cancel", "renew", "endTrial", "card"},
           Reads(c, kind, r, stage)
    PROVE  c \in Clients /\ TurnOK(c)
<1>1. FrameType /\ c \in Clients /\ c \in Procs /\ c \notin Handlers
  BY TypeParts, AccountAssumption DEF AccountAssumption, Reads
<1>2. r \in DOMAIN rows /\ rows \in Seq(Row)  BY DEF Reads, TypeInv, AccountTypeOK
<1>3. r \in Nat /\ rows[r].sub \in PlanSubs
  <2>1. rows[r] \in Row /\ r \in Nat  BY <1>2
  <2> QED BY <2>1 DEF Row
<1>4. PICK f : f = [frame[c] EXCEPT !.at = stage, !.row = r, !.sub = rows[r].sub]  OBVIOUS
<1>5. frame' = [frame EXCEPT ![c] = f]  BY <1>4 DEF Reads
<1>6. stage \in ClientStages /\ frame[c] \in Frame  BY <1>1 DEF ClientStages, FrameType
<1>7. f \in Frame /\ f.at = stage /\ f.sub = rows[r].sub  BY <1>3, <1>4, <1>6 DEF Frame
<1> QED BY <1>1, <1>3, <1>5, <1>6, <1>7, ClientSets DEF Buying

LEMMA ClientMoves ==
    ASSUME TypeInv, NEW c \in Clients,
           \/ Cancel(c) \/ Renew(c) \/ EndTrial(c) \/ NewCard(c) \/ Suspend(c) \/ SuspendAtStripe(c)
           \/ SuspendRow(c) \/ SuspendAddon(c) \/ BuyIncluded(c) \/ BuyPaid(c)
           \/ ChargeFirst(c) \/ ChargeItem(c) \/ Delete(c) \/ DeleteCount(c)
           \/ DeleteUser(c) \/ UserReleases(c) \/ UserReleased(c)
    PROVE  TurnOK(c)
<1> USE DEF TurnOK, FrameKind, Buying
<1>1. FrameType /\ FrameKind(c) /\ c \in Procs /\ c \notin Handlers
  BY TypeParts, AccountAssumption DEF AccountAssumption, KindsOK
<1>2. frame \in [Procs -> Frame] /\ frame[c] \in Frame  BY <1>1 DEF FrameType
<1>3. rows \in Seq(Row) /\ Numbers \subseteq Phones /\ PaidNumbers \subseteq Numbers
  BY DEF TypeInv, AccountTypeOK, Numbers, PaidNumbers
<1>4. CASE Cancel(c) \/ Renew(c) \/ EndTrial(c) \/ NewCard(c)
  BY <1>4, ReadsTurns DEF Cancel, Renew, EndTrial, NewCard
<1>5. CASE Suspend(c)
  <2>1. PICK ids : ids = {i \in DOMAIN rows : rows[i].status # "CANCELLED"}  OBVIOUS
  <2>2. ids \subseteq Nat  BY <1>3, <2>1
  <2>3. PICK f : f = [frame[c] EXCEPT !.at = "suspend", !.rowIds = ids]  OBVIOUS
  <2>4. frame' = [frame EXCEPT ![c] = f]  BY <1>5, <2>1, <2>3 DEF Suspend
  <2>5. f \in Frame /\ f.at = "suspend"  BY <1>2, <2>2, <2>3 DEF Frame, ClientStages
  <2> QED BY <2>4, <2>5, ClientSets DEF ClientStages
<1>6. CASE SuspendAtStripe(c)
  <2>1. PICK r \in frame[c].rowIds :
            \/ frame' = [frame EXCEPT ![c].at = "suspendRow", ![c].row = r]
            \/ frame' = [frame EXCEPT ![c].rowIds = @ \ {r}]
    BY <1>6 DEF SuspendAtStripe
  <2>2. CASE frame' = [frame EXCEPT ![c].at = "suspendRow", ![c].row = r]
    <3>1. PICK f : f = [frame[c] EXCEPT !.at = "suspendRow", !.row = r]  OBVIOUS
    <3>2. frame' = [frame EXCEPT ![c] = f]  BY <2>2, <3>1
    <3>3. f \in Frame /\ f.at = "suspendRow"  BY <1>2, <3>1 DEF Frame, ClientStages
    <3> QED BY <3>2, <3>3, ClientSets DEF ClientStages
  <2>3. CASE frame' = [frame EXCEPT ![c].rowIds = @ \ {r}]
    <3>1. PICK f : f = [frame[c] EXCEPT !.rowIds = @ \ {r}]  OBVIOUS
    <3>2. frame' = [frame EXCEPT ![c] = f]  BY <2>3, <3>1
    <3>3. f \in Frame /\ f.at = "suspend"  BY <1>2, <1>6, <3>1 DEF Frame, SuspendAtStripe
    <3> QED BY <3>2, <3>3, ClientSets DEF ClientStages
  <2> QED BY <2>1, <2>2, <2>3
<1>7. CASE SuspendRow(c)
  <2>1. PICK f : f = [frame[c] EXCEPT !.at = "suspend", !.rowIds = @ \ {frame[c].row}]  OBVIOUS
  <2>2. frame' = [frame EXCEPT ![c] = f]  BY <1>7, <2>1 DEF SuspendRow
  <2>3. f \in Frame /\ f.at = "suspend"  BY <1>2, <2>1 DEF Frame, ClientStages
  <2> QED BY <2>2, <2>3, ClientSets DEF ClientStages
<1>8. CASE SuspendAddon(c)
  <2>1. PICK f : f = [frame[c] EXCEPT !.at = "cancelAddon", !.then = "suspendLeads"]  OBVIOUS
  <2>2. frame' = [frame EXCEPT ![c] = f]  BY <1>8, <2>1 DEF SuspendAddon
  <2>3. f \in Frame /\ f.at = "cancelAddon" /\ f.then = "suspendLeads"
    BY <1>2, <2>1 DEF Frame, ClientStages, Callers
  <2> QED BY <2>2, <2>3, ClientSets DEF ClientStages
<1>9. CASE BuyIncluded(c)  BY <1>1, <1>9, BuysTurns DEF BuyIncluded, ClientStages
<1>10. CASE BuyPaid(c)  BY <1>1, <1>10, BuysTurns DEF BuyPaid, ClientStages
<1>11. CASE ChargeFirst(c)
  <2>1. PICK s \in AddonSubs, stage \in {"addonRow", "addonRowBehalf"} :
            frame' = [frame EXCEPT ![c].at = stage, ![c].sub = s]
    BY <1>11 DEF ChargeFirst
  <2>2. stage \in ClientStages /\ frame[c].phone \in Phones
    BY <1>1, <1>11 DEF ClientStages, ChargeFirst, Charges
  <2>3. frame' \in [Procs -> Frame] /\ \A q \in Procs \ {c} : frame'[q] = frame[q]
    BY <1>1, <1>2, <2>1, <2>2 DEF Frame
  <2>4. frame'[c].at = stage /\ frame'[c].sub = s /\ frame'[c].phone = frame[c].phone
    BY <1>1, <1>2, <2>1 DEF Frame
  <2> QED BY <1>1, <2>1, <2>2, <2>3, <2>4
<1>12. CASE ChargeItem(c)
  <2>1. Charges(c) /\ frame[c].phone \in Phones /\ addonRow \in AddonSubs
    BY <1>1, <1>12 DEF ChargeItem, Charges, TypeInv, AccountTypeOK
  <2>2. CASE Goto(c, "giveBack")
    BY <1>1, <2>1, <2>2, GotoTurns DEF ClientStages, Charges
  <2>3. CASE ~Goto(c, "giveBack")
    <3>1. PICK stage \in {"transfer", "storePaid"} :
              frame' = [frame EXCEPT ![c].at = stage, ![c].sub = addonRow]
      BY <1>12, <2>3 DEF ChargeItem, Charged
    <3>2. stage \in ClientStages  BY DEF ClientStages
    <3>3. frame' \in [Procs -> Frame] /\ \A q \in Procs \ {c} : frame'[q] = frame[q]
      BY <1>1, <1>2, <2>1, <3>1, <3>2 DEF Frame
    <3>4. frame'[c].at = stage /\ frame'[c].sub = addonRow /\ frame'[c].phone = frame[c].phone
      BY <1>1, <1>2, <3>1 DEF Frame
    <3> QED BY <1>1, <2>1, <3>1, <3>2, <3>3, <3>4
  <2> QED BY <2>2, <2>3
<1>13. CASE Delete(c)
  <2>1. PICK n \in Numbers :
            frame' = [frame EXCEPT ![c].at = "deleteRelease", ![c].phone = n,
                                   ![c].found = {n} \cap PaidNumbers]
    BY <1>13 DEF Delete
  <2>2. PICK f : f = [frame[c] EXCEPT !.at = "deleteRelease", !.phone = n,
                                      !.found = {n} \cap PaidNumbers]
    OBVIOUS
  <2>3. frame' = [frame EXCEPT ![c] = f]  BY <2>1, <2>2
  <2>4. n \in Phones /\ {n} \cap PaidNumbers \subseteq Phones  BY <1>3
  <2>5. f \in Frame /\ f.at = "deleteRelease"  BY <1>2, <2>2, <2>4 DEF Frame, ClientStages
  <2> QED BY <2>3, <2>5, ClientSets DEF ClientStages
<1>14. CASE DeleteCount(c)
  <2>1. PICK stage \in {"cancelAddon", "deleteRow"} :
            frame' = [frame EXCEPT ![c].at = stage, ![c].then = "deleteRow"]
    BY <1>14 DEF DeleteCount
  <2>2. stage \in ClientStages /\ "deleteRow" \in Callers  BY DEF ClientStages, Callers
  <2>3. frame' \in [Procs -> Frame] /\ \A q \in Procs \ {c} : frame'[q] = frame[q]
    BY <1>1, <1>2, <2>1, <2>2 DEF Frame
  <2>4. frame'[c].at = stage /\ frame'[c].then = "deleteRow"
    BY <1>1, <1>2, <2>1 DEF Frame
  <2> QED BY <1>1, <2>1, <2>2, <2>3, <2>4
<1>15. CASE DeleteUser(c)
  <2>1. PICK f : f = [frame[c] EXCEPT !.at = "userReleasing", !.todo = Numbers, !.found = Numbers]
    OBVIOUS
  <2>2. frame' = [frame EXCEPT ![c] = f]  BY <1>15, <2>1 DEF DeleteUser
  <2>3. f \in Frame /\ f.at = "userReleasing"  BY <1>2, <1>3, <2>1 DEF Frame, ClientStages
  <2> QED BY <2>2, <2>3, ClientSets DEF ClientStages
<1>16. CASE UserReleases(c)  BY <1>1, <1>2, <1>16 DEF UserReleases, Frame, ClientStages
<1>17. CASE UserReleased(c)
  <2>1. PICK f : f = [frame[c] EXCEPT !.at = "cancelAddon", !.then = "userRow"]  OBVIOUS
  <2>2. frame' = [frame EXCEPT ![c] = f]  BY <1>17, <2>1 DEF UserReleased
  <2>3. f \in Frame /\ f.at = "cancelAddon" /\ f.then = "userRow"
    BY <1>2, <2>1 DEF Frame, ClientStages, Callers
  <2> QED BY <2>2, <2>3, ClientSets DEF ClientStages
<1> QED BY <1>4, <1>5, <1>6, <1>7, <1>8, <1>9, <1>10, <1>11, <1>12, <1>13, <1>14, <1>15, <1>16,
           <1>17

LEMMA Turns ==
    ASSUME TypeInv, AccountNext
    PROVE  \/ \E p \in Procs : TurnOK(p)
           \/ UNCHANGED frame
           \/ frame' = [p \in Procs |-> Idle]
<1>1. CASE StripeActs
  BY <1>1, Zenon DEF StripeActs, Checkout, PeriodEnds, RetryPays, LastRetryFails, Moves
<1>2. ASSUME NEW e \in due, Skip(e) PROVE UNCHANGED frame  BY <1>2 DEF Skip
<1>3. ASSUME NEW e \in due, NEW h \in Handlers, Receive(h, e) PROVE TurnOK(h)
  <2>1. /\ FrameType /\ h \in Procs /\ h \notin Clients
        /\ due \subseteq DOMAIN sent /\ sent \in Seq(Event)
    BY TypeParts, AccountAssumption DEF AccountAssumption, StripeType
  <2>2. PICK f : f = [frame[h] EXCEPT !.at = "begin", !.ev = e]  OBVIOUS
  <2>3. frame' = [frame EXCEPT ![h] = f]  BY <1>3, <2>2 DEF Receive
  <2>4. e \in Nat /\ frame[h] \in Frame  BY <2>1 DEF FrameType
  <2>5. f \in Frame /\ f.at = "begin" /\ f.ev = e  BY <2>2, <2>4 DEF Frame, HandlerStages
  <2>6. frame' \in [Procs -> Frame] /\ frame'[h] = f /\ \A q \in Procs \ {h} : frame'[q] = frame[q]
    BY <2>1, <2>3, <2>5 DEF FrameType
  <2> QED BY <2>1, <2>5, <2>6 DEF TurnOK, FrameKind, Buying, HandlerStages
<1>4. ASSUME NEW h \in Handlers, Handle(h) \/ SignupFails(h) PROVE TurnOK(h)
  BY <1>4, HandlerGoes, HandlerMoves DEF Handle
<1>5. ASSUME NEW c \in Clients, Start(c) \/ Answer(c) PROVE TurnOK(c)
  BY <1>5, ClientGoes, ClientMoves DEF Start, Answer
<1>6. CASE Crash  BY <1>6 DEF Crash
<1> QED BY <1>1, <1>2, <1>3, <1>4, <1>5, <1>6 DEF AccountNext

DataType ==
    /\ processed \cup rejected \subseteq DOMAIN sent
    /\ mishaps \subseteq Mishap
    /\ user \in User
    /\ rows \in Seq(Row)
    /\ lead \in [LeadSubs -> {"none", "PENDING_SETUP", "CANCELLED"}]
    /\ addonRow \in AddonSubs \cup {None}
    /\ twilio \in [Phones -> {"sale", "held", "released"}]
    /\ callerIds \in [Phones -> {"none", "INCLUDED", "ADDON"}]

LEMMA TypeWhole == FrameType /\ StripeType /\ DataType <=> AccountTypeOK
  BY DEF FrameType, StripeType, DataType, AccountTypeOK

\* The rows: one is added for a plan, one goes, one changes its status.
LEMMA RowsTyped ==
    ASSUME rows \in Seq(Row)
    PROVE  /\ \A s \in PlanSubs : Append(rows, [sub |-> s, status |-> "ACTIVE"]) \in Seq(Row)
           /\ \A r \in DOMAIN rows, status \in RowStatus :
                [rows EXCEPT ![r].status = status] \in Seq(Row)
           /\ \A r : \A status \in RowStatus : RowWith(status, r) \in Seq(Row)
           /\ \A k : [i \in 1..Len(rows) - 1 |-> rows[IF i < k THEN i ELSE i + 1]] \in Seq(Row)
<1>1. \A s \in PlanSubs : [sub |-> s, status |-> "ACTIVE"] \in Row  BY DEF Row, RowStatus
<1>2. ASSUME NEW s \in PlanSubs
      PROVE  Append(rows, [sub |-> s, status |-> "ACTIVE"]) \in Seq(Row)
  <2>1. PICK row \in Row : row = [sub |-> s, status |-> "ACTIVE"]  BY <1>1
  <2>2. Append(rows, row) \in Seq(Row)  OBVIOUS
  <2> QED BY <2>1, <2>2
<1>3. ASSUME NEW r \in DOMAIN rows, NEW status \in RowStatus
      PROVE  [rows EXCEPT ![r].status = status] \in Seq(Row)
  <2>1. rows[r] \in Row  OBVIOUS
  <2>2. PICK row : row = [rows[r] EXCEPT !.status = status]  OBVIOUS
  <2>3. row \in Row  BY <2>1, <2>2 DEF Row
  <2>4. [rows EXCEPT ![r] = row] \in Seq(Row)  BY <2>3
  <2> QED BY <2>2, <2>4
<1>4. \A r : \A status \in RowStatus : RowWith(status, r) \in Seq(Row)  BY <1>3 DEF RowWith
<1>5. ASSUME NEW k
      PROVE  [i \in 1..Len(rows) - 1 |-> rows[IF i < k THEN i ELSE i + 1]] \in Seq(Row)
  <2>1. CASE rows = <<>>
    <3>1. Len(rows) - 1 = -1 /\ 1..-1 = {}  BY <2>1
    <3> QED BY <3>1
  <2>2. CASE rows # <<>>
    <3>1. Len(rows) - 1 \in Nat  BY <2>2
    <3>2. [i \in 1..Len(rows) - 1 |-> rows[IF i < k THEN i ELSE i + 1]] \in [1..Len(rows) - 1 -> Row]
      BY <3>1
    <3> QED BY <3>1, <3>2
  <2> QED BY <2>1, <2>2
<1> QED BY <1>2, <1>3, <1>4, <1>5

\* Which steps write which of the rows and numbers.
WritesUser(p) ==
    \/ /\ p \in Handlers
       /\ \/ SignupUser(p) \/ SignupFlag(p) \/ UndoUser(p) \/ SubscribeFlag(p) \/ UpdatedFlags(p)
          \/ DeletedFlags(p) \/ FailedFlag(p)
    \/ /\ p \in Clients
       /\ RenewFlag(p) \/ EndTrialFlags(p) \/ Suspend(p) \/ SuspendFlags(p) \/ UserRow(p)
WritesRows(p) ==
    \/ /\ p \in Handlers
       /\ \/ SignupRow(p) \/ UndoRow(p) \/ UndoUser(p) \/ SubscribeRow(p) \/ UpdatedRow(p)
          \/ DeletedRow(p) \/ FailedRow(p) \/ PaidRow(p)
    \/ p \in Clients /\ (CancelRow(p) \/ RenewRow(p) \/ SuspendRow(p) \/ UserRow(p))
WritesLead(p) ==
    \/ p \in Handlers /\ (LeadPurchased(p) \/ DeletedLead(p) \/ UndoUser(p))
    \/ p \in Clients /\ (CancelLead(p) \/ SuspendLead(p) \/ UserRow(p))
WritesAddon(p) ==
    \/ DropAddon(p)
    \/ p \in Handlers /\ UndoUser(p)
    \/ p \in Clients /\ (AddonRow(p) \/ UserRow(p))
WritesTwilio(p) ==
    \/ p \in Handlers /\ (SignupBuy(p) \/ TopUpBuy(p) \/ ReleaseOne(p) \/ UnpaidRelease(p))
    \/ /\ p \in Clients
       /\ BuyIncluded(p) \/ BuyPaid(p) \/ GiveBack(p) \/ DeleteRelease(p) \/ UserReleases(p)
WritesCallerIds(p) ==
    \/ /\ p \in Handlers
       /\ SignupStore(p) \/ TopUpStore(p) \/ ReleaseDeletes(p) \/ UnpaidRow(p) \/ UndoUser(p)
    \/ p \in Clients /\ (StoreIncluded(p) \/ StorePaid(p) \/ DeleteRow(p) \/ UserRow(p))
WritesEvents(p) == p \in Handlers /\ (Record(p) \/ StepFails(p) \/ Reject(p))
WritesMishaps(p) ==
    \/ CancelAddon(p)
    \/ p \in Handlers /\ (UndoFails(p) \/ ReleaseFinds(p) \/ ReleaseFails(p))

Written(p) ==
    /\ UNCHANGED user \/ WritesUser(p)
    /\ UNCHANGED rows \/ WritesRows(p)
    /\ UNCHANGED lead \/ WritesLead(p)
    /\ UNCHANGED addonRow \/ WritesAddon(p)
    /\ UNCHANGED twilio \/ WritesTwilio(p)
    /\ UNCHANGED callerIds \/ WritesCallerIds(p)
    /\ UNCHANGED <<processed, rejected>> \/ WritesEvents(p)
    /\ UNCHANGED mishaps \/ WritesMishaps(p)

LEMMA HandlerWrites ==
    ASSUME NEW h \in Handlers, Handle(h) \/ SignupFails(h) PROVE Written(h)
<1> USE DEF SignupExists, SignupUser, SignupRow, SignupFlag, SignupBuy, Buys,
         SignupStore, StoresIncluded, SignupLost, SignupFails, SignupDone, UndoRow, UndoUser,
         UndoFails, SubscribeRow, SubscribeFlag, LeadPurchased, NoPlan, UpdatedRow, WritesRow,
         UpdatedTrial, UpdatedFlags, DeletedLead, DeletedRow, DeletedFlags, FailedRow, FailedFlag,
         PaidRow, Uncollectible, TopUp, TopUpBuy, TopUpStore, TopUpEnds, ReleaseFinds, ReleaseOne,
         ReleaseDeletes, ReleaseFails, NoAddon, CancelAddon, DropAddon, Unpaid, UnpaidRelease,
         UnpaidRow, DeletesRow, UnpaidCount, StepFails, Record, Reject
<1>1. UNCHANGED user \/ WritesUser(h)  BY Zenon DEF WritesUser, Handle
<1>2. UNCHANGED rows \/ WritesRows(h)  BY Zenon DEF WritesRows, Handle
<1>3. UNCHANGED lead \/ WritesLead(h)  BY Zenon DEF WritesLead, Handle
<1>4. UNCHANGED addonRow \/ WritesAddon(h)  BY Zenon DEF WritesAddon, Handle
<1>5. UNCHANGED twilio \/ WritesTwilio(h)  BY Zenon DEF WritesTwilio, Handle
<1>6. UNCHANGED callerIds \/ WritesCallerIds(h)  BY Zenon DEF WritesCallerIds, Handle
<1>7. UNCHANGED <<processed, rejected>> \/ WritesEvents(h)  BY Zenon DEF WritesEvents, Handle
<1>8. UNCHANGED mishaps \/ WritesMishaps(h)  BY Zenon DEF WritesMishaps, Handle
<1> QED BY <1>1, <1>2, <1>3, <1>4, <1>5, <1>6, <1>7, <1>8 DEF Written

LEMMA ClientWrites ==
    ASSUME NEW c \in Clients, Start(c) \/ Answer(c) PROVE Written(c)
<1> USE DEF Cancel, Renew, EndTrial, NewCard, Reads, ChangePlan, Suspend, CancelLead, Buy,
         BuyOnBehalf, Asks, Delete, DeleteUser, CancelAtStripe, CancelRow, RenewAtStripe, RenewRow,
         RenewFlag, EndTrialAtStripe, EndTrialFlags, CardPays, SuspendAtStripe, SuspendRow,
         SuspendAddon, SuspendLead, SuspendFlags, NoAddon, CancelAddon, DropAddon, BuyIncluded,
         Buys, StoreIncluded, BuyPaid, ChargeFirst, AddonRow, ChargeItem, Declined, Transfer,
         StorePaid, GiveBack, DeleteRelease, DeleteItem, DeleteCount, DeleteRow, DeletesRow,
         UserReleases, UserReleased, UserRow, RequestFails
<1>1. UNCHANGED user \/ WritesUser(c)  BY Zenon DEF WritesUser, Start, Answer
<1>2. UNCHANGED rows \/ WritesRows(c)  BY Zenon DEF WritesRows, Start, Answer
<1>3. UNCHANGED lead \/ WritesLead(c)  BY Zenon DEF WritesLead, Start, Answer
<1>4. UNCHANGED addonRow \/ WritesAddon(c)  BY Zenon DEF WritesAddon, Start, Answer
<1>5. UNCHANGED twilio \/ WritesTwilio(c)  BY Zenon DEF WritesTwilio, Start, Answer
<1>6. UNCHANGED callerIds \/ WritesCallerIds(c)  BY Zenon DEF WritesCallerIds, Start, Answer
<1>7. UNCHANGED <<processed, rejected>> \/ WritesEvents(c)  BY Zenon DEF WritesEvents, Start, Answer
<1>8. UNCHANGED mishaps \/ WritesMishaps(c)  BY Zenon DEF WritesMishaps, Start, Answer
<1> QED BY <1>1, <1>2, <1>3, <1>4, <1>5, <1>6, <1>7, <1>8 DEF Written

\* What is not a step of a handler or of a request writes none of them.
LEMMA OthersWrite ==
    ASSUME AccountNext
    PROVE  \/ \E h \in Handlers : Handle(h) \/ SignupFails(h)
           \/ \E c \in Clients : Start(c) \/ Answer(c)
           \/ StripeActs /\ UNCHANGED stripeOnly
           \/ (\E e \in due : Skip(e)) /\ UNCHANGED <<frame, eventVars, planVars, lineVars>>
           \/ \E e \in due, h \in Handlers : Receive(h, e) /\ UNCHANGED exceptFrame
           \/ Crash /\ UNCHANGED <<stripeVars, processed, rejected, planVars, lineVars>>
<1>1. StripeActs => UNCHANGED stripeOnly
  BY Zenon DEF StripeActs, Checkout, PeriodEnds, RetryPays, LastRetryFails, Moves
<1>2. \A e \in due : Skip(e) => UNCHANGED <<frame, eventVars, planVars, lineVars>>
  BY Zenon DEF Skip
<1>3. \A e \in due, h \in Handlers : Receive(h, e) => UNCHANGED exceptFrame
  BY Zenon DEF Receive
<1>4. Crash => UNCHANGED <<stripeVars, processed, rejected, planVars, lineVars>>
  BY Zenon DEF Crash
<1> QED BY <1>1, <1>2, <1>3, <1>4, Zenon DEF AccountNext

LEMMA StepWrites ==
    ASSUME AccountNext
    PROVE  \/ \E p \in Procs : Written(p)
           \/ UNCHANGED <<eventVars, planVars, lineVars>>
           \/ Crash /\ UNCHANGED <<processed, rejected, planVars, lineVars>>
<1>1. ASSUME NEW h \in Handlers, Handle(h) \/ SignupFails(h) PROVE \E p \in Procs : Written(p)
  BY <1>1, HandlerWrites
<1>2. ASSUME NEW c \in Clients, Start(c) \/ Answer(c) PROVE \E p \in Procs : Written(p)
  BY <1>2, ClientWrites
<1> QED BY <1>1, <1>2, OthersWrite, Zenon

LEMMA UserTyped ==
    ASSUME TypeInv, NEW p \in Procs, WritesUser(p) PROVE user' \in User
<1>1. user \in User  BY DEF TypeInv, AccountTypeOK
<1>2. CASE SignupUser(p) \/ UndoUser(p) \/ UserRow(p)
  <2>1. NoUser \in User  BY DEF NoUser, User, TrialStatus
  <2>2. [NoUser EXCEPT !.deleted = TRUE] \in User  BY <2>1 DEF User
  <2>3. [NoUser EXCEPT !.present = TRUE, !.trial = "ACTIVE"] \in User
    BY <2>1 DEF User, TrialStatus
  <2> QED BY <1>2, <2>1, <2>2, <2>3 DEF SignupUser, UndoUser, UserRow
<1>3. CASE SignupFlag(p) \/ SubscribeFlag(p) \/ RenewFlag(p) \/ FailedFlag(p) \/ Suspend(p)
  BY <1>1, <1>3 DEF SignupFlag, SubscribeFlag, RenewFlag, FailedFlag, Suspend, User
<1>4. CASE DeletedFlags(p) \/ EndTrialFlags(p) \/ SuspendFlags(p)
  BY <1>1, <1>4 DEF DeletedFlags, EndTrialFlags, SuspendFlags, User, TrialStatus
<1>5. CASE UpdatedFlags(p)
  <2>1. PICK subscribed \in BOOLEAN, trial \in TrialStatus :
            user' = [user EXCEPT !.isSubscribed = subscribed, !.trial = trial]
    <3>1. user.trial \in TrialStatus /\ {"ACTIVE", "NONE"} \subseteq TrialStatus
      BY <1>1 DEF User, TrialStatus
    <3>2. IsLive(Ev(p)) \in BOOLEAN  BY DEF IsLive
    <3> QED BY <1>5, <3>1, <3>2 DEF UpdatedFlags
  <2> QED BY <1>1, <2>1 DEF User
<1> QED BY <1>2, <1>3, <1>4, <1>5 DEF WritesUser

LEMMA EventTyped ==
    ASSUME TypeInv, NEW h \in Handlers, frame[h].at # "idle"
    PROVE  frame[h].ev \in DOMAIN sent /\ Ev(h) \in Event /\ EventKind(Ev(h))
<1>1. FrameType /\ StripeType /\ KindsOK  BY TypeParts
<1>2. frame[h].ev \in DOMAIN sent  BY <1>1 DEF FrameType
<1>3. \A e \in DOMAIN sent : sent[e] \in Event  BY <1>1 DEF StripeType
<1> QED BY <1>1, <1>2, <1>3 DEF Ev, KindsOK

LEMMA WritesRowTyped ==
    ASSUME TypeInv, NEW h, NEW status \in RowStatus, NEW next, WritesRow(h, status, next)
    PROVE  rows' \in Seq(Row)
<1>1. rows \in Seq(Row)  BY DEF TypeInv, AccountTypeOK
<1>2. PICK r \in RowsOf(Ev(h)) : rows' = [rows EXCEPT ![r].status = status]
  BY DEF WritesRow
<1>3. r \in DOMAIN rows  BY DEF RowsOf
<1> QED BY <1>1, <1>2, <1>3, RowsTyped

LEMMA RowsStepTyped ==
    ASSUME TypeInv, NEW p \in Procs, WritesRows(p) PROVE rows' \in Seq(Row)
<1>1. rows \in Seq(Row)  BY DEF TypeInv, AccountTypeOK
<1>2. {"ACTIVE", "CANCELLED", "PENDING"} \subseteq RowStatus  BY DEF RowStatus
<1>3. CASE p \in Handlers /\ (SignupRow(p) \/ SubscribeRow(p))
  <2>1. frame[p].at # "idle" /\ Ev(p).type \in {"signup", "subscribe"}
    <3>1. CASE SignupRow(p)  BY <1>3, <3>1, TypeParts DEF SignupRow, KindsOK
    <3>2. CASE SubscribeRow(p)  BY <3>2 DEF SubscribeRow, Handles
    <3> QED BY <1>3, <3>1, <3>2
  <2>2. Ev(p).sub \in PlanSubs  BY <1>3, <2>1, EventTyped DEF EventKind
  <2>3. rows' = Append(rows, [sub |-> Ev(p).sub, status |-> "ACTIVE"])
    BY <1>3 DEF SignupRow, SubscribeRow
  <2> QED BY <1>1, <2>2, <2>3, RowsTyped
<1>4. CASE UndoRow(p)
  <2>1. \/ rows' = [i \in 1..Len(rows) - 1 |-> rows[IF i < frame[p].row THEN i ELSE i + 1]]
        \/ rows' = rows
    BY <1>4 DEF UndoRow
  <2> QED BY <1>1, <2>1, RowsTyped
<1>5. CASE UndoUser(p) \/ UserRow(p)
  <2>1. rows' = <<>>  BY <1>5 DEF UndoUser, UserRow
  <2> QED BY <2>1
<1>6. CASE UpdatedRow(p)
  <2>1. PICK status : /\ status = IF Ev(p).closing THEN "CANCELLED"
                                  ELSE mapStripeSubscriptionStatus(Ev(p).status)
                      /\ WritesRow(p, status, "updatedTrial")
    BY <1>6 DEF UpdatedRow
  <2>2. mapStripeSubscriptionStatus(Ev(p).status) \in RowStatus
    BY <1>2 DEF mapStripeSubscriptionStatus
  <2> QED BY <1>2, <2>1, <2>2, WritesRowTyped
<1>7. CASE DeletedRow(p) \/ FailedRow(p) \/ PaidRow(p)
  BY <1>2, <1>7, WritesRowTyped DEF DeletedRow, FailedRow, PaidRow
<1>8. CASE CancelRow(p) \/ RenewRow(p) \/ SuspendRow(p)
  <2>1. PICK status \in {"ACTIVE", "CANCELLED"} : rows' = RowWith(status, frame[p].row)
    BY <1>8 DEF CancelRow, RenewRow, SuspendRow
  <2> QED BY <1>1, <1>2, <2>1, RowsTyped
<1> QED BY <1>3, <1>4, <1>5, <1>6, <1>7, <1>8 DEF WritesRows

LEMMA LinesTyped ==
    ASSUME TypeInv, NEW p \in Procs
    PROVE  /\ WritesLead(p) => lead' \in [LeadSubs -> {"none", "PENDING_SETUP", "CANCELLED"}]
           /\ WritesAddon(p) => addonRow' \in AddonSubs \cup {None}
           /\ WritesTwilio(p) => twilio' \in [Phones -> {"sale", "held", "released"}]
           /\ WritesCallerIds(p) => callerIds' \in [Phones -> {"none", "INCLUDED", "ADDON"}]
<1>1. DataType /\ KindsOK  BY TypeParts DEF TypeInv, AccountTypeOK, DataType
<1>2. ASSUME WritesLead(p) PROVE lead' \in [LeadSubs -> {"none", "PENDING_SETUP", "CANCELLED"}]
  BY <1>1, <1>2 DEF DataType, WritesLead, LeadPurchased, DeletedLead, UndoUser, CancelLead,
     SuspendLead, UserRow
<1>3. ASSUME WritesAddon(p) PROVE addonRow' \in AddonSubs \cup {None}
  <2>1. CASE AddonRow(p)
    BY <1>1, <2>1 DEF DataType, AddonRow, KindsOK, FrameKind
  <2>2. CASE ~AddonRow(p)
    <3>1. addonRow' = None \/ addonRow' = addonRow
      BY <1>3, <2>2 DEF WritesAddon, DropAddon, UndoUser, UserRow
    <3> QED BY <1>1, <3>1 DEF DataType
  <2> QED BY <2>1, <2>2
<1>4. ASSUME WritesTwilio(p) PROVE twilio' \in [Phones -> {"sale", "held", "released"}]
  BY <1>1, <1>4 DEF DataType, WritesTwilio, SignupBuy, TopUpBuy, BuyIncluded, BuyPaid, Buys,
     ReleaseOne, UnpaidRelease, GiveBack, DeleteRelease, UserReleases, Releases
<1>5. ASSUME WritesCallerIds(p) PROVE callerIds' \in [Phones -> {"none", "INCLUDED", "ADDON"}]
  BY <1>1, <1>5 DEF DataType, WritesCallerIds, SignupStore, TopUpStore, StoresIncluded,
     ReleaseDeletes, UnpaidRow, DeleteRow, DeletesRow, UndoUser, StoreIncluded, StorePaid, UserRow
<1> QED BY <1>2, <1>3, <1>4, <1>5

LEMMA EventsTyped ==
    ASSUME TypeInv, NEW h \in Handlers, WritesEvents(h)
    PROVE  processed' \cup rejected' \subseteq DOMAIN sent
<1>1. frame[h].at # "idle"
  BY DEF WritesEvents, Record, StepFails, Reject, Handles
<1>2. frame[h].ev \in DOMAIN sent /\ processed \cup rejected \subseteq DOMAIN sent
  BY <1>1, EventTyped DEF TypeInv, AccountTypeOK
<1> QED BY <1>2 DEF WritesEvents, Record, StepFails, Reject

LEMMA MishapsTyped ==
    ASSUME TypeInv, NEW p \in Procs, WritesMishaps(p) PROVE mishaps' \subseteq Mishap
<1>1. mishaps \subseteq Mishap /\ addonRow \in AddonSubs \cup {None}
      /\ \A h \in Handlers : frame[h].found \subseteq Phones
  <2>1. \A h \in Handlers : frame[h] \in Frame  BY TypeParts DEF FrameType
  <2> QED BY <2>1 DEF TypeInv, AccountTypeOK, Frame
<1> QED BY <1>1 DEF WritesMishaps, CancelAddon, UndoFails, ReleaseFinds, ReleaseFails, Mishap

LEMMA DataTyped == ASSUME TypeInv, StripeTold, AccountNext PROVE DataType'
<1>1. DataType /\ DOMAIN sent \subseteq DOMAIN sent'
  <2>1. sent \in Seq(Event)  BY TypeParts DEF StripeType
  <2> QED BY <2>1 DEF TypeInv, AccountTypeOK, DataType, StripeTold
<1>2. CASE UNCHANGED <<eventVars, planVars, lineVars>>  BY <1>1, <1>2 DEF DataType
<1>4. CASE Crash /\ UNCHANGED <<processed, rejected, planVars, lineVars>>
  <2>1. mishaps' \subseteq mishaps \cup {"cut"}  BY <1>4 DEF Crash
  <2> QED BY <1>1, <1>4, <2>1 DEF DataType, Mishap
<1>3. ASSUME NEW p \in Procs, Written(p) PROVE DataType'
  <2>1. user' \in User  BY <1>1, <1>3, UserTyped DEF Written, DataType
  <2>2. rows' \in Seq(Row)  BY <1>1, <1>3, RowsStepTyped DEF Written, DataType
  <2>3. /\ lead' \in [LeadSubs -> {"none", "PENDING_SETUP", "CANCELLED"}]
        /\ addonRow' \in AddonSubs \cup {None}
        /\ twilio' \in [Phones -> {"sale", "held", "released"}]
        /\ callerIds' \in [Phones -> {"none", "INCLUDED", "ADDON"}]
    BY <1>1, <1>3, LinesTyped DEF Written, DataType
  <2>4. processed' \cup rejected' \subseteq DOMAIN sent'
    <3>1. CASE UNCHANGED <<processed, rejected>>  BY <1>1, <3>1 DEF DataType
    <3>2. CASE WritesEvents(p)  BY <1>1, <3>2, EventsTyped DEF WritesEvents
    <3> QED BY <1>3, <3>1, <3>2 DEF Written
  <2>5. mishaps' \subseteq Mishap  BY <1>1, <1>3, MishapsTyped DEF Written, DataType
  <2> QED BY <2>1, <2>2, <2>3, <2>4, <2>5 DEF DataType
<1> QED BY <1>2, <1>3, <1>4, StepWrites

LEMMA TypeInit == AccountInit => TypeInv
<1> SUFFICES ASSUME AccountInit PROVE TypeInv
  OBVIOUS
<1>1. FrameType  BY IdleTyped DEF AccountInit, FrameType, HandlerStages, ClientStages
<1>2. StripeType
  <2>1. stripe \in [Subs -> [status : StripeStatus, closing : BOOLEAN]]
    BY DEF AccountInit, StripeStatus
  <2>2. sent = <<>> /\ due = {} /\ items \in [AddonSubs -> SUBSET Phones]  BY DEF AccountInit
  <2> QED BY <2>1, <2>2 DEF StripeType
<1>3. DataType
  <2>1. user \in User  BY DEF AccountInit, NoUser, User, TrialStatus
  <2>2. /\ rows = <<>> /\ processed = {} /\ rejected = {} /\ mishaps = {}
        /\ addonRow = None
    BY DEF AccountInit
  <2>3. /\ lead \in [LeadSubs -> {"none", "PENDING_SETUP", "CANCELLED"}]
        /\ twilio \in [Phones -> {"sale", "held", "released"}]
        /\ callerIds \in [Phones -> {"none", "INCLUDED", "ADDON"}]
    BY DEF AccountInit
  <2> QED BY <2>1, <2>2, <2>3 DEF DataType
<1>4. KindsOK
  <2>1. DOMAIN sent = {} /\ \A p \in Procs : frame[p].at = "idle"
    BY IdleTyped DEF AccountInit
  <2> QED BY <2>1 DEF KindsOK, FrameKind, Buying
<1> QED BY <1>1, <1>2, <1>3, <1>4, TypeWhole DEF TypeInv

LEMMA TypeNext == TypeInv /\ [AccountNext]_accountVars => TypeInv'
<1> SUFFICES ASSUME TypeInv, [AccountNext]_accountVars PROVE TypeInv'
  OBVIOUS
<1>1. StripeTold /\ StripeType'  BY StripeTells DEF StripeTold, StripeType
<1>2. CASE UNCHANGED accountVars
  BY <1>2 DEF TypeInv, AccountTypeOK, KindsOK, FrameKind, EventKind, Ev
<1>3. CASE AccountNext
  <2>1. DataType'  BY <1>1, <1>3, DataTyped
  <2>2. FrameType' /\ KindsOK'
    <3>1. ASSUME NEW p \in Procs, TurnOK(p) PROVE FrameType' /\ KindsOK'
      BY <1>1, <3>1, TurnTyped
    <3>2. CASE UNCHANGED frame
      <4>1. CASE Procs = {}
        BY <1>1, <4>1, <3>2, TypeParts DEF FrameType, KindsOK, StripeTold, NewEvent, StripeType
      <4>2. ASSUME NEW p \in Procs PROVE FrameType' /\ KindsOK'
        BY <3>1, <3>2, StaysTurns
      <4> QED BY <4>1, <4>2
    <3>3. CASE frame' = [p \in Procs |-> Idle]
      <4>1. FrameType' /\ \A p \in Procs : frame'[p].at = "idle"
        BY <3>3, IdleTyped DEF FrameType, HandlerStages, ClientStages
      <4>2. \A e \in DOMAIN sent' : EventKind(sent'[e])
        BY <1>1, TypeParts DEF StripeTold, NewEvent, KindsOK, StripeType
      <4> QED BY <4>1, <4>2 DEF KindsOK, FrameKind, Buying
    <3> QED BY <1>3, <3>1, <3>2, <3>3, Turns
  <2> QED BY <1>1, <2>1, <2>2, TypeWhole, PTL DEF TypeInv
<1> QED BY <1>2, <1>3

\* Whatever Stripe, the webhook and the requests do, and whichever steps fail or
\* are repeated, every variable of the account keeps its type.
THEOREM AccountTypeCorrect == AccountSpec => []AccountTypeOK
<1>1. AccountSpec => []TypeInv  BY TypeInit, TypeNext, PTL DEF AccountSpec
<1>2. TypeInv => AccountTypeOK  BY DEF TypeInv
<1> QED BY <1>1, <1>2, PTL

\* What went wrong is not forgotten, but for a release that is tried again.
MishapsStay == mishaps \ {"release"} \subseteq mishaps'

LEMMA MishapsKept == ASSUME [AccountNext]_accountVars PROVE MishapsStay
<1>1. CASE UNCHANGED mishaps  BY <1>1 DEF MishapsStay
<1>2. ASSUME NEW p \in Procs, Written(p) PROVE MishapsStay
  <2>1. CASE WritesMishaps(p)
    BY <2>1 DEF WritesMishaps, CancelAddon, UndoFails, ReleaseFinds, ReleaseFails, MishapsStay
  <2> QED BY <1>1, <1>2, <2>1 DEF Written
<1>3. CASE Crash  BY <1>3 DEF Crash, MishapsStay
<1> QED BY <1>1, <1>2, <1>3, StepWrites

-----------------------------------------------------------------------------
(* A number that is listed is held.  A number that nobody has bought is      *)
(* known to nobody; one that a process is buying is known to it alone,       *)
(* except for an event that bills it and finds no paid number to release.    *)

Buyer(p, n) == frame[p].at \in Buying /\ frame[p].phone = n
Knows(p, n) == n \in frame[p].todo \cup frame[p].found \/ frame[p].phone = n
PassesBy == {"unpaid", "record"}
Freeing == {"releasing", "userReleasing"}

FreshOK == \A n \in Phones : twilio[n] = "sale" =>
    /\ callerIds[n] = "none"
    /\ \A p \in Procs : ~Knows(p, n)
    /\ \A s \in AddonSubs : n \notin items[s]
    /\ \A e \in DOMAIN sent : n \notin sent[e].items
BoughtOK == \A p \in Procs, n \in Phones : Buyer(p, n) =>
    /\ twilio[n] = "held" /\ callerIds[n] = "none"
    /\ \A q \in Procs : /\ n \notin frame[q].found
                        /\ q # p /\ frame[q].phone = n => frame[q].at \in PassesBy
FoundOK == \A p \in Procs : frame[p].at \in Freeing => frame[p].todo \subseteq frame[p].found

LineInv == FreshOK /\ BoughtOK /\ FoundOK /\ LineBacked

\* The number that p may release now.
Touches(p, n) ==
    \/ frame[p].at \in Freeing /\ n \in frame[p].todo
    \/ frame[p].at \in {"unpaidRelease", "deleteRelease", "giveBack"} /\ frame[p].phone = n

Purchases(p) == \E n \in Phones :
    /\ twilio[n] = "sale" /\ twilio' = [twilio EXCEPT ![n] = "held"] /\ UNCHANGED callerIds
    /\ frame[p].at \in {"signupBuy", "topUpBuy", "buyIncluded", "buyPaid", "buyBehalf"}
    /\ frame'[p].at \in Buying /\ frame'[p].phone = n
    /\ frame'[p].todo = frame[p].todo /\ frame'[p].found = frame[p].found

\* What any other step of a process does to the numbers.
ProceedsWith(p, n) ==
    /\ \/ twilio'[n] = twilio[n]
       \/ /\ twilio'[n] = "released" /\ Touches(p, n)
          /\ \/ callerIds'[n] # "none" => Releasing(p, n)'
             \/ Buyer(p, n) /\ callerIds'[n] = callerIds[n]
    /\ callerIds'[n] \in {callerIds[n], "none"} \/ Buyer(p, n)
    /\ Releasing(p, n) /\ callerIds'[n] # "none" => Releasing(p, n)' \/ n \in mishaps'
    /\ Buyer(p, n)' => /\ Buyer(p, n) /\ twilio'[n] = twilio[n]
                       /\ callerIds'[n] \in {callerIds[n], "none"}
    /\ n \in frame'[p].found => n \in frame[p].found \/ callerIds[n] # "none"
    /\ n \in frame'[p].todo => \/ n \in frame[p].todo \/ callerIds[n] # "none"
                               \/ \E e \in DOMAIN sent : n \in sent[e].items
    /\ frame'[p].phone = n =>
         \/ frame[p].phone = n /\ (frame[p].at \in PassesBy => frame'[p].at \in PassesBy)
         \/ n \in frame[p].todo /\ frame'[p].at \in PassesBy
         \/ callerIds[n] # "none"
Proceeds(p) ==
    /\ \A n \in Phones : ProceedsWith(p, n)
    /\ FoundOK => (frame'[p].at \in Freeing => frame'[p].todo \subseteq frame'[p].found)

LEMMA ProceedsKeeps ==
    ASSUME TypeInv, TypeInv', StripeTold, MishapsStay, LineInv, NEW p \in Procs,
           \A q \in Procs \ {p} : frame'[q] = frame[q], Proceeds(p)
    PROVE  LineInv'
<1>1. /\ FrameType /\ StripeType /\ DataType /\ FrameType' /\ StripeType' /\ DataType'
  BY TypeParts DEF TypeInv, AccountTypeOK, DataType, FrameType, StripeType
<1>2. \A q \in Procs \ {p} : frame'[q] = frame[q]  OBVIOUS
<1>3. ASSUME NEW n \in Phones, twilio'[n] = "sale"
      PROVE  /\ callerIds'[n] = "none"
             /\ \A q \in Procs : ~Knows(q, n)'
             /\ \A s \in AddonSubs : n \notin items'[s]
             /\ \A e \in DOMAIN sent' : n \notin sent'[e].items
  <2>1. twilio[n] = "sale" /\ ProceedsWith(p, n)  BY <1>3 DEF Proceeds, ProceedsWith
  <2>2. /\ callerIds[n] = "none" /\ \A q \in Procs : ~Knows(q, n) /\ ~Buyer(q, n)
        /\ \A s \in AddonSubs : n \notin items[s]
        /\ \A e \in DOMAIN sent : n \notin sent[e].items
    BY <2>1 DEF LineInv, FreshOK, Knows, Buyer
  <2>3. callerIds'[n] = "none"  BY <2>1, <2>2 DEF ProceedsWith
  <2>4. ~Knows(p, n)'  BY <2>1, <2>2 DEF ProceedsWith, Knows
  <2>5. \A q \in Procs : ~Knows(q, n)'  BY <1>2, <2>2, <2>4 DEF Knows
  <2>6. \A c \in Clients : Charges(c) => frame[c].phone # n
    BY <2>2 DEF Charges, Buyer, Buying
  <2>7. \A s \in AddonSubs : n \notin items'[s]  BY <2>2, <2>6 DEF StripeTold
  <2>8. \A e \in DOMAIN sent' : n \notin sent'[e].items  BY <2>2 DEF StripeTold, NewEvent
  <2> QED BY <2>3, <2>5, <2>7, <2>8
<1>4. FreshOK'  BY <1>3 DEF FreshOK
<1>5. ASSUME NEW q \in Procs, NEW n \in Phones, Buyer(q, n)'
      PROVE  /\ twilio'[n] = "held" /\ callerIds'[n] = "none"
             /\ \A r \in Procs : /\ n \notin frame'[r].found
                                 /\ r # q /\ frame'[r].phone = n => frame'[r].at \in PassesBy
  <2>1. ProceedsWith(p, n)  BY DEF Proceeds
  <2>2. Buyer(q, n)  BY <1>2, <1>5, <2>1 DEF ProceedsWith, Buyer
  <2>3. /\ twilio[n] = "held" /\ callerIds[n] = "none"
        /\ \A r \in Procs : /\ n \notin frame[r].found
                            /\ r # q /\ frame[r].phone = n => frame[r].at \in PassesBy
    BY <2>2 DEF LineInv, BoughtOK
  <2>4. p # q => ~Buyer(p, n) /\ ~Touches(p, n)
    <3>1. p # q => ~Buyer(p, n)  BY <2>3 DEF Buyer, Buying, PassesBy
    <3>2. frame[p].at \in Freeing => n \notin frame[p].todo  BY <2>3 DEF LineInv, FoundOK
    <3> QED BY <2>3, <3>1, <3>2 DEF Touches, PassesBy
  <2>5. twilio'[n] = "held" /\ callerIds'[n] = "none"
    <3>1. CASE p = q  BY <1>5, <2>1, <2>3, <3>1 DEF ProceedsWith
    <3>2. CASE p # q  BY <2>1, <2>3, <2>4, <3>2 DEF ProceedsWith
    <3> QED BY <3>1, <3>2
  <2>6. n \notin frame'[p].found /\ (p # q /\ frame'[p].phone = n => frame'[p].at \in PassesBy)
    BY <2>1, <2>3 DEF ProceedsWith
  <2> QED BY <1>2, <2>3, <2>5, <2>6
<1>6. BoughtOK'  BY <1>5 DEF BoughtOK
<1>7. FoundOK'  BY <1>2 DEF LineInv, Proceeds, FoundOK
<1>8. ASSUME NEW n \in Phones, callerIds'[n] # "none"
      PROVE  twilio'[n] = "held" \/ n \in mishaps' \/ \E q \in Procs : Releasing(q, n)'
  <2>1. ProceedsWith(p, n)  BY DEF Proceeds
  <2>4. n \in mishaps => n \in mishaps'
    BY AccountAssumption DEF AccountAssumption, MishapsStay
  <2>2. CASE Buyer(p, n)
    <3>1. twilio[n] = "held"  BY <2>2 DEF LineInv, BoughtOK
    <3>2. callerIds[n] = "none"  BY <2>2 DEF LineInv, BoughtOK
    <3> QED BY <1>8, <2>1, <3>1, <3>2 DEF ProceedsWith
  <2>3. CASE ~Buyer(p, n)
    <3>1. callerIds[n] # "none"  BY <1>8, <2>1, <2>3 DEF ProceedsWith
    <3>2. twilio[n] = "held" \/ n \in mishaps \/ \E q \in Procs : Releasing(q, n)
      BY <3>1 DEF LineInv, LineBacked, Numbers
    <3>3. CASE twilio[n] = "held"  BY <1>8, <2>1, <2>3, <3>3 DEF ProceedsWith
    <3>4. ASSUME NEW q \in Procs, Releasing(q, n)
          PROVE  n \in mishaps' \/ \E r \in Procs : Releasing(r, n)'
      <4>1. CASE q = p  BY <1>8, <2>1, <3>4, <4>1 DEF ProceedsWith
      <4>2. CASE q # p  BY <1>2, <3>4, <4>2 DEF Releasing
      <4> QED BY <4>1, <4>2
    <3> QED BY <2>4, <3>2, <3>3, <3>4
  <2> QED BY <2>2, <2>3
<1>9. LineBacked'  BY <1>8 DEF LineBacked, Numbers
<1> QED BY <1>4, <1>6, <1>7, <1>9 DEF LineInv

LEMMA PurchaseKeeps ==
    ASSUME TypeInv, TypeInv', StripeTold, MishapsStay, LineInv, NEW p \in Procs,
           \A q \in Procs \ {p} : frame'[q] = frame[q], Purchases(p)
    PROVE  LineInv'
<1>1. PICK m \in Phones :
        /\ twilio[m] = "sale" /\ twilio' = [twilio EXCEPT ![m] = "held"] /\ UNCHANGED callerIds
        /\ frame[p].at \in {"signupBuy", "topUpBuy", "buyIncluded", "buyPaid", "buyBehalf"}
        /\ frame'[p].at \in Buying /\ frame'[p].phone = m
        /\ frame'[p].todo = frame[p].todo /\ frame'[p].found = frame[p].found
  BY DEF Purchases
<1>2. \A q \in Procs \ {p} : frame'[q] = frame[q]  OBVIOUS
<1>3. twilio'[m] = "held" /\ \A n \in Phones \ {m} : twilio'[n] = twilio[n]
  BY <1>1 DEF TypeInv, AccountTypeOK
<1>4. /\ callerIds[m] = "none" /\ \A q \in Procs : ~Knows(q, m)
      /\ \A s \in AddonSubs : m \notin items[s]
  BY <1>1 DEF LineInv, FreshOK
<1>5. \A q \in Procs, n \in Phones : Releasing(q, n) => Releasing(q, n)'
  <2>1. \A n \in Phones : ~Releasing(p, n)  BY <1>1 DEF Releasing
  <2> QED BY <1>2, <2>1 DEF Releasing
<1>6. FreshOK'
  <2> SUFFICES ASSUME NEW n \in Phones, twilio'[n] = "sale"
               PROVE  /\ callerIds'[n] = "none"
                      /\ \A q \in Procs : ~Knows(q, n)'
                      /\ \A s \in AddonSubs : n \notin items'[s]
                      /\ \A e \in DOMAIN sent' : n \notin sent'[e].items
    BY DEF FreshOK
  <2>1. n # m /\ twilio[n] = "sale"  BY <1>3
  <2>2. /\ callerIds[n] = "none" /\ \A q \in Procs : ~Knows(q, n) /\ ~Buyer(q, n)
        /\ \A s \in AddonSubs : n \notin items[s]
        /\ \A e \in DOMAIN sent : n \notin sent[e].items
    BY <2>1 DEF LineInv, FreshOK, Knows, Buyer
  <2>3. \A q \in Procs : ~Knows(q, n)'  BY <1>1, <1>2, <2>1, <2>2 DEF Knows
  <2>4. \A c \in Clients : Charges(c) => frame[c].phone # n
    BY <2>2 DEF Charges, Buyer, Buying
  <2>5. \A s \in AddonSubs : n \notin items'[s]  BY <2>2, <2>4 DEF StripeTold
  <2>6. \A e \in DOMAIN sent' : n \notin sent'[e].items  BY <2>2 DEF StripeTold, NewEvent
  <2> QED BY <1>1, <2>2, <2>3, <2>5, <2>6
<1>7. BoughtOK'
  <2> SUFFICES ASSUME NEW q \in Procs, NEW n \in Phones, Buyer(q, n)'
               PROVE  /\ twilio'[n] = "held" /\ callerIds'[n] = "none"
                      /\ \A r \in Procs : /\ n \notin frame'[r].found
                                          /\ r # q /\ frame'[r].phone = n
                                               => frame'[r].at \in PassesBy
    BY DEF BoughtOK
  <2>1. CASE q = p
    <3>1. n = m  BY <1>1, <2>1 DEF Buyer
    <3> QED BY <1>1, <1>2, <1>3, <1>4, <2>1, <3>1 DEF Knows
  <2>2. CASE q # p
    <3>1. Buyer(q, n) /\ Knows(q, n)  BY <1>2, <2>2 DEF Buyer, Knows
    <3>2. n # m  BY <1>4, <3>1
    <3> QED BY <1>1, <1>2, <1>3, <2>2, <3>1, <3>2 DEF LineInv, BoughtOK
  <2> QED BY <2>1, <2>2
<1>8. FoundOK'  BY <1>1, <1>2 DEF LineInv, FoundOK, Buying, Freeing
<1>10. \A n \in Phones : n \in mishaps => n \in mishaps'
  BY AccountAssumption DEF AccountAssumption, MishapsStay
<1>9. LineBacked'
  <2> SUFFICES ASSUME NEW n \in Phones, callerIds'[n] # "none"
               PROVE  twilio'[n] = "held" \/ n \in mishaps' \/ \E q \in Procs : Releasing(q, n)'
    BY DEF LineBacked, Numbers
  <2>1. n # m /\ callerIds[n] # "none"  BY <1>1, <1>4
  <2>2. twilio[n] = "held" \/ n \in mishaps \/ \E q \in Procs : Releasing(q, n)
    BY <2>1 DEF LineInv, LineBacked, Numbers
  <2> QED BY <1>3, <1>5, <1>10, <2>1, <2>2
<1> QED BY <1>6, <1>7, <1>8, <1>9 DEF LineInv

\* What Stripe does, and an event that is skipped, leaves the numbers alone.
LEMMA ElsewhereKeeps ==
    ASSUME TypeInv, StripeTold, MishapsStay, LineInv, UNCHANGED <<twilio, callerIds, frame>>
    PROVE  LineInv'
<1>1. FreshOK'
  <2> SUFFICES ASSUME NEW n \in Phones, twilio[n] = "sale"
               PROVE  /\ \A s \in AddonSubs : n \notin items'[s]
                      /\ \A e \in DOMAIN sent' : n \notin sent'[e].items
    BY DEF FreshOK, LineInv, Knows
  <2>1. /\ \A q \in Procs : ~Knows(q, n)
        /\ \A s \in AddonSubs : n \notin items[s]
        /\ \A e \in DOMAIN sent : n \notin sent[e].items
    BY DEF LineInv, FreshOK
  <2>2. \A c \in Clients : Charges(c) => frame[c].phone # n  BY <2>1 DEF Knows
  <2> QED BY <2>1, <2>2 DEF StripeTold, NewEvent
<1>2. BoughtOK' /\ FoundOK'  BY DEF LineInv, BoughtOK, FoundOK, Buyer
<1>3. \A n \in Phones : n \in mishaps => n \in mishaps'
  BY AccountAssumption DEF AccountAssumption, MishapsStay
<1>4. LineBacked'  BY <1>3 DEF LineInv, LineBacked, Releasing, Numbers
<1> QED BY <1>1, <1>2, <1>4 DEF LineInv

KeepsFrame(p) ==
    /\ frame'[p].todo = frame[p].todo /\ frame'[p].found = frame[p].found
    /\ frame'[p].phone = frame[p].phone

LEMMA GotoKeeps ==
    ASSUME TypeInv, NEW p \in Procs, NEW stage, Goto(p, stage)
    PROVE  frame'[p].at = stage /\ KeepsFrame(p) /\ frame'[p].then = frame[p].then
<1>1. frame \in [Procs -> Frame] /\ frame[p] \in Frame  BY TypeParts DEF FrameType
<1> QED BY <1>1 DEF KeepsFrame, Frame

LEMMA IdleKnows ==
    ASSUME TypeInv, NEW p \in Procs, frame' = [frame EXCEPT ![p] = Idle]
    PROVE  frame'[p].at = "idle" /\ frame'[p].todo = {} /\ frame'[p].found = {}
           /\ frame'[p].phone \notin Phones
<1>1. frame \in [Procs -> Frame]  BY TypeParts DEF FrameType
<1>2. frame'[p] = Idle  BY <1>1
<1> QED BY <1>2, AccountAssumption DEF Idle, AccountAssumption

\* A process that has no numbers to release goes on, or ends.
Leaves == {"unpaidRow", "deleteItem", "deleteCount", "deleteRow", "cancelAddon", "dropAddon",
           "userRow"}
LEMMA QuietProceeds ==
    ASSUME TypeInv, NEW p \in Procs, UNCHANGED twilio,
           \A n \in Phones : callerIds'[n] \in {callerIds[n], "none"},
           frame[p].at \notin Freeing \cup Leaves,
           \/ /\ KeepsFrame(p) /\ frame'[p].at \notin Freeing
              /\ frame'[p].at \in Buying => frame[p].at \in Buying
              /\ frame[p].at \in PassesBy => frame'[p].at \in PassesBy
           \/ frame' = [frame EXCEPT ![p] = Idle]
    PROVE  Proceeds(p)
<1>1. \A n \in Phones : ~Releasing(p, n)  BY DEF Releasing, Freeing, Leaves
<1>2. CASE KeepsFrame(p) /\ frame'[p].at \notin Freeing
           /\ (frame'[p].at \in Buying => frame[p].at \in Buying)
           /\ (frame[p].at \in PassesBy => frame'[p].at \in PassesBy)
  BY <1>1, <1>2 DEF Proceeds, ProceedsWith, KeepsFrame, Buyer
<1>3. CASE frame' = [frame EXCEPT ![p] = Idle]
  BY <1>1, <1>3, IdleKnows DEF Proceeds, ProceedsWith, Buyer, Buying, Freeing
<1> QED BY <1>2, <1>3

LEMMA HandlerQuiet ==
    ASSUME TypeInv, NEW h \in Handlers,
           \/ SignupExists(h) \/ SignupUser(h) \/ SignupDone(h) \/ SignupFails(h) \/ SignupLost(h)
           \/ UndoRow(h) \/ UndoUser(h) \/ UndoFails(h) \/ SubscribeRow(h)
           \/ SubscribeFlag(h) \/ LeadPurchased(h)
           \/ NoPlan(h) \/ UpdatedRow(h) \/ UpdatedFlags(h) \/ DeletedLead(h) \/ DeletedRow(h)
           \/ DeletedFlags(h) \/ FailedRow(h) \/ PaidRow(h) \/ TopUpEnds(h)
           \/ StepFails(h) \/ Record(h) \/ Reject(h)
    PROVE  Proceeds(h)
<1>1. h \in Procs /\ UNCHANGED twilio /\ frame[h].at \notin Freeing \cup Leaves
  BY DEF SignupExists, SignupUser, SignupDone, SignupFails, SignupLost, InSignup, Handles, UndoRow,
     UndoUser, UndoFails, SubscribeRow, SubscribeFlag, LeadPurchased, NoPlan, UpdatedRow, WritesRow,
     UpdatedFlags, DeletedLead, DeletedRow, DeletedFlags, FailedRow, PaidRow, TopUpEnds, StepFails,
     Record, Reject, Freeing, Leaves
<1>2. \A n \in Phones : callerIds'[n] \in {callerIds[n], "none"}
  BY DEF SignupExists, SignupUser, SignupDone, SignupFails, SignupLost, UndoRow,
     UndoUser, UndoFails, SubscribeRow, SubscribeFlag, LeadPurchased, NoPlan, UpdatedRow, WritesRow,
     UpdatedFlags, DeletedLead, DeletedRow, DeletedFlags, FailedRow, PaidRow, TopUpEnds, StepFails,
     Record, Reject
<1>3. CASE StepFails(h) \/ Record(h) \/ Reject(h)
  BY <1>1, <1>2, <1>3, QuietProceeds DEF StepFails, Record, Reject
<1>4. CASE ~(StepFails(h) \/ Record(h) \/ Reject(h))
  <2>1. PICK stage \in {"record", "undoUser", "undoRow", "reject", "signupRow", "subscribeFlag",
                        "updatedTrial", "topUp", "deletedFlags", "release", "failedFlag",
                        "paidFlag", "updatedTrial"} :
            Goto(h, stage) /\ frame[h].at \notin PassesBy
    BY <1>4 DEF SignupExists, SignupUser, SignupDone, SignupFails, SignupLost, InSignup, Undoes,
       Handles, UndoRow, UndoUser, UndoFails, SubscribeRow, SubscribeFlag, LeadPurchased, NoPlan,
       UpdatedRow, WritesRow, UpdatedFlags, DeletedLead, DeletedRow, DeletedFlags, FailedRow, PaidRow,
       TopUpEnds, PassesBy
  <2>2. frame'[h].at = stage /\ KeepsFrame(h)  BY <1>1, <2>1, GotoKeeps
  <2> QED BY <1>1, <1>2, <2>1, <2>2, QuietProceeds DEF Freeing, Buying
<1> QED BY <1>3, <1>4

LEMMA AddonProceeds ==
    ASSUME TypeInv, NEW p \in Procs, NoAddon(p) \/ CancelAddon(p) \/ DropAddon(p)
    PROVE  Proceeds(p)
<1>1. UNCHANGED <<twilio, callerIds>>  BY DEF NoAddon, CancelAddon, DropAddon
<1>2. frame[p].at \in {"cancelAddon", "dropAddon"}  BY DEF NoAddon, CancelAddon, DropAddon
<1>3. frame[p].then \in {"record", "unpaid", "suspendLeads", "deleteRow", "userRow"}
  BY <1>2, TypeParts DEF FrameType
<1>4. PICK stage \in {"dropAddon", frame[p].then} : Goto(p, stage)
  BY DEF NoAddon, CancelAddon, DropAddon
<1>5. frame'[p].at = stage /\ KeepsFrame(p) /\ frame'[p].then = frame[p].then
  BY <1>4, GotoKeeps
<1>6. \A n \in Phones : Releasing(p, n) => Releasing(p, n)'
  BY <1>2, <1>3, <1>4, <1>5 DEF Releasing, KeepsFrame
<1> QED BY <1>1, <1>2, <1>3, <1>4, <1>5, <1>6
    DEF Proceeds, ProceedsWith, KeepsFrame, Buyer, Buying, PassesBy, Freeing

\* A process lists the number it has bought.
LEMMA ListsProceeds ==
    ASSUME TypeInv, NEW p \in Procs, UNCHANGED twilio, frame[p].at \in Buying,
           \A n \in Phones : callerIds'[n] \in {callerIds[n], "none"} \/ frame[p].phone = n,
           frame'[p].at \notin Freeing \cup Buying,
           KeepsFrame(p) \/ frame' = [frame EXCEPT ![p] = Idle]
    PROVE  Proceeds(p)
<1>1. \A n \in Phones : ~Releasing(p, n)  BY DEF Releasing, Freeing, Leaves, Buying
<1>2. CASE KeepsFrame(p)
  BY <1>1, <1>2 DEF Proceeds, ProceedsWith, KeepsFrame, Buyer, Buying, PassesBy
<1>3. CASE frame' = [frame EXCEPT ![p] = Idle]
  BY <1>1, <1>3, IdleKnows DEF Proceeds, ProceedsWith, Buyer, Buying, Freeing
<1> QED BY <1>2, <1>3

LEMMA HandlerLines ==
    ASSUME TypeInv, FoundOK, NEW h \in Handlers,
           \/ SignupRow(h) \/ SignupFlag(h) \/ SignupStore(h) \/ UpdatedTrial(h) \/ FailedFlag(h)
           \/ Uncollectible(h) \/ TopUp(h) \/ TopUpStore(h) \/ ReleaseFinds(h) \/ ReleaseOne(h)
           \/ ReleaseDeletes(h) \/ ReleaseFails(h) \/ Unpaid(h)
           \/ UnpaidRelease(h) \/ UnpaidRow(h) \/ UnpaidCount(h)
    PROVE  Proceeds(h)
<1>1. frame \in [Procs -> Frame] /\ frame[h] \in Frame /\ h \in Procs
  BY TypeParts DEF FrameType
<1>2. CASE SignupRow(h) \/ SignupFlag(h) \/ UpdatedTrial(h) \/ TopUp(h)
  <2>1. /\ KeepsFrame(h) /\ frame'[h].at \in {"signupFlag", "signupBuy", "updatedFlags", "topUpBuy"}
        /\ UNCHANGED <<twilio, callerIds>>
        /\ frame[h].at \in {"signupRow", "signupFlag", "updatedTrial", "topUp"}
    BY <1>1, <1>2 DEF SignupRow, SignupFlag, UpdatedTrial, TopUp, KeepsFrame, Frame
  <2> QED BY <1>1, <2>1, QuietProceeds DEF Freeing, Leaves, Buying, PassesBy
<1>3. CASE SignupStore(h) \/ TopUpStore(h)
  <2>1. /\ KeepsFrame(h) /\ frame'[h].at \in {"signupBuy", "topUpBuy"} /\ UNCHANGED twilio
        /\ frame[h].at \in {"signupStore", "topUpStore"}
        /\ callerIds' = [callerIds EXCEPT ![frame[h].phone] = "INCLUDED"]
    BY <1>1, <1>3 DEF SignupStore, TopUpStore, StoresIncluded, KeepsFrame, Frame
  <2>2. \A n \in Phones : callerIds'[n] \in {callerIds[n], "none"} \/ frame[h].phone = n
    BY <2>1 DEF TypeInv, AccountTypeOK
  <2> QED BY <1>1, <2>1, <2>2, ListsProceeds DEF Freeing, Buying
<1>4. CASE FailedFlag(h) \/ Uncollectible(h)
  <2>1. /\ UNCHANGED <<twilio, callerIds>> /\ frame[h].at \in {"failedFlag", "begin"}
        /\ frame'[h].at \in {"unpaid", "record"} /\ frame'[h].todo = Ev(h).items
        /\ frame'[h].found = frame[h].found /\ frame'[h].phone = frame[h].phone
    BY <1>1, <1>4 DEF FailedFlag, Uncollectible, Handles, Frame
  <2>2. frame[h].ev \in DOMAIN sent  BY <2>1, EventTyped
  <2> QED BY <2>1, <2>2
      DEF Proceeds, ProceedsWith, Releasing, Buyer, Buying, PassesBy, Freeing, Ev
<1>5. CASE ReleaseFinds(h)
  <2>1. /\ UNCHANGED <<twilio, callerIds>> /\ frame[h].at = "release"
        /\ frame'[h].at \in {"releasing", "record"} /\ frame'[h].todo = Numbers
        /\ frame'[h].found = Numbers /\ frame'[h].phone = frame[h].phone
    BY <1>1, <1>5 DEF ReleaseFinds, Frame
  <2> QED BY <2>1
      DEF Proceeds, ProceedsWith, Releasing, Buyer, Buying, PassesBy, Freeing, Numbers
<1>6. CASE ReleaseOne(h)
  <2>1. PICK n \in frame[h].todo : Releases(n) /\ frame' = [frame EXCEPT ![h].todo = @ \ {n}]
    BY <1>6 DEF ReleaseOne
  <2>2. /\ UNCHANGED callerIds /\ frame[h].at = "releasing" /\ frame'[h].at = "releasing"
        /\ frame'[h].todo = frame[h].todo \ {n} /\ frame'[h].phone = frame[h].phone
        /\ frame'[h].found = frame[h].found
    BY <1>1, <1>6, <2>1 DEF ReleaseOne, Frame
  <2>3. n \in frame[h].found /\ frame[h].todo \subseteq frame[h].found
    BY <2>2 DEF FoundOK, Freeing
  <2>4. \A m \in Phones : twilio'[m] = twilio[m] \/ (m = n /\ twilio'[m] = "released")
    BY <2>1 DEF Releases, TypeInv, AccountTypeOK
  <2>5. \A m \in Phones : ProceedsWith(h, m)
    BY <2>1, <2>2, <2>3, <2>4
       DEF ProceedsWith, Touches, Releasing, Buyer, Buying, PassesBy, Freeing
  <2> QED BY <2>2, <2>3, <2>5 DEF Proceeds
<1>7. CASE ReleaseDeletes(h)
  <2>1. /\ UNCHANGED twilio /\ frame[h].at = "releasing" /\ frame'[h].at = "cancelAddon"
        /\ frame'[h].todo = frame[h].todo /\ frame'[h].phone = frame[h].phone
        /\ frame'[h].found = frame[h].found
        /\ \A n \in Phones : callerIds'[n] = IF n \in frame[h].found THEN "none" ELSE callerIds[n]
    BY <1>1, <1>7 DEF ReleaseDeletes, Frame
  <2> QED BY <2>1
      DEF Proceeds, ProceedsWith, Releasing, Buyer, Buying, PassesBy, Freeing
<1>8. CASE Unpaid(h)
  <2>1. CASE Goto(h, "record")
    <3>1. frame'[h].at = "record" /\ KeepsFrame(h)  BY <1>1, <2>1, GotoKeeps
    <3> QED BY <1>1, <1>8, <3>1, QuietProceeds DEF Unpaid, Freeing, Leaves, Buying, PassesBy
  <2>2. CASE ~Goto(h, "record")
    <3>1. PICK n \in frame[h].todo, stage \in {"unpaidRelease", "unpaid"} :
            /\ frame' = [frame EXCEPT ![h].at = stage, ![h].todo = @ \ {n}, ![h].phone = n]
            /\ stage = "unpaidRelease" => callerIds[n] = "ADDON"
      BY <1>8, <2>2 DEF Unpaid
    <3>2. /\ UNCHANGED <<twilio, callerIds>> /\ frame[h].at = "unpaid" /\ frame'[h].at = stage
          /\ frame'[h].todo = frame[h].todo \ {n} /\ frame'[h].phone = n
          /\ frame'[h].found = frame[h].found
      BY <1>1, <1>8, <3>1 DEF Unpaid, Frame
    <3> QED BY <3>1, <3>2
        DEF Proceeds, ProceedsWith, Releasing, Buyer, Buying, PassesBy, Freeing
  <2> QED BY <2>1, <2>2
<1>9. CASE UnpaidRelease(h)
  <2>1. /\ Releases(frame[h].phone) /\ UNCHANGED callerIds /\ frame[h].at = "unpaidRelease"
        /\ Goto(h, "unpaidRow")
    BY <1>9 DEF UnpaidRelease
  <2>2. frame'[h].at = "unpaidRow" /\ KeepsFrame(h)  BY <1>1, <2>1, GotoKeeps
  <2> QED BY <2>1, <2>2 DEF Releases, Touches, TypeInv, AccountTypeOK,
      Proceeds, ProceedsWith, Releasing, Buyer, Buying, PassesBy, Freeing, KeepsFrame
<1>10. CASE UnpaidRow(h)
  <2>1. /\ UNCHANGED twilio /\ frame[h].at = "unpaidRow" /\ Goto(h, "unpaidCount")
        /\ callerIds' = [callerIds EXCEPT ![frame[h].phone] = "none"]
    BY <1>10 DEF UnpaidRow, DeletesRow
  <2>2. frame'[h].at = "unpaidCount" /\ KeepsFrame(h)  BY <1>1, <2>1, GotoKeeps
  <2> QED BY <2>1, <2>2 DEF TypeInv, AccountTypeOK,
      Proceeds, ProceedsWith, Releasing, Buyer, Buying, PassesBy, Freeing, KeepsFrame
<1>11. CASE UnpaidCount(h)
  <2>1. /\ UNCHANGED <<twilio, callerIds>> /\ frame[h].at = "unpaidCount"
        /\ frame'[h].at \in {"cancelAddon", "unpaid"} /\ frame'[h].phone = frame[h].phone
        /\ frame'[h].todo = frame[h].todo /\ frame'[h].found = frame[h].found
    BY <1>1, <1>11 DEF UnpaidCount, Frame
  <2> QED BY <2>1
      DEF Proceeds, ProceedsWith, Releasing, Buyer, Buying, PassesBy, Freeing
<1>12. CASE ReleaseFails(h)
  <2>1. /\ UNCHANGED <<twilio, callerIds>> /\ Goto(h, "record")
        /\ \/ frame[h].at = "release"
           \/ frame[h].at = "releasing" /\ frame[h].found \subseteq mishaps'
    BY <1>12 DEF ReleaseFails
  <2>2. frame'[h].at = "record" /\ KeepsFrame(h)  BY <1>1, <2>1, GotoKeeps
  <2> QED BY <2>1, <2>2
      DEF Proceeds, ProceedsWith, Releasing, Buyer, Buying, PassesBy, Freeing, KeepsFrame
<1> QED BY <1>2, <1>3, <1>4, <1>5, <1>6, <1>7, <1>8, <1>9, <1>10, <1>11, <1>12

LEMMA ClientQuiet ==
    ASSUME TypeInv, NEW c \in Clients,
           \/ CancelAtStripe(c) \/ CancelRow(c) \/ RenewAtStripe(c) \/ RenewRow(c) \/ RenewFlag(c)
           \/ EndTrialAtStripe(c) \/ EndTrialFlags(c) \/ CardPays(c) \/ SuspendFlags(c)
           \/ RequestFails(c) \/ Buy(c) \/ BuyOnBehalf(c) \/ AddonRow(c) \/ Declined(c)
           \/ Transfer(c) \/ Cancel(c) \/ Renew(c) \/ EndTrial(c) \/ NewCard(c) \/ Suspend(c)
           \/ SuspendAtStripe(c) \/ SuspendRow(c) \/ SuspendAddon(c) \/ ChargeFirst(c)
           \/ ChargeItem(c)
    PROVE  Proceeds(c)
<1>1. frame \in [Procs -> Frame] /\ frame[c] \in Frame /\ c \in Procs
  BY TypeParts DEF FrameType
<1>2. UNCHANGED <<twilio, callerIds>>
  BY DEF CancelAtStripe, CancelRow, RenewAtStripe, RenewRow, RenewFlag, EndTrialAtStripe,
     EndTrialFlags, CardPays, SuspendFlags, RequestFails, Buy, BuyOnBehalf, Asks, AddonRow,
     Declined, Transfer, Cancel, Renew, EndTrial, NewCard, Reads, Suspend, SuspendAtStripe,
     SuspendRow, SuspendAddon, ChargeFirst, ChargeItem
<1>3. frame[c].at \notin Freeing \cup Leaves \cup PassesBy
  BY DEF CancelAtStripe, CancelRow, RenewAtStripe, RenewRow, RenewFlag, EndTrialAtStripe,
     EndTrialFlags, CardPays, SuspendFlags, RequestFails, Buy, BuyOnBehalf, Asks, AddonRow,
     Declined, Transfer, Cancel, Renew, EndTrial, NewCard, Reads, Suspend, SuspendAtStripe,
     SuspendRow, SuspendAddon, ChargeFirst, ChargeItem, Charges, Freeing, Leaves, PassesBy
<1>4. CASE Return(c)  BY <1>1, <1>2, <1>3, <1>4, Answers, QuietProceeds
<1>5. CASE ~Return(c)
  <2>1. KeepsFrame(c) /\ frame'[c].at \notin Freeing
        /\ (frame'[c].at \in Buying => frame[c].at \in Buying)
    <3>1. CASE \E stage \in {"cancelRow", "renewRow", "renewFlag", "endTrialFlags", "buyIncluded",
                             "buyPaid", "buyBehalf"} : Goto(c, stage)
      BY <1>1, <3>1, GotoKeeps DEF Freeing, Buying
    <3>2. CASE AddonRow(c) \/ Declined(c) \/ Transfer(c)
      <4>1. PICK stage \in {"storePaid", "transfer", "giveBack"} : Goto(c, stage)
        BY <3>2 DEF AddonRow, Declined, Transfer
      <4>2. frame[c].at \in Buying  BY <3>2 DEF AddonRow, Declined, Charges, Transfer, Buying
      <4> QED BY <1>1, <4>1, <4>2, GotoKeeps DEF Freeing
    <3>3. CASE Cancel(c) \/ Renew(c) \/ EndTrial(c) \/ NewCard(c)
      <4>1. PICK stage \in {"cancel", "renew", "endTrial", "card"}, r \in DOMAIN rows :
              frame' = [frame EXCEPT ![c].at = stage, ![c].row = r, ![c].sub = rows[r].sub]
        BY <3>3 DEF Cancel, Renew, EndTrial, NewCard, Reads
      <4> QED BY <1>1, <4>1 DEF KeepsFrame, Frame, Freeing, Buying
    <3>4. CASE Suspend(c) \/ SuspendAtStripe(c) \/ SuspendRow(c) \/ SuspendAddon(c)
      BY <1>1, <3>4 DEF Suspend, SuspendAtStripe, SuspendRow, SuspendAddon, KeepsFrame, Frame,
         Freeing, Buying
    <3>5. CASE ChargeFirst(c) \/ ChargeItem(c)
      <4>1. frame[c].at \in Buying  BY <3>5 DEF ChargeFirst, ChargeItem, Charges, Buying
      <4>2. CASE Goto(c, "giveBack")
        <5>1. PICK stage \in {"giveBack"} : Goto(c, stage)  BY <4>2
        <5>2. frame'[c].at = stage /\ KeepsFrame(c)  BY <1>1, <5>1, GotoKeeps
        <5> QED BY <4>1, <5>2 DEF Freeing
      <4>3. CASE ChargeFirst(c)
        <5>1. PICK s \in AddonSubs, stage \in {"addonRow", "addonRowBehalf"} :
                frame' = [frame EXCEPT ![c].at = stage, ![c].sub = s]
          BY <4>3 DEF ChargeFirst
        <5> QED BY <1>1, <4>1, <5>1 DEF KeepsFrame, Frame, Freeing
      <4>4. CASE ChargeItem(c) /\ ~Goto(c, "giveBack")
        <5>1. PICK stage \in {"transfer", "storePaid"} :
                frame' = [frame EXCEPT ![c].at = stage, ![c].sub = addonRow]
          BY <4>4 DEF ChargeItem, Charged
        <5> QED BY <1>1, <4>1, <5>1 DEF KeepsFrame, Frame, Freeing
      <4> QED BY <3>5, <4>2, <4>3, <4>4
    <3>6. CASE \/ CancelAtStripe(c) \/ CancelRow(c) \/ RenewAtStripe(c) \/ RenewRow(c)
               \/ RenewFlag(c) \/ EndTrialAtStripe(c) \/ EndTrialFlags(c) \/ CardPays(c)
               \/ SuspendFlags(c) \/ RequestFails(c) \/ Buy(c) \/ BuyOnBehalf(c)
      BY <1>5, <3>1, <3>6 DEF CancelAtStripe, CancelRow, RenewAtStripe, RenewRow, RenewFlag,
         EndTrialAtStripe, EndTrialFlags, CardPays, SuspendFlags, RequestFails, Buy, BuyOnBehalf,
         Asks
    <3> QED BY <3>2, <3>3, <3>4, <3>5, <3>6
  <2> QED BY <1>1, <1>2, <1>3, <2>1, QuietProceeds
<1> QED BY <1>4, <1>5

LEMMA ClientLines ==
    ASSUME TypeInv, FoundOK, NEW c \in Clients,
           \/ StoreIncluded(c) \/ StorePaid(c) \/ GiveBack(c) \/ Delete(c) \/ DeleteRelease(c)
           \/ DeleteItem(c) \/ DeleteCount(c) \/ DeleteRow(c) \/ DeleteUser(c) \/ UserReleases(c)
           \/ UserReleased(c) \/ UserRow(c)
    PROVE  Proceeds(c)
<1> USE DEF Buyer, Buying, PassesBy, Freeing
<1>1. frame \in [Procs -> Frame] /\ frame[c] \in Frame /\ c \in Procs
      /\ callerIds \in [Phones -> {"none", "INCLUDED", "ADDON"}]
      /\ twilio \in [Phones -> {"sale", "held", "released"}]
  BY TypeParts DEF FrameType, TypeInv, AccountTypeOK
<1>2. CASE StoreIncluded(c) \/ StorePaid(c)
  <2>1. /\ UNCHANGED twilio /\ frame[c].at \in {"storeIncluded", "storePaid"}
        /\ \A n \in Phones : callerIds'[n] \in {callerIds[n], "none"} \/ frame[c].phone = n
    BY <1>1, <1>2 DEF StoreIncluded, StorePaid
  <2>2. CASE Return(c)
    <3>1. frame' = [frame EXCEPT ![c] = Idle] /\ frame'[c].at = "idle"
      BY <1>1, <2>2, Answers, IdleKnows
    <3> QED BY <1>1, <2>1, <3>1, ListsProceeds
  <2>3. CASE ~Return(c)
    <3>1. PICK stage \in {"giveBack"} : Goto(c, stage) /\ UNCHANGED callerIds
      BY <1>2, <2>3 DEF StoreIncluded, StorePaid
    <3>2. frame'[c].at = stage /\ KeepsFrame(c)  BY <1>1, <3>1, GotoKeeps
    <3> QED BY <1>1, <2>1, <3>1, <3>2, QuietProceeds DEF Leaves
  <2> QED BY <2>2, <2>3
<1>3. CASE GiveBack(c)
  <2>1. frame[c].at = "giveBack" /\ Releases(frame[c].phone) /\ UNCHANGED callerIds
        /\ frame' = [frame EXCEPT ![c] = Idle]
    BY <1>3, Answers DEF GiveBack
  <2>2. \A n \in Phones : twilio'[n] = twilio[n] \/ (frame[c].phone = n /\ twilio'[n] = "released")
    BY <1>1, <2>1 DEF Releases
  <2>3. frame'[c].at = "idle" /\ frame'[c].todo = {} /\ frame'[c].found = {}
        /\ frame'[c].phone \notin Phones
    BY <1>1, <2>1, IdleKnows
  <2> QED BY <2>1, <2>2, <2>3 DEF Proceeds, ProceedsWith, Releasing, Touches
<1>4. CASE Delete(c)
  <2>1. PICK n \in Numbers :
            frame' = [frame EXCEPT ![c].at = "deleteRelease", ![c].phone = n,
                                   ![c].found = {n} \cap PaidNumbers]
    BY <1>4 DEF Delete
  <2>2. PICK f : f = [frame[c] EXCEPT !.at = "deleteRelease", !.phone = n,
                                      !.found = {n} \cap PaidNumbers]
    OBVIOUS
  <2>3. frame'[c] = f  BY <1>1, <2>1, <2>2
  <2>4. /\ frame'[c].at = "deleteRelease" /\ frame'[c].phone = n /\ frame'[c].todo = frame[c].todo
        /\ frame'[c].found \subseteq {n}
    BY <1>1, <2>2, <2>3 DEF Frame
  <2>5. UNCHANGED <<twilio, callerIds>> /\ frame[c].at = "idle"  BY <1>4 DEF Delete
  <2> QED BY <2>1, <2>4, <2>5 DEF Proceeds, ProceedsWith, Releasing, Numbers
<1>5. CASE DeleteRelease(c)
  <2>1. PICK stage \in {"deleteRow", "deleteItem"} : Goto(c, stage)
    BY <1>5 DEF DeleteRelease
  <2>2. frame'[c].at = stage /\ KeepsFrame(c)  BY <1>1, <2>1, GotoKeeps
  <2>3. frame[c].at = "deleteRelease" /\ Releases(frame[c].phone) /\ UNCHANGED callerIds
    BY <1>5 DEF DeleteRelease
  <2>4. \A n \in Phones : twilio'[n] = twilio[n] \/ (frame[c].phone = n /\ twilio'[n] = "released")
    BY <1>1, <2>3 DEF Releases
  <2> QED BY <2>2, <2>3, <2>4 DEF Proceeds, ProceedsWith, Releasing, Touches, KeepsFrame
<1>6. CASE DeleteItem(c)
  <2>1. PICK stage \in {"deleteCount"} : Goto(c, stage)  BY <1>6 DEF DeleteItem
  <2>2. frame'[c].at = stage /\ KeepsFrame(c)  BY <1>1, <2>1, GotoKeeps
  <2>3. frame[c].at = "deleteItem" /\ UNCHANGED <<twilio, callerIds>>  BY <1>6 DEF DeleteItem
  <2> QED BY <2>2, <2>3 DEF Proceeds, ProceedsWith, Releasing, KeepsFrame
<1>7. CASE DeleteCount(c)
  <2>1. PICK stage \in {"cancelAddon", "deleteRow"} :
            frame' = [frame EXCEPT ![c].at = stage, ![c].then = "deleteRow"]
    BY <1>7 DEF DeleteCount
  <2>2. frame'[c].at = stage /\ KeepsFrame(c) /\ frame'[c].then = "deleteRow"
    BY <1>1, <2>1 DEF KeepsFrame, Frame
  <2>3. frame[c].at = "deleteCount" /\ UNCHANGED <<twilio, callerIds>>  BY <1>7 DEF DeleteCount
  <2> QED BY <2>2, <2>3 DEF Proceeds, ProceedsWith, Releasing, KeepsFrame
<1>8. CASE DeleteRow(c)
  <2>1. /\ frame[c].at = "deleteRow" /\ UNCHANGED twilio /\ frame' = [frame EXCEPT ![c] = Idle]
        /\ callerIds' = [callerIds EXCEPT ![frame[c].phone] = "none"]
    BY <1>8, Answers DEF DeleteRow, DeletesRow
  <2>2. frame'[c].at = "idle" /\ frame'[c].todo = {} /\ frame'[c].found = {}
        /\ frame'[c].phone \notin Phones
    BY <1>1, <2>1, IdleKnows
  <2>3. \A n \in Phones : callerIds'[n] = IF n = frame[c].phone THEN "none" ELSE callerIds[n]
    BY <1>1, <2>1
  <2> QED BY <2>1, <2>2, <2>3 DEF Proceeds, ProceedsWith, Releasing
<1>9. CASE DeleteUser(c)
  <2>1. PICK f : f = [frame[c] EXCEPT !.at = "userReleasing", !.todo = Numbers, !.found = Numbers]
    OBVIOUS
  <2>2. frame'[c] = f  BY <1>1, <1>9, <2>1 DEF DeleteUser
  <2>3. /\ frame'[c].at = "userReleasing" /\ frame'[c].phone = frame[c].phone
        /\ frame'[c].todo = Numbers /\ frame'[c].found = Numbers
    BY <1>1, <2>1, <2>2 DEF Frame
  <2>4. UNCHANGED <<twilio, callerIds>> /\ frame[c].at = "idle"  BY <1>9 DEF DeleteUser
  <2> QED BY <2>3, <2>4 DEF Proceeds, ProceedsWith, Releasing, Numbers
<1>10. CASE UserReleases(c)
  <2>1. PICK n \in frame[c].todo : Releases(n) /\ frame' = [frame EXCEPT ![c].todo = @ \ {n}]
    BY <1>10 DEF UserReleases
  <2>2. /\ UNCHANGED callerIds /\ frame[c].at = "userReleasing" /\ frame'[c].at = "userReleasing"
        /\ frame'[c].todo = frame[c].todo \ {n} /\ frame'[c].phone = frame[c].phone
        /\ frame'[c].found = frame[c].found
    BY <1>1, <1>10, <2>1 DEF UserReleases, Frame
  <2>3. n \in frame[c].found /\ frame[c].todo \subseteq frame[c].found
    BY <1>1, <2>2 DEF FoundOK
  <2>4. \A m \in Phones : twilio'[m] = twilio[m] \/ (m = n /\ twilio'[m] = "released")
    BY <1>1, <2>1 DEF Releases
  <2>5. \A m \in Phones : ProceedsWith(c, m)
    BY <2>1, <2>2, <2>3, <2>4 DEF ProceedsWith, Touches, Releasing
  <2> QED BY <2>2, <2>3, <2>5 DEF Proceeds
<1>11. CASE UserReleased(c)
  <2>1. PICK f : f = [frame[c] EXCEPT !.at = "cancelAddon", !.then = "userRow"]  OBVIOUS
  <2>2. frame'[c] = f  BY <1>1, <1>11, <2>1 DEF UserReleased
  <2>3. frame'[c].at = "cancelAddon" /\ frame'[c].then = "userRow" /\ KeepsFrame(c)
    BY <1>1, <2>1, <2>2 DEF KeepsFrame, Frame
  <2>4. UNCHANGED <<twilio, callerIds>> /\ frame[c].at = "userReleasing" /\ frame[c].todo = {}
    BY <1>11 DEF UserReleased
  <2> QED BY <2>3, <2>4 DEF Proceeds, ProceedsWith, Releasing, KeepsFrame
<1>12. CASE UserRow(c)
  <2>1. /\ frame[c].at = "userRow" /\ UNCHANGED twilio /\ frame' = [frame EXCEPT ![c] = Idle]
        /\ callerIds' = [n \in Phones |-> "none"]
    BY <1>12, Answers DEF UserRow
  <2>2. frame'[c].at = "idle" /\ frame'[c].todo = {} /\ frame'[c].found = {}
        /\ frame'[c].phone \notin Phones
    BY <1>1, <2>1, IdleKnows
  <2> QED BY <2>1, <2>2 DEF Proceeds, ProceedsWith, Releasing
<1> QED BY <1>2, <1>3, <1>4, <1>5, <1>6, <1>7, <1>8, <1>9, <1>10, <1>11, <1>12

LEMMA BuysPurchases ==
    ASSUME TypeInv, NEW p \in Procs, NEW stage, NEW next, Buys(p, stage, next),
           stage \in {"signupBuy", "topUpBuy", "buyIncluded", "buyPaid", "buyBehalf"},
           next \in Buying
    PROVE  Purchases(p)
<1>1. frame \in [Procs -> Frame] /\ frame[p] \in Frame  BY TypeParts DEF FrameType
<1>2. PICK n \in Phones :
        /\ twilio[n] = "sale" /\ twilio' = [twilio EXCEPT ![n] = "held"]
        /\ frame' = [frame EXCEPT ![p].at = next, ![p].phone = n]
  BY DEF Buys
<1>3. frame'[p].at = next /\ frame'[p].phone = n /\ frame'[p].todo = frame[p].todo
      /\ frame'[p].found = frame[p].found
  BY <1>1, <1>2 DEF Frame
<1> QED BY <1>2, <1>3 DEF Purchases, Buys

LEMMA HandlerKeepsLines ==
    ASSUME TypeInv, TypeInv', StripeTold, MishapsStay, LineInv, NEW h \in Handlers,
           Handle(h) \/ SignupFails(h)
    PROVE  LineInv'
<1>1. h \in Procs /\ FoundOK  BY DEF LineInv
<1>2. \A q \in Procs \ {h} : frame'[q] = frame[q]
  BY HandlerGoes, HandlerMoves DEF Handle, TurnOK
<1>3. CASE SignupBuy(h) \/ TopUpBuy(h)
  <2>1. Purchases(h)
    BY <1>1, <1>3, BuysPurchases DEF SignupBuy, TopUpBuy, Buying
  <2> QED BY <1>1, <1>2, <2>1, PurchaseKeeps
<1>4. CASE ~(SignupBuy(h) \/ TopUpBuy(h))
  <2>1. Proceeds(h)  BY <1>1, <1>4, HandlerQuiet, HandlerLines, AddonProceeds DEF Handle
  <2> QED BY <1>1, <1>2, <2>1, ProceedsKeeps
<1> QED BY <1>3, <1>4

LEMMA ClientKeepsLines ==
    ASSUME TypeInv, TypeInv', StripeTold, MishapsStay, LineInv, NEW c \in Clients,
           Start(c) \/ Answer(c)
    PROVE  LineInv'
<1>1. c \in Procs /\ FoundOK  BY DEF LineInv
<1>2. \A q \in Procs \ {c} : frame'[q] = frame[q]
  BY ClientGoes, ClientMoves DEF Start, Answer, TurnOK
<1>3. CASE BuyIncluded(c) \/ BuyPaid(c)
  <2>1. Purchases(c)
    BY <1>1, <1>3, BuysPurchases DEF BuyIncluded, BuyPaid, Buying
  <2> QED BY <1>1, <1>2, <2>1, PurchaseKeeps
<1>4. CASE ChangePlan(c) \/ CancelLead(c) \/ SuspendLead(c)
  BY <1>4, ElsewhereKeeps DEF ChangePlan, CancelLead, SuspendLead
<1>5. CASE ~(BuyIncluded(c) \/ BuyPaid(c) \/ ChangePlan(c) \/ CancelLead(c) \/ SuspendLead(c))
  <2>1. Proceeds(c)
    BY <1>1, <1>5, ClientQuiet, ClientLines, AddonProceeds DEF Start, Answer
  <2> QED BY <1>1, <1>2, <2>1, ProceedsKeeps
<1> QED BY <1>3, <1>4, <1>5

LEMMA ReceiveKeepsLines ==
    ASSUME TypeInv, TypeInv', StripeTold, MishapsStay, LineInv, NEW e \in due,
           NEW h \in Handlers, Receive(h, e)
    PROVE  LineInv'
<1>1. frame \in [Procs -> Frame] /\ frame[h] \in Frame /\ h \in Procs
  BY TypeParts DEF FrameType
<1>2. frame' = [frame EXCEPT ![h].at = "begin", ![h].ev = e] /\ frame[h].at = "idle"
      /\ UNCHANGED <<twilio, callerIds>>
  BY DEF Receive
<1>3. KeepsFrame(h) /\ frame'[h].at = "begin"  BY <1>1, <1>2 DEF KeepsFrame, Frame
<1>4. Proceeds(h)
  BY <1>1, <1>2, <1>3, QuietProceeds DEF Freeing, Leaves, Buying, PassesBy
<1>5. \A q \in Procs \ {h} : frame'[q] = frame[q]  BY <1>1, <1>2
<1> QED BY <1>1, <1>4, <1>5, ProceedsKeeps

LEMMA LineInit == AccountInit => LineInv
<1> SUFFICES ASSUME AccountInit PROVE LineInv
  OBVIOUS
<1>1. \A p \in Procs : frame[p].at = "idle" /\ frame[p].todo = {} /\ frame[p].found = {}
                       /\ frame[p].phone \notin Phones
  BY AccountAssumption DEF AccountInit, Idle, AccountAssumption
<1>2. sent = <<>> /\ DOMAIN sent = {} /\ callerIds = [n \in Phones |-> "none"]
      /\ items = [s \in AddonSubs |-> {}] /\ twilio = [n \in Phones |-> "sale"]
  BY DEF AccountInit
<1> QED BY <1>1, <1>2 DEF LineInv, FreshOK, BoughtOK, FoundOK, LineBacked, Numbers, Knows, Buyer,
           Buying, Freeing

\* While the server does not die, a caller ID that an agent can pick is a number
\* the account holds, or one whose row is about to go, for any number of
\* deliveries and requests at a time, whichever of their steps fail: the events
\* and requests that buy, list, release and delete numbers may overlap at will.
THEOREM ListedNumbersHeld ==
    ASSUME Faults \cap {"crash", "cutSignup", "crashInSignup"} = {}
    PROVE  AccountSpec => []LineBacked
<1>1. TypeInv /\ LineInv /\ [AccountNext]_accountVars => LineInv'
  <2> SUFFICES ASSUME TypeInv, LineInv, [AccountNext]_accountVars PROVE LineInv'
    OBVIOUS
  <2>1. TypeInv' /\ StripeTold /\ MishapsStay  BY TypeNext, StripeTells, MishapsKept
  <2>2. CASE UNCHANGED accountVars  BY <2>1, <2>2, ElsewhereKeeps
  <2>3. CASE StripeActs /\ UNCHANGED stripeOnly  BY <2>1, <2>3, ElsewhereKeeps
  <2>4. CASE \E e \in due : Skip(e)  BY <2>1, <2>4, ElsewhereKeeps DEF Skip
  <2>5. ASSUME NEW e \in due, NEW h \in Handlers, Receive(h, e) PROVE LineInv'
    BY <2>1, <2>5, ReceiveKeepsLines
  <2>6. ASSUME NEW h \in Handlers, Handle(h) \/ SignupFails(h) PROVE LineInv'
    BY <2>1, <2>6, HandlerKeepsLines
  <2>7. ASSUME NEW c \in Clients, Start(c) \/ Answer(c) PROVE LineInv'
    BY <2>1, <2>7, ClientKeepsLines
  <2>8. ~Crash  BY DEF Crash
  <2> QED BY <2>2, <2>3, <2>4, <2>5, <2>6, <2>7, <2>8, OthersWrite
<1>2. AccountSpec => []TypeInv  BY TypeInit, TypeNext, PTL DEF AccountSpec
<1>3. AccountSpec => []LineInv  BY <1>1, <1>2, LineInit, PTL DEF AccountSpec
<1>4. LineInv => LineBacked  BY DEF LineInv
<1> QED BY <1>3, <1>4, PTL

-----------------------------------------------------------------------------
(* A signup is all or nothing.  Only the handler that signs the customer up  *)
(* makes the user or undoes it; a deletion is the only other end of a user.  *)

\* Present users keep what they have; nothing is kept for an absent one.
Calm ==
    /\ user'.present = user.present /\ user'.deleted = user.deleted
    /\ rows # <<>> => rows' # <<>>
    /\ ~user.present /\ rows = <<>> => rows' = <<>>
    /\ ~user.present /\ Numbers = {} => Numbers' = {}

LEMMA UserCalm ==
    ASSUME TypeInv, NEW p \in Procs,
           UNCHANGED user \/ WritesUser(p),
           ~(p \in Handlers /\ (SignupUser(p) \/ UndoUser(p))), ~(p \in Clients /\ UserRow(p))
    PROVE  user'.present = user.present /\ user'.deleted = user.deleted
<1>1. user \in User  BY DEF TypeInv, AccountTypeOK
<1>2. CASE SignupFlag(p) \/ SubscribeFlag(p) \/ UpdatedFlags(p) \/ DeletedFlags(p) \/ FailedFlag(p)
  BY <1>1, <1>2 DEF SignupFlag, SubscribeFlag, UpdatedFlags, DeletedFlags, FailedFlag, User
<1>3. CASE RenewFlag(p) \/ EndTrialFlags(p) \/ Suspend(p) \/ SuspendFlags(p)
  BY <1>1, <1>3 DEF RenewFlag, EndTrialFlags, Suspend, SuspendFlags, User
<1>4. CASE UNCHANGED user  BY <1>4
<1> QED BY <1>2, <1>3, <1>4 DEF WritesUser

LEMMA RowsKept ==
    ASSUME rows \in Seq(Row), NEW r \in DOMAIN rows, NEW status,
           rows' = [rows EXCEPT ![r].status = status]
    PROVE  rows # <<>> /\ rows' # <<>>
<1>1. DOMAIN rows' = DOMAIN rows /\ rows # <<>>  OBVIOUS
<1> QED BY <1>1

LEMMA RowsCalm ==
    ASSUME TypeInv, NEW p \in Procs,
           UNCHANGED rows \/ WritesRows(p),
           ~(p \in Handlers /\ (UndoRow(p) \/ UndoUser(p))), ~(p \in Clients /\ UserRow(p))
    PROVE  /\ rows # <<>> => rows' # <<>>
           /\ ~user.present /\ rows = <<>> => rows' = <<>>
<1>1. rows \in Seq(Row)  BY DEF TypeInv, AccountTypeOK
<1>2. CASE UNCHANGED rows  BY <1>2
<1>3. CASE SignupRow(p) \/ SubscribeRow(p)
  <2>1. user.present /\ rows' = Append(rows, [sub |-> Ev(p).sub, status |-> "ACTIVE"])
    BY <1>3 DEF SignupRow, SubscribeRow
  <2>2. rows' # <<>>  BY <1>1, <2>1
  <2> QED BY <2>1, <2>2
<1>4. CASE UpdatedRow(p) \/ DeletedRow(p) \/ FailedRow(p) \/ PaidRow(p)
  <2>1. PICK status, r : r \in DOMAIN rows /\ rows' = [rows EXCEPT ![r].status = status]
    BY <1>4 DEF UpdatedRow, DeletedRow, FailedRow, PaidRow, WritesRow, RowsOf
  <2> QED BY <1>1, <2>1, RowsKept
<1>5. CASE CancelRow(p) \/ RenewRow(p) \/ SuspendRow(p)
  <2>1. PICK status : rows' = RowWith(status, frame[p].row)
    BY <1>5 DEF CancelRow, RenewRow, SuspendRow
  <2>2. CASE frame[p].row \in DOMAIN rows
    <3>1. rows' = [rows EXCEPT ![frame[p].row].status = status]  BY <2>1, <2>2 DEF RowWith
    <3> QED BY <1>1, <2>2, <3>1, RowsKept
  <2>3. CASE frame[p].row \notin DOMAIN rows  BY <2>1, <2>3 DEF RowWith
  <2> QED BY <2>2, <2>3
<1> QED BY <1>2, <1>3, <1>4, <1>5 DEF WritesRows

LEMMA NumbersCalm ==
    ASSUME TypeInv, NEW p \in Procs, UNCHANGED callerIds \/ WritesCallerIds(p)
    PROVE  ~user.present /\ Numbers = {} => Numbers' = {}
<1>1. callerIds \in [Phones -> {"none", "INCLUDED", "ADDON"}]  BY DEF TypeInv, AccountTypeOK
<1>2. CASE SignupStore(p) \/ TopUpStore(p)  BY <1>2 DEF SignupStore, TopUpStore, StoresIncluded
<1>3. CASE StoreIncluded(p) \/ StorePaid(p)  BY <1>3 DEF StoreIncluded, StorePaid, Numbers
<1>4. CASE UnpaidRow(p) \/ DeleteRow(p)
  <2>1. callerIds' = [callerIds EXCEPT ![frame[p].phone] = "none"]
    BY <1>4 DEF UnpaidRow, DeleteRow, DeletesRow
  <2> QED BY <1>1, <2>1 DEF Numbers
<1>5. CASE ReleaseDeletes(p) \/ UndoUser(p) \/ UserRow(p)
  BY <1>1, <1>5 DEF ReleaseDeletes, UndoUser, UserRow, Numbers
<1>6. CASE UNCHANGED callerIds  BY <1>6 DEF Numbers
<1> QED BY <1>2, <1>3, <1>4, <1>5, <1>6 DEF WritesCallerIds

LEMMA StepCalm ==
    ASSUME TypeInv, NEW p \in Procs, Written(p),
           ~(p \in Handlers /\ (SignupUser(p) \/ UndoRow(p) \/ UndoUser(p))),
           ~(p \in Clients /\ UserRow(p))
    PROVE  Calm
  BY UserCalm, RowsCalm, NumbersCalm DEF Written, Calm

Signs(h) == frame[h].at # "idle" /\ Ev(h).type = "signup"
SignupStages == {"signupRow", "signupFlag", "signupBuy", "signupStore", "undoRow", "undoUser",
                 "reject"}

LEMMA EndsOrGoes ==
    ASSUME TypeInv, NEW h \in Handlers, NEW stage, Goto(h, stage)
    PROVE  frame'[h].at = stage /\ frame'[h].ev = frame[h].ev
<1>1. frame \in [Procs -> Frame] /\ frame[h] \in Frame  BY TypeParts DEF FrameType
<1> QED BY <1>1 DEF Frame

\* A handler of another event stays out of the signup.
LEMMA OtherStages ==
    ASSUME TypeInv, NEW h \in Handlers, Handle(h) \/ SignupFails(h), ~Signs(h),
           frame[h].at \notin SignupStages
    PROVE  /\ \/ frame'[h].at = "idle"
              \/ frame'[h].ev = frame[h].ev /\ frame'[h].at \notin SignupStages
           /\ frame[h].at # "idle"
           /\ ~SignupUser(h) /\ ~UndoRow(h) /\ ~UndoUser(h) /\ ~Reject(h)
<1>1. frame \in [Procs -> Frame] /\ frame[h] \in Frame  BY TypeParts DEF FrameType
<1>2. ~(SignupExists(h) \/ SignupUser(h) \/ SignupRow(h) \/ SignupFlag(h) \/ SignupBuy(h)
        \/ SignupStore(h) \/ SignupLost(h) \/ SignupDone(h) \/ SignupFails(h) \/ UndoRow(h)
        \/ UndoUser(h) \/ UndoFails(h) \/ Reject(h))
  BY DEF SignupExists, SignupUser, SignupRow, SignupFlag, SignupBuy, Buys, SignupStore,
     StoresIncluded, SignupLost, InSignup, SignupDone, SignupFails, UndoRow, UndoUser,
     UndoFails, Reject, Handles, Signs, SignupStages
<1>3. frame[h].at # "idle"
  BY <1>2 DEF Handle, SubscribeRow, SubscribeFlag, LeadPurchased, NoPlan, UpdatedRow, UpdatedTrial,
     UpdatedFlags, DeletedLead, DeletedRow, DeletedFlags, FailedRow, FailedFlag, PaidRow,
     Uncollectible, TopUp, TopUpBuy, Buys, TopUpStore, StoresIncluded, TopUpEnds, ReleaseFinds,
     ReleaseOne, ReleaseDeletes, ReleaseFails, NoAddon, CancelAddon, DropAddon, Unpaid,
     UnpaidRelease, UnpaidRow,
     DeletesRow, UnpaidCount, StepFails, Record, Handles
<1>4. CASE Record(h) \/ StepFails(h)
  <2>1. frame' = [frame EXCEPT ![h] = Idle]  BY <1>4 DEF Record, StepFails
  <2>2. frame'[h].at = "idle"  BY <1>1, <2>1, IdleKnows
  <2> QED BY <1>2, <1>3, <2>2
<1>5. CASE NoAddon(h) \/ DropAddon(h)
  <2>1. frame[h].then \in {"record", "unpaid"}
    BY <1>5, TypeParts DEF FrameType, NoAddon, DropAddon
  <2>2. PICK stage \in {"record", "unpaid"} : Goto(h, stage)  BY <1>5, <2>1 DEF NoAddon, DropAddon
  <2> QED BY <1>2, <1>3, <2>2, EndsOrGoes DEF SignupStages
<1>6. CASE SubscribeRow(h) \/ SubscribeFlag(h) \/ LeadPurchased(h) \/ NoPlan(h) \/ UpdatedRow(h)
           \/ UpdatedFlags(h) \/ DeletedLead(h) \/ DeletedRow(h) \/ DeletedFlags(h)
           \/ FailedRow(h) \/ PaidRow(h) \/ TopUpEnds(h) \/ CancelAddon(h) \/ UnpaidRelease(h)
           \/ UnpaidRow(h) \/ ReleaseFails(h)
  <2>1. PICK stage \in {"record", "subscribeFlag", "updatedTrial", "topUp", "deletedFlags",
                        "release", "failedFlag", "paidFlag", "dropAddon", "unpaidRow",
                        "unpaidCount"} : Goto(h, stage)
    BY <1>6 DEF SubscribeRow, SubscribeFlag, LeadPurchased, NoPlan, UpdatedRow, WritesRow,
       UpdatedFlags, DeletedLead, DeletedRow, DeletedFlags, FailedRow, PaidRow, TopUpEnds,
       CancelAddon, UnpaidRelease, UnpaidRow, DeletesRow, ReleaseFails
  <2> QED BY <1>2, <1>3, <2>1, EndsOrGoes DEF SignupStages
<1>7. CASE UpdatedTrial(h) \/ FailedFlag(h) \/ Uncollectible(h) \/ TopUp(h) \/ TopUpBuy(h)
           \/ TopUpStore(h) \/ ReleaseFinds(h)
  <2>1. frame'[h].ev = frame[h].ev
        /\ frame'[h].at \in {"updatedFlags", "unpaid", "record", "topUpBuy", "topUpStore",
                             "releasing"}
    <3>1. CASE UpdatedTrial(h) \/ Uncollectible(h) \/ TopUp(h)
      BY <1>1, <3>1 DEF UpdatedTrial, Uncollectible, TopUp, Frame
    <3>2. CASE TopUpBuy(h) \/ TopUpStore(h)
      BY <1>1, <3>2 DEF TopUpBuy, Buys, TopUpStore, StoresIncluded, Frame
    <3>3. CASE FailedFlag(h)
      <4>1. PICK stage \in {"unpaid", "record"} :
              frame' = [frame EXCEPT ![h].at = stage, ![h].todo = Ev(h).items]
        BY <3>3 DEF FailedFlag
      <4> QED BY <1>1, <4>1 DEF Frame
    <3>4. CASE ReleaseFinds(h)
      <4>1. PICK stage \in {"record", "releasing"} :
              frame' = [frame EXCEPT ![h].at = stage, ![h].todo = Numbers, ![h].found = Numbers]
        BY <3>4 DEF ReleaseFinds
      <4> QED BY <1>1, <4>1 DEF Frame
    <3> QED BY <1>7, <3>1, <3>2, <3>3, <3>4
  <2> QED BY <1>2, <1>3, <2>1 DEF SignupStages
<1>8. CASE ReleaseOne(h) \/ ReleaseDeletes(h) \/ UnpaidCount(h)
  <2>1. frame'[h].ev = frame[h].ev /\ frame'[h].at \in {"releasing", "cancelAddon", "unpaid"}
    BY <1>1, <1>8 DEF ReleaseOne, ReleaseDeletes, UnpaidCount, Frame
  <2> QED BY <1>2, <1>3, <2>1 DEF SignupStages
<1>9. CASE Unpaid(h)
  <2>1. CASE Goto(h, "record")
    <3>1. PICK stage \in {"record"} : Goto(h, stage)  BY <2>1
    <3> QED BY <1>2, <1>3, <3>1, EndsOrGoes DEF SignupStages
  <2>2. CASE ~Goto(h, "record")
    <3>1. PICK n \in frame[h].todo, stage \in {"unpaidRelease", "unpaid"} :
            frame' = [frame EXCEPT ![h].at = stage, ![h].todo = @ \ {n}, ![h].phone = n]
      BY <1>9, <2>2 DEF Unpaid
    <3> QED BY <1>1, <1>2, <1>3, <3>1 DEF SignupStages, Frame
  <2> QED BY <2>1, <2>2
<1> QED BY <1>2, <1>4, <1>5, <1>6, <1>7, <1>8, <1>9 DEF Handle

Provisioned == user.deleted \/ (user.present /\ rows # <<>>)
IsSignup(e) == e \in DOMAIN sent /\ sent[e].type = "signup"

\* What a handler that signs up has reached.
ReachedOK(h) ==
    /\ frame[h].at \in SignupStages \cup {"begin", "record"}
    /\ frame[h].ev \notin processed \cup rejected
    /\ frame[h].at = "reject" => ~user.present \/ "undo" \in mishaps
    /\ frame[h].at = "signupRow" => user.deleted \/ user.present
    /\ frame[h].at \in {"signupFlag", "signupBuy", "signupStore", "record"} =>
         Provisioned \/ "cut" \in mishaps

\* A user is without a row only on the way to it or back, or for a reason on record.
Rowless == {"signupRow", "undoRow", "undoUser", "reject"}
RowlessOK == user.present /\ rows = <<>> =>
    \/ "cut" \in mishaps
    \/ \E e \in rejected : IsSignup(e)
    \/ \E h \in Handlers : Signs(h) /\ frame[h].at \in Rowless

\* Without a death in a signup or a failed rollback, a user comes from a signup
\* that has been handled, or is.
Untroubled == "crashInSignup" \notin Faults /\ ~LeftBehind

SignupInv ==
    /\ \A e : IsSignup(e) => e = 1
    /\ \A g, h \in Handlers : Signs(g) /\ Signs(h) => g = h
    /\ \A h \in Handlers : frame[h].at \in SignupStages => Signs(h)
    /\ \A h \in Handlers : Signs(h) => ReachedOK(h)
    /\ ~user.present => rows = <<>> /\ Numbers = {}
    /\ \A e \in rejected : IsSignup(e) =>
         (~user.present \/ "undo" \in mishaps) /\ e \notin processed
    /\ \A e \in processed : IsSignup(e) => Provisioned \/ "cut" \in mishaps
    /\ RowlessOK
    /\ Untroubled /\ user.present =>
         \/ \E e \in processed : IsSignup(e)
         \/ \E h \in Handlers : Signs(h) /\ frame[h].at \notin {"begin", "reject"}

LEMMA TroublesStay ==
    ASSUME MishapsStay
    PROVE  /\ "undo" \in mishaps => "undo" \in mishaps'
           /\ "cut" \in mishaps => "cut" \in mishaps'
           /\ Untroubled' => Untroubled
  BY DEF MishapsStay, Untroubled, LeftBehind

LEMMA SignsTyped ==
    ASSUME TypeInv, SignupInv, NEW h \in Handlers, Signs(h)
    PROVE  frame[h].ev = 1 /\ IsSignup(1) /\ 1 \notin processed \cup rejected
<1>1. frame[h].ev \in DOMAIN sent  BY EventTyped DEF Signs
<1> QED BY <1>1 DEF SignupInv, Signs, IsSignup, ReachedOK, Ev

\* One step within the signup.
LEMMA SignupGoesOn ==
    ASSUME TypeInv, SignupInv, NEW h \in Handlers, Signs(h),
           UNCHANGED <<sent, processed, rejected>>, MishapsStay,
           \A g \in Handlers \ {h} : frame'[g] = frame[g],
           frame'[h].ev = frame[h].ev,
           frame'[h].at \in SignupStages \cup {"record"},
           ~user'.present => rows' = <<>> /\ Numbers' = {},
           user'.present /\ rows' = <<>> => "cut" \in mishaps' \/ frame'[h].at \in Rowless,
           ReachedOK(h)'
    PROVE  SignupInv'
<1>1. frame[h].ev = 1 /\ IsSignup(1) /\ 1 \notin processed \cup rejected  BY SignsTyped
<1>2. Signs(h)' /\ \A g \in Handlers : Signs(g)' <=> Signs(g)
  BY DEF Signs, Ev, SignupStages
<1>3. \A g \in Handlers : Signs(g) => g = h  BY DEF SignupInv
<1>4. \A e : IsSignup(e)' <=> IsSignup(e)  BY DEF IsSignup
<1>5. \A e : IsSignup(e) => e = 1  BY DEF SignupInv
<1>6. \A g \in Handlers : frame'[g].at \in SignupStages => Signs(g)'
  BY <1>2 DEF SignupInv
<1>7. Untroubled' /\ user'.present => frame'[h].at \notin {"begin", "reject"}
  BY DEF ReachedOK, SignupStages, Untroubled, LeftBehind
<1>8. RowlessOK'  BY <1>2 DEF RowlessOK
<1> QED BY <1>1, <1>2, <1>3, <1>4, <1>5, <1>6, <1>7, <1>8 DEF SignupInv

LEMMA SignupSteps ==
    ASSUME TypeInv, SignupInv, MishapsStay, NEW h \in Handlers, Signs(h),
           Handle(h) \/ SignupFails(h), ~Record(h), ~Reject(h)
    PROVE  SignupInv'
<1>1. /\ frame \in [Procs -> Frame] /\ frame[h] \in Frame /\ h \in Procs
      /\ rows \in Seq(Row) /\ user \in User
  BY TypeParts DEF FrameType, TypeInv, AccountTypeOK
<1>2. /\ ReachedOK(h) /\ (~user.present => rows = <<>> /\ Numbers = {})
      /\ frame[h].ev \notin processed \cup rejected
  BY DEF SignupInv, ReachedOK
<1>3. \A g \in Handlers \ {h} : frame'[g] = frame[g]
  BY HandlerGoes, HandlerMoves DEF Handle, TurnOK
<1>4. user.present /\ rows = <<>> => "cut" \in mishaps \/ frame[h].at \in Rowless
  <2>1. \A e \in rejected : ~IsSignup(e)  BY SignsTyped DEF SignupInv
  <2>2. \A g \in Handlers : Signs(g) => g = h  BY DEF SignupInv
  <2> QED BY <2>1, <2>2 DEF SignupInv, RowlessOK
<1>5. \/ SignupExists(h) \/ SignupUser(h) \/ SignupRow(h) \/ SignupFlag(h) \/ SignupBuy(h)
      \/ SignupStore(h)
      \/ SignupLost(h) \/ SignupFails(h) \/ SignupDone(h) \/ UndoRow(h) \/ UndoUser(h)
      \/ UndoFails(h)
  BY <1>2 DEF Handle, SubscribeRow, SubscribeFlag, LeadPurchased, NoPlan, UpdatedRow,
     UpdatedTrial, UpdatedFlags, DeletedLead, DeletedRow, DeletedFlags, FailedRow, FailedFlag,
     PaidRow, Uncollectible, TopUp, TopUpBuy, Buys, TopUpStore, StoresIncluded, TopUpEnds,
     ReleaseFinds, ReleaseOne, ReleaseDeletes, ReleaseFails, NoAddon, CancelAddon, DropAddon, Unpaid,
     UnpaidRelease, UnpaidRow, DeletesRow, UnpaidCount, StepFails, Handles, Signs, ReachedOK,
     SignupStages
<1>6. UNCHANGED <<sent, processed, rejected>>
  BY <1>5 DEF SignupExists, SignupUser, SignupRow, SignupFlag, SignupBuy, Buys, SignupStore,
     StoresIncluded, SignupLost, SignupFails, SignupDone, UndoRow, UndoUser, UndoFails
<1>7. ASSUME frame'[h].ev = frame[h].ev, frame'[h].at \in SignupStages \cup {"record"},
             ~user'.present => rows' = <<>> /\ Numbers' = {},
             user'.present /\ rows' = <<>> => "cut" \in mishaps' \/ frame'[h].at \in Rowless,
             frame'[h].at = "reject" => ~user'.present \/ "undo" \in mishaps',
             frame'[h].at = "signupRow" => user'.deleted \/ user'.present,
             frame'[h].at \in {"signupFlag", "signupBuy", "signupStore", "record"} =>
               Provisioned' \/ "cut" \in mishaps'
      PROVE  SignupInv'
  <2>1. ReachedOK(h)'  BY <1>2, <1>6, <1>7 DEF ReachedOK
  <2> QED BY <1>3, <1>6, <1>7, <2>1, SignupGoesOn
<1>18. "cut" \in mishaps => "cut" \in mishaps'  BY TroublesStay
<1>8. CASE SignupUser(h)
  <2>1. PICK stage \in {"signupRow"} : Goto(h, stage)  BY <1>8 DEF SignupUser
  <2>2. user'.present  BY <1>8 DEF SignupUser, NoUser
  <2> QED BY <1>7, <2>1, <2>2, EndsOrGoes DEF SignupStages, Rowless
<1>9. CASE SignupRow(h)
  <2>1. frame'[h].at = "signupFlag" /\ frame'[h].ev = frame[h].ev
    BY <1>1, <1>9 DEF SignupRow, Frame
  <2>2. user.present /\ UNCHANGED user
        /\ rows' = Append(rows, [sub |-> Ev(h).sub, status |-> "ACTIVE"])
    BY <1>9 DEF SignupRow
  <2>3. rows' # <<>>  BY <1>1, <2>2
  <2> QED BY <1>7, <2>1, <2>2, <2>3 DEF SignupStages, Provisioned
<1>10. CASE SignupFlag(h)
  <2>1. frame'[h].at = "signupBuy" /\ frame'[h].ev = frame[h].ev /\ frame[h].at = "signupFlag"
    BY <1>1, <1>10 DEF SignupFlag, Frame
  <2>2. user'.present /\ user'.deleted = user.deleted /\ UNCHANGED rows /\ user.present
    BY <1>1, <1>10 DEF SignupFlag, User
  <2> QED BY <1>2, <1>4, <1>7, <1>18, <2>1, <2>2
      DEF SignupStages, Provisioned, ReachedOK, Rowless
<1>11. CASE SignupBuy(h)
  <2>1. frame'[h].at = "signupStore" /\ frame'[h].ev = frame[h].ev /\ frame[h].at = "signupBuy"
    BY <1>1, <1>11 DEF SignupBuy, Buys, Frame
  <2>2. UNCHANGED <<user, rows, Numbers>>  BY <1>11 DEF SignupBuy, Buys, Numbers
  <2> QED BY <1>2, <1>4, <1>7, <1>18, <2>1, <2>2
      DEF SignupStages, Provisioned, ReachedOK, Rowless
<1>12. CASE SignupStore(h)
  <2>1. frame'[h].at = "signupBuy" /\ frame'[h].ev = frame[h].ev /\ frame[h].at = "signupStore"
    BY <1>1, <1>12 DEF SignupStore, StoresIncluded, Frame
  <2>2. UNCHANGED <<user, rows>> /\ user.present  BY <1>12 DEF SignupStore, StoresIncluded
  <2> QED BY <1>2, <1>4, <1>7, <1>18, <2>1, <2>2
      DEF SignupStages, Provisioned, ReachedOK, Rowless
<1>13. CASE SignupLost(h) \/ SignupFails(h)
  <2>1. PICK stage \in {"undoUser", "undoRow"} : Goto(h, stage)
    BY <1>13 DEF SignupLost, SignupFails, Undoes
  <2>2. UNCHANGED <<user, rows, Numbers>>  BY <1>13 DEF SignupLost, SignupFails, Numbers
  <2> QED BY <1>2, <1>4, <1>7, <1>18, <2>1, <2>2, EndsOrGoes DEF SignupStages, Rowless
<1>14. CASE SignupDone(h)
  <2>1. PICK stage \in {"record"} : Goto(h, stage)  BY <1>14 DEF SignupDone
  <2>2. UNCHANGED <<user, rows, Numbers>> /\ frame[h].at = "signupBuy"
    BY <1>14 DEF SignupDone, Numbers
  <2> QED BY <1>2, <1>4, <1>7, <1>18, <2>1, <2>2, EndsOrGoes
      DEF SignupStages, Provisioned, ReachedOK, Rowless
<1>15. CASE UndoRow(h)
  <2>1. PICK stage \in {"undoUser"} : Goto(h, stage)  BY <1>15 DEF UndoRow
  <2>2. UNCHANGED <<user, Numbers>>  BY <1>15 DEF UndoRow, Numbers
  <2>3. rows = <<>> => rows' = <<>>
    <3>1. \/ rows' = [i \in 1..Len(rows) - 1 |-> rows[IF i < frame[h].row THEN i ELSE i + 1]]
          \/ rows' = rows
      BY <1>15 DEF UndoRow
    <3>2. rows = <<>> => 1..Len(rows) - 1 = {}  OBVIOUS
    <3> QED BY <3>1, <3>2
  <2> QED BY <1>2, <1>4, <1>7, <1>18, <2>1, <2>2, <2>3, EndsOrGoes DEF SignupStages, Rowless
<1>16. CASE UndoUser(h)
  <2>1. PICK stage \in {"reject"} : Goto(h, stage)  BY <1>16 DEF UndoUser
  <2>2. ~user'.present /\ rows' = <<>> /\ Numbers' = {}
    BY <1>16 DEF UndoUser, NoUser, Numbers
  <2> QED BY <1>7, <2>1, <2>2, EndsOrGoes DEF SignupStages, Rowless
<1>17. CASE SignupExists(h)
  <2>1. PICK stage \in {"record"} : Goto(h, stage)  BY <1>17 DEF SignupExists
  <2>2. UNCHANGED <<user, rows, Numbers>> /\ user.present /\ frame[h].at = "begin"
    BY <1>17 DEF SignupExists, Handles, Numbers
  <2> QED BY <1>2, <1>4, <1>7, <1>18, <2>1, <2>2, EndsOrGoes DEF SignupStages, Provisioned, Rowless
<1>19. CASE UndoFails(h)
  <2>1. PICK stage \in {"reject"} : Goto(h, stage)  BY <1>19 DEF UndoFails
  <2>2. UNCHANGED <<user, rows, Numbers>> /\ "undo" \in mishaps'  BY <1>19 DEF UndoFails, Numbers
  <2> QED BY <1>2, <1>4, <1>7, <2>1, <2>2, EndsOrGoes DEF SignupStages, Rowless
<1> QED BY <1>5, <1>8, <1>9, <1>10, <1>11, <1>12, <1>13, <1>14, <1>15, <1>16, <1>17,
           <1>19

LEMMA SignupEnds ==
    ASSUME TypeInv, SignupInv, NEW h \in Handlers, Signs(h), Record(h) \/ Reject(h)
    PROVE  SignupInv'
<1>1. frame[h].ev = 1 /\ IsSignup(1) /\ 1 \notin processed \cup rejected /\ h \in Procs
  BY SignsTyped
<1>2. frame' = [frame EXCEPT ![h] = Idle] /\ UNCHANGED <<sent, mishaps, user, rows, Numbers>>
  BY DEF Record, Reject, Numbers
<1>3. frame \in [Procs -> Frame] /\ frame'[h].at = "idle"
  BY <1>1, <1>2, TypeParts, IdleKnows DEF FrameType
<1>4. \A g \in Handlers \ {h} : frame'[g] = frame[g] /\ ~Signs(g)
  BY <1>2, <1>3 DEF SignupInv
<1>5. \A g \in Handlers : ~Signs(g)' /\ frame'[g].at \notin SignupStages
  BY <1>2, <1>3, <1>4 DEF Signs, SignupInv, SignupStages, Ev
<1>6. \A e : (IsSignup(e)' <=> IsSignup(e)) /\ (IsSignup(e) => e = 1)
  BY <1>2 DEF IsSignup, SignupInv
<1>7. CASE Record(h)
  <2>1. processed' = processed \cup {1} /\ UNCHANGED rejected
    BY <1>1, <1>7 DEF Record
  <2>2. Provisioned' \/ "cut" \in mishaps'
    BY <1>2, <1>7 DEF SignupInv, ReachedOK, Record, Provisioned
  <2>3. RowlessOK'
    <3>1. frame[h].at \notin Rowless  BY <1>7 DEF Record, Rowless
    <3> QED BY <1>2, <1>4, <1>6, <2>1, <3>1 DEF SignupInv, RowlessOK
  <2> QED BY <1>1, <1>2, <1>5, <1>6, <2>1, <2>2, <2>3 DEF SignupInv, Provisioned
<1>8. CASE Reject(h)
  <2>1. rejected' = rejected \cup {1} /\ UNCHANGED processed
    BY <1>1, <1>8 DEF Reject
  <2>2. ~user'.present \/ "undo" \in mishaps'  BY <1>2, <1>8 DEF SignupInv, ReachedOK, Reject
  <2>3. RowlessOK'  BY <1>1, <1>6, <2>1 DEF RowlessOK
  <2>4. ~(Untroubled' /\ user'.present)  BY <2>2 DEF Untroubled, LeftBehind
  <2>5. \A e \in processed : IsSignup(e) => Provisioned' \/ "cut" \in mishaps'
    BY <1>2 DEF SignupInv, Provisioned
  <2> QED BY <1>1, <1>2, <1>5, <1>6, <2>1, <2>2, <2>3, <2>4, <2>5 DEF SignupInv
<1> QED BY <1>7, <1>8

Gone == user'.deleted /\ ~user'.present /\ rows' = <<>> /\ Numbers' = {}

\* A step of anyone else.
LEMMA SignupElsewhere ==
    ASSUME TypeInv, SignupInv, StripeTold, MishapsStay, Calm \/ Gone,
           \A h \in Handlers : Signs(h) => frame'[h] = frame[h],
           \A h \in Handlers : ~Signs(h) => ~Signs(h)' /\ frame'[h].at \notin SignupStages,
           \A e \in processed' \cup rejected' :
             /\ e \in DOMAIN sent
             /\ IsSignup(e) => (e \in processed' <=> e \in processed)
                               /\ (e \in rejected' <=> e \in rejected),
           processed \subseteq processed', rejected \subseteq rejected'
    PROVE  SignupInv'
<1>1. sent \in Seq(Event) /\ \A h \in Handlers : Signs(h) => frame[h].ev \in DOMAIN sent
  BY TypeParts, EventTyped DEF StripeType, Signs
<1>2. /\ \A e \in DOMAIN sent : sent'[e] = sent[e] /\ e \in DOMAIN sent'
      /\ \A e : IsSignup(e)' => IsSignup(e) \/ (e = 1 /\ e \notin DOMAIN sent)
  BY <1>1 DEF StripeTold, NewEvent, IsSignup
<1>3. \A e \in DOMAIN sent : IsSignup(e)' <=> IsSignup(e)  BY <1>2 DEF IsSignup
<1>4. \A h \in Handlers : Signs(h)' <=> Signs(h)
  BY <1>1, <1>2 DEF Signs, Ev
<1>5. ~user'.present => rows' = <<>> /\ Numbers' = {}
  BY DEF SignupInv, Calm, Gone
<1>6. Provisioned => Provisioned'  BY DEF Calm, Gone, Provisioned
<1>7. (~user.present => ~user'.present) /\ (user'.present => user.present)
      /\ (user.deleted \/ user.present => user'.deleted \/ user'.present)
  BY DEF Calm, Gone
<1>8. \A h \in Handlers : Signs(h) => ReachedOK(h)'
  <2> SUFFICES ASSUME NEW h \in Handlers, Signs(h) PROVE ReachedOK(h)'
    OBVIOUS
  <2>1. frame'[h] = frame[h] /\ ReachedOK(h) /\ IsSignup(frame[h].ev)
    BY <1>1 DEF SignupInv, Signs, IsSignup, Ev
  <2> QED BY <1>6, <1>7, <2>1, TroublesStay DEF ReachedOK
<1>9. \A e : IsSignup(e)' => e = 1  BY <1>2 DEF SignupInv
<1>10. \A g, h \in Handlers : Signs(g)' /\ Signs(h)' => g = h  BY <1>4 DEF SignupInv
<1>11. \A h \in Handlers : frame'[h].at \in SignupStages => Signs(h)'
  BY <1>4 DEF SignupInv
<1>12. \A e \in rejected' : IsSignup(e)' =>
         (~user'.present \/ "undo" \in mishaps') /\ e \notin processed'
  BY <1>3, <1>7, TroublesStay DEF SignupInv
<1>13. \A e \in processed' : IsSignup(e)' => Provisioned' \/ "cut" \in mishaps'
  BY <1>3, <1>6, TroublesStay DEF SignupInv
<1>14. Untroubled' /\ user'.present =>
         \/ \E e \in processed' : IsSignup(e)'
         \/ \E h \in Handlers : Signs(h)' /\ frame'[h].at \notin {"begin", "reject"}
  <2> SUFFICES ASSUME Untroubled, user.present
               PROVE  \/ \E e \in processed' : IsSignup(e)'
                      \/ \E h \in Handlers : Signs(h)' /\ frame'[h].at \notin {"begin", "reject"}
    BY <1>7, TroublesStay
  <2>1. CASE \E e \in processed : IsSignup(e)  BY <1>3, <2>1
  <2>2. CASE \E h \in Handlers : Signs(h) /\ frame[h].at \notin {"begin", "reject"}
    BY <1>4, <2>2
  <2> QED BY <2>1, <2>2 DEF SignupInv
<1>15. RowlessOK'
  <2> SUFFICES ASSUME user.present, rows = <<>>, "cut" \notin mishaps
               PROVE  \/ \E e \in rejected' : IsSignup(e)'
                      \/ \E h \in Handlers : Signs(h)' /\ frame'[h].at \in Rowless
    BY <1>7, TroublesStay DEF RowlessOK, Calm, Gone
  <2>1. CASE \E e \in rejected : IsSignup(e)  BY <1>3, <2>1
  <2>2. CASE \E h \in Handlers : Signs(h) /\ frame[h].at \in Rowless  BY <1>4, <2>2
  <2> QED BY <2>1, <2>2 DEF SignupInv, RowlessOK
<1> QED BY <1>4, <1>5, <1>8, <1>9, <1>10, <1>11, <1>12, <1>13, <1>14, <1>15 DEF SignupInv

LEMMA StaysOut ==
    ASSUME TypeInv, SignupInv, StripeTold, NEW h \in Handlers, ~Signs(h), frame'[h] = frame[h]
    PROVE  ~Signs(h)' /\ frame'[h].at \notin SignupStages
<1>1. frame[h].at # "idle" => frame[h].ev \in DOMAIN sent  BY EventTyped
<1> QED BY <1>1 DEF SignupInv, Signs, Ev, StripeTold

LEMMA HandlerKeepsSignup ==
    ASSUME TypeInv, SignupInv, StripeTold, MishapsStay, NEW h \in Handlers,
           Handle(h) \/ SignupFails(h)
    PROVE  SignupInv'
<1>1. CASE Signs(h)  BY <1>1, SignupEnds, SignupSteps
<1>2. CASE ~Signs(h)
  <2>1. h \in Procs /\ h \notin Clients /\ frame[h].at \notin SignupStages
    BY <1>2, AccountAssumption DEF SignupInv, AccountAssumption
  <2>2. /\ frame'[h].at = "idle"
             \/ (frame'[h].ev = frame[h].ev /\ frame'[h].at \notin SignupStages)
        /\ frame[h].at # "idle" /\ ~SignupUser(h) /\ ~UndoRow(h) /\ ~UndoUser(h) /\ ~Reject(h)
    BY <1>2, <2>1, OtherStages
  <2>3. Written(h) /\ Calm  BY <2>1, <2>2, HandlerWrites, StepCalm
  <2>4. frame[h].ev \in DOMAIN sent /\ ~IsSignup(frame[h].ev)
    BY <1>2, <2>2, EventTyped DEF IsSignup, Signs, Ev
  <2>5. ~Signs(h)' /\ frame'[h].at \notin SignupStages
    BY <1>2, <2>2, <2>4 DEF Signs, Ev, SignupStages, StripeTold
  <2>6. \A g \in Handlers \ {h} : frame'[g] = frame[g]
    BY HandlerGoes, HandlerMoves DEF Handle, TurnOK
  <2>7. \A g \in Handlers : Signs(g) => frame'[g] = frame[g]  BY <1>2, <2>6
  <2>8. \A g \in Handlers : ~Signs(g) => ~Signs(g)' /\ frame'[g].at \notin SignupStages
    BY <2>5, <2>6, StaysOut
  <2>9. /\ processed \subseteq processed' /\ processed' \subseteq processed \cup {frame[h].ev}
        /\ rejected \subseteq rejected' /\ rejected' \subseteq rejected \cup {frame[h].ev}
    BY <2>3 DEF Written, WritesEvents, Record, StepFails, Reject
  <2>10. \A e \in processed' \cup rejected' :
           /\ e \in DOMAIN sent
           /\ IsSignup(e) => (e \in processed' <=> e \in processed)
                             /\ (e \in rejected' <=> e \in rejected)
    BY <2>4, <2>9 DEF TypeInv, AccountTypeOK
  <2> QED BY <2>3, <2>7, <2>8, <2>9, <2>10, SignupElsewhere
<1> QED BY <1>1, <1>2

LEMMA ClientKeepsSignup ==
    ASSUME TypeInv, SignupInv, StripeTold, MishapsStay, NEW c \in Clients, Start(c) \/ Answer(c)
    PROVE  SignupInv'
<1>1. c \in Procs /\ c \notin Handlers  BY AccountAssumption DEF AccountAssumption
<1>2. Written(c)  BY ClientWrites
<1>3. UNCHANGED <<processed, rejected>>  BY <1>1, <1>2 DEF Written, WritesEvents
<1>4. Calm \/ Gone
  <2>1. CASE UserRow(c)  BY <2>1 DEF UserRow, Gone, NoUser, Numbers
  <2>2. CASE ~UserRow(c)  BY <1>1, <1>2, <2>2, StepCalm
  <2> QED BY <2>1, <2>2
<1>5. \A q \in Procs \ {c} : frame'[q] = frame[q]
  BY ClientGoes, ClientMoves DEF Start, Answer, TurnOK
<1>6. \A g \in Handlers : frame'[g] = frame[g]  BY <1>1, <1>5
<1>7. processed \cup rejected \subseteq DOMAIN sent  BY DEF TypeInv, AccountTypeOK
<1> QED BY <1>3, <1>4, <1>6, <1>7, StaysOut, SignupElsewhere

LEMMA OutsideKeepsSignup ==
    ASSUME TypeInv, SignupInv, StripeTold, MishapsStay, 
           UNCHANGED <<frame, eventVars, planVars, lineVars>>
    PROVE  SignupInv'
<1>1. Calm  BY DEF Calm, Numbers
<1>2. processed \cup rejected \subseteq DOMAIN sent  BY DEF TypeInv, AccountTypeOK
<1> QED BY <1>1, <1>2, StaysOut, SignupElsewhere

LEMMA ReceiveKeepsSignup ==
    ASSUME TypeInv, SignupInv, StripeTold, MishapsStay, NEW e \in due,
           NEW h \in Handlers, Receive(h, e), "slowSignup" \notin Faults
    PROVE  SignupInv'
<1>1. /\ frame' = [frame EXCEPT ![h].at = "begin", ![h].ev = e] /\ frame[h].at = "idle"
      /\ e \notin processed \cup rejected /\ \A g \in Handlers : frame[g].ev # e
      /\ UNCHANGED <<sent, eventVars, planVars, callerIds>>
  BY DEF Receive
<1>2. frame \in [Procs -> Frame] /\ frame[h] \in Frame /\ h \in Procs /\ e \in DOMAIN sent
  BY TypeParts DEF FrameType, StripeType
<1>3. frame'[h].at = "begin" /\ frame'[h].ev = e /\ \A g \in Handlers \ {h} : frame'[g] = frame[g]
  BY <1>1, <1>2 DEF Frame
<1>4. ~Signs(h)  BY <1>1 DEF Signs
<1>5. CASE ~IsSignup(e)
  <2>1. ~Signs(h)' /\ frame'[h].at \notin SignupStages
    BY <1>1, <1>2, <1>3, <1>5 DEF Signs, Ev, IsSignup, SignupStages
  <2>2. \A g \in Handlers : ~Signs(g) => ~Signs(g)' /\ frame'[g].at \notin SignupStages
    BY <1>3, <2>1, StaysOut
  <2>3. Calm /\ processed \cup rejected \subseteq DOMAIN sent
    BY <1>1 DEF Calm, Numbers, TypeInv, AccountTypeOK
  <2> QED BY <1>1, <1>3, <1>4, <2>2, <2>3, SignupElsewhere
<1>6. CASE IsSignup(e)
  <2>1. e = 1 /\ \A g \in Handlers : ~Signs(g)
    BY <1>1, <1>6, SignsTyped DEF SignupInv
  <2>2. \A g \in Handlers \ {h} : ~Signs(g)' /\ frame'[g].at \notin SignupStages
    BY <1>3, <2>1, StaysOut
  <2>3. Signs(h)' /\ ReachedOK(h)'
    BY <1>1, <1>3, <1>6 DEF Signs, Ev, IsSignup, ReachedOK, SignupStages
  <2>4. \A x : IsSignup(x)' <=> IsSignup(x)  BY <1>1 DEF IsSignup
  <2>5. Untroubled /\ user.present => \E x \in processed : IsSignup(x)  BY <2>1 DEF SignupInv
  <2>6. RowlessOK'  BY <1>1, <2>1, <2>4 DEF SignupInv, RowlessOK
  <2>7. Untroubled' <=> Untroubled  BY <1>1 DEF Untroubled, LeftBehind
  <2> QED BY <1>1, <2>1, <2>2, <2>3, <2>4, <2>5, <2>6, <2>7 DEF SignupInv, Provisioned, Numbers
<1> QED BY <1>5, <1>6

\* A death leaves a signup where it is: recorded as cut, or with its row.
LEMMA CrashKeepsSignup ==
    ASSUME TypeInv, SignupInv, StripeTold, MishapsStay, Crash PROVE SignupInv'
<1>1. \A h \in Handlers : frame'[h] = Idle  BY DEF Crash
<1>2. \A h \in Handlers : ~Signs(h)' /\ frame'[h].at \notin SignupStages
  BY <1>1, IdleTyped DEF Signs, SignupStages
<1>3. UNCHANGED <<sent, processed, rejected, user, rows, Numbers>>  BY DEF Crash, Numbers
<1>4. \A e : IsSignup(e)' <=> IsSignup(e)  BY <1>3 DEF IsSignup
<1>5. RowlessOK'
  <2> SUFFICES ASSUME user.present, rows = <<>>
               PROVE  "cut" \in mishaps' \/ \E e \in rejected : IsSignup(e)
    BY <1>3, <1>4 DEF RowlessOK
  <2>1. CASE \E h \in Handlers : Signs(h) /\ frame[h].at \in Rowless
    BY <2>1 DEF Crash, CutsSignup, Rowless
  <2> QED BY <2>1, TroublesStay DEF SignupInv, RowlessOK
<1>6. Untroubled' /\ user'.present => \E e \in processed' : IsSignup(e)'
  <2> SUFFICES ASSUME Untroubled', user.present PROVE \E e \in processed : IsSignup(e)
    BY <1>3, <1>4
  <2>1. \A h \in Handlers : ~Signs(h)
    BY DEF Crash, Signs, Untroubled, LeftBehind
  <2> QED BY <2>1, TroublesStay DEF SignupInv
<1>7. \A e \in rejected : IsSignup(e) =>
        (~user.present \/ "undo" \in mishaps') /\ e \notin processed
  BY TroublesStay DEF SignupInv
<1>8. \A e \in processed : IsSignup(e) => Provisioned \/ "cut" \in mishaps'
  BY TroublesStay DEF SignupInv
<1> QED BY <1>2, <1>3, <1>4, <1>5, <1>6, <1>7, <1>8 DEF SignupInv, Provisioned

LEMMA SignupInvariant ==
    ASSUME "slowSignup" \notin Faults
    PROVE  AccountSpec => []SignupInv
<1>1. TypeInv /\ SignupInv /\ [AccountNext]_accountVars => SignupInv'
  <2> SUFFICES ASSUME TypeInv, SignupInv, [AccountNext]_accountVars PROVE SignupInv'
    OBVIOUS
  <2>1. StripeTold /\ MishapsStay  BY StripeTells, MishapsKept
  <2>2. CASE UNCHANGED accountVars  BY <2>1, <2>2, OutsideKeepsSignup
  <2>3. CASE StripeActs /\ UNCHANGED stripeOnly  BY <2>1, <2>3, OutsideKeepsSignup
  <2>4. CASE \E e \in due : Skip(e)  BY <2>1, <2>4, OutsideKeepsSignup DEF Skip
  <2>5. ASSUME NEW e \in due, NEW h \in Handlers, Receive(h, e) PROVE SignupInv'
    BY <2>1, <2>5, ReceiveKeepsSignup
  <2>6. ASSUME NEW h \in Handlers, Handle(h) \/ SignupFails(h) PROVE SignupInv'
    BY <2>1, <2>6, HandlerKeepsSignup
  <2>7. ASSUME NEW c \in Clients, Start(c) \/ Answer(c) PROVE SignupInv'
    BY <2>1, <2>7, ClientKeepsSignup
  <2>8. CASE Crash  BY <2>1, <2>8, CrashKeepsSignup
  <2> QED BY <2>2, <2>3, <2>4, <2>5, <2>6, <2>7, <2>8, OthersWrite
<1>2. AccountInit => SignupInv
  <2> SUFFICES ASSUME AccountInit PROVE SignupInv
    OBVIOUS
  <2>1. \A h \in Handlers : frame[h].at = "idle"  BY IdleTyped DEF AccountInit
  <2>2. /\ DOMAIN sent = {} /\ processed = {} /\ rejected = {} /\ rows = <<>>
        /\ user.present = FALSE /\ Numbers = {}
    BY DEF AccountInit, NoUser, Numbers
  <2> QED BY <2>1, <2>2 DEF SignupInv, Signs, SignupStages, IsSignup, RowlessOK
<1>3. AccountSpec => []TypeInv  BY TypeInit, TypeNext, PTL DEF AccountSpec
<1> QED BY <1>1, <1>2, <1>3, PTL DEF AccountSpec

\* Unless a signup is delivered again while it is handled, it ends with a user who
\* has a subscription row or without any trace in the database, for any number of
\* deliveries, requests, plans and numbers: whichever step fails, and whatever is
\* deleted, crashes or is sent meanwhile.  What is left to break it is on record: a
\* rollback that could not delete the user, or a death before the row is there.
THEOREM SignupAllOrNothing ==
    ASSUME "slowSignup" \notin Faults
    PROVE  AccountSpec => []SignupIsWhole
<1>1. AccountSpec => []SignupInv  BY SignupInvariant
<1>2. SignupInv => SignupIsWhole  BY DEF SignupInv, SignupIsWhole, IsSignup, Provisioned
<1> QED BY <1>1, <1>2, PTL

-----------------------------------------------------------------------------
(* A charged add-on subscription is on record.  Only a request starts one    *)
(* and writes it into the row; only after Stripe was asked to cancel it does *)
(* a process drop the row.                                                  *)

Billed == {"addonRow", "addonRowBehalf"}
Ordering == Billed \cup {"buyPaid", "buyBehalf", "charge", "chargeBehalf"}
Undoing == {"undoRow", "undoUser"}

Deleting(c) ==
    \/ frame[c].at \in {"userReleasing", "userRow"}
    \/ frame[c].at \in {"cancelAddon", "dropAddon"} /\ frame[c].then = "userRow"

\* Stripe charges for it no more, or has refused to cancel it.
Settled(s) == stripe[s].status \in Ended \/ s \in mishaps

AddonInv ==
    /\ BilledAddonIsKnown
    /\ addonRow # None => user.present
    /\ \A c \in Clients : frame[c].at \in Ordering => user.present
    /\ \A c \in Clients : frame[c].at \in Billed \cup {"userRow"} => addonRow = None
    /\ "deleteUser" \notin Requests => \A c \in Clients : ~Deleting(c)
    /\ \A p \in Procs : At(p, "dropAddon") =>
         /\ addonRow # None /\ Settled(addonRow)
         /\ \A q \in Procs : At(q, "dropAddon") => q = p
    /\ \A h \in Handlers : frame[h].at \in Undoing => ~user.present

KnownOrSettled == \A s \in AddonSubs :
    \/ Settled(s) \/ addonRow = s
    \/ \E c \in Clients : frame[c].at \in Billed /\ frame[c].sub = s

LEMMA KnownWhen ==
    /\ BilledAddonIsKnown <=> KnownOrSettled
    /\ BilledAddonIsKnown' <=> KnownOrSettled'
  BY DEF BilledAddonIsKnown, KnownOrSettled, Settled, Ended, Billed

LEMMA SettledStays ==
    ASSUME TypeInv, StripeTold, MishapsStay, \A c \in Clients : ~ChargeFirst(c)
    PROVE  \A s \in AddonSubs : Settled(s) => Settled(s)'
<1> SUFFICES ASSUME NEW s \in AddonSubs, Settled(s) PROVE Settled(s)'
  OBVIOUS
<1>1. s # "release"  BY AccountAssumption DEF AccountAssumption, Subs
<1> QED BY <1>1 DEF StripeTold, MishapsStay, Settled

\* Nobody signs the customer up while a failed signup is undone.
Unmixed == \A g, h \in Handlers : Handles(g, "signup") => frame[h].at \notin Undoing

\* How a handler reaches the stages that the invariant is about.
LEMMA HandlerReaches ==
    ASSUME TypeInv, NEW h \in Handlers, Handle(h) \/ SignupFails(h)
    PROVE  /\ frame'[h].at = "dropAddon" => CancelAddon(h)
           /\ frame'[h].at \in Undoing => SignupFails(h) \/ SignupLost(h) \/ UndoRow(h)
           /\ InSignup(h)' => SignupUser(h) \/ InSignup(h)
<1> USE DEF Undoing, InSignup
<1>1. frame \in [Procs -> Frame] /\ frame[h] \in Frame /\ h \in Procs /\ h \notin Clients
  BY TypeParts, AccountAssumption DEF FrameType, AccountAssumption
<1>2. CASE SignupUser(h) \/ SignupFails(h) \/ SignupLost(h) \/ UndoRow(h) \/ CancelAddon(h)
  <2>1. PICK stage \in {"signupRow", "undoRow", "undoUser", "dropAddon"} :
            /\ Goto(h, stage)
            /\ stage = "dropAddon" <=> CancelAddon(h)
            /\ stage = "signupRow" <=> SignupUser(h)
    <3>1. CASE SignupUser(h)  BY <3>1 DEF SignupUser, Handles, CancelAddon
    <3>2. CASE SignupFails(h) \/ SignupLost(h) \/ UndoRow(h)
      BY <3>2 DEF SignupFails, SignupLost, Undoes, UndoRow, CancelAddon, SignupUser, Handles
    <3>3. CASE CancelAddon(h)  BY <3>3 DEF CancelAddon, SignupUser, Handles
    <3> QED BY <1>2, <3>1, <3>2, <3>3
  <2>2. frame'[h].at = stage  BY <1>1, <2>1, GotoKeeps
  <2> QED BY <1>2, <2>1, <2>2
<1>3. CASE SignupRow(h) \/ SignupFlag(h) \/ SignupBuy(h) \/ SignupStore(h)
  <2>1. frame[h].at \in {"signupRow", "signupFlag", "signupBuy", "signupStore"}
    BY <1>3 DEF SignupRow, SignupFlag, SignupBuy, Buys, SignupStore, StoresIncluded
  <2>2. frame'[h].at \in {"signupFlag", "signupBuy", "signupStore"}
    <3>1. CASE SignupRow(h) \/ SignupFlag(h)  BY <1>1, <3>1 DEF SignupRow, SignupFlag, Frame
    <3>2. CASE SignupBuy(h) \/ SignupStore(h)
      BY <1>1, <3>2 DEF SignupBuy, Buys, SignupStore, StoresIncluded, Frame
    <3> QED BY <1>3, <3>1, <3>2
  <2> QED BY <2>1, <2>2
<1>4. CASE SignupExists(h) \/ SignupDone(h) \/ UndoUser(h) \/ SubscribeRow(h) \/ SubscribeFlag(h)
           \/ LeadPurchased(h) \/ NoPlan(h) \/ UpdatedRow(h) \/ UpdatedFlags(h) \/ DeletedLead(h)
           \/ DeletedRow(h) \/ DeletedFlags(h) \/ FailedRow(h) \/ PaidRow(h) \/ TopUpEnds(h)
           \/ UnpaidRelease(h) \/ UnpaidRow(h) \/ UndoFails(h) \/ ReleaseFails(h)
  <2>1. PICK stage \in {"record", "reject", "subscribeFlag", "updatedTrial", "topUp",
                        "deletedFlags", "release", "failedFlag", "paidFlag", "unpaidRow",
                        "unpaidCount"} : Goto(h, stage)
    BY <1>4 DEF SignupExists, SignupDone, UndoUser, SubscribeRow, SubscribeFlag, LeadPurchased,
       NoPlan, UpdatedRow, WritesRow, UpdatedFlags, DeletedLead, DeletedRow, DeletedFlags,
       FailedRow, PaidRow, TopUpEnds, UnpaidRelease, UnpaidRow, DeletesRow, UndoFails,
       ReleaseFails
  <2>2. frame'[h].at = stage  BY <1>1, <2>1, GotoKeeps
  <2> QED BY <2>2
<1>5. CASE NoAddon(h) \/ DropAddon(h)
  <2>1. frame[h].then \in {"record", "unpaid"}
    BY <1>1, <1>5, TypeParts DEF FrameType, NoAddon, DropAddon
  <2>2. PICK stage \in {"record", "unpaid"} : Goto(h, stage)  BY <1>5, <2>1 DEF NoAddon, DropAddon
  <2>3. frame'[h].at = stage  BY <1>1, <2>2, GotoKeeps
  <2> QED BY <2>3
<1>6. CASE StepFails(h) \/ Record(h) \/ Reject(h)
  <2>1. frame' = [frame EXCEPT ![h] = Idle]  BY <1>6 DEF StepFails, Record, Reject
  <2> QED BY <1>1, <2>1, IdleKnows
<1>7. CASE UpdatedTrial(h) \/ FailedFlag(h) \/ Uncollectible(h) \/ TopUp(h) \/ TopUpBuy(h)
           \/ TopUpStore(h) \/ ReleaseFinds(h) \/ ReleaseOne(h) \/ ReleaseDeletes(h) \/ Unpaid(h)
           \/ UnpaidCount(h)
  <2>1. frame'[h].at \in {"updatedFlags", "unpaid", "record", "topUpBuy", "topUpStore",
                          "releasing", "cancelAddon", "unpaidRelease"}
    <3>1. CASE UpdatedTrial(h) \/ Uncollectible(h) \/ TopUp(h)
      BY <1>1, <3>1 DEF UpdatedTrial, Uncollectible, TopUp, Frame
    <3>2. CASE TopUpBuy(h) \/ TopUpStore(h)
      BY <1>1, <3>2 DEF TopUpBuy, Buys, TopUpStore, StoresIncluded, Frame
    <3>3. CASE FailedFlag(h)
      <4>1. PICK stage \in {"unpaid", "record"} :
              frame' = [frame EXCEPT ![h].at = stage, ![h].todo = Ev(h).items]
        BY <3>3 DEF FailedFlag
      <4> QED BY <1>1, <4>1 DEF Frame
    <3>4. CASE ReleaseFinds(h)
      <4>1. PICK stage \in {"record", "releasing"} :
              frame' = [frame EXCEPT ![h].at = stage, ![h].todo = Numbers, ![h].found = Numbers]
        BY <3>4 DEF ReleaseFinds
      <4> QED BY <1>1, <4>1 DEF Frame
    <3>5. CASE ReleaseOne(h) \/ ReleaseDeletes(h)
      BY <1>1, <3>5 DEF ReleaseOne, ReleaseDeletes, Frame
    <3>6. CASE Unpaid(h)
      <4>1. CASE Goto(h, "record")
        <5>1. PICK stage \in {"record"} : Goto(h, stage)  BY <4>1
        <5> QED BY <1>1, <5>1, GotoKeeps
      <4>2. CASE ~Goto(h, "record")
        <5>1. PICK n \in frame[h].todo, stage \in {"unpaidRelease", "unpaid"} :
                frame' = [frame EXCEPT ![h].at = stage, ![h].todo = @ \ {n}, ![h].phone = n]
          BY <3>6, <4>2 DEF Unpaid
        <5> QED BY <1>1, <5>1 DEF Frame
      <4> QED BY <4>1, <4>2
    <3>7. CASE UnpaidCount(h)
      <4>1. PICK stage \in {"cancelAddon", "unpaid"} :
              frame' = [frame EXCEPT ![h].at = stage, ![h].then = "unpaid"]
        BY <3>7 DEF UnpaidCount
      <4> QED BY <1>1, <4>1 DEF Frame
    <3> QED BY <1>7, <3>1, <3>2, <3>3, <3>4, <3>5, <3>6, <3>7
  <2> QED BY <2>1
<1> QED BY <1>2, <1>3, <1>4, <1>5, <1>6, <1>7 DEF Handle

\* How a request does.
Suspending(c) ==
    \/ frame[c].at \in {"suspend", "suspendRow", "suspendLeads"}
    \/ frame[c].at \in {"cancelAddon", "dropAddon"} /\ frame[c].then = "suspendLeads"
Reviving == {"renew", "renewRow", "renewFlag", "endTrial", "endTrialFlags"}

LEMMA ClientReaches ==
    ASSUME TypeInv, NEW c \in Clients, Start(c) \/ Answer(c)
    PROVE  /\ frame'[c].at = "dropAddon" => CancelAddon(c)
           /\ frame'[c].at \in Billed => ChargeFirst(c)
           /\ frame'[c].at \in Ordering => frame[c].at \in Ordering \/ user.present
           /\ frame'[c].at = "userRow" => NoAddon(c) \/ DropAddon(c)
           /\ Deleting(c)' => Deleting(c) \/ "deleteUser" \in Requests
           /\ Suspending(c)' => Suspending(c) \/ Suspend(c)
           /\ frame'[c].at = "cancel" => Cancel(c)
           /\ frame'[c].at \in Reviving =>
                frame[c].at \in Reviving \/ Requests \cap {"renew", "endTrial"} # {}
<1> USE DEF Billed, Ordering, Deleting, Suspending, Reviving
<1>1. frame \in [Procs -> Frame] /\ frame[c] \in Frame /\ c \in Procs /\ c \notin Handlers
  BY TypeParts, AccountAssumption DEF FrameType, AccountAssumption
<1>2. CASE Return(c)
  <2>1. frame' = [frame EXCEPT ![c] = Idle]  BY <1>2, Answers
  <2> QED BY <1>1, <2>1, IdleKnows
<1>3. CASE ChangePlan(c) \/ CancelLead(c)
  <2>1. UNCHANGED frame /\ frame[c].at = "idle"  BY <1>3 DEF ChangePlan, CancelLead
  <2> QED BY <2>1
<1>4. CASE SuspendLead(c)
  <2>1. UNCHANGED frame /\ frame[c].at = "suspendLeads"  BY <1>4 DEF SuspendLead
  <2> QED BY <2>1
<1>5. CASE DropAddon(c) \/ NoAddon(c)
  <2>1. frame[c].at \in {"cancelAddon", "dropAddon"} /\ Goto(c, frame[c].then)
    BY <1>5 DEF DropAddon, NoAddon
  <2>2. frame[c].then \in {"suspendLeads", "deleteRow", "userRow"}
    BY <1>1, <2>1, TypeParts DEF FrameType
  <2>3. frame'[c].at = frame[c].then  BY <1>1, <2>1, GotoKeeps
  <2> QED BY <1>5, <2>1, <2>2, <2>3
<1>6. CASE CancelAddon(c)
  <2>1. Goto(c, "dropAddon") /\ frame[c].at = "cancelAddon"  BY <1>6 DEF CancelAddon
  <2>2. frame'[c].at = "dropAddon" /\ frame'[c].then = frame[c].then  BY <1>1, <2>1, GotoKeeps
  <2> QED BY <1>6, <2>1, <2>2
<1>7. CASE Buy(c) \/ BuyOnBehalf(c)
  <2>1. user.present /\ \E stage \in {"buyIncluded", "buyPaid", "buyBehalf"} : Goto(c, stage)
    BY <1>7 DEF Buy, BuyOnBehalf, Asks
  <2>2. frame'[c].at \in {"buyIncluded", "buyPaid", "buyBehalf"}  BY <1>1, <2>1, GotoKeeps
  <2> QED BY <2>1, <2>2
<1>8. CASE /\ \/ CancelAtStripe(c) \/ CancelRow(c) \/ RenewAtStripe(c) \/ RenewRow(c) \/ RenewFlag(c)
              \/ EndTrialAtStripe(c) \/ EndTrialFlags(c) \/ CardPays(c) \/ SuspendFlags(c)
              \/ StoreIncluded(c) \/ AddonRow(c) \/ Declined(c) \/ Transfer(c) \/ StorePaid(c)
              \/ GiveBack(c) \/ DeleteRelease(c) \/ DeleteItem(c) \/ DeleteRow(c) \/ UserRow(c)
              \/ RequestFails(c)
           /\ ~Return(c)
  <2>1. PICK stage \in {"cancelRow", "renewRow", "renewFlag", "endTrialFlags", "giveBack",
                        "storePaid", "transfer", "deleteRow", "deleteItem", "deleteCount"} :
            Goto(c, stage) /\ (stage \in Reviving => frame[c].at \in Reviving)
    BY <1>8 DEF CancelAtStripe, CancelRow, RenewAtStripe, RenewRow, RenewFlag, EndTrialAtStripe,
       EndTrialFlags, CardPays, SuspendFlags, StoreIncluded, AddonRow, Declined, Transfer,
       StorePaid, GiveBack, DeleteRelease, DeleteItem, DeleteRow, DeletesRow, UserRow, RequestFails
  <2>2. frame'[c].at = stage  BY <1>1, <2>1, GotoKeeps
  <2> QED BY <2>1, <2>2
<1>9. CASE Cancel(c) \/ Renew(c) \/ EndTrial(c) \/ NewCard(c)
  <2>1. PICK kind, r, stage :
            /\ stage \in {"cancel", "renew", "endTrial", "card"}
            /\ Reads(c, kind, r, stage)
            /\ stage = "cancel" => Cancel(c)
            /\ stage \in {"renew", "endTrial"} => kind = stage
    BY <1>9 DEF Cancel, Renew, EndTrial, NewCard
  <2>2. frame' = [frame EXCEPT ![c].at = stage, ![c].row = r, ![c].sub = rows[r].sub]
    BY <2>1 DEF Reads
  <2>3. frame'[c].at = stage /\ kind \in Requests  BY <1>1, <2>1, <2>2 DEF Frame, Reads
  <2> QED BY <2>1, <2>3
<1>10. CASE Suspend(c) \/ SuspendAtStripe(c) \/ SuspendRow(c) \/ Delete(c)
  <2>1. frame'[c].at \in {"suspend", "suspendRow", "deleteRelease"}
    <3>1. CASE Suspend(c)  BY <1>1, <3>1 DEF Suspend, Frame
    <3>2. CASE SuspendAtStripe(c)
      <4>1. PICK r \in frame[c].rowIds :
              \/ frame' = [frame EXCEPT ![c].at = "suspendRow", ![c].row = r]
              \/ frame' = [frame EXCEPT ![c].rowIds = @ \ {r}]
        BY <3>2 DEF SuspendAtStripe
      <4>2. frame[c].at = "suspend"  BY <3>2 DEF SuspendAtStripe
      <4> QED BY <1>1, <4>1, <4>2 DEF Frame
    <3>3. CASE SuspendRow(c)
      <4>1. PICK ids : frame' = [frame EXCEPT ![c].at = "suspend", ![c].rowIds = ids]
        BY <3>3 DEF SuspendRow
      <4> QED BY <1>1, <4>1 DEF Frame
    <3>4. CASE Delete(c)
      <4>1. PICK n, ns : frame' = [frame EXCEPT ![c].at = "deleteRelease", ![c].phone = n,
                                                ![c].found = ns]
        BY <3>4 DEF Delete
      <4> QED BY <1>1, <4>1 DEF Frame
    <3> QED BY <1>10, <3>1, <3>2, <3>3, <3>4
  <2>2. Suspend(c) \/ frame[c].at \in {"suspend", "suspendRow"} \/ frame'[c].at = "deleteRelease"
    <3>1. CASE Delete(c)
      <4>1. PICK n, ns : frame' = [frame EXCEPT ![c].at = "deleteRelease", ![c].phone = n,
                                                ![c].found = ns]
        BY <3>1 DEF Delete
      <4> QED BY <1>1, <4>1 DEF Frame
    <3> QED BY <1>10, <3>1 DEF SuspendAtStripe, SuspendRow
  <2> QED BY <2>1, <2>2
<1>11. CASE SuspendAddon(c)
  <2>1. frame'[c].at = "cancelAddon" /\ frame'[c].then = "suspendLeads"
    BY <1>1, <1>11 DEF SuspendAddon, Frame
  <2>2. frame[c].at = "suspend"  BY <1>11 DEF SuspendAddon
  <2> QED BY <2>1, <2>2
<1>12. CASE BuyIncluded(c)
  <2>1. frame'[c].at = "storeIncluded"  BY <1>1, <1>12 DEF BuyIncluded, Buys, Frame
  <2> QED BY <2>1
<1>13. CASE BuyPaid(c)
  <2>1. frame[c].at \in {"buyPaid", "buyBehalf"} /\ frame'[c].at \in {"charge", "chargeBehalf"}
    BY <1>1, <1>13 DEF BuyPaid, Buys, Frame
  <2> QED BY <2>1
<1>14. CASE ChargeFirst(c)
  <2>1. PICK s \in AddonSubs, stage \in {"addonRow", "addonRowBehalf"} :
            frame' = [frame EXCEPT ![c].at = stage, ![c].sub = s]
    BY <1>14 DEF ChargeFirst
  <2>2. frame'[c].at = stage /\ frame[c].at \in {"charge", "chargeBehalf"}
    BY <1>1, <1>14, <2>1 DEF ChargeFirst, Charges, Frame
  <2> QED BY <1>14, <2>2
<1>15. CASE ChargeItem(c)
  <2>1. frame'[c].at \in {"giveBack", "transfer", "storePaid"}
    <3>1. CASE Goto(c, "giveBack")
      <4>1. PICK stage \in {"giveBack"} : Goto(c, stage)  BY <3>1
      <4> QED BY <1>1, <4>1, GotoKeeps
    <3>2. CASE ~Goto(c, "giveBack")
      <4>1. PICK stage \in {"transfer", "storePaid"} :
                frame' = [frame EXCEPT ![c].at = stage, ![c].sub = addonRow]
        BY <1>15, <3>2 DEF ChargeItem, Charged
      <4> QED BY <1>1, <4>1 DEF Frame
    <3> QED BY <3>1, <3>2
  <2> QED BY <2>1
<1>16. CASE DeleteCount(c)
  <2>1. PICK stage \in {"cancelAddon", "deleteRow"} :
            frame' = [frame EXCEPT ![c].at = stage, ![c].then = "deleteRow"]
    BY <1>16 DEF DeleteCount
  <2>2. frame'[c].at = stage /\ frame'[c].then = "deleteRow"  BY <1>1, <2>1 DEF Frame
  <2> QED BY <2>2
<1>17. CASE DeleteUser(c)
  <2>1. frame'[c].at = "userReleasing" /\ "deleteUser" \in Requests
    BY <1>1, <1>17 DEF DeleteUser, Frame
  <2> QED BY <2>1
<1>18. CASE UserReleases(c) \/ UserReleased(c)
  <2>1. /\ frame[c].at = "userReleasing" /\ frame'[c].at \in {"userReleasing", "cancelAddon"}
        /\ frame'[c].at = "cancelAddon" => frame'[c].then = "userRow"
    BY <1>1, <1>18 DEF UserReleases, UserReleased, Frame
  <2> QED BY <2>1
<1> QED BY <1>2, <1>3, <1>4, <1>5, <1>6, <1>7, <1>8, <1>9, <1>10, <1>11, <1>12, <1>13, <1>14, <1>15,
           <1>16, <1>17, <1>18 DEF Start, Answer

\* A request that has charged the first add-on can only write its row.
LEMMA BilledNext ==
    ASSUME TypeInv, NEW c \in Clients, Start(c) \/ Answer(c), frame[c].at \in Billed
    PROVE  AddonRow(c)
<1> USE DEF Billed
<1>1. ~Start(c)
  BY DEF Start, Cancel, Renew, EndTrial, NewCard, Reads, ChangePlan, Suspend, CancelLead, Buy,
     BuyOnBehalf, Asks, Delete, DeleteUser
<1>2. ~(CancelAtStripe(c) \/ CancelRow(c) \/ RenewAtStripe(c) \/ RenewRow(c) \/ RenewFlag(c)
        \/ EndTrialAtStripe(c) \/ EndTrialFlags(c) \/ CardPays(c) \/ SuspendAtStripe(c)
        \/ SuspendRow(c) \/ SuspendAddon(c) \/ SuspendLead(c) \/ SuspendFlags(c)
        \/ NoAddon(c) \/ CancelAddon(c) \/ DropAddon(c) \/ RequestFails(c))
  BY DEF CancelAtStripe, CancelRow, RenewAtStripe, RenewRow, RenewFlag, EndTrialAtStripe,
     EndTrialFlags, CardPays, SuspendAtStripe, SuspendRow, SuspendAddon, SuspendLead,
     SuspendFlags, NoAddon, CancelAddon, DropAddon, RequestFails
<1>3. ~(BuyIncluded(c) \/ StoreIncluded(c) \/ BuyPaid(c) \/ ChargeFirst(c)
        \/ ChargeItem(c) \/ Declined(c) \/ Transfer(c) \/ StorePaid(c) \/ GiveBack(c)
        \/ DeleteRelease(c) \/ DeleteItem(c) \/ DeleteCount(c) \/ DeleteRow(c)
        \/ UserReleases(c) \/ UserReleased(c) \/ UserRow(c))
  BY DEF BuyIncluded, Buys, StoreIncluded, BuyPaid, ChargeFirst, Charges, ChargeItem, Declined,
     Transfer, StorePaid, GiveBack, DeleteRelease, DeleteItem, DeleteCount, DeleteRow, DeletesRow,
     UserReleases, UserReleased, UserRow
<1> QED BY <1>1, <1>2, <1>3 DEF Answer

LEMMA ChargesFirst ==
    ASSUME TypeInv, NEW c \in Clients, ChargeFirst(c)
    PROVE  /\ frame[c].at \in {"charge", "chargeBehalf"} /\ frame'[c].at \in Billed
           /\ addonRow = None /\ UNCHANGED <<addonRow, user>>
<1>1. frame \in [Procs -> Frame] /\ frame[c] \in Frame  BY TypeParts DEF FrameType
<1>2. PICK s \in AddonSubs, stage \in Billed :
          frame' = [frame EXCEPT ![c].at = stage, ![c].sub = s]
  BY DEF ChargeFirst, Billed
<1>3. frame'[c].at = stage  BY <1>1, <1>2 DEF Frame
<1> QED BY <1>2, <1>3 DEF ChargeFirst, Charges

\* A step that neither charges nor writes the row.
LEMMA AddonKeeps ==
    ASSUME TypeInv, StripeTold, MishapsStay, AddonInv, NEW p \in Procs,
           \A q \in Procs \ {p} : frame'[q] = frame[q],
           UNCHANGED addonRow,
           \/ user'.present = user.present
           \/ user'.present /\ \A h \in Handlers : frame[h].at \notin Undoing,
           p \in Clients => ~ChargeFirst(p) /\ frame[p].at \notin Billed,
           frame'[p].at # "dropAddon",
           p \in Clients /\ frame'[p].at \in Ordering => user.present /\ frame'[p].at \notin Billed,
           p \in Clients /\ frame'[p].at = "userRow" => addonRow = None,
           p \in Clients /\ Deleting(p)' => Deleting(p) \/ "deleteUser" \in Requests,
           p \in Handlers /\ frame'[p].at \in Undoing => ~user'.present
    PROVE  AddonInv'
<1>1. user.present => user'.present  OBVIOUS
<1>2. \A c \in Clients : ~ChargeFirst(c)
  <2> SUFFICES ASSUME NEW c \in Clients, ChargeFirst(c), c # p PROVE FALSE
    OBVIOUS
  <2>1. frame[c].at \notin Billed /\ frame'[c].at \in Billed
    BY ChargesFirst DEF Billed
  <2> QED BY <2>1
<1>3. \A s \in AddonSubs : Settled(s) => Settled(s)'  BY <1>2, SettledStays
<1>4. \A s \in AddonSubs : \/ Settled(s)' \/ addonRow' = s
        \/ \E c \in Clients : frame'[c].at \in Billed /\ frame'[c].sub = s
  <2> SUFFICES ASSUME NEW s \in AddonSubs, ~Settled(s)'
               PROVE  \/ addonRow' = s
                      \/ \E c \in Clients : frame'[c].at \in Billed /\ frame'[c].sub = s
    OBVIOUS
  <2>1. \/ addonRow = s
        \/ \E c \in Clients : frame[c].at \in Billed /\ frame[c].sub = s
    BY <1>3, KnownWhen DEF AddonInv, KnownOrSettled
  <2>2. ASSUME NEW c \in Clients, frame[c].at \in Billed PROVE frame'[c] = frame[c]
    BY <2>2
  <2> QED BY <2>1, <2>2
<1>5. addonRow' # None => user'.present  BY <1>1 DEF AddonInv
<1>6. \A c \in Clients : frame'[c].at \in Ordering => user'.present  BY <1>1 DEF AddonInv
<1>7. \A c \in Clients : frame'[c].at \in Billed \cup {"userRow"} => addonRow' = None
  BY DEF AddonInv, Ordering
<1>10. addonRow # None /\ Settled(addonRow) => Settled(addonRow)'
  <2>1. addonRow # None => addonRow \in AddonSubs  BY DEF TypeInv, AccountTypeOK
  <2>2. addonRow' = addonRow  OBVIOUS
  <2> QED BY <1>3, <2>1, <2>2
<1>11. "deleteUser" \notin Requests => \A c \in Clients : ~Deleting(c)'
  BY DEF AddonInv, Deleting
<1>8. \A q \in Procs : frame'[q].at = "dropAddon" =>
         /\ addonRow' # None /\ Settled(addonRow)'
         /\ \A r \in Procs : frame'[r].at = "dropAddon" => r = q
  <2> SUFFICES ASSUME NEW q \in Procs, frame'[q].at = "dropAddon"
               PROVE  /\ addonRow # None /\ Settled(addonRow)
                      /\ \A r \in Procs : frame'[r].at = "dropAddon" => r = q
    BY <1>10
  <2>1. frame[q].at = "dropAddon"
        /\ \A r \in Procs : frame'[r].at = "dropAddon" => frame[r].at = "dropAddon"
    OBVIOUS
  <2> QED BY <2>1 DEF AddonInv
<1>9. \A h \in Handlers : frame'[h].at \in Undoing => ~user'.present  BY DEF AddonInv
<1>12. BilledAddonIsKnown'  BY <1>4, KnownWhen DEF KnownOrSettled
<1> QED BY <1>5, <1>6, <1>7, <1>8, <1>9, <1>11, <1>12 DEF AddonInv

LEMMA AddonElsewhere ==
    ASSUME TypeInv, StripeTold, MishapsStay, AddonInv, UNCHANGED <<addonRow, user, frame>>
    PROVE  AddonInv'
<1>1. \A c \in Clients : ~ChargeFirst(c)
  <2> SUFFICES ASSUME NEW c \in Clients, ChargeFirst(c) PROVE FALSE
    OBVIOUS
  <2> QED BY ChargesFirst DEF Billed
<1>2. \A s \in AddonSubs : Settled(s) => Settled(s)'  BY <1>1, SettledStays
<1>3. BilledAddonIsKnown'
  <2>1. \A s \in AddonSubs : \/ Settled(s)' \/ addonRow' = s
          \/ \E c \in Clients : frame'[c].at \in Billed /\ frame'[c].sub = s
    BY <1>2, KnownWhen DEF AddonInv, KnownOrSettled
  <2> QED BY <2>1, KnownWhen DEF KnownOrSettled
<1>4. addonRow # None => addonRow \in AddonSubs  BY DEF TypeInv, AccountTypeOK
<1>5. addonRow # None /\ Settled(addonRow) => Settled(addonRow)'
  <2>1. addonRow' = addonRow  OBVIOUS
  <2> QED BY <1>2, <1>4, <2>1
<1>6. \A p \in Procs : frame'[p].at = "dropAddon" => addonRow' # None /\ Settled(addonRow)'
  BY <1>5 DEF AddonInv
<1>7. "deleteUser" \notin Requests => \A c \in Clients : ~Deleting(c)'  BY DEF AddonInv, Deleting
<1> QED BY <1>3, <1>6, <1>7 DEF AddonInv

LEMMA CancelKeepsAddon ==
    ASSUME TypeInv, StripeTold, MishapsStay, AddonInv, NEW p \in Procs, CancelAddon(p),
           "slowCancel" \notin Faults
    PROVE  AddonInv'
<1>1. /\ frame[p].at = "cancelAddon" /\ addonRow # None /\ \A q \in Procs : ~At(q, "dropAddon")
      /\ UNCHANGED <<user, addonRow>>
      /\ CancelsAtStripe(addonRow) \/ mishaps' = mishaps \cup {addonRow}
  BY DEF CancelAddon
<1>2. addonRow \in AddonSubs /\ stripe \in [Subs -> [status : StripeStatus, closing : BOOLEAN]]
  BY <1>1, TypeParts DEF TypeInv, AccountTypeOK, StripeType
<1>3. PICK stage \in {"dropAddon"} : Goto(p, stage)  BY DEF CancelAddon
<1>4. frame'[p].at = "dropAddon" /\ \A q \in Procs \ {p} : frame'[q] = frame[q]
  BY <1>3, GotoKeeps, TypeParts DEF FrameType
<1>5. Settled(addonRow)'
  <2>1. CASE CancelsAtStripe(addonRow)
    <3>1. stripe'[addonRow].status \in Ended  BY <1>2, <2>1 DEF CancelsAtStripe, Ended, Subs
    <3> QED BY <1>1, <3>1 DEF Settled
  <2>2. CASE mishaps' = mishaps \cup {addonRow}  BY <1>1, <2>2 DEF Settled
  <2> QED BY <1>1, <2>1, <2>2
<1>6. \A c \in Clients : frame[c].at \notin Billed /\ frame'[c].at \notin Billed
  BY <1>1, <1>4 DEF AddonInv, Billed
<1>7. \A s \in AddonSubs : Settled(s) => Settled(s)'  BY <1>6, ChargesFirst, SettledStays
<1>8. BilledAddonIsKnown'
  <2>1. \A s \in AddonSubs : Settled(s)' \/ addonRow' = s
    BY <1>1, <1>6, <1>7, KnownWhen DEF AddonInv, KnownOrSettled
  <2> QED BY <2>1, KnownWhen DEF KnownOrSettled
<1>9. \A c \in Clients : frame'[c].at \in Ordering => user'.present
  BY <1>1, <1>4 DEF AddonInv, Ordering, Billed
<1>10. \A c \in Clients : frame'[c].at # "userRow"  BY <1>1, <1>4 DEF AddonInv
<1>13. "deleteUser" \notin Requests => \A c \in Clients : ~Deleting(c)'
  BY <1>1, <1>3, <1>4, GotoKeeps, TypeParts DEF AddonInv, Deleting, FrameType
<1>11. \A q \in Procs : frame'[q].at = "dropAddon" => q = p  BY <1>1, <1>4
<1>12. \A h \in Handlers : frame'[h].at \in Undoing => ~user'.present
  BY <1>1, <1>4 DEF AddonInv, Undoing
<1> QED BY <1>1, <1>5, <1>6, <1>8, <1>9, <1>10, <1>11, <1>12, <1>13 DEF AddonInv

LEMMA DropKeepsAddon ==
    ASSUME TypeInv, AddonInv, NEW p \in Procs, DropAddon(p),
           "db" \notin Faults \/ "deleteUser" \notin Requests
    PROVE  AddonInv'
<1>1. /\ frame[p].at = "dropAddon" /\ (addonRow' = None \/ UNCHANGED addonRow)
      /\ UNCHANGED <<stripe, mishaps, user>> /\ Goto(p, frame[p].then)
  BY DEF DropAddon, stripeVars, eventVars, planVars
<1>2. frame[p].then \in {"record", "unpaid", "suspendLeads", "deleteRow", "userRow"}
  BY <1>1, TypeParts DEF FrameType
<1>3. frame'[p].at = frame[p].then /\ \A q \in Procs \ {p} : frame'[q] = frame[q]
  BY <1>1, GotoKeeps, TypeParts DEF FrameType
<1>4. /\ addonRow # None /\ Settled(addonRow)
      /\ \A q \in Procs : frame[q].at = "dropAddon" => q = p
  BY <1>1 DEF AddonInv
<1>5. \A c \in Clients : frame[c].at \notin Billed  BY <1>4 DEF AddonInv
<1>6. BilledAddonIsKnown'
  <2>1. \A s \in AddonSubs : Settled(s)
    BY <1>4, <1>5, KnownWhen DEF AddonInv, KnownOrSettled
  <2>2. \A s \in AddonSubs : Settled(s)'  BY <1>1, <2>1 DEF Settled
  <2> QED BY <2>2, KnownWhen DEF KnownOrSettled
<1>10. addonRow' = None \/ Settled(addonRow)'  BY <1>1, <1>4 DEF Settled
<1>11. addonRow' # None => user'.present  BY <1>1 DEF AddonInv
<1>12. \A c \in Clients : frame'[c].at \notin Billed  BY <1>2, <1>3, <1>5 DEF Billed
<1>13. \A c \in Clients : frame'[c].at = "userRow" => addonRow' = None
  <2> SUFFICES ASSUME NEW c \in Clients, frame'[c].at = "userRow", addonRow' # None PROVE FALSE
    OBVIOUS
  <2>1. frame[c].at # "userRow"  BY <1>4 DEF AddonInv
  <2>2. c = p /\ frame[c].then = "userRow"  BY <1>3, <2>1
  <2>3. Deleting(c)  BY <1>1, <2>2 DEF Deleting
  <2>4. "db" \in Faults  BY <1>4 DEF DropAddon
  <2> QED BY <2>3, <2>4 DEF AddonInv
<1>14. "deleteUser" \notin Requests => \A c \in Clients : ~Deleting(c)'
  BY <1>1, <1>2, <1>3 DEF AddonInv, Deleting
<1>7. \A c \in Clients : frame'[c].at \in Ordering => user'.present
  BY <1>1, <1>2, <1>3 DEF AddonInv, Ordering, Billed
<1>8. \A q \in Procs : frame'[q].at # "dropAddon"  BY <1>2, <1>3, <1>4
<1>9. \A h \in Handlers : frame'[h].at \in Undoing => ~user'.present
  BY <1>1, <1>2, <1>3 DEF AddonInv, Undoing
<1> QED BY <1>6, <1>7, <1>8, <1>9, <1>10, <1>11, <1>12, <1>13, <1>14 DEF AddonInv

\* A request of the only one there is.
LEMMA ClientKeepsAddon ==
    ASSUME TypeInv, StripeTold, MishapsStay, AddonInv, NEW c \in Clients, Start(c) \/ Answer(c),
           \A d \in Clients : d = c, "slowCancel" \notin Faults,
           "db" \notin Faults \/ "deleteUser" \notin Requests
    PROVE  AddonInv'
<1>1. c \in Procs /\ c \notin Handlers /\ frame \in [Procs -> Frame]
  BY TypeParts, AccountAssumption DEF FrameType, AccountAssumption
<1>2. \A q \in Procs \ {c} : frame'[q] = frame[q]
  BY ClientGoes, ClientMoves DEF Start, Answer, TurnOK
<1>3. CASE CancelAddon(c) \/ DropAddon(c)
  BY <1>1, <1>3, CancelKeepsAddon, DropKeepsAddon
<1>8. "deleteUser" \notin Requests => \A d \in Clients : ~Deleting(d)'
  BY ClientReaches DEF AddonInv
<1>4. CASE ChargeFirst(c)
  <2>1. /\ frame[c].at \in {"charge", "chargeBehalf"} /\ frame'[c].at \in Billed
        /\ addonRow = None /\ UNCHANGED <<addonRow, user>> /\ user.present
    BY <1>4, ChargesFirst DEF AddonInv, Ordering
  <2>2. \A s \in AddonSubs : Settled(s)
    <3> SUFFICES ASSUME NEW s \in AddonSubs, ~Settled(s) PROVE FALSE
      OBVIOUS
    <3>1. addonRow = s \/ \E d \in Clients : frame[d].at \in Billed
      BY KnownWhen DEF AddonInv, KnownOrSettled
    <3>2. s # None  BY AccountAssumption DEF AccountAssumption, Subs
    <3> QED BY <2>1, <3>1, <3>2 DEF Billed
  <2>3. BilledAddonIsKnown'
    <3> SUFFICES ASSUME NEW s \in AddonSubs, ~Settled(s)'
                 PROVE  \E d \in Clients : frame'[d].at \in Billed /\ frame'[d].sub = s
      BY KnownWhen DEF KnownOrSettled
    <3>1. s # "release" /\ Settled(s)  BY <2>2, AccountAssumption DEF AccountAssumption, Subs
    <3>2. stripe[s].status \in Ended /\ stripe'[s].status \notin Ended
      BY <3>1 DEF Settled, MishapsStay
    <3>3. PICK d \in Clients : ChargeFirst(d) /\ frame'[d].sub = s  BY <3>2 DEF StripeTold
    <3> QED BY <3>3, ChargesFirst
  <2>4. \A q \in Procs : frame'[q].at # "dropAddon"
    BY <1>2, <2>1 DEF AddonInv, Billed
  <2>5. \A h \in Handlers : frame'[h].at \in Undoing => ~user'.present
    BY <1>1, <1>2, <2>1 DEF AddonInv
  <2> QED BY <1>8, <2>1, <2>3, <2>4, <2>5 DEF AddonInv
<1>5. CASE AddonRow(c)
  <2>1. /\ frame[c].at \in Billed /\ addonRow = None /\ user.present
        /\ frame[c].sub \in AddonSubs
    BY <1>1, <1>5, TypeParts DEF AddonRow, AddonInv, Billed, Ordering, KindsOK, FrameKind
  <2>2. PICK stage \in {"storePaid", "transfer"} :
            Goto(c, stage) /\ addonRow' = frame[c].sub /\ UNCHANGED <<stripe, mishaps, user>>
    BY <1>5, <2>1 DEF AddonRow, stripeVars, eventVars, planVars
  <2>3. frame'[c].at = stage  BY <1>1, <2>2, GotoKeeps
  <2>4. BilledAddonIsKnown'
    <3> SUFFICES ASSUME NEW s \in AddonSubs, ~Settled(s)
                 PROVE  addonRow' = s
      BY <2>2, KnownWhen DEF Settled, KnownOrSettled
    <3>1. addonRow = s \/ \E d \in Clients : frame[d].at \in Billed /\ frame[d].sub = s
      BY KnownWhen DEF AddonInv, KnownOrSettled
    <3>2. s # None  BY AccountAssumption DEF AccountAssumption, Subs
    <3> QED BY <2>1, <2>2, <3>1, <3>2
  <2>5. \A q \in Procs : frame'[q].at # "dropAddon"  BY <1>2, <2>1, <2>3 DEF AddonInv
  <2>6. \A h \in Handlers : frame'[h].at \in Undoing => ~user'.present
    BY <1>1, <1>2, <2>1, <2>2 DEF AddonInv
  <2>7. \A d \in Clients : frame'[d].at \notin Billed \cup {"userRow"}  BY <2>3 DEF Billed
  <2> QED BY <1>8, <2>1, <2>2, <2>4, <2>5, <2>6, <2>7 DEF AddonInv
<1>6. CASE UserRow(c)
  <2>1. /\ addonRow = None /\ addonRow' = None /\ ~user'.present /\ UNCHANGED <<stripe, mishaps>>
        /\ frame[c].at = "userRow" /\ Return(c)
    BY <1>6 DEF AddonInv, UserRow, NoUser, stripeVars, eventVars
  <2>2. frame'[c].at = "idle"
    <3>1. frame' = [frame EXCEPT ![c] = Idle]  BY <2>1, Answers
    <3> QED BY <1>1, <3>1, IdleKnows
  <2>3. BilledAddonIsKnown'
    <3> SUFFICES ASSUME NEW s \in AddonSubs, ~Settled(s) PROVE FALSE
      BY <2>1, KnownWhen DEF Settled, KnownOrSettled
    <3>1. addonRow = s \/ \E d \in Clients : frame[d].at \in Billed
      BY KnownWhen DEF AddonInv, KnownOrSettled
    <3>2. s # None  BY AccountAssumption DEF AccountAssumption, Subs
    <3> QED BY <2>1, <3>1, <3>2 DEF Billed
  <2>4. \A q \in Procs : frame'[q].at # "dropAddon"  BY <1>2, <2>1, <2>2 DEF AddonInv
  <2>5. \A d \in Clients : frame'[d].at \notin Ordering \cup {"userRow"}
    BY <2>2 DEF Ordering, Billed
  <2> QED BY <1>8, <2>1, <2>3, <2>4, <2>5 DEF AddonInv, Ordering
<1>7. CASE ~(CancelAddon(c) \/ DropAddon(c) \/ ChargeFirst(c) \/ AddonRow(c) \/ UserRow(c))
  <2>1. Written(c)  BY ClientWrites
  <2>2. UNCHANGED addonRow  BY <1>1, <1>7, <2>1 DEF Written, WritesAddon
  <2>3. user'.present = user.present  BY <1>1, <1>7, <2>1, UserCalm DEF Written
  <2>4. frame[c].at \notin Billed  BY <1>7, BilledNext
  <2>5. /\ frame'[c].at # "dropAddon" /\ frame'[c].at \notin Billed
        /\ frame'[c].at \in Ordering => user.present
        /\ frame'[c].at = "userRow" => addonRow = None
        /\ Deleting(c)' => Deleting(c) \/ "deleteUser" \in Requests
    BY <1>7, ClientReaches DEF AddonInv, NoAddon
  <2> QED BY <1>1, <1>2, <1>7, <2>2, <2>3, <2>4, <2>5, AddonKeeps
<1> QED BY <1>3, <1>4, <1>5, <1>6, <1>7

LEMMA HandlerKeepsAddon ==
    ASSUME TypeInv, StripeTold, MishapsStay, AddonInv, Unmixed, NEW h \in Handlers,
           Handle(h) \/ SignupFails(h), "slowCancel" \notin Faults, "signup" \notin Faults,
           "db" \notin Faults \/ "deleteUser" \notin Requests
    PROVE  AddonInv'
<1>1. h \in Procs /\ h \notin Clients  BY AccountAssumption DEF AccountAssumption
<1>2. \A q \in Procs \ {h} : frame'[q] = frame[q]
  BY HandlerGoes, HandlerMoves DEF Handle, TurnOK
<1>3. CASE CancelAddon(h) \/ DropAddon(h)
  BY <1>1, <1>3, CancelKeepsAddon, DropKeepsAddon
<1>4. CASE ~(CancelAddon(h) \/ DropAddon(h))
  <2>1. Written(h)  BY HandlerWrites
  <2>2. UndoUser(h) => ~user.present /\ addonRow = None /\ addonRow' = None /\ ~user'.present
    BY DEF UndoUser, AddonInv, Undoing, NoUser
  <2>3. UNCHANGED addonRow  BY <1>1, <1>4, <2>1, <2>2 DEF Written, WritesAddon
  <2>4. SignupUser(h) => user'.present /\ \A g \in Handlers : frame[g].at \notin Undoing
    BY DEF SignupUser, Unmixed, NoUser
  <2>5. \/ user'.present = user.present
        \/ user'.present /\ \A g \in Handlers : frame[g].at \notin Undoing
    <3>1. UndoUser(h) => user.present = FALSE /\ user'.present = FALSE
      BY DEF UndoUser, NoUser, AddonInv, Undoing, TypeInv, AccountTypeOK, User
    <3>2. ~SignupUser(h) /\ ~UndoUser(h) => user'.present = user.present
      BY <1>1, <2>1, UserCalm DEF Written
    <3> QED BY <2>4, <3>1, <3>2
  <2>6. frame'[h].at \in Undoing => ~user'.present
    <3> SUFFICES ASSUME frame'[h].at \in Undoing PROVE ~user'.present
      OBVIOUS
    <3>1. SignupLost(h) \/ UndoRow(h)  BY HandlerReaches DEF SignupFails
    <3>2. ~user.present /\ UNCHANGED user
      BY <3>1 DEF SignupLost, UndoRow, AddonInv, Undoing
    <3> QED BY <3>2
  <2>7. frame'[h].at # "dropAddon"  BY <1>4, HandlerReaches
  <2> QED BY <1>1, <1>2, <2>3, <2>5, <2>6, <2>7, AddonKeeps
<1> QED BY <1>3, <1>4

LEMMA ReceiveKeepsAddon ==
    ASSUME TypeInv, StripeTold, MishapsStay, AddonInv, NEW e \in due, NEW h \in Handlers,
           Receive(h, e)
    PROVE  AddonInv'
<1>1. h \in Procs /\ h \notin Clients /\ frame \in [Procs -> Frame] /\ frame[h] \in Frame
  BY TypeParts, AccountAssumption DEF FrameType, AccountAssumption
<1>2. frame' = [frame EXCEPT ![h].at = "begin", ![h].ev = e] /\ UNCHANGED <<user, addonRow>>
  BY DEF Receive
<1>3. frame'[h].at = "begin" /\ \A q \in Procs \ {h} : frame'[q] = frame[q]
  BY <1>1, <1>2 DEF Frame
<1> QED BY <1>1, <1>2, <1>3, AddonKeeps DEF Undoing

\* Without deletions, and when no step of a signup throws, no user is undone.
Undeleted ==
    /\ \A h \in Handlers : frame[h].at \notin Undoing /\ (InSignup(h) => user.present)
    /\ \A c \in Clients : ~Deleting(c)

LEMMA UndeletedNext ==
    ASSUME TypeInv, Undeleted, [AccountNext]_accountVars,
           "deleteUser" \notin Requests, "signup" \notin Faults
    PROVE  Undeleted'
<1> USE DEF Undeleted, Deleting, InSignup, Undoing
<1>1. frame \in [Procs -> Frame] /\ \A c \in Clients : c \in Procs /\ c \notin Handlers
  BY TypeParts, AccountAssumption DEF FrameType, AccountAssumption
<1>2. ASSUME NEW h \in Handlers, Handle(h) \/ SignupFails(h) PROVE Undeleted'
  <2>1. \A q \in Procs \ {h} : frame'[q] = frame[q]
    BY <1>2, HandlerGoes, HandlerMoves DEF Handle, TurnOK
  <2>2. frame'[h].at \notin Undoing
    BY <1>2, HandlerReaches DEF SignupFails, SignupLost, UndoRow
  <2>3. ~UndoUser(h) /\ ~UndoRow(h)  BY DEF UndoUser, UndoRow
  <2>4. SignupUser(h) => user'.present  BY DEF SignupUser, NoUser
  <2>5. ~SignupUser(h) => user'.present = user.present
    BY <1>1, <1>2, <2>3, HandlerWrites, UserCalm DEF Written
  <2>6. \A g \in Handlers : InSignup(g)' => user'.present
    BY <1>2, <2>1, <2>4, <2>5, HandlerReaches
  <2> QED BY <1>1, <2>1, <2>2, <2>6
<1>3. ASSUME NEW c \in Clients, Start(c) \/ Answer(c) PROVE Undeleted'
  <2>1. \A q \in Procs \ {c} : frame'[q] = frame[q]
    BY <1>3, ClientGoes, ClientMoves DEF Start, Answer, TurnOK
  <2>2. ~Deleting(c)'  BY <1>3, ClientReaches
  <2>3. ~UserRow(c)  BY DEF UserRow
  <2>4. user'.present = user.present
    BY <1>1, <1>3, <2>3, ClientWrites, UserCalm DEF Written
  <2> QED BY <1>1, <2>1, <2>2, <2>4
<1>4. CASE UNCHANGED <<frame, user>>  BY <1>4
<1>5. ASSUME NEW e \in due, NEW h \in Handlers, Receive(h, e) PROVE Undeleted'
  <2>1. frame' = [frame EXCEPT ![h].at = "begin", ![h].ev = e] /\ UNCHANGED user
    BY <1>5 DEF Receive
  <2>2. frame'[h].at = "begin" /\ \A q \in Procs \ {h} : frame'[q] = frame[q]
    BY <1>1, <2>1 DEF Frame
  <2> QED BY <1>1, <2>1, <2>2
<1>6. CASE Crash  BY <1>6, IdleTyped DEF Crash
<1> QED BY <1>2, <1>3, <1>4, <1>5, <1>6, OthersWrite

\* With one request at a time, Stripe never charges for an add-on that the
\* database does not know of, for any number of overlapping handlers, events in
\* any order, declined cards and failing releases and writes, but for one whose
\* cancellation it refused.  The faults that are left out do leave one: a crash
\* between charge and row, a signup undone under a purchase, a second
\* cancellation; and so does a deletion of the user with a row that is not
\* dropped, or with a signup delivered twice at a time.
THEOREM ChargedAddonKnown ==
    ASSUME \A c, d \in Clients : c = d,
           Faults \cap {"crash", "cutSignup", "crashInSignup", "signup", "slowCancel"} = {},
           Faults \cap {"slowSignup", "db"} = {} \/ "deleteUser" \notin Requests
    PROVE  AccountSpec => []BilledAddonIsKnown
<1>1. /\ "crash" \notin Faults /\ "cutSignup" \notin Faults /\ "crashInSignup" \notin Faults
      /\ "signup" \notin Faults /\ "slowCancel" \notin Faults
      /\ "slowSignup" \notin Faults \/ "deleteUser" \notin Requests
      /\ "db" \notin Faults \/ "deleteUser" \notin Requests
  OBVIOUS
<1>2. AccountSpec => []TypeInv  BY TypeInit, TypeNext, PTL DEF AccountSpec
<1>3. AccountSpec => []Unmixed
  <2>1. CASE "slowSignup" \notin Faults
    <3>1. AccountSpec => []SignupInv  BY <1>1, <2>1, SignupInvariant
    <3>2. SignupInv => Unmixed
      BY DEF SignupInv, Unmixed, Handles, Signs, Undoing, SignupStages
    <3> QED BY <3>1, <3>2, PTL
  <2>2. CASE "deleteUser" \notin Requests
    <3>1. AccountInit => Undeleted
      BY IdleTyped DEF AccountInit, Undeleted, Deleting, InSignup, Undoing
    <3>2. TypeInv /\ Undeleted /\ [AccountNext]_accountVars => Undeleted'
      BY <1>1, <2>2, UndeletedNext
    <3>3. Undeleted => Unmixed  BY DEF Undeleted, Unmixed
    <3> QED BY <1>2, <3>1, <3>2, <3>3, PTL DEF AccountSpec
  <2> QED BY <1>1, <2>1, <2>2
<1>4. AccountInit => AddonInv
  BY IdleTyped DEF Deleting, AccountInit, AddonInv, BilledAddonIsKnown, Ordering, Billed, Undoing
<1>5. TypeInv /\ Unmixed /\ AddonInv /\ [AccountNext]_accountVars => AddonInv'
  <2> SUFFICES ASSUME TypeInv, Unmixed, AddonInv, [AccountNext]_accountVars PROVE AddonInv'
    OBVIOUS
  <2>1. StripeTold /\ MishapsStay  BY StripeTells, MishapsKept
  <2>2. CASE UNCHANGED <<frame, planVars, lineVars>>
    BY <2>1, <2>2, AddonElsewhere DEF planVars, lineVars
  <2>3. ASSUME NEW e \in due, NEW h \in Handlers, Receive(h, e) PROVE AddonInv'
    BY <2>1, <2>3, ReceiveKeepsAddon
  <2>4. ASSUME NEW h \in Handlers, Handle(h) \/ SignupFails(h) PROVE AddonInv'
    BY <1>1, <2>1, <2>4, HandlerKeepsAddon
  <2>5. ASSUME NEW c \in Clients, Start(c) \/ Answer(c) PROVE AddonInv'
    BY <1>1, <2>1, <2>5, ClientKeepsAddon
  <2>6. ~Crash  BY <1>1 DEF Crash
  <2> QED BY <2>2, <2>3, <2>4, <2>5, <2>6, OthersWrite
<1>6. AddonInv => BilledAddonIsKnown  BY DEF AddonInv
<1> QED BY <1>2, <1>3, <1>4, <1>5, <1>6, PTL DEF AccountSpec

-----------------------------------------------------------------------------
(* Access follows the plan.  First Stripe: one plan runs at a time, and what *)
(* its last event tells is how it stands.                                   *)

Telling == {"signup", "subscribe", "updated", "deleted", "failed", "paid"}
Tells(ev) == ev.sub \in PlanSubs /\ ev.type \in Telling
Grants(ev) ==
    \/ ev.type \in {"signup", "subscribe", "paid"}
    \/ ev.type = "updated" /\ IsLive(ev)
Latest(e) ==
    /\ e \in DOMAIN sent /\ Tells(sent[e])
    /\ \A d \in DOMAIN sent : d > e => ~Tells(sent[d])

Runs(s) == stripe[s].status \notin Ended
Paying == {"trialing", "active"}

PlanInv ==
    /\ sent = <<>> => NoPlanRuns
    /\ \A s, t \in PlanSubs : Runs(s) /\ Runs(t) => s = t
    /\ \A e \in DOMAIN sent : sent[e].sub \in PlanSubs => stripe[sent[e].sub].status # "none"
    /\ (\E e \in DOMAIN sent : Tells(sent[e])) => \E e \in DOMAIN sent : Latest(e)
    /\ \A e \in DOMAIN sent : Latest(e) =>
         /\ Grants(sent[e]) => stripe[sent[e].sub].status \in Paying
         /\ LivePlans # {} => Grants(sent[e])

\* A step leaves the plans alone, or changes one, unless another runs, and tells
\* how it stands.
PlanChanges(s) ==
    /\ \A t \in PlanSubs \ {s} : stripe'[t] = stripe[t]
    /\ stripe'[s].status # "none"
    /\ Runs(s) \/ NoPlanRuns
    /\ \A e \in DOMAIN sent' \ DOMAIN sent : sent'[e].sub = s
    /\ \E e \in DOMAIN sent' \ DOMAIN sent :
         /\ Tells(sent'[e]) /\ \A d \in DOMAIN sent' : d > e => ~Tells(sent'[d])
         /\ Grants(sent'[e]) => stripe'[s].status \in Paying
         /\ stripe'[s].status \in Paying /\ ~stripe'[s].closing => Grants(sent'[e])
PlansRest ==
    /\ \A s \in PlanSubs : stripe'[s] = stripe[s]
    /\ \A e \in DOMAIN sent' \ DOMAIN sent : sent'[e].sub \notin PlanSubs
PlanMoves == PlansRest \/ \E s \in PlanSubs : PlanChanges(s)
PlanTold ==
    /\ PlanMoves
    /\ due' = due \cup (DOMAIN sent' \ DOMAIN sent)

LEMMA PlanKept ==
    ASSUME TypeInv, StripeTold, PlanMoves, PlanInv
    PROVE  PlanInv'
<1>1. /\ sent \in Seq(Event) /\ sent' \in Seq(Event) /\ Len(sent) <= Len(sent')
      /\ \A e \in DOMAIN sent : sent'[e] = sent[e] /\ e \in DOMAIN sent'
      /\ \A e \in DOMAIN sent' : e \in Nat /\ (e \notin DOMAIN sent => \A d \in DOMAIN sent : d < e)
  BY TypeParts DEF StripeTold, StripeType
<1>2. CASE PlansRest
  <2>1. \A s \in PlanSubs : stripe'[s] = stripe[s]  BY <1>2 DEF PlansRest
  <2>2. \A e \in DOMAIN sent' : Tells(sent'[e]) => e \in DOMAIN sent  BY <1>2 DEF PlansRest, Tells
  <2>3. \A e \in DOMAIN sent : Latest(e)' <=> Latest(e)  BY <1>1, <2>2 DEF Latest
  <2>4. \A e \in DOMAIN sent' : Latest(e)' => e \in DOMAIN sent  BY <2>2 DEF Latest
  <2>5. LivePlans' = LivePlans  BY <2>1 DEF LivePlans
  <2>6. \A e \in DOMAIN sent' : sent'[e].sub \in PlanSubs => stripe'[sent'[e].sub].status # "none"
    BY <1>1, <1>2, <2>1 DEF PlansRest, PlanInv
  <2>7. (\E e \in DOMAIN sent' : Tells(sent'[e])) => \E e \in DOMAIN sent' : Latest(e)'
    BY <1>1, <2>2, <2>3 DEF PlanInv
  <2>8. \A e \in DOMAIN sent' : Latest(e)' =>
          /\ Grants(sent'[e]) => stripe'[sent'[e].sub].status \in Paying
          /\ LivePlans' # {} => Grants(sent'[e])
    <3> SUFFICES ASSUME NEW e \in DOMAIN sent', Latest(e)'
                 PROVE  /\ Grants(sent'[e]) => stripe'[sent'[e].sub].status \in Paying
                        /\ LivePlans' # {} => Grants(sent'[e])
      OBVIOUS
    <3>1. e \in DOMAIN sent /\ Latest(e) /\ sent'[e] = sent[e]  BY <1>1, <2>3, <2>4
    <3>2. sent[e].sub \in PlanSubs  BY <3>1 DEF Latest, Tells
    <3> QED BY <2>1, <2>5, <3>1, <3>2 DEF PlanInv
  <2>9. \A s, t \in PlanSubs : Runs(s)' /\ Runs(t)' => s = t  BY <2>1 DEF PlanInv, Runs
  <2>10. sent' = <<>> => NoPlanRuns'  BY <1>1, <2>1 DEF PlanInv, NoPlanRuns
  <2> QED BY <2>6, <2>7, <2>8, <2>9, <2>10 DEF PlanInv
<1>3. ASSUME NEW s \in PlanSubs, PlanChanges(s) PROVE PlanInv'
  <2>1. PICK n \in DOMAIN sent' \ DOMAIN sent :
          /\ Tells(sent'[n]) /\ \A d \in DOMAIN sent' : d > n => ~Tells(sent'[d])
          /\ Grants(sent'[n]) => stripe'[s].status \in Paying
          /\ stripe'[s].status \in Paying /\ ~stripe'[s].closing => Grants(sent'[n])
    BY <1>3 DEF PlanChanges
  <2>2. /\ \A t \in PlanSubs \ {s} : stripe'[t] = stripe[t] /\ ~Runs(t)
        /\ stripe'[s].status # "none"
        /\ \A e \in DOMAIN sent' \ DOMAIN sent : sent'[e].sub = s
    BY <1>3 DEF PlanChanges, PlanInv, Runs, NoPlanRuns, Ended
  <2>3. \A t \in PlanSubs : Runs(t)' => t = s  BY <2>2 DEF Runs
  <2>4. \A e \in DOMAIN sent' : Latest(e)' <=> e = n  BY <1>1, <2>1 DEF Latest
  <2>5. LivePlans' # {} => stripe'[s].status \in Paying /\ ~stripe'[s].closing
    BY <2>3 DEF LivePlans, Runs, Ended, Paying
  <2>6. \A e \in DOMAIN sent' : sent'[e].sub \in PlanSubs => stripe'[sent'[e].sub].status # "none"
    BY <1>1, <2>2 DEF PlanInv
  <2>7. sent' # <<>>  BY <2>1
  <2> QED BY <2>1, <2>2, <2>3, <2>4, <2>5, <2>6, <2>7 DEF PlanInv
<1> QED BY <1>2, <1>3 DEF PlanMoves

\* Stripe sends events of a plan, of which number k is the last that tells.
LEMMA Speaks ==
    ASSUME TypeInv, NEW s \in PlanSubs, NEW events \in Seq(Event), Emits(events),
           \A i \in DOMAIN events : events[i].sub = s,
           NEW k \in DOMAIN events, events[k].type \in Telling,
           \A i \in DOMAIN events : i > k => events[i].type \notin Telling,
           \A t \in PlanSubs \ {s} : stripe'[t] = stripe[t],
           stripe'[s].status # "none",
           Runs(s) \/ NoPlanRuns,
           Grants(events[k]) => stripe'[s].status \in Paying,
           stripe'[s].status \in Paying /\ ~stripe'[s].closing => Grants(events[k])
    PROVE  PlanTold
<1>1. sent \in Seq(Event) /\ due \subseteq DOMAIN sent  BY TypeParts DEF StripeType
<1>2. /\ sent' \in Seq(Event) /\ Len(sent') = Len(sent) + Len(events)
      /\ \A e \in DOMAIN sent' \ DOMAIN sent : sent'[e] = events[e - Len(sent)]
                                               /\ e - Len(sent) \in DOMAIN events
  BY <1>1, EmitsTells
<1>3. Len(sent) + k \in DOMAIN sent' \ DOMAIN sent /\ sent'[Len(sent) + k] = events[k]
  BY <1>1, <1>2
<1>4. PICK n \in DOMAIN sent' \ DOMAIN sent : n = Len(sent) + k /\ sent'[n] = events[k]
  BY <1>3
<1>5. \A d \in DOMAIN sent' : d > n => ~Tells(sent'[d])
  <2> SUFFICES ASSUME NEW d \in DOMAIN sent', d > n PROVE ~Tells(sent'[d])
    OBVIOUS
  <2>1. d \in DOMAIN sent' \ DOMAIN sent /\ d - Len(sent) > k  BY <1>1, <1>2, <1>4
  <2>2. PICK i \in DOMAIN events : i > k /\ sent'[d] = events[i]  BY <1>2, <2>1
  <2> QED BY <2>2 DEF Tells
<1>6. Tells(sent'[n])  BY <1>4 DEF Tells
<1>7. \A e \in DOMAIN sent' \ DOMAIN sent : sent'[e].sub = s  BY <1>2
<1>8. due' = due \cup (DOMAIN sent' \ DOMAIN sent)
  <2>1. due' = due \cup (Len(sent) + 1 .. Len(sent) + Len(events))  BY DEF Emits
  <2>2. DOMAIN sent' \ DOMAIN sent = Len(sent) + 1 .. Len(sent) + Len(events)
    BY <1>1, <1>2
  <2> QED BY <2>1, <2>2
<1>9. PlanChanges(s)  BY <1>4, <1>5, <1>6, <1>7 DEF PlanChanges
<1> QED BY <1>8, <1>9 DEF PlanTold, PlanMoves

LEMMA MovesSpeaks ==
    ASSUME TypeInv, NEW s \in PlanSubs, NEW status \in StripeStatus \ {"none"},
           NEW types \in Seq(EventTypes), NEW final \in BOOLEAN, Moves(s, status, types, final),
           Runs(s) \/ NoPlanRuns,
           NEW k \in DOMAIN types, \A i \in DOMAIN types : i <= k,
           \/ types[k] \in {"signup", "subscribe", "paid"} /\ status \in Paying
           \/ types[k] \in {"deleted", "failed"} /\ status \notin Paying
    PROVE  PlanTold
<1> DEFINE events == [i \in DOMAIN types |-> About(types[i], s, status, final)]
<1>1. StripeType  BY TypeParts
<1>2. \A i \in DOMAIN types : types[i] \in EventTypes  OBVIOUS
<1>3. events \in Seq(Event) /\ DOMAIN events = DOMAIN types  BY <1>1, <1>2, AboutTells
<1>4. Emits(events)  BY DEF Moves
<1>5. \A i \in DOMAIN types : events[i].type = types[i] /\ events[i].sub = s
  BY <1>1, <1>2, AboutTells
<1> HIDE DEF events
<1>6. /\ \A t \in PlanSubs \ {s} : stripe'[t] = stripe[t]
      /\ stripe'[s].status = status
  BY <1>1 DEF Moves, StripeType
<1>7. \A i \in DOMAIN events : i > k => events[i].type \notin Telling
  BY <1>3
<1>8. events[k].type \in Telling /\ (Grants(events[k]) <=> status \in Paying)
  BY <1>5 DEF Telling, Grants
<1> QED BY <1>3, <1>4, <1>5, <1>6, <1>7, <1>8, Speaks

LEMMA AmendsSpeaks ==
    ASSUME TypeInv, NEW s \in PlanSubs, NEW status \in StripeStatus \ {"none"},
           NEW closing \in BOOLEAN, NEW types \in Seq({"updated", "paid", "failed"}),
           Amends(s, status, closing, types), Runs(s),
           NEW k \in DOMAIN types, \A i \in DOMAIN types : i <= k,
           types[k] = "updated" \/ (types[k] = "paid" /\ status = "active")
    PROVE  PlanTold
<1> DEFINE events == [i \in DOMAIN types |->
                        [About(types[i], s, status, FALSE) EXCEPT !.closing = closing]]
<1>1. StripeType  BY TypeParts
<1>2. \A i \in DOMAIN types : types[i] \in EventTypes  BY DEF EventTypes
<1>3. \A i \in DOMAIN types :
        /\ events[i] \in Event /\ events[i].type = types[i] /\ events[i].sub = s
        /\ events[i].status = status /\ events[i].closing = closing
  <2> SUFFICES ASSUME NEW i \in DOMAIN types
               PROVE  /\ events[i] \in Event /\ events[i].type = types[i] /\ events[i].sub = s
                      /\ events[i].status = status /\ events[i].closing = closing
    OBVIOUS
  <2>1. PICK ev : ev = About(types[i], s, status, FALSE)  OBVIOUS
  <2>2. ev \in Event /\ ev.type = types[i] /\ ev.sub = s /\ ev.status = status
    BY <1>1, <1>2, <2>1 DEF About, StripeType, Event
  <2> QED BY <2>1, <2>2 DEF Event
<1>4. events \in Seq(Event) /\ DOMAIN events = DOMAIN types
  <2>1. DOMAIN events = DOMAIN types  OBVIOUS
  <2>2. events = [i \in DOMAIN types |-> events[i]]  OBVIOUS
  <2> HIDE DEF events
  <2>3. events \in [1..Len(types) -> Event] /\ Len(types) \in Nat  BY <1>3, <2>1, <2>2
  <2> QED BY <2>1, <2>3
<1>5. Emits(events)  BY DEF Amends
<1> HIDE DEF events
<1>6. /\ \A t \in PlanSubs \ {s} : stripe'[t] = stripe[t]
      /\ stripe'[s].status = status /\ stripe'[s].closing = closing
  BY <1>1 DEF Amends, StripeType
<1>7. \A i \in DOMAIN events : i > k => events[i].type \notin Telling
  BY <1>4
<1>8. /\ events[k].type \in Telling
      /\ Grants(events[k]) => status \in Paying
      /\ status \in Paying /\ ~closing => Grants(events[k])
  BY <1>3 DEF Telling, Grants, IsLive, Paying
<1> QED BY <1>3, <1>4, <1>5, <1>6, <1>7, <1>8, Speaks

\* Nothing is said of a plan.
LEMMA RestsWhen ==
    ASSUME TypeInv, NEW s \in Subs \ PlanSubs, NEW events \in Seq(Event), Emits(events),
           \A i \in DOMAIN events : events[i].sub = s,
           \A t \in PlanSubs : stripe'[t] = stripe[t]
    PROVE  PlanTold
<1>1. sent \in Seq(Event) /\ due \subseteq DOMAIN sent  BY TypeParts DEF StripeType
<1>2. /\ sent' \in Seq(Event) /\ Len(sent') = Len(sent) + Len(events)
      /\ \A e \in DOMAIN sent' \ DOMAIN sent : sent'[e] = events[e - Len(sent)]
                                               /\ e - Len(sent) \in DOMAIN events
  BY <1>1, EmitsTells
<1>3. due' = due \cup (DOMAIN sent' \ DOMAIN sent)
  <2>1. due' = due \cup (Len(sent) + 1 .. Len(sent) + Len(events))  BY DEF Emits
  <2>2. DOMAIN sent' \ DOMAIN sent = Len(sent) + 1 .. Len(sent) + Len(events)
    BY <1>1, <1>2
  <2> QED BY <2>1, <2>2
<1>4. \A e \in DOMAIN sent' \ DOMAIN sent : sent'[e].sub = s  BY <1>2
<1> QED BY <1>3, <1>4 DEF PlanTold, PlanMoves, PlansRest

LEMMA UnchangedRests == ASSUME UNCHANGED <<stripe, sent, due>> PROVE PlanTold
  BY DEF PlanTold, PlanMoves, PlansRest

LEMMA MovesRests ==
    ASSUME TypeInv, NEW s \in Subs \ PlanSubs, NEW status \in StripeStatus,
           NEW types \in Seq(EventTypes), NEW final \in BOOLEAN, Moves(s, status, types, final)
    PROVE  PlanTold
<1> DEFINE events == [i \in DOMAIN types |-> About(types[i], s, status, final)]
<1>1. StripeType  BY TypeParts
<1>2. \A i \in DOMAIN types : types[i] \in EventTypes  OBVIOUS
<1>3. events \in Seq(Event) /\ DOMAIN events = DOMAIN types  BY <1>1, <1>2, AboutTells
<1>4. Emits(events)  BY DEF Moves
<1>5. \A i \in DOMAIN types : events[i].sub = s  BY <1>1, <1>2, AboutTells
<1> HIDE DEF events
<1>6. \A t \in PlanSubs : stripe'[t] = stripe[t]  BY <1>1 DEF Moves, StripeType
<1> QED BY <1>3, <1>4, <1>5, <1>6, RestsWhen

LEMMA CancelsSpeaks ==
    ASSUME TypeInv, NEW s \in Subs, CancelsAtStripe(s) PROVE PlanTold
<1>1. StripeType  BY TypeParts
<1>2. CASE stripe[s].status \in {"none", "canceled"}
  BY <1>2, UnchangedRests DEF CancelsAtStripe
<1>3. CASE stripe[s].status \notin {"none", "canceled"}
  <2>1. /\ stripe' = [stripe EXCEPT ![s].status = "canceled"]
        /\ Emits(<<About("deleted", s, "canceled", FALSE)>>)
    BY <1>3 DEF CancelsAtStripe
  <2>2. PICK ev : ev = About("deleted", s, "canceled", FALSE)  OBVIOUS
  <2>3. /\ ev \in Event /\ ev.type = "deleted" /\ ev.sub = s
    BY <1>1, <2>2 DEF About, StripeType, Event, EventTypes, StripeStatus
  <2>4. <<ev>> \in Seq(Event) /\ DOMAIN <<ev>> = {1} /\ <<ev>>[1] = ev  BY <2>3
  <2>5. PICK events \in Seq(Event) : events = <<ev>>  BY <2>4
  <2>6. Emits(events) /\ DOMAIN events = {1} /\ events[1] = ev  BY <2>1, <2>2, <2>4, <2>5
  <2>7. stripe'[s].status = "canceled" /\ \A t \in Subs \ {s} : stripe'[t] = stripe[t]
    BY <1>1, <2>1 DEF StripeType
  <2>8. CASE s \in PlanSubs
    <3>1. Runs(s)  BY <1>3 DEF Runs, Ended
    <3>2. ev.type \in Telling /\ ~Grants(ev)  BY <2>3 DEF Telling, Grants
    <3>3. "canceled" \notin Paying /\ "canceled" # "none"  BY DEF Paying
    <3>4. PICK k \in DOMAIN events : k = 1  BY <2>6
    <3>5. events[k].type \in Telling /\ ~Grants(events[k])  BY <2>6, <3>2, <3>4
    <3>6. \A i \in DOMAIN events : events[i].sub = s /\ ~(i > k)  BY <2>3, <2>6, <3>4
    <3> QED BY <2>6, <2>7, <2>8, <3>1, <3>3, <3>5, <3>6, Speaks
  <2>9. CASE s \notin PlanSubs
    <3>1. \A i \in DOMAIN events : events[i].sub = s  BY <2>3, <2>6
    <3> QED BY <2>6, <2>7, <2>9, <3>1, RestsWhen
  <2> QED BY <2>8, <2>9
<1> QED BY <1>2, <1>3

LEMMA StripeActsSpeak == ASSUME TypeInv, PlanInv, StripeActs PROVE PlanTold
<1>1. PICK s \in Subs :
          (\E type \in {"signup", "subscribe", "lead"} : Checkout(s, type))
          \/ PeriodEnds(s) \/ RetryPays(s) \/ LastRetryFails(s)
  BY DEF StripeActs
<1>2. /\ StripeType /\ {TRUE, FALSE} = BOOLEAN
      /\ {"trialing", "active", "past_due", "canceled"} \subseteq StripeStatus \ {"none"}
  BY TypeParts DEF StripeStatus
<1>3. /\ <<"signup">> \in Seq(EventTypes) /\ <<"subscribe">> \in Seq(EventTypes)
      /\ <<"lead">> \in Seq(EventTypes) /\ <<"deleted">> \in Seq(EventTypes)
      /\ <<"updated", "paid">> \in Seq(EventTypes) /\ <<"updated", "failed">> \in Seq(EventTypes)
      /\ <<"paid">> \in Seq(EventTypes)
  BY DEF EventTypes
<1>4. ASSUME NEW status \in {"trialing", "active", "past_due", "canceled"}, NEW final \in BOOLEAN,
             NEW type \in {"signup", "subscribe", "paid", "deleted"},
             Moves(s, status, <<type>>, final), s \in PlanSubs, Runs(s) \/ NoPlanRuns,
             type = "deleted" <=> status \notin Paying
      PROVE  PlanTold
  <2>1. PICK types \in Seq(EventTypes) : types = <<type>>  BY <1>3
  <2>2. PICK k \in DOMAIN types : k = 1  BY <2>1
  <2>3. types[k] = type /\ \A i \in DOMAIN types : i <= k  BY <2>1, <2>2
  <2>4. Moves(s, status, types, final)  BY <1>4, <2>1
  <2>5. \/ types[k] \in {"signup", "subscribe", "paid"} /\ status \in Paying
        \/ types[k] \in {"deleted", "failed"} /\ status \notin Paying
    BY <1>4, <2>3
  <2> QED BY <1>2, <1>4, <2>3, <2>4, <2>5, MovesSpeaks
<1>5. ASSUME NEW status \in {"active", "past_due"}, NEW final \in BOOLEAN,
             NEW type \in {"paid", "failed"},
             Moves(s, status, <<"updated", type>>, final), s \in PlanSubs, Runs(s),
             type = "paid" <=> status = "active"
      PROVE  PlanTold
  <2>1. PICK types \in Seq(EventTypes) : types = <<"updated", type>>  BY <1>3
  <2>2. PICK k \in DOMAIN types : k = 2  BY <2>1
  <2>3. types[k] = type /\ \A i \in DOMAIN types : i <= k  BY <2>1, <2>2
  <2> QED BY <1>2, <1>5, <2>1, <2>3, MovesSpeaks DEF Paying
<1>6. CASE \E type \in {"signup", "subscribe", "lead"} : Checkout(s, type)
  <2>1. CASE s \in PlanSubs /\ sent = <<>> /\ Moves(s, "trialing", <<"signup">>, FALSE)
    <3>1. NoPlanRuns  BY <2>1 DEF PlanInv
    <3> QED BY <1>2, <1>4, <2>1, <3>1 DEF Paying
  <2>2. CASE s \in PlanSubs /\ NoPlanRuns /\ Moves(s, "active", <<"subscribe">>, FALSE)
    BY <1>2, <1>4, <2>2 DEF Paying
  <2>3. CASE s \in LeadSubs /\ Moves(s, "active", <<"lead">>, FALSE)
    BY <1>2, <1>3, <2>3, MovesRests, AccountAssumption DEF AccountAssumption
  <2> QED BY <1>6, <2>1, <2>2, <2>3 DEF Checkout
<1>7. CASE s \notin PlanSubs /\ (PeriodEnds(s) \/ RetryPays(s))
  <2>1. PICK status \in {"active", "past_due", "canceled"}, final \in BOOLEAN :
          \/ Moves(s, status, <<"deleted">>, final) \/ Moves(s, status, <<"paid">>, final)
          \/ Moves(s, status, <<"updated", "paid">>, final)
          \/ Moves(s, status, <<"updated", "failed">>, final)
    BY <1>2, <1>7, Zenon DEF PeriodEnds, RetryPays
  <2>2. PICK types \in Seq(EventTypes) : Moves(s, status, types, final)  BY <1>3, <2>1
  <2>3. status \in StripeStatus /\ s \in Subs \ PlanSubs  BY <1>2, <1>7
  <2> QED BY <2>2, <2>3, MovesRests
<1>8. CASE s \in PlanSubs /\ PeriodEnds(s)
  <2>1. Runs(s)  BY <1>8 DEF PeriodEnds, Runs, Ended
  <2>2. \/ Moves(s, "canceled", <<"deleted">>, FALSE)
        \/ Moves(s, "active", IF stripe[s].status = "trialing" THEN <<"updated", "paid">>
                              ELSE <<"paid">>, FALSE)
        \/ \E final \in BOOLEAN : Moves(s, "past_due", <<"updated", "failed">>, final)
    BY <1>8, Zenon DEF PeriodEnds
  <2>3. CASE Moves(s, "canceled", <<"deleted">>, FALSE)  BY <1>2, <1>4, <1>8, <2>1, <2>3 DEF Paying
  <2>4. CASE Moves(s, "active", <<"updated", "paid">>, FALSE)  BY <1>2, <1>5, <1>8, <2>1, <2>4
  <2>5. CASE Moves(s, "active", <<"paid">>, FALSE)  BY <1>2, <1>4, <1>8, <2>1, <2>5 DEF Paying
  <2>6. CASE \E final \in BOOLEAN : Moves(s, "past_due", <<"updated", "failed">>, final)
    BY <1>2, <1>5, <1>8, <2>1, <2>6
  <2>7. CASE stripe[s].status = "trialing"  BY <2>2, <2>3, <2>4, <2>6, <2>7
  <2>8. CASE stripe[s].status # "trialing"  BY <2>2, <2>3, <2>5, <2>6, <2>8
  <2> QED BY <2>7, <2>8
<1>9. CASE s \in PlanSubs /\ RetryPays(s)
  <2>1. Runs(s) /\ Moves(s, "active", <<"updated", "paid">>, FALSE)
    BY <1>9 DEF RetryPays, Runs, Ended
  <2> QED BY <1>2, <1>5, <1>9, <2>1
<1>10. CASE LastRetryFails(s)
  <2>1. Runs(s)  BY <1>10 DEF LastRetryFails, Runs, Ended
  <2>2. PICK last : last = About("failed", s, "past_due", TRUE)  OBVIOUS
  <2>3. PICK settled \in {"canceled", "past_due"} :
          /\ stripe' = [stripe EXCEPT ![s].status = settled]
          /\ Emits(IF settled = "canceled"
                   THEN <<About("failed", s, "past_due", TRUE),
                          About("deleted", s, "canceled", FALSE)>>
                   ELSE <<About("failed", s, "past_due", TRUE),
                          About("uncollectible", s, "past_due", TRUE)>>)
    BY <1>10, Zenon DEF LastRetryFails
  <2> DEFINE tail == IF settled = "canceled" THEN About("deleted", s, "canceled", FALSE)
                     ELSE About("uncollectible", s, "past_due", TRUE)
  <2>4. Emits(<<last, tail>>)
    <3>1. CASE settled = "canceled"  BY <2>2, <2>3, <3>1
    <3>2. CASE settled # "canceled"  BY <2>2, <2>3, <3>2
    <3> QED BY <3>1, <3>2
  <2>5. PICK ends : ends = tail  OBVIOUS
  <2>6. last \in Event /\ last.type = "failed" /\ last.sub = s
    BY <1>2, <2>2 DEF About, StripeType, Event, EventTypes, StripeStatus
  <2>7. ends \in Event /\ ends.sub = s
        /\ ends.type = IF settled = "canceled" THEN "deleted" ELSE "uncollectible"
    BY <1>2, <2>5 DEF About, StripeType, Event, EventTypes, StripeStatus
  <2>8. <<last, ends>> \in Seq(Event)  BY <2>6, <2>7
  <2>9. PICK events \in Seq(Event) : events = <<last, ends>>  BY <2>8
  <2>10. Emits(events) /\ DOMAIN events = {1, 2} /\ events[1] = last /\ events[2] = ends
    BY <2>4, <2>5, <2>9
  <2>11. stripe'[s].status = settled /\ \A t \in Subs \ {s} : stripe'[t] = stripe[t]
    BY <1>2, <2>3 DEF StripeType
  <2>12. \A i \in DOMAIN events : events[i].sub = s  BY <2>6, <2>7, <2>10
  <2>13. PICK k \in DOMAIN events : k = IF settled = "canceled" THEN 2 ELSE 1  BY <2>10
  <2>14. events[k].type = IF settled = "canceled" THEN "deleted" ELSE "failed"
    BY <2>6, <2>7, <2>10, <2>13
  <2>15. \A i \in DOMAIN events : i > k => events[i].type \notin Telling
    <3>1. CASE settled = "canceled"  BY <2>10, <2>13, <3>1
    <3>2. CASE settled # "canceled"  BY <2>7, <2>10, <2>13, <3>2 DEF Telling
    <3> QED BY <3>1, <3>2
  <2>16. events[k].type \in Telling /\ ~Grants(events[k])
    BY <2>14 DEF Telling, Grants
  <2>17. stripe'[s].status \notin Paying /\ stripe'[s].status # "none"  BY <2>11 DEF Paying
  <2>18. CASE s \in PlanSubs  BY <2>1, <2>10, <2>11, <2>12, <2>15, <2>16, <2>17, <2>18, Speaks
  <2>19. CASE s \notin PlanSubs  BY <2>10, <2>11, <2>12, <2>19, RestsWhen
  <2> QED BY <2>18, <2>19
<1> QED BY <1>1, <1>6, <1>7, <1>8, <1>9, <1>10

\* The requests.  Those that revive a plan are not made here; a plan that is
\* cancelled, or that a row is about, has begun.
ReadInv ==
    /\ \A r \in DOMAIN rows : stripe[rows[r].sub].status # "none"
    /\ \A c \in Clients : frame[c].at = "cancel" => stripe[frame[c].sub].status # "none"
    /\ \A c \in Clients : frame[c].at \notin Reviving

LEMMA PlanRequestsSpeak ==
    ASSUME TypeInv, ReadInv, NEW c \in Clients,
           CancelAtStripe(c) \/ ChangePlan(c) \/ CardPays(c) \/ CancelLead(c) \/ SuspendLead(c)
           \/ SuspendAtStripe(c)
    PROVE  PlanTold
<1>1. StripeType  BY TypeParts
<1>2. ASSUME NEW s \in PlanSubs, NEW status \in StripeStatus, NEW closing \in BOOLEAN,
             Runs(s), Amends(s, status, closing, <<"updated">>), status # "none"
      PROVE  PlanTold
  <2>1. PICK types \in Seq({"updated", "paid", "failed"}) : types = <<"updated">>  BY AmendKinds
  <2>2. PICK k \in DOMAIN types : k = 1  BY <2>1
  <2>3. types[k] = "updated" /\ \A i \in DOMAIN types : i <= k  BY <2>1, <2>2
  <2>4. Amends(s, status, closing, types)  BY <1>2, <2>1
  <2>5. status \in StripeStatus \ {"none"}  BY <1>2
  <2> QED BY <1>2, <2>3, <2>4, <2>5, AmendsSpeaks
<1>3. CASE CancelAtStripe(c)
  <2>1. PICK s : s = frame[c].sub  OBVIOUS
  <2>2. s \in PlanSubs /\ stripe[s].status \in StripeStatus \ {"none"}
    BY <1>3, <2>1, SubTyped DEF CancelAtStripe, ReadInv
  <2>3. PICK status \in StripeStatus : status = stripe[s].status  BY <2>2
  <2>4. PICK closing \in BOOLEAN : closing = TRUE  OBVIOUS
  <2>5. UNCHANGED stripeVars \/ (Runs(s) /\ Amends(s, status, closing, <<"updated">>))
    BY <1>3, <2>1, <2>2, <2>3, <2>4 DEF CancelAtStripe, Runs, Ended
  <2> QED BY <1>2, <2>2, <2>3, <2>5, UnchangedRests
<1>4. CASE ChangePlan(c)
  <2>1. PICK s \in PlanSubs :
            /\ stripe[s].status \notin {"none", "canceled"}
            /\ Amends(s, stripe[s].status, stripe[s].closing, <<"updated">>)
    BY <1>4 DEF ChangePlan
  <2>2. stripe[s].status \in StripeStatus /\ stripe[s].closing \in BOOLEAN /\ Runs(s)
    BY <1>1, <2>1 DEF StripeType, Runs, Ended
  <2>3. PICK status \in StripeStatus, closing \in BOOLEAN :
            status = stripe[s].status /\ closing = stripe[s].closing
    BY <2>2
  <2> QED BY <1>2, <2>1, <2>2, <2>3
<1>5. CASE CardPays(c)
  <2>1. PICK s : s = frame[c].sub  OBVIOUS
  <2>2. s \in PlanSubs /\ stripe[s].closing \in BOOLEAN
    BY <1>5, <2>1, SubTyped DEF CardPays
  <2>3. PICK closing \in BOOLEAN : closing = stripe[s].closing  BY <2>2
  <2>4. PICK status \in StripeStatus : status = "active"  BY AmendKinds
  <2>5. PICK types \in Seq({"updated", "paid", "failed"}) : types = <<"updated", "paid">>
    BY AmendKinds
  <2>6. \/ UNCHANGED stripeVars
        \/ Runs(s) /\ Amends(s, status, closing, types)
    BY <1>5, <2>1, <2>3, <2>4, <2>5 DEF CardPays, Runs, Ended
  <2>7. PICK k \in DOMAIN types : k = 2  BY <2>5
  <2>8. types[k] = "paid" /\ \A i \in DOMAIN types : i <= k  BY <2>5, <2>7
  <2>9. status \in StripeStatus \ {"none"}  BY <2>4
  <2> QED BY <2>2, <2>4, <2>6, <2>8, <2>9, AmendsSpeaks, UnchangedRests
<1>6. CASE CancelLead(c) \/ SuspendLead(c)
  <2>1. PICK s \in LeadSubs : CancelsAtStripe(s) \/ UNCHANGED stripeVars
    BY <1>6 DEF CancelLead, SuspendLead, TriesToCancel
  <2> QED BY <2>1, CancelsSpeaks, UnchangedRests
<1>7. CASE SuspendAtStripe(c)
  <2>1. PICK r \in frame[c].rowIds :
            \/ IF r \in DOMAIN rows THEN CancelsAtStripe(rows[r].sub) ELSE UNCHANGED stripeVars
            \/ UNCHANGED stripeVars
    BY <1>7, Zenon DEF SuspendAtStripe
  <2>4. CASE UNCHANGED stripeVars  BY <2>4, UnchangedRests
  <2>2. CASE r \in DOMAIN rows /\ ~UNCHANGED stripeVars
    <3>1. PICK s : s = rows[r].sub  OBVIOUS
    <3>2. rows \in Seq(Row)  BY DEF TypeInv, AccountTypeOK
    <3>3. rows[r] \in Row  BY <2>2, <3>2
    <3>4. s \in Subs  BY <3>1, <3>3 DEF Row
    <3>5. CancelsAtStripe(s)  BY <2>1, <2>2, <3>1
    <3> QED BY <3>4, <3>5, CancelsSpeaks
  <2>3. CASE r \notin DOMAIN rows  BY <2>1, <2>3, UnchangedRests
  <2> QED BY <2>2, <2>3, <2>4
<1> QED BY <1>3, <1>4, <1>5, <1>6, <1>7

\* Without add-ons a handler says nothing to Stripe.
LEMMA HandlerSilent ==
    ASSUME TypeInv, AddonSubs = {}, NEW h \in Handlers, Handle(h) \/ SignupFails(h),
           ~Record(h), ~StepFails(h)
    PROVE  UNCHANGED stripeVars
<1>1. addonRow = None  BY DEF TypeInv, AccountTypeOK
<1>2. CASE Handle(h)
  BY <1>1, <1>2 DEF Handle, SignupExists, SignupUser, SignupRow, SignupFlag, SignupBuy, Buys,
     SignupStore, StoresIncluded, SignupLost, SignupDone, UndoRow, UndoUser, UndoFails,
     SubscribeRow, SubscribeFlag, LeadPurchased, NoPlan, UpdatedRow, WritesRow, UpdatedTrial,
     UpdatedFlags, DeletedLead, DeletedRow, DeletedFlags, FailedRow, FailedFlag, PaidRow,
     Uncollectible, TopUp, TopUpBuy, TopUpStore, TopUpEnds, ReleaseFinds, ReleaseOne,
     ReleaseDeletes, ReleaseFails, NoAddon, CancelAddon, DropAddon, Unpaid, UnpaidRelease,
     UnpaidRow, DeletesRow, UnpaidCount, Reject
<1>3. CASE SignupFails(h)  BY <1>3 DEF SignupFails
<1> QED BY <1>2, <1>3

\* A request without add-ons: what it says to Stripe is told by an event.
LEMMA ClientSpeaks ==
    ASSUME TypeInv, ReadInv, AddonSubs = {}, NEW c \in Clients, Start(c) \/ Answer(c)
    PROVE  PlanTold
<1>1. addonRow = None  BY DEF TypeInv, AccountTypeOK
<1>2. CASE Start(c)
  <2>1. CASE ChangePlan(c) \/ CancelLead(c)  BY <2>1, PlanRequestsSpeak
  <2>2. CASE ~(ChangePlan(c) \/ CancelLead(c))
    <3>1. UNCHANGED stripeVars
      BY <1>2, <2>2 DEF Start, Cancel, Renew, EndTrial, NewCard, Reads, Suspend, Buy, BuyOnBehalf,
         Asks, Delete, DeleteUser
    <3> QED BY <3>1, UnchangedRests
  <2> QED BY <2>1, <2>2
<1>3. CASE Answer(c)
  <2>1. CASE CancelAtStripe(c) \/ CardPays(c) \/ SuspendLead(c) \/ SuspendAtStripe(c)
    BY <2>1, PlanRequestsSpeak
  <2>2. ~CancelAddon(c) /\ ~ChargeFirst(c) /\ ~ChargeItem(c)
    BY <1>1 DEF CancelAddon, ChargeFirst, ChargeItem
  <2>3. ~RenewAtStripe(c) /\ ~EndTrialAtStripe(c)
    BY DEF ReadInv, Reviving, RenewAtStripe, EndTrialAtStripe
  <2>4. CASE CancelRow(c) \/ RenewRow(c) \/ RenewFlag(c) \/ EndTrialFlags(c) \/ SuspendRow(c)
             \/ SuspendAddon(c) \/ SuspendFlags(c) \/ NoAddon(c) \/ DropAddon(c)
             \/ BuyIncluded(c) \/ StoreIncluded(c) \/ BuyPaid(c) \/ AddonRow(c) \/ Declined(c)
             \/ StorePaid(c) \/ GiveBack(c) \/ DeleteRelease(c) \/ DeleteCount(c) \/ DeleteRow(c)
             \/ UserReleased(c) \/ UserRow(c) \/ RequestFails(c) \/ Transfer(c) \/ DeleteItem(c)
             \/ UserReleases(c)
    <3>1. UNCHANGED <<stripe, sent, due>>
      BY <2>4 DEF CancelRow, RenewRow, RenewFlag, EndTrialFlags, SuspendRow, SuspendAddon,
         SuspendFlags, NoAddon, DropAddon, BuyIncluded, Buys, StoreIncluded, BuyPaid, AddonRow,
         Declined, StorePaid, GiveBack, DeleteRelease, DeleteCount, DeleteRow, DeletesRow,
         UserReleased, UserRow, RequestFails, Transfer, DeleteItem, UserReleases
    <3> QED BY <3>1, UnchangedRests
  <2> QED BY <1>3, <2>1, <2>2, <2>3, <2>4 DEF Answer
<1> QED BY <1>2, <1>3

\* Stripe's side of every step.
LEMMA PlansMove ==
    ASSUME TypeInv, PlanInv, ReadInv, [AccountNext]_accountVars, AddonSubs = {}
    PROVE  PlanMoves
<1>1. UNCHANGED <<stripe, sent>> => PlanMoves  BY DEF PlanMoves, PlansRest
<1>2. PlanTold => PlanMoves  BY DEF PlanTold
<1>3. CASE UNCHANGED accountVars  BY <1>1, <1>3
<1>4. CASE StripeActs  BY <1>2, <1>4, StripeActsSpeak
<1>5. ASSUME NEW e \in due, Skip(e) PROVE PlanMoves  BY <1>1, <1>5 DEF Skip
<1>6. ASSUME NEW e \in due, NEW h \in Handlers, Receive(h, e) PROVE PlanMoves
  BY <1>1, <1>6 DEF Receive
<1>7. ASSUME NEW h \in Handlers, Handle(h) \/ SignupFails(h) PROVE PlanMoves
  <2>1. CASE Record(h) \/ StepFails(h)  BY <1>1, <2>1 DEF Record, StepFails
  <2>2. CASE ~(Record(h) \/ StepFails(h))  BY <1>1, <1>7, <2>2, HandlerSilent
  <2> QED BY <2>1, <2>2
<1>8. ASSUME NEW c \in Clients, Start(c) \/ Answer(c) PROVE PlanMoves
  BY <1>2, <1>8, ClientSpeaks
<1>9. CASE Crash  BY <1>1, <1>9 DEF Crash
<1> QED BY <1>3, <1>4, <1>5, <1>6, <1>7, <1>8, <1>9 DEF AccountNext

\* The rows that a step leaves are about what a row was about, or about what the
\* event it handles is.
LEMMA RowSubs ==
    ASSUME TypeInv, NEW p \in Procs, UNCHANGED rows \/ WritesRows(p), NEW r \in DOMAIN rows'
    PROVE  \/ \E q \in DOMAIN rows : rows'[r].sub = rows[q].sub
           \/ p \in Handlers /\ frame[p].at # "idle" /\ rows'[r].sub = Ev(p).sub
<1>1. rows \in Seq(Row) /\ \A q \in DOMAIN rows : rows[q] \in Row
  BY DEF TypeInv, AccountTypeOK
<1>2. CASE UNCHANGED rows  BY <1>2
<1>3. CASE p \in Handlers /\ (SignupRow(p) \/ SubscribeRow(p))
  <2>1. /\ rows' = Append(rows, [sub |-> Ev(p).sub, status |-> "ACTIVE"])
        /\ frame[p].at # "idle"
    BY <1>3 DEF SignupRow, SubscribeRow, Handles
  <2>2. PICK row : row = [sub |-> Ev(p).sub, status |-> "ACTIVE"]  OBVIOUS
  <2>3. row.sub = Ev(p).sub  BY <2>2
  <2>4. (r \in DOMAIN rows /\ rows'[r] = rows[r]) \/ rows'[r] = row  BY <1>1, <2>1, <2>2
  <2> QED BY <1>3, <2>1, <2>3, <2>4
<1>4. ASSUME NEW q \in DOMAIN rows, NEW status \in RowStatus,
             rows' = [rows EXCEPT ![q].status = status]
      PROVE  r \in DOMAIN rows /\ rows'[r].sub = rows[r].sub
  BY <1>1, <1>4 DEF Row
<1>5. CASE p \in Handlers /\ (UpdatedRow(p) \/ DeletedRow(p) \/ FailedRow(p) \/ PaidRow(p))
  <2>1. PICK status, next : WritesRow(p, status, next)
    BY <1>5 DEF UpdatedRow, DeletedRow, FailedRow, PaidRow
  <2>2. PICK q \in DOMAIN rows : rows' = [rows EXCEPT ![q].status = status]
    BY <2>1 DEF WritesRow, RowsOf
  <2> QED BY <1>1, <2>2 DEF Row
<1>6. CASE p \in Clients /\ (CancelRow(p) \/ RenewRow(p) \/ SuspendRow(p))
  <2>1. PICK status, q : rows' = RowWith(status, q)
    BY <1>6 DEF CancelRow, RenewRow, SuspendRow
  <2>2. CASE q \in DOMAIN rows  BY <1>1, <2>1, <2>2 DEF RowWith, Row
  <2>3. CASE q \notin DOMAIN rows  BY <2>1, <2>3 DEF RowWith
  <2> QED BY <2>2, <2>3
<1>7. CASE p \in Handlers /\ UndoRow(p) /\ rows' # rows
  <2>1. rows' = [i \in 1..Len(rows) - 1 |-> rows[IF i < frame[p].row THEN i ELSE i + 1]]
    BY <1>2, <1>7 DEF UndoRow
  <2>2. r \in 1..Len(rows) - 1  BY <2>1
  <2>3. PICK q \in DOMAIN rows : q = IF r < frame[p].row THEN r ELSE r + 1  BY <1>1, <2>2
  <2> QED BY <2>1, <2>2, <2>3
<1>8. CASE (p \in Handlers /\ UndoUser(p)) \/ (p \in Clients /\ UserRow(p))
  BY <1>8 DEF UndoUser, UserRow
<1> QED BY <1>2, <1>3, <1>5, <1>6, <1>7, <1>8 DEF WritesRows

\* What has begun stays so.
LEMMA Begun ==
    ASSUME PlanMoves, NEW s \in PlanSubs, stripe[s].status # "none"
    PROVE  stripe'[s].status # "none"
  BY DEF PlanMoves, PlansRest, PlanChanges

LEMMA ReadNext ==
    ASSUME TypeInv, PlanInv, ReadInv, PlanMoves, [AccountNext]_accountVars,
           Requests \cap {"renew", "endTrial"} = {}
    PROVE  ReadInv'
<1>1. /\ frame \in [Procs -> Frame] /\ rows \in Seq(Row) /\ \A q \in DOMAIN rows : rows[q] \in Row
      /\ Handlers \cap Clients = {}
  BY AccountAssumption DEF TypeInv, AccountTypeOK, AccountAssumption
<1>2. \A q \in DOMAIN rows : rows[q].sub \in PlanSubs /\ stripe'[rows[q].sub].status # "none"
  BY <1>1, Begun DEF ReadInv, Row
<1>3. \A c \in Clients : frame[c].at = "cancel" => stripe'[frame[c].sub].status # "none"
  BY Begun, SubTyped DEF ReadInv
<1>4. ASSUME UNCHANGED <<rows, frame>> PROVE ReadInv'  BY <1>2, <1>3, <1>4 DEF ReadInv
<1>5. ASSUME NEW h \in Handlers, Handle(h) \/ SignupFails(h) PROVE ReadInv'
  <2>1. \A c \in Clients : frame'[c] = frame[c]
    BY <1>1, <1>5, HandlerGoes, HandlerMoves DEF Handle, TurnOK
  <2>2. \A r \in DOMAIN rows' : stripe'[rows'[r].sub].status # "none"
    <3> SUFFICES ASSUME NEW r \in DOMAIN rows' PROVE stripe'[rows'[r].sub].status # "none"
      OBVIOUS
    <3>1. CASE \E q \in DOMAIN rows : rows'[r].sub = rows[q].sub  BY <1>2, <3>1
    <3>2. CASE frame[h].at # "idle" /\ rows'[r].sub = Ev(h).sub
      <4>1. frame[h].ev \in DOMAIN sent /\ Ev(h) \in Event  BY <3>2, EventTyped
      <4>2. CASE Ev(h).sub \in PlanSubs
        <5>1. stripe[Ev(h).sub].status # "none"  BY <4>1, <4>2 DEF PlanInv, Ev
        <5> QED BY <3>2, <4>2, <5>1, Begun
      <4>3. CASE Ev(h).sub \notin PlanSubs
        <5>1. rows' \in Seq(Row)
          BY <1>1, <1>5, HandlerWrites, RowsStepTyped DEF Written
        <5>2. rows'[r] \in Row  BY <5>1
        <5>3. rows'[r].sub \in PlanSubs  BY <5>2 DEF Row
        <5> QED BY <3>2, <4>3, <5>3
      <4> QED BY <4>2, <4>3
    <3> QED BY <1>5, <3>1, <3>2, HandlerWrites, RowSubs DEF Written
  <2> QED BY <1>3, <2>1, <2>2 DEF ReadInv
<1>6. ASSUME NEW c \in Clients, Start(c) \/ Answer(c) PROVE ReadInv'
  <2>1. c \in Procs /\ c \notin Handlers  BY <1>1
  <2>2. \A r \in DOMAIN rows' : stripe'[rows'[r].sub].status # "none"
    BY <1>2, <1>6, <2>1, ClientWrites, RowSubs DEF Written
  <2>3. \A d \in Clients \ {c} : frame'[d] = frame[d]
    BY <1>6, ClientGoes, ClientMoves DEF Start, Answer, TurnOK
  <2>4. frame'[c].at = "cancel" => stripe'[frame'[c].sub].status # "none"
    <3> SUFFICES ASSUME frame'[c].at = "cancel" PROVE stripe'[frame'[c].sub].status # "none"
      OBVIOUS
    <3>1. Reads(c, "cancel", NewestActive, "cancel")  BY <1>6, ClientReaches DEF Cancel
    <3>2. PICK r \in DOMAIN rows : r = NewestActive  BY <3>1 DEF Reads
    <3>3. frame' = [frame EXCEPT ![c].at = "cancel", ![c].row = r, ![c].sub = rows[r].sub]
      BY <3>1, <3>2 DEF Reads
    <3>4. frame[c] \in Frame  BY <1>1, <2>1
    <3>5. frame'[c].sub = rows[r].sub  BY <1>1, <2>1, <3>3, <3>4 DEF Frame
    <3> QED BY <1>2, <3>5
  <2>5. frame'[c].at \notin Reviving  BY <1>6, ClientReaches DEF ReadInv
  <2> QED BY <1>3, <2>2, <2>3, <2>4, <2>5 DEF ReadInv
<1>7. ASSUME NEW e \in due, NEW h \in Handlers, Receive(h, e) PROVE ReadInv'
  <2>1. UNCHANGED rows /\ \A c \in Clients : frame'[c] = frame[c]
    BY <1>1, <1>7 DEF Receive
  <2> QED BY <1>2, <1>3, <2>1 DEF ReadInv
<1>8. CASE Crash
  <2>1. UNCHANGED rows /\ \A c \in Clients : frame'[c] = Idle  BY <1>8 DEF Crash
  <2> QED BY <1>2, <2>1, IdleTyped DEF ReadInv, Reviving
<1>9. CASE UNCHANGED accountVars  BY <1>4, <1>9
<1>10. CASE StripeActs /\ UNCHANGED stripeOnly  BY <1>4, <1>10
<1>11. CASE (\E e \in due : Skip(e)) /\ UNCHANGED <<frame, eventVars, planVars, lineVars>>
  BY <1>4, <1>11
<1> QED BY <1>5, <1>6, <1>7, <1>8, <1>9, <1>10, <1>11, OthersWrite

LEMMA PlanInit == AccountInit => PlanInv /\ ReadInv
<1> SUFFICES ASSUME AccountInit PROVE PlanInv /\ ReadInv
  OBVIOUS
<1>1. /\ sent = <<>> /\ DOMAIN sent = {} /\ DOMAIN rows = {}
      /\ \A s \in PlanSubs : stripe[s].status = "none"
      /\ \A c \in Clients : frame[c].at = "idle"
  BY IdleTyped DEF AccountInit
<1> QED BY <1>1 DEF PlanInv, ReadInv, NoPlanRuns, Runs, Ended, Reviving

-----------------------------------------------------------------------------
(* Then the webhook.  A handler first decides what the event does to the     *)
(* flag, and from then on leaves it alone.                                  *)

Deciding == {"subscribeFlag", "updatedTrial", "updatedFlags", "deletedFlags", "failedFlag",
             "paidFlag"}
Undecided == Deciding \cup {"idle", "begin", "signupRow", "signupFlag", "undoRow", "undoUser",
                            "reject"}
Decides(h) ==
    \/ SignupExists(h) \/ SignupFlag(h) \/ SubscribeFlag(h) \/ LeadPurchased(h) \/ NoPlan(h)
    \/ UpdatedFlags(h) \/ DeletedLead(h) \/ DeletedFlags(h) \/ FailedFlag(h) \/ Uncollectible(h)

LEMMA HandlerPasses ==
    ASSUME TypeInv, NEW h \in Handlers, Handle(h) \/ SignupFails(h)
    PROVE  /\ frame[h].at # "idle" /\ frame'[h].at # "begin"
           /\ IF frame'[h].at = "idle" THEN Record(h) \/ StepFails(h) \/ Reject(h)
              ELSE frame'[h].ev = frame[h].ev
           /\ frame'[h].at = "subscribeFlag" => SubscribeRow(h)
           /\ frame'[h].at = "updatedTrial" => UpdatedRow(h)
           /\ frame'[h].at = "updatedFlags" => UpdatedTrial(h)
           /\ frame'[h].at = "deletedFlags" => DeletedRow(h)
           /\ frame'[h].at = "failedFlag" => FailedRow(h)
           /\ frame'[h].at = "paidFlag" => PaidRow(h)
           /\ frame'[h].at \in Undecided \/ frame[h].at \notin Undecided \/ Decides(h)
<1> USE DEF Deciding, Undecided
<1>1. frame \in [Procs -> Frame] /\ frame[h] \in Frame /\ h \in Procs
  BY TypeParts DEF FrameType
<1>2. CASE SignupExists(h) \/ SubscribeFlag(h) \/ LeadPurchased(h) \/ NoPlan(h) \/ UpdatedFlags(h)
           \/ DeletedLead(h) \/ DeletedFlags(h)
  <2>1. /\ frame[h].at # "idle" /\ Decides(h)
        /\ \E stage \in {"record", "topUp", "release"} : Goto(h, stage)
    BY <1>2 DEF SignupExists, SubscribeFlag, LeadPurchased, NoPlan, UpdatedFlags, DeletedLead,
       DeletedFlags, Handles, Decides
  <2>2. PICK stage \in {"record", "topUp", "release"} : Goto(h, stage)  BY <2>1
  <2> QED BY <2>1, <2>2, EndsOrGoes
<1>3. CASE SignupUser(h) \/ SignupFails(h) \/ SignupLost(h) \/ UndoRow(h) \/ UndoUser(h)
           \/ UndoFails(h)
  <2>1. /\ frame[h].at # "idle"
        /\ \E stage \in {"signupRow", "undoRow", "undoUser", "reject"} : Goto(h, stage)
    BY <1>3 DEF SignupUser, SignupFails, SignupLost, InSignup, Undoes, UndoRow, UndoUser, UndoFails,
       Handles
  <2>2. PICK stage \in {"signupRow", "undoRow", "undoUser", "reject"} : Goto(h, stage)  BY <2>1
  <2> QED BY <2>1, <2>2, EndsOrGoes
<1>4. CASE SignupDone(h) \/ TopUpEnds(h) \/ UnpaidRelease(h) \/ UnpaidRow(h) \/ CancelAddon(h)
           \/ ReleaseFails(h)
  <2>1. /\ frame[h].at \notin Undecided
        /\ \E stage \in {"record", "unpaidRow", "unpaidCount", "dropAddon"} : Goto(h, stage)
    BY <1>4 DEF SignupDone, TopUpEnds, UnpaidRelease, UnpaidRow, DeletesRow, CancelAddon,
       ReleaseFails
  <2>2. PICK stage \in {"record", "unpaidRow", "unpaidCount", "dropAddon"} : Goto(h, stage)
    BY <2>1
  <2> QED BY <2>1, <2>2, EndsOrGoes
<1>5. CASE NoAddon(h) \/ DropAddon(h)
  <2>1. frame[h].at \in {"cancelAddon", "dropAddon"} /\ Goto(h, frame[h].then)
    BY <1>5 DEF NoAddon, DropAddon
  <2>2. frame[h].then \in {"record", "unpaid"}  BY <2>1, TypeParts DEF FrameType
  <2>3. PICK stage \in {"record", "unpaid"} : Goto(h, stage)  BY <2>1, <2>2
  <2> QED BY <2>1, <2>3, EndsOrGoes
<1>6. CASE SubscribeRow(h)
  <2>1. PICK stage \in {"subscribeFlag"} : Goto(h, stage) /\ frame[h].at = "begin"
    BY <1>6 DEF SubscribeRow, Handles
  <2> QED BY <1>6, <2>1, EndsOrGoes
<1>7. CASE UpdatedRow(h)
  <2>1. PICK stage \in {"updatedTrial"} : Goto(h, stage) /\ frame[h].at = "begin"
    BY <1>7 DEF UpdatedRow, WritesRow, Handles
  <2> QED BY <1>7, <2>1, EndsOrGoes
<1>8. CASE DeletedRow(h)
  <2>1. PICK stage \in {"deletedFlags"} : Goto(h, stage) /\ frame[h].at = "begin"
    BY <1>8 DEF DeletedRow, WritesRow, Handles
  <2> QED BY <1>8, <2>1, EndsOrGoes
<1>9. CASE FailedRow(h)
  <2>1. PICK stage \in {"failedFlag"} : Goto(h, stage) /\ frame[h].at = "begin"
    BY <1>9 DEF FailedRow, WritesRow, Handles
  <2> QED BY <1>9, <2>1, EndsOrGoes
<1>10. CASE PaidRow(h)
  <2>1. PICK stage \in {"paidFlag"} : Goto(h, stage) /\ frame[h].at = "begin"
    BY <1>10 DEF PaidRow, WritesRow, Handles
  <2> QED BY <1>10, <2>1, EndsOrGoes
<1>11. CASE UpdatedTrial(h)
  <2>1. /\ frame[h].at = "updatedTrial"
        /\ frame' = [frame EXCEPT ![h].at = "updatedFlags", ![h].old = user.trial]
    BY <1>11 DEF UpdatedTrial
  <2>2. frame'[h].at = "updatedFlags" /\ frame'[h].ev = frame[h].ev  BY <1>1, <2>1 DEF Frame
  <2> QED BY <1>11, <2>1, <2>2
<1>12. CASE SignupRow(h)
  <2>1. /\ frame[h].at = "signupRow"
        /\ frame' = [frame EXCEPT ![h].at = "signupFlag", ![h].row = Len(rows) + 1]
    BY <1>12 DEF SignupRow
  <2>2. frame'[h].at = "signupFlag" /\ frame'[h].ev = frame[h].ev  BY <1>1, <2>1 DEF Frame
  <2> QED BY <1>12, <2>1, <2>2
<1>13. CASE SignupFlag(h)
  <2>1. frame[h].at = "signupFlag" /\ Decides(h)  BY <1>13 DEF SignupFlag, Decides
  <2>2. PICK left : frame' = [frame EXCEPT ![h].at = "signupBuy", ![h].left = left]
    BY <1>13 DEF SignupFlag
  <2>3. frame'[h].at = "signupBuy" /\ frame'[h].ev = frame[h].ev  BY <1>1, <2>2 DEF Frame
  <2> QED BY <2>1, <2>3
<1>14. CASE FailedFlag(h)
  <2>1. frame[h].at = "failedFlag" /\ Decides(h)  BY <1>14 DEF FailedFlag, Decides
  <2>2. PICK todo : todo = Ev(h).items  OBVIOUS
  <2>3. PICK stage \in {"unpaid", "record"} :
            frame' = [frame EXCEPT ![h].at = stage, ![h].todo = todo]
    BY <1>14, <2>2 DEF FailedFlag
  <2>4. frame'[h].at = stage /\ frame'[h].ev = frame[h].ev  BY <1>1, <2>3 DEF Frame
  <2> QED BY <2>1, <2>4
<1>15. CASE Uncollectible(h)
  <2>1. frame[h].at = "begin" /\ Decides(h)  BY <1>15 DEF Uncollectible, Handles, Decides
  <2>2. PICK todo : frame' = [frame EXCEPT ![h].at = "unpaid", ![h].todo = todo]
    BY <1>15 DEF Uncollectible
  <2>3. frame'[h].at = "unpaid" /\ frame'[h].ev = frame[h].ev  BY <1>1, <2>2 DEF Frame
  <2> QED BY <2>1, <2>3
<1>16. CASE SignupBuy(h) \/ SignupStore(h) \/ TopUpBuy(h) \/ TopUpStore(h)
  <2>1. /\ frame[h].at \in {"signupBuy", "signupStore", "topUpBuy", "topUpStore"}
        /\ frame'[h].at \in {"signupBuy", "signupStore", "topUpBuy", "topUpStore"}
        /\ frame'[h].ev = frame[h].ev
    <3>1. CASE SignupBuy(h) \/ TopUpBuy(h)  BY <1>1, <3>1 DEF SignupBuy, TopUpBuy, Buys, Frame
    <3>2. CASE SignupStore(h) \/ TopUpStore(h)
      BY <1>1, <3>2 DEF SignupStore, TopUpStore, StoresIncluded, Frame
    <3> QED BY <1>16, <3>1, <3>2
  <2> QED BY <2>1
<1>17. CASE TopUp(h) \/ ReleaseFinds(h) \/ ReleaseOne(h) \/ ReleaseDeletes(h)
  <2>1. /\ frame[h].at \in {"topUp", "release", "releasing"}
        /\ frame'[h].at \in {"topUpBuy", "record", "releasing", "cancelAddon"}
        /\ frame'[h].ev = frame[h].ev
    <3>1. CASE TopUp(h)  BY <1>1, <3>1 DEF TopUp, Frame
    <3>2. CASE ReleaseFinds(h)
      <4>1. PICK stage \in {"record", "releasing"} :
              frame' = [frame EXCEPT ![h].at = stage, ![h].todo = Numbers, ![h].found = Numbers]
        BY <3>2 DEF ReleaseFinds
      <4>2. frame[h].at = "release"  BY <3>2 DEF ReleaseFinds
      <4> QED BY <1>1, <4>1, <4>2 DEF Frame
    <3>3. CASE ReleaseOne(h) \/ ReleaseDeletes(h)
      BY <1>1, <3>3 DEF ReleaseOne, ReleaseDeletes, Frame
    <3> QED BY <1>17, <3>1, <3>2, <3>3
  <2> QED BY <2>1
<1>18. CASE Unpaid(h) \/ UnpaidCount(h)
  <2>1. frame[h].at \in {"unpaid", "unpaidCount"}  BY <1>18 DEF Unpaid, UnpaidCount
  <2>2. /\ frame'[h].at \in {"record", "unpaidRelease", "unpaid", "cancelAddon"}
        /\ frame'[h].ev = frame[h].ev
    <3>1. CASE Unpaid(h) /\ Goto(h, "record")
      <4>1. PICK stage \in {"record"} : Goto(h, stage)  BY <3>1
      <4> QED BY <4>1, EndsOrGoes
    <3>2. CASE Unpaid(h) /\ ~Goto(h, "record")
      <4>1. PICK n \in frame[h].todo, stage \in {"unpaidRelease", "unpaid"} :
              frame' = [frame EXCEPT ![h].at = stage, ![h].todo = @ \ {n}, ![h].phone = n]
        BY <3>2 DEF Unpaid
      <4> QED BY <1>1, <4>1 DEF Frame
    <3>3. CASE UnpaidCount(h)
      <4>1. PICK stage \in {"cancelAddon", "unpaid"} :
              frame' = [frame EXCEPT ![h].at = stage, ![h].then = "unpaid"]
        BY <3>3 DEF UnpaidCount
      <4> QED BY <1>1, <4>1 DEF Frame
    <3> QED BY <1>18, <3>1, <3>2, <3>3
  <2> QED BY <2>1, <2>2
<1>19. CASE StepFails(h) \/ Record(h) \/ Reject(h)
  <2>1. frame' = [frame EXCEPT ![h] = Idle]  BY <1>19 DEF StepFails, Record, Reject
  <2>2. frame'[h].at = "idle"  BY <1>1, <2>1, IdleTyped
  <2>3. frame[h].at # "idle"  BY <1>19 DEF StepFails, Record, Reject, Handles
  <2> QED BY <1>19, <2>2, <2>3
<1> QED BY <1>2, <1>3, <1>4, <1>5, <1>6, <1>7, <1>8, <1>9, <1>10, <1>11, <1>12, <1>13, <1>14, <1>15,
           <1>16, <1>17, <1>18, <1>19 DEF Handle

\* Events are answered in the order they were sent, by one handler at a time.
Recorded == processed \cup rejected
First(d) == d \in due /\ \A x \in due : d <= x
OrderInv ==
    /\ \A e \in DOMAIN sent \ due : e \in Recorded /\ \A d \in due : e < d
    /\ \A e \in due \cap Recorded : IsSignup(e) /\ e \in rejected
    /\ \A h \in Handlers : frame[h].at # "idle" => First(frame[h].ev) /\ frame[h].ev \notin Recorded
    /\ \A g, h \in Handlers : frame[g].at # "idle" /\ frame[h].at # "idle" => g = h

\* What a handler that is about to write the flag handles.
OfPlan(h, type) == Ev(h).type = type /\ Ev(h).sub \in PlanSubs
StageOK(h) ==
    /\ At(h, "subscribeFlag") => OfPlan(h, "subscribe")
    /\ At(h, "updatedTrial") \/ At(h, "updatedFlags") => OfPlan(h, "updated")
    /\ At(h, "deletedFlags") => OfPlan(h, "deleted")
    /\ At(h, "failedFlag") => OfPlan(h, "failed")
    /\ At(h, "paidFlag") => OfPlan(h, "paid")

\* A suspension that is under way is of a user who has been signed up.
Born == \E e \in DOMAIN sent : IsSignup(e) /\
           \/ e \in Recorded
           \/ \E h \in Handlers : Signs(h) /\ frame[h].at # "begin"
UserInv ==
    /\ user.present => ~user.deleted
    /\ \A c \in Clients : Suspending(c) => Born /\ (user.present => user.suspended)

\* The flag shows what the last answered event told, or what the event that is
\* handled next tells.
Counts == user.present /\ ~user.suspended
Shows(ev) == user.isSubscribed <=> Grants(ev)
LastAnswered(e) ==
    /\ e \in DOMAIN sent \ due /\ Tells(sent[e])
    /\ \A d \in DOMAIN sent \ due : d > e => ~Tells(sent[d])
Decided(h) == frame[h].at \notin Undecided /\ Tells(Ev(h)) => Shows(Ev(h))
FlagOK ==
    \A e \in DOMAIN sent : LastAnswered(e) =>
        \/ Shows(sent[e])
        \/ \E d \in DOMAIN sent : First(d) /\ Tells(sent[d]) /\ Shows(sent[d])
AccessInv == Counts => FlagOK /\ \A h \in Handlers : Decided(h)

\* A step that handles nothing, and one that gives nobody access.
Aside ==
    /\ PlanTold /\ UNCHANGED <<processed, rejected>>
    /\ \A h \in Handlers : frame'[h] = frame[h] \/ frame'[h].at = "idle"
GrantsNobody == Counts' => Counts /\ (user'.isSubscribed <=> user.isSubscribed)

LEMMA SentGrows ==
    ASSUME TypeInv, StripeTold, PlanTold
    PROVE  /\ \A e \in DOMAIN sent : e \in DOMAIN sent' /\ sent'[e] = sent[e] /\ e \in Nat
           /\ \A e \in DOMAIN sent' \ DOMAIN sent :
                e \in due' /\ e \in Nat /\ \A d \in DOMAIN sent : d < e
           /\ due' \subseteq DOMAIN sent'
           /\ due \subseteq due' /\ due' \cap DOMAIN sent = due /\ due \subseteq DOMAIN sent
           /\ DOMAIN sent' \ due' = DOMAIN sent \ due
           /\ Recorded \subseteq DOMAIN sent
           /\ \A h \in Handlers : frame[h].at # "idle" => frame[h].ev \in DOMAIN sent
<1>1. /\ sent \in Seq(Event) /\ sent' \in Seq(Event) /\ Len(sent) <= Len(sent')
      /\ due \subseteq DOMAIN sent /\ due' = due \cup (DOMAIN sent' \ DOMAIN sent)
  BY TypeParts DEF StripeTold, StripeType, PlanTold
<1>2. \A e \in DOMAIN sent : e \in DOMAIN sent' /\ sent'[e] = sent[e] /\ e \in Nat
  BY <1>1 DEF StripeTold
<1>3. \A e \in DOMAIN sent' \ DOMAIN sent : e \in Nat /\ \A d \in DOMAIN sent : d < e  BY <1>1
<1>4. Recorded \subseteq DOMAIN sent  BY DEF TypeInv, AccountTypeOK, Recorded
<1> QED BY <1>1, <1>2, <1>3, <1>4, EventTyped

LEMMA AsideKeeps ==
    ASSUME TypeInv, StripeTold, Aside, OrderInv, \A h \in Handlers : StageOK(h)
    PROVE  /\ OrderInv' /\ \A h \in Handlers : StageOK(h)'
           /\ AccessInv /\ GrantsNobody => AccessInv'
<1> USE DEF Recorded
<1>1. /\ \A e \in DOMAIN sent : e \in DOMAIN sent' /\ sent'[e] = sent[e] /\ e \in Nat
      /\ \A e \in DOMAIN sent' \ DOMAIN sent :
           e \in due' /\ e \in Nat /\ \A d \in DOMAIN sent : d < e
      /\ due' \subseteq DOMAIN sent'
      /\ due \subseteq due' /\ due' \cap DOMAIN sent = due /\ due \subseteq DOMAIN sent
      /\ DOMAIN sent' \ due' = DOMAIN sent \ due
      /\ Recorded \subseteq DOMAIN sent /\ Recorded' = Recorded
      /\ \A h \in Handlers : frame[h].at # "idle" => frame[h].ev \in DOMAIN sent
  BY SentGrows DEF Aside
<1>2. ASSUME NEW d \in DOMAIN sent, First(d) PROVE First(d)'
  <2>1. d \in due' /\ d \in Nat  BY <1>1, <1>2 DEF First
  <2>2. \A x \in due' : d <= x
    <3> SUFFICES ASSUME NEW x \in due' PROVE d <= x
      OBVIOUS
    <3>1. CASE x \in DOMAIN sent  BY <1>1, <1>2, <3>1 DEF First
    <3>2. CASE x \notin DOMAIN sent
      <4>1. d < x /\ x \in Nat  BY <1>1, <3>2
      <4> QED BY <2>1, <4>1
    <3> QED BY <3>1, <3>2
  <2> QED BY <2>1, <2>2 DEF First
<1>3. \A h \in Handlers : frame'[h].at # "idle" =>
          /\ frame[h].at # "idle" /\ frame'[h].at = frame[h].at /\ frame'[h].ev = frame[h].ev
          /\ Ev(h)' = Ev(h)
  BY <1>1 DEF Aside, Ev
<1>4. OrderInv'
  <2>1. \A e \in DOMAIN sent' \ due' : e \in Recorded' /\ \A d \in due' : e < d
    <3> SUFFICES ASSUME NEW e \in DOMAIN sent \ due PROVE e \in Recorded /\ \A d \in due' : e < d
      BY <1>1
    <3>1. ASSUME NEW d \in due' PROVE e < d
      <4>1. CASE d \in DOMAIN sent  BY <1>1, <4>1 DEF OrderInv
      <4>2. CASE d \notin DOMAIN sent  BY <1>1, <4>2
      <4> QED BY <4>1, <4>2
    <3> QED BY <3>1 DEF OrderInv
  <2>2. \A e \in due' \cap Recorded' : IsSignup(e)' /\ e \in rejected'
    BY <1>1 DEF OrderInv, IsSignup, Aside
  <2>3. \A h \in Handlers : frame'[h].at # "idle" =>
            First(frame[h].ev)' /\ frame'[h].ev = frame[h].ev /\ frame'[h].ev \notin Recorded'
    BY <1>1, <1>2, <1>3 DEF OrderInv
  <2> QED BY <1>3, <2>1, <2>2, <2>3 DEF OrderInv
<1>5. \A h \in Handlers : StageOK(h)'
  <2> SUFFICES ASSUME NEW h \in Handlers PROVE StageOK(h)'
    OBVIOUS
  <2>1. CASE frame'[h].at = "idle"  BY <2>1 DEF StageOK
  <2>2. CASE frame'[h].at # "idle"  BY <1>3, <2>2 DEF StageOK, OfPlan
  <2> QED BY <2>1, <2>2
<1>6. ASSUME AccessInv, GrantsNobody, Counts' PROVE FlagOK' /\ \A h \in Handlers : Decided(h)'
  <2>1. Counts /\ (user'.isSubscribed <=> user.isSubscribed)  BY <1>6 DEF GrantsNobody
  <2>2. FlagOK /\ \A h \in Handlers : Decided(h)  BY <1>6, <2>1 DEF AccessInv
  <2>3. \A e \in DOMAIN sent : sent'[e] = sent[e] /\ (Shows(sent[e]) => Shows(sent[e])')
    BY <1>1, <2>1 DEF Shows
  <2>4. \A h \in Handlers : Decided(h)'
    <3> SUFFICES ASSUME NEW h \in Handlers, frame'[h].at \notin Undecided, Tells(Ev(h)')
                 PROVE  Shows(Ev(h))'
      BY DEF Decided
    <3>1. frame[h].at \notin Undecided /\ Ev(h)' = Ev(h)  BY <1>3 DEF Undecided
    <3> QED BY <2>1, <2>2, <3>1 DEF Decided, Shows
  <2>5. ASSUME NEW e \in DOMAIN sent', LastAnswered(e)'
        PROVE  \/ Shows(sent[e])'
               \/ \E d \in DOMAIN sent' : First(d)' /\ Tells(sent'[d]) /\ Shows(sent[d])'
    <3>1. e \in DOMAIN sent /\ LastAnswered(e)
      BY <1>1, <2>5 DEF LastAnswered
    <3>2. CASE Shows(sent[e])  BY <1>1, <2>1, <3>1, <3>2 DEF Shows
    <3>3. ASSUME NEW d \in DOMAIN sent, First(d), Tells(sent[d]), Shows(sent[d])
          PROVE  First(d)' /\ Tells(sent'[d]) /\ Shows(sent[d])' /\ d \in DOMAIN sent'
      BY <1>1, <1>2, <2>1, <3>3 DEF Shows
    <3> QED BY <2>2, <3>1, <3>2, <3>3 DEF FlagOK
  <2> QED BY <2>4, <2>5 DEF FlagOK
<1> QED BY <1>4, <1>5, <1>6 DEF AccessInv

LEMMA OldestDue ==
    ASSUME TypeInv, due # {}
    PROVE  First(Min(due))
<1>1. due \subseteq Nat  BY TypeParts DEF StripeType
<1>2. PICK R : R = OpToRel(<, Nat)  OBVIOUS
<1>3. IsWellFoundedOn(R, Nat)  BY <1>2, NatLessThanWellFounded
<1>4. PICK x \in due : \A y \in due : <<y, x>> \notin R  BY <1>1, <1>3, WFMin
<1>5. \A y \in due : x <= y
  <2> SUFFICES ASSUME NEW y \in due, y < x PROVE FALSE
    BY <1>1
  <2>1. <<y, x>> \in R  BY <1>1, <1>2 DEF OpToRel
  <2> QED BY <1>4, <2>1
<1> QED BY <1>5 DEF Min, First

\* With events handled in order nobody is busy when the next one is taken up.
LEMMA NobodyBusy ==
    ASSUME TypeInv, OrderInv, Ordered, NEW e \in due, InTurn(e),
           e \in Recorded \/ \A h \in Handlers : frame[h].ev # e
    PROVE  First(e) /\ \A h \in Handlers : frame[h].at = "idle"
<1>1. First(e)  BY OldestDue DEF InTurn
<1>2. due \subseteq DOMAIN sent /\ sent \in Seq(Event)  BY TypeParts DEF StripeType
<1>3. ASSUME NEW h \in Handlers, frame[h].at # "idle" PROVE FALSE
  <2>1. frame[h].ev \in due /\ frame[h].ev \notin Recorded  BY <1>3 DEF OrderInv, First
  <2>2. frame[h].ev # 0  BY <1>2, <2>1
  <2>3. frame[h].ev = e  BY <2>2 DEF InTurn
  <2> QED BY <2>1, <2>3
<1> QED BY <1>1, <1>3

LEMMA ReceiveKeepsAccess ==
    ASSUME TypeInv, OrderInv, \A h \in Handlers : StageOK(h), Ordered,
           "slowSignup" \notin Faults, NEW e \in due, NEW h \in Handlers, Receive(h, e)
    PROVE  OrderInv' /\ (\A g \in Handlers : StageOK(g)') /\ (AccessInv => AccessInv')
<1>1. /\ frame' = [frame EXCEPT ![h].at = "begin", ![h].ev = e]
      /\ e \notin Recorded /\ \A g \in Handlers : frame[g].ev # e
      /\ UNCHANGED <<sent, due, processed, rejected, user>> /\ InTurn(e)
  BY DEF Receive, Recorded
<1>2. First(e) /\ \A g \in Handlers : frame[g].at = "idle"  BY <1>1, NobodyBusy
<1>3. frame \in [Procs -> Frame] /\ frame[h] \in Frame /\ h \in Procs
  BY TypeParts DEF FrameType
<1>4. /\ frame'[h].at = "begin" /\ frame'[h].ev = e
      /\ \A g \in Handlers \ {h} : frame'[g].at = "idle"
  BY <1>1, <1>2, <1>3 DEF Frame
<1>5. First(e)' /\ e \notin Recorded'  BY <1>1, <1>2 DEF First, Recorded
<1>6. OrderInv'
  <2>1. \A x \in DOMAIN sent' \ due' : x \in Recorded' /\ \A d \in due' : x < d
    BY <1>1 DEF OrderInv, Recorded
  <2>2. \A x \in due' \cap Recorded' : IsSignup(x)' /\ x \in rejected'
    BY <1>1 DEF OrderInv, IsSignup, Recorded
  <2>3. \A g \in Handlers : frame'[g].at # "idle" => g = h  BY <1>4
  <2>4. First(frame[h].ev)' /\ frame'[h].ev \notin Recorded'  BY <1>4, <1>5 DEF First
  <2> QED BY <2>1, <2>2, <2>3, <2>4 DEF OrderInv
<1>7. \A g \in Handlers : StageOK(g)'  BY <1>4 DEF StageOK
<1>8. \A g \in Handlers : Decided(g)'  BY <1>4 DEF Decided, Undecided
<1>9. AccessInv => (Counts' => FlagOK')
  BY <1>1 DEF AccessInv, Counts, FlagOK, LastAnswered, First, Shows
<1> QED BY <1>6, <1>7, <1>8, <1>9 DEF AccessInv

\* An event that is recorded and due is that of a signup that failed.
LEMMA SkipKeepsAccess ==
    ASSUME TypeInv, SignupInv, OrderInv, \A h \in Handlers : StageOK(h), Ordered,
           NEW e \in due, Skip(e)
    PROVE  OrderInv' /\ (\A g \in Handlers : StageOK(g)') /\ (~LeftBehind => AccessInv')
<1>1. e \in Recorded /\ InTurn(e) /\ due' = due \ {e}
      /\ UNCHANGED <<sent, processed, rejected, user, frame>>
  BY DEF Skip, Recorded
<1>2. First(e) /\ \A g \in Handlers : frame[g].at = "idle"  BY <1>1, NobodyBusy
<1>3. due \subseteq DOMAIN sent /\ sent \in Seq(Event)  BY TypeParts DEF StripeType
<1>4. OrderInv'
  <2>1. \A x \in DOMAIN sent' \ due' : x \in Recorded' /\ \A d \in due' : x < d
    <3> SUFFICES ASSUME NEW x \in DOMAIN sent, x \notin due \/ x = e
                 PROVE  x \in Recorded /\ \A d \in due \ {e} : x < d
      BY <1>1 DEF Recorded
    <3>1. CASE x = e  BY <1>1, <1>2, <1>3, <3>1 DEF First
    <3>2. CASE x \notin due  BY <3>2 DEF OrderInv
    <3> QED BY <3>1, <3>2
  <2>2. \A x \in due' \cap Recorded' : IsSignup(x)' /\ x \in rejected'
    BY <1>1 DEF OrderInv, IsSignup, Recorded
  <2>3. \A g \in Handlers : frame'[g].at = "idle"  BY <1>1, <1>2
  <2> QED BY <2>1, <2>2, <2>3 DEF OrderInv
<1>5. \A g \in Handlers : StageOK(g)'  BY <1>1, <1>2 DEF StageOK
<1>6. ~LeftBehind => ~Counts'
  <2>1. IsSignup(e) /\ e \in rejected  BY <1>1 DEF OrderInv
  <2>2. ~LeftBehind => ~user.present  BY <2>1 DEF SignupInv, LeftBehind
  <2> QED BY <1>1, <2>2 DEF Counts
<1> QED BY <1>4, <1>5, <1>6 DEF AccessInv

LEMMA HandlerKeepsOrder ==
    ASSUME TypeInv, SignupInv, OrderInv, AddonSubs = {},
           NEW h \in Handlers, Handle(h) \/ SignupFails(h)
    PROVE  OrderInv'
<1>1. PICK e : e = frame[h].ev  OBVIOUS
<1>2. /\ frame[h].at # "idle" /\ First(e) /\ e \notin Recorded
      /\ \A g \in Handlers \ {h} : frame[g].at = "idle"
  BY <1>1, HandlerPasses DEF OrderInv
<1>3. \A g \in Handlers \ {h} : frame'[g].at = "idle"
  BY <1>2, HandlerGoes, HandlerMoves DEF Handle, TurnOK
<1>4. due \subseteq DOMAIN sent /\ sent \in Seq(Event) /\ e \in due /\ \A d \in due \ {e} : e < d
  <2>1. due \subseteq DOMAIN sent /\ sent \in Seq(Event)  BY TypeParts DEF StripeType
  <2> QED BY <1>2, <2>1 DEF First
<1>5. CASE Record(h) \/ StepFails(h)
  <2>1. /\ due' = due \ {e} /\ sent' = sent /\ Recorded' = Recorded \cup {e}
        /\ rejected \subseteq rejected'
    BY <1>1, <1>5 DEF Record, StepFails, Recorded
  <2>2. frame'[h].at = "idle"
    <3>1. frame' = [frame EXCEPT ![h] = Idle]  BY <1>5 DEF Record, StepFails
    <3> QED BY <3>1, IdleKnows
  <2>3. \A x \in DOMAIN sent' \ due' : x \in Recorded' /\ \A d \in due' : x < d
    <3> SUFFICES ASSUME NEW x \in DOMAIN sent, x \notin due \/ x = e
                 PROVE  x \in Recorded \cup {e} /\ \A d \in due \ {e} : x < d
      BY <2>1
    <3>1. CASE x = e  BY <1>4, <3>1
    <3>2. CASE x \notin due  BY <3>2 DEF OrderInv
    <3> QED BY <3>1, <3>2
  <2>4. \A x \in due' \cap Recorded' : IsSignup(x)' /\ x \in rejected'
    BY <2>1 DEF OrderInv, IsSignup
  <2> QED BY <1>3, <2>2, <2>3, <2>4 DEF OrderInv
<1>6. CASE Reject(h) /\ ~Record(h) /\ ~StepFails(h)
  <2>1. /\ due' = due /\ sent' = sent /\ Recorded' = Recorded \cup {e}
        /\ rejected' = rejected \cup {e}
    BY <1>1, <1>2, <1>6 DEF Reject, Recorded
  <2>2. frame'[h].at = "idle"
    <3>1. frame' = [frame EXCEPT ![h] = Idle]  BY <1>6 DEF Reject
    <3> QED BY <3>1, IdleKnows
  <2>3. IsSignup(e)
    <3>1. Signs(h)  BY <1>6 DEF SignupInv, Reject, SignupStages
    <3> QED BY <1>1, <3>1, SignsTyped
  <2>4. \A x \in DOMAIN sent' \ due' : x \in Recorded' /\ \A d \in due' : x < d
    BY <2>1 DEF OrderInv
  <2>5. \A x \in due' \cap Recorded' : IsSignup(x)' /\ x \in rejected'
    BY <2>1, <2>3 DEF OrderInv, IsSignup
  <2> QED BY <1>3, <2>2, <2>4, <2>5 DEF OrderInv
<1>7. CASE ~Reject(h) /\ ~Record(h) /\ ~StepFails(h)
  <2>1. frame'[h].ev = e  BY <1>1, <1>7, HandlerPasses
  <2>2. UNCHANGED <<sent, due>>  BY <1>7, HandlerSilent
  <2>3. UNCHANGED <<processed, rejected>>
    BY <1>7, HandlerWrites DEF Written, WritesEvents
  <2>4. Recorded' = Recorded  BY <2>3 DEF Recorded
  <2>5. First(frame[h].ev)' /\ frame'[h].ev \notin Recorded'  BY <1>2, <2>1, <2>2, <2>4 DEF First
  <2>6. \A x \in DOMAIN sent' \ due' : x \in Recorded' /\ \A d \in due' : x < d
    BY <2>2, <2>4 DEF OrderInv
  <2>7. \A x \in due' \cap Recorded' : IsSignup(x)' /\ x \in rejected'
    BY <2>2, <2>3, <2>4 DEF OrderInv, IsSignup
  <2>8. \A g \in Handlers : frame'[g].at # "idle" => g = h  BY <1>3
  <2> QED BY <2>5, <2>6, <2>7, <2>8 DEF OrderInv
<1> QED BY <1>5, <1>6, <1>7

LEMMA HandlerKeepsStages ==
    ASSUME TypeInv, OrderInv, AddonSubs = {}, \A g \in Handlers : StageOK(g),
           NEW h \in Handlers, Handle(h) \/ SignupFails(h)
    PROVE  \A g \in Handlers : StageOK(g)'
<1>1. /\ frame[h].at # "idle" /\ \A g \in Handlers \ {h} : frame[g].at = "idle"
  BY HandlerPasses DEF OrderInv
<1>2. \A g \in Handlers \ {h} : frame'[g].at = "idle"
  BY <1>1, HandlerGoes, HandlerMoves DEF Handle, TurnOK
<1>3. \A g \in Handlers \ {h} : StageOK(g)'  BY <1>2 DEF StageOK
<1>4. CASE frame'[h].at = "idle"  BY <1>3, <1>4 DEF StageOK
<1>5. CASE frame'[h].at # "idle"
  <2>1. ~Record(h) /\ ~StepFails(h)
    <3>1. Record(h) \/ StepFails(h) => frame' = [frame EXCEPT ![h] = Idle]
      BY DEF Record, StepFails
    <3> QED BY <1>5, <3>1, IdleKnows
  <2>2. Ev(h)' = Ev(h)
    <3>1. UNCHANGED sent /\ frame'[h].ev = frame[h].ev
      BY <1>5, <2>1, HandlerSilent, HandlerPasses
    <3> QED BY <3>1 DEF Ev
  <2>3. Ev(h) \in Event /\ EventKind(Ev(h))  BY <1>1, EventTyped
  <2>4. RowsOf(Ev(h)) # {} => Ev(h).sub \in PlanSubs  BY <2>3 DEF RowsOf, Event
  <2>5. frame'[h].at = "subscribeFlag" => OfPlan(h, "subscribe")
    BY <2>3, HandlerPasses DEF SubscribeRow, Handles, OfPlan, EventKind
  <2>6. frame'[h].at = "updatedTrial" => OfPlan(h, "updated")
    BY <2>4, HandlerPasses DEF UpdatedRow, WritesRow, Handles, OfPlan
  <2>7. frame'[h].at = "updatedFlags" => OfPlan(h, "updated")
    BY HandlerPasses DEF UpdatedTrial, StageOK
  <2>8. frame'[h].at = "deletedFlags" => OfPlan(h, "deleted")
    BY <2>4, HandlerPasses DEF DeletedRow, WritesRow, Handles, OfPlan
  <2>9. frame'[h].at = "failedFlag" => OfPlan(h, "failed")
    BY <2>4, HandlerPasses DEF FailedRow, WritesRow, Handles, OfPlan
  <2>10. frame'[h].at = "paidFlag" => OfPlan(h, "paid")
    BY <2>4, HandlerPasses DEF PaidRow, WritesRow, Handles, OfPlan
  <2>11. StageOK(h)'
    BY <2>2, <2>5, <2>6, <2>7, <2>8, <2>9, <2>10 DEF StageOK, OfPlan
  <2> QED BY <1>3, <2>11
<1> QED BY <1>4, <1>5

\* What is written of the flag is what the event tells.
LEMMA WritesFlag ==
    ASSUME TypeInv, SignupInv, NEW h \in Handlers, StageOK(h),
           SignupFlag(h) \/ SubscribeFlag(h) \/ UpdatedFlags(h) \/ DeletedFlags(h) \/ FailedFlag(h)
    PROVE  Tells(Ev(h)) /\ (user'.isSubscribed <=> Grants(Ev(h)))
<1>1. user \in User  BY DEF TypeInv, AccountTypeOK
<1>2. CASE SignupFlag(h)
  <2>1. Signs(h)  BY <1>2 DEF SignupFlag, SignupInv, SignupStages
  <2>2. EventKind(Ev(h)) /\ Ev(h).type = "signup"  BY <2>1, EventTyped DEF Signs
  <2>3. user'.isSubscribed = TRUE  BY <1>1, <1>2 DEF SignupFlag, User
  <2> QED BY <2>2, <2>3 DEF EventKind, Tells, Telling, Grants
<1>3. CASE SubscribeFlag(h)
  <2>1. user'.isSubscribed = TRUE  BY <1>1, <1>3 DEF SubscribeFlag, User
  <2>2. OfPlan(h, "subscribe") \/ OfPlan(h, "paid")  BY <1>3 DEF SubscribeFlag, StageOK
  <2> QED BY <2>1, <2>2 DEF OfPlan, Tells, Telling, Grants
<1>4. CASE UpdatedFlags(h)
  <2>1. user'.isSubscribed = IsLive(Ev(h))  BY <1>1, <1>4, Zenon DEF UpdatedFlags, User
  <2>2. OfPlan(h, "updated")  BY <1>4 DEF UpdatedFlags, StageOK
  <2> QED BY <2>1, <2>2 DEF OfPlan, Tells, Telling, Grants
<1>5. CASE DeletedFlags(h)
  <2>1. user'.isSubscribed = FALSE  BY <1>1, <1>5 DEF DeletedFlags, User
  <2>2. OfPlan(h, "deleted")  BY <1>5 DEF DeletedFlags, StageOK
  <2> QED BY <2>1, <2>2 DEF OfPlan, Tells, Telling, Grants
<1>6. CASE FailedFlag(h)
  <2>1. user'.isSubscribed = FALSE  BY <1>1, <1>6 DEF FailedFlag, User
  <2>2. OfPlan(h, "failed")  BY <1>6 DEF FailedFlag, StageOK
  <2> QED BY <2>1, <2>2 DEF OfPlan, Tells, Telling, Grants
<1> QED BY <1>2, <1>3, <1>4, <1>5, <1>6

\* A user who counts has been signed up, by an event that is processed or by the
\* handler that is busy, and in the first case has a row.
LEMMA SignedUp ==
    ASSUME TypeInv, SignupInv, OrderInv, UserInv, Untroubled, user.present,
           NEW h \in Handlers, frame[h].at # "idle"
    PROVE  rows # <<>> \/ (Signs(h) /\ frame[h].at # "begin")
<1>1. \/ \E e \in processed : IsSignup(e)
      \/ \E g \in Handlers : Signs(g) /\ frame[g].at \notin {"begin", "reject"}
  BY DEF SignupInv
<1>2. CASE \E e \in processed : IsSignup(e)
  BY <1>2 DEF SignupInv, Provisioned, UserInv, Untroubled, LeftBehind
<1>3. ASSUME NEW g \in Handlers, Signs(g), frame[g].at \notin {"begin", "reject"}
      PROVE  Signs(h) /\ frame[h].at # "begin"
  <2>1. frame[g].at # "idle"  BY <1>3 DEF Signs
  <2> QED BY <1>3, <2>1 DEF OrderInv
<1> QED BY <1>1, <1>2, <1>3

\* Where nothing is written, nothing is told.
LEMMA WritesNothing ==
    ASSUME TypeInv, SignupInv, OrderInv, UserInv, Untroubled, user.present, NEW h \in Handlers,
           SignupExists(h) \/ LeadPurchased(h) \/ NoPlan(h) \/ DeletedLead(h) \/ Uncollectible(h)
    PROVE  UNCHANGED user /\ ~Tells(Ev(h))
<1>1. /\ UNCHANGED user /\ frame[h].at = "begin"
  BY DEF SignupExists, LeadPurchased, NoPlan, DeletedLead, Uncollectible, Handles
<1>2. rows # <<>>  BY <1>1, SignedUp
<1>3. rows \in Seq(Row)  BY DEF TypeInv, AccountTypeOK
<1>4. DOMAIN rows # {}
  <2>1. Len(rows) # 0 /\ Len(rows) \in Nat  BY <1>2, <1>3, EmptySeq
  <2>2. 1 \in DOMAIN rows  BY <1>3, <2>1
  <2> QED BY <2>2
<1>5. PlanSubs \cap LeadSubs = {}  BY AccountAssumption DEF AccountAssumption
<1>6. RowsOf(Ev(h)) = {} => Ev(h).sub \notin PlanSubs  BY <1>4, <1>5 DEF RowsOf
<1>7. CASE SignupExists(h)
  <2>1. Signs(h)  BY <1>1, <1>7 DEF SignupExists, Handles, Signs
  <2>2. frame[h].ev = 1 /\ 1 \notin processed  BY <2>1, SignsTyped
  <2>3. \A g \in Handlers : Signs(g) => g = h  BY <2>1 DEF SignupInv
  <2>4. \A e \in processed : ~IsSignup(e)  BY <2>2 DEF SignupInv
  <2> QED BY <1>1, <2>3, <2>4 DEF SignupInv
<1>8. CASE LeadPurchased(h)  BY <1>1, <1>8 DEF LeadPurchased, Handles, Tells, Telling
<1>9. CASE DeletedLead(h)  BY <1>1, <1>5, <1>9 DEF DeletedLead, OfLeadStore, Tells
<1>10. CASE NoPlan(h)  BY <1>1, <1>6, <1>10 DEF NoPlan, Tells
<1>11. CASE Uncollectible(h)  BY <1>1, <1>6, <1>11 DEF Uncollectible, Handles, Tells, Telling
<1> QED BY <1>7, <1>8, <1>9, <1>10, <1>11

LEMMA HandlerKeepsAccess ==
    ASSUME TypeInv, SignupInv, OrderInv, UserInv, AccessInv, AddonSubs = {}, Untroubled,
           \A g \in Handlers : StageOK(g), NEW h \in Handlers, Handle(h) \/ SignupFails(h)
    PROVE  AccessInv'
<1> SUFFICES ASSUME Counts' PROVE FlagOK' /\ \A g \in Handlers : Decided(g)'
  BY DEF AccessInv
<1>1. PICK e : e = frame[h].ev  OBVIOUS
<1>2. /\ frame[h].at # "idle" /\ First(e) /\ e \notin Recorded
      /\ \A g \in Handlers \ {h} : frame[g].at = "idle"
  BY <1>1, HandlerPasses DEF OrderInv
<1>3. \A g \in Handlers \ {h} : frame'[g].at = "idle"
  BY <1>2, HandlerGoes, HandlerMoves DEF Handle, TurnOK
<1>4. \A g \in Handlers \ {h} : Decided(g)'  BY <1>3 DEF Decided, Undecided
<1>5. /\ due \subseteq DOMAIN sent /\ sent \in Seq(Event) /\ e \in due
      /\ \A d \in due \ {e} : e < d
      /\ \A d \in DOMAIN sent \ due : d < e
  <2>1. due \subseteq DOMAIN sent /\ sent \in Seq(Event)  BY TypeParts DEF StripeType
  <2> QED BY <1>2, <2>1 DEF First, OrderInv
<1>6. Ev(h) = sent[e]  BY <1>1 DEF Ev
<1>7. CASE Record(h)
  <2>1. /\ due' = due \ {e} /\ sent' = sent /\ UNCHANGED user /\ frame[h].at = "record"
        /\ frame' = [frame EXCEPT ![h] = Idle]
    BY <1>1, <1>7 DEF Record
  <2>2. frame'[h].at = "idle"  BY <2>1, IdleKnows
  <2>3. Counts /\ FlagOK /\ Decided(h)  BY <2>1 DEF Counts, AccessInv
  <2>4. ASSUME NEW x \in DOMAIN sent, LastAnswered(x)' PROVE Shows(sent[x])
    <3>1. CASE Tells(sent[e])
      <4>1. x = e  BY <1>5, <2>1, <2>4, <3>1 DEF LastAnswered
      <4> QED BY <1>6, <2>1, <2>3, <3>1, <4>1 DEF Decided, Undecided, Deciding
    <3>2. CASE ~Tells(sent[e])
      <4>1. LastAnswered(x)  BY <1>5, <2>1, <2>4, <3>2 DEF LastAnswered
      <4>2. \A d \in DOMAIN sent : First(d) => d = e  BY <1>2, <1>5 DEF First
      <4> QED BY <2>3, <3>2, <4>1, <4>2 DEF FlagOK
    <3> QED BY <3>1, <3>2
  <2>5. FlagOK'  BY <2>1, <2>4 DEF FlagOK, Shows
  <2>6. Decided(h)'  BY <2>2 DEF Decided, Undecided
  <2> QED BY <1>4, <2>5, <2>6
<1>8. CASE StepFails(h)
  BY <1>8 DEF StepFails, Counts
<1>9. CASE Reject(h)
  <2>1. Signs(h)  BY <1>9 DEF Reject, SignupInv, SignupStages
  <2>2. ~user.present
    BY <1>9, <2>1 DEF Reject, SignupInv, ReachedOK, Untroubled, LeftBehind
  <2> QED BY <1>9, <2>2 DEF Reject, Counts
<1>10. CASE UndoUser(h)
  BY <1>10 DEF UndoUser, NoUser, Counts
<1>11. CASE ~Record(h) /\ ~StepFails(h) /\ ~Reject(h) /\ ~UndoUser(h)
  <2>1. UNCHANGED <<sent, due>>  BY <1>11, HandlerSilent
  <2>2. Ev(h)' = Ev(h)
    <3>1. frame'[h].ev = frame[h].ev  BY <1>11, HandlerPasses
    <3> QED BY <2>1, <3>1 DEF Ev
  <2>3. \A x \in DOMAIN sent : /\ LastAnswered(x)' <=> LastAnswered(x)
                               /\ First(x)' <=> First(x)
    BY <2>1 DEF LastAnswered, First
  <2>4. CASE SignupUser(h)
    <3>1. Signs(h)  BY <2>4 DEF SignupUser, Handles, Signs
    <3>2. e = 1  BY <1>1, <3>1, SignsTyped
    <3>3. \A x \in DOMAIN sent : ~LastAnswered(x)  BY <1>5, <3>2 DEF LastAnswered
    <3>4. FlagOK'  BY <2>1, <2>3, <3>3 DEF FlagOK
    <3>5. frame'[h].at \in Undecided
      <4>1. PICK stage \in {"signupRow"} : Goto(h, stage)  BY <2>4 DEF SignupUser
      <4> QED BY <4>1, EndsOrGoes DEF Undecided
    <3>6. Decided(h)'  BY <3>5 DEF Decided
    <3> QED BY <1>4, <3>4, <3>6
  <2>5. CASE SignupFlag(h) \/ SubscribeFlag(h) \/ UpdatedFlags(h) \/ DeletedFlags(h) \/ FailedFlag(h)
    <3>1. Tells(sent[e]) /\ (user'.isSubscribed <=> Grants(sent[e]))
      BY <1>6, <2>5, WritesFlag
    <3>2. Shows(sent[e])'  BY <2>1, <3>1 DEF Shows
    <3>3. Decided(h)'  BY <1>6, <2>2, <3>1 DEF Decided, Shows
    <3>4. First(e)' /\ e \in DOMAIN sent' /\ Tells(sent'[e])  BY <1>2, <1>5, <2>1, <2>3, <3>1
    <3>5. FlagOK'  BY <3>2, <3>4 DEF FlagOK
    <3> QED BY <1>4, <3>3, <3>5
  <2>6. CASE /\ ~SignupUser(h)
             /\ ~(SignupFlag(h) \/ SubscribeFlag(h) \/ UpdatedFlags(h) \/ DeletedFlags(h)
                  \/ FailedFlag(h))
    <3>1. UNCHANGED user
      BY <1>11, <2>6, HandlerWrites, AccountAssumption DEF Written, WritesUser, AccountAssumption
    <3>2. Counts /\ FlagOK /\ Decided(h)  BY <3>1 DEF Counts, AccessInv
    <3>3. FlagOK'  BY <2>1, <2>3, <3>1, <3>2 DEF FlagOK, Shows
    <3>4. Decided(h)'
      <4> SUFFICES ASSUME frame'[h].at \notin Undecided, Tells(Ev(h)) PROVE Shows(Ev(h))
        BY <2>2, <3>1 DEF Decided, Shows
      <4>1. ~Decides(h)
        <5>1. user.present  BY <3>2 DEF Counts
        <5> QED BY <2>6, <5>1, WritesNothing DEF Decides
      <4>2. frame[h].at \notin Undecided  BY <4>1, HandlerPasses
      <4> QED BY <3>2, <4>2 DEF Decided
    <3> QED BY <1>4, <3>3, <3>4
  <2> QED BY <2>4, <2>5, <2>6
<1> QED BY <1>7, <1>8, <1>9, <1>10, <1>11

\* Only a signup makes a user, and only with the user goes a suspension.
LEMMA UserKeeps ==
    ASSUME TypeInv, NEW p \in Procs, UNCHANGED user \/ WritesUser(p),
           ~(p \in Handlers /\ SignupUser(p)), user'.present
    PROVE  user.present /\ user'.deleted = user.deleted /\ (user.suspended => user'.suspended)
<1>1. user \in User  BY DEF TypeInv, AccountTypeOK
<1>2. ~(p \in Handlers /\ UndoUser(p)) /\ ~(p \in Clients /\ UserRow(p))
  BY DEF UndoUser, UserRow, NoUser
<1>3. user'.present = user.present /\ user'.deleted = user.deleted  BY <1>2, UserCalm
<1>4. user.suspended => user'.suspended
  <2>1. CASE SignupFlag(p) \/ SubscribeFlag(p) \/ UpdatedFlags(p) \/ DeletedFlags(p) \/ FailedFlag(p)
    BY <1>1, <2>1 DEF SignupFlag, SubscribeFlag, UpdatedFlags, DeletedFlags, FailedFlag, User
  <2>2. CASE RenewFlag(p) \/ EndTrialFlags(p) \/ Suspend(p) \/ SuspendFlags(p)
    BY <1>1, <2>2 DEF RenewFlag, EndTrialFlags, Suspend, SuspendFlags, User
  <2>3. CASE UNCHANGED user  BY <2>3
  <2> QED BY <1>2, <2>1, <2>2, <2>3 DEF WritesUser
<1> QED BY <1>3, <1>4

LEMMA BornStays ==
    ASSUME TypeInv, StripeTold, Born, Recorded \subseteq Recorded',
           \A h \in Handlers : Signs(h) /\ frame[h].at # "begin" =>
             \/ frame[h].ev \in Recorded'
             \/ frame'[h].ev = frame[h].ev /\ frame'[h].at \notin {"idle", "begin"}
    PROVE  Born'
<1>1. sent \in Seq(Event) /\ \A e \in DOMAIN sent : e \in DOMAIN sent' /\ sent'[e] = sent[e]
  BY TypeParts DEF StripeType, StripeTold
<1>2. \A e \in DOMAIN sent : IsSignup(e) => IsSignup(e)'  BY <1>1 DEF IsSignup
<1>3. PICK e \in DOMAIN sent : IsSignup(e) /\
          (e \in Recorded \/ \E h \in Handlers : Signs(h) /\ frame[h].at # "begin")
  BY DEF Born
<1>4. CASE e \in Recorded  BY <1>1, <1>2, <1>3, <1>4 DEF Born
<1>5. ASSUME NEW h \in Handlers, Signs(h), frame[h].at # "begin" PROVE Born'
  <2>1. PICK d \in DOMAIN sent : d = frame[h].ev  BY <1>5, EventTyped DEF Signs
  <2>2. IsSignup(d) /\ sent'[d] = sent[d] /\ d \in DOMAIN sent'
    BY <1>1, <1>5, <2>1 DEF Signs, Ev, IsSignup
  <2>3. CASE d \in Recorded'  BY <1>2, <2>2, <2>3 DEF Born
  <2>4. CASE frame'[h].ev = d /\ frame'[h].at \notin {"idle", "begin"}
    <3>1. Signs(h)'  BY <2>2, <2>4 DEF Signs, Ev, IsSignup
    <3> QED BY <1>2, <2>2, <2>4, <3>1 DEF Born
  <2> QED BY <1>5, <2>1, <2>3, <2>4
<1> QED BY <1>3, <1>4, <1>5

LEMMA HandlerKeepsUser ==
    ASSUME TypeInv, StripeTold, SignupInv, OrderInv, UserInv,
           NEW h \in Handlers, Handle(h) \/ SignupFails(h)
    PROVE  UserInv'
<1>1. h \in Procs /\ h \notin Clients /\ Handlers \cap Clients = {}
  BY AccountAssumption DEF AccountAssumption
<1>2. \A q \in Procs \ {h} : frame'[q] = frame[q]
  BY HandlerGoes, HandlerMoves DEF Handle, TurnOK
<1>3. \A c \in Clients : Suspending(c)' <=> Suspending(c)  BY <1>1, <1>2 DEF Suspending
<1>4. Written(h)  BY HandlerWrites
<1>5. CASE SignupUser(h)
  <2>1. Signs(h) /\ frame[h].at = "begin"  BY <1>5 DEF SignupUser, Handles, Signs
  <2>2. \A e \in Recorded : ~IsSignup(e)
    BY <2>1, SignsTyped DEF Recorded, SignupInv
  <2>3. \A g \in Handlers : Signs(g) => g = h  BY <2>1 DEF SignupInv
  <2>4. ~Born  BY <2>1, <2>2, <2>3 DEF Born
  <2>5. ~user'.deleted  BY <1>5 DEF SignupUser, NoUser
  <2> QED BY <1>3, <2>4, <2>5 DEF UserInv
<1>6. CASE ~SignupUser(h)
  <2>1. user'.present => user.present /\ user'.deleted = user.deleted
                         /\ (user.suspended => user'.suspended)
    BY <1>1, <1>4, <1>6, UserKeeps DEF Written
  <2>2. /\ Recorded \subseteq Recorded'
        /\ Record(h) \/ StepFails(h) \/ Reject(h) => frame[h].ev \in Recorded'
    BY <1>4 DEF Written, WritesEvents, Record, StepFails, Reject, Recorded
  <2>3. \A g \in Handlers : Signs(g) /\ frame[g].at # "begin" =>
             \/ frame[g].ev \in Recorded'
             \/ frame'[g].ev = frame[g].ev /\ frame'[g].at \notin {"idle", "begin"}
    <3>1. \A g \in Handlers \ {h} : frame'[g] = frame[g]  BY <1>2
    <3>2. \/ frame[h].ev \in Recorded'
          \/ frame'[h].ev = frame[h].ev /\ frame'[h].at \notin {"idle", "begin"}
      BY <2>2, HandlerPasses
    <3> QED BY <3>1, <3>2 DEF Signs
  <2>4. Born => Born'  BY <2>2, <2>3, BornStays
  <2> QED BY <1>3, <2>1, <2>4 DEF UserInv
<1> QED BY <1>5, <1>6

LEMMA ClientKeepsUser ==
    ASSUME TypeInv, StripeTold, SignupInv, UserInv, Untroubled, NEW c \in Clients,
           Start(c) \/ Answer(c)
    PROVE  UserInv'
<1>1. c \in Procs /\ c \notin Handlers /\ Handlers \cap Clients = {}
  BY AccountAssumption DEF AccountAssumption
<1>2. \A q \in Procs \ {c} : frame'[q] = frame[q]
  BY ClientGoes, ClientMoves DEF Start, Answer, TurnOK
<1>3. \A d \in Clients \ {c} : Suspending(d)' <=> Suspending(d)  BY <1>2 DEF Suspending
<1>4. Suspending(c)' => Suspending(c) \/ Suspend(c)  BY ClientReaches
<1>5. Written(c) /\ UNCHANGED <<processed, rejected>>
  BY <1>1, ClientWrites DEF Written, WritesEvents
<1>6. user'.present => user.present /\ user'.deleted = user.deleted
                       /\ (user.suspended => user'.suspended)
  BY <1>1, <1>5, UserKeeps DEF Written
<1>7. Born => Born'
  <2>1. Recorded' = Recorded  BY <1>5 DEF Recorded
  <2>2. \A h \in Handlers : frame'[h] = frame[h]  BY <1>1, <1>2
  <2> QED BY <2>1, <2>2, BornStays DEF Signs
<1>8. Suspend(c) => Born /\ user'.suspended
  <2> SUFFICES ASSUME Suspend(c) PROVE Born /\ user'.suspended
    OBVIOUS
  <2>1. user.present /\ user' = [user EXCEPT !.suspended = TRUE]  BY DEF Suspend
  <2>2. user'.suspended  BY <2>1 DEF TypeInv, AccountTypeOK, User
  <2>3. \/ \E e \in processed : IsSignup(e)
        \/ \E h \in Handlers : Signs(h) /\ frame[h].at \notin {"begin", "reject"}
    BY <2>1 DEF SignupInv
  <2>4. ASSUME NEW h \in Handlers, Signs(h), frame[h].at # "begin" PROVE Born
    BY <2>4, SignsTyped DEF Born, IsSignup
  <2>5. ASSUME NEW e \in processed, IsSignup(e) PROVE Born
    BY <2>5 DEF Born, IsSignup, Recorded
  <2> QED BY <2>2, <2>3, <2>4, <2>5
<1> QED BY <1>3, <1>4, <1>6, <1>7, <1>8 DEF UserInv

LEMMA OutsideKeepsUser ==
    ASSUME TypeInv, StripeTold, UserInv, UNCHANGED <<user, processed, rejected>>,
           \A c \in Clients : frame'[c] = frame[c] \/ frame'[c].at = "idle",
           \A h \in Handlers : Signs(h) => frame'[h] = frame[h]
    PROVE  UserInv'
<1>1. \A c \in Clients : Suspending(c)' => Suspending(c)  BY DEF Suspending
<1>2. Born => Born'
  <2>1. Recorded' = Recorded  BY DEF Recorded
  <2> QED BY <2>1, BornStays DEF Signs
<1> QED BY <1>1, <1>2 DEF UserInv

\* A request gives nobody access.
LEMMA ClientAside ==
    ASSUME TypeInv, ReadInv, AddonSubs = {}, NEW c \in Clients, Start(c) \/ Answer(c)
    PROVE  Aside /\ (UserInv => GrantsNobody)
<1>1. c \in Procs /\ c \notin Handlers /\ Handlers \cap Clients = {}
  BY AccountAssumption DEF AccountAssumption
<1>2. PlanTold  BY ClientSpeaks
<1>3. Written(c) /\ UNCHANGED <<processed, rejected>>
  BY <1>1, ClientWrites DEF Written, WritesEvents
<1>4. \A h \in Handlers : frame'[h] = frame[h]
  BY <1>1, ClientGoes, ClientMoves DEF Start, Answer, TurnOK
<1>5. user \in User  BY DEF TypeInv, AccountTypeOK
<1>10. Aside  BY <1>2, <1>3, <1>4 DEF Aside
<1>6. CASE UNCHANGED user  BY <1>6, <1>10 DEF GrantsNobody, Counts
<1>7. CASE RenewFlag(c) \/ EndTrialFlags(c)
  BY <1>7 DEF ReadInv, Reviving, RenewFlag, EndTrialFlags
<1>8. CASE Suspend(c) \/ UserRow(c)
  <2>1. ~Counts'  BY <1>5, <1>8 DEF Suspend, UserRow, NoUser, User, Counts
  <2> QED BY <1>10, <2>1 DEF GrantsNobody
<1>9. CASE SuspendFlags(c)
  <2>1. UserInv => ~Counts'
    BY <1>5, <1>9 DEF SuspendFlags, Suspending, UserInv, User, Counts
  <2> QED BY <1>10, <2>1 DEF GrantsNobody
<1> QED BY <1>1, <1>3, <1>6, <1>7, <1>8, <1>9 DEF Written, WritesUser

FlagInv ==
    /\ OrderInv
    /\ \A h \in Handlers : StageOK(h)
    /\ ~LeftBehind => UserInv /\ AccessInv

LEMMA FlagNext ==
    ASSUME TypeInv, SignupInv, PlanInv, ReadInv, FlagInv, [AccountNext]_accountVars,
           Ordered, AddonSubs = {}, "slowSignup" \notin Faults, "crashInSignup" \notin Faults
    PROVE  FlagInv'
<1>1. StripeTold /\ MishapsStay  BY StripeTells, MishapsKept
<1>2. OrderInv /\ (\A h \in Handlers : StageOK(h)) /\ (~LeftBehind => UserInv /\ AccessInv)
  BY DEF FlagInv
<1>3. ~LeftBehind' => ~LeftBehind  BY <1>1 DEF MishapsStay, LeftBehind
<1>4. ~LeftBehind => Untroubled  BY DEF Untroubled
<1>5. ASSUME Aside, ~LeftBehind' => GrantsNobody /\ UserInv' PROVE FlagInv'
  <2>1. /\ OrderInv' /\ \A h \in Handlers : StageOK(h)'
        /\ AccessInv /\ GrantsNobody => AccessInv'
    BY <1>1, <1>2, <1>5, AsideKeeps
  <2> QED BY <1>2, <1>3, <1>5, <2>1 DEF FlagInv
<1>6. ASSUME UNCHANGED <<user, processed, rejected, frame>>, UserInv PROVE UserInv'
  <2>1. \A p \in Procs : frame'[p] = frame[p]  BY <1>6
  <2>2. UNCHANGED <<user, processed, rejected>>  BY <1>6
  <2> QED BY <1>1, <1>6, <2>1, <2>2, OutsideKeepsUser
<1>7. ASSUME PlanTold, UNCHANGED <<user, processed, rejected, frame>> PROVE FlagInv'
  <2>1. Aside /\ GrantsNobody  BY <1>7 DEF Aside, GrantsNobody, Counts
  <2>2. ~LeftBehind' => UserInv'  BY <1>2, <1>3, <1>6, <1>7
  <2> QED BY <1>5, <2>1, <2>2
<1>8. CASE UNCHANGED accountVars
  <2>1. UNCHANGED <<stripe, sent, due>> /\ UNCHANGED <<user, processed, rejected, frame>>  BY <1>8
  <2> QED BY <1>7, <2>1, UnchangedRests
<1>9. CASE StripeActs /\ UNCHANGED stripeOnly
  <2>1. PlanTold  BY <1>9, StripeActsSpeak
  <2> QED BY <1>7, <1>9, <2>1
<1>10. ASSUME NEW e \in due, Skip(e) PROVE FlagInv'
  <2>1. UNCHANGED <<user, processed, rejected, frame>>  BY <1>10 DEF Skip
  <2>2. OrderInv' /\ (\A g \in Handlers : StageOK(g)') /\ (~LeftBehind => AccessInv')
    BY <1>2, <1>10, SkipKeepsAccess
  <2> QED BY <1>2, <1>3, <1>6, <2>1, <2>2 DEF FlagInv
<1>11. ASSUME NEW e \in due, NEW h \in Handlers, Receive(h, e) PROVE FlagInv'
  <2>1. /\ frame' = [frame EXCEPT ![h].at = "begin", ![h].ev = e] /\ frame[h].at = "idle"
        /\ UNCHANGED <<user, processed, rejected>>
    BY <1>11 DEF Receive
  <2>2. h \notin Clients /\ ~Signs(h)  BY <2>1, AccountAssumption DEF AccountAssumption, Signs
  <2>3. \A p \in Procs \ {h} : frame'[p] = frame[p]  BY <2>1, TypeParts DEF FrameType
  <2>4. \A c \in Clients : frame'[c] = frame[c] \/ frame'[c].at = "idle"  BY <2>2, <2>3
  <2>5. \A g \in Handlers : Signs(g) => frame'[g] = frame[g]  BY <2>2, <2>3
  <2>6. UserInv => UserInv'  BY <1>1, <2>1, <2>4, <2>5, OutsideKeepsUser
  <2>7. OrderInv' /\ (\A g \in Handlers : StageOK(g)') /\ (AccessInv => AccessInv')
    BY <1>2, <1>11, ReceiveKeepsAccess
  <2> QED BY <1>2, <1>3, <2>6, <2>7 DEF FlagInv
<1>12. ASSUME NEW h \in Handlers, Handle(h) \/ SignupFails(h) PROVE FlagInv'
  <2>1. OrderInv'  BY <1>2, <1>12, HandlerKeepsOrder
  <2>2. \A g \in Handlers : StageOK(g)'  BY <1>2, <1>12, HandlerKeepsStages
  <2>3. ~LeftBehind => UserInv'  BY <1>1, <1>2, <1>12, HandlerKeepsUser
  <2>4. ~LeftBehind => AccessInv'  BY <1>2, <1>4, <1>12, HandlerKeepsAccess
  <2> QED BY <1>3, <2>1, <2>2, <2>3, <2>4 DEF FlagInv
<1>13. ASSUME NEW c \in Clients, Start(c) \/ Answer(c) PROVE FlagInv'
  <2>1. Aside /\ (UserInv => GrantsNobody)  BY <1>2, <1>13, ClientAside
  <2>2. ~LeftBehind' => UserInv'  BY <1>1, <1>2, <1>3, <1>4, <1>13, ClientKeepsUser
  <2> QED BY <1>2, <1>3, <1>5, <2>1, <2>2
<1>14. CASE Crash
  <2>1. /\ UNCHANGED <<stripe, sent, due>> /\ UNCHANGED <<user, processed, rejected>>
        /\ \A p \in Procs : frame'[p] = Idle
    BY <1>14 DEF Crash
  <2>2. \A p \in Procs : frame'[p].at = "idle"  BY <2>1, IdleTyped
  <2>3. ~LeftBehind' => \A h \in Handlers : ~Signs(h)
    BY <1>14 DEF Crash, Signs, LeftBehind
  <2>4. ~LeftBehind' => UserInv'
    BY <1>1, <1>2, <1>3, <2>1, <2>2, <2>3, OutsideKeepsUser
  <2>5. Aside /\ GrantsNobody  BY <2>1, <2>2, UnchangedRests DEF Aside, GrantsNobody, Counts
  <2> QED BY <1>5, <2>4, <2>5
<1> QED BY <1>8, <1>9, <1>10, <1>11, <1>12, <1>13, <1>14, OthersWrite

LEMMA FlagInit == AccountInit => FlagInv
<1> SUFFICES ASSUME AccountInit PROVE FlagInv
  OBVIOUS
<1>1. /\ DOMAIN sent = {} /\ due = {} /\ processed = {} /\ rejected = {}
      /\ user.present = FALSE
      /\ \A p \in Procs : frame[p].at = "idle"
  BY IdleTyped DEF AccountInit, NoUser
<1>2. OrderInv  BY <1>1 DEF OrderInv
<1>3. \A h \in Handlers : StageOK(h)  BY <1>1 DEF StageOK
<1>4. UserInv  BY <1>1 DEF UserInv, Suspending
<1>5. AccessInv  BY <1>1 DEF AccessInv, Counts
<1> QED BY <1>2, <1>3, <1>4, <1>5 DEF FlagInv

\* With everything answered, the last event that was answered is the last one.
LEMMA FlagShowsPlan ==
    ASSUME TypeInv, SignupInv, PlanInv, FlagInv, "crashInSignup" \notin Faults
    PROVE  AccessMirrorsPlan
<1> SUFFICES ASSUME due = {}, \A p \in Procs : frame[p].at = "idle", user.present,
                    ~user.suspended, ~LeftBehind
             PROVE  /\ LivePlans # {} => user.isSubscribed
                    /\ user.isSubscribed => \E s \in PlanSubs : stripe[s].status \in Paying
  BY DEF AccessMirrorsPlan, AtRest, Paying
<1>1. PICK e \in DOMAIN sent : IsSignup(e)  BY DEF SignupInv, Signs, IsSignup, Untroubled
<1>2. Tells(sent[e])
  BY <1>1, TypeParts DEF KindsOK, EventKind, IsSignup, Tells, Telling
<1>3. PICK l \in DOMAIN sent : Latest(l)  BY <1>2 DEF PlanInv
<1>4. LastAnswered(l)  BY <1>3 DEF LastAnswered, Latest
<1>5. FlagOK  BY DEF FlagInv, AccessInv, Counts
<1>6. Shows(sent[l])  BY <1>4, <1>5 DEF FlagOK, First
<1>7. /\ sent[l].sub \in PlanSubs
      /\ Grants(sent[l]) => stripe[sent[l].sub].status \in Paying
      /\ LivePlans # {} => Grants(sent[l])
  BY <1>3 DEF Latest, PlanInv, Tells
<1> QED BY <1>6, <1>7 DEF Shows

\* Once its events are answered, in their order, a customer has access while the
\* plan is live and none when it is not paid for: after any sequence of checkouts,
\* plan changes, cancellations, new cards, failed and retried payments, suspensions
\* and deletions, for any number of plans, events, handlers and requests, whichever
\* step of a signup or a top-up fails and wherever any other handler dies.  Each
\* assumption keeps out what does break it: events out of order; the paid invoice
\* of an add-on, which the webhook takes for the plan's; the two requests that
\* write the flag after the webhook has; a signup that runs twice, or dies.
THEOREM AccessFollowsPlan ==
    ASSUME Ordered, AddonSubs = {}, Requests \cap {"renew", "endTrial"} = {},
           Faults \cap {"slowSignup", "crashInSignup"} = {}
    PROVE  AccountSpec => []AccessMirrorsPlan
<1>1. "slowSignup" \notin Faults /\ "crashInSignup" \notin Faults  OBVIOUS
<1>2. AccountSpec => []TypeInv  BY TypeInit, TypeNext, PTL DEF AccountSpec
<1>3. AccountSpec => []SignupInv  BY <1>1, SignupInvariant
<1>4. AccountInit => PlanInv /\ ReadInv /\ FlagInv  BY PlanInit, FlagInit
<1>5. ASSUME TypeInv, SignupInv, PlanInv /\ ReadInv /\ FlagInv, [AccountNext]_accountVars
      PROVE  (PlanInv /\ ReadInv /\ FlagInv)'
  <2>1. StripeTold  BY <1>5, StripeTells
  <2>2. PlanMoves  BY <1>5, PlansMove
  <2>3. PlanInv'  BY <1>5, <2>1, <2>2, PlanKept
  <2>4. ReadInv'  BY <1>5, <2>2, ReadNext
  <2>5. FlagInv'  BY <1>1, <1>5, FlagNext
  <2> QED BY <2>3, <2>4, <2>5
<1>6. TypeInv /\ SignupInv /\ PlanInv /\ FlagInv => AccessMirrorsPlan
  BY <1>1, FlagShowsPlan
<1> QED BY <1>2, <1>3, <1>4, <1>5, <1>6, PTL DEF AccountSpec
=============================================================================
