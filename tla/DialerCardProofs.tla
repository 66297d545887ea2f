--------------------------- MODULE DialerCardProofs ---------------------------
(***************************************************************************)
(* The cards of a session and the lines they take, for every value of the  *)
(* constants: no lead outlives its call among the leads in flight, a card  *)
(* is in one place, a redial guard is backed by something that drops it, a *)
(* lead is dialed at most MaxAttempts times, the lines in use never exceed *)
(* the pacing, and the dialer implements CardLife.                         *)
(*                                                                         *)
(* The proofs follow a card: CallsInv says which calls the service knows   *)
(* of, CardsInv that the places a card can be are apart and that nothing   *)
(* else has a card whose final report is still in the database, and        *)
(* CardsFlow where the cards of each place come from.  The later sections  *)
(* each add what one property needs.                                       *)
(***************************************************************************)
EXTENDS DialerProofs

USE DEF queueVars, redialVars, sessionVars, callVars, lockVars, jobVars, twilioVars,
        history, exceptLeg, exceptPump, exceptAbort, exceptStatus, exceptVoice,
        exceptBridge, exceptRequeue, exceptSweep

-----------------------------------------------------------------------------
(* The pump, when nothing stops the session: a batch is there only while it  *)
(* is being fired, and only the two actions that dial change it.            *)

Idle == ~stopped /\ (pump.stage # "firing" => pump.batch = <<>>)

LEMMA PumpedKeeps ==
    ASSUME Idle, NEW postCall, NEW q, pump' = Pumped(postCall, q)
    PROVE  pump'.batch = pump.batch /\ (pump'.stage # "firing" => pump'.batch = <<>>)
  BY DEF Idle, Pumped

LEMMA PumpQuiet ==
    ASSUME LegInv, Idle, "stop" \notin Hazards, [Next]_vars
    PROVE  Idle' /\ (PumpTakesBatch \/ PumpFires \/ pump'.batch = pump.batch)
<1>1. ~stopped'
  <2>1. ~StopDialing  BY DEF StopDialing
  <2> QED BY <2>1
      DEF Idle, Next, Step, Dialing, PumpGivesUp, PumpTakesBatch, PumpFires, PumpEnds,
          SlowCreate, CallCreated, DialBlocked, DialFrozen, DialFails,
          StatusWebhooks, CallProgress, AgentLegAnswered, AgentLegEnded, CallEnded,
          BridgeWebhooks, VoiceHolds, VoiceOverflows, VoiceBridges, HumanOverflows,
          HumanBridges, BridgeLands, BridgeFails, MachineDetected, SkipMachine,
          Watchdog, WatchdogFetches, WatchdogSweeps, StaleLock, Redialing,
          RedialTimerFires, RequeueDropped, RequeueEnters, RequeueThrows, Session,
          StartBegins, StartSaved, StartAborts, StartFills, AgentReady, PurgeContact, TrimCards,
          Telephony, Answer, NotAnswered, AmdResult, AgentAnswers, AgentDoesNotAnswer,
          HangUp, DropAtOnce, HangupLands, PromptLost, FinalWebhooksLost, Reuse,
          FinishStatus, vars
<1>2. CASE PumpTakesBatch \/ PumpFires
  <2>1. CASE PumpTakesBatch
    <3>1. \E rest : pump' = [stage |-> "firing", batch |-> rest]
      BY <2>1, TakenBatch DEF LegInv, Idle
    <3> QED BY <1>1, <2>1, <3>1 DEF Idle
  <2>2. CASE PumpFires
    <3> DEFINE rest == Tail(pump.batch)
    <3>1. pump.stage = "firing" /\ pump' = [pump EXCEPT !.batch = rest]
      BY <2>2 DEF PumpFires
    <3> HIDE DEF rest
    <3>2. pump'.stage = "firing"
      BY <3>1 DEF LegInv, TypeInv, TypeOK, QueueTypes
    <3> QED BY <1>1, <2>2, <3>2 DEF Idle
  <2> QED BY <1>2, <2>1, <2>2
<1>3. CASE PumpGivesUp \/ PumpEnds
  BY <1>1, <1>3 DEF PumpGivesUp, PumpEnds, Idle
<1>4. CASE UNCHANGED pump  BY <1>1, <1>4 DEF Idle
<1>5. CASE \E postCall \in BOOLEAN, q \in {userQueue, userQueue'} : pump' = Pumped(postCall, q)
  BY <1>1, <1>5, PumpedKeeps DEF Idle
<1>6. \/ PumpTakesBatch \/ PumpFires \/ PumpGivesUp \/ PumpEnds \/ UNCHANGED pump
      \/ \E postCall, q : pump' = Pumped(postCall, q)
  BY DEF Next, Step, Dialing, SlowCreate, CallCreated, DialBlocked, DialFrozen, DialFails,
          StatusWebhooks, CallProgress, AgentLegAnswered, AgentLegEnded, CallEnded,
          BridgeWebhooks, VoiceHolds, VoiceOverflows, VoiceBridges, HumanOverflows,
          HumanBridges, BridgeLands, BridgeFails, MachineDetected, SkipMachine,
          Watchdog, WatchdogFetches, WatchdogSweeps, StaleLock, Redialing,
          RedialTimerFires, RequeueDropped, RequeueEnters, RequeueThrows, Session,
          StartBegins, StartSaved, StartAborts, StartFills, StopDialing, AgentReady, PurgeContact,
          TrimCards, Telephony, Answer, NotAnswered, AmdResult, AgentAnswers,
          AgentDoesNotAnswer, HangUp, DropAtOnce, HangupLands, PromptLost,
          FinalWebhooksLost, Reuse, FinishStatus, TerminalStatus, vars
<1> QED BY <1>1, <1>2, <1>3, <1>4, <1>6, PumpedKeeps DEF Idle

-----------------------------------------------------------------------------
(* Leads in flight. *)

LeadsOf(b) == {b[i].lead : i \in DOMAIN b}

\* The first card of a batch, and the others.
LEMMA BatchSplits ==
    ASSUME NEW b \in Seq(Card), b # <<>>
    PROVE  /\ Head(b) \in Card /\ Tail(b) \in Seq(Card)
           /\ LeadsOf(b) = {Head(b).lead} \cup LeadsOf(Tail(b))
           /\ \A i \in DOMAIN Tail(b) : i + 1 \in DOMAIN b /\ Tail(b)[i] = b[i + 1]
<1>1. Head(b) \in Card /\ Tail(b) \in Seq(Card) /\ Len(b) \in Nat \ {0}  OBVIOUS
<1>2. /\ DOMAIN b = 1 .. Len(b) /\ DOMAIN Tail(b) = 1 .. Len(b) - 1
      /\ b[1] = Head(b)
  BY <1>1
<1>3. \A i \in DOMAIN Tail(b) : i + 1 \in DOMAIN b /\ Tail(b)[i] = b[i + 1]
  BY <1>1, <1>2
<1>4. ASSUME NEW i \in DOMAIN b, i # 1  PROVE i - 1 \in DOMAIN Tail(b) /\ b[i] = Tail(b)[i - 1]
  BY <1>1, <1>2, <1>3, <1>4
<1>5. LeadsOf(b) \subseteq {Head(b).lead} \cup LeadsOf(Tail(b))
  BY <1>2, <1>4 DEF LeadsOf
<1>6. {Head(b).lead} \cup LeadsOf(Tail(b)) \subseteq LeadsOf(b)
  BY <1>1, <1>2, <1>3 DEF LeadsOf
<1> QED BY <1>1, <1>3, <1>5, <1>6

LEMMA CardsLeads ==
    ASSUME NEW n \in Nat \ {0}, NEW b \in [1 .. n -> Queued(userQueue)], Cards(b, n) \in Seq(Card)
    PROVE  /\ LeadsOf(Cards(b, n)) = Taken(b, n) /\ Cards(b, n) # <<>>
           /\ Head(Cards(b, n)) = Cards(b, n)[1]
           /\ \A i \in 1 .. n : Cards(b, n)[i] = [lead |-> b[i], att |-> userQueue[b[i]]]
           /\ DOMAIN Cards(b, n) = 1 .. n
<1>1. DOMAIN Cards(b, n) = 1 .. n /\ 1 \in 1 .. n  BY DEF Cards
<1>2. Cards(b, n) # <<>>  BY <1>1
<1>3. Head(Cards(b, n)) = Cards(b, n)[1]  BY <1>2
<1>4. \A i \in 1 .. n : Cards(b, n)[i] = [lead |-> b[i], att |-> userQueue[b[i]]]
  BY DEF Cards
<1>5. LeadsOf(Cards(b, n)) = Taken(b, n)  BY <1>1, <1>4 DEF LeadsOf, Taken
<1> QED BY <1>1, <1>2, <1>3, <1>4, <1>5

\* A call on its way stays on its way, until it is placed or given up.
LEMMA PlacingStays ==
    ASSUME LegInv, LegTurn, NEW l \in Placing,
           \A s \in Sids : leg[s].lead = l => ~CallCreated(s) /\ ~Aborts(s)
    PROVE  l \in Placing'
<1>1. PICK s \in Sids : leg[s].lead = l /\ OnItsWay(leg[s])
  BY DEF Placing, OnItsWay
<1>2. leg \in [Sids -> Leg] /\ Fit(leg[s]) /\ leg[s].st # "unused"
  BY <1>1 DEF LegInv, TypeInv, TypeOK, TwilioTypes, Fit, OnItsWay, Placed
<1>3. ASSUME NEW t \in Sids, NEW r \in Leg, leg' = [leg EXCEPT ![t] = r],
             Turned(t, r) \/ Begun(t, r) \/ Dropped(t, r)
      PROVE  leg'[s].lead = l /\ OnItsWay(leg'[s])
  <2>1. CASE t # s  BY <1>1, <1>2, <1>3, <2>1
  <2>2. CASE t = s
    <3>1. leg'[s] = r  BY <1>2, <1>3, <2>2
    <3>2. ~Begun(s, r)  BY <1>2 DEF Begun
    <3>3. ~Dropped(s, r)
      BY <1>1, <1>2 DEF Dropped, Reuse, Spent, OnItsWay
    <3> QED BY <1>1, <1>3, <2>2, <3>1, <3>2, <3>3 DEF Turned, OnItsWay
  <2> QED BY <2>1, <2>2
<1>4. leg'[s].lead = l /\ OnItsWay(leg'[s])  BY <1>1, <1>3 DEF LegTurn
<1> QED BY <1>4 DEF Placing, OnItsWay

\* makeCall: the card is on its way, or its slot among the lines is free.
LEMMA MakeCallPlaces ==
    ASSUME LegInv, NEW card \in Card, NEW f, MakeCall(card, f)
    PROVE  /\ leadsInFlight' \subseteq f /\ Placing \subseteq Placing'
           /\ card.lead \in leadsInFlight' => card.lead \in Placing'
<1>1. CASE ContactOf[card.lead] \in removedContacts
  BY <1>1 DEF MakeCall, Placing
<1>2. CASE ContactOf[card.lead] \notin removedContacts
  <2>1. PICK s \in Sids, mode \in AmdModes :
          /\ leg[s].st = "unused"
          /\ leg' = [leg EXCEPT ![s] =
               [NoLeg EXCEPT !.st = "placing", !.lead = card.lead, !.att = card.att,
                             !.amd = IF mode THEN "pending" ELSE "off"]]
    BY <1>2 DEF MakeCall
  <2>2. leg \in [Sids -> Leg] /\ Fit(leg[s])
    BY DEF LegInv, TypeInv, TypeOK, TwilioTypes
  <2>3. leg'[s].st = "placing" /\ leg'[s].lead = card.lead
    BY <2>1, <2>2 DEF NoLeg
  <2>4. \A t \in Sids \ {s} : leg'[t] = leg[t]  BY <2>1, <2>2
  <2>5. ~leg[s].resp  BY <2>1, <2>2 DEF Fit, Placed
  <2>6. Placing \subseteq Placing'  BY <2>1, <2>4, <2>5 DEF Placing
  <2> QED BY <1>2, <2>3, <2>6 DEF MakeCall, Placing
<1> QED BY <1>1, <1>2

FlightInv == LegInv /\ Idle /\ InFlightBacked

LEMMA FlightInit == Init => FlightInv
  BY LegInit DEF Init, FlightInv, Idle, InFlightBacked

LEMMA FlightPumps ==
    ASSUME FlightInv, PumpTakesBatch \/ PumpFires PROVE InFlightBacked'
<1>1. pump.batch \in Seq(Card)  BY DEF FlightInv, LegInv, TypeInv, TypeOK, QueueTypes
<1>2. CASE PumpTakesBatch
  <2>1. PICK n \in Nat \ {0} : \E b \in [1 .. n -> Queued(userQueue)] :
          /\ Cards(b, n) \in Seq(Card) /\ Cards(b, n)[1] \in Card
          /\ MakeCall(Cards(b, n)[1], leadsInFlight \cup Taken(b, n))
          /\ pump' = [stage |-> "firing", batch |-> Tail(Cards(b, n))]
    BY <1>2, TakenBatch DEF FlightInv, LegInv, Idle
  <2>2. PICK b \in [1 .. n -> Queued(userQueue)] :
          /\ Cards(b, n) \in Seq(Card) /\ Cards(b, n)[1] \in Card
          /\ MakeCall(Cards(b, n)[1], leadsInFlight \cup Taken(b, n))
          /\ pump' = [stage |-> "firing", batch |-> Tail(Cards(b, n))]
    BY <2>1
  <2> DEFINE cards == Cards(b, n)
  <2>3. Batched' = LeadsOf(Tail(cards))  BY <2>2 DEF Batched, LeadsOf
  <2>4. Taken(b, n) = {cards[1].lead} \cup LeadsOf(Tail(cards))
    BY <2>2, CardsLeads, BatchSplits
  <2>5. leadsInFlight \subseteq Placing
    BY <1>2 DEF FlightInv, Idle, PumpTakesBatch, InFlightBacked, Batched
  <2>6. /\ leadsInFlight' \subseteq leadsInFlight \cup Taken(b, n) /\ Placing \subseteq Placing'
        /\ cards[1].lead \in leadsInFlight' => cards[1].lead \in Placing'
    BY <2>2, MakeCallPlaces DEF FlightInv
  <2> HIDE DEF cards
  <2> QED BY <2>3, <2>4, <2>5, <2>6 DEF InFlightBacked
<1>3. CASE PumpFires
  <2>1. MakeCall(Head(pump.batch), leadsInFlight) /\ pump.batch # <<>>
    BY <1>3 DEF PumpFires
  <2>2. pump'.batch = Tail(pump.batch)
    BY <1>3 DEF PumpFires, FlightInv, LegInv, TypeInv, TypeOK, QueueTypes
  <2>3. Batched = LeadsOf(pump.batch) /\ Batched' = LeadsOf(Tail(pump.batch))
    BY <2>2 DEF Batched, LeadsOf
  <2>4. Batched = {Head(pump.batch).lead} \cup Batched' /\ Head(pump.batch) \in Card
    BY <1>1, <2>1, <2>3, BatchSplits
  <2>5. /\ leadsInFlight' \subseteq leadsInFlight /\ Placing \subseteq Placing'
        /\ Head(pump.batch).lead \in leadsInFlight' => Head(pump.batch).lead \in Placing'
    BY <2>1, <2>4, MakeCallPlaces DEF FlightInv
  <2> QED BY <2>4, <2>5 DEF FlightInv, InFlightBacked
<1> QED BY <1>2, <1>3

LEMMA FlightQuiet ==
    ASSUME [Next]_vars, "stop" \notin Hazards
    PROVE  PumpTakesBatch \/ PumpFires \/ leadsInFlight' \subseteq leadsInFlight
<1>1. ~StopDialing  BY DEF StopDialing
<1> QED BY <1>1
    DEF Next, Step, Dialing, PumpGivesUp, PumpEnds,
        SlowCreate, CallCreated, DialBlocked, DialFrozen, DialFails,
        StatusWebhooks, CallProgress, AgentLegAnswered, AgentLegEnded, CallEnded,
        BridgeWebhooks, VoiceHolds, VoiceOverflows, VoiceBridges, HumanOverflows,
        HumanBridges, BridgeLands, BridgeFails, MachineDetected, SkipMachine,
        Watchdog, WatchdogFetches, WatchdogSweeps, StaleLock, Redialing,
        RedialTimerFires, RequeueDropped, RequeueEnters, RequeueThrows, Session,
        StartBegins, StartSaved, StartAborts, StartFills, AgentReady, PurgeContact, TrimCards,
        Telephony, Answer, NotAnswered, AmdResult, AgentAnswers, AgentDoesNotAnswer,
        HangUp, DropAtOnce, HangupLands, PromptLost, FinalWebhooksLost, Reuse,
        FinishStatus, vars

LEMMA FlightNext == ASSUME FlightInv, "stop" \notin Hazards, [Next]_vars PROVE FlightInv'
<1>1. LegInv' /\ LegTurn  BY LegNext DEF FlightInv
<1>2. Idle' /\ (PumpTakesBatch \/ PumpFires \/ pump'.batch = pump.batch)
  BY PumpQuiet DEF FlightInv
<1>3. CASE PumpTakesBatch \/ PumpFires  BY <1>1, <1>2, <1>3, FlightPumps DEF FlightInv
<1>4. CASE pump'.batch = pump.batch /\ leadsInFlight' \subseteq leadsInFlight
  <2>1. Batched' = Batched  BY <1>4 DEF Batched
  <2>2. ASSUME NEW l \in leadsInFlight', l \notin Batched  PROVE l \in Placing'
    <3>1. l \in Placing  BY <1>4, <2>2 DEF FlightInv, InFlightBacked
    <3>2. \A s \in Sids : leg[s].lead = l => ~CallCreated(s) /\ ~Aborts(s)
      BY <2>2 DEF CallCreated, Aborts, DialBlocked, DialFrozen, DialFails
    <3> QED BY <1>1, <3>1, <3>2, PlacingStays DEF FlightInv
  <2> QED BY <1>1, <1>2, <2>1, <2>2 DEF FlightInv, InFlightBacked
<1> QED BY <1>2, <1>3, <1>4, FlightQuiet

\* No entry of leadsInFlight outlives the call it stands for, unless the agent
\* stops the session: an entry that nothing removes would lower the pacing for
\* good (processQueue, makeCall).
THEOREM InFlightIsBacked == ASSUME "stop" \notin Hazards PROVE Spec => []InFlightBacked
<1>1. FlightInv /\ [Next]_vars => FlightInv'  BY FlightNext
<1>2. FlightInv => InFlightBacked  BY DEF FlightInv
<1> QED BY FlightInit, <1>1, <1>2, PTL DEF Spec

-----------------------------------------------------------------------------
(* Calls the service knows of.  A call that is up is tracked, unless Twilio's *)
(* answer to calls.create is outstanding or the call is about to be hung up. *)

\* The environments in which every call of the session is known: the agent does
\* not stop and restart the session and, when calls are bridged by their own
\* TwiML, a call does not end, is not purged and does not overtake the answer
\* of calls.create before its TwiML is asked for.  (handleVoiceWebhook bridges
\* a call it does not know and stores it as a new one.)
Orderly ==
    /\ MaxSessions <= 1 /\ "stop" \notin Hazards
    /\ FALSE \in AmdModes => Hazards \cap {"lateVoice", "purge", "slowCreate"} = {}

Skipped == {k.sid : k \in skipping}

TrackedPlaced == \A s \in Sids : activeCalls[s] # 0 => Placed(leg[s]) /\ ~leg[s].resp

LiveTracked ==
    \A s \in Sids : LiveLeg(s) =>
        \/ activeCalls[s] # 0 \/ leg[s].resp
        \/ s \in hangups \cup Skipped
        \/ "restFail" \in Hazards /\ leg[s].amd = "done"

BridgesWait == \A s \in bridging : leg[s].st \in {"held", "ended"}

\* Without detection the answer of calls.create comes before any webhook.
OffAnswered == \A s \in Sids : leg[s].amd = "off" => ~leg[s].resp

CallsInv == /\ OverInv /\ Fresh /\ Idle
            /\ VoiceLive /\ TrackedPlaced /\ LiveTracked /\ BridgesWait /\ OffAnswered

LEMMA CallTypesNow ==
    ASSUME CallsInv
    PROVE  /\ leg \in [Sids -> Leg] /\ activeCalls \in [Sids -> 0 .. 2]
           /\ meta \in [Sids -> [1 .. 2 -> Meta]]
           /\ userQueue \in [Leads -> Attempts] /\ pump.batch \in Seq(Card)
           /\ redialTimers \subseteq Timer /\ requeues \subseteq Requeue
           /\ pendingRedials \subseteq Leads /\ finishing \subseteq Finish /\ skipping \subseteq Skip
           /\ bridging \subseteq Sids /\ hangups \subseteq Sids
           /\ \A s \in Sids : Fit(leg[s]) /\ Sound(leg[s])
           /\ \A s \in Detected : s \in Sids /\ leg[s].amd = "done"
           /\ \A j \in finishing : j.sid \in Sids /\ leg[j.sid].st = "ended"
  BY DEF CallsInv, OverInv, LegInv, TypeInv, TypeOK, TwilioTypes, CallTypes, QueueTypes,
         RedialTypes, JobTypes, Detected, Finish, Skip

\* handleVoiceWebhook, without detection, bridges a call that is tracked.
LEMMA VoiceTracked ==
    ASSUME CallsInv, Orderly, NEW s \in Sids, VoiceBridges(s)
    PROVE  activeCalls[s] # 0
<1>1. leg[s].voice /\ leg[s].amd = "off"  BY DEF VoiceBridges
<1>2. leg[s].st = "answered" /\ ~leg[s].resp  BY <1>1 DEF CallsInv, VoiceLive, OffAnswered
<1>3. FALSE \in AmdModes  BY <1>1, <1>2, CallTypesNow DEF Fit
<1>4. s \notin hangups \cup Skipped
  BY <1>1, <1>3, CallTypesNow DEF Orderly, CallsInv, OverInv, Detected, Skipped
<1> QED BY <1>1, <1>2, <1>4 DEF CallsInv, LiveTracked, LiveLeg

TrackMoves ==
    /\ \A s \in Sids : activeCalls'[s] # 0 => activeCalls[s] # 0 \/ CallCreated(s)
    /\ \A s \in Sids : activeCalls[s] # 0 /\ activeCalls'[s] = 0 =>
          \/ leg[s].st \in {"unused", "ended"}
          \/ s \in hangups' \cup Skipped'
          \/ "restFail" \in Hazards /\ leg[s].amd = "done"
    /\ Skipped \subseteq Skipped' \cup hangups'
    /\ \A s \in hangups \ hangups' : ~LiveLeg(s)'
    /\ \A s \in bridging' : leg'[s].st \in {"held", "ended"} \/ (s \in bridging /\ ~BridgeLands(s))

\* A step that leaves the calls, the hang-ups and the jobs alone.
LEMMA TrackKept ==
    ASSUME UNCHANGED <<activeCalls, hangups, skipping, bridging>> PROVE TrackMoves
<1>1. Skipped' = Skipped /\ \A s \in bridging : ~BridgeLands(s)
  BY DEF Skipped, BridgeLands
<1> QED BY <1>1 DEF TrackMoves

LEMMA BridgeTracks ==
    ASSUME CallsInv, Orderly, NEW s \in Sids,
           \/ VoiceHolds(s) \/ VoiceOverflows(s) \/ VoiceBridges(s)
           \/ HumanOverflows(s) \/ HumanBridges(s)
           \/ BridgeLands(s) \/ BridgeFails(s) \/ MachineDetected(s)
    PROVE  TrackMoves
<1>1. CASE VoiceHolds(s) \/ VoiceOverflows(s) \/ HumanOverflows(s)
  <2>1. UNCHANGED <<activeCalls, hangups, skipping, bridging>>
    BY <1>1 DEF VoiceHolds, VoiceOverflows, HumanOverflows
  <2> QED BY <2>1, TrackKept
<1>2. ASSUME VoiceBridges(s) \/ (HumanBridges(s) /\ activeCalls[s] # 0)  PROVE TrackMoves
  <2>1. activeCalls[s] # 0  BY <1>2, VoiceTracked
  <2>2. activeCalls' = [activeCalls EXCEPT ![s] = 2] /\ UNCHANGED <<hangups, skipping>>
    BY <1>2 DEF VoiceBridges, HumanBridges, Bridged
  <2>3. bridging \subseteq bridging'  BY <1>2 DEF VoiceBridges, HumanBridges
  <2>4. \A t \in bridging : ~BridgeLands(t)  BY <2>3 DEF BridgeLands
  <2>5. \A t \in bridging' : t \in bridging \/ leg'[t].st \in {"held", "ended"}
    <3>1. CASE VoiceBridges(s)  BY <3>1 DEF VoiceBridges
    <3>2. CASE HumanBridges(s) /\ activeCalls[s] # 0
      <4>1. leg[s].st \in {"held", "ended"} /\ leg[s] \in Leg
        BY <3>2, CallTypesNow DEF HumanBridges, Fit
      <4>2. leg'[s].st = leg[s].st  BY <3>2, CallTypesNow DEF HumanBridges
      <4> QED BY <3>2, <4>1, <4>2 DEF HumanBridges
    <3> QED BY <1>2, <3>1, <3>2
  <2> QED BY <2>1, <2>2, <2>4, <2>5, CallTypesNow DEF TrackMoves, Skipped
<1>3. CASE HumanBridges(s) /\ activeCalls[s] = 0
  <2>1. UNCHANGED <<activeCalls, hangups, skipping, bridging>>
    BY <1>3 DEF HumanBridges
  <2> QED BY <2>1, TrackKept
<1>4. CASE BridgeLands(s)
  <2>1. UNCHANGED <<activeCalls, hangups, skipping>> /\ bridging' = bridging \ {s}
    BY <1>4 DEF BridgeLands
  <2>2. \A t \in bridging' : t \in bridging /\ ~BridgeLands(t)
    BY <2>1 DEF BridgeLands
  <2> QED BY <2>1, <2>2 DEF TrackMoves, Skipped
<1>5. CASE BridgeFails(s)
  <2>1. /\ UNCHANGED <<leg, hangups, skipping>> /\ bridging' = bridging \ {s}
        /\ s \in bridging /\ activeCalls' = [activeCalls EXCEPT ![s] = 0]
    BY <1>5 DEF BridgeFails
  <2>2. \A t \in bridging' : leg'[t].st \in {"held", "ended"}
    BY <2>1 DEF CallsInv, BridgesWait
  <2>3. leg[s].st = "ended" \/ ("restFail" \in Hazards /\ leg[s].amd = "done")
    BY <1>5, <2>1, CallTypesNow DEF BridgeFails, CallsInv, BridgesWait, Detected
  <2> QED BY <2>1, <2>2, <2>3, CallTypesNow DEF TrackMoves, Skipped
<1>6. CASE MachineDetected(s)
  <2>1. /\ UNCHANGED <<hangups, bridging>> /\ activeCalls' = [activeCalls EXCEPT ![s] = 0]
        /\ skipping' = skipping \cup {[sid |-> s, obj |-> activeCalls[s]]}
    BY <1>6 DEF MachineDetected
  <2>2. Skipped' = Skipped \cup {s}
    <3> DEFINE k == [sid |-> s, obj |-> activeCalls[s]]
    <3>1. k.sid = s /\ skipping' = skipping \cup {k}  BY <2>1
    <3> HIDE DEF k
    <3> QED BY <3>1 DEF Skipped
  <2>3. \A t \in bridging : ~BridgeLands(t)  BY <2>1 DEF BridgeLands
  <2> QED BY <2>1, <2>2, <2>3, CallTypesNow DEF TrackMoves
<1> QED BY <1>1, <1>2, <1>3, <1>4, <1>5, <1>6

LEMMA TrackNext == ASSUME CallsInv, Orderly, [Next]_vars PROVE TrackMoves
<1>1. CASE BridgeWebhooks
  <2>1. ASSUME NEW k \in skipping, SkipMachine(k)  PROVE TrackMoves
    <3>1. Skipped \subseteq Skipped' \cup hangups' /\ hangups \subseteq hangups'
      BY <2>1 DEF SkipMachine, Skipped
    <3>2. \A t \in bridging : ~BridgeLands(t)  BY <2>1 DEF SkipMachine, BridgeLands
    <3>3. UNCHANGED <<activeCalls, bridging>>  BY <2>1 DEF SkipMachine
    <3> QED BY <3>1, <3>2, <3>3 DEF TrackMoves
  <2> QED BY <1>1, <2>1, BridgeTracks DEF BridgeWebhooks
<1>2. CASE UNCHANGED <<activeCalls, hangups, skipping, bridging>>
  BY <1>2, TrackKept
<1>3. ASSUME UNCHANGED <<hangups, skipping, bridging>>,
             \A s \in Sids : activeCalls'[s] # 0 => activeCalls[s] # 0 \/ CallCreated(s),
             \A s \in Sids : activeCalls[s] # 0 /\ activeCalls'[s] = 0
                               => leg[s].st \in {"unused", "ended"}
      PROVE  TrackMoves
  <2>1. \A t \in bridging : ~BridgeLands(t)  BY <1>3 DEF BridgeLands
  <2>2. Skipped' = Skipped  BY <1>3 DEF Skipped
  <2> QED BY <1>3, <2>1, <2>2 DEF TrackMoves
<1>4. ASSUME NEW s \in Sids, CallCreated(s)  PROVE TrackMoves
  <2>1. /\ UNCHANGED <<hangups, skipping, bridging>>
        /\ activeCalls' = [activeCalls EXCEPT ![s] = 1]
    BY <1>4 DEF CallCreated
  <2>2. \A t \in Sids : activeCalls'[t] # 0 => activeCalls[t] # 0 \/ CallCreated(t)
    BY <1>4, <2>1, CallTypesNow
  <2>3. \A t \in Sids : activeCalls[t] # 0 => activeCalls'[t] # 0
    BY <2>1, CallTypesNow
  <2> QED BY <1>3, <2>1, <2>2, <2>3
<1>5. ASSUME NEW j \in finishing, FinishStatus(j)  PROVE TrackMoves
  BY <1>3, <1>5, CallTypesNow DEF FinishStatus, TerminalStatus
<1>6. CASE StartBegins
  <2>1. sessions = 0
    BY <1>6, DialerAssumption
    DEF StartBegins, Orderly, CallsInv, OverInv, LegInv, TypeInv, TypeOK, HistoryTypes
  <2>2. Empty  BY <2>1 DEF CallsInv, Fresh, Unstarted
  <2> QED BY <1>3, <1>6, <2>2 DEF StartBegins, Empty
<1>7. ASSUME NEW c \in Contacts, PurgeContact(c)  PROVE TrackMoves
  <2>1. /\ UNCHANGED <<skipping, bridging>> /\ hangups \subseteq hangups'
        /\ \A s \in Sids : activeCalls'[s] # 0 => activeCalls[s] # 0
        /\ \A s \in Sids : activeCalls[s] # 0 /\ activeCalls'[s] = 0 => s \in hangups'
    BY <1>7 DEF PurgeContact
  <2>2. \A t \in bridging : ~BridgeLands(t)  BY <2>1 DEF BridgeLands
  <2>3. Skipped' = Skipped  BY <2>1 DEF Skipped
  <2> QED BY <2>1, <2>2, <2>3 DEF TrackMoves
<1>8. ASSUME NEW s \in Sids, HangupLands(s)  PROVE TrackMoves
  <2>1. ~LiveLeg(s)'
    BY <1>8, CallTypesNow DEF HangupLands, LiveLeg, Ended, Leg
  <2>2. /\ UNCHANGED <<activeCalls, skipping, bridging>> /\ hangups' = hangups \ {s}
    BY <1>8 DEF HangupLands
  <2>3. \A t \in bridging : ~BridgeLands(t)  BY <2>2 DEF BridgeLands
  <2>4. Skipped' = Skipped  BY <2>2 DEF Skipped
  <2> QED BY <2>1, <2>2, <2>3, <2>4 DEF TrackMoves
<1>9. \/ BridgeWebhooks \/ UNCHANGED <<activeCalls, hangups, skipping, bridging>>
      \/ \E s \in Sids : CallCreated(s) \/ HangupLands(s)
      \/ \E j \in finishing : FinishStatus(j)
      \/ StartBegins \/ StopDialing \/ \E c \in Contacts : PurgeContact(c)
  BY DEF Next, Step, Dialing, PumpGivesUp, PumpTakesBatch, PumpFires, PumpEnds,
         SlowCreate, DialBlocked, DialFrozen, DialFails,
         StatusWebhooks, CallProgress, AgentLegAnswered, AgentLegEnded, CallEnded,
         Watchdog, WatchdogFetches, WatchdogSweeps, StaleLock, Redialing,
         RedialTimerFires, RequeueDropped, RequeueEnters, RequeueThrows, Session,
         StartSaved, StartAborts, StartFills, AgentReady, TrimCards, Telephony, Answer, NotAnswered,
         AmdResult, AgentAnswers, AgentDoesNotAnswer, HangUp, DropAtOnce,
         PromptLost, FinalWebhooksLost, Reuse, vars
<1>10. ~StopDialing  BY DEF StopDialing, Orderly
<1> QED BY <1>1, <1>2, <1>4, <1>5, <1>6, <1>7, <1>8, <1>9, <1>10

LEMMA CallsInit == Init => CallsInv
<1> SUFFICES ASSUME Init PROVE CallsInv  OBVIOUS
<1>1. \A s \in Sids : leg[s].st = "unused" /\ ~leg[s].voice /\ ~leg[s].resp /\ activeCalls[s] = 0
  BY DEF Init, NoLeg
<1>2. bridging = {} /\ Idle  BY DEF Init, Idle
<1> QED BY <1>1, <1>2, OverInit, FreshInit
    DEF CallsInv, VoiceLive, TrackedPlaced, LiveTracked, LiveLeg, BridgesWait, OffAnswered

LEMMA CallsStep ==
    ASSUME CallsInv, Orderly, [Next]_vars, NEW s \in Sids
    PROVE  /\ activeCalls'[s] # 0 => Placed(leg'[s]) /\ ~leg'[s].resp
           /\ LiveLeg(s)' => \/ activeCalls'[s] # 0 \/ leg'[s].resp
                             \/ s \in hangups' \cup Skipped'
                             \/ "restFail" \in Hazards /\ leg'[s].amd = "done"
           /\ s \in bridging' => leg'[s].st \in {"held", "ended"}
           /\ leg'[s].amd = "off" => ~leg'[s].resp
<1> DEFINE Goal == /\ activeCalls'[s] # 0 => Placed(leg'[s]) /\ ~leg'[s].resp
                   /\ LiveLeg(s)' => \/ activeCalls'[s] # 0 \/ leg'[s].resp
                                     \/ s \in hangups' \cup Skipped'
                                     \/ "restFail" \in Hazards /\ leg'[s].amd = "done"
                   /\ s \in bridging' => leg'[s].st \in {"held", "ended"}
                   /\ leg'[s].amd = "off" => ~leg'[s].resp
<1>1. OverInv' /\ LegTurn /\ TrackMoves  BY OverNext, TrackNext DEF CallsInv
<1>2. leg \in [Sids -> Leg] /\ Fit(leg[s])  BY CallTypesNow
<1>3. CallCreated(s) => activeCalls'[s] # 0 /\ Placed(leg'[s]) /\ ~leg'[s].resp
  <2> SUFFICES ASSUME CallCreated(s)
               PROVE  activeCalls'[s] # 0 /\ Placed(leg'[s]) /\ ~leg'[s].resp
    OBVIOUS
  <2>1. activeCalls'[s] = 1  BY CallTypesNow DEF CallCreated
  <2>2. CASE leg[s].resp
    <3>1. leg' = [leg EXCEPT ![s].resp = FALSE]  BY <2>2 DEF CallCreated
    <3> QED BY <1>2, <2>1, <2>2, <3>1 DEF Fit, Placed
  <2>3. CASE ~leg[s].resp
    <3>1. leg' = [leg EXCEPT ![s].st = "ringing"]  BY <2>3 DEF CallCreated
    <3>2. leg[s] \in Leg  BY <1>2
    <3>3. leg'[s].st = "ringing" /\ leg'[s].resp = leg[s].resp  BY <1>2, <3>1, <3>2 DEF Leg
    <3> QED BY <2>1, <2>3, <3>3 DEF Placed
  <2> QED BY <2>2, <2>3
<1>4. /\ activeCalls[s] # 0 => Placed(leg[s]) /\ ~leg[s].resp
      /\ LiveLeg(s) => \/ activeCalls[s] # 0 \/ leg[s].resp
                       \/ s \in hangups \cup Skipped
                       \/ "restFail" \in Hazards /\ leg[s].amd = "done"
      /\ s \in bridging => leg[s].st \in {"held", "ended"} /\ leg[s].amd = "done"
      /\ leg[s].amd = "off" => ~leg[s].resp
  BY CallTypesNow DEF CallsInv, TrackedPlaced, LiveTracked, BridgesWait, OffAnswered, Detected
<1>5. CASE leg'[s] = leg[s]
  BY <1>1, <1>3, <1>4, <1>5 DEF TrackMoves, LiveLeg
<1>6. ASSUME NEW r \in Leg, r = leg'[s], Turned(s, r)  PROVE Goal
  <2>1. /\ Placed(r) /\ leg[s].st # "unused"
        /\ leg[s].st = "ended" => r.st = "ended"
        /\ leg[s].amd = "done" => r.amd = "done"
        /\ r.amd = "off" <=> leg[s].amd = "off"
        /\ leg[s].st = "held" /\ leg[s].amd = "done" => r.st \in {"held", "ended"} \/ BridgeLands(s)
        /\ r.resp => leg[s].resp \/ SlowCreate(s)
        /\ OnItsWay(leg[s]) => r.resp \/ CallCreated(s)
    BY <1>6 DEF Turned
  <2>2. activeCalls[s] # 0 /\ r.resp => FALSE
    BY <1>4, <2>1 DEF SlowCreate, Placed
  <2>3. activeCalls'[s] # 0 => Placed(leg'[s]) /\ ~leg'[s].resp
    BY <1>1, <1>3, <1>6, <2>1, <2>2 DEF TrackMoves
  <2>4. r.amd = "off" => ~r.resp
    <3>1. SlowCreate(s) => "slowCreate" \in Hazards /\ leg[s].st = "placing"
      BY DEF SlowCreate
    <3>2. leg[s].amd = "off" /\ leg[s].st = "placing" => "slowCreate" \notin Hazards
      BY <1>2 DEF Fit, Orderly
    <3> QED BY <1>4, <2>1, <3>1, <3>2
  <2>5. LiveLeg(s)' => \/ activeCalls'[s] # 0 \/ r.resp
                       \/ s \in hangups' \cup Skipped'
                       \/ "restFail" \in Hazards /\ r.amd = "done"
    <3>1. CASE OnItsWay(leg[s])  BY <1>3, <2>1, <3>1
    <3>2. CASE ~OnItsWay(leg[s]) /\ leg[s].st # "ended"
      <4>1. \/ activeCalls[s] # 0 \/ s \in hangups \cup Skipped
            \/ "restFail" \in Hazards /\ leg[s].amd = "done"
        BY <1>4, <2>1, <3>2 DEF OnItsWay, LiveLeg
      <4> QED BY <1>1, <2>1, <3>2, <4>1 DEF TrackMoves
    <3>3. CASE leg[s].st = "ended"  BY <1>6, <2>1, <3>3 DEF LiveLeg
    <3> QED BY <3>1, <3>2, <3>3
  <2>6. s \in bridging' => r.st \in {"held", "ended"}
    BY <1>1, <1>4, <1>6, <2>1 DEF TrackMoves
  <2> QED BY <1>6, <2>3, <2>4, <2>5, <2>6
<1>7. ASSUME leg'[s].st \in {"unused", "placing"}, ~leg'[s].resp,
             leg[s].st \in {"unused", "placing"} \/ Reuse(s)
      PROVE  Goal
  <2>1. ~LiveLeg(s)'  BY <1>7 DEF LiveLeg
  <2>2. activeCalls[s] = 0 /\ s \notin bridging
    BY <1>4, <1>7 DEF Reuse, Spent, Placed
  <2> QED BY <1>1, <1>3, <1>7, <2>1, <2>2 DEF TrackMoves, Placed
<1>8. ASSUME NEW t \in Sids, NEW r \in Leg, leg' = [leg EXCEPT ![t] = r],
             Turned(t, r) \/ Begun(t, r) \/ Dropped(t, r)
      PROVE  Goal
  <2>1. CASE t # s
    <3>1. leg'[s] = leg[s]  BY <1>2, <1>8, <2>1
    <3> QED BY <1>5, <3>1
  <2>2. CASE t = s
    <3>1. r = leg'[s]  BY <1>2, <1>8, <2>2
    <3>2. CASE Turned(s, r)  BY <1>6, <3>1, <3>2
    <3>3. CASE Begun(s, r)
      <4>1. r.st = "placing" /\ ~r.resp /\ leg[s].st = "unused"  BY <3>3 DEF Begun, NoLeg
      <4> QED BY <1>7, <3>1, <4>1
    <3>4. CASE Dropped(s, r)
      <4>1. r.st = "unused" /\ ~r.resp /\ (Reuse(s) \/ leg[s].st = "placing")
        BY <3>4 DEF Dropped, NoLeg
      <4> QED BY <1>7, <3>1, <4>1
    <3> QED BY <1>8, <2>2, <3>2, <3>3, <3>4
  <2> QED BY <2>1, <2>2
<1> QED BY <1>1, <1>5, <1>8 DEF LegTurn

LEMMA CallsNextStep == ASSUME CallsInv, Orderly, [Next]_vars PROVE CallsInv' /\ LegTurn /\ TrackMoves
<1>1. OverInv' /\ LegTurn  BY OverNext DEF CallsInv
<1>2. Fresh'  BY FreshNext DEF CallsInv, OverInv, Orderly
<1>3. Idle'  BY PumpQuiet DEF CallsInv, OverInv, Orderly
<1>4. VoiceLive'  BY <1>1, VoiceKept DEF CallsInv, OverInv, Orderly
<1>5. TrackedPlaced' /\ LiveTracked' /\ BridgesWait' /\ OffAnswered'
  <2>1. bridging' \subseteq Sids
    BY <1>1 DEF OverInv, LegInv, TypeInv, TypeOK, JobTypes
  <2> QED BY <2>1, CallsStep DEF TrackedPlaced, LiveTracked, BridgesWait, OffAnswered
<1> QED BY <1>1, <1>2, <1>3, <1>4, <1>5, TrackNext DEF CallsInv

-----------------------------------------------------------------------------
(* Where the cards of one session are: queued, dequeued, on a call the       *)
(* service is engaged in, waiting for a redial, or in the database on the    *)
(* way back to the queue.                                                   *)

TimerLeads == {t.lead : t \in redialTimers}
RequeueLeads == {r.lead : r \in requeues}

Apart ==
    /\ Queued(userQueue) \cap (Batched \cup Calling \cup TimerLeads \cup RequeueLeads) = {}
    /\ Batched \cap (Calling \cup TimerLeads \cup RequeueLeads) = {}
    /\ Calling \cap (TimerLeads \cup RequeueLeads) = {}
    /\ TimerLeads \cap RequeueLeads = {}

Distinct(b) == \A i, k \in DOMAIN b : b[i].lead = b[k].lead => i = k

Once ==
    /\ Distinct(pump.batch)
    /\ \A s, t \in Sids : Engaged(s) /\ Engaged(t) /\ leg[s].lead = leg[t].lead => s = t
    /\ \A t, u \in redialTimers : t.lead = u.lead => t = u
    /\ \A r, u \in requeues : r.lead = u.lead => r = u

\* A scheduled redial can be cancelled and is guarded; a removed contact has
\* no guard.
Guarded ==
    /\ \A t \in redialTimers : t.cancelable /\ t.lead \in pendingRedials
    /\ \A l \in pendingRedials : ContactOf[l] \notin removedContacts

\* Nothing but call s and perhaps a scheduled redial has the card of call s.
Alone(s) ==
    /\ leg[s].lead \notin Queued(userQueue) \cup Batched \cup RequeueLeads
    /\ \A t \in Sids : Engaged(t) /\ leg[t].lead = leg[s].lead => t = s

\* While a final report that can still schedule a redial is in the database,
\* its card is nowhere else.
Late == \A j \in finishing : j.obj # 0 => Alone(j.sid) /\ ~leg[j.sid].resp

CardsInv == CallsInv /\ Apart /\ Once /\ Guarded /\ Late

\* The service gets engaged in a call by dialing it, and only so.
LEMMA EngagedMoves ==
    ASSUME CallsInv, Orderly, [Next]_vars, NEW s \in Sids, Engaged(s)'
    PROVE  \/ Engaged(s) /\ leg'[s].lead = leg[s].lead /\ leg'[s].att = leg[s].att
           \/ leg[s].st = "unused" /\ (PumpTakesBatch \/ PumpFires)
<1>1. LegTurn /\ TrackMoves /\ CallsInv'  BY CallsNextStep
<1>2. leg \in [Sids -> Leg] /\ Fit(leg[s])  BY CallTypesNow
<1>3. activeCalls'[s] # 0 => Placed(leg'[s])  BY <1>1 DEF CallsInv, TrackedPlaced
<1>4. activeCalls'[s] # 0 => Engaged(s)
  BY <1>1 DEF TrackMoves, CallCreated, Engaged
<1>5. Placed(leg[s]) /\ leg[s].st # "ended" => Engaged(s)  BY DEF Engaged, Placed
<1>6. CASE leg'[s] = leg[s]  BY <1>4, <1>6 DEF Engaged
<1>7. ASSUME NEW r \in Leg, r = leg'[s], Turned(s, r) PROVE Engaged(s) /\ r.lead = leg[s].lead /\ r.att = leg[s].att
  <2>1. r.lead = leg[s].lead /\ r.att = leg[s].att /\ leg[s].st # "unused"
        /\ (leg[s].st = "ended" => r.st = "ended")
        /\ (r.resp => leg[s].resp \/ SlowCreate(s))
    BY <1>7 DEF Turned
  <2>2. SlowCreate(s) => leg[s].st = "placing"  BY DEF SlowCreate
  <2> QED BY <1>4, <1>7, <2>1, <2>2 DEF Engaged
<1>8. ASSUME NEW t \in Sids, NEW r \in Leg, leg' = [leg EXCEPT ![t] = r],
             Turned(t, r) \/ Begun(t, r) \/ Dropped(t, r)
      PROVE  \/ Engaged(s) /\ leg'[s].lead = leg[s].lead /\ leg'[s].att = leg[s].att
             \/ leg[s].st = "unused" /\ (PumpTakesBatch \/ PumpFires)
  <2>1. CASE t # s
    <3>1. leg'[s] = leg[s]  BY <1>2, <1>8, <2>1
    <3> QED BY <1>6, <3>1
  <2>2. CASE t = s
    <3>1. r = leg'[s]  BY <1>2, <1>8, <2>2
    <3>2. ~Dropped(s, r)
      <4>1. Dropped(s, r) => r.st = "unused" /\ ~r.resp  BY DEF Dropped, NoLeg
      <4> QED BY <1>3, <3>1, <4>1 DEF Engaged, Placed
    <3>3. CASE Turned(s, r)  BY <1>7, <3>1, <3>3
    <3>4. CASE Begun(s, r)  BY <3>4 DEF Begun
    <3> QED BY <1>8, <2>2, <3>2, <3>3, <3>4
  <2> QED BY <2>1, <2>2
<1> QED BY <1>1, <1>6, <1>8 DEF LegTurn

\* An ended call keeps its card until its slot is spent.
LEMMA EndedKeeps ==
    ASSUME CallsInv, LegTurn, NEW s \in Sids, leg[s].st = "ended", ~Reuse(s)
    PROVE  /\ leg'[s].lead = leg[s].lead /\ leg'[s].att = leg[s].att
           /\ leg'[s].st = "ended" /\ (leg'[s].resp => leg[s].resp)
           /\ leg'[s].amd = "machine" => leg[s].amd = "machine"
           /\ leg[s].amd = "pending" => leg'[s].amd = "pending"
           /\ leg[s].amd = "done" => leg'[s].amd = "done"
           /\ leg'[s].amd = "off" <=> leg[s].amd = "off"
<1>1. leg \in [Sids -> Leg]  BY CallTypesNow
<1>2. ASSUME NEW t \in Sids, NEW r \in Leg, leg' = [leg EXCEPT ![t] = r],
             Turned(t, r) \/ Begun(t, r) \/ Dropped(t, r), t = s
      PROVE  Turned(s, r) /\ leg'[s] = r /\ ~SlowCreate(s)
  <2>1. ~Begun(s, r) /\ ~Dropped(s, r)  BY DEF Begun, Dropped
  <2> QED BY <1>1, <1>2, <2>1 DEF SlowCreate
<1>3. leg'[s] = leg[s] \/ \E r \in Leg : Turned(s, r) /\ leg'[s] = r /\ ~SlowCreate(s)
  BY <1>1, <1>2 DEF LegTurn
<1>4. ASSUME NEW r \in Leg, Turned(s, r), leg'[s] = r, ~SlowCreate(s)
      PROVE  /\ r.lead = leg[s].lead /\ r.att = leg[s].att
             /\ r.st = "ended" /\ (r.resp => leg[s].resp)
             /\ r.amd = "machine" => leg[s].amd = "machine"
             /\ leg[s].amd = "pending" => r.amd = "pending"
             /\ leg[s].amd = "done" => r.amd = "done"
             /\ r.amd = "off" <=> leg[s].amd = "off"
  BY <1>4 DEF Turned
<1> QED BY <1>3, <1>4

\* Where the cards of each place come from.
CardsFlow ==
    /\ Queued(userQueue') \subseteq Queued(userQueue) \cup RequeueLeads
    /\ Batched' \subseteq Batched \cup Queued(userQueue)
    /\ RequeueLeads' \subseteq RequeueLeads \/ (finishing = {} /\ RequeueLeads' \subseteq RequeueLeads \cup TimerLeads)
    /\ \A s \in Sids : Engaged(s)' =>
          \/ Engaged(s) /\ leg'[s].lead = leg[s].lead
          \/ leg'[s].lead \in Queued(userQueue) \cup Batched

LEMMA AloneStays ==
    ASSUME CardsFlow, NEW s \in Sids, Alone(s), leg'[s].lead = leg[s].lead,
           RequeueLeads' \subseteq RequeueLeads \/ leg[s].lead \notin TimerLeads
    PROVE  Alone(s)'
<1>1. leg[s].lead \notin Queued(userQueue') \cup Batched' \cup RequeueLeads'
  BY DEF CardsFlow, Alone
<1>2. \A t \in Sids : Engaged(t)' /\ leg'[t].lead = leg[s].lead => t = s
  BY DEF CardsFlow, Alone
<1> QED BY <1>1, <1>2 DEF Alone

CardsMove == Apart' /\ Once' /\ Guarded' /\ CardsFlow

\* A step that takes no card anywhere.
Shrinks ==
    /\ Queued(userQueue') \subseteq Queued(userQueue)
    /\ pump'.batch = pump.batch
    /\ redialTimers' \subseteq redialTimers /\ requeues' \subseteq requeues
    /\ \A s \in Sids : Engaged(s)' => Engaged(s) /\ leg'[s].lead = leg[s].lead

LEMMA ShrinkKeeps == ASSUME Apart, Once, Shrinks PROVE Apart' /\ Once' /\ CardsFlow
<1>1. /\ Batched' = Batched /\ Calling' \subseteq Calling
      /\ TimerLeads' \subseteq TimerLeads /\ RequeueLeads' \subseteq RequeueLeads
  BY DEF Shrinks, Batched, Calling, TimerLeads, RequeueLeads
<1>2. Apart'  BY <1>1 DEF Apart, Shrinks
<1>3. Once'  BY DEF Once, Shrinks, Distinct
<1>4. CardsFlow  BY <1>1 DEF CardsFlow, Shrinks
<1> QED BY <1>2, <1>3, <1>4

\* ... and drops the guard of no scheduled redial.
GuardKeeps ==
    /\ redialTimers' \subseteq redialTimers /\ pendingRedials' \subseteq pendingRedials
    /\ \A t \in redialTimers' : t.lead \in pendingRedials'
    /\ \A l \in pendingRedials' : ContactOf[l] \notin removedContacts'

LEMMA GuardShrinks == ASSUME CardsInv, Shrinks, GuardKeeps PROVE CardsMove
<1>1. Guarded'  BY DEF CardsInv, Guarded, GuardKeeps
<1> QED BY <1>1, ShrinkKeeps DEF CardsInv, CardsMove

LEMMA QuietCards ==
    ASSUME CardsInv, Orderly, [Next]_vars, pump'.batch = pump.batch,
           UNCHANGED <<userQueue, redialTimers, requeues, removedContacts>>,
           \/ UNCHANGED pendingRedials
           \/ \E l \in Calling : pendingRedials' = pendingRedials \ {l},
           ~PumpTakesBatch, ~PumpFires
    PROVE  CardsMove
<1>1. Shrinks  BY EngagedMoves DEF Shrinks, CardsInv
<1>2. \A l \in Calling : l \notin TimerLeads  BY DEF CardsInv, Apart
<1>3. GuardKeeps  BY <1>2 DEF GuardKeeps, CardsInv, Guarded, TimerLeads
<1> QED BY <1>1, <1>3, GuardShrinks

-----------------------------------------------------------------------------
(* What each step does to the cards. *)

LEMMA RemovedFrom ==
    ASSUME NEW q \in [Leads -> Attempts], NEW P
    PROVE  Queued(RemoveWhere(q, P)) = Queued(q) \ P
  BY DEF Queued, RemoveWhere

LEMMA PurgeCards ==
    ASSUME CardsInv, Orderly, [Next]_vars, NEW c \in Contacts, PurgeContact(c)
    PROVE  CardsMove
<1>1. Queued(userQueue') \subseteq Queued(userQueue)
  BY RemovedFrom, CallTypesNow DEF PurgeContact, CardsInv
<1>2. \A s \in Sids : Engaged(s)' => Engaged(s) /\ leg'[s].lead = leg[s].lead
  BY DEF PurgeContact, Engaged
<1>3. Shrinks
  BY <1>1, <1>2 DEF Shrinks, PurgeContact, CancelPendingRedials
<1>4. GuardKeeps
  BY CallTypesNow
  DEF GuardKeeps, PurgeContact, CancelPendingRedials, CardsInv, Guarded, CardsOf
<1> QED BY <1>3, <1>4, GuardShrinks

LEMMA SkipCards ==
    ASSUME CardsInv, Orderly, [Next]_vars, NEW k \in skipping, SkipMachine(k)
    PROVE  CardsMove
<1> DEFINE l == leg[k.sid].lead
           ls == IF k.obj = 0 THEN {} ELSE {l}
<1>1. Queued(userQueue') \subseteq Queued(userQueue)
  BY RemovedFrom, CallTypesNow DEF SkipMachine, CardsInv
<1>2. \A s \in Sids : Engaged(s)' => Engaged(s) /\ leg'[s].lead = leg[s].lead
  BY DEF SkipMachine, Engaged
<1>3. CancelPendingRedials(ls) /\ UNCHANGED <<requeues, removedContacts>>
  BY DEF SkipMachine
<1>4. pump'.batch = pump.batch
  BY PumpedKeeps DEF SkipMachine, CardsInv, CallsInv
<1> HIDE DEF ls
<1>5. Shrinks  BY <1>1, <1>2, <1>3, <1>4 DEF Shrinks, CancelPendingRedials
<1>6. GuardKeeps
  BY <1>3 DEF GuardKeeps, CancelPendingRedials, CardsInv, Guarded
<1> QED BY <1>5, <1>6, GuardShrinks

LEMMA TrimmedCards ==
    ASSUME CardsInv, Orderly, [Next]_vars, NEW l \in Leads, TrimCards(l)
    PROVE  CardsMove
<1>1. Queued(userQueue') \subseteq Queued(userQueue)
  BY RemovedFrom, CallTypesNow DEF TrimCards, CardsInv
<1>2. \A s \in Sids : Engaged(s)' => Engaged(s) /\ leg'[s].lead = leg[s].lead
  BY DEF TrimCards, Engaged
<1>3. Shrinks  BY <1>1, <1>2 DEF Shrinks, TrimCards
<1>4. GuardKeeps  BY DEF GuardKeeps, TrimCards, CardsInv, Guarded
<1> QED BY <1>3, <1>4, GuardShrinks

LEMMA RedialingCards ==
    ASSUME CardsInv, Orderly, [Next]_vars, Redialing
    PROVE  CardsMove
<1>1. \A s \in Sids : Engaged(s)' => Engaged(s) /\ leg'[s].lead = leg[s].lead
  BY DEF Redialing, RedialTimerFires, RequeueDropped, RequeueEnters, RequeueThrows, Engaged
<1>2. Calling' = Calling
  BY DEF Redialing, RedialTimerFires, RequeueDropped, RequeueEnters, RequeueThrows, Engaged,
         Calling
<1>3. CASE \E r \in requeues : RequeueDropped(r) \/ RequeueThrows(r)
  <2>1. Shrinks  BY <1>1, <1>3 DEF RequeueDropped, RequeueThrows, Shrinks
  <2>2. GuardKeeps
    BY <1>3 DEF RequeueDropped, RequeueThrows, GuardKeeps, CardsInv, Guarded, Apart,
                TimerLeads, RequeueLeads
  <2> QED BY <2>1, <2>2, GuardShrinks
<1>4. ASSUME NEW r \in requeues, RequeueEnters(r)  PROVE CardsMove
  <2>1. userQueue' = Enqueue(userQueue, r.lead, r.att)
        /\ UNCHANGED <<pendingRedials, redialTimers, removedContacts>>
        /\ requeues' = requeues \ {r}
    BY <1>4 DEF RequeueEnters
  <2>2. Queued(userQueue') \subseteq Queued(userQueue) \cup {r.lead}
    BY <2>1, CallTypesNow DEF Enqueue, Queued, CardsInv
  <2>3. r.lead \in RequeueLeads /\ r.lead \notin RequeueLeads' /\ RequeueLeads' \subseteq RequeueLeads
    BY <2>1 DEF RequeueLeads, CardsInv, Once
  <2>4. pump'.batch = pump.batch /\ Batched' = Batched
    BY <1>4, PumpedKeeps DEF RequeueEnters, CardsInv, CallsInv, Batched
  <2>5. TimerLeads' = TimerLeads  BY <2>1 DEF TimerLeads
  <2>6. Apart'  BY <1>2, <2>2, <2>3, <2>4, <2>5 DEF CardsInv, Apart
  <2>7. Once'  BY <1>1, <2>1, <2>4 DEF CardsInv, Once, Distinct
  <2>8. Guarded'  BY <2>1 DEF CardsInv, Guarded
  <2>9. CardsFlow  BY <1>1, <2>2, <2>3, <2>4 DEF CardsFlow
  <2> QED BY <2>6, <2>7, <2>8, <2>9 DEF CardsMove
<1>5. ASSUME NEW t \in redialTimers, RedialTimerFires(t)  PROVE CardsMove
  <2> DEFINE r == [lead |-> t.lead, att |-> t.att, known |-> t.known]
  <2>1. redialTimers' = {IF u.lead = t.lead THEN [u EXCEPT !.cancelable = FALSE] ELSE u :
                           u \in redialTimers \ {t}}
        /\ requeues' = requeues \cup {r} /\ r.lead = t.lead /\ finishing = {}
        /\ UNCHANGED <<userQueue, pump, pendingRedials, removedContacts>>
    BY <1>5 DEF RedialTimerFires
  <2>2. redialTimers' = redialTimers \ {t}
    BY <2>1 DEF CardsInv, Once
  <2> HIDE DEF r
  <2>3. TimerLeads' = TimerLeads \ {t.lead} /\ t.lead \in TimerLeads
    BY <2>2 DEF TimerLeads, CardsInv, Once
  <2>4. RequeueLeads' = RequeueLeads \cup {t.lead}
    BY <2>1 DEF RequeueLeads
  <2>5. Batched' = Batched /\ Queued(userQueue') = Queued(userQueue)
    BY <2>1 DEF Batched
  <2>6. Apart'  BY <1>2, <2>3, <2>4, <2>5 DEF CardsInv, Apart
  <2>7. \A a, b \in requeues' : a.lead = b.lead => a = b
    <3>1. \A a \in requeues : a.lead # t.lead
      BY <2>3 DEF CardsInv, Apart, RequeueLeads
    <3> QED BY <2>1, <3>1 DEF CardsInv, Once
  <2>8. Once'  BY <1>1, <2>1, <2>2, <2>7 DEF CardsInv, Once, Distinct
  <2>9. Guarded'  BY <2>1, <2>2 DEF CardsInv, Guarded
  <2>10. CardsFlow  BY <1>1, <2>1, <2>3, <2>4, <2>5 DEF CardsFlow
  <2> QED BY <2>6, <2>8, <2>9, <2>10 DEF CardsMove
<1> QED BY <1>3, <1>4, <1>5 DEF Redialing

\* A report leaves the database: nothing but its own call, which is forgotten,
\* can have the card it schedules a redial for.
LEMMA FinishCards ==
    ASSUME CardsInv, Orderly, [Next]_vars, NEW j \in finishing, FinishStatus(j)
    PROVE  CardsMove
<1> DEFINE s == j.sid
           l == leg[s].lead
<1>1. s \in Sids /\ leg[s].st = "ended"  BY CallTypesNow DEF CardsInv
<1>2. activeCalls' = [activeCalls EXCEPT ![s] = 0]
      /\ UNCHANGED <<userQueue, requeues, removedContacts, leg>>
  BY DEF FinishStatus, TerminalStatus
<1>3. \A t \in Sids : Engaged(t)' => Engaged(t) /\ leg'[t].lead = leg[t].lead
  BY <1>2, CallTypesNow DEF Engaged, CardsInv
<1>4. pump'.batch = pump.batch
  BY PumpedKeeps DEF FinishStatus, TerminalStatus, CardsInv, CallsInv
<1>5. CASE redialTimers' = redialTimers
           /\ pendingRedials' \in {pendingRedials, pendingRedials \ {l}}
           /\ (pendingRedials' # pendingRedials => ContactOf[l] \in removedContacts)
  <2>1. Shrinks  BY <1>2, <1>3, <1>4, <1>5 DEF Shrinks
  <2>2. GuardKeeps
    BY <1>2, <1>5 DEF GuardKeeps, CardsInv, Guarded
  <2> QED BY <2>1, <2>2, GuardShrinks
<1>6. ASSUME NEW att, NEW known, j.obj # 0,
             ContactOf[l] \notin removedContacts, l \notin pendingRedials,
             pendingRedials' = pendingRedials \cup {l},
             redialTimers' =
               {[t EXCEPT !.cancelable = @ /\ t.lead # l] : t \in redialTimers}
               \cup {[lead |-> l, att |-> att, known |-> known, cancelable |-> TRUE]}
      PROVE  CardsMove
  <2> DEFINE new == [lead |-> l, att |-> att, known |-> known, cancelable |-> TRUE]
  <2>1. \A t \in redialTimers : t.lead # l /\ t \in Timer /\ t.cancelable
    BY <1>6, CallTypesNow DEF CardsInv, Guarded
  <2>2. \A t \in redialTimers : [t EXCEPT !.cancelable = @ /\ t.lead # l] = t
    BY <2>1 DEF Timer
  <2>3. redialTimers' = redialTimers \cup {new} /\ new.lead = l /\ new.cancelable
    BY <1>6, <2>2
  <2> HIDE DEF new
  <2>4. Alone(s) /\ ~leg[s].resp  BY <1>6 DEF CardsInv, Late
  <2>5. ~Engaged(s)'
    BY <1>1, <1>2, <2>4, CallTypesNow DEF Engaged, CardsInv
  <2>6. Calling' \subseteq Calling /\ l \notin Calling'
    BY <1>2, <1>3, <2>4, <2>5 DEF Calling, Alone
  <2>7. TimerLeads' = TimerLeads \cup {l}  BY <2>3 DEF TimerLeads
  <2>8. /\ Batched' = Batched /\ Queued(userQueue') = Queued(userQueue)
        /\ RequeueLeads' = RequeueLeads
    BY <1>2, <1>4 DEF Batched, RequeueLeads
  <2>9. l \notin Queued(userQueue) \cup Batched \cup RequeueLeads
    BY <2>4 DEF Alone
  <2>10. Apart'  BY <2>6, <2>7, <2>8, <2>9 DEF CardsInv, Apart
  <2>11. Once'  BY <1>2, <1>3, <1>4, <2>1, <2>3 DEF CardsInv, Once, Distinct
  <2>12. Guarded'  BY <1>2, <1>6, <2>3 DEF CardsInv, Guarded
  <2>13. CardsFlow  BY <1>3, <2>8 DEF CardsFlow
  <2> QED BY <2>10, <2>11, <2>12, <2>13 DEF CardsMove
<1>7. ScheduleRedial(j)  BY DEF FinishStatus
<1>8. \/ UNCHANGED <<pendingRedials, redialTimers>>
      \/ j.obj # 0 /\ RequeueLeadForRedial(l, AttemptsOf(j) + 1, meta[j.sid][j.obj].known)
  BY <1>7 DEF ScheduleRedial, WantsRedial
<1>9. CASE UNCHANGED <<pendingRedials, redialTimers>>  BY <1>5, <1>9
<1>10. CASE j.obj # 0 /\ RequeueLeadForRedial(l, AttemptsOf(j) + 1, meta[j.sid][j.obj].known)
  <2>1. CASE ContactOf[l] \in removedContacts
    BY <1>5, <1>10, <2>1 DEF RequeueLeadForRedial
  <2>2. CASE ContactOf[l] \notin removedContacts /\ l \in pendingRedials
    BY <1>5, <1>10, <2>2 DEF RequeueLeadForRedial
  <2>3. CASE ContactOf[l] \notin removedContacts /\ l \notin pendingRedials
    BY <1>6, <1>10, <2>3 DEF RequeueLeadForRedial
  <2> QED BY <2>1, <2>2, <2>3
<1> QED BY <1>8, <1>9, <1>10

\* makeCall engages the service in one call more, for the card it is given.
LEMMA MakeCallEngages ==
    ASSUME CallsInv, NEW card \in Card, NEW f, MakeCall(card, f), UNCHANGED activeCalls
    PROVE  \/ UNCHANGED leg
           \/ \E s \in Sids : /\ ~Engaged(s) /\ leg'[s].lead = card.lead
                              /\ \A t \in Sids \ {s} : leg'[t] = leg[t]
<1>1. CASE ContactOf[card.lead] \in removedContacts
  BY <1>1 DEF MakeCall
<1>2. CASE ContactOf[card.lead] \notin removedContacts
  <2>1. PICK s \in Sids, mode \in AmdModes :
          /\ leg[s].st = "unused"
          /\ leg' = [leg EXCEPT ![s] =
               [NoLeg EXCEPT !.st = "placing", !.lead = card.lead, !.att = card.att,
                             !.amd = IF mode THEN "pending" ELSE "off"]]
    BY <1>2 DEF MakeCall
  <2>2. leg \in [Sids -> Leg] /\ Fit(leg[s])  BY CallTypesNow
  <2>3. leg'[s].lead = card.lead  BY <2>1, <2>2 DEF NoLeg
  <2>4. \A t \in Sids \ {s} : leg'[t] = leg[t]  BY <2>1, <2>2
  <2>5. ~Engaged(s)
    BY <2>1, <2>2 DEF Engaged, Fit, Placed, CallsInv, TrackedPlaced
  <2> QED BY <2>3, <2>4, <2>5
<1> QED BY <1>1, <1>2

\* A card goes from the queue or the batch to a call, others from the queue to
\* the batch.
LEMMA DialKeeps ==
    ASSUME CardsInv, UNCHANGED <<redialTimers, requeues, pendingRedials, removedContacts>>,
           UNCHANGED activeCalls,
           Queued(userQueue') \subseteq Queued(userQueue),
           Batched' \subseteq Batched \cup Queued(userQueue),
           Batched' \cap Queued(userQueue') = {}, Distinct(pump'.batch),
           NEW l, l \in Batched \cup Queued(userQueue), l \notin Batched' \cup Queued(userQueue'),
           \/ UNCHANGED leg
           \/ \E s \in Sids : /\ ~Engaged(s) /\ leg'[s].lead = l
                              /\ \A t \in Sids \ {s} : leg'[t] = leg[t]
    PROVE  CardsMove
<1>1. ASSUME NEW s \in Sids, Engaged(s)'
      PROVE  (Engaged(s) /\ leg'[s].lead = leg[s].lead) \/ (~Engaged(s) /\ leg'[s].lead = l)
  BY <1>1 DEF Engaged
<1>2. Calling' \subseteq Calling \cup {l}  BY <1>1 DEF Calling
<1>3. TimerLeads' = TimerLeads /\ RequeueLeads' = RequeueLeads
  BY DEF TimerLeads, RequeueLeads
<1>4. l \notin TimerLeads \cup RequeueLeads \cup Calling  BY DEF CardsInv, Apart
<1>5. Apart'  BY <1>2, <1>3, <1>4 DEF CardsInv, Apart
<1>6. ASSUME NEW s \in Sids, NEW t \in Sids, Engaged(s)', Engaged(t)', leg'[s].lead = leg'[t].lead
      PROVE  s = t
  <2>1. CASE Engaged(s) /\ Engaged(t)
    BY <1>1, <1>6, <2>1 DEF CardsInv, Once
  <2>2. CASE ~Engaged(s) /\ ~Engaged(t)
    BY <1>6, <2>2 DEF Engaged
  <2>3. ASSUME NEW a \in Sids, NEW b \in Sids, Engaged(a), ~Engaged(b), Engaged(a)', Engaged(b)',
               leg'[a].lead = leg'[b].lead
        PROVE  FALSE
    <3>1. leg'[a].lead = leg[a].lead /\ leg'[b].lead = l  BY <1>1, <2>3
    <3>2. leg[a].lead \in Calling  BY <2>3 DEF Calling
    <3> QED BY <1>4, <2>3, <3>1, <3>2
  <2> QED BY <1>6, <2>1, <2>2, <2>3
<1>7. Once'  BY <1>6 DEF CardsInv, Once
<1>8. Guarded'  BY DEF CardsInv, Guarded
<1>9. CardsFlow  BY <1>1, <1>3 DEF CardsFlow
<1> QED BY <1>5, <1>7, <1>8, <1>9 DEF CardsMove

LEMMA PumpCards ==
    ASSUME CardsInv, Orderly, [Next]_vars, PumpTakesBatch \/ PumpFires
    PROVE  CardsMove
<1>1. /\ pump.batch \in Seq(Card) /\ ~stopped /\ TypeInv
      /\ pump.stage # "firing" => pump.batch = <<>>
      /\ userQueue \in [Leads -> Attempts]
  BY CallTypesNow DEF CardsInv, CallsInv, Idle, OverInv, LegInv
<1>2. UNCHANGED <<redialTimers, requeues, pendingRedials, removedContacts>> /\ UNCHANGED activeCalls
  BY DEF PumpTakesBatch, PumpFires
<1>3. CASE PumpTakesBatch
  <2>1. PICK n \in Nat \ {0} : \E b \in [1 .. n -> Queued(userQueue)] :
          /\ \A i, k \in 1 .. n : i # k => b[i] # b[k]
          /\ Cards(b, n) \in Seq(Card) /\ Cards(b, n)[1] \in Card
          /\ userQueue' = RemoveWhere(userQueue, Taken(b, n))
          /\ MakeCall(Cards(b, n)[1], leadsInFlight \cup Taken(b, n))
          /\ pump' = [stage |-> "firing", batch |-> Tail(Cards(b, n))]
    BY <1>1, <1>3, TakenBatch
  <2>2. PICK b \in [1 .. n -> Queued(userQueue)] :
          /\ \A i, k \in 1 .. n : i # k => b[i] # b[k]
          /\ Cards(b, n) \in Seq(Card) /\ Cards(b, n)[1] \in Card
          /\ userQueue' = RemoveWhere(userQueue, Taken(b, n))
          /\ MakeCall(Cards(b, n)[1], leadsInFlight \cup Taken(b, n))
          /\ pump' = [stage |-> "firing", batch |-> Tail(Cards(b, n))]
    BY <2>1
  <2> DEFINE cards == Cards(b, n)
             l == cards[1].lead
  <2>3. /\ LeadsOf(cards) = Taken(b, n) /\ cards # <<>> /\ Head(cards) = cards[1]
        /\ DOMAIN cards = 1 .. n /\ \A i \in 1 .. n : cards[i].lead = b[i]
    <3>1. /\ LeadsOf(cards) = Taken(b, n) /\ cards # <<>> /\ Head(cards) = cards[1]
          /\ DOMAIN cards = 1 .. n
      BY <2>2, CardsLeads
    <3>2. \A i \in 1 .. n : cards[i].lead = b[i]  BY DEF Cards
    <3> QED BY <3>1, <3>2
  <2>4. /\ Taken(b, n) = {l} \cup LeadsOf(Tail(cards))
        /\ \A i \in DOMAIN Tail(cards) : i + 1 \in DOMAIN cards /\ Tail(cards)[i] = cards[i + 1]
    BY <2>2, <2>3, BatchSplits
  <2>5. Batched' = LeadsOf(Tail(cards)) /\ pump'.batch = Tail(cards)
    BY <2>2 DEF Batched, LeadsOf
  <2>6. Taken(b, n) \subseteq Queued(userQueue)  BY DEF Taken
  <2>7. Queued(userQueue') = Queued(userQueue) \ Taken(b, n)
    BY <1>1, <2>2, RemovedFrom
  <2>8. \A i \in DOMAIN Tail(cards) : i \in Nat \ {0}
    <3>1. Tail(cards) \in Seq(Card)  BY <2>2, <2>3
    <3> HIDE DEF cards
    <3> QED BY <3>1
  <2> HIDE DEF cards
  <2>9. l \notin LeadsOf(Tail(cards))
    <3>1. \A i \in DOMAIN Tail(cards) : Tail(cards)[i].lead = b[i + 1] /\ b[i + 1] # b[1] /\ l = b[1]
      BY <2>2, <2>3, <2>4, <2>8
    <3> QED BY <3>1 DEF LeadsOf
  <2>10. Distinct(pump'.batch)
    <3>1. \A i \in DOMAIN Tail(cards) : Tail(cards)[i].lead = b[i + 1] /\ i + 1 \in 1 .. n
      BY <2>3, <2>4
    <3>2. \A i, k \in DOMAIN Tail(cards) :
            Tail(cards)[i].lead = Tail(cards)[k].lead => i + 1 = k + 1
      BY <2>2, <3>1
    <3> QED BY <2>5, <2>8, <3>2 DEF Distinct
  <2>11. \/ UNCHANGED leg
         \/ \E s \in Sids : /\ ~Engaged(s) /\ leg'[s].lead = l
                            /\ \A t \in Sids \ {s} : leg'[t] = leg[t]
    BY <1>2, <2>2, MakeCallEngages DEF CardsInv, cards
  <2>12. l \in Queued(userQueue)  BY <2>4, <2>6
  <2> HIDE DEF l
  <2> QED BY <1>2, <2>4, <2>5, <2>6, <2>7, <2>9, <2>10, <2>11, <2>12, DialKeeps
<1>4. CASE PumpFires
  <2> DEFINE l == Head(pump.batch).lead
             rest == Tail(pump.batch)
  <2>1. MakeCall(Head(pump.batch), leadsInFlight) /\ pump.batch # <<>> /\ UNCHANGED userQueue
    BY <1>4 DEF PumpFires
  <2>2. pump'.batch = rest
    BY <1>4, CallTypesNow DEF PumpFires, CardsInv, CallsInv, OverInv, LegInv, TypeInv, TypeOK, QueueTypes
  <2>3. Batched = LeadsOf(pump.batch) /\ Batched' = LeadsOf(rest)
    BY <2>2 DEF Batched, LeadsOf
  <2>4. /\ Batched = {l} \cup Batched' /\ Head(pump.batch) \in Card
        /\ \A i \in DOMAIN rest : i + 1 \in DOMAIN pump.batch /\ rest[i] = pump.batch[i + 1]
    BY <1>1, <2>1, <2>3, BatchSplits
  <2>5. 1 \in DOMAIN pump.batch /\ pump.batch[1] = Head(pump.batch)
        /\ \A i \in DOMAIN rest : i \in Nat \ {0}
    BY <1>1, <2>1
  <2> HIDE DEF rest
  <2>6. Distinct(rest) /\ l \notin LeadsOf(rest)
    <3>1. Distinct(rest)  BY <2>4, <2>5 DEF CardsInv, Once, Distinct
    <3>2. \A i \in DOMAIN rest : rest[i].lead # l
      BY <2>4, <2>5 DEF CardsInv, Once, Distinct
    <3> QED BY <3>1, <3>2 DEF LeadsOf
  <2>7. \/ UNCHANGED leg
        \/ \E s \in Sids : /\ ~Engaged(s) /\ leg'[s].lead = l
                           /\ \A t \in Sids \ {s} : leg'[t] = leg[t]
    BY <1>2, <2>1, <2>4, MakeCallEngages DEF CardsInv
  <2>8. Batched \cap Queued(userQueue) = {}  BY DEF CardsInv, Apart
  <2> HIDE DEF l
  <2> QED BY <1>2, <2>1, <2>2, <2>3, <2>4, <2>6, <2>7, <2>8, DialKeeps
<1> QED BY <1>3, <1>4

LEMMA CardsStep == ASSUME CardsInv, Orderly, [Next]_vars, ~StartFills PROVE CardsMove
<1>1. CASE PumpTakesBatch \/ PumpFires  BY <1>1, PumpCards
<1>2. CASE Redialing  BY <1>2, RedialingCards
<1>3. CASE \/ \E c \in Contacts : PurgeContact(c)
           \/ \E k \in skipping : SkipMachine(k)
           \/ \E l \in Leads : TrimCards(l)
           \/ \E j \in finishing : FinishStatus(j)
  BY <1>3, PurgeCards, SkipCards, TrimmedCards, FinishCards
<1>4. ~StopDialing  BY DEF StopDialing, Orderly
<1>5. CASE /\ UNCHANGED <<userQueue, redialTimers, requeues, removedContacts>>
           /\ \/ UNCHANGED pendingRedials
              \/ \E s \in Sids : /\ leg[s].st = "placing" \/ leg[s].resp
                                 /\ pendingRedials' = pendingRedials \ {leg[s].lead}
           /\ ~PumpTakesBatch /\ ~PumpFires
  <2>1. pump'.batch = pump.batch
    BY <1>5, PumpQuiet DEF CardsInv, CallsInv, OverInv, Orderly
  <2>2. \A s \in Sids : leg[s].st = "placing" \/ leg[s].resp => leg[s].lead \in Calling
    BY DEF Calling, Engaged
  <2> QED BY <1>5, <2>1, <2>2, QuietCards
<1>6. CASE \E s \in Sids : CallCreated(s) \/ DialBlocked(s) \/ DialFrozen(s) \/ DialFails(s)
  BY <1>1, <1>5, <1>6 DEF CallCreated, DialBlocked, DialFrozen, DialFails
<1>7. \/ PumpTakesBatch \/ PumpFires \/ Redialing
      \/ \E c \in Contacts : PurgeContact(c)
      \/ \E k \in skipping : SkipMachine(k)
      \/ \E l \in Leads : TrimCards(l)
      \/ \E j \in finishing : FinishStatus(j)
      \/ \E s \in Sids : CallCreated(s) \/ DialBlocked(s) \/ DialFrozen(s) \/ DialFails(s)
      \/ UNCHANGED <<userQueue, redialTimers, requeues, removedContacts, pendingRedials>>
  BY <1>4
  DEF Next, Step, Dialing, PumpGivesUp, PumpEnds, SlowCreate,
      StatusWebhooks, CallProgress, AgentLegAnswered, AgentLegEnded, CallEnded,
      BridgeWebhooks, VoiceHolds, VoiceOverflows, VoiceBridges, HumanOverflows,
      HumanBridges, BridgeLands, BridgeFails, MachineDetected,
      Watchdog, WatchdogFetches, WatchdogSweeps, StaleLock, Session,
      StartBegins, StartSaved, StartAborts, AgentReady,
      Telephony, Answer, NotAnswered, AmdResult, AgentAnswers, AgentDoesNotAnswer,
      HangUp, DropAtOnce, HangupLands, PromptLost, FinalWebhooksLost, Reuse, vars
<1> QED BY <1>1, <1>2, <1>3, <1>5, <1>6, <1>7

\* The session begins with nothing on its way.
LEMMA StartCards == ASSUME CardsInv, CallsInv', StartFills PROVE CardsInv'
<1>1. Empty  BY DEF StartFills, CardsInv, CallsInv, Fresh, Unstarted
<1>2. /\ UNCHANGED <<redialTimers, requeues, pendingRedials, removedContacts, activeCalls, leg>>
      /\ UNCHANGED finishing
  BY DEF StartFills
<1>3. pump'.batch = <<>>
  BY <1>1 DEF StartFills, Pumped, Empty
<1>4. \A s \in Sids : ~Engaged(s)'
  BY <1>1, <1>2, CallTypesNow DEF Empty, Engaged, Fit, Placed, CardsInv, CallsInv, TrackedPlaced
<1>5. Batched' = {} /\ Calling' = {} /\ TimerLeads' = {} /\ RequeueLeads' = {}
  BY <1>1, <1>2, <1>3, <1>4 DEF Batched, Calling, TimerLeads, RequeueLeads, Empty
<1>6. Apart'  BY <1>5 DEF Apart
<1>7. Once'  BY <1>1, <1>2, <1>3, <1>4 DEF Once, Distinct, Empty
<1>8. Guarded'  BY <1>1, <1>2 DEF Guarded, Empty
<1>9. finishing' = {}
  BY <1>1, <1>2, CallTypesNow DEF Empty, CardsInv
<1> QED BY <1>6, <1>7, <1>8, <1>9 DEF CardsInv, Late

\* A report enters the database for the metadata object the service has.
LEMMA ReportsNew ==
    ASSUME [Next]_vars, NEW j \in finishing' \ finishing
    PROVE  j.obj = activeCalls[j.sid] /\ UNCHANGED <<activeCalls, leg, requeues>>
           /\ UNCHANGED <<userQueue, pump, redialTimers>>
<1>1. ASSUME NEW s \in Sids, NEW status, NEW child, StatusArrives(s, status, child)
      PROVE  j.obj = activeCalls[j.sid]
  BY <1>1 DEF StatusArrives, Report
<1>2. StatusWebhooks \/ \E s \in Sids : WatchdogFetches(s)
  BY DEF Next, Step, Dialing, PumpGivesUp, PumpTakesBatch, PumpFires, PumpEnds,
         SlowCreate, CallCreated, DialBlocked, DialFrozen, DialFails,
         BridgeWebhooks, VoiceHolds, VoiceOverflows, VoiceBridges, HumanOverflows,
         HumanBridges, BridgeLands, BridgeFails, MachineDetected, SkipMachine,
         Watchdog, WatchdogSweeps, StaleLock, Redialing,
         RedialTimerFires, RequeueDropped, RequeueEnters, RequeueThrows, Session,
         StartBegins, StartSaved, StartAborts, StartFills, StopDialing, AgentReady, PurgeContact,
         TrimCards, Telephony, Answer, NotAnswered, AmdResult, AgentAnswers,
         AgentDoesNotAnswer, HangUp, DropAtOnce, HangupLands, PromptLost,
         FinalWebhooksLost, Reuse, FinishStatus, vars
<1> QED BY <1>1, <1>2 DEF StatusWebhooks, CallProgress, AgentLegAnswered, AgentLegEnded,
                         CallEnded, WatchdogFetches

LEMMA EngagedAlone ==
    ASSUME Apart, Once, NEW s \in Sids, Engaged(s) PROVE Alone(s) /\ leg[s].lead \notin TimerLeads
<1>1. leg[s].lead \in Calling  BY DEF Calling
<1> QED BY <1>1 DEF Apart, Once, Alone

LEMMA LateKept ==
    ASSUME CardsInv, CallsInv', LegTurn, CardsMove, [Next]_vars PROVE Late'
<1> SUFFICES ASSUME NEW j \in finishing', j.obj # 0 PROVE Alone(j.sid)' /\ ~leg'[j.sid].resp
  BY DEF Late
<1>1. j.sid \in Sids
  BY DEF CallsInv, OverInv, LegInv, TypeInv, TypeOK, JobTypes, Finish
<1>2. CASE j \notin finishing
  <2>1. activeCalls'[j.sid] # 0 /\ UNCHANGED <<activeCalls, leg>>  BY <1>2, ReportsNew
  <2>2. Engaged(j.sid)'  BY <2>1 DEF Engaged
  <2>3. Apart' /\ Once'  BY DEF CardsMove
  <2>4. leg'[j.sid].lead \in Calling'  BY <1>1, <2>2 DEF Calling
  <2>5. Alone(j.sid)'  BY <1>1, <2>2, <2>3, <2>4 DEF Apart, Once, Alone
  <2>6. ~leg'[j.sid].resp  BY <1>1, <2>1 DEF CallsInv, TrackedPlaced
  <2> QED BY <2>5, <2>6
<1>3. CASE j \in finishing
  <2>1. leg[j.sid].st = "ended" /\ ~Reuse(j.sid) /\ Alone(j.sid) /\ ~leg[j.sid].resp
    BY <1>3, CallTypesNow DEF CardsInv, Late, Reuse, Spent
  <2>2. leg'[j.sid].lead = leg[j.sid].lead /\ (leg'[j.sid].resp => leg[j.sid].resp)
    BY <1>1, <2>1, EndedKeeps DEF CardsInv
  <2>3. CardsFlow /\ RequeueLeads' \subseteq RequeueLeads  BY <1>3 DEF CardsMove, CardsFlow
  <2> QED BY <1>1, <2>1, <2>2, <2>3, AloneStays
<1> QED BY <1>2, <1>3

LEMMA CardsInit == Init => CardsInv
<1> SUFFICES ASSUME Init PROVE CardsInv  OBVIOUS
<1>1. \A s \in Sids : ~Engaged(s)  BY DEF Init, Engaged, NoLeg
<1>2. /\ Queued(userQueue) = {} /\ pump.batch = <<>> /\ redialTimers = {} /\ requeues = {}
      /\ pendingRedials = {} /\ finishing = {}
  BY DEF Init, Queued
<1>3. Apart
  BY <1>1, <1>2 DEF Apart, Batched, Calling, TimerLeads, RequeueLeads
<1>4. Once /\ Guarded /\ Late  BY <1>1, <1>2 DEF Once, Distinct, Guarded, Late
<1> QED BY <1>3, <1>4, CallsInit DEF CardsInv

LEMMA CardsNext ==
    ASSUME CardsInv, Orderly, [Next]_vars
    PROVE  CardsInv' /\ LegTurn /\ TrackMoves /\ (StartFills \/ CardsMove)
<1>1. CallsInv' /\ LegTurn /\ TrackMoves  BY CallsNextStep DEF CardsInv
<1>2. CASE StartFills  BY <1>1, <1>2, StartCards
<1>3. CASE ~StartFills
  <2>1. CardsMove  BY <1>3, CardsStep
  <2>2. Late'  BY <1>1, <2>1, LateKept
  <2> QED BY <1>1, <2>1, <2>2 DEF CardsInv, CardsMove
<1> QED BY <1>2, <1>3

-----------------------------------------------------------------------------
(* A card is in one place. *)

\* At most one element of a set, which is then a singleton.
LEMMA AtMostOne ==
    ASSUME NEW S, \A x, y \in S : x = y
    PROVE  IsFiniteSet(S) /\ Cardinality(S) \in {0, 1} /\ (Cardinality(S) = 1 => \E x : x \in S)
<1>1. CASE S = {}  BY <1>1, FS_EmptySet
<1>2. CASE S # {}
  <2>1. PICK x \in S : S = {x}  BY <1>2
  <2> QED BY <2>1, FS_Singleton
<1> QED BY <1>1, <1>2

LEMMA OnePlace == CardsInv => OnePlacePerCard
<1> SUFFICES ASSUME CardsInv, NEW l \in Leads
             PROVE  (IF userQueue[l] # 0 THEN 1 ELSE 0)
                    + Cardinality({i \in DOMAIN pump.batch : pump.batch[i].lead = l})
                    + Cardinality({s \in Sids : leg[s].lead = l /\ leg[s].st # "ended"})
                    + Cardinality({t \in redialTimers : t.lead = l})
                    + Cardinality({r \in requeues : r.lead = l}) <= 1
  BY DEF OnePlacePerCard
<1> DEFINE B == {i \in DOMAIN pump.batch : pump.batch[i].lead = l}
           C == {s \in Sids : leg[s].lead = l /\ leg[s].st # "ended"}
           T == {t \in redialTimers : t.lead = l}
           R == {r \in requeues : r.lead = l}
<1>1. \A s \in C : Engaged(s)
  <2>1. \A s \in Sids : leg[s].st = "unused" => leg[s].lead = None
    BY CallTypesNow DEF CardsInv, Fit
  <2> QED BY <2>1, DialerAssumption DEF Engaged
<1>2. /\ B # {} => l \in Batched
      /\ C # {} => l \in Calling
      /\ T # {} => l \in TimerLeads
      /\ R # {} => l \in RequeueLeads
      /\ userQueue[l] # 0 => l \in Queued(userQueue)
  BY <1>1 DEF Batched, Calling, TimerLeads, RequeueLeads, Queued
<1>3. /\ \A x, y \in B : x = y
      /\ \A x, y \in C : x = y
      /\ \A x, y \in T : x = y
      /\ \A x, y \in R : x = y
  BY <1>1 DEF CardsInv, Once, Distinct
<1> HIDE DEF B, C, T, R
<1>4. /\ Cardinality(B) \in {0, 1} /\ (Cardinality(B) = 1 => B # {})
      /\ Cardinality(C) \in {0, 1} /\ (Cardinality(C) = 1 => C # {})
      /\ Cardinality(T) \in {0, 1} /\ (Cardinality(T) = 1 => T # {})
      /\ Cardinality(R) \in {0, 1} /\ (Cardinality(R) = 1 => R # {})
  BY <1>3, AtMostOne
<1>5. (IF userQueue[l] # 0 THEN 1 ELSE 0) + Cardinality(B) + Cardinality(C)
        + Cardinality(T) + Cardinality(R) <= 1
  BY <1>2, <1>4 DEF CardsInv, Apart
<1> QED BY <1>5 DEF B, C, T, R

\* A card is queued, dequeued, on a line or waiting for a redial, and only one
\* of these, however often its call's final webhooks are delivered and whether
\* the watchdog finds the call over before they do (handleCallStatusUpdate,
\* requeueLeadForRedial, reconcileUser).
THEOREM OnePlaceForACard == ASSUME Orderly PROVE Spec => []OnePlacePerCard
<1>1. CardsInv /\ [Next]_vars => CardsInv'  BY CardsNext
<1> QED BY CardsInit, <1>1, OnePlace, PTL DEF Spec

-----------------------------------------------------------------------------
(* What a call's past forbids: a redial is owed by a call that was put on     *)
(* hold for a busy agent or was not answered, and never by a machine.         *)

\* Each slot's leg stays, moves on, is taken or is given up.
LEMMA LegCases ==
    ASSUME CallsInv, LegTurn, NEW s \in Sids
    PROVE  \/ leg'[s] = leg[s]
           \/ Turned(s, leg'[s]) \/ Begun(s, leg'[s]) \/ Dropped(s, leg'[s])
<1>1. leg \in [Sids -> Leg]  BY CallTypesNow
<1>2. ASSUME NEW t \in Sids, NEW r \in Leg, leg' = [leg EXCEPT ![t] = r],
             Turned(t, r) \/ Begun(t, r) \/ Dropped(t, r)
      PROVE  \/ leg'[s] = leg[s]
             \/ Turned(s, leg'[s]) \/ Begun(s, leg'[s]) \/ Dropped(s, leg'[s])
  <2>1. CASE t # s
    <3>1. leg'[s] = leg[s]  BY <1>1, <1>2, <2>1
    <3> QED BY <3>1
  <2>2. CASE t = s
    <3>1. leg'[s] = r  BY <1>1, <1>2, <2>2
    <3> QED BY <1>2, <2>2, <3>1
  <2> QED BY <2>1, <2>2
<1> QED BY <1>2 DEF LegTurn

\* A call the AMD handler or a report still refers to keeps its slot and card.
LEMMA KeepsSlot ==
    ASSUME CallsInv, LegTurn, NEW s \in Sids, Placed(leg[s]), ~Reuse(s)
    PROVE  leg'[s] = leg[s] \/ Turned(s, leg'[s])
  BY LegCases DEF Begun, Dropped, Placed

CallbackPast ==
    \A s \in Sids, o \in 1 .. 2 :
        meta[s][o].status = "callback" => Past(leg[s]) /\ s \notin Skipped

NoAnswerEarly ==
    \A j \in finishing : j.status = "no-answer" /\ ~j.child
                            => leg[j.sid].amd \in {"off", "pending"}

Machines == {s \in Sids : leg[s].amd = "machine"} \cup Skipped

MachineAlone ==
    \A s \in Machines :
        /\ Alone(s) /\ leg[s].lead \notin TimerLeads
        /\ \A j \in finishing : j.obj # 0 /\ leg[j.sid].lead = leg[s].lead => j.sid = s

\* Attempts are counted from 1.
Counted == /\ \A t \in redialTimers : t.att # 0
           /\ \A r \in requeues : r.att # 0

PastInv == CardsInv /\ CallbackPast /\ NoAnswerEarly /\ MachineAlone /\ Counted

LEMMA StatusNotCallback ==
    ASSUME CallsInv, NEW s \in Sids, NEW o \in 1 .. 2, NEW c \in Sids, NEW status, NEW child \in BOOLEAN,
           StatusArrives(c, status, child), meta'[s][o].status = "callback"
    PROVE  meta[s][o].status = "callback"
<1> DEFINE obj == activeCalls[c]
           old == meta[c][obj]
           kept == old.status = "callback" /\ status = "answered"
           new == [old EXCEPT !.status = IF kept THEN @
                                         ELSE IF status \in Terminal THEN status ELSE "live",
                              !.connected = @ \/ (child /\ status = "answered")]
<1>1. obj \in 0 .. 2 /\ meta \in [Sids -> [1 .. 2 -> Meta]]  BY CallTypesNow
<1>2. CASE obj = 0  BY <1>2 DEF StatusArrives
<1>3. CASE obj # 0 /\ (c # s \/ o # obj)
  BY <1>1, <1>3 DEF StatusArrives
<1>4. CASE obj # 0 /\ c = s /\ o = obj
  <2>1. old \in Meta  BY <1>1, <1>4
  <2>2. meta' = [meta EXCEPT ![c][obj] = new]  BY <1>4 DEF StatusArrives
  <2>3. new.status = IF kept THEN old.status ELSE IF status \in Terminal THEN status ELSE "live"
    BY <2>1 DEF Meta
  <2> HIDE DEF new
  <2>4. meta'[s][o] = new  BY <1>1, <1>4, <2>2
  <2> HIDE DEF old
  <2> QED BY <1>4, <2>3, <2>4 DEF Terminal, old
<1> QED BY <1>2, <1>3, <1>4

\* A call becomes a callback only when it overflows.
LEMMA CallbackNew ==
    ASSUME CallsInv, [Next]_vars, NEW s \in Sids, NEW o \in 1 .. 2, meta'[s][o].status = "callback"
    PROVE  /\ ~Reuse(s)
           /\ \/ meta[s][o].status = "callback"
              \/ o = activeCalls[s] /\ (VoiceOverflows(s) \/ HumanOverflows(s))
<1>1. meta \in [Sids -> [1 .. 2 -> Meta]] /\ activeCalls \in [Sids -> 0 .. 2]  BY CallTypesNow
<1>2. ~Reuse(s)
  <2>1. Reuse(s) => meta'[s][o] = NewMeta  BY <1>1 DEF Reuse
  <2> QED BY <2>1 DEF NewMeta
<1> DEFINE Goal == \/ meta[s][o].status = "callback"
                   \/ o = activeCalls[s] /\ (VoiceOverflows(s) \/ HumanOverflows(s))
<1>3. ASSUME StatusWebhooks \/ \E c \in Sids : WatchdogFetches(c)  PROVE Goal
  <2>1. PICK c \in Sids :
          \/ CallProgress(c, "ringing") \/ CallProgress(c, "answered")
          \/ AgentLegAnswered(c) \/ AgentLegEnded(c) \/ CallEnded(c) \/ WatchdogFetches(c)
    BY <1>3 DEF StatusWebhooks
  <2>2. \E status, child : child \in BOOLEAN /\ StatusArrives(c, status, child)
    BY <2>1 DEF CallProgress, AgentLegAnswered, AgentLegEnded, CallEnded, WatchdogFetches
  <2> QED BY <2>2, StatusNotCallback
<1>4. ASSUME UNCHANGED meta  PROVE Goal  BY <1>4
<1>5. ASSUME NEW c \in Sids, CallCreated(c)  PROVE Goal
  <2>1. meta' = [meta EXCEPT ![c][1] = NewMeta]  BY <1>5 DEF CallCreated
  <2>2. NewMeta.status = "live"  BY DEF NewMeta
  <2> HIDE DEF Goal
  <2> QED BY <1>1, <2>1, <2>2 DEF Goal
<1>6. ASSUME NEW c \in Sids, VoiceOverflows(c) \/ HumanOverflows(c) \/ MachineDetected(c)
      PROVE  Goal
  <2>1. CASE activeCalls[c] = 0
    BY <1>6, <2>1 DEF VoiceOverflows, HumanOverflows, MachineDetected, Mark
  <2>2. CASE c # s \/ o # activeCalls[c]
    BY <1>1, <1>6, <2>2 DEF VoiceOverflows, HumanOverflows, MachineDetected, Mark
  <2>3. CASE c = s /\ o = activeCalls[c] /\ MachineDetected(c)
    <3>1. meta' = [meta EXCEPT ![s][o].status = "machine"]
      BY <2>3 DEF MachineDetected, Mark
    <3>2. meta[s][o] \in Meta  BY <1>1
    <3> QED BY <1>1, <3>1, <3>2 DEF Meta
  <2>4. CASE c = s /\ o = activeCalls[c] /\ ~MachineDetected(c)
    BY <1>6, <2>4
  <2> QED BY <2>1, <2>2, <2>3, <2>4
<1>7. ASSUME NEW c \in Sids, VoiceBridges(c) \/ (HumanBridges(c) /\ activeCalls[c] # 0)
      PROVE  Goal
  <2>1. PICK r : r.status = "live" /\ meta' = [meta EXCEPT ![c][2] = r]
    <3> DEFINE r == [NewMeta EXCEPT !.known = activeCalls[c] # 0 /\ meta[c][activeCalls[c]].known]
    <3>1. r.status = "live"  BY DEF NewMeta
    <3>2. meta' = [meta EXCEPT ![c][2] = r]  BY <1>7 DEF VoiceBridges, HumanBridges, Bridged
    <3> QED BY <3>1, <3>2
  <2> QED BY <1>1, <2>1
<1>8. ASSUME NEW c \in Sids, Reuse(c)  PROVE Goal
  <2>1. c # s  BY <1>2, <1>8
  <2> QED BY <1>1, <1>8, <2>1 DEF Reuse
<1>9. \/ StatusWebhooks \/ (\E c \in Sids : WatchdogFetches(c)) \/ UNCHANGED meta
      \/ \E c \in Sids : \/ CallCreated(c) \/ VoiceOverflows(c) \/ HumanOverflows(c)
                         \/ MachineDetected(c) \/ VoiceBridges(c)
                         \/ (HumanBridges(c) /\ activeCalls[c] # 0) \/ Reuse(c)
  BY DEF Next, Step, Dialing, PumpGivesUp, PumpTakesBatch, PumpFires, PumpEnds,
         SlowCreate, DialBlocked, DialFrozen, DialFails,
         BridgeWebhooks, VoiceHolds, HumanBridges, BridgeLands, BridgeFails, SkipMachine,
         Watchdog, WatchdogSweeps, StaleLock, Redialing,
         RedialTimerFires, RequeueDropped, RequeueEnters, RequeueThrows, Session,
         StartBegins, StartSaved, StartAborts, StartFills, StopDialing, AgentReady, PurgeContact,
         TrimCards, Telephony, Answer, NotAnswered, AmdResult, AgentAnswers,
         AgentDoesNotAnswer, HangUp, DropAtOnce, HangupLands, PromptLost,
         FinalWebhooksLost, FinishStatus, vars
<1> HIDE DEF Goal
<1>10. Goal  BY <1>3, <1>4, <1>5, <1>6, <1>7, <1>8, <1>9
<1> QED BY <1>2, <1>10 DEF Goal

LEMMA SkippedNew ==
    ASSUME [Next]_vars, NEW s \in Skipped'
    PROVE  s \in Skipped \/ (s \in Sids /\ MachineDetected(s))
<1>1. CASE skipping' \subseteq skipping  BY <1>1 DEF Skipped
<1>2. ASSUME NEW c \in Sids, MachineDetected(c)
      PROVE  s \in Skipped \/ (s \in Sids /\ MachineDetected(s))
  <2> DEFINE k == [sid |-> c, obj |-> activeCalls[c]]
  <2>1. skipping' = skipping \cup {k} /\ k.sid = c  BY <1>2 DEF MachineDetected
  <2> HIDE DEF k
  <2> QED BY <1>2, <2>1 DEF Skipped
<1>3. skipping' \subseteq skipping \/ \E c \in Sids : MachineDetected(c)
  BY DEF Next, Step, Dialing, PumpGivesUp, PumpTakesBatch, PumpFires, PumpEnds,
         SlowCreate, CallCreated, DialBlocked, DialFrozen, DialFails,
         StatusWebhooks, CallProgress, AgentLegAnswered, AgentLegEnded, CallEnded,
         BridgeWebhooks, VoiceHolds, VoiceOverflows, VoiceBridges, HumanOverflows,
         HumanBridges, BridgeLands, BridgeFails, SkipMachine,
         Watchdog, WatchdogFetches, WatchdogSweeps, StaleLock, Redialing,
         RedialTimerFires, RequeueDropped, RequeueEnters, RequeueThrows, Session,
         StartBegins, StartSaved, StartAborts, StartFills, StopDialing, AgentReady, PurgeContact,
         TrimCards, Telephony, Answer, NotAnswered, AmdResult, AgentAnswers,
         AgentDoesNotAnswer, HangUp, DropAtOnce, HangupLands, PromptLost,
         FinalWebhooksLost, Reuse, FinishStatus, vars
<1> QED BY <1>1, <1>2, <1>3

LEMMA CallbackKept ==
    ASSUME PastInv, CardsInv', LegTurn, [Next]_vars PROVE CallbackPast'
<1> SUFFICES ASSUME NEW s \in Sids, NEW o \in 1 .. 2, meta'[s][o].status = "callback"
             PROVE  Past(leg'[s]) /\ s \notin Skipped'
  BY DEF CallbackPast
<1>1. CallsInv /\ CallsInv' /\ Fit(leg[s]) /\ Fit(leg'[s]) /\ leg \in [Sids -> Leg]
      /\ leg' \in [Sids -> Leg]
  BY CallTypesNow
  DEF PastInv, CardsInv, CallsInv, OverInv, LegInv, TypeInv, TypeOK, TwilioTypes
<1>2. ~Reuse(s)
      /\ (meta[s][o].status = "callback" \/ VoiceOverflows(s) \/ HumanOverflows(s))
  BY <1>1, CallbackNew
<1>3. \A t \in Skipped : leg[t].amd = "done"
  BY <1>1, CallTypesNow DEF Detected, Skipped
<1>4. MachineDetected(s) => leg[s].amd = "machine"  BY DEF MachineDetected
<1>5. CASE meta[s][o].status = "callback"
  <2>1. Past(leg[s]) /\ s \notin Skipped  BY <1>5 DEF PastInv, CallbackPast
  <2>2. leg'[s] = leg[s] \/ Turned(s, leg'[s])  BY <1>1, <1>2, <2>1, KeepsSlot DEF Past
  <2>3. Past(leg'[s])  BY <2>1, <2>2 DEF Turned, Past
  <2> QED BY <1>4, <2>1, <2>3, SkippedNew DEF Past
<1>6. CASE VoiceOverflows(s)
  <2>1. leg[s].voice /\ leg[s].amd = "off"  BY <1>6 DEF VoiceOverflows
  <2>2. Placed(leg[s])  BY <1>1, <2>1 DEF Fit, Placed
  <2>3. leg'[s] = leg[s] \/ Turned(s, leg'[s])  BY <1>1, <1>2, <2>2, KeepsSlot
  <2>4. Past(leg'[s])  BY <2>1, <2>2, <2>3 DEF Turned, Past
  <2> QED BY <1>3, <1>4, <2>1, <2>4, SkippedNew
<1>7. CASE HumanOverflows(s)
  <2>1. leg[s].amd = "human"  BY <1>7 DEF HumanOverflows
  <2>2. leg'[s].amd = "done"
    <3>1. \/ leg' = [Play(s, "held", "music") EXCEPT ![s].amd = "done"]
          \/ leg' = [leg EXCEPT ![s].amd = "done"]
      BY <1>7 DEF HumanOverflows
    <3>2. Play(s, "held", "music") \in [Sids -> Leg]
      <4>1. leg[s] \in Leg  BY <1>1
      <4> QED BY <1>1, <4>1 DEF Play, Leg, LegStates
    <3> DEFINE p == Play(s, "held", "music")
    <3> HIDE DEF p
    <3>3. \E q \in [Sids -> Leg] : leg' = [q EXCEPT ![s].amd = "done"]
      BY <1>1, <3>1, <3>2 DEF p
    <3>4. PICK q \in [Sids -> Leg] : leg' = [q EXCEPT ![s].amd = "done"]  BY <3>3
    <3>5. q[s] \in Leg  BY <3>4
    <3> QED BY <3>4, <3>5 DEF Leg
  <2>3. Past(leg'[s])  BY <1>1, <2>2 DEF Fit, Past, Placed
  <2> QED BY <1>3, <1>4, <2>1, <2>3, SkippedNew
<1> QED BY <1>2, <1>5, <1>6, <1>7

LEMMA NoAnswerKept ==
    ASSUME PastInv, CardsInv', LegTurn, [Next]_vars PROVE NoAnswerEarly'
<1> SUFFICES ASSUME NEW j \in finishing', j.status = "no-answer", ~j.child
             PROVE  leg'[j.sid].amd \in {"off", "pending"}
  BY DEF NoAnswerEarly
<1>1. CallsInv /\ leg \in [Sids -> Leg] /\ \A s \in Sids : Fit(leg[s])
  BY CallTypesNow DEF PastInv, CardsInv
<1>2. CASE j \in finishing
  <2>1. /\ j.sid \in Sids /\ leg[j.sid].st = "ended" /\ ~Reuse(j.sid)
        /\ leg[j.sid].amd \in {"off", "pending"}
    BY <1>1, <1>2, CallTypesNow DEF PastInv, NoAnswerEarly, Reuse, Spent
  <2> QED BY <1>1, <2>1, EndedKeeps
<1>3. CASE j \notin finishing
  <2>1. UNCHANGED leg  BY <1>3, ReportsNew
  <2>2. ASSUME NEW s \in Sids, NEW status, NEW child \in BOOLEAN,
               StatusArrives(s, status, child),
               status = "no-answer" /\ ~child => leg[s].end \in {"zero", "no-answer"}
        PROVE  leg'[j.sid].amd \in {"off", "pending"}
    <3>1. j.sid = s /\ j.status = status /\ j.child = child
      BY <1>3, <2>2 DEF StatusArrives, Report
    <3>2. leg[s].end \in {"zero", "no-answer"} /\ leg[s] \in Leg /\ Fit(leg[s])
      BY <1>1, <2>2, <3>1
    <3>3. leg[s].amd \in {"off", "pending"}  BY <3>2 DEF Fit, Leg
    <3> QED BY <2>1, <3>1, <3>3
  <2>3. StatusWebhooks \/ \E s \in Sids : WatchdogFetches(s)
    BY <1>3
    DEF Next, Step, Dialing, PumpGivesUp, PumpTakesBatch, PumpFires, PumpEnds,
         SlowCreate, CallCreated, DialBlocked, DialFrozen, DialFails,
         BridgeWebhooks, VoiceHolds, VoiceOverflows, VoiceBridges, HumanOverflows,
         HumanBridges, BridgeLands, BridgeFails, MachineDetected, SkipMachine,
         Watchdog, WatchdogSweeps, StaleLock, Redialing,
         RedialTimerFires, RequeueDropped, RequeueEnters, RequeueThrows, Session,
         StartBegins, StartSaved, StartAborts, StartFills, StopDialing, AgentReady, PurgeContact,
         TrimCards, Telephony, Answer, NotAnswered, AmdResult, AgentAnswers,
         AgentDoesNotAnswer, HangUp, DropAtOnce, HangupLands, PromptLost,
         FinalWebhooksLost, Reuse, FinishStatus, vars
  <2>4. PICK s \in Sids :
          \/ CallProgress(s, "ringing") \/ CallProgress(s, "answered")
          \/ AgentLegAnswered(s) \/ AgentLegEnded(s) \/ CallEnded(s) \/ WatchdogFetches(s)
    BY <2>3 DEF StatusWebhooks
  <2>5. CASE CallProgress(s, "ringing") \/ CallProgress(s, "answered") \/ AgentLegAnswered(s)
    BY <2>2, <2>5 DEF CallProgress, AgentLegAnswered
  <2>6. CASE AgentLegEnded(s)  BY <2>2, <2>6 DEF AgentLegEnded
  <2>7. CASE CallEnded(s)  BY <2>2, <2>7 DEF CallEnded
  <2>8. CASE WatchdogFetches(s)  BY <2>2, <2>8 DEF WatchdogFetches
  <2> QED BY <2>4, <2>5, <2>6, <2>7, <2>8
<1> QED BY <1>2, <1>3

\* A redial is scheduled by the report of a call that earned it.
Earns(j) == /\ j.obj # 0 /\ WantsRedial(j) /\ AttemptsOf(j) < MaxAttempts

LEMMA TimerNew ==
    ASSUME CardsInv, [Next]_vars, NEW t \in redialTimers'
    PROVE  \/ t \in redialTimers
           \/ \E j \in finishing : /\ FinishStatus(j) /\ Earns(j)
                                   /\ t.lead = leg[j.sid].lead /\ t.att = AttemptsOf(j) + 1
<1> DEFINE Goal == \/ t \in redialTimers
                   \/ \E j \in finishing : /\ FinishStatus(j) /\ Earns(j)
                                           /\ t.lead = leg[j.sid].lead /\ t.att = AttemptsOf(j) + 1
<1>1. ASSUME NEW j \in finishing, FinishStatus(j)  PROVE Goal
  <2> DEFINE l == leg[j.sid].lead
             known == meta[j.sid][j.obj].known
             new == [lead |-> l, att |-> AttemptsOf(j) + 1, known |-> known, cancelable |-> TRUE]
  <2>1. CASE UNCHANGED redialTimers  BY <2>1
  <2>2. CASE redialTimers' # redialTimers
    <3>1. /\ Earns(j) /\ l \notin pendingRedials
          /\ redialTimers' = {[u EXCEPT !.cancelable = @ /\ u.lead # l] : u \in redialTimers}
                             \cup {new}
      BY <1>1, <2>2 DEF FinishStatus, ScheduleRedial, RequeueLeadForRedial, WantsRedial, Earns
    <3>2. \A u \in redialTimers : u.lead # l /\ u \in Timer /\ u.cancelable
      BY <3>1, CallTypesNow DEF CardsInv, Guarded
    <3>3. \A u \in redialTimers : [u EXCEPT !.cancelable = @ /\ u.lead # l] = u
      BY <3>2 DEF Timer
    <3>4. redialTimers' = redialTimers \cup {new} /\ new.lead = l /\ new.att = AttemptsOf(j) + 1
      BY <3>1, <3>3
    <3> HIDE DEF new
    <3> QED BY <1>1, <3>1, <3>4
  <2> QED BY <2>1, <2>2
<1>2. ASSUME NEW u \in redialTimers, RedialTimerFires(u)  PROVE Goal
  BY <1>2 DEF RedialTimerFires, CardsInv, Once
<1>3. ASSUME redialTimers' \subseteq redialTimers  PROVE Goal  BY <1>3
<1>4. ASSUME NEW k \in skipping, SkipMachine(k)  PROVE redialTimers' \subseteq redialTimers
  BY <1>4 DEF SkipMachine, CancelPendingRedials
<1>5. ASSUME NEW c \in Contacts, PurgeContact(c)  PROVE redialTimers' \subseteq redialTimers
  BY <1>5 DEF PurgeContact, CancelPendingRedials
<1>6. \/ (\E j \in finishing : FinishStatus(j)) \/ (\E u \in redialTimers : RedialTimerFires(u))
      \/ (\E k \in skipping : SkipMachine(k)) \/ (\E c \in Contacts : PurgeContact(c))
      \/ redialTimers' = redialTimers
  BY DEF Next, Step, Dialing, PumpGivesUp, PumpTakesBatch, PumpFires, PumpEnds,
         SlowCreate, CallCreated, DialBlocked, DialFrozen, DialFails,
         StatusWebhooks, CallProgress, AgentLegAnswered, AgentLegEnded, CallEnded,
         BridgeWebhooks, VoiceHolds, VoiceOverflows, VoiceBridges, HumanOverflows,
         HumanBridges, BridgeLands, BridgeFails, MachineDetected,
         Watchdog, WatchdogFetches, WatchdogSweeps, StaleLock, Redialing,
         RequeueDropped, RequeueEnters, RequeueThrows, Session,
         StartBegins, StartSaved, StartAborts, StartFills, StopDialing, AgentReady,
         TrimCards, Telephony, Answer, NotAnswered, AmdResult, AgentAnswers,
         AgentDoesNotAnswer, HangUp, DropAtOnce, HangupLands, PromptLost,
         FinalWebhooksLost, Reuse, vars
<1>7. Goal
  <2> HIDE DEF Goal
  <2>1. redialTimers' = redialTimers => redialTimers' \subseteq redialTimers  OBVIOUS
  <2> QED BY <1>1, <1>2, <1>3, <1>4, <1>5, <1>6, <2>1
<1> QED BY <1>7

LEMMA RequeueNew ==
    ASSUME [Next]_vars, NEW r \in requeues'
    PROVE  r \in requeues \/ \E t \in redialTimers : t.lead = r.lead /\ t.att = r.att
<1>1. ASSUME NEW t \in redialTimers, RedialTimerFires(t)
      PROVE  r \in requeues \/ \E u \in redialTimers : u.lead = r.lead /\ u.att = r.att
  BY <1>1 DEF RedialTimerFires
<1>2. (\E t \in redialTimers : RedialTimerFires(t)) \/ requeues' \subseteq requeues
  BY DEF Next, Step, Dialing, PumpGivesUp, PumpTakesBatch, PumpFires, PumpEnds,
         SlowCreate, CallCreated, DialBlocked, DialFrozen, DialFails,
         StatusWebhooks, CallProgress, AgentLegAnswered, AgentLegEnded, CallEnded,
         BridgeWebhooks, VoiceHolds, VoiceOverflows, VoiceBridges, HumanOverflows,
         HumanBridges, BridgeLands, BridgeFails, MachineDetected, SkipMachine,
         Watchdog, WatchdogFetches, WatchdogSweeps, StaleLock, Redialing,
         RequeueDropped, RequeueEnters, RequeueThrows, Session,
         StartBegins, StartSaved, StartAborts, StartFills, StopDialing, AgentReady, PurgeContact,
         TrimCards, Telephony, Answer, NotAnswered, AmdResult, AgentAnswers,
         AgentDoesNotAnswer, HangUp, DropAtOnce, HangupLands, PromptLost,
         FinalWebhooksLost, Reuse, FinishStatus, vars
<1> QED BY <1>1, <1>2

\* A call that earns a redial was no machine.
LEMMA EarnsPast ==
    ASSUME PastInv, NEW j \in finishing, Earns(j) PROVE j.sid \notin Machines
<1>1. CallsInv /\ leg[j.sid].st = "ended" /\ j \in Finish
      /\ \A s \in Skipped : leg[s].amd = "done"
  BY CallTypesNow
  DEF PastInv, CardsInv, CallsInv, OverInv, LegInv, TypeInv, TypeOK, JobTypes, Detected, Skipped
<1>2. j.sid \in Sids /\ j.obj \in 1 .. 2  BY <1>1 DEF Earns, Finish
<1>3. CASE meta[j.sid][j.obj].status = "callback"
  BY <1>2, <1>3 DEF PastInv, CallbackPast, Machines, Past
<1>4. CASE j.status = "no-answer"
  BY <1>1, <1>2, <1>4 DEF PastInv, NoAnswerEarly, Machines, Earns, WantsRedial
<1> QED BY <1>3, <1>4 DEF Earns, WantsRedial

LEMMA CountedKept == ASSUME PastInv, [Next]_vars PROVE Counted'
<1>1. ASSUME NEW t \in redialTimers'  PROVE t.att # 0
  <2>1. CASE t \in redialTimers  BY <2>1 DEF PastInv, Counted
  <2>2. ASSUME NEW j \in finishing, t.att = AttemptsOf(j) + 1  PROVE t.att # 0
    <3>1. AttemptsOf(j) \in Nat
      <4>1. CardsInv /\ CallsInv  BY DEF PastInv, CardsInv
      <4>2. leg[j.sid] \in Leg  BY <4>1, CallTypesNow
      <4> QED BY <4>2, DialerAssumption DEF AttemptsOf, Leg, Attempts
    <3> QED BY <2>2, <3>1
  <2> QED BY <2>1, <2>2, TimerNew DEF PastInv
<1>2. ASSUME NEW r \in requeues'  PROVE r.att # 0
  BY RequeueNew DEF PastInv, Counted
<1> QED BY <1>1, <1>2 DEF Counted

LEMMA MachineMoves ==
    ASSUME CallsInv, LegTurn, [Next]_vars, NEW s \in Machines'
    PROVE  s \in Sids /\ leg'[s].lead = leg[s].lead /\ (s \in Machines \/ leg[s].st = "held")
<1>1. leg \in [Sids -> Leg] /\ skipping \subseteq Skip /\ \A t \in Sids : Fit(leg[t])
  BY CallTypesNow
<1>2. \A t \in Skipped : t \in Sids /\ leg[t].amd = "done" /\ ~Reuse(t)
  BY CallTypesNow DEF Detected, Skipped, Reuse, Spent
<1>3. CASE s \in Skipped'
  <2>1. s \in Skipped \/ (s \in Sids /\ MachineDetected(s))  BY <1>3, SkippedNew
  <2>2. CASE s \in Skipped
    <3>1. Placed(leg[s])  BY <1>1, <1>2, <2>2 DEF Fit, Placed
    <3> QED BY <1>2, <2>2, <3>1, KeepsSlot DEF Machines, Turned
  <2>3. CASE MachineDetected(s) /\ s \in Sids
    <3>1. leg[s].amd = "machine" /\ ~Reuse(s)  BY <2>3 DEF MachineDetected, Reuse, Spent
    <3>2. Placed(leg[s])  BY <1>1, <2>3, <3>1 DEF Fit, Placed
    <3> QED BY <2>3, <3>1, <3>2, KeepsSlot DEF Machines, Turned
  <2> QED BY <2>1, <2>2, <2>3
<1>4. CASE s \in Sids /\ leg'[s].amd = "machine"
  <2>1. ~Dropped(s, leg'[s])
    <3>1. Dropped(s, leg'[s]) => leg'[s].amd = "off"  BY DEF Dropped, NoLeg
    <3> QED BY <1>4, <3>1
  <2>2. ~Begun(s, leg'[s])
    <3>1. ASSUME NEW card \in Card, NEW amd \in {"off", "pending"},
                 leg'[s] = [NoLeg EXCEPT !.st = "placing", !.lead = card.lead,
                                         !.att = card.att, !.amd = amd]
          PROVE  leg'[s].amd # "machine"
      BY <3>1 DEF NoLeg
    <3> QED BY <1>4, <3>1 DEF Begun
  <2>3. leg'[s] = leg[s] \/ Turned(s, leg'[s])  BY <1>4, <2>1, <2>2, LegCases
  <2> QED BY <1>4, <2>3 DEF Turned, Machines
<1> QED BY <1>3, <1>4 DEF Machines

LEMMA MachineKept ==
    ASSUME PastInv, Orderly, CardsInv', LegTurn, [Next]_vars, StartFills \/ CardsMove
    PROVE  MachineAlone'
<1> SUFFICES ASSUME NEW s \in Machines'
             PROVE  /\ Alone(s)' /\ leg'[s].lead \notin TimerLeads'
                    /\ \A j \in finishing' : j.obj # 0 /\ leg'[j.sid].lead = leg'[s].lead => j.sid = s
  BY DEF MachineAlone
<1>1. CardsInv /\ CallsInv /\ CallsInv'  BY DEF PastInv, CardsInv
<1>2. s \in Sids /\ leg'[s].lead = leg[s].lead /\ (s \in Machines \/ leg[s].st = "held")
  BY <1>1, MachineMoves
<1>3. ~StartFills
  <2>1. StartFills => Empty  BY <1>1 DEF StartFills, CallsInv, Fresh, Unstarted
  <2>2. Empty => leg[s].st = "unused"  BY <1>2 DEF Empty
  <2>3. leg[s].st = "unused" => s \notin Machines
    BY <1>1, <1>2, CallTypesNow DEF Machines, Fit, Detected, Skipped
  <2> QED BY <1>2, <2>1, <2>2, <2>3
<1>4. /\ Alone(s) /\ leg[s].lead \notin TimerLeads
      /\ \A j \in finishing : j.obj # 0 /\ leg[j.sid].lead = leg[s].lead => j.sid = s
  <2>1. CASE s \in Machines  BY <2>1 DEF PastInv, MachineAlone
  <2>2. CASE leg[s].st = "held"
    <3>1. Engaged(s)  BY <2>2 DEF Engaged
    <3>2. Alone(s) /\ leg[s].lead \notin TimerLeads
      BY <1>1, <1>2, <3>1, EngagedAlone DEF CardsInv
    <3>3. ASSUME NEW j \in finishing, j.obj # 0, leg[j.sid].lead = leg[s].lead
          PROVE  j.sid = s
      BY <1>1, <1>2, <3>1, <3>3 DEF CardsInv, Late, Alone
    <3> QED BY <3>2, <3>3
  <2> QED BY <1>2, <2>1, <2>2
<1>5. CardsFlow  BY <1>3 DEF CardsMove
<1>6. Alone(s)'  BY <1>2, <1>4, <1>5, AloneStays
<1>7. ASSUME NEW j \in finishing', j.obj # 0, leg'[j.sid].lead = leg'[s].lead  PROVE j.sid = s
  <2>1. CASE j \in finishing
    <3>1. j.sid \in Sids /\ leg[j.sid].st = "ended" /\ ~Reuse(j.sid)
      BY <1>1, <2>1, CallTypesNow DEF Reuse, Spent
    <3>2. leg'[j.sid].lead = leg[j.sid].lead  BY <1>1, <3>1, EndedKeeps
    <3> QED BY <1>2, <1>4, <1>7, <2>1, <3>2
  <2>2. CASE j \notin finishing
    <3>1. activeCalls[j.sid] # 0 /\ UNCHANGED leg  BY <1>7, <2>2, ReportsNew
    <3>2. j.sid \in Sids
      BY <1>1 DEF CallsInv, OverInv, LegInv, TypeInv, TypeOK, JobTypes, Finish
    <3>3. Engaged(j.sid)  BY <3>1 DEF Engaged
    <3> QED BY <1>4, <1>7, <3>1, <3>2, <3>3 DEF Alone
  <2> QED BY <2>1, <2>2
<1>8. leg[s].lead \notin TimerLeads'
  <2> SUFFICES ASSUME NEW t \in redialTimers', t.lead = leg[s].lead PROVE FALSE
    BY DEF TimerLeads
  <2>1. t \notin redialTimers  BY <1>4 DEF TimerLeads
  <2>2. PICK j \in finishing : FinishStatus(j) /\ Earns(j) /\ t.lead = leg[j.sid].lead
    BY <1>1, <2>1, TimerNew
  <2>3. j.sid = s  BY <1>4, <2>2 DEF Earns
  <2>4. s \notin Machines  BY <2>2, <2>3, EarnsPast
  <2>5. leg[j.sid].st = "ended"  BY <1>1, CallTypesNow
  <2> QED BY <1>2, <2>3, <2>4, <2>5
<1> QED BY <1>2, <1>6, <1>7, <1>8

LEMMA PastInit == Init => PastInv
<1> SUFFICES ASSUME Init PROVE PastInv  OBVIOUS
<1>1. CallbackPast /\ NoAnswerEarly /\ Counted
  BY DEF Init, NewMeta, CallbackPast, NoAnswerEarly, Counted
<1>2. Machines = {}  BY DEF Init, Machines, Skipped, NoLeg
<1> QED BY <1>1, <1>2, CardsInit DEF PastInv, MachineAlone

LEMMA PastNext ==
    ASSUME PastInv, Orderly, [Next]_vars
    PROVE  PastInv' /\ LegTurn /\ TrackMoves /\ (StartFills \/ CardsMove)
<1>1. CardsInv' /\ LegTurn /\ TrackMoves /\ (StartFills \/ CardsMove)
  BY CardsNext DEF PastInv
<1>2. CallbackPast' /\ NoAnswerEarly' /\ MachineAlone' /\ Counted'
  BY <1>1, CallbackKept, NoAnswerKept, MachineKept, CountedKept
<1> QED BY <1>1, <1>2 DEF PastInv

-----------------------------------------------------------------------------
(* Redial guards. *)

\* The environments in which every guard is dropped: no number is refused by
\* isDialBlocked, no database call throws in a redial timeout, and no contact
\* has two cards in the session (purging the queue of a contact, when one of
\* its cards meets a machine or is trimmed, leaves the guards of the others).
Dropping ==
    /\ Hazards \cap {"blocked", "dbFail"} = {}
    /\ \A l, m \in Leads : ContactOf[l] = ContactOf[m] => l = m

Backed == Waiting \cup Queued(userQueue) \cup Batched \cup Placing

LEMMA WaitingLeads == Waiting = TimerLeads \cup RequeueLeads
  BY DEF Waiting, TimerLeads, RequeueLeads

\* What is dialed goes to the batch, to a call, or is a removed contact's.
LEMMA DialBacked ==
    ASSUME PastInv, Orderly, [Next]_vars, PumpTakesBatch \/ PumpFires, LegTurn,
           NEW l \in Backed, ContactOf[l] \notin removedContacts
    PROVE  l \in Backed'
<1>1. /\ pump.batch \in Seq(Card) /\ ~stopped /\ TypeInv /\ LegInv
      /\ pump.stage # "firing" => pump.batch = <<>>
      /\ userQueue \in [Leads -> Attempts]
  BY CallTypesNow DEF PastInv, CardsInv, CallsInv, Idle, OverInv, LegInv
<1>2. UNCHANGED <<redialTimers, requeues, removedContacts>>
  BY DEF PumpTakesBatch, PumpFires
<1>3. CASE l \in Waiting  BY <1>2, <1>3 DEF Waiting, Backed
<1>4. ASSUME NEW card \in Card, NEW f, MakeCall(card, f), l \in Placing \/ l = card.lead
      PROVE  l \in Placing'
  <2>1. CASE l \in Placing  BY <1>1, <1>4, <2>1, MakeCallPlaces
  <2>2. CASE l = card.lead
    <3>1. PICK s \in Sids, mode \in AmdModes :
            /\ leg[s].st = "unused"
            /\ leg' = [leg EXCEPT ![s] =
                 [NoLeg EXCEPT !.st = "placing", !.lead = card.lead, !.att = card.att,
                               !.amd = IF mode THEN "pending" ELSE "off"]]
      BY <1>4, <2>2 DEF MakeCall
    <3>2. leg \in [Sids -> Leg]  BY <1>1 DEF TypeInv, TypeOK, TwilioTypes
    <3>3. leg'[s].st = "placing" /\ leg'[s].lead = card.lead  BY <3>1, <3>2 DEF NoLeg
    <3> QED BY <2>2, <3>3 DEF Placing
  <2> QED BY <1>4, <2>1, <2>2
<1>5. CASE PumpTakesBatch
  <2>1. PICK n \in Nat \ {0} : \E b \in [1 .. n -> Queued(userQueue)] :
          /\ Cards(b, n) \in Seq(Card) /\ Cards(b, n)[1] \in Card
          /\ userQueue' = RemoveWhere(userQueue, Taken(b, n))
          /\ MakeCall(Cards(b, n)[1], leadsInFlight \cup Taken(b, n))
          /\ pump' = [stage |-> "firing", batch |-> Tail(Cards(b, n))]
    BY <1>1, <1>5, TakenBatch
  <2>2. PICK b \in [1 .. n -> Queued(userQueue)] :
          /\ Cards(b, n) \in Seq(Card) /\ Cards(b, n)[1] \in Card
          /\ userQueue' = RemoveWhere(userQueue, Taken(b, n))
          /\ MakeCall(Cards(b, n)[1], leadsInFlight \cup Taken(b, n))
          /\ pump' = [stage |-> "firing", batch |-> Tail(Cards(b, n))]
    BY <2>1
  <2> DEFINE cards == Cards(b, n)
  <2>3. Batched' = LeadsOf(Tail(cards))  BY <2>2 DEF Batched, LeadsOf
  <2>4. Taken(b, n) = {cards[1].lead} \cup LeadsOf(Tail(cards))
    BY <2>2, CardsLeads, BatchSplits
  <2>5. Queued(userQueue') = Queued(userQueue) \ Taken(b, n)
    BY <1>1, <2>2, RemovedFrom
  <2>6. Batched = {}  BY <1>1, <1>5 DEF PumpTakesBatch, Batched
  <2>7. l = cards[1].lead \/ l \in Placing => l \in Placing'  BY <1>4, <2>2
  <2> HIDE DEF cards
  <2> QED BY <1>3, <2>3, <2>4, <2>5, <2>6, <2>7 DEF Backed
<1>6. CASE PumpFires
  <2>1. MakeCall(Head(pump.batch), leadsInFlight) /\ pump.batch # <<>> /\ UNCHANGED userQueue
    BY <1>6 DEF PumpFires
  <2>2. pump'.batch = Tail(pump.batch)
    BY <1>1, <1>6 DEF PumpFires, TypeInv, TypeOK, QueueTypes
  <2>3. Batched = LeadsOf(pump.batch) /\ Batched' = LeadsOf(Tail(pump.batch))
    BY <2>2 DEF Batched, LeadsOf
  <2>4. Batched = {Head(pump.batch).lead} \cup Batched' /\ Head(pump.batch) \in Card
    BY <1>1, <2>1, <2>3, BatchSplits
  <2>5. l = Head(pump.batch).lead \/ l \in Placing => l \in Placing'
    BY <1>4, <2>1, <2>4
  <2> QED BY <1>3, <2>1, <2>4, <2>5 DEF Backed
<1> QED BY <1>5, <1>6

LEMMA BackedKept ==
    ASSUME PastInv, Orderly, Dropping, LegTurn, [Next]_vars,
           NEW l \in pendingRedials', l \in pendingRedials, l \in Backed
    PROVE  l \in Backed'
<1>1. /\ LegInv /\ userQueue \in [Leads -> Attempts] /\ l \in Leads
      /\ ContactOf[l] \notin removedContacts /\ requeues \subseteq Requeue
  BY CallTypesNow DEF PastInv, CardsInv, CallsInv, OverInv, Guarded
<1>2. CASE PumpTakesBatch \/ PumpFires  BY <1>1, <1>2, DialBacked
<1>3. CASE l \in Placing
  <2>1. \A s \in Sids : leg[s].lead = l => ~CallCreated(s) /\ ~Aborts(s)
    BY DEF CallCreated, Aborts, DialBlocked, DialFrozen, DialFails, Dropping
  <2> QED BY <1>1, <1>3, <2>1, PlacingStays DEF Backed
<1>4. CASE l \in Batched /\ ~PumpTakesBatch /\ ~PumpFires
  <2>1. pump'.batch = pump.batch
    BY <1>1, <1>4, PumpQuiet DEF PastInv, CardsInv, CallsInv, Orderly
  <2> QED BY <1>4, <2>1 DEF Batched, Backed
<1>5. CASE l \in Queued(userQueue) /\ ~PumpTakesBatch
  <2>1. ASSUME NEW k \in skipping, SkipMachine(k)  PROVE l \in Queued(userQueue')
    <3>1. k.sid \in Skipped /\ k.sid \in Sids  BY <2>1, CallTypesNow DEF Skipped, Skip, PastInv, CardsInv
    <3>2. leg[k.sid].lead \in Leads
      <4>1. leg[k.sid].amd = "done" /\ Fit(leg[k.sid]) /\ Sound(leg[k.sid])
        BY <3>1, CallTypesNow DEF Detected, Skipped, PastInv, CardsInv
      <4> QED BY <4>1 DEF Fit, Sound
    <3>3. leg[k.sid].lead \notin Queued(userQueue)
      BY <3>1 DEF PastInv, MachineAlone, Machines, Alone
    <3>4. l \notin CardsOf(ContactOf[leg[k.sid].lead])
      BY <1>1, <1>5, <3>2, <3>3 DEF Dropping, CardsOf
    <3>5. userQueue' = RemoveWhere(userQueue, CardsOf(ContactOf[leg[k.sid].lead]))
      BY <2>1 DEF SkipMachine
    <3> QED BY <1>1, <1>5, <3>4, <3>5, RemovedFrom
  <2>2. ASSUME NEW c \in Contacts, PurgeContact(c)  PROVE l \in Queued(userQueue')
    <3>1. l \notin CardsOf(c)
      BY <2>2 DEF PurgeContact, CancelPendingRedials
    <3> QED BY <1>1, <1>5, <2>2, <3>1, RemovedFrom DEF PurgeContact
  <2>3. ASSUME NEW m \in Leads, TrimCards(m)  PROVE FALSE
    <3>1. CardsOf(ContactOf[m]) \ {m} = {}  BY DEF CardsOf, Dropping
    <3>2. RemoveWhere(userQueue, {}) = userQueue  BY <1>1 DEF RemoveWhere
    <3> QED BY <2>3, <3>1, <3>2 DEF TrimCards
  <2>4. ASSUME NEW r \in requeues, RequeueEnters(r)  PROVE l \in Queued(userQueue')
    BY <1>1, <1>5, <2>4 DEF RequeueEnters, Enqueue, Queued
  <2>5. ASSUME StartFills  PROVE l \in Queued(userQueue')
    BY <1>1, <1>5, <2>5 DEF StartFills, Enqueue, Queued
  <2>6. ~StopDialing  BY DEF StopDialing, Orderly
  <2>7. \/ (\E k \in skipping : SkipMachine(k)) \/ (\E c \in Contacts : PurgeContact(c))
        \/ (\E m \in Leads : TrimCards(m)) \/ (\E r \in requeues : RequeueEnters(r))
        \/ StartFills \/ UNCHANGED userQueue
    BY <1>5, <2>6
    DEF Next, Step, Dialing, PumpGivesUp, PumpFires, PumpEnds,
         SlowCreate, CallCreated, DialBlocked, DialFrozen, DialFails,
         StatusWebhooks, CallProgress, AgentLegAnswered, AgentLegEnded, CallEnded,
         BridgeWebhooks, VoiceHolds, VoiceOverflows, VoiceBridges, HumanOverflows,
         HumanBridges, BridgeLands, BridgeFails, MachineDetected,
         Watchdog, WatchdogFetches, WatchdogSweeps, StaleLock, Redialing,
         RedialTimerFires, RequeueDropped, RequeueThrows, Session,
         StartBegins, StartSaved, StartAborts, AgentReady,
         Telephony, Answer, NotAnswered, AmdResult, AgentAnswers,
         AgentDoesNotAnswer, HangUp, DropAtOnce, HangupLands, PromptLost,
         FinalWebhooksLost, Reuse, FinishStatus, vars
  <2> QED BY <1>5, <2>1, <2>2, <2>3, <2>4, <2>5, <2>7 DEF Backed
<1>6. ASSUME NEW r \in requeues, r.lead = l  PROVE l \in Backed'
  <2>1. CASE r \in requeues'  BY <1>6, <2>1 DEF Waiting, Backed
  <2>2. CASE r \notin requeues'
    <3>1. RequeueEnters(r)
      <4>1. PICK u \in requeues : RequeueDropped(u) \/ RequeueEnters(u) \/ RequeueThrows(u)
        BY <1>6, <2>2
        DEF Next, Step, Dialing, PumpGivesUp, PumpTakesBatch, PumpFires, PumpEnds,
         SlowCreate, CallCreated, DialBlocked, DialFrozen, DialFails,
         StatusWebhooks, CallProgress, AgentLegAnswered, AgentLegEnded, CallEnded,
         BridgeWebhooks, VoiceHolds, VoiceOverflows, VoiceBridges, HumanOverflows,
         HumanBridges, BridgeLands, BridgeFails, MachineDetected, SkipMachine,
         Watchdog, WatchdogFetches, WatchdogSweeps, StaleLock, Redialing,
         RedialTimerFires, Session,
         StartBegins, StartSaved, StartAborts, StartFills, StopDialing, AgentReady, PurgeContact,
         TrimCards, Telephony, Answer, NotAnswered, AmdResult, AgentAnswers,
         AgentDoesNotAnswer, HangUp, DropAtOnce, HangupLands, PromptLost,
         FinalWebhooksLost, Reuse, FinishStatus, vars
      <4>2. requeues' = requeues \ {u}
        BY <4>1 DEF RequeueDropped, RequeueEnters, RequeueThrows
      <4>3. u = r  BY <1>6, <2>2, <4>2
      <4>4. ~RequeueThrows(r)  BY DEF RequeueThrows, Dropping
      <4>5. ~RequeueDropped(r)  BY <1>6 DEF RequeueDropped
      <4> QED BY <4>1, <4>3, <4>4, <4>5
    <3>2. userQueue' = Enqueue(userQueue, l, r.att) /\ r.att # 0
      BY <1>6, <3>1 DEF RequeueEnters, PastInv, Counted
    <3>3. l \in Queued(userQueue')  BY <1>1, <3>2 DEF Enqueue, Queued
    <3> QED BY <3>3 DEF Backed
  <2> QED BY <2>1, <2>2
<1>7. ASSUME NEW t \in redialTimers, t.lead = l  PROVE l \in Backed'
  <2>1. CASE \E u \in redialTimers' : u.lead = l
    BY <2>1 DEF Waiting, Backed
  <2>2. ASSUME NEW u \in redialTimers, RedialTimerFires(u)  PROVE l \in Backed'
    <3>1. CASE u = t
      <4> DEFINE r == [lead |-> t.lead, att |-> t.att, known |-> t.known]
      <4>1. r \in requeues' /\ r.lead = l  BY <1>7, <2>2, <3>1 DEF RedialTimerFires
      <4> HIDE DEF r
      <4> QED BY <4>1 DEF Waiting, Backed
    <3>2. CASE u # t
      <4>1. u.lead # t.lead  BY <2>2, <1>7, <3>2 DEF PastInv, CardsInv, Once
      <4>2. t \in redialTimers'  BY <1>7, <2>2, <3>2, <4>1 DEF RedialTimerFires
      <4> QED BY <1>7, <2>1, <4>2
    <3> QED BY <3>1, <3>2
  <2>3. ASSUME NEW j \in finishing, FinishStatus(j)  PROVE \E u \in redialTimers' : u.lead = l
    <3>1. CASE UNCHANGED redialTimers  BY <1>7, <3>1
    <3>2. CASE redialTimers' # redialTimers
      <4>1. [t EXCEPT !.cancelable = @ /\ t.lead # leg[j.sid].lead] \in redialTimers'
        BY <1>7, <2>3, <3>2 DEF FinishStatus, ScheduleRedial, RequeueLeadForRedial
      <4>2. t \in Timer  BY CallTypesNow DEF PastInv, CardsInv
      <4>3. [t EXCEPT !.cancelable = @ /\ t.lead # leg[j.sid].lead].lead = l
        BY <1>7, <4>2 DEF Timer
      <4> QED BY <4>1, <4>3
    <3> QED BY <3>1, <3>2
  <2>4. ASSUME NEW ls, CancelPendingRedials(ls)  PROVE t \in redialTimers'
    BY <1>7, <2>4 DEF CancelPendingRedials
  <2>5. ASSUME NEW k \in skipping, SkipMachine(k)  PROVE t \in redialTimers'
    BY <2>4, <2>5 DEF SkipMachine
  <2>6. ASSUME NEW c \in Contacts, PurgeContact(c)  PROVE t \in redialTimers'
    BY <2>4, <2>6 DEF PurgeContact
  <2>7. \/ (\E u \in redialTimers : RedialTimerFires(u)) \/ (\E j \in finishing : FinishStatus(j))
        \/ (\E k \in skipping : SkipMachine(k)) \/ (\E c \in Contacts : PurgeContact(c))
        \/ redialTimers' = redialTimers
    BY DEF Next, Step, Dialing, PumpGivesUp, PumpTakesBatch, PumpFires, PumpEnds,
         SlowCreate, CallCreated, DialBlocked, DialFrozen, DialFails,
         StatusWebhooks, CallProgress, AgentLegAnswered, AgentLegEnded, CallEnded,
         BridgeWebhooks, VoiceHolds, VoiceOverflows, VoiceBridges, HumanOverflows,
         HumanBridges, BridgeLands, BridgeFails, MachineDetected,
         Watchdog, WatchdogFetches, WatchdogSweeps, StaleLock, Redialing,
         RequeueDropped, RequeueEnters, RequeueThrows, Session,
         StartBegins, StartSaved, StartAborts, StartFills, StopDialing, AgentReady,
         TrimCards, Telephony, Answer, NotAnswered, AmdResult, AgentAnswers,
         AgentDoesNotAnswer, HangUp, DropAtOnce, HangupLands, PromptLost,
         FinalWebhooksLost, Reuse, vars
  <2> QED BY <1>7, <2>1, <2>2, <2>3, <2>5, <2>6, <2>7
<1>8. \/ l \in Placing \/ l \in Batched \/ l \in Queued(userQueue)
      \/ (\E r \in requeues : r.lead = l) \/ (\E t \in redialTimers : t.lead = l)
  BY DEF Backed, Waiting
<1> QED BY <1>2, <1>3, <1>4, <1>5, <1>6, <1>7, <1>8

\* A guard is set only as a redial is scheduled.
LEMMA GuardNew ==
    ASSUME [Next]_vars, NEW l \in pendingRedials', l \notin pendingRedials
    PROVE  l \in Backed'
<1>1. PICK j \in finishing : FinishStatus(j)
  BY DEF Next, Step, Dialing, PumpGivesUp, PumpTakesBatch, PumpFires, PumpEnds,
         SlowCreate, CallCreated, DialBlocked, DialFrozen, DialFails,
         StatusWebhooks, CallProgress, AgentLegAnswered, AgentLegEnded, CallEnded,
         BridgeWebhooks, VoiceHolds, VoiceOverflows, VoiceBridges, HumanOverflows,
         HumanBridges, BridgeLands, BridgeFails, MachineDetected, SkipMachine,
         Watchdog, WatchdogFetches, WatchdogSweeps, StaleLock, Redialing,
         RedialTimerFires, RequeueDropped, RequeueEnters, RequeueThrows, Session,
         StartBegins, StartSaved, StartAborts, StartFills, StopDialing, AgentReady, PurgeContact,
         TrimCards, Telephony, Answer, NotAnswered, AmdResult, AgentAnswers,
         AgentDoesNotAnswer, HangUp, DropAtOnce, HangupLands, PromptLost,
         FinalWebhooksLost, Reuse, CancelPendingRedials, vars
<1> DEFINE new == [lead |-> leg[j.sid].lead, att |-> AttemptsOf(j) + 1,
                   known |-> meta[j.sid][j.obj].known, cancelable |-> TRUE]
<1>2. l = leg[j.sid].lead /\ new \in redialTimers'
  BY <1>1 DEF FinishStatus, ScheduleRedial, RequeueLeadForRedial
<1>3. new.lead = leg[j.sid].lead  OBVIOUS
<1> HIDE DEF new
<1> QED BY <1>2, <1>3 DEF Backed, Waiting

\* Every redial guard has something that will drop it: a guard without one
\* would refuse the redials of its card for good (requeueLeadForRedial,
\* cancelPendingRedial, makeCall).
THEOREM GuardsAreBacked == ASSUME Orderly, Dropping PROVE Spec => []GuardBacked
<1> DEFINE IInv == PastInv /\ GuardBacked
<1>1. Init => IInv  BY PastInit DEF Init, GuardBacked
<1>2. IInv /\ [Next]_vars => IInv'
  <2> SUFFICES ASSUME IInv, [Next]_vars PROVE IInv'  OBVIOUS
  <2>1. PastInv' /\ LegTurn  BY PastNext
  <2>2. ASSUME NEW l \in pendingRedials'  PROVE l \in Backed'
    BY <2>1, BackedKept, GuardNew DEF GuardBacked, Backed
  <2> QED BY <2>1, <2>2 DEF GuardBacked, Backed
<1>3. IInv => GuardBacked  OBVIOUS
<1> QED BY <1>1, <1>2, <1>3, PTL DEF Spec

-----------------------------------------------------------------------------
(* How often a lead is dialed.                                               *)

\* With detection on, a call that was bridged was a person's, and is no
\* callback: the fresh metadata the bridge stores, which has no attempt count,
\* never earns a redial.
AmdOn ==
    /\ \A s \in Sids : meta[s][2].status # "callback"
    /\ \A s \in Sids : activeCalls[s] = 2 => leg[s].amd = "done"
    /\ \A j \in finishing : j.obj = 2 => leg[j.sid].amd = "done"

\* A card carries more attempts than its lead has been dialed, until it is
\* dialed once more.
Tries ==
    /\ \A l \in Queued(userQueue) : dialed[l] < userQueue[l]
    /\ \A i \in DOMAIN pump.batch : dialed[pump.batch[i].lead] < pump.batch[i].att
    /\ \A s \in Sids : leg[s].st = "placing" => dialed[leg[s].lead] < leg[s].att
    /\ \A s \in Sids : Engaged(s) => dialed[leg[s].lead] <= leg[s].att
    /\ \A j \in finishing : j.obj # 0 => dialed[leg[j.sid].lead] <= leg[j.sid].att
    /\ \A t \in redialTimers : dialed[t.lead] < t.att
    /\ \A r \in requeues : dialed[r.lead] < r.att
    /\ DialsBounded

TriesInv == PastInv /\ AmdOn /\ Tries

LEMMA BridgedNew ==
    ASSUME CallsInv, [Next]_vars, NEW s \in Sids, activeCalls'[s] = 2
    PROVE  activeCalls[s] = 2 \/ VoiceBridges(s) \/ HumanBridges(s)
<1>1. activeCalls \in [Sids -> 0 .. 2]  BY CallTypesNow
<1>2. ASSUME NEW c \in Sids, VoiceBridges(c) \/ (HumanBridges(c) /\ activeCalls[c] # 0)
      PROVE  activeCalls[s] = 2 \/ VoiceBridges(s) \/ HumanBridges(s)
  BY <1>1, <1>2 DEF VoiceBridges, HumanBridges, Bridged
<1>3. ASSUME NEW c \in Sids, \/ activeCalls' = [activeCalls EXCEPT ![c] = 0]
                             \/ activeCalls' = [activeCalls EXCEPT ![c] = 1]
      PROVE  activeCalls[s] = 2
  BY <1>1, <1>3
<1>4. ASSUME NEW j \in finishing, FinishStatus(j)  PROVE activeCalls[s] = 2
  <2>1. j.sid \in Sids  BY CallTypesNow
  <2> QED BY <1>3, <1>4, <2>1 DEF FinishStatus, TerminalStatus
<1>5. ASSUME NEW c \in Contacts, PurgeContact(c)  PROVE activeCalls[s] = 2
  BY <1>1, <1>5 DEF PurgeContact
<1>6. CASE StartBegins \/ StopDialing  BY <1>6 DEF StartBegins, StopDialing
<1>7. \/ \E c \in Sids : VoiceBridges(c) \/ (HumanBridges(c) /\ activeCalls[c] # 0)
      \/ \E c \in Sids : \/ activeCalls' = [activeCalls EXCEPT ![c] = 0]
                         \/ activeCalls' = [activeCalls EXCEPT ![c] = 1]
      \/ (\E j \in finishing : FinishStatus(j)) \/ (\E c \in Contacts : PurgeContact(c))
      \/ StartBegins \/ StopDialing \/ UNCHANGED activeCalls
  BY DEF Next, Step, Dialing, PumpGivesUp, PumpTakesBatch, PumpFires, PumpEnds,
         SlowCreate, CallCreated, DialBlocked, DialFrozen, DialFails,
         StatusWebhooks, CallProgress, AgentLegAnswered, AgentLegEnded, CallEnded,
         BridgeWebhooks, VoiceHolds, VoiceOverflows, HumanOverflows,
         HumanBridges, BridgeLands, BridgeFails, MachineDetected, SkipMachine,
         Watchdog, WatchdogFetches, WatchdogSweeps, StaleLock, Redialing,
         RedialTimerFires, RequeueDropped, RequeueEnters, RequeueThrows, Session,
         StartSaved, StartAborts, StartFills, AgentReady,
         TrimCards, Telephony, Answer, NotAnswered, AmdResult, AgentAnswers,
         AgentDoesNotAnswer, HangUp, DropAtOnce, HangupLands, PromptLost,
         FinalWebhooksLost, Reuse, vars
<1> QED BY <1>2, <1>3, <1>4, <1>5, <1>6, <1>7

LEMMA AmdKept ==
    ASSUME TriesInv, FALSE \notin AmdModes, PastInv', LegTurn, [Next]_vars PROVE AmdOn'
<1>1. PastInv /\ CardsInv /\ CallsInv /\ leg \in [Sids -> Leg] /\ \A s \in Sids : Fit(leg[s])
  BY CallTypesNow DEF TriesInv, PastInv, CardsInv
<1>2. ASSUME NEW s \in Sids, leg[s].voice, leg[s].amd = "off"  PROVE FALSE
  BY <1>1, <1>2 DEF Fit
<1>3. ASSUME NEW s \in Sids  PROVE meta'[s][2].status # "callback"
  <2> SUFFICES ASSUME meta'[s][2].status = "callback" PROVE FALSE  OBVIOUS
  <2>1. \/ meta[s][2].status = "callback"
        \/ 2 = activeCalls[s] /\ (VoiceOverflows(s) \/ HumanOverflows(s))
    BY <1>1, CallbackNew
  <2>2. ~VoiceOverflows(s)  BY <1>2 DEF VoiceOverflows
  <2>3. HumanOverflows(s) => leg[s].amd = "human"  BY DEF HumanOverflows
  <2> QED BY <2>1, <2>2, <2>3 DEF TriesInv, AmdOn
<1>4. ASSUME NEW s \in Sids, activeCalls'[s] = 2  PROVE leg'[s].amd = "done"
  <2>1. activeCalls[s] = 2 \/ VoiceBridges(s) \/ HumanBridges(s)  BY <1>1, <1>4, BridgedNew
  <2>2. ~VoiceBridges(s)  BY <1>2 DEF VoiceBridges
  <2>3. CASE activeCalls[s] = 2
    <3>1. leg[s].amd = "done" /\ ~Reuse(s)
      BY <2>3 DEF TriesInv, AmdOn, Reuse, Spent
    <3> QED BY <1>1, <3>1, EndedStays DEF CallsInv, OverInv
  <2>4. CASE HumanBridges(s)
    <3>1. leg' = [leg EXCEPT ![s].amd = "done"] /\ leg[s] \in Leg
      BY <1>1, <2>4 DEF HumanBridges
    <3> QED BY <1>1, <3>1 DEF Leg
  <2> QED BY <2>1, <2>2, <2>3, <2>4
<1>5. ASSUME NEW j \in finishing', j.obj = 2  PROVE leg'[j.sid].amd = "done"
  <2>1. CASE j \in finishing
    <3>1. j.sid \in Sids /\ leg[j.sid].amd = "done" /\ ~Reuse(j.sid)
      BY <1>1, <1>5, <2>1, CallTypesNow DEF TriesInv, AmdOn, Reuse, Spent
    <3> QED BY <1>1, <3>1, EndedStays DEF CallsInv, OverInv
  <2>2. CASE j \notin finishing
    <3>1. activeCalls[j.sid] = 2 /\ UNCHANGED leg  BY <1>5, <2>2, ReportsNew
    <3>2. j.sid \in Sids
      BY DEF PastInv, CardsInv, CallsInv, OverInv, LegInv, TypeInv, TypeOK, JobTypes, Finish
    <3> QED BY <3>1, <3>2 DEF TriesInv, AmdOn
  <2> QED BY <2>1, <2>2
<1> QED BY <1>3, <1>4, <1>5 DEF AmdOn

\* The cards there are to dial.
Stocked(card) ==
    \/ \E i \in DOMAIN pump.batch : card = pump.batch[i]
    \/ card.lead \in Queued(userQueue) /\ card.att = userQueue[card.lead]

LEMMA DialsStock ==
    ASSUME LegInv, Idle, PumpTakesBatch \/ PumpFires
    PROVE  /\ \E card \in Card : Stocked(card) /\ \E f : MakeCall(card, f)
           /\ \A i \in DOMAIN pump'.batch : Stocked(pump'.batch[i])
<1>1. pump.batch \in Seq(Card) /\ TypeInv /\ ~stopped
  BY DEF LegInv, TypeInv, TypeOK, QueueTypes, Idle
<1>2. CASE PumpTakesBatch
  <2>1. PICK n \in Nat \ {0} : \E b \in [1 .. n -> Queued(userQueue)] :
          /\ Cards(b, n) \in Seq(Card) /\ Cards(b, n)[1] \in Card
          /\ MakeCall(Cards(b, n)[1], leadsInFlight \cup Taken(b, n))
          /\ pump' = [stage |-> "firing", batch |-> Tail(Cards(b, n))]
    BY <1>1, <1>2, TakenBatch
  <2>2. PICK b \in [1 .. n -> Queued(userQueue)] :
          /\ Cards(b, n) \in Seq(Card) /\ Cards(b, n)[1] \in Card
          /\ MakeCall(Cards(b, n)[1], leadsInFlight \cup Taken(b, n))
          /\ pump' = [stage |-> "firing", batch |-> Tail(Cards(b, n))]
    BY <2>1
  <2> DEFINE cards == Cards(b, n)
  <2>3. \A i \in 1 .. n : Stocked(cards[i])
    <3>1. \A i \in 1 .. n : cards[i].lead = b[i] /\ cards[i].att = userQueue[b[i]]
      BY DEF Cards
    <3> HIDE DEF cards
    <3> QED BY <3>1 DEF Stocked
  <2>4. DOMAIN cards = 1 .. n /\ cards # <<>>  BY <2>2, CardsLeads
  <2>5. \A i \in DOMAIN Tail(cards) : i + 1 \in DOMAIN cards /\ Tail(cards)[i] = cards[i + 1]
    BY <2>2, <2>4, BatchSplits
  <2>6. pump'.batch = Tail(cards)  BY <2>2
  <2>7. cards[1] \in Card /\ \E f : MakeCall(cards[1], f)  BY <2>2
  <2> HIDE DEF cards
  <2>8. \A i \in DOMAIN Tail(cards) : Stocked(Tail(cards)[i])  BY <2>3, <2>4, <2>5
  <2>9. Stocked(cards[1])  BY <2>3
  <2> QED BY <2>6, <2>7, <2>8, <2>9
<1>3. CASE PumpFires
  <2> DEFINE rest == Tail(pump.batch)
  <2>1. MakeCall(Head(pump.batch), leadsInFlight) /\ pump.batch # <<>>
    BY <1>3 DEF PumpFires
  <2>2. pump'.batch = rest  BY <1>1, <1>3 DEF PumpFires, TypeInv, TypeOK, QueueTypes
  <2>3. /\ Head(pump.batch) \in Card
        /\ \A i \in DOMAIN rest : i + 1 \in DOMAIN pump.batch /\ rest[i] = pump.batch[i + 1]
    BY <1>1, <2>1, BatchSplits
  <2>4. 1 \in DOMAIN pump.batch /\ pump.batch[1] = Head(pump.batch)
    BY <1>1, <2>1
  <2> HIDE DEF rest
  <2>5. Stocked(Head(pump.batch))  BY <2>4 DEF Stocked
  <2>6. \A i \in DOMAIN rest : Stocked(rest[i])  BY <2>3 DEF Stocked
  <2> QED BY <2>1, <2>2, <2>3, <2>5, <2>6
<1> QED BY <1>2, <1>3

\* A slot that makeCall takes has the card that was dialed.
LEMMA PlacingNew ==
    ASSUME CallsInv, [Next]_vars, NEW s \in Sids, leg'[s].st = "placing"
    PROVE  leg'[s] = leg[s] \/ \E card \in Card : /\ Stocked(card)
                                                 /\ leg'[s].lead = card.lead
                                                 /\ leg'[s].att = card.att
<1>1. LegTurn  BY OverNext DEF CallsInv
<1>2. leg'[s] = leg[s] \/ (Begun(s, leg'[s]) /\ (PumpTakesBatch \/ PumpFires))
  <2>1. ~Turned(s, leg'[s])  BY DEF Turned, Placed
  <2>2. ~Dropped(s, leg'[s])
    <3>1. Dropped(s, leg'[s]) => leg'[s].st = "unused"  BY DEF Dropped, NoLeg
    <3> QED BY <3>1
  <2> QED BY <1>1, <2>1, <2>2, LegCases DEF Begun
<1>3. CASE leg'[s] # leg[s]
  <2>1. PICK card \in Card : Stocked(card) /\ \E f : MakeCall(card, f)
    BY <1>2, <1>3, DialsStock DEF CallsInv, OverInv
  <2>2. PICK c \in Sids, mode \in AmdModes :
          leg' = [leg EXCEPT ![c] =
               [NoLeg EXCEPT !.st = "placing", !.lead = card.lead, !.att = card.att,
                             !.amd = IF mode THEN "pending" ELSE "off"]]
    BY <1>3, <2>1 DEF MakeCall
  <2>3. leg \in [Sids -> Leg]  BY CallTypesNow
  <2>4. c = s  BY <1>3, <2>2, <2>3
  <2>5. leg'[s].lead = card.lead /\ leg'[s].att = card.att  BY <2>2, <2>3, <2>4 DEF NoLeg
  <2> QED BY <2>1, <2>5
<1> QED BY <1>3

\* A lead is dialed where its call gets ringing, and nowhere else.
Rings(s) ==
    /\ leg[s].st = "placing" /\ leg'[s].st = "ringing"
    /\ \A t \in Sids \ {s} : leg'[t] = leg[t]
    /\ leg'[s].lead = leg[s].lead /\ leg'[s].att = leg[s].att
    /\ dialed' = [dialed EXCEPT ![leg[s].lead] = @ + 1]
    /\ UNCHANGED <<userQueue, pump, redialTimers, requeues, finishing>>

LEMMA DialedMoves ==
    ASSUME CallsInv, [Next]_vars
    PROVE  UNCHANGED dialed \/ \E s \in Sids : Rings(s)
<1>1. leg \in [Sids -> Leg]  BY CallTypesNow
<1>2. ASSUME NEW s \in Sids, SlowCreate(s)  PROVE Rings(s)
  BY <1>1, <1>2 DEF SlowCreate, Rings, Leg, queueVars, redialVars, jobVars
<1>3. ASSUME NEW s \in Sids, CallCreated(s), ~UNCHANGED dialed  PROVE Rings(s)
  BY <1>1, <1>3 DEF CallCreated, Rings, Leg, jobVars
<1>4. ASSUME NEW s \in Sids, DialBlocked(s) \/ DialFrozen(s) \/ DialFails(s) \/ Reuse(s)
      PROVE  UNCHANGED dialed
  BY <1>4 DEF DialBlocked, DialFrozen, DialFails, Reuse, exceptAbort, history, vars
<1>5. (\E s \in Sids : \/ SlowCreate(s) \/ CallCreated(s) \/ DialBlocked(s) \/ DialFrozen(s)
                       \/ DialFails(s) \/ Reuse(s)) \/ UNCHANGED dialed
  BY DEF Next, Step, Dialing, PumpGivesUp, PumpTakesBatch, PumpFires, PumpEnds, exceptPump,
         StatusWebhooks, CallProgress, AgentLegAnswered, AgentLegEnded, CallEnded, exceptStatus,
         BridgeWebhooks, VoiceHolds, VoiceOverflows, VoiceBridges, HumanOverflows,
         HumanBridges, BridgeLands, BridgeFails, MachineDetected, SkipMachine, FinishStatus,
         Watchdog, WatchdogFetches, WatchdogSweeps, StaleLock, Redialing, exceptSweep,
         RedialTimerFires, RequeueDropped, RequeueEnters, RequeueThrows, exceptRequeue, Session,
         StartBegins, StartSaved, StartAborts, StartFills, StopDialing, AgentReady, PurgeContact,
         TrimCards, Telephony, Answer, NotAnswered, AmdResult, AgentAnswers,
         AgentDoesNotAnswer, HangUp, DropAtOnce, HangupLands, PromptLost,
         FinalWebhooksLost, history, vars
<1> QED BY <1>2, <1>3, <1>4, <1>5

\* A queued card was there, waited for a redial, or is one of a new session.
LEMMA QueueNew ==
    ASSUME CallsInv, [Next]_vars, "stop" \notin Hazards, NEW l \in Queued(userQueue')
    PROVE  \/ l \in Queued(userQueue) /\ userQueue'[l] = userQueue[l]
           \/ \E r \in requeues : r.lead = l /\ r.att = userQueue'[l]
           \/ StartFills
<1>1. userQueue \in [Leads -> Attempts] /\ requeues \subseteq Requeue  BY CallTypesNow
<1>2. l \in Leads /\ userQueue'[l] # 0  BY <1>1 DEF Queued
<1>3. ASSUME NEW P, userQueue' = RemoveWhere(userQueue, P)
      PROVE  l \in Queued(userQueue) /\ userQueue'[l] = userQueue[l]
  BY <1>1, <1>2, <1>3 DEF RemoveWhere, Queued
<1>4. ASSUME NEW r \in requeues, RequeueEnters(r)
      PROVE  \/ l \in Queued(userQueue) /\ userQueue'[l] = userQueue[l]
             \/ r.lead = l /\ r.att = userQueue'[l]
  BY <1>1, <1>2, <1>4 DEF RequeueEnters, Enqueue, Queued
<1>5. ASSUME PumpTakesBatch
      PROVE  \E P : userQueue' = RemoveWhere(userQueue, P)
  BY <1>5 DEF PumpTakesBatch
<1>6. \/ \E P : userQueue' = RemoveWhere(userQueue, P)
      \/ \E r \in requeues : RequeueEnters(r)
      \/ StartFills \/ userQueue' = userQueue
  <2>1. ~StopDialing  BY DEF StopDialing
  <2>2. ASSUME NEW c \in Contacts, PurgeContact(c)
        PROVE  \E P : userQueue' = RemoveWhere(userQueue, P)
    BY <2>2 DEF PurgeContact
  <2>3. ASSUME NEW k \in Leads, TrimCards(k)
        PROVE  \E P : userQueue' = RemoveWhere(userQueue, P)
    BY <2>3 DEF TrimCards
  <2>4. \/ (\E c \in Contacts : PurgeContact(c)) \/ (\E k \in Leads : TrimCards(k))
        \/ PumpTakesBatch \/ (\E r \in requeues : RequeueEnters(r))
        \/ StartFills \/ userQueue' = userQueue \/ StopDialing
        \/ (\E k \in skipping : SkipMachine(k)) \/ \E s \in Sids : DialBlocked(s)
    BY DEF Next, Step, Dialing, PumpGivesUp, PumpFires, PumpEnds, exceptPump,
         SlowCreate, CallCreated, DialFrozen, DialFails, exceptAbort, queueVars,
         StatusWebhooks, CallProgress, AgentLegAnswered, AgentLegEnded, CallEnded, exceptStatus,
         BridgeWebhooks, VoiceHolds, VoiceOverflows, VoiceBridges, HumanOverflows,
         HumanBridges, BridgeLands, BridgeFails, MachineDetected, FinishStatus,
         Watchdog, WatchdogFetches, WatchdogSweeps, StaleLock, Redialing, exceptSweep,
         RedialTimerFires, RequeueDropped, RequeueThrows, exceptRequeue, Session,
         StartBegins, StartSaved, StartAborts, AgentReady, Telephony, Answer, NotAnswered, AmdResult,
         AgentAnswers, AgentDoesNotAnswer, HangUp, DropAtOnce, HangupLands, PromptLost,
         FinalWebhooksLost, Reuse, vars
  <2>5. ASSUME NEW k \in skipping, SkipMachine(k)
        PROVE  userQueue' = userQueue \/ \E P : userQueue' = RemoveWhere(userQueue, P)
    BY <2>5 DEF SkipMachine
  <2>6. ASSUME NEW s \in Sids, DialBlocked(s)
        PROVE  userQueue' = userQueue \/ \E P : userQueue' = RemoveWhere(userQueue, P)
    BY <2>6 DEF DialBlocked, exceptAbort
  <2> DEFINE Goal == \/ \E P : userQueue' = RemoveWhere(userQueue, P)
                     \/ \E r \in requeues : RequeueEnters(r)
                     \/ StartFills \/ userQueue' = userQueue
  <2> HIDE DEF Goal
  <2>9. ASSUME NEW c \in Contacts, PurgeContact(c)  PROVE Goal  BY <2>2, <2>9 DEF Goal
  <2>10. ASSUME NEW k \in Leads, TrimCards(k)  PROVE Goal  BY <2>3, <2>10 DEF Goal
  <2>11. ASSUME NEW k \in skipping, SkipMachine(k)  PROVE Goal  BY <2>5, <2>11 DEF Goal
  <2>12. ASSUME NEW s \in Sids, DialBlocked(s)  PROVE Goal  BY <2>6, <2>12 DEF Goal
  <2>13. ASSUME PumpTakesBatch  PROVE Goal  BY <1>5, <2>13 DEF Goal
  <2>14. ASSUME (\E r \in requeues : RequeueEnters(r)) \/ StartFills \/ userQueue' = userQueue
         PROVE  Goal
    BY <2>14 DEF Goal
  <2>15. Goal  BY <2>1, <2>4, <2>9, <2>10, <2>11, <2>12, <2>13, <2>14
  <2> QED BY <2>15 DEF Goal
<1>7. CASE \E P : userQueue' = RemoveWhere(userQueue, P)  BY <1>3, <1>7
<1>8. CASE \E r \in requeues : RequeueEnters(r)
  <2>1. PICK r \in requeues : RequeueEnters(r)  BY <1>8
  <2> QED BY <1>4, <2>1
<1>9. CASE userQueue' = userQueue  BY <1>2, <1>9 DEF Queued
<1> QED BY <1>6, <1>7, <1>8, <1>9

LEMMA TriesInit == Init => TriesInv
<1> SUFFICES ASSUME Init PROVE TriesInv  OBVIOUS
<1>1. PastInv  BY PastInit
<1>2. \A s \in Sids : leg[s] = NoLeg  BY DEF Init
<1>3. AmdOn  BY DEF Init, AmdOn, NewMeta
<1>4. \A s \in Sids : leg[s].st = "unused" /\ ~Engaged(s)  BY <1>2 DEF Init, Engaged, NoLeg
<1>5. Queued(userQueue) = {} /\ pump.batch = <<>>  BY DEF Init, Queued
<1>6. DialsBounded  BY DialerAssumption DEF Init, DialsBounded
<1>7. DOMAIN pump.batch = {}  BY <1>5
<1> QED BY <1>1, <1>3, <1>4, <1>5, <1>6, <1>7 DEF Init, TriesInv, Tries

\* Every count that waits is of an attempt still to be made.
LEMMA TriesTypes ==
    ASSUME TriesInv
    PROVE  /\ dialed \in [Leads -> Nat] /\ MaxAttempts \in Nat
           /\ \A s \in Sids : leg[s].att \in Nat /\ leg[s].att <= MaxAttempts
           /\ \A s \in Sids : leg[s].st # "unused" => leg[s].lead \in Leads
           /\ \A r \in requeues : r.lead \in Leads /\ r.att \in Nat
           /\ \A t \in redialTimers : t.lead \in Leads /\ t.att \in Nat
           /\ \A l \in Leads : userQueue[l] \in Nat
           /\ \A i \in DOMAIN pump.batch : pump.batch[i].lead \in Leads /\ pump.batch[i].att \in Nat
<1>1. CallsInv /\ TypeInv /\ MaxAttempts \in Nat /\ Attempts = 0 .. MaxAttempts
  BY DialerAssumption DEF TriesInv, PastInv, CardsInv, CallsInv, OverInv, LegInv, Attempts
<1>2. dialed \in [Leads -> Nat]
  BY <1>1, DialerAssumption DEF TypeInv, TypeOK, HistoryTypes
<1>3. \A i \in DOMAIN pump.batch : pump.batch[i] \in Card  BY <1>1, CallTypesNow
<1>4. \A a \in Attempts : a \in Nat /\ a <= MaxAttempts  BY <1>1
<1>5. \A s \in Sids : leg[s] \in Leg /\ Sound(leg[s])  BY <1>1, CallTypesNow
<1>6. \A s \in Sids : leg[s].att \in Attempts  BY <1>5 DEF Leg
<1>7. /\ \A r \in requeues : r \in Requeue
      /\ \A u \in redialTimers : u \in Timer
      /\ userQueue \in [Leads -> Attempts]
  BY <1>1, CallTypesNow
<1>8. /\ \A r \in requeues : r.lead \in Leads /\ r.att \in Attempts
      /\ \A u \in redialTimers : u.lead \in Leads /\ u.att \in Attempts
      /\ \A i \in DOMAIN pump.batch : pump.batch[i].lead \in Leads /\ pump.batch[i].att \in Attempts
  BY <1>3, <1>7 DEF Requeue, Timer, Card
<1> QED BY <1>1, <1>2, <1>4, <1>5, <1>6, <1>7, <1>8 DEF Sound

\* The call that gets ringing has its lead's card to itself.
LEMMA RingsTries ==
    ASSUME TriesInv, Orderly, [Next]_vars, NEW s0 \in Sids, Rings(s0) PROVE Tries'
<1> DEFINE l0 == leg[s0].lead
<1>1. /\ CallsInv /\ CardsInv /\ Tries /\ Apart /\ Once
      /\ Engaged(s0) /\ l0 \in Leads /\ l0 \in Calling
  BY TriesTypes DEF TriesInv, PastInv, CardsInv, Rings, Engaged, Calling
<1>2. Alone(s0) /\ l0 \notin TimerLeads  BY <1>1, EngagedAlone
<1>3. /\ dialed'[l0] = dialed[l0] + 1 /\ dialed[l0] \in Nat
      /\ \A l \in Leads \ {l0} : dialed'[l] = dialed[l]
  BY <1>1, TriesTypes DEF Rings
<1>4. ~PumpTakesBatch /\ ~PumpFires
  BY <1>3 DEF PumpTakesBatch, PumpFires, exceptPump, history
<1>5. dialed[l0] < leg[s0].att /\ leg[s0].att \in Nat /\ leg[s0].att <= MaxAttempts /\ MaxAttempts \in Nat
  BY <1>1, TriesTypes DEF Tries, Rings
<1>6. /\ l0 \notin Queued(userQueue) \cup Batched \cup RequeueLeads
      /\ \A t \in Sids : Engaged(t) /\ leg[t].lead = l0 => t = s0
  BY <1>2 DEF Alone
<1>7. /\ \A t \in Sids \ {s0} : leg'[t] = leg[t]
      /\ leg'[s0].st = "ringing" /\ leg'[s0].lead = l0 /\ leg'[s0].att = leg[s0].att
      /\ UNCHANGED <<userQueue, pump, redialTimers, requeues, finishing>>
  BY DEF Rings
<1> HIDE DEF l0
<1>8. \A l \in Queued(userQueue') : dialed'[l] < userQueue'[l]
  BY <1>1, <1>3, <1>6, <1>7 DEF Tries, Queued
<1>9. \A i \in DOMAIN pump'.batch : dialed'[pump'.batch[i].lead] < pump'.batch[i].att
  <2> TAKE i \in DOMAIN pump'.batch
  <2>1. i \in DOMAIN pump.batch /\ pump'.batch[i] = pump.batch[i]  BY <1>7
  <2>2. pump.batch[i].lead \in Batched /\ pump.batch[i].lead \in Leads
    BY <2>1, TriesTypes DEF Batched
  <2> QED BY <1>1, <1>3, <1>6, <2>1, <2>2 DEF Tries
<1>10. ASSUME NEW s \in Sids, leg'[s].st = "placing"  PROVE dialed'[leg'[s].lead] < leg'[s].att
  <2>1. s # s0 /\ leg'[s] = leg[s]  BY <1>7, <1>10
  <2>2. Engaged(s) /\ leg[s].lead \in Leads  BY <1>10, <2>1, TriesTypes DEF Engaged
  <2> QED BY <1>1, <1>3, <1>6, <1>10, <2>1, <2>2 DEF Tries
<1>11. ASSUME NEW s \in Sids, Engaged(s)'  PROVE dialed'[leg'[s].lead] <= leg'[s].att
  <2>1. Engaged(s) /\ leg'[s].lead = leg[s].lead /\ leg'[s].att = leg[s].att
    BY <1>1, <1>4, <1>11, EngagedMoves
  <2>2. CASE s = s0  BY <1>3, <1>5, <1>7, <2>2 DEF l0
  <2>3. CASE s # s0
    <3>1. leg[s].st # "unused"
      BY <1>1, <2>1, CallTypesNow DEF Engaged, CallsInv, TrackedPlaced, Placed, Fit
    <3> QED BY <1>1, <1>3, <1>6, <2>1, <2>3, <3>1, TriesTypes DEF Tries
  <2> QED BY <2>2, <2>3
<1>12. ASSUME NEW j \in finishing', j.obj # 0  PROVE dialed'[leg'[j.sid].lead] <= leg'[j.sid].att
  <2>1. j \in finishing /\ j.sid \in Sids /\ leg[j.sid].st = "ended"  BY <1>1, <1>7, CallTypesNow
  <2>2. j.sid # s0  BY <2>1 DEF Rings
  <2>3. Alone(j.sid)  BY <1>12, <2>1 DEF TriesInv, PastInv, CardsInv, Late
  <2>4. leg[j.sid].lead # l0  BY <1>1, <2>2, <2>3 DEF Alone, l0
  <2> QED BY <1>1, <1>3, <1>7, <1>12, <2>1, <2>2, <2>4, TriesTypes DEF Tries
<1>13. ASSUME NEW t \in redialTimers'  PROVE dialed'[t.lead] < t.att
  <2>1. t \in redialTimers /\ t.lead \in TimerLeads /\ t.lead \in Leads
    BY <1>7, TriesTypes DEF TimerLeads
  <2> QED BY <1>1, <1>2, <1>3, <2>1 DEF Tries, l0
<1>14. ASSUME NEW r \in requeues'  PROVE dialed'[r.lead] < r.att
  <2>1. r \in requeues /\ r.lead \in RequeueLeads /\ r.lead \in Leads
    BY <1>7, TriesTypes DEF RequeueLeads
  <2> QED BY <1>1, <1>3, <1>6, <2>1 DEF Tries
<1>15. ASSUME NEW l \in Leads  PROVE dialed'[l] <= MaxAttempts
  BY <1>1, <1>3, <1>5, TriesTypes DEF Tries, DialsBounded
<1> QED BY <1>8, <1>9, <1>10, <1>11, <1>12, <1>13, <1>14, <1>15 DEF Tries, DialsBounded

\* A step that dials nothing leaves no card with fewer attempts than dials.
LEMMA QuietTries ==
    ASSUME TriesInv, Orderly, FALSE \notin AmdModes, [Next]_vars, PastInv', LegTurn,
           UNCHANGED dialed
    PROVE  Tries'
<1>1. CallsInv /\ CardsInv /\ PastInv /\ Tries /\ AmdOn /\ LegInv /\ Idle /\ "stop" \notin Hazards
  BY DEF TriesInv, PastInv, CardsInv, CallsInv, OverInv, Orderly
<1>2. dialed \in [Leads -> Nat] /\ MaxAttempts \in Nat  BY TriesTypes
<1>3. ASSUME NEW card \in Card, Stocked(card)  PROVE dialed[card.lead] < card.att
  BY <1>1, <1>3 DEF Stocked, Tries
<1>4. ASSUME NEW l \in Queued(userQueue')  PROVE dialed[l] < userQueue'[l]
  <2>1. CASE l \in Queued(userQueue) /\ userQueue'[l] = userQueue[l]  BY <1>1, <2>1 DEF Tries
  <2>2. CASE \E r \in requeues : r.lead = l /\ r.att = userQueue'[l]  BY <1>1, <2>2 DEF Tries
  <2>3. CASE StartFills
    <3>1. Empty  BY <1>1, <2>3 DEF StartFills, CallsInv, Fresh, Unstarted
    <3>2. l \in Leads /\ dialed[l] = 0  BY <3>1 DEF Empty, Queued
    <3>3. userQueue \in [Leads -> Attempts] /\ userQueue[l] = 0
      BY <1>1, <3>1, <3>2, CallTypesNow DEF Empty, Queued
    <3>4. userQueue'[l] = 1  BY <2>3, <3>2, <3>3 DEF StartFills, Enqueue
    <3> QED BY <3>2, <3>4
  <2> QED BY <1>1, <2>1, <2>2, <2>3, QueueNew
<1>5. ASSUME NEW i \in DOMAIN pump'.batch
      PROVE  dialed[pump'.batch[i].lead] < pump'.batch[i].att
  <2>1. CASE pump'.batch = pump.batch  BY <1>1, <1>5, <2>1 DEF Tries
  <2>2. CASE PumpTakesBatch \/ PumpFires
    <3>1. Stocked(pump'.batch[i])  BY <1>1, <1>5, <2>2, DialsStock
    <3>2. pump'.batch \in Seq(Card)
      BY DEF PastInv, CardsInv, CallsInv, OverInv, LegInv, TypeInv, TypeOK, QueueTypes
    <3>3. pump'.batch[i] \in Card  BY <1>5, <3>2
    <3> QED BY <1>3, <3>1, <3>3
  <2> QED BY <1>1, <2>1, <2>2, PumpQuiet
<1>6. ASSUME NEW s \in Sids, leg'[s].st = "placing"  PROVE dialed[leg'[s].lead] < leg'[s].att
  <2>1. CASE leg'[s] = leg[s]  BY <1>1, <1>6, <2>1 DEF Tries
  <2>2. CASE \E card \in Card : /\ Stocked(card)
                                /\ leg'[s].lead = card.lead /\ leg'[s].att = card.att
    BY <1>3, <2>2
  <2> QED BY <1>1, <1>6, <2>1, <2>2, PlacingNew
<1>7. ASSUME NEW s \in Sids, Engaged(s)'  PROVE dialed[leg'[s].lead] <= leg'[s].att
  <2>1. CASE Engaged(s) /\ leg'[s].lead = leg[s].lead /\ leg'[s].att = leg[s].att
    BY <1>1, <2>1 DEF Tries
  <2>2. CASE leg[s].st = "unused" /\ (PumpTakesBatch \/ PumpFires)
    <3>1. leg'[s].st # "unused"
      BY <1>7 DEF Engaged, PastInv, CardsInv, CallsInv, OverInv, LegInv, TrackedPlaced, Placed, Fit
    <3>2. leg'[s].st = "placing"
      <4>1. ~Turned(s, leg'[s])  BY <2>2 DEF Turned
      <4>2. Dropped(s, leg'[s]) => leg'[s].st = "unused"  BY DEF Dropped, NoLeg
      <4>3. Begun(s, leg'[s])  BY <1>1, <2>2, <3>1, <4>1, <4>2, LegCases
      <4>4. PICK card \in Card, amd \in {"off", "pending"} :
              leg'[s] = [NoLeg EXCEPT !.st = "placing", !.lead = card.lead, !.att = card.att, !.amd = amd]
        BY <4>3 DEF Begun
      <4> QED BY <4>4 DEF NoLeg
    <3>3. dialed[leg'[s].lead] < leg'[s].att  BY <1>6, <3>2
    <3>4. leg'[s].lead \in Leads /\ leg'[s].att \in Nat
      <4>1. leg'[s] \in Leg /\ Sound(leg'[s])
        BY CallTypesNow DEF PastInv, CardsInv, CallsInv, OverInv, LegInv, TypeInv, TypeOK, TwilioTypes
      <4> QED BY <3>1, <4>1, DialerAssumption DEF Leg, Sound, Attempts
    <3> QED BY <1>2, <3>3, <3>4
  <2> QED BY <1>1, <1>7, <2>1, <2>2, EngagedMoves
<1>8. ASSUME NEW j \in finishing', j.obj # 0  PROVE dialed[leg'[j.sid].lead] <= leg'[j.sid].att
  <2>1. CASE j \in finishing
    <3>1. j.sid \in Sids /\ leg[j.sid].st = "ended" /\ ~Reuse(j.sid)
      BY <1>1, <2>1, CallTypesNow DEF Reuse, Spent
    <3>2. leg'[j.sid].lead = leg[j.sid].lead /\ leg'[j.sid].att = leg[j.sid].att
      BY <1>1, <3>1, EndedKeeps
    <3> QED BY <1>1, <1>8, <2>1, <3>2 DEF Tries
  <2>2. CASE j \notin finishing
    <3>1. j.obj = activeCalls[j.sid] /\ UNCHANGED leg  BY <1>8, <2>2, ReportsNew
    <3>2. j.sid \in Sids
      BY DEF PastInv, CardsInv, CallsInv, OverInv, LegInv, TypeInv, TypeOK, JobTypes, Finish
    <3>3. Engaged(j.sid)  BY <1>8, <3>1 DEF Engaged
    <3> QED BY <1>1, <3>1, <3>2, <3>3 DEF Tries
  <2> QED BY <2>1, <2>2
<1>9. ASSUME NEW t \in redialTimers'  PROVE dialed[t.lead] < t.att
  <2>1. CASE t \in redialTimers  BY <1>1, <2>1 DEF Tries
  <2>2. CASE \E j \in finishing : /\ FinishStatus(j) /\ Earns(j)
                                  /\ t.lead = leg[j.sid].lead /\ t.att = AttemptsOf(j) + 1
    <3>1. PICK j \in finishing : /\ Earns(j)
                                 /\ t.lead = leg[j.sid].lead /\ t.att = AttemptsOf(j) + 1
      BY <2>2
    <3>2. j.sid \in Sids /\ j.obj \in 0 .. 2 /\ leg[j.sid].st = "ended"
      BY <1>1, CallTypesNow DEF Finish
    <3>3. j.obj # 2
      <4>1. SUFFICES ASSUME j.obj = 2 PROVE FALSE  OBVIOUS
      <4>2. leg[j.sid].amd = "done"  BY <1>1, <4>1 DEF AmdOn
      <4>3. meta[j.sid][2].status # "callback"  BY <1>1, <3>2 DEF AmdOn
      <4>4. j.status = "no-answer" /\ ~j.child  BY <3>1, <4>1, <4>3 DEF Earns, WantsRedial
      <4> QED BY <1>1, <4>2, <4>4 DEF PastInv, NoAnswerEarly
    <3>4. j.obj = 1  BY <3>1, <3>2, <3>3 DEF Earns
    <3>5. t.att = leg[j.sid].att + 1  BY <3>1, <3>4 DEF AttemptsOf
    <3>6. dialed[leg[j.sid].lead] <= leg[j.sid].att  BY <1>1, <3>4 DEF Tries
    <3>7. leg[j.sid].lead \in Leads /\ leg[j.sid].att \in Nat  BY <3>2, TriesTypes
    <3> QED BY <1>2, <3>1, <3>5, <3>6, <3>7
  <2> QED BY <1>1, <2>1, <2>2, TimerNew
<1>10. ASSUME NEW r \in requeues'  PROVE dialed[r.lead] < r.att
  BY <1>1, <1>10, RequeueNew DEF Tries
<1> QED BY <1>1, <1>4, <1>5, <1>6, <1>7, <1>8, <1>9, <1>10 DEF Tries, DialsBounded

LEMMA TriesNext ==
    ASSUME TriesInv, Orderly, FALSE \notin AmdModes, [Next]_vars PROVE TriesInv'
<1>1. PastInv /\ CallsInv  BY DEF TriesInv, PastInv, CardsInv
<1>2. PastInv' /\ LegTurn  BY <1>1, PastNext
<1>3. AmdOn'  BY <1>2, AmdKept
<1>4. Tries'
  <2>1. CASE UNCHANGED dialed  BY <1>2, <2>1, QuietTries
  <2>2. CASE \E s \in Sids : Rings(s)  BY <2>2, RingsTries
  <2> QED BY <1>1, <2>1, <2>2, DialedMoves
<1> QED BY <1>2, <1>3, <1>4 DEF TriesInv

\* Within a session a lead is dialed at most MaxAttempts times, however its
\* calls, redials and removals interleave (makeCall, updateCallStatus,
\* requeueLeadForRedial).  Detection is on: without it a conversation's
\* metadata forgets the attempts.
THEOREM DialsAreBounded ==
    ASSUME Orderly, FALSE \notin AmdModes PROVE Spec => []DialsBounded
<1>1. TriesInv /\ [Next]_vars => TriesInv'  BY TriesNext
<1>2. TriesInv => DialsBounded  BY DEF TriesInv, Tries
<1> QED BY TriesInit, <1>1, <1>2, PTL DEF Spec

-----------------------------------------------------------------------------
(* Capacity: what is on its way to Twilio has a place in leadsInFlight, and  *)
(* the batch is no larger than the room there was.                           *)

InFlight == Placing \cup Batched \subseteq leadsInFlight
WithinBudget == Cardinality(Tracked) + Cardinality(leadsInFlight) <= Pacing
LinesInv == CardsInv /\ InFlight /\ WithinBudget

\* makeCall moves one lead of the batch to a call, or drops it.
LEMMA MakeCallFlight ==
    ASSUME CallsInv, NEW card \in Card, NEW f, MakeCall(card, f), card.lead \in f,
           NEW B, Placing \cup B \subseteq f \ {card.lead}
    PROVE  Placing' \cup B \subseteq leadsInFlight' /\ leadsInFlight' \subseteq f
<1>1. CASE ContactOf[card.lead] \in removedContacts
  <2>1. leadsInFlight' = f \ {card.lead} /\ leg' = leg  BY <1>1 DEF MakeCall
  <2>2. Placing' = Placing  BY <2>1 DEF Placing
  <2> QED BY <2>1, <2>2
<1>2. CASE ContactOf[card.lead] \notin removedContacts
  <2>1. PICK s \in Sids, mode \in AmdModes :
          leg' = [leg EXCEPT ![s] =
               [NoLeg EXCEPT !.st = "placing", !.lead = card.lead, !.att = card.att,
                             !.amd = IF mode THEN "pending" ELSE "off"]]
    BY <1>2 DEF MakeCall
  <2>2. leg \in [Sids -> Leg]  BY CallTypesNow
  <2>3. leg'[s].lead = card.lead /\ \A t \in Sids \ {s} : leg'[t] = leg[t]
    BY <2>1, <2>2 DEF NoLeg
  <2>4. Placing' \subseteq Placing \cup {card.lead}  BY <2>3 DEF Placing
  <2>5. leadsInFlight' = f  BY <1>2 DEF MakeCall
  <2> QED BY <2>4, <2>5
<1> QED BY <1>1, <1>2

LEMMA PlacingCalls == Placing \subseteq Calling
  BY DEF Placing, Calling, Engaged

\* What is taken from the queue fits in the room there is.
LEMMA TakenCount ==
    ASSUME NEW n \in Nat, NEW S, NEW b \in [1 .. n -> S]
    PROVE  IsFiniteSet(Taken(b, n)) /\ Cardinality(Taken(b, n)) <= n
<1>1. b \in Surjection(1 .. n, Taken(b, n))  BY DEF Surjection, Taken
<1>2. ExistsSurjection(1 .. n, Taken(b, n))  BY <1>1 DEF ExistsSurjection
<1> QED BY <1>2, FS_SurjCardinalityBound, FS_NatSurjection

LEMMA LinesTypes ==
    ASSUME CallsInv
    PROVE  /\ IsFiniteSet(Sids) /\ IsFiniteSet(Leads) /\ leadsInFlight \subseteq Leads
           /\ IsFiniteSet(leadsInFlight) /\ Cardinality(leadsInFlight) \in Nat
           /\ IsFiniteSet(Tracked) /\ Cardinality(Tracked) \in Nat
           /\ Pacing \in Nat
<1>1. leadsInFlight \subseteq Leads
  BY DEF CallsInv, OverInv, LegInv, TypeInv, TypeOK, QueueTypes
<1>2. Tracked \subseteq Sids  BY DEF Tracked
<1> QED BY <1>1, <1>2, DialerAssumption, FS_Subset, FS_CardinalityType

\* The pump: the batch is dequeued, and its calls are fired.
LEMMA PumpLines ==
    ASSUME LinesInv, Orderly, PumpTakesBatch \/ PumpFires
    PROVE  InFlight' /\ WithinBudget'
<1>1. /\ CallsInv /\ Apart /\ Once /\ pump.batch \in Seq(Card) /\ ~stopped /\ TypeInv
      /\ Placing \subseteq Calling
  BY CallTypesNow, PlacingCalls DEF LinesInv, CardsInv, CallsInv, OverInv, LegInv, Idle
<1>2. activeCalls' = activeCalls
  BY DEF PumpTakesBatch, PumpFires, exceptPump, callVars
<1>3. Tracked' = Tracked  BY <1>2 DEF Tracked
<1>4. CASE PumpTakesBatch
  <2>1. PICK n \in Nat \ {0} : \E b \in [1 .. n -> Queued(userQueue)] :
          /\ n <= Room
          /\ \A i, k \in 1 .. n : i # k => b[i] # b[k]
          /\ Cards(b, n) \in Seq(Card) /\ Cards(b, n)[1] \in Card
          /\ MakeCall(Cards(b, n)[1], leadsInFlight \cup Taken(b, n))
          /\ pump' = [stage |-> "firing", batch |-> Tail(Cards(b, n))]
    BY <1>1, <1>4, TakenBatch
  <2>2. PICK b \in [1 .. n -> Queued(userQueue)] :
          /\ n <= Room
          /\ \A i, k \in 1 .. n : i # k => b[i] # b[k]
          /\ Cards(b, n) \in Seq(Card) /\ Cards(b, n)[1] \in Card
          /\ MakeCall(Cards(b, n)[1], leadsInFlight \cup Taken(b, n))
          /\ pump' = [stage |-> "firing", batch |-> Tail(Cards(b, n))]
    BY <2>1
  <2> DEFINE cards == Cards(b, n)
             T == Taken(b, n)
             f == leadsInFlight \cup T
  <2>3. DOMAIN cards = 1 .. n /\ cards # <<>> /\ LeadsOf(cards) = T
    BY <2>2, CardsLeads
  <2>4. Batched' = LeadsOf(Tail(cards))  BY <2>2 DEF Batched, LeadsOf
  <2>5. \A i \in 1 .. n : cards[i].lead = b[i]  BY DEF Cards
  <2>6. \A i \in DOMAIN Tail(cards) : i + 1 \in 1 .. n /\ Tail(cards)[i] = cards[i + 1]
    BY <2>2, <2>3, BatchSplits
  <2>7. 1 \in 1 .. n /\ \A i \in DOMAIN Tail(cards) : i \in Nat /\ i # 0
    BY <2>2
  <2>8. b[1] \in T /\ T \subseteq Queued(userQueue)  BY <2>2, <2>7 DEF Taken
  <2>9. Batched' \subseteq T \ {b[1]}
    <3> SUFFICES ASSUME NEW i \in DOMAIN Tail(cards)
                 PROVE  Tail(cards)[i].lead \in T /\ Tail(cards)[i].lead # b[1]
      BY <2>4 DEF LeadsOf
    <3>1. Tail(cards)[i].lead = b[i + 1]  BY <2>3, <2>5, <2>6
    <3>2. i + 1 \in 1 .. n /\ i + 1 # 1  BY <2>6, <2>7
    <3> QED BY <2>2, <2>7, <3>1, <3>2 DEF Taken
  <2>10. Placing \cup Batched' \subseteq f \ {b[1]}
    <3>1. Placing \cap T = {}  BY <1>1, <2>8 DEF Apart
    <3>2. Placing \subseteq leadsInFlight  BY DEF LinesInv, InFlight
    <3>3. b[1] \notin Placing  BY <2>8, <3>1
    <3> QED BY <2>9, <3>2, <3>3
  <2>11. MakeCall(cards[1], f) /\ cards[1] \in Card  BY <2>2
  <2>12. cards[1].lead \in f  BY <2>5, <2>7, <2>8
  <2>13. Placing \cup Batched' \subseteq f \ {cards[1].lead}  BY <2>5, <2>7, <2>10
  <2>14. Placing' \cup Batched' \subseteq leadsInFlight' /\ leadsInFlight' \subseteq f
    <3> HIDE DEF cards, f
    <3> QED BY <1>1, <2>11, <2>12, <2>13, MakeCallFlight
  <2>15. Cardinality(leadsInFlight') <= Cardinality(leadsInFlight) + n
    <3>1. IsFiniteSet(T) /\ Cardinality(T) <= n /\ Cardinality(T) \in Nat
      BY TakenCount, FS_CardinalityType
    <3>2. IsFiniteSet(leadsInFlight) /\ Cardinality(leadsInFlight) \in Nat
      BY <1>1, LinesTypes
    <3>3. /\ IsFiniteSet(f)
          /\ Cardinality(f) = Cardinality(leadsInFlight) + Cardinality(T)
                              - Cardinality(leadsInFlight \cap T)
      BY <3>1, <3>2, FS_Union
    <3>4. Cardinality(leadsInFlight \cap T) \in Nat
      BY <3>2, FS_Intersection, FS_CardinalityType
    <3>5. leadsInFlight' \in SUBSET f  BY <2>14
    <3>6. Cardinality(leadsInFlight') <= Cardinality(f) /\ Cardinality(leadsInFlight') \in Nat
      BY <3>3, <3>5, FS_Subset, FS_CardinalityType
    <3> QED BY <3>1, <3>2, <3>3, <3>4, <3>6
  <2>16. Cardinality(Tracked') + Cardinality(leadsInFlight') <= Pacing
    <3>1. n <= Pacing - Cardinality(Tracked) - Cardinality(leadsInFlight)
      BY <2>2 DEF Room
    <3>2. Cardinality(leadsInFlight') \in Nat
      <4>1. leadsInFlight' \subseteq f  BY <2>14
      <4>2. f \subseteq Leads  BY <1>1, <2>8, LinesTypes DEF Queued
      <4> QED BY <4>1, <4>2, DialerAssumption, FS_Subset, FS_CardinalityType
    <3> QED BY <1>1, <1>3, <2>15, <3>1, <3>2, LinesTypes
  <2> QED BY <2>14, <2>16 DEF InFlight, WithinBudget
<1>5. CASE PumpFires
  <2> DEFINE h == Head(pump.batch)
  <2>1. MakeCall(h, leadsInFlight) /\ pump.batch # <<>>  BY <1>5 DEF PumpFires
  <2>2. pump'.batch = Tail(pump.batch)
    BY <1>1, <1>5 DEF PumpFires, TypeInv, TypeOK, QueueTypes
  <2>3. /\ h \in Card /\ LeadsOf(pump.batch) = {h.lead} \cup LeadsOf(Tail(pump.batch))
        /\ \A i \in DOMAIN Tail(pump.batch) :
             i + 1 \in DOMAIN pump.batch /\ Tail(pump.batch)[i] = pump.batch[i + 1]
    BY <1>1, <2>1, BatchSplits
  <2>4. Batched = LeadsOf(pump.batch) /\ Batched' = LeadsOf(Tail(pump.batch))
    BY <2>2 DEF Batched, LeadsOf
  <2>5. 1 \in DOMAIN pump.batch /\ pump.batch[1] = h
        /\ \A i \in DOMAIN Tail(pump.batch) : i \in Nat /\ i # 0
    BY <1>1, <2>1
  <2>6. h.lead \notin Batched'
    <3> SUFFICES ASSUME NEW i \in DOMAIN Tail(pump.batch), Tail(pump.batch)[i].lead = h.lead
                 PROVE  FALSE
      BY <2>4 DEF LeadsOf
    <3>1. pump.batch[i + 1].lead = pump.batch[1].lead /\ i + 1 \in DOMAIN pump.batch
      BY <2>3, <2>5
    <3>2. i + 1 = 1  BY <1>1, <2>5, <3>1 DEF Once, Distinct
    <3> QED BY <2>5, <3>2
  <2>7. h.lead \in Batched /\ Batched' \subseteq Batched  BY <2>3, <2>4
  <2>8. h.lead \notin Placing  BY <1>1, <2>7 DEF Apart
  <2>9. Placing' \cup Batched' \subseteq leadsInFlight' /\ leadsInFlight' \subseteq leadsInFlight
    <3>1. Placing \cup Batched' \subseteq leadsInFlight \ {h.lead}
      BY <2>6, <2>7, <2>8 DEF LinesInv, InFlight
    <3>2. h.lead \in leadsInFlight  BY <2>7 DEF LinesInv, InFlight
    <3> HIDE DEF h
    <3> QED BY <1>1, <2>1, <2>3, <3>1, <3>2, MakeCallFlight
  <2>10. Cardinality(leadsInFlight') <= Cardinality(leadsInFlight)
         /\ Cardinality(leadsInFlight') \in Nat
    BY <1>1, <2>9, LinesTypes, FS_Subset, FS_CardinalityType
  <2> QED BY <1>1, <1>3, <2>9, <2>10, LinesTypes DEF InFlight, LinesInv, WithinBudget
<1> QED BY <1>4, <1>5

\* Away from the pump an entry leaves leadsInFlight with its own call.
LEMMA FlightMoves ==
    ASSUME [Next]_vars, "stop" \notin Hazards
    PROVE  \/ PumpTakesBatch \/ PumpFires \/ leadsInFlight' = leadsInFlight
           \/ \E s \in Sids : /\ OnItsWay(leg[s]) /\ (CallCreated(s) \/ Aborts(s))
                              /\ leadsInFlight' = leadsInFlight \ {leg[s].lead}
<1>1. ~StopDialing  BY DEF StopDialing
<1>2. ASSUME NEW s \in Sids, CallCreated(s)
      PROVE  OnItsWay(leg[s]) /\ leadsInFlight' = leadsInFlight \ {leg[s].lead}
  BY <1>2 DEF CallCreated, OnItsWay
<1>3. ASSUME NEW s \in Sids, Aborts(s)
      PROVE  OnItsWay(leg[s]) /\ leadsInFlight' = leadsInFlight \ {leg[s].lead}
  BY <1>3 DEF Aborts, DialBlocked, DialFrozen, DialFails, OnItsWay
<1>4. \/ PumpTakesBatch \/ PumpFires \/ StopDialing
      \/ (\E s \in Sids : CallCreated(s)) \/ (\E s \in Sids : Aborts(s))
      \/ leadsInFlight' = leadsInFlight
  BY DEF Next, Step, Dialing, PumpGivesUp, PumpEnds, SlowCreate, Aborts,
        StatusWebhooks, CallProgress, AgentLegAnswered, AgentLegEnded, CallEnded,
        BridgeWebhooks, VoiceHolds, VoiceOverflows, VoiceBridges, HumanOverflows,
        HumanBridges, BridgeLands, BridgeFails, MachineDetected, SkipMachine,
        Watchdog, WatchdogFetches, WatchdogSweeps, StaleLock, Redialing,
        RedialTimerFires, RequeueDropped, RequeueEnters, RequeueThrows, Session,
        StartBegins, StartSaved, StartAborts, StartFills, AgentReady, PurgeContact, TrimCards,
        Telephony, Answer, NotAnswered, AmdResult, AgentAnswers, AgentDoesNotAnswer,
        HangUp, DropAtOnce, HangupLands, PromptLost, FinalWebhooksLost, Reuse,
        FinishStatus, vars
<1> QED BY <1>1, <1>2, <1>3, <1>4

\* Only the pump puts a call on its way.
LEMMA OnItsWayBefore ==
    ASSUME CallsInv, LegTurn, ~PumpTakesBatch, ~PumpFires, NEW s \in Sids, OnItsWay(leg'[s])
    PROVE  OnItsWay(leg[s]) /\ leg'[s].lead = leg[s].lead
<1>1. ~Begun(s, leg'[s])  BY DEF Begun
<1>2. ~Dropped(s, leg'[s])
  <2>1. Dropped(s, leg'[s]) => leg'[s] = NoLeg  BY DEF Dropped
  <2>2. ~OnItsWay(NoLeg)  BY DEF OnItsWay, NoLeg
  <2> QED BY <2>1, <2>2
<1>3. leg'[s] = leg[s] \/ Turned(s, leg'[s])  BY <1>1, <1>2, LegCases
<1>4. CASE Turned(s, leg'[s])
  <2>1. leg'[s].resp /\ leg'[s].lead = leg[s].lead
    BY <1>4 DEF Turned, OnItsWay, Placed
  <2>2. leg[s].resp \/ SlowCreate(s)  BY <1>4, <2>1 DEF Turned
  <2> QED BY <2>1, <2>2 DEF SlowCreate, OnItsWay
<1> QED BY <1>3, <1>4

LEMMA OffItsWay ==
    ASSUME CallsInv, NEW s \in Sids, CallCreated(s) \/ Aborts(s)
    PROVE  ~OnItsWay(leg'[s]) /\ (\A t \in Sids : activeCalls'[t] # 0 => activeCalls[t] # 0 \/ t = s)
<1>1. leg \in [Sids -> Leg] /\ activeCalls \in [Sids -> 0 .. 2] /\ Fit(leg[s])  BY CallTypesNow
<1>2. CASE CallCreated(s)
  <2>1. CASE leg[s].resp
    <3>1. leg' = [leg EXCEPT ![s].resp = FALSE]  BY <1>2, <2>1 DEF CallCreated
    <3>2. leg'[s].st = leg[s].st /\ ~leg'[s].resp  BY <1>1, <3>1 DEF Leg
    <3>3. Placed(leg[s])  BY <1>1, <2>1 DEF Fit
    <3> QED BY <1>1, <1>2, <3>2, <3>3 DEF CallCreated, OnItsWay, Placed
  <2>2. CASE ~leg[s].resp
    <3>1. leg' = [leg EXCEPT ![s].st = "ringing"]  BY <1>2, <2>2 DEF CallCreated
    <3>2. leg'[s].st = "ringing" /\ leg'[s].resp = leg[s].resp  BY <1>1, <3>1 DEF Leg
    <3> QED BY <1>1, <1>2, <2>2, <3>2 DEF CallCreated, OnItsWay
  <2> QED BY <2>1, <2>2
<1>3. CASE Aborts(s)
  <2>1. leg' = [leg EXCEPT ![s] = NoLeg] /\ UNCHANGED activeCalls
    BY <1>3 DEF Aborts, DialBlocked, DialFrozen, DialFails, exceptAbort, callVars
  <2>2. leg'[s] = NoLeg  BY <1>1, <2>1
  <2> QED BY <2>1, <2>2 DEF OnItsWay, NoLeg
<1> QED BY <1>2, <1>3

LEMMA QuietLines ==
    ASSUME LinesInv, Orderly, [Next]_vars, LegTurn, TrackMoves,
           ~PumpTakesBatch, ~PumpFires
    PROVE  InFlight' /\ WithinBudget'
<1>1. CallsInv /\ Apart /\ Once /\ LegInv /\ Idle /\ "stop" \notin Hazards
      /\ Placing \cup Batched \subseteq leadsInFlight
  BY DEF LinesInv, InFlight, CardsInv, CallsInv, OverInv, Orderly
<1>2. Batched' = Batched  BY <1>1, PumpQuiet DEF Batched
<1>3. \A s \in Sids : OnItsWay(leg'[s]) => OnItsWay(leg[s]) /\ leg'[s].lead = leg[s].lead
  BY <1>1, OnItsWayBefore
<1>4. /\ Placing = {leg[s].lead : s \in {t \in Sids : OnItsWay(leg[t])}}
      /\ Placing' = {leg'[s].lead : s \in {t \in Sids : OnItsWay(leg'[t])}}
  BY DEF Placing, OnItsWay
<1>5. Placing' \subseteq Placing  BY <1>3, <1>4
<1>6. CASE leadsInFlight' = leadsInFlight /\ ~\E s \in Sids : CallCreated(s)
  <2>1. Tracked' \subseteq Tracked  BY <1>6 DEF TrackMoves, Tracked
  <2>2. Cardinality(Tracked') <= Cardinality(Tracked) /\ Cardinality(Tracked') \in Nat
    BY <1>1, <2>1, LinesTypes, FS_Subset, FS_CardinalityType
  <2> QED BY <1>1, <1>2, <1>5, <1>6, <2>2, LinesTypes DEF InFlight, LinesInv, WithinBudget
<1>7. ASSUME NEW s \in Sids, OnItsWay(leg[s]), CallCreated(s) \/ Aborts(s),
             leadsInFlight' = leadsInFlight \ {leg[s].lead}
      PROVE  InFlight' /\ WithinBudget'
  <2> DEFINE l == leg[s].lead
  <2>1. ~OnItsWay(leg'[s]) /\ Tracked' \subseteq Tracked \cup {s}
    BY <1>1, <1>7, OffItsWay DEF Tracked
  <2>2. l \in Placing /\ Engaged(s)
    BY <1>4, <1>7 DEF Engaged, OnItsWay
  <2>3. l \notin Batched  BY <1>1, <2>2, PlacingCalls DEF Apart
  <2>4. l \notin Placing'
    <3> SUFFICES ASSUME NEW t \in Sids, OnItsWay(leg'[t]), leg'[t].lead = l PROVE FALSE
      BY <1>4
    <3>1. Engaged(t) /\ leg[t].lead = l  BY <1>3 DEF Engaged, OnItsWay
    <3>2. t = s  BY <1>1, <2>2, <3>1 DEF Once
    <3> QED BY <2>1, <3>2
  <2>5. InFlight'  BY <1>1, <1>2, <1>5, <1>7, <2>3, <2>4 DEF InFlight
  <2>6. Cardinality(leadsInFlight') = Cardinality(leadsInFlight) - 1
    BY <1>1, <1>7, <2>2, LinesTypes, FS_RemoveElement
  <2>7. Cardinality(Tracked') <= Cardinality(Tracked) + 1 /\ Cardinality(Tracked') \in Nat
    <3>1. IsFiniteSet(Tracked) /\ Cardinality(Tracked) \in Nat  BY <1>1, LinesTypes
    <3>2. /\ IsFiniteSet(Tracked \cup {s})
          /\ Cardinality(Tracked \cup {s}) <= Cardinality(Tracked) + 1
      <4> DEFINE S == Tracked
      <4>1. IsFiniteSet(S) /\ Cardinality(S) \in Nat  BY <3>1
      <4> HIDE DEF S
      <4>2. /\ IsFiniteSet(S \cup {s})
            /\ Cardinality(S \cup {s}) = IF s \in S THEN Cardinality(S) ELSE Cardinality(S) + 1
        BY <4>1, FS_AddElement
      <4>3. Cardinality(S \cup {s}) <= Cardinality(S) + 1  BY <4>1, <4>2
      <4> QED BY <4>2, <4>3 DEF S
    <3>3. Tracked' \in SUBSET (Tracked \cup {s})  BY <2>1
    <3>4. Cardinality(Tracked') <= Cardinality(Tracked \cup {s}) /\ Cardinality(Tracked') \in Nat
          /\ Cardinality(Tracked \cup {s}) \in Nat
      BY <3>2, <3>3, FS_Subset, FS_CardinalityType
    <3> QED BY <3>1, <3>2, <3>4
  <2> QED BY <1>1, <2>5, <2>6, <2>7, LinesTypes DEF LinesInv, WithinBudget
<1>8. ASSUME NEW s \in Sids, CallCreated(s)
      PROVE  OnItsWay(leg[s]) /\ leadsInFlight' = leadsInFlight \ {leg[s].lead}
  BY <1>8 DEF CallCreated, OnItsWay
<1> QED BY <1>1, <1>6, <1>7, <1>8, FlightMoves

LEMMA LinesInit == Init => LinesInv
<1> SUFFICES ASSUME Init PROVE LinesInv  OBVIOUS
<1>1. \A s \in Sids : leg[s] = NoLeg /\ activeCalls[s] = 0  BY DEF Init
<1>2. Placing = {} /\ Tracked = {}  BY <1>1 DEF Placing, Tracked, NoLeg
<1>3. pump.batch = <<>> /\ leadsInFlight = {}  BY DEF Init
<1>4. Batched = {}  BY <1>3 DEF Batched
<1>5. Cardinality(Tracked) + Cardinality(leadsInFlight) <= Pacing
  BY <1>2, <1>3, FS_EmptySet, DialerAssumption
<1> QED BY <1>2, <1>4, <1>5, CardsInit DEF LinesInv, InFlight, WithinBudget

\* The lines in use: each call that is up is tracked, each call on its way and
\* each card of the batch has its own lead in flight.
LEMMA LinesCount == LinesInv /\ "restFail" \notin Hazards => LinesWithinPacing
<1> SUFFICES ASSUME LinesInv, "restFail" \notin Hazards PROVE LinesWithinPacing  OBVIOUS
<1> DEFINE Lines == {s \in Sids : leg[s].st \notin {"unused", "ended"}}
                       \ (hangups \cup {k.sid : k \in skipping})
           Way == {s \in Sids : OnItsWay(leg[s])}
<1>1. CallsInv /\ Apart /\ Once /\ LiveTracked /\ Placing \cup Batched \subseteq leadsInFlight
  BY DEF LinesInv, InFlight, CardsInv, CallsInv
<1>2. Lines \subseteq Tracked \cup Way
  BY <1>1 DEF LiveTracked, LiveLeg, Tracked, Skipped, OnItsWay
<1>3. IsFiniteSet(Tracked) /\ IsFiniteSet(Way) /\ Cardinality(Tracked) \in Nat
  BY <1>1, LinesTypes, FS_Subset
<1>4. Cardinality(Way) <= Cardinality(Placing) /\ IsFiniteSet(Placing) /\ Cardinality(Way) \in Nat
  <2> DEFINE f == [s \in Way |-> leg[s].lead]
  <2>1. Placing = {leg[s].lead : s \in Way}  BY DEF Placing, OnItsWay
  <2>2. \A s \in Way : s \in Sids /\ Engaged(s)  BY DEF OnItsWay, Engaged
  <2>3. \A s, t \in Way : leg[s].lead = leg[t].lead => s = t  BY <1>1, <2>2 DEF Once
  <2> HIDE DEF Way
  <2>4. f \in Injection(Way, Placing)
    <3>1. f \in [Way -> Placing] /\ \A s \in Way : f[s] = leg[s].lead  BY <2>1
    <3> HIDE DEF f
    <3>2. \A s, t \in Way : f[s] = f[t] => s = t  BY <2>3, <3>1
    <3> QED BY <3>1, <3>2 DEF Injection, IsInjective
  <2>5. IsFiniteSet(Placing)  BY <1>1, LinesTypes, FS_Subset
  <2> QED BY <1>3, <2>4, <2>5, FS_Injection, FS_CardinalityType
<1>5. Cardinality(Placing) + Cardinality(Batched) <= Cardinality(leadsInFlight)
      /\ Cardinality(Batched) \in Nat /\ Cardinality(Placing) \in Nat
  <2>1. IsFiniteSet(leadsInFlight) /\ IsFiniteSet(Placing) /\ IsFiniteSet(Batched)
    BY <1>1, LinesTypes, FS_Subset
  <2>2. Placing \cap Batched = {}  BY <1>1, PlacingCalls DEF Apart
  <2>3. Cardinality(Placing \cup Batched) = Cardinality(Placing) + Cardinality(Batched)
    <3>1. Cardinality(Placing \cup Batched)
            = Cardinality(Placing) + Cardinality(Batched) - Cardinality(Placing \cap Batched)
      BY <2>1, FS_Union
    <3>2. Cardinality(Placing \cap Batched) = 0  BY <2>2, FS_EmptySet
    <3>3. Cardinality(Placing) \in Nat /\ Cardinality(Batched) \in Nat  BY <2>1, FS_CardinalityType
    <3> QED BY <3>1, <3>2, <3>3
  <2> QED BY <1>1, <2>1, <2>3, FS_Subset, FS_CardinalityType
<1>6. Cardinality(Lines) <= Cardinality(Tracked) + Cardinality(Way)
  <2> HIDE DEF Lines, Way
  <2>1. /\ IsFiniteSet(Tracked \cup Way)
        /\ Cardinality(Tracked \cup Way)
             = Cardinality(Tracked) + Cardinality(Way) - Cardinality(Tracked \cap Way)
    BY <1>3, FS_Union
  <2>2. Cardinality(Tracked \cap Way) \in Nat  BY <1>3, FS_Intersection, FS_CardinalityType
  <2>3. Lines \in SUBSET (Tracked \cup Way)  BY <1>2
  <2>4. /\ Cardinality(Lines) <= Cardinality(Tracked \cup Way)
        /\ Cardinality(Lines) \in Nat /\ Cardinality(Tracked \cup Way) \in Nat
    BY <2>1, <2>3, FS_Subset, FS_CardinalityType
  <2> QED BY <1>3, <1>4, <2>1, <2>2, <2>4
<1>7. Cardinality(Lines) \in Nat
  BY <1>1, LinesTypes, FS_Subset, FS_CardinalityType
<1>8. Cardinality(Lines) + Cardinality(Batched) <= Pacing
  <2> HIDE DEF Lines, Way
  <2>1. Cardinality(Tracked) + Cardinality(leadsInFlight) <= Pacing  BY DEF LinesInv, WithinBudget
  <2> QED BY <1>1, <1>3, <1>4, <1>5, <1>6, <1>7, <2>1, LinesTypes
<1> QED BY <1>8 DEF LinesWithinPacing

\* Calls on their way, calls that are up and not being hung up, and the cards
\* already dequeued never exceed the pacing (processQueue, getUserCapacity,
\* makeCall), as long as no bridge fails: a bridge that fails drops a call from
\* activeCalls whose line stays open.
THEOREM LinesStayWithinPacing ==
    ASSUME Orderly, "restFail" \notin Hazards PROVE Spec => []LinesWithinPacing
<1>1. LinesInv /\ [Next]_vars => LinesInv'
  <2> SUFFICES ASSUME LinesInv, [Next]_vars PROVE LinesInv'  OBVIOUS
  <2>1. CardsInv' /\ LegTurn /\ TrackMoves  BY CardsNext DEF LinesInv
  <2>2. InFlight' /\ WithinBudget'
    BY <2>1, PumpLines, QuietLines
  <2> QED BY <2>1, <2>2 DEF LinesInv
<1> QED BY LinesInit, <1>1, LinesCount, PTL DEF Spec

-----------------------------------------------------------------------------
(* The dialer implements CardLife.                                           *)

\* A purge cancels redials, which a report still in the database could bring
\* back: one of the two is left out.
Unraced == "slowDb" \notin Hazards \/ "purge" \notin Hazards

\* Without slow queries the reports in the database can all be finished.
Prompt == "slowDb" \notin Hazards => \A j \in finishing : Redirected(j.sid)

\* A call that was placed has been dialed.
DialedOnce == \A s \in Sids : Placed(leg[s]) => dialed[leg[s].lead] # 0

LifeInv == TriesInv /\ Prompt /\ DialedOnce

LEMMA LifeInit == Init => LifeInv
<1> SUFFICES ASSUME Init PROVE LifeInv  OBVIOUS
<1>1. \A s \in Sids : leg[s] = NoLeg /\ finishing = {}  BY DEF Init
<1>2. DialedOnce  BY <1>1 DEF DialedOnce, Placed, NoLeg
<1>3. finishing = {}  BY DEF Init
<1> QED BY <1>2, <1>3, TriesInit DEF LifeInv, Prompt

LEMMA DialedGrows ==
    ASSUME TriesInv, [Next]_vars, NEW l \in Leads, dialed[l] # 0 PROVE dialed'[l] # 0
<1>1. CallsInv /\ dialed \in [Leads -> Nat]  BY TriesTypes DEF TriesInv, PastInv, CardsInv
<1>2. ASSUME NEW s \in Sids, Rings(s)  PROVE dialed'[l] # 0
  <2>1. dialed' = [dialed EXCEPT ![leg[s].lead] = @ + 1]  BY <1>2 DEF Rings
  <2>2. dialed[l] \in Nat /\ (dialed'[l] = dialed[l] \/ dialed'[l] = dialed[l] + 1)
    BY <1>1, <2>1
  <2> QED BY <2>2
<1> QED BY <1>1, <1>2, DialedMoves

LEMMA DialedOnceKept ==
    ASSUME LifeInv, [Next]_vars, LegTurn PROVE DialedOnce'
<1> SUFFICES ASSUME NEW s \in Sids, Placed(leg'[s]) PROVE dialed'[leg'[s].lead] # 0
  BY DEF DialedOnce
<1>1. /\ TriesInv /\ CallsInv /\ leg \in [Sids -> Leg] /\ Fit(leg[s])
      /\ dialed \in [Leads -> Nat] /\ (leg[s].st # "unused" => leg[s].lead \in Leads)
  BY CallTypesNow, TriesTypes DEF LifeInv, TriesInv, PastInv, CardsInv
<1>2. CASE Placed(leg[s]) /\ leg'[s].lead = leg[s].lead
  <2>1. dialed[leg[s].lead] # 0 /\ leg[s].lead \in Leads
    BY <1>1, <1>2 DEF LifeInv, DialedOnce, Placed
  <2> QED BY <1>1, <1>2, <2>1, DialedGrows
<1>3. CASE Turned(s, leg'[s]) /\ ~Placed(leg[s])
  <2>1. leg[s].st = "placing" /\ leg'[s].lead = leg[s].lead /\ OnItsWay(leg[s])
    BY <1>3 DEF Turned, Placed, OnItsWay
  <2>2. ~leg[s].resp  BY <1>1, <1>3 DEF Fit
  <2>3. SlowCreate(s) \/ CallCreated(s)  BY <1>3, <2>1, <2>2 DEF Turned
  <2>4. dialed' = [dialed EXCEPT ![leg[s].lead] = @ + 1]
    BY <2>2, <2>3 DEF SlowCreate, CallCreated
  <2>5. dialed[leg[s].lead] \in Nat /\ dialed'[leg[s].lead] = dialed[leg[s].lead] + 1
    BY <1>1, <2>1, <2>4
  <2> QED BY <2>1, <2>5
<1>4. ~Begun(s, leg'[s])
  <2>1. Begun(s, leg'[s]) => leg'[s].st = "placing"
    BY DEF Begun, NoLeg
  <2> QED BY <2>1 DEF Placed
<1>5. ~Dropped(s, leg'[s])
  <2>1. Dropped(s, leg'[s]) => leg'[s] = NoLeg  BY DEF Dropped
  <2> QED BY <2>1 DEF Placed, NoLeg
<1> QED BY <1>1, <1>2, <1>3, <1>4, <1>5, LegCases DEF Turned

\* A report enters the database when its call's redirect has been answered,
\* and until the reports there are finished nothing else is redirected.
LEMMA PromptKept ==
    ASSUME Prompt, [Next]_vars PROVE Prompt'
<1> SUFFICES ASSUME "slowDb" \notin Hazards, NEW j \in finishing' PROVE Redirected(j.sid)'
  BY DEF Prompt
<1>1. \A i \in finishing : Redirected(i.sid)  BY DEF Prompt
<1>2. CASE UNCHANGED vars  BY <1>1, <1>2 DEF vars, jobVars, Redirected
<1>3. CASE \E s \in Sids : Reuse(s)  BY <1>1, <1>3 DEF Reuse, jobVars, Redirected
<1>4. CASE \E i \in finishing : FinishStatus(i)
  BY <1>1, <1>4 DEF FinishStatus, Redirected
<1>5. CASE Step /\ Finishable = {}
  <2>1. finishing = {}  BY <1>1, <1>5 DEF Finishable
  <2>2. ASSUME NEW s \in Sids, NEW status, NEW child, StatusArrives(s, status, child),
               Redirected(s), UNCHANGED bridging
        PROVE  Redirected(j.sid)'
    <3>1. j.sid = s  BY <2>1, <2>2 DEF StatusArrives, Report
    <3> QED BY <2>2, <3>1 DEF Redirected
  <2>3. finishing' # finishing  BY <2>1
  <2>4. CASE \E s \in Sids : AgentLegEnded(s) \/ CallEnded(s) \/ WatchdogFetches(s)
    <3>1. PICK s \in Sids : AgentLegEnded(s) \/ CallEnded(s) \/ WatchdogFetches(s)  BY <2>4
    <3>2. CASE AgentLegEnded(s)  BY <2>2, <3>2 DEF AgentLegEnded, exceptStatus
    <3>3. CASE CallEnded(s)  BY <2>2, <3>3 DEF CallEnded, exceptStatus
    <3>4. CASE WatchdogFetches(s)  BY <2>2, <3>4 DEF WatchdogFetches, exceptStatus
    <3> QED BY <3>1, <3>2, <3>3, <3>4
  <2>5. ASSUME NEW s \in Sids, NEW child, \/ StatusArrives(s, "ringing", child)
                                          \/ StatusArrives(s, "answered", child)
        PROVE  FALSE
    BY <2>3, <2>5 DEF StatusArrives, Terminal
  <2>6. ASSUME NEW s \in Sids, \/ CallProgress(s, "ringing") \/ CallProgress(s, "answered")
                               \/ AgentLegAnswered(s)
        PROVE  FALSE
    BY <2>5, <2>6 DEF CallProgress, AgentLegAnswered
  <2>7. (\E s \in Sids : AgentLegEnded(s) \/ CallEnded(s) \/ WatchdogFetches(s))
        \/ finishing' = finishing
    BY <1>5, <2>6 DEF Step, Dialing, PumpGivesUp, PumpTakesBatch, PumpFires, PumpEnds, exceptPump,
         SlowCreate, CallCreated, DialBlocked, DialFrozen, DialFails, exceptAbort,
         StatusWebhooks, BridgeWebhooks, VoiceHolds, VoiceOverflows, VoiceBridges, HumanOverflows,
         HumanBridges, BridgeLands, BridgeFails, MachineDetected, SkipMachine, exceptVoice,
         Watchdog, WatchdogSweeps, StaleLock, Redialing, exceptSweep,
         RedialTimerFires, RequeueDropped, RequeueEnters, RequeueThrows, exceptRequeue, Session,
         StartBegins, StartSaved, StartAborts, StartFills, StopDialing, AgentReady, PurgeContact,
         TrimCards, Telephony, Answer, NotAnswered, AmdResult, AgentAnswers,
         AgentDoesNotAnswer, HangUp, DropAtOnce, HangupLands, PromptLost,
         FinalWebhooksLost, exceptLeg, jobVars
  <2> QED BY <2>3, <2>4, <2>7
<1> QED BY <1>2, <1>3, <1>4, <1>5 DEF Next

\* A redial that neither waits any more nor is on its way back was cancelled.
LEMMA TimerGone ==
    ASSUME PastInv, [Next]_vars, NEW l \in TimerLeads, l \notin TimerLeads' \cup RequeueLeads'
    PROVE  \E c \in Contacts : PurgeContact(c)
<1>1. PICK u \in redialTimers : u.lead = l  BY DEF TimerLeads
<1>2. redialTimers \subseteq Timer  BY CallTypesNow DEF PastInv, CardsInv
<1>3. ASSUME NEW t \in redialTimers, RedialTimerFires(t)  PROVE FALSE
  <2>1. CASE t.lead = l
    <3> DEFINE r == [lead |-> t.lead, att |-> t.att, known |-> t.known]
    <3>1. r \in requeues' /\ r.lead = l  BY <1>3, <2>1 DEF RedialTimerFires
    <3> HIDE DEF r
    <3> QED BY <3>1 DEF RequeueLeads
  <2>2. CASE t.lead # l
    <3>1. u \in redialTimers \ {t} /\ u.lead # t.lead  BY <1>1, <2>2
    <3>2. u \in redialTimers'  BY <1>3, <3>1 DEF RedialTimerFires
    <3> QED BY <1>1, <3>2 DEF TimerLeads
  <2> QED BY <2>1, <2>2
<1>4. ASSUME NEW j \in finishing, FinishStatus(j)  PROVE FALSE
  <2>1. CASE UNCHANGED redialTimers  BY <1>1, <2>1 DEF TimerLeads
  <2>2. CASE redialTimers' # redialTimers
    <3> DEFINE k == leg[j.sid].lead
               v == [u EXCEPT !.cancelable = @ /\ u.lead # k]
    <3>1. v \in redialTimers'
      BY <1>1, <1>4, <2>2 DEF FinishStatus, ScheduleRedial, RequeueLeadForRedial
    <3>2. v.lead = u.lead  BY <1>1, <1>2 DEF Timer
    <3> HIDE DEF v
    <3> QED BY <1>1, <3>1, <3>2 DEF TimerLeads
  <2> QED BY <2>1, <2>2
<1>5. ASSUME NEW k \in skipping, SkipMachine(k)  PROVE FALSE
  <2>1. k.sid \in Machines  BY DEF Machines, Skipped
  <2>2. leg[k.sid].lead # l  BY <2>1 DEF PastInv, MachineAlone
  <2>3. u \in redialTimers'  BY <1>1, <1>5, <2>2 DEF SkipMachine, CancelPendingRedials
  <2> QED BY <1>1, <2>3 DEF TimerLeads
<1>6. redialTimers' # redialTimers  BY <1>1 DEF TimerLeads
<1>7. \/ (\E j \in finishing : FinishStatus(j)) \/ (\E t \in redialTimers : RedialTimerFires(t))
      \/ (\E k \in skipping : SkipMachine(k)) \/ (\E c \in Contacts : PurgeContact(c))
      \/ redialTimers' = redialTimers
  BY DEF Next, Step, Dialing, PumpGivesUp, PumpTakesBatch, PumpFires, PumpEnds,
         SlowCreate, CallCreated, DialBlocked, DialFrozen, DialFails,
         StatusWebhooks, CallProgress, AgentLegAnswered, AgentLegEnded, CallEnded,
         BridgeWebhooks, VoiceHolds, VoiceOverflows, VoiceBridges, HumanOverflows,
         HumanBridges, BridgeLands, BridgeFails, MachineDetected,
         Watchdog, WatchdogFetches, WatchdogSweeps, StaleLock, Redialing,
         RequeueDropped, RequeueEnters, RequeueThrows, Session,
         StartBegins, StartSaved, StartAborts, StartFills, StopDialing, AgentReady,
         TrimCards, Telephony, Answer, NotAnswered, AmdResult, AgentAnswers,
         AgentDoesNotAnswer, HangUp, DropAtOnce, HangupLands, PromptLost,
         FinalWebhooksLost, Reuse, vars
<1> QED BY <1>3, <1>4, <1>5, <1>6, <1>7

\* Where redials wait, nothing else of the card is left, unless a report is
\* still in the database.
LEMMA WaitingAlone ==
    ASSUME PastInv
    PROVE  /\ Waiting \cap (Queued(userQueue) \cup Batched \cup Calling) = {}
           /\ Reported \cap (Queued(userQueue) \cup Batched \cup RequeueLeads) = {}
<1>1. Waiting \cap (Queued(userQueue) \cup Batched \cup Calling) = {}
  BY WaitingLeads DEF PastInv, CardsInv, Apart
<1>2. ASSUME NEW j \in finishing, j.obj # 0
      PROVE  leg[j.sid].lead \notin Queued(userQueue) \cup Batched \cup RequeueLeads
  BY <1>2 DEF PastInv, CardsInv, Late, Alone
<1> QED BY <1>1, <1>2 DEF Reported

\* A card comes to wait from a call that was dialed and has attempts left.
LEMMA WaitsNew ==
    ASSUME LifeInv, Orderly, [Next]_vars, NEW l \in Waiting', l \notin Waiting
    PROVE  l \in Reported /\ l \notin Queued(userQueue) /\ dialed[l] \in 1 .. MaxAttempts - 1
<1>1. PastInv /\ CardsInv /\ CallsInv /\ Tries /\ TriesInv /\ AmdOn
  BY DEF LifeInv, TriesInv, PastInv, CardsInv
<1>2. l \notin TimerLeads \cup RequeueLeads  BY WaitingLeads
<1>3. l \in TimerLeads' \/ l \in RequeueLeads'
  BY DEF Waiting, TimerLeads, RequeueLeads
<1>4. l \notin RequeueLeads'
  <2> SUFFICES ASSUME NEW r \in requeues', r.lead = l PROVE FALSE  BY DEF RequeueLeads
  <2> QED BY <1>2, RequeueNew DEF TimerLeads, RequeueLeads
<1>5. PICK t \in redialTimers' : t.lead = l  BY <1>3, <1>4 DEF TimerLeads
<1>6. t \notin redialTimers  BY <1>2, <1>5 DEF TimerLeads
<1>7. PICK j \in finishing : FinishStatus(j) /\ Earns(j) /\ t.lead = leg[j.sid].lead
  BY <1>1, <1>6, TimerNew
<1>8. j.obj # 0 /\ j.sid \in Sids /\ j.obj \in 0 .. 2 /\ leg[j.sid].st = "ended"
  BY <1>1, <1>7, CallTypesNow DEF Earns, Finish
<1>9. l \in Reported  BY <1>5, <1>7, <1>8 DEF Reported
<1>10. j.obj = 1
  <2> SUFFICES ASSUME j.obj = 2 PROVE FALSE  BY <1>8
  <2>1. leg[j.sid].amd = "done" /\ meta[j.sid][2].status # "callback"  BY <1>1, <1>8 DEF AmdOn
  <2>2. j.status = "no-answer" /\ ~j.child  BY <1>7, <2>1 DEF Earns, WantsRedial
  <2> QED BY <1>1, <2>1, <2>2 DEF PastInv, NoAnswerEarly
<1>11. leg[j.sid].att < MaxAttempts  BY <1>7, <1>10 DEF Earns, AttemptsOf
<1>12. dialed[l] <= leg[j.sid].att /\ dialed[l] # 0
  BY <1>1, <1>5, <1>7, <1>8 DEF Tries, LifeInv, DialedOnce, Placed
<1>13. dialed[l] \in Nat /\ leg[j.sid].att \in Nat /\ MaxAttempts \in Nat
  <2>1. l \in Leads  BY <1>1, <1>5, <1>7, <1>8, TriesTypes
  <2> QED BY <1>1, <1>8, <2>1, TriesTypes
<1> QED BY <1>1, <1>9, <1>11, <1>12, <1>13, WaitingAlone

\* A card gets to the dialer's lines out of the queue only.
LEMMA LinesNew ==
    ASSUME PastInv, PastInv', [Next]_vars, LegTurn, CardsFlow,
           NEW l \in Batched' \cup Calling' \cup Reported'
    PROVE  l \in Queued(userQueue) \cup Batched \cup Calling \cup Reported
<1>1. CallsInv  BY DEF PastInv, CardsInv
<1>2. CASE l \in Batched'  BY <1>2 DEF CardsFlow
<1>3. CASE l \in Calling'
  <2>1. PICK s \in Sids : Engaged(s)' /\ leg'[s].lead = l  BY <1>3 DEF Calling
  <2> QED BY <2>1 DEF CardsFlow, Calling
<1>4. CASE l \in Reported'
  <2>1. PICK j \in finishing' : j.obj # 0 /\ leg'[j.sid].lead = l  BY <1>4 DEF Reported
  <2>2. CASE j \in finishing
    <3>1. j.sid \in Sids /\ leg[j.sid].st = "ended" /\ ~Reuse(j.sid)
      BY <1>1, <2>2, CallTypesNow DEF Reuse, Spent
    <3>2. leg'[j.sid].lead = leg[j.sid].lead  BY <1>1, <3>1, EndedKeeps
    <3> QED BY <2>1, <2>2, <3>2 DEF Reported
  <2>3. CASE j \notin finishing
    <3>1. j.obj = activeCalls[j.sid] /\ UNCHANGED <<activeCalls, leg>>  BY <2>3, ReportsNew
    <3>2. j.sid \in Sids
      BY DEF PastInv, CardsInv, CallsInv, OverInv, LegInv, TypeInv, TypeOK, JobTypes, Finish
    <3> QED BY <2>1, <3>1, <3>2 DEF Calling, Engaged
  <2> QED BY <2>2, <2>3
<1> QED BY <1>2, <1>3, <1>4

\* A card that stops waiting goes to the queue, or is gone.
LEMMA WaitsEnd ==
    ASSUME LifeInv, Orderly, Unraced, [Next]_vars, LegTurn, PastInv', CardsFlow,
           NEW l \in Waiting, l \notin Waiting', l \notin Queued(userQueue')
    PROVE  l \notin Batched' \cup Calling' \cup Reported'
<1>1. PastInv /\ Prompt  BY DEF LifeInv, TriesInv
<1>2. l \notin Queued(userQueue) \cup Batched \cup Calling  BY <1>1, WaitingAlone
<1>3. SUFFICES ASSUME l \in Reported PROVE FALSE  BY <1>1, <1>2, LinesNew
<1>4. l \in TimerLeads  BY <1>1, <1>3, WaitingAlone, WaitingLeads
<1>5. l \notin TimerLeads' \cup RequeueLeads'  BY DEF Waiting, TimerLeads, RequeueLeads
<1>6. PICK c \in Contacts : PurgeContact(c)  BY <1>1, <1>4, <1>5, TimerGone
<1>7. "slowDb" \notin Hazards  BY <1>6 DEF PurgeContact, Unraced
<1>8. finishing # {} /\ Finishable = finishing
  BY <1>1, <1>3, <1>7 DEF Reported, Prompt, Finishable
<1>9. /\ finishing' = finishing /\ leg' = leg /\ removedContacts' # removedContacts
  BY <1>6 DEF PurgeContact
<1>10. ~\E j \in finishing : FinishStatus(j)  BY <1>9 DEF FinishStatus
<1>11. ~\E s \in Sids : Reuse(s)
  <2> SUFFICES ASSUME NEW s \in Sids, Reuse(s) PROVE FALSE  OBVIOUS
  <2>1. leg[s].st = "ended" /\ leg' = [leg EXCEPT ![s] = NoLeg] /\ leg \in [Sids -> Leg]
    BY <1>1, CallTypesNow DEF Reuse, Spent, PastInv, CardsInv
  <2>2. leg'[s].st = "unused"  BY <2>1 DEF NoLeg
  <2> QED BY <1>9, <2>1, <2>2
<1>12. ~UNCHANGED vars  BY <1>9 DEF vars
<1> QED BY <1>7, <1>8, <1>10, <1>11, <1>12 DEF Next

\* A session begins with every card idle and never dialed.
LEMMA StartMoves ==
    ASSUME LifeInv, StartFills, NEW l \in Leads
    PROVE  /\ CardPlace(l) = "idle" /\ dialed[l] = 0
           /\ CardPlace(l)' \in {"idle", "queued"}
<1>1. CallsInv /\ Empty
  BY DEF LifeInv, TriesInv, PastInv, CardsInv, CallsInv, Fresh, StartFills, Unstarted
<1>2. finishing = {}
  BY <1>1, CallTypesNow DEF Empty
<1>3. ~\E s \in Sids : Engaged(s)
  BY <1>1 DEF Empty, Engaged, CallsInv, OverInv, LegInv, TrackedPlaced, Placed, Fit
<1>4. Waiting = {} /\ Batched = {} /\ Calling = {} /\ Reported = {}
  <2>1. DOMAIN pump.batch = {}  BY <1>1 DEF Empty
  <2> QED BY <1>1, <1>2, <1>3, <2>1 DEF Empty, Waiting, Batched, Calling, Reported
<1>5. UNCHANGED <<redialTimers, requeues, leg, activeCalls, finishing>>
  BY DEF StartFills
<1>6. pump'.batch = pump.batch
  BY <1>1, PumpedKeeps DEF StartFills, CallsInv
<1>7. Waiting' = Waiting /\ Batched' = Batched /\ Calling' = Calling /\ Reported' = Reported
  BY <1>5, <1>6 DEF Waiting, Batched, Calling, Engaged, Reported
<1>8. userQueue[l] = 0 /\ dialed[l] = 0
  BY <1>1 DEF Empty, Queued
<1> QED BY <1>4, <1>7, <1>8 DEF CardPlace

\* The moves of one card.
Moving(l) ==
    \/ CardPlace(l)' = CardPlace(l)
    \/ CardPlace(l) = "idle" /\ dialed[l] = 0 /\ CardPlace(l)' = "queued"
    \/ CardPlace(l) = "queued" /\ CardPlace(l)' \in {"dialing", "idle"}
    \/ CardPlace(l) = "dialing" /\ CardPlace(l)' = "idle"
    \/ CardPlace(l) = "dialing" /\ dialed[l] \in 1 .. MaxAttempts - 1 /\ CardPlace(l)' = "waiting"
    \/ CardPlace(l) = "waiting" /\ CardPlace(l)' \in {"queued", "idle"}

LEMMA PlaceMoves ==
    ASSUME LifeInv, Orderly, Unraced, [Next]_vars, LegTurn, PastInv', StartFills \/ CardsMove,
           NEW l \in Leads
    PROVE  Moving(l)
<1>1. CASE StartFills  BY <1>1, StartMoves DEF Moving
<1>2. CASE CardsFlow
  <2> DEFINE Lines == Batched \cup Calling \cup Reported
  <2>1. PastInv  BY DEF LifeInv, TriesInv
  <2>2. /\ CardPlace(l) = IF l \in Waiting THEN "waiting"
                          ELSE IF l \in Queued(userQueue) THEN "queued"
                          ELSE IF l \in Lines THEN "dialing" ELSE "idle"
        /\ CardPlace(l)' = IF l \in Waiting' THEN "waiting"
                           ELSE IF l \in Queued(userQueue') THEN "queued"
                           ELSE IF l \in Lines' THEN "dialing" ELSE "idle"
    BY DEF CardPlace, Queued
  <2>3. l \in Lines' => l \in Queued(userQueue) \cup Lines
    <3> SUFFICES ASSUME l \in Batched' \cup Calling' \cup Reported'
                 PROVE  l \in Queued(userQueue) \cup Batched \cup Calling \cup Reported
      OBVIOUS
    <3> QED BY <1>2, <2>1, LinesNew
  <2>4. l \in Queued(userQueue') => l \in Queued(userQueue) \cup Waiting
    BY <1>2, WaitingLeads DEF CardsFlow
  <2>5. l \in Waiting' /\ l \notin Waiting =>
          l \in Reported /\ l \notin Queued(userQueue) /\ dialed[l] \in 1 .. MaxAttempts - 1
    BY WaitsNew
  <2>6. l \in Waiting /\ l \notin Waiting' /\ l \notin Queued(userQueue') => l \notin Lines'
    <3> SUFFICES ASSUME l \in Waiting, l \notin Waiting', l \notin Queued(userQueue')
                 PROVE  l \notin Batched' \cup Calling' \cup Reported'
      OBVIOUS
    <3> QED BY <1>2, WaitsEnd
  <2> HIDE DEF Lines
  <2>7. l \in Reported => l \in Lines  BY DEF Lines
  <2>8. CASE l \in Waiting  BY <2>2, <2>6, <2>8 DEF Moving
  <2>9. CASE l \notin Waiting /\ l \in Queued(userQueue)
    BY <2>2, <2>5, <2>9 DEF Moving
  <2>10. CASE l \notin Waiting /\ l \notin Queued(userQueue)
    BY <2>2, <2>3, <2>4, <2>5, <2>7, <2>10 DEF Moving
  <2> QED BY <2>8, <2>9, <2>10
<1> QED BY <1>1, <1>2 DEF CardsMove

\* The call that gets ringing is a card's dial.
LEMMA RingsDials ==
    ASSUME LifeInv, Orderly, NEW s0 \in Sids, Rings(s0)
    PROVE  \E l0 \in Leads :
             /\ CardPlace(l0) = "dialing" /\ CardPlace(l0)' = "dialing"
             /\ dialed[l0] < MaxAttempts /\ dialed'[l0] = dialed[l0] + 1
             /\ \A l \in Leads \ {l0} : dialed'[l] = dialed[l]
<1>1. /\ TriesInv /\ PastInv /\ CardsInv /\ Tries /\ Engaged(s0) /\ leg[s0].lead \in Leads
      /\ dialed \in [Leads -> Nat]
  BY TriesTypes DEF LifeInv, TriesInv, PastInv, Rings, Engaged
<1>2. PICK l0 \in Leads : l0 = leg[s0].lead  BY <1>1
<1>3. Engaged(s0)' /\ leg'[s0].lead = l0  BY <1>2 DEF Rings, Engaged
<1>4. l0 \in Calling /\ l0 \in Calling'  BY <1>1, <1>2, <1>3 DEF Calling
<1>5. l0 \notin Waiting /\ l0 \notin Queued(userQueue)
  BY <1>1, <1>4, WaitingLeads DEF CardsInv, Apart
<1>6. UNCHANGED <<userQueue, Waiting>>  BY DEF Rings, Waiting
<1>7. userQueue[l0] = 0 /\ userQueue'[l0] = 0  BY <1>5, <1>6 DEF Queued
<1>8. CardPlace(l0) = "dialing" /\ CardPlace(l0)' = "dialing"
  BY <1>4, <1>5, <1>6, <1>7 DEF CardPlace
<1>9. dialed[l0] < leg[s0].att /\ leg[s0].att <= MaxAttempts
      /\ leg[s0].att \in Nat /\ MaxAttempts \in Nat /\ dialed[l0] \in Nat
  BY <1>1, <1>2, TriesTypes DEF Tries, Rings
<1>10. dialed' = [dialed EXCEPT ![l0] = @ + 1]  BY <1>2 DEF Rings
<1>11. /\ dialed'[l0] = dialed[l0] + 1
       /\ \A l \in Leads \ {l0} : dialed'[l] = dialed[l]
  BY <1>1, <1>10
<1>12. dialed[l0] < MaxAttempts  BY <1>9
<1> QED BY <1>8, <1>11, <1>12

\* Every step of the dialer is a step of CardLife or leaves the cards alone.
LEMMA LifeStep ==
    ASSUME LifeInv, Orderly, Unraced, [Next]_vars, LegTurn, PastInv', StartFills \/ CardsMove
    PROVE  Abstract!CardNext
<1> SUFFICES ASSUME NEW l \in Leads
             PROVE  \/ Abstract!Stays(l) \/ Abstract!Dials(l)
                    \/ (Abstract!Moves(l) /\ dialed'[l] = dialed[l])
  BY DEF Abstract!CardNext
<1>1. Moving(l)  BY PlaceMoves
<1>2. CallsInv  BY DEF LifeInv, TriesInv, PastInv, CardsInv
<1>3. CASE dialed'[l] = dialed[l]
  BY <1>1, <1>3 DEF Moving, Abstract!Stays, Abstract!Moves
<1>4. CASE dialed'[l] # dialed[l]
  <2>1. PICK s0 \in Sids : Rings(s0)  BY <1>2, <1>4, DialedMoves
  <2>2. PICK l0 \in Leads :
             /\ CardPlace(l0) = "dialing" /\ CardPlace(l0)' = "dialing"
             /\ dialed[l0] < MaxAttempts /\ dialed'[l0] = dialed[l0] + 1
             /\ \A k \in Leads \ {l0} : dialed'[k] = dialed[k]
    BY <2>1, RingsDials
  <2>3. l = l0  BY <1>4, <2>2
  <2> QED BY <2>2, <2>3 DEF Abstract!Dials
<1> QED BY <1>3, <1>4

\* The dialer keeps the life of a card: it is in one place at a time, it is
\* dialed out of the queue only, it comes back only by waiting for a redial,
\* and it is dialed at most MaxAttempts times (processQueue, makeCall,
\* updateCallStatus, requeueLeadForRedial).  The hypotheses are those of
\* DialsAreBounded; and purges do not overtake slow final reports, which could
\* bring back the redial that a purge has cancelled.
THEOREM DialerImplementsCardLife ==
    ASSUME Orderly, FALSE \notin AmdModes, Unraced PROVE Spec => CardsLive
<1>1. Init => Abstract!CardInit
  <2> SUFFICES ASSUME Init PROVE Abstract!CardInit  OBVIOUS
  <2>1. LifeInv  BY LifeInit
  <2>2. ASSUME NEW l \in Leads  PROVE CardPlace(l) = "idle"
    <3>1. Waiting = {} /\ userQueue[l] = 0  BY DEF Init, Waiting
    <3>2. \A s \in Sids : ~Engaged(s)  BY DEF Init, Engaged, NoLeg
    <3>3. Calling = {} /\ Reported = {}  BY <3>2 DEF Init, Calling, Reported
    <3>4. DOMAIN pump.batch = {}  BY DEF Init
    <3>5. Batched = {}  BY <3>4 DEF Batched
    <3> QED BY <3>1, <3>3, <3>5 DEF CardPlace
  <2> QED BY <2>2 DEF Init, Abstract!CardInit
<1>2. LifeInv /\ [Next]_vars => LifeInv' /\ [Abstract!CardNext]_(Abstract!cardVars)
  <2> SUFFICES ASSUME LifeInv, [Next]_vars PROVE LifeInv' /\ Abstract!CardNext  OBVIOUS
  <2>1. PastInv' /\ LegTurn /\ (StartFills \/ CardsMove)
    BY PastNext DEF LifeInv, TriesInv
  <2>2. TriesInv'  BY <2>1, TriesNext DEF LifeInv
  <2>3. Prompt' /\ DialedOnce'  BY <2>1, PromptKept, DialedOnceKept DEF LifeInv
  <2> QED BY <2>1, <2>2, <2>3, LifeStep DEF LifeInv
<1> QED BY LifeInit, <1>1, <1>2, PTL DEF Spec, CardsLive, Abstract!CardSpec

=============================================================================
