--------------------------- MODULE DialerProperties ---------------------------
(***************************************************************************)
(* The properties of the dialer: what it guarantees, each under the events *)
(* of the environment its run names, and what a comment of the code says   *)
(* and some behaviour of the code breaks (the section at the end).         *)
(***************************************************************************)
EXTENDS Dialer

-----------------------------------------------------------------------------
(* The agent lock (agentBusyState, agentBridgedCallId). *)

OnLine == {s \in Sids : leg[s].st \in {"bridging", "talking"}} \ hangups

\* Two callers are never bridged to the agent's browser at once, and the one
\* that is holds the lock: the two webhooks that bridge (handleVoiceWebhook,
\* handleAmdStatus) check the lock before an await and act on it after.
ConversationHoldsLock == \A s \in OnLine : agentBridgedCallId = s

\* The same, said of the browser alone.
NoDoubleBridge == Cardinality(OnLine) <= 1

\* When the watchdog finds a lock whose owner is not tracked, "its terminal was
\* already processed": step 2 of reconcileUser never frees the agent of a call
\* that no terminal handler has seen.
OrphanLockTerminated ==
    agentBridgedCallId # None /\ activeCalls[agentBridgedCallId] = 0
        => agentBridgedCallId \in processedTerminalSids

\* An agent who owes a disposition is not connected to anybody: post-call is
\* entered as the lock is released and every path that takes the lock asks
\* for the end of post-call first.
PostCallIsFree == agentPostCallState => ~agentBusyState /\ agentBridgedCallId = None

\* A call keeps the agent until it ends: neither the final report of another
\* call (the stuck-lock branch of handleCallStatusUpdate), nor another webhook,
\* the watchdog or a removed contact frees an agent who is still on the phone.
\* Left out are the three that free the agent on purpose, a start, a stop and
\* the 60-minute rule, and a failing redirect, which frees whoever it finds.
LockLastsTheCall ==
    [][\A s \in Sids : agentBridgedCallId = s /\ agentBridgedCallId' # s =>
          \/ leg[s].st = "ended"
          \/ StartBegins \/ StopDialing \/ StaleLock
          \/ \E t \in Sids : BridgeFails(t)]_vars

-----------------------------------------------------------------------------
(* Queue, capacity and redials. *)

Batched == {pump.batch[i].lead : i \in DOMAIN pump.batch}
Placing == {leg[s].lead : s \in {t \in Sids : leg[t].st = "placing" \/ leg[t].resp}}
Waiting == {t.lead : t \in redialTimers} \cup {r.lead : r \in requeues}

\* Lines in use never exceed the pacing the agent chose: calls on their way to
\* Twilio, calls that are up and not being hung up, and cards already dequeued
\* (getUserCapacity reads the maps that calls.create will update later).
LinesWithinPacing ==
    Cardinality({s \in Sids : leg[s].st \notin {"unused", "ended"}}
                    \ (hangups \cup {k.sid : k \in skipping}))
        + Cardinality(Batched) <= Pacing

\* Every redial guard has something that will drop it: a timeout, a timeout's
\* database call, the queued card, or the call being placed for it.  A guard
\* without one would refuse the card's redials for good.
GuardBacked == pendingRedials \subseteq Waiting \cup Queued(userQueue) \cup Batched \cup Placing

\* Every lead that takes up capacity between the queue and activeCalls is on
\* its way: an entry that nothing removes would lower the pacing for good.
InFlightBacked == leadsInFlight \subseteq Batched \cup Placing

\* Within a session a lead is dialed at most MaxAttempts times, however its
\* calls end and however often and late its webhooks are delivered.
DialsBounded == \A l \in Leads : dialed[l] <= MaxAttempts

\* A card is in one place: queued, dequeued, on a line or waiting for a redial.
\* Duplicate final webhooks, or a webhook and the watchdog, both try to redial.
OnePlacePerCard ==
    \A l \in Leads :
        (IF userQueue[l] # 0 THEN 1 ELSE 0)
        + Cardinality({i \in DOMAIN pump.batch : pump.batch[i].lead = l})
        + Cardinality({s \in Sids : leg[s].lead = l /\ leg[s].st # "ended"})
        + Cardinality({t \in redialTimers : t.lead = l})
        + Cardinality({r \in requeues : r.lead = l}) <= 1

\* The service is engaged in call s: it places it, it is up, or it is tracked.
Engaged(s) == leg[s].st \notin {"unused", "ended"} \/ leg[s].resp \/ activeCalls[s] # 0

Calling == {leg[s].lead : s \in {t \in Sids : Engaged(t)}}

\* The leads of final reports in the database that may still earn a redial.
Reported == {leg[j.sid].lead : j \in {i \in finishing : i.obj # 0}}

\* Where a card is, for the abstract specification CardLife.
CardPlace(l) ==
    IF l \in Waiting THEN "waiting"
    ELSE IF userQueue[l] # 0 THEN "queued"
    ELSE IF l \in Batched \cup Calling \cup Reported THEN "dialing"
    ELSE "idle"

Abstract == INSTANCE CardLife WITH place <- [l \in Leads |-> CardPlace(l)], tries <- dialed

\* The dialer implements the life of a card.
CardsLive == Abstract!CardSpec

-----------------------------------------------------------------------------
(* Progress, when no status or AMD webhook ever has to arrive. *)

Free == /\ \A s \in Sids : ~Spent(s)
        /\ "slowDb" \in Hazards \/ Finishable = {}

\* Node runs what is scheduled, the watchdog ticks every 15 s, its 45 s grace
\* ends, Twilio answers requests, and a call does not last for ever.  Nothing
\* is assumed of the status and AMD webhooks, of the browser or of the agent.
Fairness ==
    /\ \A s \in Sids :
         /\ WF_vars(Reuse(s))
         /\ WF_vars(Free /\ CallCreated(s))
         /\ WF_vars(Free /\ (BridgeLands(s) \/ BridgeFails(s)))
         /\ WF_vars(Free /\ (NotAnswered(s) \/ HangUp(s)))
         /\ WF_vars(Free /\ HangupLands(s))
         /\ WF_vars(Free /\ WatchdogFetches(s))
    /\ WF_vars(\E j \in finishing : (\A s \in Sids : ~Spent(s)) /\ FinishStatus(j))
    /\ WF_vars(Free /\ \E k \in skipping : SkipMachine(k))
    /\ WF_vars(Free /\ PumpGivesUp) /\ WF_vars(Free /\ PumpTakesBatch)
    /\ WF_vars(Free /\ PumpFires) /\ WF_vars(Free /\ PumpEnds)
    /\ WF_vars(Free /\ Redialing)
    /\ WF_vars(Free /\ StartSaved) /\ WF_vars(Free /\ StartFills)
    /\ WF_vars(Free /\ WatchdogSweeps(TRUE))

FairSpec == Spec /\ Fairness

\* The agent is freed of every call that has ended.
LockEventuallyReleased ==
    \A s \in Sids : agentBridgedCallId = s /\ leg[s].st = "ended" ~> agentBridgedCallId # s

\* The dialer never stalls: every queued card is taken off the queue unless the
\* agent stops, whatever happens to webhooks, prompts and dispositions ("the
\* dialer advances even if every webhook were lost", reconcileUser).
QueueAdvances ==
    \A l \in Leads : userQueue[l] # 0 /\ ~stopped ~> userQueue[l] = 0 \/ stopped

\* A post-call whose disposition never comes does not freeze the session: the
\* watchdog clears it after its grace, unless the agent has stopped.
PostCallEnds == agentPostCallState ~> ~agentPostCallState

\* Every call the service tracks is forgotten in the end.
CallsForgotten == \A s \in Sids : activeCalls[s] # 0 ~> activeCalls[s] = 0

-----------------------------------------------------------------------------
(* What comments of the code say and the code does not keep.               *)

\* An answered overflow call "must be treated as an attempted call and respect
\* the maxAttempts limit": it is redialed while attempts are left.
OverflowRedialed ==
    [][\A j \in finishing \ finishing' :
          /\ leg[j.sid].over /\ ~j.child /\ j.obj = 1
          /\ leg[j.sid].att < MaxAttempts
          => leg[j.sid].lead \in pendingRedials']_vars
=============================================================================
