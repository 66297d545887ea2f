------------------------------ MODULE DialerCalls ------------------------------
(***************************************************************************)
(* What happens to the calls of a session: processQueue and makeCall, the  *)
(* status, voice and AMD webhooks, and the redial timeouts.  There is one  *)
(* action for every stretch of a handler between two awaits, in the order  *)
(* the code runs them.  Node runs a stretch without interruption; between  *)
(* two stretches any other handler, timer or watchdog tick may run.        *)
(***************************************************************************)
EXTENDS DialerTwilio

-----------------------------------------------------------------------------
(* processQueue and makeCall. *)

\* Mutant: the card of a removed contact keeps its place among the lines.
MakeCallKeepsSlot(card, inFlight) ==
    /\ leadsInFlight' = inFlight
    /\ IF ContactOf[card.lead] \in removedContacts
       THEN UNCHANGED <<leg, machineLeads>>
       ELSE /\ machineLeads' = machineLeads \ {card.lead}
            /\ \E s \in Sids, amd \in AmdModes :
                 /\ leg[s].st = "unused"
                 /\ leg' = [leg EXCEPT ![s] =
                      [NoLeg EXCEPT !.st = "placing", !.lead = card.lead, !.att = card.att,
                                    !.amd = IF amd THEN "pending" ELSE "off"]]

\* makeCall up to its first await, for the lead that heads the batch.  A card
\* of a removed contact frees its slot; any other one is on its way to Twilio.
MakeCall(card, inFlight) ==
    IF ContactOf[card.lead] \in removedContacts
    THEN /\ leadsInFlight' = inFlight \ {card.lead}
         /\ UNCHANGED <<leg, machineLeads>>
    ELSE /\ leadsInFlight' = inFlight
         /\ machineLeads' = machineLeads \ {card.lead}   \* status CALLING
         /\ \E s \in Sids, amd \in AmdModes :
              /\ leg[s].st = "unused"
              /\ leg' = [leg EXCEPT ![s] =
                   [NoLeg EXCEPT !.st = "placing", !.lead = card.lead, !.att = card.att,
                                 !.amd = IF amd THEN "pending" ELSE "off"]]

exceptPump == <<pendingRedials, redialTimers, requeues, sessionVars, callVars,
                lockVars, jobVars, hangups, history>>

\* Mutant: calls on their way to Twilio take up no line.
RoomForTracked == Pacing - Cardinality(Tracked)

\* The lines that are free: pacing less tracked calls and leads in flight.
Room == Pacing - Cardinality(Tracked) - Cardinality(leadsInFlight)

\* checkCompliance says no, the agent is busy, every caller ID is frozen, or
\* there is nothing left to dial.
PumpGivesUp ==
    /\ pump.stage = "checking"
    /\ \/ agentBusyState
       \/ Hazards \cap {"closed", "frozen"} # {}
       \/ Queued(userQueue) = {}
       \/ Room <= 0
    /\ pump' = [stage |-> "idle", batch |-> <<>>]
    /\ UNCHANGED <<userQueue, leadsInFlight, machineLeads, leg, exceptPump>>

\* The batch is dequeued and its first call fired without an await between.  A
\* stop signal abandons the batch; its leads stay marked in flight.
PumpTakesBatch ==
    /\ pump.stage = "checking" /\ ~agentBusyState
    /\ LET size == Cardinality(Queued(userQueue))
           n == IF Room < size THEN Room ELSE size
       IN  /\ n > 0
           /\ \E b \in Firsts(userQueue, n) :
                LET taken == {b[i] : i \in 1 .. n}
                    cards == [i \in 1 .. n |-> [lead |-> b[i], att |-> userQueue[b[i]]]]
                IN  /\ userQueue' = RemoveWhere(userQueue, taken)
                    /\ IF stopped
                       THEN /\ leadsInFlight' = leadsInFlight \cup taken
                            /\ pump' = [stage |-> "idle", batch |-> <<>>]
                            /\ UNCHANGED <<leg, machineLeads>>
                       ELSE /\ MakeCall(cards[1], leadsInFlight \cup taken)
                            /\ pump' = [stage |-> "firing", batch |-> Tail(cards)]
    /\ UNCHANGED exceptPump

\* 250 ms later: the next call of the batch, or the end of it.
PumpFires ==
    /\ pump.stage = "firing" /\ pump.batch # <<>> /\ ~stopped
    /\ MakeCall(Head(pump.batch), leadsInFlight)
    /\ pump' = [pump EXCEPT !.batch = Tail(@)]
    /\ UNCHANGED <<userQueue, exceptPump>>

PumpEnds ==
    /\ pump.stage = "firing"
    /\ pump.batch = <<>> \/ stopped
    /\ pump' = [stage |-> "idle", batch |-> <<>>]
    /\ UNCHANGED <<userQueue, leadsInFlight, machineLeads, leg, exceptPump>>

\* makeCall reaches calls.create: the phone rings before the response is in.
SlowCreate(s) ==
    /\ "slowCreate" \in Hazards
    /\ leg[s].st = "placing" /\ dialed[leg[s].lead] < MaxDials
    /\ leg' = [leg EXCEPT ![s].st = "ringing", ![s].resp = TRUE]
    /\ dialed' = [dialed EXCEPT ![leg[s].lead] = @ + 1]
    /\ UNCHANGED <<queueVars, redialVars, sessionVars, callVars, lockVars, jobVars,
                   hangups, dispositioned, sessions>>

\* calls.create has answered: the call is tracked and its guards dropped.
CallCreated(s) ==
    LET l == leg[s].lead IN
    /\ IF leg[s].resp
       THEN /\ leg' = [leg EXCEPT ![s].resp = FALSE]
            /\ UNCHANGED dialed
       ELSE /\ leg[s].st = "placing" /\ dialed[l] < MaxDials
            /\ leg' = [leg EXCEPT ![s].st = "ringing"]
            /\ dialed' = [dialed EXCEPT ![l] = @ + 1]
    /\ activeCalls' = [activeCalls EXCEPT ![s] = 1]
    /\ meta' = [meta EXCEPT ![s][1] = NewMeta]
    /\ pendingRedials' = pendingRedials \ {l}
    /\ leadsInFlight' = leadsInFlight \ {l}
    /\ UNCHANGED <<userQueue, pump, redialTimers, requeues, machineLeads, sessionVars,
                   processedTerminalSids, lockVars, jobVars, hangups, dispositioned,
                   sessions>>

exceptAbort == <<userQueue, redialTimers, requeues, machineLeads, sessionVars,
                 callVars, lockVars, jobVars, hangups, history>>

\* isDialBlocked gives a reason: the slot is freed, the redial guard is not.
DialBlocked(s) ==
    /\ leg[s].st = "placing" /\ "blocked" \in Hazards
    /\ leg' = [leg EXCEPT ![s] = NoLeg]
    /\ leadsInFlight' = leadsInFlight \ {leg[s].lead}
    /\ pump' = Pumped(agentPostCallState, userQueue)
    /\ UNCHANGED <<pendingRedials, exceptAbort>>

\* Every caller ID froze meanwhile: abort without pulling the next lead.
DialFrozen(s) ==
    /\ leg[s].st = "placing" /\ "frozen" \in Hazards
    /\ leg' = [leg EXCEPT ![s] = NoLeg]
    /\ leadsInFlight' = leadsInFlight \ {leg[s].lead}
    /\ pendingRedials' = pendingRedials \ {leg[s].lead}
    /\ UNCHANGED <<pump, exceptAbort>>

\* Mutant: the catch block forgets the line.
DialFailsKeepsSlot(s) ==
    /\ leg[s].st = "placing" /\ "placeFail" \in Hazards
    /\ leg' = [leg EXCEPT ![s] = NoLeg]
    /\ pendingRedials' = pendingRedials \ {leg[s].lead}
    /\ pump' = Pumped(agentPostCallState, userQueue)
    /\ UNCHANGED <<leadsInFlight, exceptAbort>>

\* calls.create throws.
DialFails(s) ==
    /\ leg[s].st = "placing" /\ "placeFail" \in Hazards
    /\ leg' = [leg EXCEPT ![s] = NoLeg]
    /\ leadsInFlight' = leadsInFlight \ {leg[s].lead}
    /\ pendingRedials' = pendingRedials \ {leg[s].lead}
    /\ pump' = Pumped(agentPostCallState, userQueue)
    /\ UNCHANGED exceptAbort

Dialing ==
    \/ PumpGivesUp \/ PumpTakesBatch \/ PumpFires \/ PumpEnds
    \/ \E s \in Sids : \/ SlowCreate(s) \/ CallCreated(s)
                       \/ DialBlocked(s) \/ DialFrozen(s) \/ DialFails(s)

-----------------------------------------------------------------------------
(* handleCallStatusUpdate.  sid is always the root call: the controller     *)
(* passes ParentCallSid for a child leg.                                    *)

\* A report in the database, with the metadata object found when it came in.
Report(s, status, child, n) ==
    [sid |-> s, status |-> status, child |-> child, obj |-> activeCalls[s], nth |-> n]

\* Up to the database awaits: the metadata object takes the status it reports.
\* What follows the awaits matters for a final status; a child leg's no-answer
\* does nothing more.
StatusArrives(s, status, child) ==
    LET obj == activeCalls[s]
        old == meta[s][obj]
        kept == old.status = "callback" /\ status = "answered"
        new == [old EXCEPT !.status = IF kept THEN @
                                      ELSE IF status \in Terminal THEN status ELSE "live",
                           !.connected = @ \/ (child /\ status = "answered")]
        nth == IF Report(s, status, child, 1) \in finishing THEN 2 ELSE 1
    IN  /\ meta' = IF obj = 0 THEN meta ELSE [meta EXCEPT ![s][obj] = new]
        /\ machineLeads' = IF obj = 0 \/ ~old.known THEN machineLeads
                           ELSE machineLeads \ {leg[s].lead}
        /\ finishing' = IF status = "completed" \/ (status = "no-answer" /\ ~child)
                        THEN finishing \cup {Report(s, status, child, nth)}
                        ELSE finishing

exceptStatus == <<queueVars, pendingRedials, redialTimers, requeues, sessionVars,
                  activeCalls, processedTerminalSids, lockVars, skipping, bridging,
                  hangups, history>>

\* Webhooks come late, twice or never: a handler may run whenever Twilio has had
\* something to report, as long as the report can still change anything.
Matters(s) == activeCalls[s] # 0 \/ s \notin processedTerminalSids

\* The initiated, ringing and answered callbacks of the customer's leg.
CallProgress(s, status) ==
    /\ "lateProgress" \in Hazards
    /\ leg[s].st \notin {"unused", "placing"} /\ activeCalls[s] # 0
    /\ CurrentStatus(s) # "live"
    /\ status = "answered" => leg[s].st # "ringing" /\ leg[s].end # "no-answer"
    /\ StatusArrives(s, status, FALSE)
    /\ UNCHANGED <<leg, exceptStatus>>

\* The answered callback of the agent's leg.
AgentLegAnswered(s) ==
    /\ leg[s].spoke /\ activeCalls[s] # 0
    /\ StatusArrives(s, "answered", TRUE)
    /\ UNCHANGED <<leg, exceptStatus>>

\* "lateBridge" off: Twilio answers a bridge redirect before the end of the same
\* call is handled.
Redirected(s) == s \in bridging => "lateBridge" \in Hazards

\* The final callback of the agent's leg, about its parent.
AgentLegEnded(s) ==
    /\ Redirected(s)
    /\ leg[s].kid # "none" /\ Matters(s)
    /\ StatusArrives(s, leg[s].kid, TRUE)
    /\ UNCHANGED <<leg, exceptStatus>>

\* The final callback of the call; handleCallStatus reports a call of zero
\* duration as no-answer.
CallEnded(s) ==
    /\ Redirected(s)
    /\ leg[s].end # "none" /\ Matters(s)
    /\ StatusArrives(s, IF leg[s].end = "zero" THEN "no-answer" ELSE leg[s].end, FALSE)
    /\ UNCHANGED <<leg, exceptStatus>>

\* After the awaits.  A redial is owed by the customer's own leg only.
WantsRedial(j) ==
    /\ j.obj # 0 /\ ~j.child
    /\ meta[j.sid][j.obj].status # "machine"
    /\ meta[j.sid][j.obj].known => leg[j.sid].lead \notin machineLeads
    /\ meta[j.sid][j.obj].status = "callback" \/ j.status = "no-answer"

\* Mutant: the attempt count is not carried from call to call.
AttemptsForgotten(j) == 1

\* metadata?.attempts || 1: only the object makeCall stored has the field.
AttemptsOf(j) == IF j.obj = 1 THEN leg[j.sid].att ELSE 1

\* Mutant: the last attempt earns another redial.
ScheduleRedialOnceMore(j) ==
    IF WantsRedial(j) /\ AttemptsOf(j) <= MaxAttempts
    THEN RequeueLeadForRedial(leg[j.sid].lead, AttemptsOf(j) + 1, meta[j.sid][j.obj].known)
    ELSE UNCHANGED <<pendingRedials, redialTimers>>

ScheduleRedial(j) ==
    IF WantsRedial(j) /\ AttemptsOf(j) < MaxAttempts
    THEN RequeueLeadForRedial(leg[j.sid].lead, AttemptsOf(j) + 1, meta[j.sid][j.obj].known)
    ELSE UNCHANGED <<pendingRedials, redialTimers>>

AgentSpokeOnCall(j) == j.obj # 0 /\ meta[j.sid][j.obj].connected

\* Mutant: other calls do not protect the lock.
NoOtherCalls(s) == FALSE

HasOtherCalls(s) == \E t \in Tracked \ {s} : CurrentStatus(t) \notin Terminal

\* The lock owner's call is over: post-call is owed unless the agent has
\* dispositioned this very call, or never spoke on it.
ReleaseOwner(j) ==
    /\ agentPostCallState' = IF agentReadyForCall = j.sid THEN FALSE
                             ELSE agentPostCallState \/ AgentSpokeOnCall(j)
    /\ postCallEnteredAt' = (postCallEnteredAt /\ agentReadyForCall # j.sid)
    /\ agentReadyForCall' = None
    /\ Release

\* The last call of an agent who is still marked busy is over.
ReleaseOrphan(j) ==
    /\ agentPostCallState' = (agentPostCallState \/ AgentSpokeOnCall(j))
    /\ Release
    /\ UNCHANGED <<postCallEnteredAt, agentReadyForCall>>

TerminalStatus(j) ==
    LET s == j.sid IN
    /\ activeCalls' = [activeCalls EXCEPT ![s] = 0]
    /\ processedTerminalSids' = processedTerminalSids \cup {s}
    /\ IF s \in processedTerminalSids
       THEN UNCHANGED <<lockVars, pump>>
       ELSE /\ IF agentBridgedCallId = s THEN ReleaseOwner(j)
               ELSE IF agentBusyState /\ ~HasOtherCalls(s) THEN ReleaseOrphan(j)
               ELSE UNCHANGED lockVars
            /\ pump' = Pumped(agentPostCallState', userQueue)

Finishable == {j \in finishing : Redirected(j.sid)}

FinishStatus(j) ==
    /\ j \in Finishable
    /\ finishing' = finishing \ {j}
    /\ ScheduleRedial(j)
    /\ TerminalStatus(j)
    /\ UNCHANGED <<userQueue, leadsInFlight, requeues, machineLeads, sessionVars, meta,
                   skipping, bridging, twilioVars, history>>

StatusWebhooks ==
    \E s \in Sids : \/ CallProgress(s, "ringing") \/ CallProgress(s, "answered")
                    \/ AgentLegAnswered(s) \/ AgentLegEnded(s) \/ CallEnded(s)

-----------------------------------------------------------------------------
(* handleVoiceWebhook (a call the dialer placed) and handleAmdStatus.       *)

Mark(s, status) ==
    meta' = IF activeCalls[s] = 0 THEN meta
            ELSE [meta EXCEPT ![s][activeCalls[s]].status = status]

\* The bridge stores a fresh metadata object: attempts and agentConnected of
\* the one makeCall stored are not copied.
Bridged(s) ==
    /\ meta' = [meta EXCEPT ![s][2] = [NewMeta EXCEPT !.known =
                  activeCalls[s] # 0 /\ meta[s][activeCalls[s]].known]]
    /\ activeCalls' = [activeCalls EXCEPT ![s] = 2]

\* What the TwiML or the redirect does to a leg that is still up.
Play(s, from, st) ==
    IF leg[s].st = from
    THEN [leg EXCEPT ![s].st = st, ![s].voice = FALSE, ![s].over = (st = "music")]
    ELSE [leg EXCEPT ![s].voice = FALSE]

VoiceHolds(s) ==
    /\ leg[s].voice /\ leg[s].amd # "off"
    /\ leg' = Play(s, "answered", "held")
    /\ UNCHANGED exceptLeg

\* Mutant: a lock is never found stale.
NeverStale == FALSE

\* The lock is held by a call that is not tracked.
LockOwnerStale == agentBridgedCallId # None /\ activeCalls[agentBridgedCallId] = 0

ActuallyBusy(s) ==
    \/ agentPostCallState
    \/ agentBusyState /\ agentBridgedCallId \notin {None, s} /\ ~LockOwnerStale

exceptVoice == <<queueVars, redialVars, sessionVars, processedTerminalSids,
                 agentPostCallState, postCallEnteredAt, agentReadyForCall,
                 finishing, skipping, hangups, history>>

VoiceOverflows(s) ==
    /\ leg[s].voice /\ leg[s].amd = "off" /\ ActuallyBusy(s)
    /\ Mark(s, "callback")
    /\ leg' = Play(s, "answered", "music")
    /\ UNCHANGED <<activeCalls, agentBusyState, agentBridgedCallId, bridging, exceptVoice>>

VoiceBridges(s) ==
    /\ leg[s].voice /\ leg[s].amd = "off" /\ ~ActuallyBusy(s)
    /\ Acquire(s)
    /\ Bridged(s)
    /\ leg' = Play(s, "answered", "bridging")
    /\ UNCHANGED <<bridging, exceptVoice>>

\* Mutant: the disposition the agent owes is not asked for.
OnCall == agentBusyState

\* For handleAmdStatus the agent is taken by any lock, and by post-call.
AgentTaken == agentBusyState \/ agentPostCallState

\* A human, and the agent is taken: hold music, then Twilio hangs up; a failing
\* redirect leaves the call as it was.
HumanOverflows(s) ==
    /\ leg[s].amd = "human"
    /\ AgentTaken
    /\ Mark(s, "callback")
    /\ \/ leg' = [Play(s, "held", "music") EXCEPT ![s].amd = "done"]
       \/ "restFail" \in Hazards /\ leg' = [leg EXCEPT ![s].amd = "done"]
    /\ UNCHANGED <<activeCalls, agentBusyState, agentBridgedCallId, bridging, exceptVoice>>

\* A human, and the agent is free: take the lock and ask Twilio to bridge,
\* unless the call has ended already.
HumanBridges(s) ==
    /\ leg[s].amd = "human"
    /\ ~AgentTaken
    /\ leg' = [leg EXCEPT ![s].amd = "done"]
    /\ IF activeCalls[s] = 0
       THEN UNCHANGED <<meta, activeCalls, agentBusyState, agentBridgedCallId, bridging>>
       ELSE /\ Acquire(s)
            /\ Bridged(s)
            /\ bridging' = bridging \cup {s}
    /\ UNCHANGED exceptVoice

exceptBridge == <<userQueue, leadsInFlight, redialVars, sessionVars, meta,
                  processedTerminalSids, agentPostCallState, postCallEnteredAt,
                  agentReadyForCall, finishing, skipping, hangups, history>>

BridgeLands(s) ==
    /\ s \in bridging /\ leg[s].st = "held"
    /\ bridging' = bridging \ {s}
    /\ leg' = Play(s, "held", "bridging")
    /\ UNCHANGED <<activeCalls, agentBusyState, agentBridgedCallId, pump, exceptBridge>>

\* The redirect of a call that is gone fails: the handler frees the agent,
\* whoever holds the lock by then.
BridgeFails(s) ==
    /\ s \in bridging
    /\ leg[s].st # "held" \/ "restFail" \in Hazards
    /\ bridging' = bridging \ {s}
    /\ Release
    /\ activeCalls' = [activeCalls EXCEPT ![s] = 0]
    /\ pump' = Pumped(agentPostCallState, userQueue)
    /\ UNCHANGED <<leg, exceptBridge>>

\* A machine: forget the call at once ...
MachineDetected(s) ==
    /\ leg[s].amd = "machine"
    /\ leg' = [leg EXCEPT ![s].amd = "done"]
    /\ Mark(s, "machine")
    /\ skipping' = skipping \cup {[sid |-> s, obj |-> activeCalls[s]]}
    /\ activeCalls' = [activeCalls EXCEPT ![s] = 0]
    /\ UNCHANGED <<queueVars, redialVars, sessionVars, processedTerminalSids, lockVars,
                   finishing, bridging, hangups, history>>

\* ... and when the lead's row says MACHINE, cancel the card's redial if the
\* metadata that names the card was still there, drop the contact's other
\* cards, hang up and pump.
SkipMachine(k) ==
    /\ k \in skipping
    /\ LET l == leg[k.sid].lead
           q == RemoveWhere(userQueue, CardsOf(ContactOf[l]))
       IN  /\ machineLeads' = machineLeads \cup {l}
           /\ CancelPendingRedials(IF k.obj = 0 THEN {} ELSE {l})
           /\ userQueue' = q
           /\ pump' = Pumped(agentPostCallState, q)
    /\ hangups' = hangups \cup {k.sid}
    /\ skipping' = skipping \ {k}
    /\ UNCHANGED <<leadsInFlight, requeues, sessionVars, callVars, lockVars, finishing,
                   bridging, leg, history>>

BridgeWebhooks ==
    \/ \E s \in Sids : \/ VoiceHolds(s) \/ VoiceOverflows(s) \/ VoiceBridges(s)
                       \/ HumanOverflows(s) \/ HumanBridges(s)
                       \/ BridgeLands(s) \/ BridgeFails(s) \/ MachineDetected(s)
    \/ \E k \in skipping : SkipMachine(k)

-----------------------------------------------------------------------------
(* The redial timeout.  It is 15 s or 30 s long, so it never fires while a  *)
(* status handler that is already running still waits on the database.      *)

RedialTimerFires(t) ==
    /\ t \in redialTimers /\ finishing = {}
    /\ redialTimers' = {IF u.lead = t.lead THEN [u EXCEPT !.cancelable = FALSE] ELSE u :
                           u \in redialTimers \ {t}}
    /\ requeues' = requeues \cup {[lead |-> t.lead, att |-> t.att, known |-> t.known]}
    /\ UNCHANGED <<queueVars, pendingRedials, machineLeads, sessionVars, callVars,
                   lockVars, jobVars, twilioVars, history>>

exceptRequeue == <<leadsInFlight, redialTimers, sessionVars, callVars, lockVars,
                   jobVars, twilioVars, history>>

\* The lead turned out to be a machine, or its row is not found.
RequeueDropped(r) ==
    /\ r \in requeues
    /\ r.lead \in machineLeads \/ ~r.known
    /\ requeues' = requeues \ {r}
    /\ pendingRedials' = pendingRedials \ {r.lead}
    /\ UNCHANGED <<userQueue, pump, machineLeads, exceptRequeue>>

\* The card goes back to the queue; its guard stays until makeCall drops it.
RequeueEnters(r) ==
    /\ r \in requeues
    /\ r.lead \notin machineLeads /\ r.known
    /\ requeues' = requeues \ {r}
    /\ userQueue' = Enqueue(userQueue, r.lead, r.att)
    /\ pump' = Pumped(agentPostCallState, userQueue')
    /\ UNCHANGED <<pendingRedials, machineLeads, exceptRequeue>>

\* A database call throws: the error is logged.
RequeueThrows(r) ==
    /\ r \in requeues /\ "dbFail" \in Hazards
    /\ requeues' = requeues \ {r}
    /\ UNCHANGED <<userQueue, pump, pendingRedials, machineLeads, exceptRequeue>>

Redialing ==
    \/ \E t \in redialTimers : RedialTimerFires(t)
    \/ \E r \in requeues : RequeueDropped(r) \/ RequeueEnters(r) \/ RequeueThrows(r)
=============================================================================
