-------------------------------- MODULE Dialer --------------------------------
(***************************************************************************)
(* The dialer of one agent: the session requests (start, stop, ready,      *)
(* remove a contact), the reconciliation watchdog, the complete next-state *)
(* relation over DialerCalls and DialerTwilio.                              *)
(***************************************************************************)
EXTENDS DialerCalls

-----------------------------------------------------------------------------
(* Session requests. *)

\* addLeadsToDialer begins: free the agent, forget the calls still tracked.
\* Bound: MaxSessions.
StartBegins ==
    /\ starting = "no" /\ sessions < MaxSessions
    /\ starting' = "saving" /\ sessions' = sessions + 1
    /\ Release
    /\ pump' = Pumped(agentPostCallState, userQueue)
    /\ activeCalls' = [s \in Sids |-> 0]
    /\ UNCHANGED <<userQueue, leadsInFlight, redialVars, removedContacts, stopped, meta,
                   processedTerminalSids, agentPostCallState, postCallEnteredAt,
                   agentReadyForCall, jobVars, twilioVars, dialed, dispositioned>>

\* The lead rows are saved (status PENDING); addLeadsToQueue lifts the stop signal.
StartSaved ==
    /\ starting = "saving"
    /\ starting' = "loading" /\ stopped' = FALSE
    /\ machineLeads' = {}
    /\ UNCHANGED <<queueVars, pendingRedials, redialTimers, requeues, removedContacts,
                   callVars, lockVars, jobVars, twilioVars, history>>

\* Nothing may be dialed (Do Not Call, compliance), or a query throws: the
\* request ends, and what it has freed and forgotten stays so.
StartAborts ==
    /\ starting \in {"saving", "loading"}
    /\ starting' = "no"
    /\ UNCHANGED <<queueVars, redialVars, removedContacts, stopped, sessions,
                   callVars, lockVars, jobVars, twilioVars, history>>

\* The caller-ID limits are loaded: fill the queue and go.
StartFills ==
    /\ starting = "loading"
    /\ starting' = "no"
    /\ userQueue' = [l \in Leads |-> Enqueue(userQueue, l, 1)[l]]
    /\ agentPostCallState' = FALSE
    /\ pump' = Pumped(FALSE, userQueue')
    /\ UNCHANGED <<leadsInFlight, redialVars, removedContacts, stopped, callVars,
                   agentBusyState, agentBridgedCallId, postCallEnteredAt,
                   agentReadyForCall, jobVars, twilioVars, history>>

\* stopDialing: setAgentBusy(userId, false), which may still start the pump,
\* then clearQueue.  The tracked calls are hung up; pendingRedials and
\* redialTimers are left alone.
StopDialing ==
    /\ "stop" \in Hazards /\ sessions > 0 /\ ~stopped
    /\ stopped' = TRUE
    /\ pump' = Pumped(agentPostCallState, userQueue)
    /\ userQueue' = [l \in Leads |-> 0]
    /\ hangups' = hangups \cup Tracked
    /\ Release
    /\ agentPostCallState' = FALSE /\ postCallEnteredAt' = FALSE
    /\ agentReadyForCall' = None
    /\ removedContacts' = {} /\ leadsInFlight' = {}
    /\ activeCalls' = [s \in Sids |-> 0]
    /\ UNCHANGED <<redialVars, starting, meta, processedTerminalSids, jobVars, leg, history>>

\* The agent dispositions call s and the browser posts agent-ready, which does
\* not say which call it is about: the service takes the one holding the lock.
AgentReady(s) ==
    /\ leg[s].spoke /\ s \notin dispositioned
    /\ dispositioned' = dispositioned \cup {s}
    /\ agentPostCallState' = FALSE /\ postCallEnteredAt' = FALSE
    /\ agentReadyForCall' = IF agentBridgedCallId = None THEN agentReadyForCall
                            ELSE agentBridgedCallId
    /\ pump' = Pumped(FALSE, userQueue)
    /\ UNCHANGED <<userQueue, leadsInFlight, redialVars, sessionVars, callVars,
                   agentBusyState, agentBridgedCallId, jobVars, twilioVars, dialed, sessions>>

\* Mutant: the live call of the lock owner is dropped as well.
PurgeLockOwner(c) ==
    /\ "purge" \in Hazards /\ ~stopped /\ sessions > 0 /\ c \notin removedContacts
    /\ removedContacts' = removedContacts \cup {c}
    /\ CancelPendingRedials(CardsOf(c) \cap pendingRedials)
    /\ userQueue' = RemoveWhere(userQueue, CardsOf(c))
    /\ LET gone == {s \in Tracked : leg[s].lead \in CardsOf(c)}
       IN  /\ activeCalls' = [s \in Sids |-> IF s \in gone THEN 0 ELSE activeCalls[s]]
           /\ hangups' = hangups \cup gone
    /\ UNCHANGED <<leadsInFlight, pump, requeues, machineLeads, stopped, starting, meta,
                   processedTerminalSids, lockVars, jobVars, leg, history>>

\* purgeContactFromSession (Trash, DNC, Contacted).
PurgeContact(c) ==
    /\ "purge" \in Hazards /\ ~stopped /\ sessions > 0 /\ c \notin removedContacts
    /\ removedContacts' = removedContacts \cup {c}
    /\ CancelPendingRedials(CardsOf(c) \cap pendingRedials)
    /\ userQueue' = RemoveWhere(userQueue, CardsOf(c))
    /\ LET gone == {s \in Tracked \ {agentBridgedCallId} : leg[s].lead \in CardsOf(c)}
       IN  /\ activeCalls' = [s \in Sids |-> IF s \in gone THEN 0 ELSE activeCalls[s]]
           /\ hangups' = hangups \cup gone
    /\ UNCHANGED <<leadsInFlight, pump, requeues, machineLeads, stopped, starting, meta,
                   processedTerminalSids, lockVars, jobVars, leg, history>>

\* removeContactFromPowerQueue with exceptQueueCardId: keep one card.
TrimCards(keep) ==
    /\ "trim" \in Hazards
    /\ userQueue' = RemoveWhere(userQueue, CardsOf(ContactOf[keep]) \ {keep})
    /\ userQueue' # userQueue
    /\ UNCHANGED <<leadsInFlight, pump, redialVars, sessionVars, callVars, lockVars,
                   jobVars, twilioVars, history>>

Session ==
    \/ StartBegins \/ StartSaved \/ StartAborts \/ StartFills \/ StopDialing
    \/ \E s \in Sids : AgentReady(s)
    \/ \E c \in Contacts : PurgeContact(c)
    \/ \E l \in Leads : TrimCards(l)

-----------------------------------------------------------------------------
(* The watchdog: reconcileUser, and the 60-minute rule of isAgentBusy.      *)

\* getActiveUserIds: some dialer state is left and the agent has not stopped.
Watched ==
    /\ ~stopped
    /\ \/ Queued(userQueue) # {} \/ Tracked # {} \/ agentBridgedCallId # None
       \/ agentPostCallState \/ leadsInFlight # {} \/ pendingRedials # {}

\* Mutant: a call whose last known status is final is not asked about.
WatchdogFetchesLive(s) ==
    /\ Watched /\ Redirected(s) /\ activeCalls[s] # 0 /\ leg[s].end # "none"
    /\ CurrentStatus(s) \notin Terminal
    /\ StatusArrives(s, IF leg[s].end = "zero" THEN "completed" ELSE leg[s].end, FALSE)
    /\ UNCHANGED <<leg, exceptStatus>>

\* Step 1: a quiet call turns out to be over.  REST reports the raw status, so
\* a call of zero duration is completed here.
WatchdogFetches(s) ==
    /\ Watched /\ Redirected(s) /\ activeCalls[s] # 0 /\ leg[s].end # "none"
    /\ StatusArrives(s, IF leg[s].end = "zero" THEN "completed" ELSE leg[s].end, FALSE)
    /\ UNCHANGED <<leg, exceptStatus>>

exceptSweep == <<userQueue, leadsInFlight, redialVars, sessionVars, callVars,
                 agentReadyForCall, jobVars, twilioVars, history>>

NoLiveCall == \A s \in Tracked : CurrentStatus(s) \in Terminal

\* Mutant: the post-call clock never runs out.
NeverResumes(graceOver) == FALSE

\* Step 3: a post-call seen before is cleared after its grace.
Resumes(graceOver) ==
    agentPostCallState /\ postCallEnteredAt /\ NoLiveCall /\ graceOver

\* Steps 2 to 4, which run without an await: release an orphaned lock, run the
\* post-call clock (the grace is over or not), pump.
WatchdogSweeps(graceOver) ==
    LET orphaned == agentBusyState /\ LockOwnerStale
        resumes == Resumes(graceOver)
    IN  /\ Watched
        /\ IF orphaned THEN Release ELSE UNCHANGED <<agentBusyState, agentBridgedCallId>>
        /\ agentPostCallState' = (agentPostCallState /\ ~resumes)
        /\ postCallEnteredAt' = (agentPostCallState /\ ~resumes)
        /\ pump' = IF agentBusyState' /\ ~orphaned THEN pump
                   ELSE Pumped(agentPostCallState', userQueue)
        /\ UNCHANGED exceptSweep

Watchdog ==
    \/ \E s \in Sids : WatchdogFetches(s)
    \/ \E graceOver \in BOOLEAN : WatchdogSweeps(graceOver)

\* isAgentBusy finds no activity for 60 minutes and frees the agent.
StaleLock ==
    /\ "staleLock" \in Hazards /\ agentBusyState
    /\ Release
    /\ pump' = Pumped(agentPostCallState, userQueue)
    /\ UNCHANGED <<agentPostCallState, postCallEnteredAt, exceptSweep>>

-----------------------------------------------------------------------------

Step == Dialing \/ StatusWebhooks \/ BridgeWebhooks \/ Redialing \/ Session
        \/ Watchdog \/ StaleLock \/ Telephony

\* A spent call has no part in any other step: its slot is freed first.  With
\* "slowDb" off a status update leaves the database before anything else runs.
Next ==
    \/ \E s \in Sids : Reuse(s)
    \/ /\ \A s \in Sids : ~Spent(s)
       /\ \/ \E j \in finishing : FinishStatus(j)
          \/ ("slowDb" \in Hazards \/ Finishable = {}) /\ Step

Spec == Init /\ [][Next]_vars
=============================================================================
