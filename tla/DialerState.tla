----------------------------- MODULE DialerState -----------------------------
(***************************************************************************)
(* The in-memory state of DialerService (src/routes/calling/services.ts)   *)
(* for one agent, the state of the Twilio call legs it has placed, and the *)
(* operators that the handlers of Dialer.tla and the telephony environment *)
(* of DialerTwilio.tla share.  Every Map of the service is keyed by userId, *)
(* so one agent is the whole of the interesting behaviour: agents share    *)
(* only processedTerminalSids, whose members are call SIDs.                *)
(*                                                                         *)
(* A lead stands for one queue card (one phone number of one contact); a   *)
(* SID is a slot that Twilio fills with a call.  Statuses are kept up to   *)
(* the distinctions the handlers make:                                     *)
(*   "no-answer" stands for no-answer, busy and failed,                    *)
(*   "completed" stands for completed and canceled,                        *)
(*   "live"      stands for every other status a call can report.          *)
(***************************************************************************)
EXTENDS Integers, Sequences, FiniteSets

CONSTANTS
    Leads,        \* queue cards of the session
    Contacts,     \* the people the cards belong to
    ContactOf,    \* the contact of a card
    Rank,         \* priority of a card, higher first
    Sids,         \* call slots
    None,         \* no SID, no lead
    Pacing,       \* simultaneous lines the agent chose
    MaxAttempts,  \* maxAttempts of handleCallStatusUpdate (3 in the code)
    AmdModes,     \* values amdEnabled can take during the session
    Hazards,      \* which optional events of the environment may happen
    MaxSessions,  \* bound: how often addLeadsToDialer is called
    MaxDials      \* bound: how often one lead is dialed in one behaviour

HazardNames == {"slowDb",      \* other handlers run while a status update is in the database
                "lateVoice",   \* a call may end before its TwiML request is handled
                "lateProgress",\* ringing and answered callbacks may come late
                "slowCreate",  \* webhooks may overtake the REST response of calls.create
                "blocked",     \* isDialBlocked may refuse a number
                "frozen",      \* every caller ID may be in cooldown
                "placeFail",   \* calls.create may throw
                "closed",      \* the TCPA window or autodialing may be off
                "dbFail",      \* a database call in a redial timer may throw
                "restFail",    \* the bridge redirect may fail on a live call
                "lateBridge",  \* ... or be answered after the call's teardown was processed
                "stop", "purge", "trim", "staleLock"}

ASSUME DialerAssumption ==
    /\ IsFiniteSet(Leads) /\ IsFiniteSet(Sids)
    /\ ContactOf \in [Leads -> Contacts]
    /\ Rank \in [Leads -> Int]
    /\ None \notin Leads /\ None \notin Sids
    /\ Pacing \in Nat \ {0} /\ MaxAttempts \in Nat \ {0}
    /\ AmdModes \subseteq BOOLEAN /\ Hazards \subseteq HazardNames
    /\ MaxSessions \in Nat /\ MaxDials \in Nat

VARIABLES
    userQueue,             \* attempts of each queued card, 0 when it is not queued
    leadsInFlight,         \* leads between dequeue and activeCalls.set
    pump,                  \* the processQueue invocation holding userProcessingLocks
    pendingRedials,        \* guard keys
    redialTimers,          \* scheduled timeouts
    requeues,              \* timeouts that have fired and await the database
    machineLeads,          \* leads whose database status is MACHINE
    removedContacts, stopped, starting,
    activeCalls,           \* which metadata object the map holds for a SID
    meta,                  \* the two metadata objects a SID may have
    processedTerminalSids,
    agentBusyState, agentBridgedCallId, agentPostCallState,
    postCallEnteredAt,     \* the watchdog has seen the current post-call
    agentReadyForCall,
    finishing,             \* handleCallStatusUpdate calls waiting on the database
    skipping,              \* machine branches of handleAmdStatus waiting on it
    bridging,              \* bridge redirects waiting on Twilio
    leg, hangups,          \* Twilio's calls; hang-ups requested of it
    dialed, dispositioned, sessions   \* history

queueVars   == <<userQueue, leadsInFlight, pump>>
redialVars  == <<pendingRedials, redialTimers, requeues, machineLeads>>
sessionVars == <<removedContacts, stopped, starting>>
callVars    == <<activeCalls, meta, processedTerminalSids>>
lockVars    == <<agentBusyState, agentBridgedCallId, agentPostCallState,
                 postCallEnteredAt, agentReadyForCall>>
jobVars     == <<finishing, skipping, bridging>>
twilioVars  == <<leg, hangups>>
history     == <<dialed, dispositioned, sessions>>
vars == <<queueVars, redialVars, sessionVars, callVars, lockVars, jobVars,
          twilioVars, history>>

-----------------------------------------------------------------------------
(* Types. *)

Attempts == 0 .. MaxAttempts
Terminal == {"completed", "no-answer"}
Meta == [status : {"live", "callback", "machine"} \cup Terminal,
         connected : BOOLEAN,   \* agentConnected
         known : BOOLEAN]       \* carries the id of the lead's row
NewMeta == [status |-> "live", connected |-> FALSE, known |-> TRUE]

LegStates == {"unused", "placing", "ringing", "answered", "held", "music",
              "bridging", "talking", "ended"}
Leg == [st : LegStates, lead : Leads \cup {None}, att : Attempts,
        amd : {"off", "pending", "human", "machine", "done"},
        voice : BOOLEAN,   \* Twilio is asking for the call's TwiML
        resp : BOOLEAN,    \* the response of calls.create is outstanding
        spoke : BOOLEAN,   \* the agent's browser answered the bridge
        kid : {"none"} \cup Terminal,             \* how the agent's leg ended
        end : {"none", "zero"} \cup Terminal,     \* how the call ended
        over : BOOLEAN]    \* the customer was put on hold: the agent was busy
NoLeg == [st |-> "unused", lead |-> None, att |-> 0, amd |-> "off",
          voice |-> FALSE, resp |-> FALSE, spoke |-> FALSE, kid |-> "none",
          end |-> "none", over |-> FALSE]

Timer == [lead : Leads, att : Attempts, known : BOOLEAN, cancelable : BOOLEAN]
Requeue == [lead : Leads, att : Attempts, known : BOOLEAN]
Finish == [sid : Sids, status : Terminal, child : BOOLEAN, obj : 0 .. 2,
           nth : 1 .. 2]   \* the same report may be in the database twice
Skip == [sid : Sids, obj : 0 .. 2]
Card == [lead : Leads, att : Attempts]

QueueTypes ==
    /\ userQueue \in [Leads -> Attempts]
    /\ leadsInFlight \in SUBSET Leads
    /\ pump \in [stage : {"idle", "checking", "firing"}, batch : Seq(Card)]
RedialTypes ==
    /\ pendingRedials \in SUBSET Leads
    /\ redialTimers \in SUBSET Timer
    /\ requeues \in SUBSET Requeue
    /\ machineLeads \in SUBSET Leads
SessionTypes ==
    /\ removedContacts \in SUBSET Contacts
    /\ stopped \in BOOLEAN
    /\ starting \in {"no", "saving", "loading"}
CallTypes ==
    /\ activeCalls \in [Sids -> 0 .. 2]
    /\ meta \in [Sids -> [1 .. 2 -> Meta]]
    /\ processedTerminalSids \in SUBSET Sids
LockTypes ==
    /\ agentBusyState \in BOOLEAN
    /\ agentBridgedCallId \in Sids \cup {None}
    /\ agentPostCallState \in BOOLEAN
    /\ postCallEnteredAt \in BOOLEAN
    /\ agentReadyForCall \in Sids \cup {None}
JobTypes ==
    /\ finishing \in SUBSET Finish
    /\ skipping \in SUBSET Skip
    /\ bridging \in SUBSET Sids
TwilioTypes ==
    /\ leg \in [Sids -> Leg]
    /\ hangups \in SUBSET Sids
HistoryTypes ==
    /\ dialed \in [Leads -> 0 .. MaxDials]
    /\ dispositioned \in SUBSET Sids
    /\ sessions \in 0 .. MaxSessions

TypeOK == /\ QueueTypes /\ RedialTypes /\ SessionTypes /\ CallTypes
          /\ LockTypes /\ JobTypes /\ TwilioTypes /\ HistoryTypes

Init ==
    /\ userQueue = [l \in Leads |-> 0]
    /\ leadsInFlight = {}
    /\ pump = [stage |-> "idle", batch |-> <<>>]
    /\ pendingRedials = {} /\ redialTimers = {} /\ requeues = {}
    /\ machineLeads = {} /\ removedContacts = {}
    /\ stopped = FALSE /\ starting = "no"
    /\ activeCalls = [s \in Sids |-> 0]
    /\ meta = [s \in Sids |-> [o \in 1 .. 2 |-> NewMeta]]
    /\ processedTerminalSids = {}
    /\ agentBusyState = FALSE /\ agentBridgedCallId = None
    /\ agentPostCallState = FALSE /\ postCallEnteredAt = FALSE
    /\ agentReadyForCall = None
    /\ finishing = {} /\ skipping = {} /\ bridging = {}
    /\ leg = [s \in Sids |-> NoLeg] /\ hangups = {}
    /\ dialed = [l \in Leads |-> 0] /\ dispositioned = {} /\ sessions = 0

-----------------------------------------------------------------------------
(* PriorityCallQueue: one entry per lead, highest priority first. *)

Enqueue(q, l, att) == IF q[l] # 0 THEN q ELSE [q EXCEPT ![l] = att]

Queued(q) == {l \in Leads : q[l] # 0}

RemoveWhere(q, P) == [l \in Leads |-> IF l \in P THEN 0 ELSE q[l]]

\* The first n leads dequeue returns; leads of equal rank leave in any order.
Firsts(q, n) ==
    {b \in [1 .. n -> Queued(q)] :
        /\ \A i, j \in 1 .. n : i < j => b[i] # b[j] /\ Rank[b[i]] >= Rank[b[j]]
        /\ \A i \in 1 .. n, l \in Queued(q) \ {b[k] : k \in 1 .. n} :
              Rank[b[i]] >= Rank[l]}

-----------------------------------------------------------------------------
(* Helpers that several handlers call. *)

Tracked == {s \in Sids : activeCalls[s] # 0}

CurrentStatus(s) == meta[s][activeCalls[s]].status

LiveLeg(s) == leg[s].st \notin {"unused", "placing", "ended"}

CardsOf(c) == {l \in Leads : ContactOf[l] = c}

\* The synchronous part of processQueue, given the post-call flag and the
\* queue it reads: return at once, or take the lock and await checkCompliance.
Pumped(postCall, q) ==
    IF pump.stage = "idle" /\ ~postCall /\ Queued(q) # {}
    THEN [stage |-> "checking", batch |-> <<>>]
    ELSE pump

\* setAgentBusy(userId, false), whose own processQueue call the caller adds.
Release ==
    /\ agentBusyState' = FALSE
    /\ agentBridgedCallId' = None

\* setAgentBusy(userId, true, s): ignored while another SID holds the lock.
Acquire(s) ==
    IF agentBridgedCallId \notin {None, s}
    THEN UNCHANGED <<agentBusyState, agentBridgedCallId>>
    ELSE agentBusyState' = TRUE /\ agentBridgedCallId' = s

\* Mutant: a redial that is already pending is scheduled again.
RequeueWithoutGuard(l, att, known) ==
    IF ContactOf[l] \in removedContacts
    THEN /\ pendingRedials' = pendingRedials \ {l}
         /\ UNCHANGED redialTimers
    ELSE /\ pendingRedials' = pendingRedials \cup {l}
         /\ redialTimers' =
              {[t EXCEPT !.cancelable = @ /\ t.lead # l] : t \in redialTimers}
              \cup {[lead |-> l, att |-> att, known |-> known, cancelable |-> TRUE]}

\* requeueLeadForRedial: guard the card and start its timeout, or refuse.
RequeueLeadForRedial(l, att, known) ==
    IF ContactOf[l] \in removedContacts
    THEN /\ pendingRedials' = pendingRedials \ {l}
         /\ UNCHANGED redialTimers
    ELSE IF l \in pendingRedials
    THEN UNCHANGED <<pendingRedials, redialTimers>>
    ELSE /\ pendingRedials' = pendingRedials \cup {l}
         /\ redialTimers' =
              {[t EXCEPT !.cancelable = @ /\ t.lead # l] : t \in redialTimers}
              \cup {[lead |-> l, att |-> att, known |-> known, cancelable |-> TRUE]}

\* Mutant: the timeout is cleared and its guard key forgotten.
CancelKeepsGuard(ls) ==
    /\ redialTimers' = {t \in redialTimers : ~(t.lead \in ls /\ t.cancelable)}
    /\ UNCHANGED pendingRedials

\* cancelPendingRedial for every card of ls.
CancelPendingRedials(ls) ==
    /\ redialTimers' = {t \in redialTimers : ~(t.lead \in ls /\ t.cancelable)}
    /\ pendingRedials' = pendingRedials \ ls

\* A call that is over, that no part of the service refers to and whose
\* remaining webhooks could change nothing.
Spent(s) ==
    /\ leg[s].st = "ended" /\ ~leg[s].resp /\ ~leg[s].voice
    /\ leg[s].amd \notin {"human", "machine"}
    /\ leg[s].spoke => s \in dispositioned
    /\ activeCalls[s] = 0 /\ s \notin {agentBridgedCallId, agentReadyForCall}
    /\ s \in processedTerminalSids \/ leg[s].end = "none"
    /\ s \notin hangups \cup bridging
    /\ \A j \in finishing \cup skipping : j.sid # s

\* Hanging up through REST ends a leg; so does everything in DialerTwilio.
Ended(s, how, kid) ==
    [leg EXCEPT ![s].st = "ended", ![s].end = how, ![s].kid = kid]
=============================================================================
