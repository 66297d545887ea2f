----------------------------- MODULE CallRecords -----------------------------
(***************************************************************************)
(* What Postgres keeps of the calls: CallRecord rows, the status of the     *)
(* leads, recordings and their analyses, and the webhooks that write them   *)
(* (src/routes/calling).  The dialer's own reaction to these webhooks, its  *)
(* lines, lock and redials, is in DialerCalls; of its memory only the entry *)
(* of a call in activeCalls matters here.                                   *)
(*                                                                         *)
(* A handler is a job that goes from one await to the next; Twilio does not *)
(* wait for one webhook to be answered before it sends the next, and may    *)
(* send them in another order.  A webhook that is lost, or a handler that    *)
(* throws at its next await, is one that is not taken up again: nothing      *)
(* here has to happen.                                                      *)
(***************************************************************************)
EXTENDS Naturals, Sequences, FiniteSets, SequencesExt

CONSTANTS
    Calls,            \* CallSids: 1..n, in the order the calls are placed
    Clients,          \* contacts; a power call's lead is its contact's lead
    NoInsights,       \* the plan's aiInsightsLevel is NONE
    None

ASSUME CallAssumption ==
    /\ NoInsights \in BOOLEAN
    /\ IsFiniteSet(Calls) /\ Calls = 1..Cardinality(Calls)
    /\ None \notin Clients \cup {"power", "manual", "browser", "MACHINE"}

VARIABLES
    call,             \* external: a call as Twilio knows it
    post,             \* external: the webhooks under way
    entry,            \* activeCalls: what an entry says of isBrowserCall
    rooted,           \* sidToRootSid: the calls whose child leg is known
    record,           \* the CallRecord rows
    leadStatus,       \* Lead.status
    filed,            \* the calls whose end was logged as a disposition
    analysed,         \* the calls that have a CallAnalysis row
    transcript,       \* transcriptionLogs: the calls with live captions
    work              \* the handlers between two awaits

callVars == <<call, post, entry, rooted, record, leadStatus, filed, analysed,
              transcript, work>>

Legs == {"root", "child"}
Kinds == {"power", "manual", "browser"}
Missed == {"no-answer", "busy", "failed"}
Final == Missed \cup {"completed"}
Statuses == {"ringing", "in-progress"} \cup Final
Entries == {"none", "unmarked", "browser", "bridged"}

NoCall == [kind |-> None, of |-> None, at |-> "new", machine |-> FALSE, agent |-> "none",
           made |-> FALSE]
NoRecord == [there |-> FALSE, of |-> None, lead |-> FALSE, status |-> None,
             disposition |-> None, answered |-> FALSE, ended |-> FALSE, url |-> None]

\* The status a lead takes, and the disposition a record takes at its end.
DbStatus(status) ==
    CASE status = "failed" -> "FAILED"
      [] status = "busy" -> "BUSY"
      [] status = "no-answer" -> "NO_ANSWER"
      [] status = "completed" -> "CALLED"
      [] OTHER -> "CALLING"

IsMachine(r) == r.disposition = "MACHINE" \/ r.status = "machine-detected"

Webhook(s, leg, status) == [sid |-> s, leg |-> leg, status |-> status]
Handler(op, p) == [op |-> op, sid |-> p.sid, leg |-> p.leg, status |-> p.status,
                by |-> "none", machine |-> FALSE, target |-> None]
Does(j, next) == work' = (work \ {j}) \cup next

\* What power calls call by: their entry, but for a manual or browser call,
\* names a lead.
LeadOf(s) == IF call[s].kind = "power" THEN call[s].of ELSE None
SetLead(c, status) ==
    leadStatus' = IF c = None THEN leadStatus ELSE [leadStatus EXCEPT ![c] = status]

CallsNew ==
    /\ call = [s \in Calls |-> NoCall] /\ post = {}
    /\ record = [s \in Calls |-> NoRecord]

CallsQuiet ==
    /\ rooted = {} /\ analysed = {} /\ transcript = {} /\ work = {}
    /\ entry = [s \in Calls |-> "none"]
    /\ leadStatus = [c \in Clients |-> "PENDING"]
    /\ filed = {}

-----------------------------------------------------------------------------
(* Placing a call.  The entry is set once Twilio has answered; the row is   *)
(* inserted after it, while the call's first webhooks may arrive. *)

Place(s, kind, c) ==
    /\ call[s].at = "new" /\ \A r \in Calls : r < s => call[r].at # "new"
    /\ call' = [call EXCEPT ![s] = [NoCall EXCEPT !.kind = kind, !.of = c, !.at = "placed"]]
    /\ post' = post \cup {Webhook(s, IF kind = "browser" THEN "child" ELSE "root", "ringing")}
    /\ UNCHANGED <<entry, rooted, record, leadStatus, filed, analysed, transcript, work>>

\* makeCall after calls.create: the entry says nothing of isBrowserCall.
PowerCallCreated(s) ==
    /\ call[s].kind = "power" /\ ~call[s].made
    /\ call' = [call EXCEPT ![s].made = TRUE]
    /\ entry' = [entry EXCEPT ![s] = "unmarked"]
    /\ work' = work \cup {Handler("insert", Webhook(s, "root", "queued"))}
    /\ UNCHANGED <<post, rooted, record, leadStatus, filed, analysed, transcript>>

\* startCalling: the phone is looked up before the entry is set, and a number
\* of no contact gets neither an entry nor a row.
ManualCallCreated(s) ==
    /\ call[s].kind = "manual" /\ ~call[s].made
    /\ call' = [call EXCEPT ![s].made = TRUE]
    /\ entry' = [entry EXCEPT ![s] = "unmarked"]
    /\ work' = work \cup {Handler("insert", Webhook(s, "root", "queued"))}
    /\ UNCHANGED <<post, rooted, record, leadStatus, filed, analysed, transcript>>

\* The voice webhook of a call that the agent's browser has placed.
BrowserCallCreated(s) ==
    /\ call[s].kind = "browser" /\ ~call[s].made
    /\ call' = [call EXCEPT ![s].made = TRUE]
    /\ entry' = [entry EXCEPT ![s] = "browser"]
    /\ work' = work \cup {Handler("insert", Webhook(s, "root", "initiated"))}
    /\ UNCHANGED <<post, rooted, record, leadStatus, filed, analysed, transcript>>

RecordInserted(j) ==
    /\ j.op = "insert" /\ Does(j, {})
    /\ record' = [record EXCEPT ![j.sid] =
         [NoRecord EXCEPT !.there = TRUE, !.of = call[j.sid].of, !.status = j.status,
                          !.lead = (call[j.sid].kind = "power")]]
    /\ UNCHANGED <<call, post, entry, rooted, leadStatus, filed, analysed, transcript>>

\* The contact of a power call is bridged to the agent, at once or when the
\* AMD verdict is human: the entry is written anew, as no browser call.  When
\* Twilio refuses, the entry goes.
Bridge(s) ==
    /\ call[s].kind = "power" /\ call[s].at = "up" /\ ~call[s].machine
    /\ call[s].agent = "none"
    /\ \E refused \in BOOLEAN :
         /\ call' = [call EXCEPT ![s].agent = IF refused THEN "refused" ELSE "ringing"]
         /\ entry' = [entry EXCEPT ![s] = IF refused THEN "none" ELSE "bridged"]
    /\ UNCHANGED <<post, rooted, record, leadStatus, filed, analysed, transcript, work>>

-----------------------------------------------------------------------------
(* Status webhooks (handleCallStatus, handleCallStatusUpdate). *)

\* Up to the write of the lead.  The root leg of a browser call is the agent's
\* own and its answer is ignored; a manual call that has lost its entry names
\* no agent, and is ignored altogether.
StatusArrives(p) ==
    /\ p \in post /\ p.status \in Statuses
    /\ post' = post \ {p}
    /\ rooted' = IF p.leg = "child" THEN rooted \cup {p.sid} ELSE rooted
    /\ IF \/ entry[p.sid] = "browser" /\ p.leg = "root" /\ p.status = "in-progress"
          \/ entry[p.sid] = "none" /\ p.leg = "root" /\ call[p.sid].kind = "manual"
       THEN UNCHANGED <<work, leadStatus, transcript>>
       ELSE /\ work' = work \cup {[Handler("read", p) EXCEPT !.by = entry[p.sid]]}
            /\ SetLead(IF entry[p.sid] = "none" THEN None ELSE LeadOf(p.sid), DbStatus(p.status))
            /\ transcript' = IF p.status \in Final THEN transcript \ {p.sid} ELSE transcript
    /\ UNCHANGED <<call, entry, record, filed, analysed>>

\* The rest of the handler for a final status: only a child leg that was not
\* answered leaves the entry to the parent's own end.
Forget(j) ==
    entry' = IF j.status \in Final /\ ~(j.leg = "child" /\ j.status # "completed")
             THEN [entry EXCEPT ![j.sid] = "none"] ELSE entry

\* The row is read: what it says of a machine now is what the write goes by.
StatusReads(j) ==
    /\ j.op = "read"
    /\ IF record[j.sid].there
       THEN /\ Does(j, {[j EXCEPT !.op = "write", !.machine = IsMachine(record[j.sid])]})
            /\ UNCHANGED entry
       ELSE Does(j, {}) /\ Forget(j)
    /\ UNCHANGED <<call, post, rooted, record, leadStatus, filed, analysed, transcript>>

\* The contact has answered: the child leg of a browser call, the root leg of
\* a call whose entry says that it is none.
ContactAnswers(j) ==
    /\ j.status = "in-progress"
    /\ \/ j.leg = "child" /\ j.by = "browser"
       \/ j.leg = "root" /\ j.by = "bridged"

\* Mutant: the final status of a machine is written like any other.
FreshRow(r, j) ==
    [r EXCEPT !.status = j.status, !.answered = (@ \/ ContactAnswers(j)),
              !.ended = (@ \/ j.status \in Final),
              !.disposition = IF j.status \in Final THEN DbStatus(j.status) ELSE @]

NewRow(r, j) ==
    [r EXCEPT !.status = IF j.machine THEN "machine-detected" ELSE j.status,
              !.answered = (@ \/ ContactAnswers(j)),
              !.ended = (@ \/ j.status \in Final),
              !.disposition = IF j.status \notin Final THEN @
                              ELSE IF j.machine THEN "MACHINE" ELSE DbStatus(j.status)]

\* The row is written, and the folder action of a final status is started
\* without being waited for; a machine's call has none.
StatusWrites(j) ==
    /\ j.op = "write"
    /\ record' = [record EXCEPT ![j.sid] = NewRow(@, j)]
    /\ Does(j, IF j.status \in Final /\ ~j.machine
               THEN {[j EXCEPT !.op = "file", !.by = "none", !.target = None]} ELSE {})
    /\ Forget(j)
    /\ UNCHANGED <<call, post, rooted, leadStatus, filed, analysed, transcript>>

\* NO_ANSWER for a call that was missed.  One that was completed asks for
\* CONTACT, which applyDisposition refuses to a call: only a person may.
FolderActionApplied(j) ==
    /\ j.op = "file" /\ Does(j, {})
    /\ filed' = IF j.status \in Missed THEN filed \cup {j.sid} ELSE filed
    /\ UNCHANGED <<call, post, entry, rooted, record, leadStatus, analysed, transcript>>

-----------------------------------------------------------------------------
(* handleAmdStatus for a machine: its row is marked, the lead and the entry  *)
(* go, and Twilio is asked to hang up. *)

AmdMarks(p) ==
    /\ p \in post /\ p.status = "machine"
    /\ post' = post \ {p}
    /\ record' = IF record[p.sid].there
                 THEN [record EXCEPT ![p.sid].disposition = "MACHINE",
                                     ![p.sid].status = "machine-detected", ![p.sid].ended = TRUE]
                 ELSE record
    /\ work' = work \cup {[Handler("skip", p) EXCEPT !.machine = record[p.sid].there]}
    /\ UNCHANGED <<call, entry, rooted, leadStatus, filed, analysed, transcript>>

AmdSkips(j) ==
    /\ j.op = "skip"
    /\ entry' = [entry EXCEPT ![j.sid] = "none"]
    /\ SetLead(IF entry[j.sid] # "none" \/ j.machine THEN LeadOf(j.sid) ELSE None, "MACHINE")
    /\ Does(j, {[j EXCEPT !.op = "hangup"]})
    /\ UNCHANGED <<call, post, rooted, record, filed, analysed, transcript>>

\* Twilio ends the call, or refuses: it is over already, or the request fails.
AmdHangsUp(j) ==
    /\ j.op = "hangup" /\ Does(j, {})
    /\ \/ /\ call[j.sid].at = "up"
          /\ call' = [call EXCEPT ![j.sid].at = "over"]
          /\ post' = post \cup {Webhook(j.sid, "root", "completed")}
          /\ UNCHANGED record
       \/ /\ record' = IF record[j.sid].there
                       THEN [record EXCEPT ![j.sid].status = "hangup-failed"] ELSE record
          /\ UNCHANGED <<call, post>>
    /\ UNCHANGED <<entry, rooted, leadStatus, filed, analysed, transcript>>

-----------------------------------------------------------------------------
(* Recordings: handleRecordingUpdate. *)

Latest(S) == IF S = {} THEN None ELSE CHOOSE s \in S : \A r \in S : r <= s

\* Mutant: the last resort is the latest call of whatever contact.
TargetOfAnyone(p) ==
    IF record[p.sid].there /\ (p.leg = "root" \/ p.sid \in rooted) THEN p.sid
    ELSE Latest({s \in Calls : record[s].there /\ record[s].url = None})

\* The row a recording belongs to: the call's own, or that of its root; else
\* the latest of the lead, and else the latest of the contact that has none.
Target(p) ==
    LET ofLead == {s \in Calls : record[s].lead /\ record[s].of = LeadOf(p.sid)}
        ofContact == {s \in Calls : /\ record[s].there /\ record[s].of = call[p.sid].of
                                    /\ record[s].url = None}
    IN IF record[p.sid].there /\ (p.leg = "root" \/ p.sid \in rooted) THEN p.sid
       ELSE IF ofLead # {} THEN Latest(ofLead) ELSE Latest(ofContact)

\* Downloaded, stored and matched with a row.
RecordingResolved(p) ==
    /\ p \in post /\ p.status = "recorded"
    /\ post' = post \ {p}
    /\ work' = IF Target(p) = None THEN work
               ELSE work \cup {[Handler("attach", p) EXCEPT !.target = Target(p)]}
    /\ UNCHANGED <<call, entry, rooted, record, leadStatus, filed, analysed, transcript>>

\* The URL is saved before the recording is transcribed.
RecordingSaved(j) ==
    /\ j.op = "attach"
    /\ record' = [record EXCEPT ![j.target].url = j.sid]
    /\ Does(j, IF NoInsights THEN {} ELSE {[j EXCEPT !.op = "analyse"]})
    /\ UNCHANGED <<call, post, entry, rooted, leadStatus, filed, analysed, transcript>>

\* Transcription and sentiment.
RecordingAnalysed(j) ==
    /\ j.op = "analyse" /\ Does(j, {})
    /\ analysed' = analysed \cup {j.target}
    /\ UNCHANGED <<call, post, entry, rooted, record, leadStatus, filed, transcript>>

\* A fragment of live captions, whatever has become of the call.
CaptionArrives(s) ==
    /\ call[s].at \in {"up", "over"} /\ s \notin transcript
    /\ transcript' = transcript \cup {s}
    /\ UNCHANGED <<call, post, entry, rooted, record, leadStatus, filed, analysed, work>>

-----------------------------------------------------------------------------
(* The world: callees and Twilio. *)

ContactLeg(s) == IF call[s].kind = "browser" THEN "child" ELSE "root"

\* The contact or a machine answers; AMD runs on the calls the server places.
Answer(s, machine) ==
    /\ call[s].at = "placed" /\ (machine => call[s].kind # "browser")
    /\ call' = [call EXCEPT ![s].at = "up", ![s].machine = machine]
    /\ post' = post \cup {Webhook(s, ContactLeg(s), "in-progress")}
                    \cup (IF machine THEN {Webhook(s, "root", "machine")} ELSE {})
    /\ UNCHANGED <<entry, rooted, record, leadStatus, filed, analysed, transcript, work>>

\* The agent's browser takes the bridged call.
AgentJoins(s) ==
    /\ call[s].agent = "ringing" /\ call[s].at = "up"
    /\ call' = [call EXCEPT ![s].agent = "up"]
    /\ post' = post \cup {Webhook(s, "child", "in-progress")}
    /\ UNCHANGED <<entry, rooted, record, leadStatus, filed, analysed, transcript, work>>

AgentLegEnds(s) ==
    CASE call[s].agent = "up" -> {Webhook(s, "child", "completed")}
      [] call[s].agent = "ringing" -> {Webhook(s, "child", "no-answer")}
      [] OTHER -> {}
\* The server's calls are recorded from their answer, the agent's leg too.
Recordings(s) ==
    {Webhook(s, leg, "recorded") : leg \in
        IF call[s].at # "up" \/ call[s].machine THEN {}
        ELSE {ContactLeg(s)} \cup (IF call[s].agent = "up" THEN {"child"} ELSE {})}

\* A call ends: hung up by either side or by endCall, or never answered.  A
\* completed call of zero duration is reported as no-answer.
End(s) ==
    /\ call[s].at \in {"placed", "up"}
    /\ call' = [call EXCEPT ![s].at = "over"]
    /\ \E status \in (IF call[s].at = "up" THEN {"completed", "no-answer"} ELSE Missed) :
         post' = post \cup {Webhook(s, ContactLeg(s), status)} \cup AgentLegEnds(s)
                      \cup Recordings(s)
    /\ UNCHANGED <<entry, rooted, record, leadStatus, filed, analysed, transcript, work>>

Placing ==
    \E s \in Calls :
        \/ \E kind \in Kinds, c \in Clients : Place(s, kind, c)
        \/ PowerCallCreated(s) \/ ManualCallCreated(s) \/ BrowserCallCreated(s)
        \/ Bridge(s) \/ AgentJoins(s) \/ End(s)
        \/ \E machine \in BOOLEAN : Answer(s, machine)

Arriving(legs) ==
    \/ \E p \in post : p.leg \in legs /\ StatusArrives(p)
    \/ \E j \in work : RecordInserted(j)

Writing == \E j \in work : StatusReads(j) \/ StatusWrites(j) \/ FolderActionApplied(j)

Verdicts ==
    \/ \E p \in post : AmdMarks(p)
    \/ \E j \in work : AmdSkips(j) \/ AmdHangsUp(j)

Recorded ==
    \/ \E p \in post : RecordingResolved(p)
    \/ \E j \in work : RecordingSaved(j) \/ RecordingAnalysed(j)

Captions == \E s \in Calls : CaptionArrives(s)

CallNext == Placing \/ Arriving(Legs) \/ Writing \/ Verdicts \/ Recorded \/ Captions

CallSpec == CallsNew /\ CallsQuiet /\ [][CallNext]_callVars
=============================================================================
