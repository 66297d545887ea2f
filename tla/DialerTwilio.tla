----------------------------- MODULE DialerTwilio -----------------------------
(***************************************************************************)
(* The telephony side of the dialer, which is not in the repository: what  *)
(* Twilio, the customer's phone and the agent's browser may do to a call.  *)
(* It is modelled from the requests the code sends (calls.create with its  *)
(* 30 s ring limit, TwiML <Pause>, <Play>, <Dial><Client>, REST updates)   *)
(* and from the webhooks it registers.  A webhook is not a message in a    *)
(* channel: Dialer.tla lets a handler run whenever the leg's history says  *)
(* that Twilio has something to report, so webhooks can be late, reordered *)
(* or lost (the handler never runs).                                       *)
(***************************************************************************)
EXTENDS DialerState

exceptLeg == <<queueVars, redialVars, sessionVars, callVars, lockVars, jobVars,
               hangups, history>>

\* Until calls.create has answered nothing happens on the line, unless the
\* response is slow.
Settled(s) == ~leg[s].resp \/ "slowCreate" \in Hazards

\* The customer picks up; Twilio asks for the TwiML of the call.
Answer(s) ==
    /\ leg[s].st = "ringing" /\ Settled(s)
    /\ leg' = [leg EXCEPT ![s].st = "answered", ![s].voice = TRUE]
    /\ UNCHANGED exceptLeg

\* No answer within the ring limit, a busy line, or a call that fails.
NotAnswered(s) ==
    /\ leg[s].st = "ringing" /\ Settled(s)
    /\ leg' = Ended(s, "no-answer", "none")
    /\ UNCHANGED exceptLeg

\* Asynchronous answering-machine detection reaches a verdict on a held call.
AmdResult(s, verdict) ==
    /\ leg[s].st = "held" /\ leg[s].amd = "pending"
    /\ leg' = [leg EXCEPT ![s].amd = verdict]
    /\ UNCHANGED exceptLeg

\* The agent's browser answers the <Dial><Client>.
AgentAnswers(s) ==
    /\ leg[s].st = "bridging"
    /\ leg' = [leg EXCEPT ![s].st = "talking", ![s].spoke = TRUE]
    /\ UNCHANGED exceptLeg

\* The agent's browser does not answer: the <Dial> ends, and the call with it.
AgentDoesNotAnswer(s) ==
    /\ leg[s].st = "bridging"
    /\ leg' = Ended(s, "completed", "no-answer")
    /\ UNCHANGED exceptLeg

\* How the agent's leg ends when the customer's does.
KidEnd(s) == IF leg[s].st \in {"bridging", "talking"} THEN "completed" ELSE "none"

\* An answered call ends: somebody hangs up, or its TwiML is over.
HangUp(s) ==
    /\ leg[s].st \in {"answered", "held", "music", "bridging", "talking"}
    /\ leg[s].voice => "lateVoice" \in Hazards
    /\ leg' = Ended(s, "completed", KidEnd(s))
    /\ UNCHANGED exceptLeg

\* The carrier picks up and drops the call at once (CallDuration is 0): before
\* any detection verdict and before the agent can have spoken.
DropAtOnce(s) ==
    /\ \/ leg[s].st = "answered"
       \/ leg[s].st = "held" /\ leg[s].amd = "pending"
       \/ leg[s].st = "bridging" /\ leg[s].amd = "off"
    /\ leg[s].voice => "lateVoice" \in Hazards
    /\ leg' = Ended(s, "zero", KidEnd(s))
    /\ UNCHANGED exceptLeg

\* Twilio carries out calls(sid).update({status: "completed"}).
HangupLands(s) ==
    /\ s \in hangups
    /\ hangups' = hangups \ {s}
    /\ leg' = IF LiveLeg(s) THEN Ended(s, "completed", KidEnd(s)) ELSE leg
    /\ UNCHANGED <<queueVars, redialVars, sessionVars, callVars, lockVars, jobVars,
                   history>>

\* The prompt for a disposition is lost: the agent will not send it any more.
PromptLost(s) ==
    /\ leg[s].st = "ended" /\ leg[s].spoke /\ s \notin dispositioned
    /\ leg' = [leg EXCEPT ![s].spoke = FALSE]
    /\ UNCHANGED exceptLeg

\* The final webhooks of a call that the service no longer tracks are lost.
FinalWebhooksLost(s) ==
    /\ leg[s].st = "ended" /\ activeCalls[s] = 0 /\ leg[s].end # "none"
    /\ ~leg[s].resp /\ ~leg[s].voice
    /\ leg' = [leg EXCEPT ![s].end = "none", ![s].kid = "none"]
    /\ UNCHANGED exceptLeg

\* The slot of a spent call is free for the next one.
Reuse(s) ==
    /\ Spent(s)
    /\ leg' = [leg EXCEPT ![s] = NoLeg]
    /\ meta' = [meta EXCEPT ![s] = [o \in 1 .. 2 |-> NewMeta]]
    /\ processedTerminalSids' = processedTerminalSids \ {s}
    /\ dispositioned' = dispositioned \ {s}
    /\ UNCHANGED <<queueVars, redialVars, sessionVars, activeCalls, lockVars, jobVars,
                   hangups, dialed, sessions>>

Telephony ==
    \E s \in Sids :
        \/ Answer(s) \/ NotAnswered(s)
        \/ AmdResult(s, "human") \/ AmdResult(s, "machine")
        \/ AgentAnswers(s) \/ AgentDoesNotAnswer(s)
        \/ HangUp(s) \/ DropAtOnce(s)
        \/ HangupLands(s) \/ PromptLost(s) \/ FinalWebhooksLost(s)
=============================================================================
