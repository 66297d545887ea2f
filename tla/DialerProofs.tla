----------------------------- MODULE DialerProofs -----------------------------
(***************************************************************************)
(* The types and the agent lock of the dialer, for every value of the      *)
(* constants and every choice of the environment's hazards.                *)
(*                                                                         *)
(* Types.  What makes TypeOK inductive is that a leg's record says nothing *)
(* of a call that has not been placed (Sound).  The steps that rebuild a   *)
(* record or a sequence rest on the lemmas of the first two sections; then *)
(* each action is one step of the proof of its group.  LegTurn says how a  *)
(* step may change a leg, and LegInv what a leg says of its past.          *)
(*                                                                         *)
(* The lock: whose call it can be, when it can be an orphan, and that it   *)
(* never passes from one call to another without a release.  Every step    *)
(* either leaves the lock alone (Quiet), frees it (Frees) or takes it for  *)
(* a call that is tracked while nobody else holds it (Takes).  LockInv     *)
(* survives each of the three; the section after it shows that there is no *)
(* fourth kind of step.  The last sections show what the lock is for: the  *)
(* caller on the agent's browser is the one that holds it.                 *)
(***************************************************************************)
EXTENDS DialerProperties, FiniteSetTheorems, TLAPS

-----------------------------------------------------------------------------
(* What the helpers return. *)

LEMMA RemoveWhereType ==
    ASSUME NEW q \in [Leads -> Attempts], NEW P
    PROVE  RemoveWhere(q, P) \in [Leads -> Attempts]
  BY DialerAssumption DEF RemoveWhere, Attempts

LEMMA PumpedType ==
    ASSUME QueueTypes, NEW postCall, NEW q
    PROVE  Pumped(postCall, q) \in [stage : {"idle", "checking", "firing"}, batch : Seq(Card)]
  BY DEF Pumped, QueueTypes

LEMMA PumpStageType ==
    ASSUME NEW batch \in Seq(Card), NEW stage \in {"idle", "checking", "firing"}
    PROVE  [stage |-> stage, batch |-> batch]
             \in [stage : {"idle", "checking", "firing"}, batch : Seq(Card)]
  OBVIOUS

\* The batch is a sequence of cards, each taken with its attempts.
LEMMA BatchType ==
    ASSUME TypeOK, NEW n \in Nat, NEW b \in Firsts(userQueue, n)
    PROVE  /\ [i \in 1 .. n |-> [lead |-> b[i], att |-> userQueue[b[i]]]] \in Seq(Card)
           /\ {b[i] : i \in 1 .. n} \subseteq Leads
<1>1. b \in [1 .. n -> Queued(userQueue)]  BY DEF Firsts
<1>2. \A i \in 1 .. n : b[i] \in Leads  BY <1>1 DEF Queued
<1>3. \A i \in 1 .. n : [lead |-> b[i], att |-> userQueue[b[i]]] \in Card
  BY <1>2 DEF TypeOK, QueueTypes, Card
<1> QED BY <1>2, <1>3

\* The room on the lines is a number.
LEMMA RoomType == ASSUME TypeOK PROVE Room \in Int
<1>1. IsFiniteSet(Tracked) /\ IsFiniteSet(leadsInFlight)
  BY FS_Subset, DialerAssumption DEF TypeOK, QueueTypes, Tracked
<1> QED BY <1>1, FS_CardinalityType, DialerAssumption DEF Room

LEMMA StatusArrivesType ==
    ASSUME TypeOK, NEW s \in Sids, NEW status \in Terminal \cup {"ringing", "answered"},
           NEW child \in BOOLEAN, StatusArrives(s, status, child)
    PROVE  /\ meta' \in [Sids -> [1 .. 2 -> Meta]]
           /\ machineLeads' \in SUBSET Leads
           /\ finishing' \in SUBSET Finish
<1> DEFINE obj == activeCalls[s]
           old == meta[s][obj]
           kept == old.status = "callback" /\ status = "answered"
           new == [old EXCEPT !.status = IF kept THEN @
                                         ELSE IF status \in Terminal THEN status ELSE "live",
                              !.connected = @ \/ (child /\ status = "answered")]
<1>1. obj \in 0 .. 2  BY DEF TypeOK, CallTypes
<1>2. ASSUME obj # 0 PROVE new \in Meta
  <2>1. old \in Meta  BY <1>1, <1>2 DEF TypeOK, CallTypes
  <2> QED BY <2>1 DEF Meta, Terminal
<1>3. meta' \in [Sids -> [1 .. 2 -> Meta]]
  <2>1. CASE obj = 0  BY <2>1 DEF StatusArrives, TypeOK, CallTypes
  <2>2. CASE obj # 0
    <3>1. meta' = [meta EXCEPT ![s][obj] = new]  BY <2>2 DEF StatusArrives
    <3> HIDE DEF new
    <3> QED BY <1>1, <1>2, <2>2, <3>1 DEF TypeOK, CallTypes
  <2> QED BY <2>1, <2>2
<1>4. machineLeads' \in SUBSET Leads  BY DEF StatusArrives, TypeOK, RedialTypes
<1>5. finishing' \in SUBSET Finish
  <2>1. CASE status \in Terminal
    <3>1. \A n \in 1 .. 2 : Report(s, status, child, n) \in Finish
      BY <1>1, <2>1 DEF Finish, Report
    <3> QED BY <3>1 DEF StatusArrives, TypeOK, JobTypes
  <2>2. CASE status \notin Terminal  BY <2>2 DEF StatusArrives, TypeOK, JobTypes, Terminal
  <2> QED BY <2>1, <2>2
<1> QED BY <1>3, <1>4, <1>5

LEMMA BridgedType ==
    ASSUME TypeOK, NEW s \in Sids, Bridged(s)
    PROVE  activeCalls' \in [Sids -> 0 .. 2] /\ meta' \in [Sids -> [1 .. 2 -> Meta]]
<1> DEFINE m == [NewMeta EXCEPT !.known = activeCalls[s] # 0 /\ meta[s][activeCalls[s]].known]
<1>1. activeCalls[s] # 0 => meta[s][activeCalls[s]] \in Meta  BY DEF TypeOK, CallTypes
<1>2. m \in Meta  BY <1>1 DEF NewMeta, Meta
<1> HIDE DEF m
<1>3. meta' = [meta EXCEPT ![s][2] = m]  BY DEF Bridged, m
<1> QED BY <1>2, <1>3 DEF TypeOK, CallTypes, Bridged

-----------------------------------------------------------------------------
(* How a step changes the legs: not at all, or one leg, to a sound record.  *)
(* A leg that a job or the lock refers to does not go back to being unused, *)
(* and the lock owner's stays past detection.                               *)

Placed(r) == r.st \notin {"unused", "placing"}
Past(r) == Placed(r) /\ r.amd \in {"off", "done"}
Sound(r) ==
    /\ r.st # "unused" => r.lead \in Leads
    /\ \/ r.voice \/ r.spoke \/ r.kid # "none" \/ r.end # "none"
       \/ r.amd \in {"human", "machine", "done"}
       => Placed(r)

InUse(s) == s = agentBridgedCallId \/ \E j \in finishing \cup skipping : j.sid = s

TypeInv == /\ TypeOK
           /\ \A s \in Sids : Sound(leg[s])
           /\ \A j \in finishing \cup skipping : Placed(leg[j.sid])

LegStep ==
    \/ UNCHANGED leg
    \/ \E s \in Sids, r \in Leg :
          /\ leg' = [leg EXCEPT ![s] = r]
          /\ Sound(r)
          /\ InUse(s) /\ Placed(leg[s]) => Placed(r)
          /\ InUse(s) /\ Past(leg[s]) => Past(r)

LEMMA LegKeeps ==
    ASSUME TypeInv, LegStep
    PROVE  /\ leg' \in [Sids -> Leg]
           /\ \A s \in Sids : Sound(leg'[s])
           /\ \A j \in finishing \cup skipping : Placed(leg'[j.sid])
           /\ agentBridgedCallId \in Sids /\ Past(leg[agentBridgedCallId])
                 => Past(leg'[agentBridgedCallId])
<1>1. leg \in [Sids -> Leg] /\ \A j \in finishing \cup skipping : j.sid \in Sids
  BY DEF TypeInv, TypeOK, TwilioTypes, JobTypes, Finish, Skip
<1>2. CASE UNCHANGED leg  BY <1>1, <1>2 DEF TypeInv
<1>3. ASSUME NEW s \in Sids, NEW r \in Leg, leg' = [leg EXCEPT ![s] = r], Sound(r),
             InUse(s) /\ Placed(leg[s]) => Placed(r), InUse(s) /\ Past(leg[s]) => Past(r)
      PROVE  /\ leg' \in [Sids -> Leg]
             /\ \A t \in Sids : Sound(leg'[t])
             /\ \A j \in finishing \cup skipping : Placed(leg'[j.sid])
             /\ agentBridgedCallId \in Sids /\ Past(leg[agentBridgedCallId])
                   => Past(leg'[agentBridgedCallId])
  <2>1. leg'[s] = r /\ \A t \in Sids : t # s => leg'[t] = leg[t]  BY <1>1, <1>3
  <2> QED BY <1>1, <1>3, <2>1 DEF TypeInv, InUse
<1> QED BY <1>2, <1>3 DEF LegStep

LEMMA NoLegType == NoLeg \in Leg /\ Sound(NoLeg)
  BY DialerAssumption DEF NoLeg, Leg, LegStates, Attempts, Sound, Placed

\* A leg goes back to being unused: it did not hold the lock.
LEMMA LegDropped ==
    ASSUME TypeInv, NEW s \in Sids, leg' = [leg EXCEPT ![s] = NoLeg],
           ~InUse(s) \/ leg[s].st = "placing"
    PROVE  LegStep
  BY NoLegType DEF LegStep, Past, Placed

\* A leg that has been placed moves on, with the same detection state or done.
LEMMA LegMoves ==
    ASSUME TypeInv, NEW s \in Sids, NEW r \in Leg, leg' = [leg EXCEPT ![s] = r],
           Placed(r), leg[s].st # "unused", r.lead = leg[s].lead,
           r.amd \in {leg[s].amd, "done"} \/ leg[s].amd = "pending"
    PROVE  LegStep
  BY DEF LegStep, Sound, Past, Placed, TypeInv

LEMMA TelephonyLegs == ASSUME TypeInv, Telephony PROVE LegStep
<1>1. PICK s \in Sids :
        \/ Answer(s) \/ NotAnswered(s)
        \/ AmdResult(s, "human") \/ AmdResult(s, "machine")
        \/ AgentAnswers(s) \/ AgentDoesNotAnswer(s)
        \/ HangUp(s) \/ DropAtOnce(s)
        \/ HangupLands(s) \/ PromptLost(s) \/ FinalWebhooksLost(s)
  BY DEF Telephony
<1>2. leg[s] \in Leg  BY DEF TypeInv, TypeOK, TwilioTypes
<1>3. ASSUME NEW how \in {"zero"} \cup Terminal, NEW kid \in {"none"} \cup Terminal,
             leg' = Ended(s, how, kid), leg[s].st # "unused"
      PROVE  LegStep
  <2> DEFINE r == [leg[s] EXCEPT !.st = "ended", !.end = how, !.kid = kid]
  <2>1. r \in Leg /\ r.amd = leg[s].amd /\ r.lead = leg[s].lead  BY <1>2 DEF Leg, LegStates
  <2>2. leg' = [leg EXCEPT ![s] = r]  BY <1>3 DEF Ended
  <2>3. Placed(r)  BY <1>2 DEF Leg, Placed
  <2> HIDE DEF r
  <2> QED BY <1>3, <2>1, <2>2, <2>3, LegMoves
<1>4. KidEnd(s) \in {"none"} \cup Terminal  BY DEF KidEnd, Terminal
<1>5. CASE Answer(s)
  <2> DEFINE r == [leg[s] EXCEPT !.st = "answered", !.voice = TRUE]
  <2>1. r \in Leg /\ r.amd = leg[s].amd /\ r.lead = leg[s].lead /\ leg[s].st # "unused"
    BY <1>2, <1>5 DEF Leg, LegStates, Answer
  <2>2. leg' = [leg EXCEPT ![s] = r]  BY <1>5 DEF Answer
  <2>3. Placed(r)  BY <1>2, <1>5 DEF Leg, Placed, Answer
  <2> HIDE DEF r
  <2> QED BY <2>1, <2>2, <2>3, LegMoves
<1>6. CASE NotAnswered(s)  BY <1>3, <1>6 DEF NotAnswered, Terminal
<1>7. ASSUME NEW v \in {"human", "machine"}, AmdResult(s, v)  PROVE LegStep
  <2> DEFINE r == [leg[s] EXCEPT !.amd = v]
  <2>1. r \in Leg /\ leg[s].amd = "pending" /\ r.lead = leg[s].lead /\ leg[s].st # "unused"
    BY <1>2, <1>7 DEF Leg, AmdResult
  <2>2. leg' = [leg EXCEPT ![s] = r]  BY <1>7 DEF AmdResult
  <2>3. Placed(r)  BY <1>2, <1>7 DEF Leg, Placed, AmdResult
  <2> HIDE DEF r
  <2> QED BY <2>1, <2>2, <2>3, LegMoves
<1>8. CASE AgentAnswers(s)
  <2> DEFINE r == [leg[s] EXCEPT !.st = "talking", !.spoke = TRUE]
  <2>1. r \in Leg /\ r.amd = leg[s].amd /\ r.lead = leg[s].lead /\ leg[s].st # "unused"
    BY <1>2, <1>8 DEF Leg, LegStates, AgentAnswers
  <2>2. leg' = [leg EXCEPT ![s] = r]  BY <1>8 DEF AgentAnswers
  <2>3. Placed(r)  BY <1>2, <1>8 DEF Leg, Placed, AgentAnswers
  <2> HIDE DEF r
  <2> QED BY <2>1, <2>2, <2>3, LegMoves
<1>9. CASE AgentDoesNotAnswer(s)  BY <1>3, <1>9 DEF AgentDoesNotAnswer, Terminal
<1>10. CASE HangUp(s)  BY <1>3, <1>4, <1>10 DEF HangUp, Terminal
<1>11. CASE DropAtOnce(s)  BY <1>3, <1>4, <1>11 DEF DropAtOnce
<1>12. CASE HangupLands(s)
  <2>1. CASE LiveLeg(s)  BY <1>3, <1>4, <1>12, <2>1 DEF HangupLands, Terminal, LiveLeg
  <2>2. CASE ~LiveLeg(s)  BY <1>12, <2>2 DEF HangupLands, LegStep
  <2> QED BY <2>1, <2>2
<1>13. CASE PromptLost(s)
  <2> DEFINE r == [leg[s] EXCEPT !.spoke = FALSE]
  <2>1. r \in Leg /\ r.amd = leg[s].amd /\ r.lead = leg[s].lead /\ leg[s].st # "unused"
    BY <1>2, <1>13 DEF Leg, LegStates, PromptLost
  <2>2. leg' = [leg EXCEPT ![s] = r]  BY <1>13 DEF PromptLost
  <2>3. Placed(r)  BY <1>2, <1>13 DEF Leg, Placed, PromptLost
  <2> HIDE DEF r
  <2> QED BY <2>1, <2>2, <2>3, LegMoves
<1>14. CASE FinalWebhooksLost(s)
  <2> DEFINE r == [leg[s] EXCEPT !.end = "none", !.kid = "none"]
  <2>1. r \in Leg /\ r.amd = leg[s].amd /\ r.lead = leg[s].lead /\ leg[s].st # "unused"
    BY <1>2, <1>14 DEF Leg, LegStates, FinalWebhooksLost
  <2>2. leg' = [leg EXCEPT ![s] = r]  BY <1>14 DEF FinalWebhooksLost
  <2>3. Placed(r)  BY <1>2, <1>14 DEF Leg, Placed, FinalWebhooksLost
  <2> HIDE DEF r
  <2> QED BY <2>1, <2>2, <2>3, LegMoves
<1> QED BY <1>1, <1>5, <1>6, <1>7, <1>8, <1>9, <1>10, <1>11, <1>12, <1>13, <1>14

LEMMA MakeCallType ==
    ASSUME TypeInv, NEW card \in Card, NEW f \in SUBSET Leads, MakeCall(card, f)
    PROVE  /\ leadsInFlight' \in SUBSET Leads
           /\ machineLeads' \in SUBSET Leads
           /\ LegStep
<1>1. leadsInFlight' \in SUBSET Leads /\ machineLeads' \in SUBSET Leads
  <2>1. leadsInFlight' \in {f, f \ {card.lead}}
        /\ machineLeads' \in {machineLeads, machineLeads \ {card.lead}}
    BY DEF MakeCall
  <2> QED BY <2>1 DEF TypeInv, TypeOK, RedialTypes
<1>2. CASE UNCHANGED leg
  BY <1>1, <1>2 DEF LegStep
<1>3. ASSUME NEW s \in Sids, NEW amd \in AmdModes, leg[s].st = "unused",
             leg' = [leg EXCEPT ![s] =
                       [NoLeg EXCEPT !.st = "placing", !.lead = card.lead, !.att = card.att,
                                     !.amd = IF amd THEN "pending" ELSE "off"]]
      PROVE  LegStep
  <2> DEFINE r == [NoLeg EXCEPT !.st = "placing", !.lead = card.lead, !.att = card.att,
                                !.amd = IF amd THEN "pending" ELSE "off"]
  <2>1. r \in Leg  BY DEF Card, NoLeg, Leg, LegStates
  <2>2. Sound(r)  BY DEF Sound, NoLeg, Card
  <2>3. ~Placed(leg[s]) /\ ~Past(leg[s])  BY <1>3 DEF Placed, Past
  <2>4. leg' = [leg EXCEPT ![s] = r]  BY <1>3
  <2> HIDE DEF r
  <2> QED BY <2>1, <2>2, <2>3, <2>4 DEF LegStep
<1> QED BY <1>1, <1>2, <1>3 DEF MakeCall

\* The end of makeCall, for a call that is ringing.
LEMMA CreateLegs ==
    ASSUME TypeInv, NEW s \in Sids,
           SlowCreate(s) \/ CallCreated(s) \/ DialBlocked(s) \/ DialFrozen(s) \/ DialFails(s)
    PROVE  LegStep
<1>1. leg[s] \in Leg /\ Sound(leg[s])  BY DEF TypeInv, TypeOK, TwilioTypes
<1>2. CASE DialBlocked(s) \/ DialFrozen(s) \/ DialFails(s)
  BY <1>2, LegDropped DEF DialBlocked, DialFrozen, DialFails
<1>3. CASE SlowCreate(s)
  <2> DEFINE r == [leg[s] EXCEPT !.st = "ringing", !.resp = TRUE]
  <2>1. r \in Leg /\ r.amd = leg[s].amd /\ r.lead = leg[s].lead /\ leg[s].st # "unused"
    BY <1>1, <1>3 DEF Leg, LegStates, SlowCreate
  <2>2. leg' = [leg EXCEPT ![s] = r]  BY <1>3 DEF SlowCreate
  <2>3. Placed(r)  BY <1>1 DEF Leg, Placed
  <2> HIDE DEF r
  <2> QED BY <2>1, <2>2, <2>3, LegMoves
<1>4. CASE CallCreated(s) /\ ~leg[s].resp
  <2> DEFINE r == [leg[s] EXCEPT !.st = "ringing"]
  <2>1. r \in Leg /\ r.amd = leg[s].amd /\ r.lead = leg[s].lead /\ leg[s].st # "unused"
    BY <1>1, <1>4 DEF Leg, LegStates, CallCreated
  <2>2. leg' = [leg EXCEPT ![s] = r]  BY <1>4 DEF CallCreated
  <2>3. Placed(r)  BY <1>1 DEF Leg, Placed
  <2> HIDE DEF r
  <2> QED BY <2>1, <2>2, <2>3, LegMoves
<1>5. CASE CallCreated(s) /\ leg[s].resp
  <2> DEFINE r == [leg[s] EXCEPT !.resp = FALSE]
  <2>1. r \in Leg  BY <1>1 DEF Leg
  <2>2. leg' = [leg EXCEPT ![s] = r]  BY <1>5 DEF CallCreated
  <2>3. Sound(r) /\ (Placed(leg[s]) => Placed(r)) /\ (Past(leg[s]) => Past(r))
    BY <1>1 DEF Leg, Sound, Placed, Past
  <2> HIDE DEF r
  <2> QED BY <2>1, <2>2, <2>3 DEF LegStep
<1> QED BY <1>2, <1>3, <1>4, <1>5

\* The voice and AMD handlers touch legs that have been placed.
LEMMA PlayLegs ==
    ASSUME TypeInv, NEW s \in Sids, NEW from, NEW st \in {"held", "music", "bridging"},
           NEW amd \in {leg[s].amd, "done"},
           Placed(leg[s]),
           leg' = [Play(s, from, st) EXCEPT ![s].amd = amd]
    PROVE  LegStep
<1>1. leg[s] \in Leg  BY DEF TypeInv, TypeOK, TwilioTypes
<1>2. CASE leg[s].st = from
  <2> DEFINE r == [leg[s] EXCEPT !.st = st, !.voice = FALSE, !.over = (st = "music"), !.amd = amd]
  <2>1. r \in Leg /\ r.amd = amd /\ r.lead = leg[s].lead  BY <1>1 DEF Leg, LegStates
  <2>2. leg' = [leg EXCEPT ![s] = r]  BY <1>2 DEF Play, TypeInv, TypeOK, TwilioTypes
  <2>3. Placed(r) /\ leg[s].st # "unused"  BY <1>1 DEF Leg, Placed
  <2> HIDE DEF r
  <2> QED BY <2>1, <2>2, <2>3, LegMoves
<1>3. CASE leg[s].st # from
  <2> DEFINE r == [leg[s] EXCEPT !.voice = FALSE, !.amd = amd]
  <2>1. r \in Leg /\ r.amd = amd /\ r.lead = leg[s].lead  BY <1>1 DEF Leg, LegStates
  <2>2. leg' = [leg EXCEPT ![s] = r]  BY <1>3 DEF Play, TypeInv, TypeOK, TwilioTypes
  <2>3. Placed(r) /\ leg[s].st # "unused"  BY <1>1 DEF Leg, Placed
  <2> HIDE DEF r
  <2> QED BY <2>1, <2>2, <2>3, LegMoves
<1> QED BY <1>2, <1>3

LEMMA PlainPlayLegs ==
    ASSUME TypeInv, NEW s \in Sids, NEW from, NEW st \in {"held", "music", "bridging"},
           Placed(leg[s]), leg' = Play(s, from, st)
    PROVE  LegStep
<1>1. leg[s] \in Leg  BY DEF TypeInv, TypeOK, TwilioTypes
<1>2. leg' = [Play(s, from, st) EXCEPT ![s].amd = leg[s].amd]
  <2>1. CASE leg[s].st = from
    BY <1>1, <2>1 DEF Play, TypeInv, TypeOK, TwilioTypes, Leg
  <2>2. CASE leg[s].st # from
    BY <1>1, <2>2 DEF Play, TypeInv, TypeOK, TwilioTypes, Leg
  <2> QED BY <2>1, <2>2
<1> QED BY <1>2, PlayLegs

LEMMA BridgeLegs ==
    ASSUME TypeInv, NEW s \in Sids,
           \/ VoiceHolds(s) \/ VoiceOverflows(s) \/ VoiceBridges(s)
           \/ HumanOverflows(s) \/ HumanBridges(s)
           \/ BridgeLands(s) \/ BridgeFails(s) \/ MachineDetected(s)
    PROVE  LegStep
<1>1. leg[s] \in Leg /\ Sound(leg[s])  BY DEF TypeInv, TypeOK, TwilioTypes
<1>2. CASE VoiceHolds(s) \/ VoiceOverflows(s) \/ VoiceBridges(s)
  <2>1. Placed(leg[s])
    BY <1>1, <1>2 DEF VoiceHolds, VoiceOverflows, VoiceBridges, Sound
  <2> QED BY <1>2, <2>1, PlainPlayLegs DEF VoiceHolds, VoiceOverflows, VoiceBridges
<1> DEFINE Heard == leg' = [leg EXCEPT ![s].amd = "done"]
<1>3. CASE HumanOverflows(s) /\ ~Heard
  <2>1. Placed(leg[s])  BY <1>1, <1>3 DEF HumanOverflows, Sound
  <2> QED BY <1>3, <2>1, PlayLegs DEF HumanOverflows
<1>4. CASE HumanBridges(s) \/ MachineDetected(s) \/ (HumanOverflows(s) /\ Heard)
  <2> DEFINE r == [leg[s] EXCEPT !.amd = "done"]
  <2>1. r \in Leg /\ r.amd = "done" /\ r.lead = leg[s].lead  BY <1>1 DEF Leg
  <2>2. leg' = [leg EXCEPT ![s] = r]  BY <1>4 DEF HumanBridges, MachineDetected
  <2>3. Placed(leg[s]) /\ leg[s].st # "unused"
    BY <1>1, <1>4 DEF HumanBridges, HumanOverflows, MachineDetected, Sound, Placed
  <2>4. Placed(r)  BY <1>1, <2>3 DEF Leg, Placed
  <2> HIDE DEF r
  <2> QED BY <2>1, <2>2, <2>3, <2>4, LegMoves
<1>5. CASE BridgeLands(s)  BY <1>5, PlainPlayLegs DEF BridgeLands, Placed
<1>6. CASE BridgeFails(s)  BY <1>6 DEF BridgeFails, LegStep
<1> QED BY <1>2, <1>3, <1>4, <1>5, <1>6

-----------------------------------------------------------------------------
(* Everything but the legs. *)

RestTypes == /\ QueueTypes /\ RedialTypes /\ SessionTypes /\ CallTypes
             /\ LockTypes /\ JobTypes /\ HistoryTypes /\ hangups \in SUBSET Sids

\* A job that a step adds is about a call that has been placed.
JobsSound ==
    \A j \in (finishing' \cup skipping') \ (finishing \cup skipping) :
        j.sid \in Sids /\ Placed(leg'[j.sid])

LEMMA TypeInvKept ==
    ASSUME TypeInv, RestTypes', LegStep, JobsSound
    PROVE  TypeInv'
<1>1. leg' \in [Sids -> Leg] /\ \A s \in Sids : Sound(leg'[s])  BY LegKeeps
<1>2. TypeOK'  BY <1>1 DEF RestTypes, TypeOK, TwilioTypes
<1>3. \A j \in finishing' \cup skipping' : Placed(leg'[j.sid])
  BY LegKeeps DEF JobsSound
<1> QED BY <1>1, <1>2, <1>3 DEF TypeInv

USE DEF queueVars, redialVars, sessionVars, callVars, lockVars, jobVars, twilioVars,
        history

\* What a step leaves alone keeps its type.
LEMMA Kept ==
    ASSUME TypeInv
    PROVE  /\ UNCHANGED queueVars => QueueTypes'
           /\ UNCHANGED redialVars => RedialTypes'
           /\ UNCHANGED sessionVars => SessionTypes'
           /\ UNCHANGED callVars => CallTypes'
           /\ UNCHANGED lockVars => LockTypes'
           /\ UNCHANGED jobVars => JobTypes' /\ JobsSound
           /\ UNCHANGED history => HistoryTypes'
           /\ UNCHANGED hangups => hangups' \in SUBSET Sids
  BY DEF TypeInv, TypeOK, QueueTypes, RedialTypes, SessionTypes, CallTypes, LockTypes,
         JobTypes, HistoryTypes, TwilioTypes, JobsSound

USE DEF exceptLeg, exceptPump, exceptAbort, exceptStatus, exceptVoice, exceptBridge,
        exceptRequeue, exceptSweep

LEMMA ReleaseType == ASSUME Release, UNCHANGED <<agentPostCallState, postCallEnteredAt,
                                                 agentReadyForCall>>, TypeInv
                     PROVE  LockTypes'
  BY DEF Release, LockTypes, TypeInv, TypeOK

LEMMA TelephonyTypes == ASSUME TypeInv, Telephony PROVE TypeInv'
<1>1. PICK s \in Sids :
        \/ Answer(s) \/ NotAnswered(s)
        \/ AmdResult(s, "human") \/ AmdResult(s, "machine")
        \/ AgentAnswers(s) \/ AgentDoesNotAnswer(s)
        \/ HangUp(s) \/ DropAtOnce(s)
        \/ HangupLands(s) \/ PromptLost(s) \/ FinalWebhooksLost(s)
  BY DEF Telephony
<1>2. /\ UNCHANGED <<queueVars, redialVars, sessionVars, callVars, lockVars, jobVars, history>>
      /\ hangups' \in {hangups, hangups \ {s}}
  BY <1>1 DEF Answer, NotAnswered, AmdResult, AgentAnswers, AgentDoesNotAnswer, HangUp,
              DropAtOnce, HangupLands, PromptLost, FinalWebhooksLost
<1>3. hangups' \in SUBSET Sids  BY <1>2 DEF TypeInv, TypeOK, TwilioTypes
<1>4. RestTypes' /\ JobsSound  BY <1>2, <1>3, Kept DEF RestTypes
<1> QED BY <1>4, TelephonyLegs, TypeInvKept

\* processQueue and makeCall.
LEMMA MakeCallRest ==
    ASSUME TypeInv, NEW card \in Card, NEW f \in SUBSET Leads, MakeCall(card, f),
           userQueue' \in [Leads -> Attempts],
           pump' \in [stage : {"idle", "checking", "firing"}, batch : Seq(Card)],
           UNCHANGED exceptPump
    PROVE  TypeInv' /\ LegStep
<1>1. QueueTypes'  BY MakeCallType DEF QueueTypes
<1>2. RedialTypes'  BY MakeCallType DEF RedialTypes, TypeInv, TypeOK
<1>3. RestTypes' /\ JobsSound  BY <1>1, <1>2, Kept DEF RestTypes
<1> QED BY <1>3, MakeCallType, TypeInvKept

LEMMA PumpTypes ==
    ASSUME TypeInv, PumpGivesUp \/ PumpTakesBatch \/ PumpFires \/ PumpEnds
    PROVE  TypeInv' /\ LegStep
<1>1. CASE PumpGivesUp \/ PumpEnds
  <2>1. QueueTypes' /\ UNCHANGED <<redialVars, leg>>
    <3>1. <<>> \in Seq(Card)  OBVIOUS
    <3> QED BY <1>1, <3>1, PumpStageType
            DEF PumpGivesUp, PumpEnds, QueueTypes, TypeInv, TypeOK
  <2>2. RestTypes' /\ JobsSound  BY <1>1, <2>1, Kept DEF RestTypes, PumpGivesUp, PumpEnds
  <2> QED BY <2>1, <2>2, TypeInvKept DEF LegStep
<1>2. CASE PumpTakesBatch
  <2> DEFINE size == Cardinality(Queued(userQueue))
             n == IF Room < size THEN Room ELSE size
             taken(b) == {b[i] : i \in 1 .. n}
             cards(b) == [i \in 1 .. n |-> [lead |-> b[i], att |-> userQueue[b[i]]]]
  <2>1. n \in Nat \ {0}
    <3>1. IsFiniteSet(Queued(userQueue))  BY FS_Subset, DialerAssumption DEF Queued
    <3>2. size \in Nat /\ Room \in Int  BY <3>1, FS_CardinalityType, RoomType DEF TypeInv
    <3>3. n > 0  BY <1>2 DEF PumpTakesBatch
    <3> QED BY <3>2, <3>3
  <2>2. PICK b \in Firsts(userQueue, n) :
          /\ userQueue' = RemoveWhere(userQueue, taken(b))
          /\ IF stopped
             THEN /\ leadsInFlight' = leadsInFlight \cup taken(b)
                  /\ pump' = [stage |-> "idle", batch |-> <<>>]
                  /\ UNCHANGED <<leg, machineLeads>>
             ELSE /\ MakeCall(cards(b)[1], leadsInFlight \cup taken(b))
                  /\ pump' = [stage |-> "firing", batch |-> Tail(cards(b))]
    BY <1>2 DEF PumpTakesBatch
  <2> HIDE DEF n
  <2>3. cards(b) \in Seq(Card) /\ taken(b) \subseteq Leads  BY <2>1, BatchType DEF TypeInv
  <2>4. leadsInFlight \cup taken(b) \in SUBSET Leads
    BY <2>3 DEF TypeInv, TypeOK, QueueTypes
  <2>5. userQueue' \in [Leads -> Attempts]
    BY <2>2, RemoveWhereType DEF TypeInv, TypeOK, QueueTypes
  <2>6. UNCHANGED exceptPump  BY <1>2 DEF PumpTakesBatch
  <2>7. CASE stopped
    <3>1. QueueTypes'
      <4>1. <<>> \in Seq(Card)  OBVIOUS
      <4> QED BY <2>2, <2>4, <2>5, <2>7, <4>1, PumpStageType DEF QueueTypes
    <3>2. UNCHANGED <<redialVars, leg>>  BY <2>2, <2>6, <2>7
    <3>3. RestTypes' /\ JobsSound  BY <2>6, <3>1, <3>2, Kept DEF RestTypes
    <3> QED BY <3>2, <3>3, TypeInvKept DEF LegStep
  <2>8. CASE ~stopped
    <3>1. cards(b)[1] \in Card  BY <2>1, <2>3
    <3>2. Tail(cards(b)) \in Seq(Card)  BY <2>1, <2>3
    <3>3. pump' \in [stage : {"idle", "checking", "firing"}, batch : Seq(Card)]
      BY <2>2, <2>8, <3>2, PumpStageType
    <3>4. MakeCall(cards(b)[1], leadsInFlight \cup taken(b))  BY <2>2, <2>8
    <3> HIDE DEF cards, taken
    <3> QED BY <2>4, <2>5, <2>6, <3>1, <3>3, <3>4, MakeCallRest
  <2> QED BY <2>7, <2>8
<1>3. CASE PumpFires
  <2>1. pump.batch \in Seq(Card) /\ pump.batch # <<>>
    BY <1>3 DEF PumpFires, TypeInv, TypeOK, QueueTypes
  <2>2. Head(pump.batch) \in Card /\ Tail(pump.batch) \in Seq(Card)  BY <2>1
  <2>3. pump' \in [stage : {"idle", "checking", "firing"}, batch : Seq(Card)]
    BY <1>3, <2>2 DEF PumpFires, TypeInv, TypeOK, QueueTypes
  <2>4. leadsInFlight \in SUBSET Leads /\ userQueue' \in [Leads -> Attempts]
    BY <1>3 DEF PumpFires, TypeInv, TypeOK, QueueTypes
  <2> QED BY <1>3, <2>2, <2>3, <2>4, MakeCallRest DEF PumpFires
<1> QED BY <1>1, <1>2, <1>3

LEMMA CreateTypes ==
    ASSUME TypeInv, NEW s \in Sids,
           SlowCreate(s) \/ CallCreated(s) \/ DialBlocked(s) \/ DialFrozen(s) \/ DialFails(s)
    PROVE  TypeInv'
<1>1. JobsSound /\ JobTypes' /\ SessionTypes' /\ LockTypes' /\ hangups' \in SUBSET Sids
  BY Kept DEF SlowCreate, CallCreated, DialBlocked, DialFrozen, DialFails
<1>2. CASE SlowCreate(s)
  <2>1. dialed' \in [Leads -> 0 .. MaxDials]
    <3>1. leg[s].lead \in Leads  BY <1>2 DEF TypeInv, Sound, SlowCreate
    <3> QED BY <1>2, <3>1, DialerAssumption
            DEF SlowCreate, TypeInv, TypeOK, HistoryTypes
  <2>2. HistoryTypes'  BY <1>2, <2>1 DEF SlowCreate, TypeInv, TypeOK, HistoryTypes
  <2> QED BY <1>1, <1>2, <2>2, Kept, CreateLegs, TypeInvKept DEF SlowCreate, RestTypes
<1>3. CASE CallCreated(s)
  <2>1. dialed' \in [Leads -> 0 .. MaxDials]
    <3>1. CASE leg[s].resp
      BY <1>3, <3>1 DEF CallCreated, TypeInv, TypeOK, HistoryTypes
    <3>2. CASE ~leg[s].resp
      <4>1. leg[s].lead \in Leads  BY <1>3, <3>2 DEF TypeInv, Sound, CallCreated
      <4> QED BY <1>3, <3>2, <4>1, DialerAssumption
              DEF CallCreated, TypeInv, TypeOK, HistoryTypes
    <3> QED BY <3>1, <3>2
  <2>2. HistoryTypes'  BY <1>3, <2>1 DEF CallCreated, TypeInv, TypeOK, HistoryTypes
  <2>3. CallTypes'
    BY <1>3 DEF CallCreated, TypeInv, TypeOK, CallTypes, NewMeta, Meta
  <2>4. QueueTypes' /\ RedialTypes'
    BY <1>3 DEF CallCreated, TypeInv, TypeOK, QueueTypes, RedialTypes
  <2> QED BY <1>1, <1>3, <2>2, <2>3, <2>4, CreateLegs, TypeInvKept DEF RestTypes
<1>4. CASE DialBlocked(s) \/ DialFrozen(s) \/ DialFails(s)
  <2>1. QueueTypes'
    BY <1>4, PumpedType
    DEF DialBlocked, DialFrozen, DialFails, TypeInv, TypeOK, QueueTypes
  <2>2. RedialTypes'
    BY <1>4 DEF DialBlocked, DialFrozen, DialFails, TypeInv, TypeOK, RedialTypes
  <2>3. CallTypes' /\ HistoryTypes'
    BY <1>4, Kept DEF DialBlocked, DialFrozen, DialFails
  <2> QED BY <1>1, <1>4, <2>1, <2>2, <2>3, CreateLegs, TypeInvKept DEF RestTypes
<1> QED BY <1>2, <1>3, <1>4

LEMMA DialingTypes == ASSUME TypeInv, Dialing PROVE TypeInv'
  BY PumpTypes, CreateTypes DEF Dialing

\* The status webhooks, and the watchdog's fetch, which stands for one.
LEMMA StatusTypes ==
    ASSUME TypeInv, NEW s \in Sids, NEW status \in Terminal \cup {"ringing", "answered"},
           NEW child \in BOOLEAN, StatusArrives(s, status, child), Placed(leg[s]),
           UNCHANGED <<leg, exceptStatus>>
    PROVE  TypeInv'
<1>1. /\ meta' \in [Sids -> [1 .. 2 -> Meta]] /\ machineLeads' \in SUBSET Leads
      /\ finishing' \in SUBSET Finish
  BY StatusArrivesType DEF TypeInv
<1>2. RestTypes'
  BY <1>1, Kept DEF RestTypes, CallTypes, RedialTypes, JobTypes, TypeInv, TypeOK
<1>3. finishing' \subseteq finishing \cup {Report(s, status, child, n) : n \in 1 .. 2}
  BY DEF StatusArrives
<1>4. JobsSound  BY <1>3 DEF JobsSound, Report
<1> QED BY <1>2, <1>4, TypeInvKept DEF LegStep

LEMMA StatusWebhooksTypes == ASSUME TypeInv, StatusWebhooks PROVE TypeInv'
<1>1. PICK s \in Sids : \/ CallProgress(s, "ringing") \/ CallProgress(s, "answered")
                        \/ AgentLegAnswered(s) \/ AgentLegEnded(s) \/ CallEnded(s)
  BY DEF StatusWebhooks
<1>2. leg[s] \in Leg /\ Sound(leg[s])  BY DEF TypeInv, TypeOK, TwilioTypes
<1>3. CASE CallProgress(s, "ringing")
  BY <1>3, StatusTypes DEF CallProgress, Placed, Terminal
<1>4. CASE CallProgress(s, "answered")
  BY <1>4, StatusTypes DEF CallProgress, Placed, Terminal
<1>5. CASE AgentLegAnswered(s)
  BY <1>2, <1>5, StatusTypes DEF AgentLegAnswered, Sound, Terminal
<1>6. CASE AgentLegEnded(s)
  <2>1. leg[s].kid \in Terminal  BY <1>2, <1>6 DEF Leg, AgentLegEnded
  <2> QED BY <1>2, <1>6, <2>1, StatusTypes DEF AgentLegEnded, Sound
<1>7. CASE CallEnded(s)
  <2> DEFINE status == IF leg[s].end = "zero" THEN "no-answer" ELSE leg[s].end
  <2>1. status \in Terminal  BY <1>2, <1>7 DEF Leg, CallEnded, Terminal
  <2>2. StatusArrives(s, status, FALSE) /\ UNCHANGED <<leg, exceptStatus>>
    BY <1>7 DEF CallEnded
  <2>3. Placed(leg[s])  BY <1>2, <1>7 DEF CallEnded, Sound
  <2> HIDE DEF status
  <2> QED BY <2>1, <2>2, <2>3, StatusTypes
<1> QED BY <1>1, <1>3, <1>4, <1>5, <1>6, <1>7

\* The voice and AMD webhooks.
LEMMA MarkType ==
    ASSUME TypeInv, NEW s \in Sids, NEW status \in {"callback", "machine"}, Mark(s, status)
    PROVE  meta' \in [Sids -> [1 .. 2 -> Meta]]
<1>1. activeCalls[s] \in 0 .. 2 /\ meta \in [Sids -> [1 .. 2 -> Meta]]
  BY DEF TypeInv, TypeOK, CallTypes
<1> DEFINE o == activeCalls[s]
           m == [meta[s][o] EXCEPT !.status = status]
<1>2. CASE o # 0
  <2>1. m \in Meta  BY <1>1, <1>2 DEF Meta
  <2>2. meta' = [meta EXCEPT ![s][o] = m]  BY <1>1, <1>2 DEF Mark
  <2> HIDE DEF m
  <2> QED BY <1>1, <1>2, <2>1, <2>2
<1>3. CASE o = 0  BY <1>1, <1>3 DEF Mark
<1> QED BY <1>2, <1>3

LEMMA AcquireType ==
    ASSUME TypeInv, NEW s \in Sids, Acquire(s),
           UNCHANGED <<agentPostCallState, postCallEnteredAt, agentReadyForCall>>
    PROVE  LockTypes'
  BY DEF Acquire, LockTypes, TypeInv, TypeOK

LEMMA BridgeTypes ==
    ASSUME TypeInv, NEW s \in Sids,
           \/ VoiceHolds(s) \/ VoiceOverflows(s) \/ VoiceBridges(s)
           \/ HumanOverflows(s) \/ HumanBridges(s)
           \/ BridgeLands(s) \/ BridgeFails(s) \/ MachineDetected(s)
    PROVE  TypeInv'
<1>1. SessionTypes' /\ RedialTypes' /\ HistoryTypes' /\ hangups' \in SUBSET Sids
  BY Kept DEF VoiceHolds, VoiceOverflows, VoiceBridges, HumanOverflows, HumanBridges,
              BridgeLands, BridgeFails, MachineDetected
<1>2. TypeOK  BY DEF TypeInv
<1>3. ASSUME QueueTypes', CallTypes', LockTypes', JobTypes', JobsSound
      PROVE  TypeInv'
  BY <1>1, <1>3, BridgeLegs, TypeInvKept DEF RestTypes
<1>4. CASE VoiceHolds(s)
  BY <1>3, <1>4, Kept DEF VoiceHolds
<1>5. CASE VoiceOverflows(s) \/ HumanOverflows(s)
  <2>1. CallTypes'
    BY <1>2, <1>5, MarkType DEF VoiceOverflows, HumanOverflows, CallTypes, TypeOK
  <2>2. UNCHANGED <<queueVars, lockVars, jobVars>>
    BY <1>5 DEF VoiceOverflows, HumanOverflows
  <2> QED BY <1>3, <2>1, <2>2, Kept
<1>6. CASE VoiceBridges(s)
  <2>1. CallTypes'  BY <1>2, <1>6, BridgedType DEF VoiceBridges, CallTypes, TypeOK
  <2>2. LockTypes'  BY <1>6, AcquireType DEF VoiceBridges
  <2>3. UNCHANGED <<queueVars, jobVars>>  BY <1>6 DEF VoiceBridges
  <2> QED BY <1>3, <2>1, <2>2, <2>3, Kept
<1>7. CASE HumanBridges(s)
  <2>1. UNCHANGED <<queueVars, finishing, skipping>>  BY <1>7 DEF HumanBridges
  <2>2. JobsSound  BY <2>1 DEF JobsSound
  <2>3. JobTypes'  BY <1>2, <1>7 DEF HumanBridges, JobTypes, TypeOK
  <2>4. CASE activeCalls[s] = 0
    BY <1>3, <1>7, <2>1, <2>2, <2>3, <2>4, Kept DEF HumanBridges
  <2>5. CASE activeCalls[s] # 0
    <3>1. CallTypes'
      BY <1>2, <1>7, <2>5, BridgedType DEF HumanBridges, CallTypes, TypeOK
    <3>2. LockTypes'  BY <1>7, <2>5, AcquireType DEF HumanBridges
    <3> QED BY <1>3, <2>1, <2>2, <2>3, <3>1, <3>2, Kept
  <2> QED BY <2>4, <2>5
<1>8. CASE BridgeLands(s)
  <2>1. UNCHANGED <<queueVars, callVars, lockVars, finishing, skipping>>
    BY <1>8 DEF BridgeLands
  <2>2. JobsSound  BY <2>1 DEF JobsSound
  <2>3. JobTypes'  BY <1>2, <1>8 DEF BridgeLands, JobTypes, TypeOK
  <2> QED BY <1>3, <2>1, <2>2, <2>3, Kept
<1>9. CASE BridgeFails(s)
  <2>1. JobsSound  BY <1>9 DEF BridgeFails, JobsSound
  <2>2. JobTypes' /\ CallTypes'
    BY <1>2, <1>9 DEF BridgeFails, JobTypes, CallTypes, TypeOK
  <2>3. LockTypes'  BY <1>9, ReleaseType DEF BridgeFails
  <2>4. QueueTypes'  BY <1>2, <1>9, PumpedType DEF BridgeFails, QueueTypes, TypeOK
  <2> QED BY <1>3, <2>1, <2>2, <2>3, <2>4
<1>10. CASE MachineDetected(s)
  <2> DEFINE k == [sid |-> s, obj |-> activeCalls[s]]
  <2>1. k \in Skip  BY <1>2 DEF Skip, TypeOK, CallTypes
  <2>2. skipping' = skipping \cup {k} /\ UNCHANGED <<finishing, bridging>>
    BY <1>10 DEF MachineDetected
  <2>3. JobTypes'  BY <1>2, <2>1, <2>2 DEF JobTypes, TypeOK
  <2>4. leg[s] \in Leg /\ Placed(leg[s])
    BY <1>2, <1>10 DEF MachineDetected, TypeInv, Sound, TypeOK, TwilioTypes
  <2>5. leg'[s].st = leg[s].st
    BY <1>10, <2>4 DEF MachineDetected, Leg, TypeInv, TypeOK, TwilioTypes
  <2>6. JobsSound  BY <2>2, <2>4, <2>5 DEF JobsSound, Placed
  <2>7. CallTypes'
    BY <1>2, <1>10, MarkType DEF MachineDetected, CallTypes, TypeOK
  <2> QED BY <1>3, <1>10, <2>3, <2>6, <2>7, Kept DEF MachineDetected
<1> QED BY <1>4, <1>5, <1>6, <1>7, <1>8, <1>9, <1>10

LEMMA SkipTypes == ASSUME TypeInv, NEW k \in skipping, SkipMachine(k) PROVE TypeInv'
<1>1. k.sid \in Sids /\ leg[k.sid].lead \in Leads
  BY DEF TypeInv, TypeOK, JobTypes, Skip, Sound, Placed
<1>2. SessionTypes' /\ CallTypes' /\ LockTypes' /\ HistoryTypes' /\ UNCHANGED leg
  BY Kept DEF SkipMachine
<1>3. JobTypes' /\ hangups' \in SUBSET Sids
  BY <1>1 DEF SkipMachine, JobTypes, TypeInv, TypeOK, TwilioTypes
<1>4. JobsSound  BY DEF SkipMachine, JobsSound
<1>5. RedialTypes'
  BY <1>1 DEF SkipMachine, CancelPendingRedials, RedialTypes, TypeInv, TypeOK
<1>6. QueueTypes'
  BY RemoveWhereType, PumpedType DEF SkipMachine, QueueTypes, TypeInv, TypeOK
<1> QED BY <1>2, <1>3, <1>4, <1>5, <1>6, TypeInvKept DEF RestTypes, LegStep

LEMMA BridgeWebhooksTypes == ASSUME TypeInv, BridgeWebhooks PROVE TypeInv'
  BY BridgeTypes, SkipTypes DEF BridgeWebhooks

\* The terminal half of handleCallStatusUpdate.
LEMMA RequeueLeadType ==
    ASSUME TypeInv, NEW l \in Leads, NEW att \in Attempts, NEW known \in BOOLEAN,
           RequeueLeadForRedial(l, att, known)
    PROVE  pendingRedials' \in SUBSET Leads /\ redialTimers' \in SUBSET Timer
<1>1. pendingRedials \in SUBSET Leads /\ redialTimers \in SUBSET Timer
  BY DEF TypeInv, TypeOK, RedialTypes
<1>2. [lead |-> l, att |-> att, known |-> known, cancelable |-> TRUE] \in Timer
  BY DEF Timer
<1>3. \A t \in redialTimers : [t EXCEPT !.cancelable = @ /\ t.lead # l] \in Timer
  BY <1>1 DEF Timer
<1> QED BY <1>1, <1>2, <1>3 DEF RequeueLeadForRedial

LEMMA FinishTypes == ASSUME TypeInv, NEW j \in finishing, FinishStatus(j) PROVE TypeInv'
<1>1. j \in Finish /\ leg[j.sid] \in Leg /\ leg[j.sid].lead \in Leads
  BY DEF TypeInv, TypeOK, JobTypes, TwilioTypes, Finish, Sound, Placed
<1>2. SessionTypes' /\ HistoryTypes' /\ hangups' \in SUBSET Sids /\ UNCHANGED leg
  BY Kept DEF FinishStatus
<1>3. JobTypes'  BY DEF FinishStatus, JobTypes, TypeInv, TypeOK
<1>4. JobsSound  BY DEF FinishStatus, JobsSound
<1>5. CallTypes'
  BY <1>1 DEF FinishStatus, TerminalStatus, CallTypes, TypeInv, TypeOK, Finish
<1>6. LockTypes'
  <2>1. LockTypes  BY DEF TypeInv, TypeOK
  <2>2. AgentSpokeOnCall(j) \in BOOLEAN
    <3>1. j.sid \in Sids /\ j.obj \in 0 .. 2  BY <1>1 DEF Finish
    <3>2. j.obj # 0 => meta[j.sid][j.obj] \in Meta
      BY <3>1 DEF TypeInv, TypeOK, CallTypes
    <3> QED BY <3>2 DEF AgentSpokeOnCall, Meta
  <2>3. CASE ReleaseOwner(j)  BY <2>1, <2>2, <2>3 DEF ReleaseOwner, Release, LockTypes
  <2>4. CASE ReleaseOrphan(j)  BY <2>1, <2>2, <2>4 DEF ReleaseOrphan, Release, LockTypes
  <2>5. CASE UNCHANGED lockVars  BY <2>1, <2>5 DEF LockTypes
  <2> QED BY <2>3, <2>4, <2>5 DEF FinishStatus, TerminalStatus
<1>7. QueueTypes'
  BY PumpedType DEF FinishStatus, TerminalStatus, QueueTypes, TypeInv, TypeOK
<1>8. RedialTypes'
  <2>1. CASE WantsRedial(j) /\ AttemptsOf(j) < MaxAttempts
    <3>1. AttemptsOf(j) \in Nat  BY <1>1 DEF AttemptsOf, Leg, Attempts
    <3>2. AttemptsOf(j) + 1 \in Attempts  BY <2>1, <3>1, DialerAssumption DEF Attempts
    <3>3. meta[j.sid][j.obj].known \in BOOLEAN
      <4>1. j.sid \in Sids /\ j.obj \in 1 .. 2  BY <1>1, <2>1 DEF Finish, WantsRedial
      <4> QED BY <4>1 DEF TypeInv, TypeOK, CallTypes, Meta
    <3>4. RequeueLeadForRedial(leg[j.sid].lead, AttemptsOf(j) + 1, meta[j.sid][j.obj].known)
      BY <2>1 DEF FinishStatus, ScheduleRedial
    <3>5. pendingRedials' \in SUBSET Leads /\ redialTimers' \in SUBSET Timer
      BY <1>1, <3>2, <3>3, <3>4, RequeueLeadType
    <3> QED BY <3>5 DEF FinishStatus, RedialTypes, TypeInv, TypeOK
  <2>2. CASE ~(WantsRedial(j) /\ AttemptsOf(j) < MaxAttempts)
    BY <2>2 DEF FinishStatus, ScheduleRedial, RedialTypes, TypeInv, TypeOK
  <2> QED BY <2>1, <2>2
<1> QED BY <1>2, <1>3, <1>4, <1>5, <1>6, <1>7, <1>8, TypeInvKept DEF RestTypes, LegStep

LEMMA RedialingTypes == ASSUME TypeInv, Redialing PROVE TypeInv'
<1>1. ASSUME NEW t \in redialTimers, RedialTimerFires(t)  PROVE TypeInv'
  <2>1. \A u \in redialTimers : u \in Timer /\ [u EXCEPT !.cancelable = FALSE] \in Timer
    BY DEF TypeInv, TypeOK, RedialTypes, Timer
  <2>2. redialTimers' \in SUBSET Timer  BY <1>1, <2>1 DEF RedialTimerFires
  <2>3. requeues' \in SUBSET Requeue
    BY <1>1, <2>1 DEF RedialTimerFires, TypeInv, TypeOK, RedialTypes, Timer, Requeue
  <2>4. RedialTypes'
    BY <1>1, <2>2, <2>3 DEF RedialTimerFires, TypeInv, TypeOK, RedialTypes
  <2>5. RestTypes' /\ JobsSound /\ UNCHANGED leg
    BY <1>1, <2>4, Kept DEF RedialTimerFires, RestTypes
  <2> QED BY <2>5, TypeInvKept DEF LegStep
<1>2. ASSUME NEW r \in requeues, RequeueDropped(r) \/ RequeueEnters(r) \/ RequeueThrows(r)
      PROVE  TypeInv'
  <2>1. r \in Requeue  BY DEF TypeInv, TypeOK, RedialTypes
  <2>2. RedialTypes'
    BY <1>2 DEF RequeueDropped, RequeueEnters, RequeueThrows, TypeInv, TypeOK, RedialTypes
  <2>3. QueueTypes'
    <3>1. CASE RequeueEnters(r)
      BY <2>1, <3>1, PumpedType
      DEF RequeueEnters, Enqueue, TypeInv, TypeOK, QueueTypes, Requeue
    <3>2. CASE RequeueDropped(r) \/ RequeueThrows(r)
      BY <3>2 DEF RequeueDropped, RequeueThrows, TypeInv, TypeOK, QueueTypes
    <3> QED BY <1>2, <3>1, <3>2
  <2>4. RestTypes' /\ JobsSound /\ UNCHANGED leg
    BY <1>2, <2>2, <2>3, Kept
    DEF RequeueDropped, RequeueEnters, RequeueThrows, RestTypes
  <2> QED BY <2>4, TypeInvKept DEF LegStep
<1> QED BY <1>1, <1>2 DEF Redialing

\* The session requests.
LEMMA SessionStepTypes == ASSUME TypeInv, Session PROVE TypeInv'
<1>1. ASSUME RestTypes', JobsSound, UNCHANGED leg  PROVE TypeInv'
  BY <1>1, TypeInvKept DEF LegStep
<1>2. CASE StartBegins
  <2>1. QueueTypes'  BY <1>2, PumpedType DEF StartBegins, QueueTypes, TypeInv, TypeOK
  <2>2. LockTypes'  BY <1>2, ReleaseType DEF StartBegins
  <2>3. SessionTypes' /\ CallTypes'
    BY <1>2 DEF StartBegins, SessionTypes, CallTypes, TypeInv, TypeOK
  <2>4. HistoryTypes'
    BY <1>2, DialerAssumption DEF StartBegins, HistoryTypes, TypeInv, TypeOK
  <2> QED BY <1>1, <1>2, <2>1, <2>2, <2>3, <2>4, Kept DEF StartBegins, RestTypes
<1>3. CASE StartSaved \/ StartAborts
  <2>1. SessionTypes' /\ RedialTypes'
    BY <1>3 DEF StartSaved, StartAborts, SessionTypes, RedialTypes, TypeInv, TypeOK
  <2> QED BY <1>1, <1>3, <2>1, Kept DEF StartSaved, StartAborts, RestTypes
<1>4. CASE StartFills
  <2>1. 1 \in Attempts  BY DialerAssumption DEF Attempts
  <2>2. \A l \in Leads : Enqueue(userQueue, l, 1) \in [Leads -> Attempts]
    BY <2>1 DEF Enqueue, TypeInv, TypeOK, QueueTypes
  <2>3. userQueue' \in [Leads -> Attempts]  BY <1>4, <2>2 DEF StartFills
  <2>4. QueueTypes'
    BY <1>4, <2>3, PumpedType DEF StartFills, QueueTypes, TypeInv, TypeOK
  <2>5. SessionTypes' /\ LockTypes'
    BY <1>4 DEF StartFills, SessionTypes, LockTypes, TypeInv, TypeOK
  <2> QED BY <1>1, <1>4, <2>4, <2>5, Kept DEF StartFills, RestTypes
<1>5. CASE StopDialing
  <2>1. 0 \in Attempts  BY DialerAssumption DEF Attempts
  <2>2. QueueTypes'
    BY <1>5, <2>1, PumpedType DEF StopDialing, QueueTypes, TypeInv, TypeOK
  <2>3. hangups' \in SUBSET Sids
    BY <1>5 DEF StopDialing, Tracked, TypeInv, TypeOK, TwilioTypes
  <2>4. SessionTypes' /\ CallTypes'
    BY <1>5 DEF StopDialing, SessionTypes, CallTypes, TypeInv, TypeOK
  <2>5. LockTypes'  BY <1>5 DEF StopDialing, Release, LockTypes
  <2> QED BY <1>1, <1>5, <2>2, <2>3, <2>4, <2>5, Kept DEF StopDialing, RestTypes
<1>6. ASSUME NEW s \in Sids, AgentReady(s)  PROVE TypeInv'
  <2>1. QueueTypes'  BY <1>6, PumpedType DEF AgentReady, QueueTypes, TypeInv, TypeOK
  <2>2. LockTypes' /\ HistoryTypes'
    BY <1>6 DEF AgentReady, LockTypes, HistoryTypes, TypeInv, TypeOK
  <2> QED BY <1>1, <1>6, <2>1, <2>2, Kept DEF AgentReady, RestTypes
<1>7. ASSUME NEW c \in Contacts, PurgeContact(c)  PROVE TypeInv'
  <2>1. QueueTypes'
    BY <1>7, RemoveWhereType DEF PurgeContact, QueueTypes, TypeInv, TypeOK
  <2>2. RedialTypes'
    BY <1>7 DEF PurgeContact, CancelPendingRedials, RedialTypes, TypeInv, TypeOK
  <2>3. SessionTypes' /\ CallTypes'
    BY <1>7 DEF PurgeContact, SessionTypes, CallTypes, TypeInv, TypeOK
  <2>4. hangups' \in SUBSET Sids
    BY <1>7 DEF PurgeContact, Tracked, TypeInv, TypeOK, TwilioTypes
  <2> QED BY <1>1, <1>7, <2>1, <2>2, <2>3, <2>4, Kept DEF PurgeContact, RestTypes
<1>8. ASSUME NEW l \in Leads, TrimCards(l)  PROVE TypeInv'
  <2>1. QueueTypes'
    BY <1>8, RemoveWhereType DEF TrimCards, QueueTypes, TypeInv, TypeOK
  <2> QED BY <1>1, <1>8, <2>1, Kept DEF TrimCards, RestTypes
<1> QED BY <1>2, <1>3, <1>4, <1>5, <1>6, <1>7, <1>8 DEF Session

LEMMA WatchdogTypes == ASSUME TypeInv, Watchdog \/ StaleLock PROVE TypeInv'
<1>1. ASSUME NEW s \in Sids, WatchdogFetches(s)  PROVE TypeInv'
  <2> DEFINE status == IF leg[s].end = "zero" THEN "completed" ELSE leg[s].end
  <2>1. leg[s] \in Leg /\ Sound(leg[s])  BY DEF TypeInv, TypeOK, TwilioTypes
  <2>2. status \in Terminal  BY <1>1, <2>1 DEF Leg, WatchdogFetches, Terminal
  <2>3. StatusArrives(s, status, FALSE) /\ UNCHANGED <<leg, exceptStatus>>
    BY <1>1 DEF WatchdogFetches
  <2>4. Placed(leg[s])  BY <1>1, <2>1 DEF WatchdogFetches, Sound
  <2> HIDE DEF status
  <2> QED BY <2>2, <2>3, <2>4, StatusTypes
<1>2. ASSUME NEW graceOver \in BOOLEAN, WatchdogSweeps(graceOver)  PROVE TypeInv'
  <2>1. LockTypes'
    <3>1. agentBusyState' \in BOOLEAN /\ agentBridgedCallId' \in Sids \cup {None}
      BY <1>2 DEF WatchdogSweeps, Release, LockTypes, TypeInv, TypeOK
    <3>2. agentPostCallState' \in BOOLEAN /\ postCallEnteredAt' \in BOOLEAN
      BY <1>2 DEF WatchdogSweeps
    <3> QED BY <1>2, <3>1, <3>2 DEF WatchdogSweeps, LockTypes, TypeInv, TypeOK
  <2>2. QueueTypes'
    BY <1>2, PumpedType DEF WatchdogSweeps, QueueTypes, TypeInv, TypeOK
  <2>3. RestTypes' /\ JobsSound /\ UNCHANGED leg
    BY <1>2, <2>1, <2>2, Kept DEF WatchdogSweeps, RestTypes
  <2> QED BY <2>3, TypeInvKept DEF LegStep
<1>3. CASE StaleLock
  <2>1. LockTypes'  BY <1>3, ReleaseType DEF StaleLock
  <2>2. QueueTypes'  BY <1>3, PumpedType DEF StaleLock, QueueTypes, TypeInv, TypeOK
  <2>3. RestTypes' /\ JobsSound /\ UNCHANGED leg
    BY <1>3, <2>1, <2>2, Kept DEF StaleLock, RestTypes
  <2> QED BY <2>3, TypeInvKept DEF LegStep
<1> QED BY <1>1, <1>2, <1>3 DEF Watchdog

LEMMA ReuseLegs == ASSUME TypeInv, NEW s \in Sids, Reuse(s) PROVE LegStep
<1>1. s # agentBridgedCallId /\ \A j \in finishing \cup skipping : j.sid # s
  BY DEF Reuse, Spent
<1>2. leg' = [leg EXCEPT ![s] = NoLeg]  BY DEF Reuse
<1> QED BY <1>1, <1>2, LegDropped DEF InUse

LEMMA ReuseTypes == ASSUME TypeInv, NEW s \in Sids, Reuse(s) PROVE TypeInv'
<1>1. CallTypes'  BY DEF Reuse, CallTypes, TypeInv, TypeOK, NewMeta, Meta
<1>2. HistoryTypes'  BY DEF Reuse, HistoryTypes, TypeInv, TypeOK
<1> QED BY <1>1, <1>2, Kept, ReuseLegs, TypeInvKept DEF Reuse, RestTypes

-----------------------------------------------------------------------------
(* Type correctness. *)

\* However the dialer moves, the leg of the lock owner stays where it can be.
LEMMA AllLegs == ASSUME TypeInv, [Next]_vars PROVE LegStep
<1>1. CASE UNCHANGED leg  BY <1>1 DEF LegStep
<1>2. CASE \E s \in Sids : Reuse(s)  BY <1>2, ReuseLegs
<1>3. CASE Dialing  BY <1>3, PumpTypes, CreateLegs DEF Dialing
<1>4. CASE BridgeWebhooks
  <2>1. ASSUME NEW k \in skipping, SkipMachine(k)  PROVE LegStep
    BY <2>1 DEF SkipMachine, LegStep
  <2> QED BY <1>4, <2>1, BridgeLegs DEF BridgeWebhooks
<1>5. CASE Telephony  BY <1>5, TelephonyLegs
<1>6. CASE StatusWebhooks \/ Watchdog \/ StaleLock \/ Redialing \/ Session
  <2>1. UNCHANGED leg
    BY <1>6 DEF StatusWebhooks, CallProgress, AgentLegAnswered, AgentLegEnded, CallEnded,
                Watchdog, WatchdogFetches, WatchdogSweeps, StaleLock, Redialing,
                RedialTimerFires, RequeueDropped, RequeueEnters, RequeueThrows, Session,
                StartBegins, StartSaved, StartAborts, StartFills, StopDialing, AgentReady,
                PurgeContact, TrimCards
  <2> QED BY <2>1 DEF LegStep
<1>7. CASE \E j \in finishing : FinishStatus(j)  BY <1>7 DEF FinishStatus, LegStep
<1> QED BY <1>1, <1>2, <1>3, <1>4, <1>5, <1>6, <1>7 DEF Next, Step, vars

LEMMA TypeInit == Init => TypeInv
<1> SUFFICES ASSUME Init PROVE TypeInv  OBVIOUS
<1>1. QueueTypes
  <2>1. <<>> \in Seq(Card) /\ 0 \in Attempts  BY DialerAssumption DEF Attempts
  <2> QED BY <2>1, PumpStageType DEF Init, QueueTypes
<1>2. RedialTypes /\ SessionTypes /\ LockTypes /\ JobTypes
  BY DEF Init, RedialTypes, SessionTypes, LockTypes, JobTypes
<1>3. CallTypes  BY DEF Init, CallTypes, NewMeta, Meta
<1>4. TwilioTypes /\ \A s \in Sids : Sound(leg[s])
  BY NoLegType DEF Init, TwilioTypes
<1>5. HistoryTypes  BY DialerAssumption DEF Init, HistoryTypes
<1>6. finishing \cup skipping = {}  BY DEF Init
<1> QED BY <1>1, <1>2, <1>3, <1>4, <1>5, <1>6 DEF TypeInv, TypeOK

LEMMA TypeNext == TypeInv /\ [Next]_vars => TypeInv'
<1> SUFFICES ASSUME TypeInv, [Next]_vars PROVE TypeInv'  OBVIOUS
<1>1. CASE UNCHANGED vars
  <2>1. RestTypes' /\ JobsSound /\ UNCHANGED leg  BY <1>1, Kept DEF vars, RestTypes
  <2> QED BY <2>1, TypeInvKept DEF LegStep
<1>2. CASE \E s \in Sids : Reuse(s)  BY <1>2, ReuseTypes
<1>3. CASE \E j \in finishing : FinishStatus(j)  BY <1>3, FinishTypes
<1>4. CASE Step
  BY <1>4, DialingTypes, StatusWebhooksTypes, BridgeWebhooksTypes, RedialingTypes,
     SessionStepTypes, WatchdogTypes, TelephonyTypes DEF Step
<1> QED BY <1>1, <1>2, <1>3, <1>4 DEF Next

\* Every variable of the dialer keeps its type, whatever webhooks, timers and
\* requests arrive and in whatever order: no handler stores a redial of more
\* than MaxAttempts attempts, a metadata object of an unknown status or a job
\* about a call that was never placed.
THEOREM TypeCorrect == Spec => []TypeOK
<1>1. TypeInv => TypeOK  BY DEF TypeInv
<1> QED BY <1>1, TypeInit, TypeNext, PTL DEF Spec

-----------------------------------------------------------------------------
(* How the legs turn.  A step changes one leg at most: a call moves on, a    *)
(* slot takes a new call, or a slot is given up.                            *)

\* What a leg says of its past.
Fit(r) ==
    /\ r.st = "unused" => r.lead = None
    /\ r.end # "none" \/ r.kid # "none" => r.st = "ended"
    /\ r.voice => r.st \in {"answered", "ended"}
    /\ r.amd = "human" => r.st \in {"held", "ended"}
    /\ r.amd \in {"human", "machine", "done"} =>
         /\ ~r.voice /\ r.end \notin {"zero", "no-answer"} /\ r.st \notin {"unused", "placing", "ringing", "answered"}
    /\ r.amd = "off" /\ r.st # "unused" => FALSE \in AmdModes
    /\ r.resp => Placed(r)

OnItsWay(r) == r.st = "placing" \/ r.resp

\* The call of slot s moves on.
Turned(s, r) ==
    /\ leg[s].st # "unused" /\ Placed(r)
    /\ r.lead = leg[s].lead /\ r.att = leg[s].att
    /\ leg[s].st = "ended" => r.st = "ended"
    /\ leg[s].amd = "done" => r.amd = "done"
    /\ r.amd = "off" <=> leg[s].amd = "off"
    /\ leg[s].st = "ended" /\ leg[s].amd = "pending" => r.amd = "pending"
    /\ r.amd = "machine" => leg[s].amd = "machine" \/ leg[s].st = "held"
    /\ leg[s].st = "held" /\ leg[s].amd = "done" => r.st \in {"held", "ended"} \/ BridgeLands(s)
    /\ r.st \in {"bridging", "talking"}
         => leg[s].st \in {"bridging", "talking"} \/ VoiceBridges(s) \/ BridgeLands(s)
    /\ r.resp => leg[s].resp \/ SlowCreate(s)
    /\ OnItsWay(leg[s]) => r.resp \/ CallCreated(s)
    /\ r.voice /\ r.st = "ended" =>
         \/ leg[s].voice /\ leg[s].st = "ended"
         \/ "lateVoice" \in Hazards \/ s \in hangups

\* makeCall takes a slot for a card.
Begun(s, r) ==
    /\ leg[s].st = "unused" /\ (PumpTakesBatch \/ PumpFires)
    /\ \E card \in Card, amd \in {"off", "pending"} :
         r = [NoLeg EXCEPT !.st = "placing", !.lead = card.lead, !.att = card.att, !.amd = amd]

\* A slot is given up: its call is spent, or was never placed.
Aborts(s) == DialBlocked(s) \/ DialFrozen(s) \/ DialFails(s)
Dropped(s, r) == r = NoLeg /\ (Reuse(s) \/ (Aborts(s) /\ leg[s].st = "placing"))

LegTurn ==
    \/ UNCHANGED leg
    \/ \E s \in Sids, r \in Leg :
          /\ leg' = [leg EXCEPT ![s] = r]
          /\ Fit(r)
          /\ Turned(s, r) \/ Begun(s, r) \/ Dropped(s, r)

\* The calls of the AMD handler's jobs: their detection is over.
Detected == bridging \cup {k.sid : k \in skipping}

LegInv == /\ TypeInv
          /\ \A s \in Sids : Fit(leg[s])
          /\ \A s \in Detected : leg[s].amd = "done"

LEMMA LegFits ==
    ASSUME LegInv, TypeInv', LegTurn, \A s \in Detected' \ Detected : leg'[s].amd = "done"
    PROVE  LegInv'
<1>1. leg \in [Sids -> Leg] /\ Detected \subseteq Sids
  BY DEF LegInv, TypeInv, TypeOK, TwilioTypes, JobTypes, Skip, Detected
<1>2. \A s \in Sids : Fit(leg'[s])  BY <1>1 DEF LegInv, LegTurn
<1>3. \A s \in Detected : leg'[s].amd = "done"
  <2>1. ASSUME NEW s \in Sids, NEW r \in Leg, leg' = [leg EXCEPT ![s] = r],
               Turned(s, r) \/ Begun(s, r) \/ Dropped(s, r)
        PROVE  \A t \in Detected : leg'[t].amd = "done"
    <3>1. s \in Detected => r.amd = "done"
      <4>1. s \in Detected => leg[s].amd = "done" /\ leg[s].st \notin {"unused", "placing"}
        BY DEF LegInv, Fit
      <4>2. s \in Detected => ~Reuse(s)  BY DEF Reuse, Spent, Detected
      <4> QED BY <2>1, <4>1, <4>2 DEF Turned, Begun, Dropped
    <3> QED BY <1>1, <2>1, <3>1 DEF LegInv
  <2> QED BY <1>1, <2>1 DEF LegTurn, LegInv
<1> QED BY <1>2, <1>3 DEF LegInv

LEMMA NoLegFits == Fit(NoLeg)  BY DEF Fit, NoLeg, Placed

\* A leg whose record becomes r.
LEMMA Turning ==
    ASSUME NEW s \in Sids, NEW r \in Leg, leg' = [leg EXCEPT ![s] = r], Fit(r), Turned(s, r)
    PROVE  LegTurn
  BY DEF LegTurn

\* A call that is up ends.
LEMMA EndTurns ==
    ASSUME LegInv, NEW s \in Sids, NEW how \in {"zero"} \cup Terminal,
           NEW kid \in {"none"} \cup Terminal, leg' = Ended(s, how, kid),
           leg[s].st \notin {"unused", "placing", "ended"},
           leg[s].voice => "lateVoice" \in Hazards \/ s \in hangups,
           how \in {"zero", "no-answer"} => leg[s].amd \in {"off", "pending"}
    PROVE  LegTurn
<1> DEFINE r == [leg[s] EXCEPT !.st = "ended", !.end = how, !.kid = kid]
<1>1. leg[s] \in Leg /\ Fit(leg[s])  BY DEF LegInv, TypeInv, TypeOK, TwilioTypes
<1>2. /\ r \in Leg /\ r.st = "ended" /\ r.end = how /\ r.kid = kid
      /\ r.lead = leg[s].lead /\ r.att = leg[s].att /\ r.amd = leg[s].amd
      /\ r.voice = leg[s].voice /\ r.resp = leg[s].resp
  BY <1>1 DEF Leg, LegStates
<1>3. leg' = [leg EXCEPT ![s] = r]  BY DEF Ended
<1> HIDE DEF r
<1>4. Fit(r)  BY <1>1, <1>2 DEF Fit, Placed, Terminal
<1>5. Turned(s, r)  BY <1>1, <1>2 DEF Turned, Placed, OnItsWay
<1> QED BY <1>2, <1>3, <1>4, <1>5, Turning

LEMMA TelephonyTurns == ASSUME LegInv, Telephony PROVE LegTurn
<1>1. PICK s \in Sids :
        \/ Answer(s) \/ NotAnswered(s)
        \/ AmdResult(s, "human") \/ AmdResult(s, "machine")
        \/ AgentAnswers(s) \/ AgentDoesNotAnswer(s)
        \/ HangUp(s) \/ DropAtOnce(s)
        \/ HangupLands(s) \/ PromptLost(s) \/ FinalWebhooksLost(s)
  BY DEF Telephony
<1>2. leg[s] \in Leg /\ Fit(leg[s])  BY DEF LegInv, TypeInv, TypeOK, TwilioTypes
<1>3. KidEnd(s) \in {"none"} \cup Terminal  BY DEF KidEnd, Terminal
<1>4. CASE Answer(s)
  <2> DEFINE r == [leg[s] EXCEPT !.st = "answered", !.voice = TRUE]
  <2>1. /\ r \in Leg /\ r.st = "answered" /\ r.voice
        /\ r.lead = leg[s].lead /\ r.att = leg[s].att /\ r.amd = leg[s].amd
        /\ r.resp = leg[s].resp /\ r.end = leg[s].end /\ r.kid = leg[s].kid
    BY <1>2 DEF Leg, LegStates
  <2>2. leg[s].st = "ringing" /\ leg' = [leg EXCEPT ![s] = r]  BY <1>4 DEF Answer
  <2> HIDE DEF r
  <2>3. Fit(r)  BY <1>2, <2>1, <2>2 DEF Fit, Placed
  <2>4. Turned(s, r)  BY <1>2, <2>1, <2>2 DEF Turned, Placed, OnItsWay
  <2> QED BY <2>1, <2>2, <2>3, <2>4, Turning
<1>5. CASE NotAnswered(s)
  BY <1>2, <1>5, EndTurns DEF NotAnswered, Terminal, Fit, Leg
<1>6. ASSUME NEW v \in {"human", "machine"}, AmdResult(s, v)  PROVE LegTurn
  <2> DEFINE r == [leg[s] EXCEPT !.amd = v]
  <2>1. /\ r \in Leg /\ r.amd = v /\ r.st = leg[s].st /\ r.voice = leg[s].voice
        /\ r.lead = leg[s].lead /\ r.att = leg[s].att
        /\ r.resp = leg[s].resp /\ r.end = leg[s].end /\ r.kid = leg[s].kid
    BY <1>2 DEF Leg
  <2>2. leg[s].st = "held" /\ leg[s].amd = "pending" /\ leg' = [leg EXCEPT ![s] = r]
    BY <1>6 DEF AmdResult
  <2> HIDE DEF r
  <2>3. Fit(r)  BY <1>2, <2>1, <2>2 DEF Fit, Placed
  <2>4. Turned(s, r)  BY <1>2, <2>1, <2>2 DEF Turned, Placed, OnItsWay
  <2> QED BY <2>1, <2>2, <2>3, <2>4, Turning
<1>7. CASE AgentAnswers(s)
  <2> DEFINE r == [leg[s] EXCEPT !.st = "talking", !.spoke = TRUE]
  <2>1. /\ r \in Leg /\ r.st = "talking" /\ r.voice = leg[s].voice
        /\ r.lead = leg[s].lead /\ r.att = leg[s].att /\ r.amd = leg[s].amd
        /\ r.resp = leg[s].resp /\ r.end = leg[s].end /\ r.kid = leg[s].kid
    BY <1>2 DEF Leg, LegStates
  <2>2. leg[s].st = "bridging" /\ leg' = [leg EXCEPT ![s] = r]  BY <1>7 DEF AgentAnswers
  <2> HIDE DEF r
  <2>3. Fit(r)  BY <1>2, <2>1, <2>2 DEF Fit, Placed
  <2>4. Turned(s, r)  BY <1>2, <2>1, <2>2 DEF Turned, Placed, OnItsWay
  <2> QED BY <2>1, <2>2, <2>3, <2>4, Turning
<1>8. CASE AgentDoesNotAnswer(s)
  BY <1>2, <1>8, EndTurns DEF AgentDoesNotAnswer, Terminal, Fit
<1>9. CASE HangUp(s)
  BY <1>2, <1>3, <1>9, EndTurns DEF HangUp, Terminal
<1>10. CASE DropAtOnce(s)
  BY <1>2, <1>3, <1>10, EndTurns DEF DropAtOnce, Fit, Leg
<1>11. CASE HangupLands(s)
  <2>1. CASE LiveLeg(s)
    BY <1>2, <1>3, <1>11, <2>1, EndTurns DEF HangupLands, Terminal, LiveLeg
  <2>2. CASE ~LiveLeg(s)  BY <1>11, <2>2 DEF HangupLands, LegTurn
  <2> QED BY <2>1, <2>2
<1>12. CASE PromptLost(s)
  <2> DEFINE r == [leg[s] EXCEPT !.spoke = FALSE]
  <2>1. /\ r \in Leg /\ r.st = leg[s].st /\ r.voice = leg[s].voice
        /\ r.lead = leg[s].lead /\ r.att = leg[s].att /\ r.amd = leg[s].amd
        /\ r.resp = leg[s].resp /\ r.end = leg[s].end /\ r.kid = leg[s].kid
    BY <1>2 DEF Leg
  <2>2. leg[s].st = "ended" /\ leg' = [leg EXCEPT ![s] = r]  BY <1>12 DEF PromptLost
  <2> HIDE DEF r
  <2>3. Fit(r)  BY <1>2, <2>1, <2>2 DEF Fit, Placed
  <2>4. Turned(s, r)  BY <1>2, <2>1, <2>2 DEF Turned, Placed, OnItsWay
  <2> QED BY <2>1, <2>2, <2>3, <2>4, Turning
<1>13. CASE FinalWebhooksLost(s)
  <2> DEFINE r == [leg[s] EXCEPT !.end = "none", !.kid = "none"]
  <2>1. /\ r \in Leg /\ r.st = leg[s].st /\ r.voice = leg[s].voice
        /\ r.lead = leg[s].lead /\ r.att = leg[s].att /\ r.amd = leg[s].amd
        /\ r.resp = leg[s].resp /\ r.end = "none" /\ r.kid = "none"
    BY <1>2 DEF Leg
  <2>2. leg[s].st = "ended" /\ leg' = [leg EXCEPT ![s] = r]  BY <1>13 DEF FinalWebhooksLost
  <2> HIDE DEF r
  <2>3. Fit(r)  BY <1>2, <2>1, <2>2 DEF Fit, Placed
  <2>4. Turned(s, r)  BY <1>2, <2>1, <2>2 DEF Turned, Placed, OnItsWay
  <2> QED BY <2>1, <2>2, <2>3, <2>4, Turning
<1> QED BY <1>1, <1>4, <1>5, <1>6, <1>7, <1>8, <1>9, <1>10, <1>11, <1>12, <1>13

\* The leads a batch takes off the queue, and their cards.
Taken(b, n) == {b[i] : i \in 1 .. n}
Cards(b, n) == [i \in 1 .. n |-> [lead |-> b[i], att |-> userQueue[b[i]]]]

\* What PumpTakesBatch does, for a batch of n different leads.
LEMMA TakenBatch ==
    ASSUME TypeInv, PumpTakesBatch
    PROVE  \E n \in Nat \ {0} : \E b \in [1 .. n -> Queued(userQueue)] :
             /\ n <= Room
             /\ \A i, k \in 1 .. n : i # k => b[i] # b[k]
             /\ Cards(b, n) \in Seq(Card) /\ Cards(b, n)[1] \in Card
             /\ userQueue' = RemoveWhere(userQueue, Taken(b, n))
             /\ IF stopped
                THEN /\ leadsInFlight' = leadsInFlight \cup Taken(b, n)
                     /\ pump' = [stage |-> "idle", batch |-> <<>>]
                     /\ UNCHANGED <<leg, machineLeads>>
                ELSE /\ MakeCall(Cards(b, n)[1], leadsInFlight \cup Taken(b, n))
                     /\ pump' = [stage |-> "firing", batch |-> Tail(Cards(b, n))]
<1> DEFINE size == Cardinality(Queued(userQueue))
           n == IF Room < size THEN Room ELSE size
<1>1. n \in Nat \ {0} /\ n <= Room
  <2>1. IsFiniteSet(Queued(userQueue))  BY FS_Subset, DialerAssumption DEF Queued
  <2>2. size \in Nat /\ Room \in Int  BY <2>1, FS_CardinalityType, RoomType DEF TypeInv
  <2>3. n > 0  BY DEF PumpTakesBatch
  <2> QED BY <2>2, <2>3
<1>2. PICK b \in Firsts(userQueue, n) :
        /\ userQueue' = RemoveWhere(userQueue, Taken(b, n))
        /\ IF stopped
           THEN /\ leadsInFlight' = leadsInFlight \cup Taken(b, n)
                /\ pump' = [stage |-> "idle", batch |-> <<>>]
                /\ UNCHANGED <<leg, machineLeads>>
           ELSE /\ MakeCall(Cards(b, n)[1], leadsInFlight \cup Taken(b, n))
                /\ pump' = [stage |-> "firing", batch |-> Tail(Cards(b, n))]
  BY DEF PumpTakesBatch, Taken, Cards
<1> HIDE DEF n
<1>3. b \in [1 .. n -> Queued(userQueue)] /\ \A i, k \in 1 .. n : i # k => b[i] # b[k]
  <2>1. b \in [1 .. n -> Queued(userQueue)] /\ \A i, k \in 1 .. n : i < k => b[i] # b[k]
    BY DEF Firsts
  <2>2. \A i, k \in 1 .. n : i # k => i < k \/ k < i  BY <1>1
  <2> QED BY <2>1, <2>2
<1>4. Cards(b, n) \in Seq(Card)  BY <1>1, BatchType DEF TypeInv, Cards
<1>5. Cards(b, n)[1] \in Card
  <2>1. 1 \in 1 .. n /\ DOMAIN Cards(b, n) = 1 .. n  BY <1>1 DEF Cards
  <2>2. Len(Cards(b, n)) = n  BY <1>1, <1>4, <2>1
  <2> QED BY <1>1, <1>4, <2>2
<1> QED BY <1>1, <1>2, <1>3, <1>4, <1>5

\* makeCall up to the answer of calls.create.
LEMMA MakeCallTurns ==
    ASSUME LegInv, NEW card \in Card, NEW f, MakeCall(card, f), PumpTakesBatch \/ PumpFires
    PROVE  LegTurn
<1>1. ASSUME NEW s \in Sids, NEW mode \in AmdModes, leg[s].st = "unused",
             leg' = [leg EXCEPT ![s] =
                       [NoLeg EXCEPT !.st = "placing", !.lead = card.lead, !.att = card.att,
                                     !.amd = IF mode THEN "pending" ELSE "off"]]
      PROVE  LegTurn
  <2>1. PICK amd \in {"off", "pending"} :
          amd = (IF mode THEN "pending" ELSE "off") /\ (amd = "off" => FALSE \in AmdModes)
    BY DialerAssumption
  <2> DEFINE r == [NoLeg EXCEPT !.st = "placing", !.lead = card.lead, !.att = card.att,
                                !.amd = amd]
  <2>2. /\ r \in Leg /\ r.st = "placing" /\ r.amd = amd /\ ~r.voice /\ ~r.resp
        /\ r.end = "none" /\ r.kid = "none"
    BY <2>1 DEF Card, NoLeg, Leg, LegStates
  <2>3. leg' = [leg EXCEPT ![s] = r]  BY <1>1, <2>1
  <2>4. Begun(s, r)  BY <1>1, <2>1 DEF Begun
  <2> HIDE DEF r
  <2>5. Fit(r)  BY <2>1, <2>2 DEF Fit
  <2> QED BY <2>2, <2>3, <2>4, <2>5 DEF LegTurn
<1> QED BY <1>1 DEF MakeCall, LegTurn

LEMMA PumpTurns ==
    ASSUME LegInv, PumpGivesUp \/ PumpTakesBatch \/ PumpFires \/ PumpEnds PROVE LegTurn
<1>1. CASE PumpGivesUp \/ PumpEnds  BY <1>1 DEF PumpGivesUp, PumpEnds, LegTurn
<1>2. CASE PumpTakesBatch
  <2>1. CASE UNCHANGED leg  BY <2>1 DEF LegTurn
  <2>2. CASE leg' # leg
    <3>1. PICK card \in Card : \E f : MakeCall(card, f)
      BY <1>2, <2>2, TakenBatch DEF LegInv
    <3> QED BY <1>2, <3>1, MakeCallTurns
  <2> QED BY <2>1, <2>2
<1>3. CASE PumpFires
  <2>1. pump.batch \in Seq(Card) /\ pump.batch # <<>>
    BY <1>3 DEF PumpFires, LegInv, TypeInv, TypeOK, QueueTypes
  <2>2. Head(pump.batch) \in Card  BY <2>1
  <2>3. MakeCall(Head(pump.batch), leadsInFlight)  BY <1>3 DEF PumpFires
  <2> QED BY <1>3, <2>2, <2>3, MakeCallTurns
<1> QED BY <1>1, <1>2, <1>3

LEMMA CreateTurns ==
    ASSUME LegInv, NEW s \in Sids,
           SlowCreate(s) \/ CallCreated(s) \/ DialBlocked(s) \/ DialFrozen(s) \/ DialFails(s)
    PROVE  LegTurn
<1>1. leg[s] \in Leg /\ Fit(leg[s])  BY DEF LegInv, TypeInv, TypeOK, TwilioTypes
<1>2. CASE DialBlocked(s) \/ DialFrozen(s) \/ DialFails(s)
  BY <1>2, NoLegType, NoLegFits DEF DialBlocked, DialFrozen, DialFails, Aborts, Dropped, LegTurn
<1>3. CASE SlowCreate(s)
  <2> DEFINE r == [leg[s] EXCEPT !.st = "ringing", !.resp = TRUE]
  <2>1. /\ r \in Leg /\ r.st = "ringing" /\ r.voice = leg[s].voice
        /\ r.lead = leg[s].lead /\ r.att = leg[s].att /\ r.amd = leg[s].amd
        /\ r.resp /\ r.end = leg[s].end /\ r.kid = leg[s].kid
    BY <1>1 DEF Leg, LegStates
  <2>2. leg[s].st = "placing" /\ leg' = [leg EXCEPT ![s] = r]  BY <1>3 DEF SlowCreate
  <2> HIDE DEF r
  <2>3. Fit(r)  BY <1>1, <2>1, <2>2 DEF Fit, Placed
  <2>4. Turned(s, r)  BY <1>1, <1>3, <2>1, <2>2 DEF Turned, Placed, OnItsWay, Fit
  <2> QED BY <2>1, <2>2, <2>3, <2>4, Turning
<1>4. CASE CallCreated(s) /\ ~leg[s].resp
  <2> DEFINE r == [leg[s] EXCEPT !.st = "ringing"]
  <2>1. /\ r \in Leg /\ r.st = "ringing" /\ r.voice = leg[s].voice
        /\ r.lead = leg[s].lead /\ r.att = leg[s].att /\ r.amd = leg[s].amd
        /\ r.resp = leg[s].resp /\ r.end = leg[s].end /\ r.kid = leg[s].kid
    BY <1>1 DEF Leg, LegStates
  <2>2. leg[s].st = "placing" /\ leg' = [leg EXCEPT ![s] = r]  BY <1>4 DEF CallCreated
  <2> HIDE DEF r
  <2>3. Fit(r)  BY <1>1, <2>1, <2>2 DEF Fit, Placed
  <2>4. Turned(s, r)  BY <1>1, <1>4, <2>1, <2>2 DEF Turned, Placed, OnItsWay, Fit
  <2> QED BY <2>1, <2>2, <2>3, <2>4, Turning
<1>5. CASE CallCreated(s) /\ leg[s].resp
  <2> DEFINE r == [leg[s] EXCEPT !.resp = FALSE]
  <2>1. /\ r \in Leg /\ r.st = leg[s].st /\ r.voice = leg[s].voice
        /\ r.lead = leg[s].lead /\ r.att = leg[s].att /\ r.amd = leg[s].amd
        /\ ~r.resp /\ r.end = leg[s].end /\ r.kid = leg[s].kid
    BY <1>1 DEF Leg
  <2>2. leg' = [leg EXCEPT ![s] = r]  BY <1>5 DEF CallCreated
  <2> HIDE DEF r
  <2>3. Fit(r)  BY <1>1, <2>1 DEF Fit, Placed
  <2>4. Turned(s, r)  BY <1>1, <1>5, <2>1 DEF Turned, Placed, OnItsWay, Fit
  <2> QED BY <2>1, <2>2, <2>3, <2>4, Turning
<1> QED BY <1>2, <1>3, <1>4, <1>5

\* The voice and AMD handlers.
LEMMA PlayTurns ==
    ASSUME LegInv, NEW s \in Sids, NEW from \in {"answered", "held"},
           NEW st \in {"held", "music", "bridging"}, NEW amd \in {leg[s].amd, "done"},
           leg' = [Play(s, from, st) EXCEPT ![s].amd = amd],
           leg[s].st \notin {"unused", "placing"},
           amd = "done" => leg[s].amd \in {"human", "machine", "done"},
           leg[s].amd = "human" => amd = "done",
           amd = "done" => from = "held",
           leg[s].st = "held" /\ leg[s].amd = "done" /\ from = "held" => BridgeLands(s),
           st = "bridging" /\ leg[s].st = from => VoiceBridges(s) \/ BridgeLands(s)
    PROVE  LegTurn
<1>1. leg[s] \in Leg /\ Fit(leg[s])  BY DEF LegInv, TypeInv, TypeOK, TwilioTypes
<1>2. CASE leg[s].st = from
  <2> DEFINE r == [leg[s] EXCEPT !.st = st, !.voice = FALSE, !.over = (st = "music"), !.amd = amd]
  <2>1. /\ r \in Leg /\ r.st = st /\ ~r.voice
        /\ r.lead = leg[s].lead /\ r.att = leg[s].att /\ r.amd = amd
        /\ r.resp = leg[s].resp /\ r.end = leg[s].end /\ r.kid = leg[s].kid
    BY <1>1 DEF Leg, LegStates
  <2>2. leg' = [leg EXCEPT ![s] = r]
    BY <1>2 DEF Play, LegInv, TypeInv, TypeOK, TwilioTypes
  <2> HIDE DEF r
  <2>3. Fit(r)  BY <1>1, <1>2, <2>1 DEF Fit, Placed
  <2>4. Turned(s, r)  BY <1>1, <1>2, <2>1 DEF Turned, Placed, OnItsWay, Fit
  <2> QED BY <2>1, <2>2, <2>3, <2>4, Turning
<1>3. CASE leg[s].st # from
  <2> DEFINE r == [leg[s] EXCEPT !.voice = FALSE, !.amd = amd]
  <2>1. /\ r \in Leg /\ r.st = leg[s].st /\ ~r.voice
        /\ r.lead = leg[s].lead /\ r.att = leg[s].att /\ r.amd = amd
        /\ r.resp = leg[s].resp /\ r.end = leg[s].end /\ r.kid = leg[s].kid
    BY <1>1 DEF Leg
  <2>2. leg' = [leg EXCEPT ![s] = r]
    BY <1>3 DEF Play, LegInv, TypeInv, TypeOK, TwilioTypes
  <2> HIDE DEF r
  <2>3. Fit(r)  BY <1>1, <2>1 DEF Fit, Placed
  <2>4. Turned(s, r)  BY <1>1, <2>1 DEF Turned, Placed, OnItsWay, Fit
  <2> QED BY <2>1, <2>2, <2>3, <2>4, Turning
<1> QED BY <1>2, <1>3

LEMMA PlainPlayTurns ==
    ASSUME LegInv, NEW s \in Sids, NEW from \in {"answered", "held"},
           NEW st \in {"held", "music", "bridging"},
           leg' = Play(s, from, st), leg[s].st \notin {"unused", "placing"},
           leg[s].amd # "human",
           leg[s].amd = "done" => from = "held",
           leg[s].st = "held" /\ leg[s].amd = "done" /\ from = "held" => BridgeLands(s),
           st = "bridging" /\ leg[s].st = from => VoiceBridges(s) \/ BridgeLands(s)
    PROVE  LegTurn
<1>1. leg[s] \in Leg  BY DEF LegInv, TypeInv, TypeOK, TwilioTypes
<1>2. leg' = [Play(s, from, st) EXCEPT ![s].amd = leg[s].amd]
  <2>1. CASE leg[s].st = from
    BY <1>1, <2>1 DEF Play, LegInv, TypeInv, TypeOK, TwilioTypes, Leg
  <2>2. CASE leg[s].st # from
    BY <1>1, <2>2 DEF Play, LegInv, TypeInv, TypeOK, TwilioTypes, Leg
  <2> QED BY <2>1, <2>2
<1> QED BY <1>2, PlayTurns

LEMMA BridgeTurns ==
    ASSUME LegInv, NEW s \in Sids,
           \/ VoiceHolds(s) \/ VoiceOverflows(s) \/ VoiceBridges(s)
           \/ HumanOverflows(s) \/ HumanBridges(s)
           \/ BridgeLands(s) \/ BridgeFails(s) \/ MachineDetected(s)
    PROVE  LegTurn
<1>1. leg[s] \in Leg /\ Fit(leg[s]) /\ Sound(leg[s])
  BY DEF LegInv, TypeInv, TypeOK, TwilioTypes
<1>2. CASE VoiceHolds(s) \/ VoiceOverflows(s) \/ VoiceBridges(s)
  <2>1. leg[s].voice  BY <1>2 DEF VoiceHolds, VoiceOverflows, VoiceBridges
  <2>2. /\ leg[s].st \in {"answered", "ended"} /\ leg[s].amd \notin {"human", "done"}
    BY <1>1, <2>1 DEF Fit
  <2> QED BY <1>2, <2>2, PlainPlayTurns DEF VoiceHolds, VoiceOverflows, VoiceBridges
<1> DEFINE Heard == leg' = [leg EXCEPT ![s].amd = "done"]
<1>3. CASE HumanOverflows(s) /\ ~Heard
  BY <1>1, <1>3, PlayTurns DEF HumanOverflows, Fit
<1>4. CASE HumanBridges(s) \/ MachineDetected(s) \/ (HumanOverflows(s) /\ Heard)
  <2> DEFINE r == [leg[s] EXCEPT !.amd = "done"]
  <2>1. /\ r \in Leg /\ r.st = leg[s].st /\ r.voice = leg[s].voice
        /\ r.lead = leg[s].lead /\ r.att = leg[s].att /\ r.amd = "done"
        /\ r.resp = leg[s].resp /\ r.end = leg[s].end /\ r.kid = leg[s].kid
    BY <1>1 DEF Leg
  <2>2. leg' = [leg EXCEPT ![s] = r] /\ leg[s].amd \in {"human", "machine"}
    BY <1>4 DEF HumanBridges, HumanOverflows, MachineDetected
  <2> HIDE DEF r
  <2>3. Fit(r)  BY <1>1, <2>1, <2>2 DEF Fit, Placed
  <2>4. Turned(s, r)  BY <1>1, <2>1, <2>2 DEF Turned, Placed, OnItsWay, Fit, Sound
  <2> QED BY <2>1, <2>2, <2>3, <2>4, Turning
<1>5. CASE BridgeLands(s)
  BY <1>1, <1>5, PlainPlayTurns DEF BridgeLands, LegInv, Detected
<1>6. CASE BridgeFails(s)  BY <1>6 DEF BridgeFails, LegTurn
<1> QED BY <1>2, <1>3, <1>4, <1>5, <1>6

LEMMA AllTurns == ASSUME LegInv, [Next]_vars PROVE LegTurn
<1>1. CASE UNCHANGED vars  BY <1>1 DEF vars, LegTurn
<1>2. ASSUME NEW s \in Sids, Reuse(s)  PROVE LegTurn
  <2>1. leg' = [leg EXCEPT ![s] = NoLeg]  BY <1>2 DEF Reuse
  <2>2. Dropped(s, NoLeg)  BY <1>2 DEF Dropped
  <2> QED BY <2>1, <2>2, NoLegType, NoLegFits DEF LegTurn
<1>3. CASE Dialing  BY <1>3, PumpTurns, CreateTurns DEF Dialing
<1>4. CASE BridgeWebhooks
  <2>1. ASSUME NEW k \in skipping, SkipMachine(k)  PROVE LegTurn
    BY <2>1 DEF SkipMachine, LegTurn
  <2> QED BY <1>4, <2>1, BridgeTurns DEF BridgeWebhooks
<1>5. CASE Telephony  BY <1>5, TelephonyTurns
<1>6. CASE StatusWebhooks \/ Watchdog \/ StaleLock \/ Redialing \/ Session
  <2>1. UNCHANGED leg
    BY <1>6 DEF StatusWebhooks, CallProgress, AgentLegAnswered, AgentLegEnded, CallEnded,
                Watchdog, WatchdogFetches, WatchdogSweeps, StaleLock, Redialing,
                RedialTimerFires, RequeueDropped, RequeueEnters, RequeueThrows, Session,
                StartBegins, StartSaved, StartAborts, StartFills, StopDialing, AgentReady,
                PurgeContact, TrimCards
  <2> QED BY <2>1 DEF LegTurn
<1>7. CASE \E j \in finishing : FinishStatus(j)  BY <1>7 DEF FinishStatus, LegTurn
<1> QED BY <1>1, <1>2, <1>3, <1>4, <1>5, <1>6, <1>7 DEF Next, Step

\* handleAmdStatus starts a job once the verdict has been handled.
LEMMA NewlyDetected ==
    ASSUME LegInv, [Next]_vars PROVE \A s \in Detected' \ Detected : leg'[s].amd = "done"
<1>1. CASE Dialing \/ StatusWebhooks \/ Redialing \/ Session \/ Watchdog \/ StaleLock
           \/ Telephony \/ UNCHANGED vars \/ \E s \in Sids : Reuse(s)
  <2>1. UNCHANGED <<bridging, skipping>>
    BY <1>1 DEF Dialing, PumpGivesUp, PumpTakesBatch, PumpFires, PumpEnds, SlowCreate,
                CallCreated, DialBlocked, DialFrozen, DialFails,
                StatusWebhooks, CallProgress, AgentLegAnswered, AgentLegEnded, CallEnded,
                Watchdog, WatchdogFetches, WatchdogSweeps, StaleLock, Redialing,
                RedialTimerFires, RequeueDropped, RequeueEnters, RequeueThrows, Session,
                StartBegins, StartSaved, StartAborts, StartFills, StopDialing, AgentReady,
                PurgeContact, TrimCards, Telephony, Answer, NotAnswered, AmdResult,
                AgentAnswers, AgentDoesNotAnswer, HangUp, DropAtOnce, HangupLands,
                PromptLost, FinalWebhooksLost, Reuse, vars
  <2> QED BY <2>1 DEF Detected
<1>2. CASE \E j \in finishing : FinishStatus(j)  BY <1>2 DEF FinishStatus, Detected
<1>3. ASSUME NEW k \in skipping, SkipMachine(k)
      PROVE  \A s \in Detected' \ Detected : leg'[s].amd = "done"
  BY <1>3 DEF SkipMachine, Detected
<1>4. ASSUME NEW s \in Sids,
             \/ VoiceHolds(s) \/ VoiceOverflows(s) \/ VoiceBridges(s)
             \/ HumanOverflows(s) \/ HumanBridges(s)
             \/ BridgeLands(s) \/ BridgeFails(s) \/ MachineDetected(s)
      PROVE  \A t \in Detected' \ Detected : leg'[t].amd = "done"
  <2>1. CASE HumanBridges(s) \/ MachineDetected(s)
    <3>1. leg'[s].amd = "done"
      BY <2>1 DEF HumanBridges, MachineDetected, LegInv, TypeInv, TypeOK, TwilioTypes, Leg
    <3>2. Detected' \subseteq Detected \cup {s}
      BY <2>1 DEF HumanBridges, MachineDetected, Detected
    <3> QED BY <3>1, <3>2
  <2>2. CASE ~(HumanBridges(s) \/ MachineDetected(s))
    BY <1>4, <2>2 DEF VoiceHolds, VoiceOverflows, VoiceBridges, HumanOverflows,
                      BridgeLands, BridgeFails, Detected
  <2> QED BY <2>1, <2>2
<1> QED BY <1>1, <1>2, <1>3, <1>4 DEF Next, Step, BridgeWebhooks

LEMMA LegInit == Init => LegInv
  BY TypeInit, NoLegFits DEF Init, LegInv, Detected

LEMMA LegNext == ASSUME LegInv, [Next]_vars PROVE LegInv' /\ LegTurn
  BY AllTurns, LegFits, NewlyDetected, TypeNext DEF LegInv

-----------------------------------------------------------------------------
(* The lock: its inductive invariant.                                       *)

LockConsistent == agentBusyState <=> agentBridgedCallId # None

\* The lock owner was answered, and is past answering-machine detection: the
\* machine branch of handleAmdStatus cannot forget the call the agent is on.
OwnerPast == agentBridgedCallId # None => Past(leg[agentBridgedCallId])

LockInv == TypeInv /\ LockConsistent /\ OwnerPast /\ OrphanLockTerminated /\ PostCallIsFree

Forgets(s) == activeCalls[s] # 0 /\ activeCalls'[s] = 0

Quiet ==
    /\ UNCHANGED <<agentBusyState, agentBridgedCallId>>
    /\ agentPostCallState' => agentPostCallState
    /\ agentBridgedCallId # None =>
         /\ Forgets(agentBridgedCallId) => agentBridgedCallId \in processedTerminalSids'
         /\ agentBridgedCallId \in processedTerminalSids
               => agentBridgedCallId \in processedTerminalSids'

Frees == ~agentBusyState' /\ agentBridgedCallId' = None

Takes(s) ==
    /\ agentBridgedCallId \in {None, s}
    /\ agentBusyState' /\ agentBridgedCallId' = s
    /\ ~agentPostCallState'
    /\ activeCalls'[s] # 0
    /\ Past(leg'[s])

LockMoves == Quiet \/ Frees \/ \E s \in Sids : Takes(s)

LEMMA LockInvKept ==
    ASSUME LockInv, TypeInv', LegStep, LockMoves
    PROVE  LockInv'
<1>1. CASE Quiet
  <2>1. LockConsistent' /\ PostCallIsFree'
    BY <1>1 DEF Quiet, LockInv, LockConsistent, PostCallIsFree
  <2>2. agentBridgedCallId \in Sids \cup {None}
    BY DEF LockInv, TypeInv, TypeOK, LockTypes
  <2>3. OwnerPast'  BY <1>1, <2>2, LegKeeps DEF Quiet, LockInv, OwnerPast
  <2>4. OrphanLockTerminated'
    BY <1>1, <2>2 DEF Quiet, Forgets, LockInv, OrphanLockTerminated
  <2> QED BY <2>1, <2>3, <2>4 DEF LockInv
<1>2. CASE Frees
  BY <1>2 DEF Frees, LockInv, LockConsistent, OwnerPast, OrphanLockTerminated,
              PostCallIsFree
<1>3. ASSUME NEW s \in Sids, Takes(s)  PROVE LockInv'
  <2>1. s # None  BY DialerAssumption
  <2> QED BY <1>3, <2>1 DEF Takes, LockInv, LockConsistent, OwnerPast,
                            OrphanLockTerminated, PostCallIsFree
<1> QED BY <1>1, <1>2, <1>3 DEF LockMoves

-----------------------------------------------------------------------------
(* Every step is of one of the three kinds.                                 *)

\* A step that leaves the lock and the tracked calls alone.
LEMMA Unrelated ==
    ASSUME UNCHANGED <<agentBusyState, agentBridgedCallId, agentPostCallState,
                       activeCalls, processedTerminalSids>>
    PROVE  Quiet
  BY DEF Quiet, Forgets

LEMMA DialingLock == ASSUME LockInv, Dialing PROVE LockMoves
<1>1. CASE PumpGivesUp \/ PumpTakesBatch \/ PumpFires \/ PumpEnds
  BY <1>1, Unrelated DEF PumpGivesUp, PumpTakesBatch, PumpFires, PumpEnds, LockMoves
<1>2. ASSUME NEW s \in Sids, SlowCreate(s) \/ DialBlocked(s) \/ DialFrozen(s) \/ DialFails(s)
      PROVE  LockMoves
  BY <1>2, Unrelated DEF SlowCreate, DialBlocked, DialFrozen, DialFails, LockMoves
<1>3. ASSUME NEW s \in Sids, CallCreated(s)  PROVE LockMoves
  <2>1. \A t \in Sids : ~Forgets(t)
    BY <1>3 DEF CallCreated, Forgets, LockInv, TypeInv, TypeOK, CallTypes
  <2> QED BY <1>3, <2>1 DEF CallCreated, Quiet, LockMoves, LockInv, TypeInv, TypeOK, LockTypes
<1> QED BY <1>1, <1>2, <1>3 DEF Dialing

\* A final status: the owner's frees the lock, the last call's frees an orphan,
\* and any other leaves it; the call it forgets joins processedTerminalSids.
LEMMA FinishLock == ASSUME LockInv, NEW j \in finishing, FinishStatus(j) PROVE LockMoves
<1>1. CASE ReleaseOwner(j) \/ ReleaseOrphan(j)
  BY <1>1 DEF ReleaseOwner, ReleaseOrphan, Release, Frees, LockMoves
<1>2. CASE UNCHANGED lockVars
  <2>1. \A t \in Sids : Forgets(t) => t \in processedTerminalSids'
    BY DEF FinishStatus, TerminalStatus, Forgets, LockInv, TypeInv, TypeOK, CallTypes
  <2>2. processedTerminalSids \subseteq processedTerminalSids'
    BY DEF FinishStatus, TerminalStatus
  <2>3. agentBridgedCallId \in Sids \cup {None}
    BY DEF LockInv, TypeInv, TypeOK, LockTypes
  <2> QED BY <1>2, <2>1, <2>2, <2>3 DEF Quiet, LockMoves
<1> QED BY <1>1, <1>2 DEF FinishStatus, TerminalStatus

LEMMA BridgeLock ==
    ASSUME LockInv, NEW s \in Sids,
           \/ VoiceHolds(s) \/ VoiceOverflows(s) \/ VoiceBridges(s)
           \/ HumanOverflows(s) \/ HumanBridges(s)
           \/ BridgeLands(s) \/ BridgeFails(s) \/ MachineDetected(s)
    PROVE  LockMoves
<1>1. /\ leg[s] \in Leg /\ Sound(leg[s]) /\ leg \in [Sids -> Leg]
      /\ activeCalls \in [Sids -> 0 .. 2]
      /\ agentBridgedCallId \in Sids \cup {None}
  BY DEF LockInv, TypeInv, TypeOK, TwilioTypes, CallTypes, LockTypes
<1>2. ASSUME Bridged(s)  PROVE activeCalls'[s] # 0 /\ \A t \in Sids : ~Forgets(t)
  BY <1>1, <1>2 DEF Bridged, Forgets
<1>3. ASSUME Acquire(s), Bridged(s), Past(leg'[s]), ~agentPostCallState,
             UNCHANGED <<agentPostCallState, processedTerminalSids>>
      PROVE  LockMoves
  <2>1. CASE agentBridgedCallId \in {None, s}
    BY <1>2, <1>3, <2>1 DEF Acquire, Takes, LockMoves
  <2>2. CASE agentBridgedCallId \notin {None, s}
    BY <1>1, <1>2, <1>3, <2>2 DEF Acquire, Quiet, LockMoves
  <2> QED BY <2>1, <2>2
<1>4. CASE VoiceBridges(s)
  <2>1. Past(leg'[s])
    <3>1. Past(leg[s])  BY <1>1, <1>4 DEF VoiceBridges, Sound, Past
    <3>2. CASE leg[s].st = "answered"
      <4>1. leg'[s] = [leg[s] EXCEPT !.st = "bridging", !.voice = FALSE,
                                     !.over = ("bridging" = "music")]
        BY <1>1, <1>4, <3>2 DEF VoiceBridges, Play
      <4> QED BY <1>1, <3>1, <4>1 DEF Leg, Past, Placed
    <3>3. CASE leg[s].st # "answered"
      <4>1. leg'[s] = [leg[s] EXCEPT !.voice = FALSE]
        BY <1>1, <1>4, <3>3 DEF VoiceBridges, Play
      <4> QED BY <1>1, <3>1, <4>1 DEF Leg, Past, Placed
    <3> QED BY <3>2, <3>3
  <2> QED BY <1>3, <1>4, <2>1 DEF VoiceBridges, ActuallyBusy
<1>5. CASE HumanBridges(s)
  <2>1. CASE activeCalls[s] = 0
    BY <1>5, <2>1, Unrelated DEF HumanBridges, LockMoves
  <2>2. CASE activeCalls[s] # 0
    <3>1. leg'[s] = [leg[s] EXCEPT !.amd = "done"]  BY <1>1, <1>5 DEF HumanBridges
    <3>2. Placed(leg[s])  BY <1>1, <1>5 DEF HumanBridges, Sound
    <3>3. Past(leg'[s])  BY <1>1, <3>1, <3>2 DEF Leg, Past, Placed
    <3> QED BY <1>3, <1>5, <2>2, <3>3 DEF HumanBridges, AgentTaken
  <2> QED BY <2>1, <2>2
<1>6. CASE BridgeFails(s)  BY <1>6 DEF BridgeFails, Release, Frees, LockMoves
<1>7. CASE MachineDetected(s)
  <2>1. agentBridgedCallId # s
    BY <1>7, DialerAssumption DEF MachineDetected, LockInv, OwnerPast, Past
  <2>2. \A t \in Sids : Forgets(t) => t = s  BY <1>1, <1>7 DEF MachineDetected, Forgets
  <2> QED BY <1>1, <1>7, <2>1, <2>2 DEF MachineDetected, Quiet, LockMoves
<1>8. CASE VoiceHolds(s) \/ VoiceOverflows(s) \/ HumanOverflows(s) \/ BridgeLands(s)
  BY <1>8, Unrelated
  DEF VoiceHolds, VoiceOverflows, HumanOverflows, BridgeLands, LockMoves
<1> QED BY <1>4, <1>5, <1>6, <1>7, <1>8

LEMMA SessionLock == ASSUME LockInv, Session PROVE LockMoves
<1>1. CASE StartBegins \/ StopDialing
  BY <1>1 DEF StartBegins, StopDialing, Release, Frees, LockMoves
<1>2. CASE StartSaved \/ StartAborts \/ StartFills \/ \E s \in Sids : AgentReady(s)
  BY <1>2 DEF StartSaved, StartAborts, StartFills, AgentReady, Quiet, Forgets, LockMoves
<1>3. ASSUME NEW c \in Contacts, PurgeContact(c)  PROVE LockMoves
  <2>1. agentBridgedCallId # None => ~Forgets(agentBridgedCallId)
    <3>1. agentBridgedCallId \in Sids \cup {None}
      BY DEF LockInv, TypeInv, TypeOK, LockTypes
    <3> QED BY <1>3, <3>1 DEF PurgeContact, Forgets
  <2> QED BY <1>3, <2>1 DEF PurgeContact, Quiet, LockMoves
<1>4. CASE \E l \in Leads : TrimCards(l)
  BY <1>4, Unrelated DEF TrimCards, LockMoves
<1> QED BY <1>1, <1>2, <1>3, <1>4 DEF Session

LEMMA WatchdogLock == ASSUME LockInv, Watchdog \/ StaleLock PROVE LockMoves
<1>1. ASSUME NEW s \in Sids, WatchdogFetches(s)  PROVE LockMoves
  BY <1>1, Unrelated DEF WatchdogFetches, LockMoves
<1>2. ASSUME NEW graceOver \in BOOLEAN, WatchdogSweeps(graceOver)  PROVE LockMoves
  <2>1. CASE agentBusyState /\ LockOwnerStale
    BY <1>2, <2>1 DEF WatchdogSweeps, Release, Frees, LockMoves
  <2>2. CASE ~(agentBusyState /\ LockOwnerStale)
    BY <1>2, <2>2 DEF WatchdogSweeps, Quiet, Forgets, LockMoves
  <2> QED BY <2>1, <2>2
<1>3. CASE StaleLock  BY <1>3 DEF StaleLock, Release, Frees, LockMoves
<1> QED BY <1>1, <1>2, <1>3 DEF Watchdog

LEMMA OthersLock ==
    ASSUME LockInv,
           \/ StatusWebhooks \/ Redialing \/ Telephony
           \/ \E k \in skipping : SkipMachine(k)
    PROVE  LockMoves
<1>1. UNCHANGED <<activeCalls, processedTerminalSids, lockVars>>
  BY DEF SkipMachine, StatusWebhooks, CallProgress, AgentLegAnswered, AgentLegEnded, CallEnded,
         Redialing, RedialTimerFires, RequeueDropped, RequeueEnters, RequeueThrows,
         Telephony, Answer, NotAnswered, AmdResult, AgentAnswers, AgentDoesNotAnswer,
         HangUp, DropAtOnce, HangupLands, PromptLost, FinalWebhooksLost
<1> QED BY <1>1, Unrelated DEF LockMoves

\* A slot that is reused does not hold the lock.
LEMMA ReuseLock == ASSUME LockInv, NEW s \in Sids, Reuse(s) PROVE LockMoves
  BY DEF Reuse, Spent, Quiet, Forgets, LockMoves

LEMMA LockInit == Init => LockInv
  BY TypeInit DEF Init, LockInv, LockConsistent, OwnerPast, OrphanLockTerminated, PostCallIsFree

LEMMA LockNext == LockInv /\ [Next]_vars => LockInv'
<1> SUFFICES ASSUME LockInv, [Next]_vars PROVE LockInv'  OBVIOUS
<1>1. TypeInv' /\ LegStep  BY TypeNext, AllLegs DEF LockInv
<1>2. LockMoves
  <2>1. CASE UNCHANGED vars  BY <2>1, Unrelated DEF vars, LockMoves
  <2>2. CASE \E s \in Sids : Reuse(s)  BY <2>2, ReuseLock
  <2>3. CASE \E j \in finishing : FinishStatus(j)  BY <2>3, FinishLock
  <2>4. CASE Step
    BY <2>4, DialingLock, BridgeLock, SessionLock, WatchdogLock, OthersLock
    DEF Step, BridgeWebhooks
  <2> QED BY <2>1, <2>2, <2>3, <2>4 DEF Next
<1> QED BY <1>1, <1>2, LockInvKept

-----------------------------------------------------------------------------
(* The theorems about the lock. *)

\* A lock whose owner is not tracked belongs to a call whose end has been
\* processed: step 2 of reconcileUser may release it, as its comment claims.
THEOREM OrphansAreTerminated == Spec => []OrphanLockTerminated
<1>1. LockInv => OrphanLockTerminated  BY DEF LockInv
<1> QED BY <1>1, LockInit, LockNext, PTL DEF Spec

\* An agent in post-call holds no call, however webhooks and prompts interleave.
THEOREM PostCallHoldsNoCall == Spec => []PostCallIsFree
<1>1. LockInv => PostCallIsFree  BY DEF LockInv
<1> QED BY <1>1, LockInit, LockNext, PTL DEF Spec

-----------------------------------------------------------------------------
(* Calls that are over.  What the service has heard of the end of a call is  *)
(* so, and stays so until the slot is spent.                                *)

OverInv ==
    /\ LegInv
    /\ \A s \in processedTerminalSids : leg[s].st = "ended"
    /\ \A s \in Sids, o \in 1 .. 2 : meta[s][o].status \in Terminal => leg[s].st = "ended"
    /\ \A j \in finishing : leg[j.sid].st = "ended"
    /\ Hazards \cap {"purge", "stop"} = {} => \A s \in hangups : leg[s].amd = "done"

CallsMove ==
    /\ processedTerminalSids' \subseteq processedTerminalSids \cup {j.sid : j \in finishing}
    /\ \A s \in Sids, o \in 1 .. 2 :
         meta'[s][o].status \in Terminal => meta[s][o].status \in Terminal \/ leg[s].st = "ended"
    /\ \A j \in finishing' \ finishing : leg[j.sid].st = "ended"
    /\ Hazards \cap {"purge", "stop"} = {} => hangups' \ hangups \subseteq Detected
    /\ \A s \in hangups \ hangups' : leg'[s].st \notin {"bridging", "talking"}

\* An ended leg stays ended, a detected one detected, until the slot is spent.
LEMMA EndedStays ==
    ASSUME LegInv, LegTurn, NEW s \in Sids
    PROVE  /\ leg[s].st = "ended" => leg'[s].st = "ended" \/ Reuse(s)
           /\ leg[s].amd = "done" => leg'[s].amd = "done" \/ Reuse(s)
<1>1. leg \in [Sids -> Leg] /\ Fit(leg[s])  BY DEF LegInv, TypeInv, TypeOK, TwilioTypes
<1>2. ASSUME NEW t \in Sids, NEW r \in Leg, leg' = [leg EXCEPT ![t] = r],
             Turned(t, r) \/ Begun(t, r) \/ Dropped(t, r)
      PROVE  /\ leg[s].st = "ended" => leg'[s].st = "ended" \/ Reuse(s)
             /\ leg[s].amd = "done" => leg'[s].amd = "done" \/ Reuse(s)
  <2>1. CASE t # s  BY <1>1, <1>2, <2>1
  <2>2. CASE t = s
    <3>1. leg'[s] = r  BY <1>1, <1>2, <2>2
    <3>2. CASE Turned(s, r)  BY <3>1, <3>2 DEF Turned
    <3>3. CASE Begun(s, r)  BY <1>1, <3>3 DEF Begun, Fit
    <3>4. CASE Dropped(s, r)  BY <1>1, <3>4 DEF Dropped, Fit
    <3> QED BY <1>2, <2>2, <3>2, <3>3, <3>4
  <2> QED BY <2>1, <2>2
<1> QED BY <1>2 DEF LegTurn

LEMMA OverKept == ASSUME OverInv, LegInv', LegTurn, CallsMove PROVE OverInv'
<1>1. /\ processedTerminalSids \subseteq Sids /\ hangups \subseteq Sids /\ Detected \subseteq Sids
      /\ \A j \in finishing : j.sid \in Sids
  BY DEF OverInv, LegInv, TypeInv, TypeOK, CallTypes, TwilioTypes, JobTypes, Finish, Skip,
         Detected
<1>2. \A s \in processedTerminalSids' : leg'[s].st = "ended"
  <2>1. ASSUME NEW s \in processedTerminalSids'  PROVE leg[s].st = "ended" /\ s \in Sids
    BY <1>1 DEF CallsMove, OverInv
  <2>2. \A s \in Sids : Reuse(s) => s \notin processedTerminalSids'  BY DEF Reuse
  <2> QED BY <2>1, <2>2, EndedStays DEF OverInv
<1>3. ASSUME NEW s \in Sids, NEW o \in 1 .. 2, meta'[s][o].status \in Terminal
      PROVE  leg'[s].st = "ended"
  <2>1. leg[s].st = "ended"  BY <1>3 DEF CallsMove, OverInv
  <2>2. ~Reuse(s)
    <3>1. Reuse(s) => meta'[s][o] = NewMeta
      BY DEF Reuse, OverInv, LegInv, TypeInv, TypeOK, CallTypes
    <3> QED BY <1>3, <3>1 DEF NewMeta, Terminal
  <2> QED BY <2>1, <2>2, EndedStays DEF OverInv
<1>4. ASSUME NEW j \in finishing'  PROVE leg'[j.sid].st = "ended"
  <2>1. leg[j.sid].st = "ended"  BY DEF CallsMove, OverInv
  <2>2. j.sid \in Sids /\ ~Reuse(j.sid)
    <3>1. j.sid \in Sids  BY DEF LegInv, TypeInv, TypeOK, JobTypes, Finish
    <3>2. Reuse(j.sid) => j \in finishing /\ \A i \in finishing : i.sid # j.sid
      BY DEF Reuse, Spent
    <3> QED BY <3>1, <3>2
  <2> QED BY <2>1, <2>2, EndedStays DEF OverInv
<1>5. ASSUME Hazards \cap {"purge", "stop"} = {}, NEW s \in hangups'
      PROVE  leg'[s].amd = "done"
  <2>1. s \in Sids /\ leg[s].amd = "done"  BY <1>1, <1>5 DEF CallsMove, OverInv, LegInv
  <2>2. ~Reuse(s)  BY DEF Reuse, Spent
  <2> QED BY <2>1, <2>2, EndedStays DEF OverInv
<1> QED BY <1>2, <1>3, <1>4, <1>5 DEF OverInv

\* A step that leaves the jobs and what is known of the calls alone.
LEMMA CallsKept ==
    ASSUME UNCHANGED <<processedTerminalSids, meta, finishing, hangups>> PROVE CallsMove
  BY DEF CallsMove

LEMMA StatusMoves ==
    ASSUME OverInv, NEW s \in Sids, NEW status, NEW child \in BOOLEAN,
           StatusArrives(s, status, child), status \in Terminal => leg[s].st = "ended",
           UNCHANGED <<processedTerminalSids, hangups>>
    PROVE  CallsMove
<1> DEFINE obj == activeCalls[s]
           old == meta[s][obj]
           kept == old.status = "callback" /\ status = "answered"
           new == [old EXCEPT !.status = IF kept THEN @
                                         ELSE IF status \in Terminal THEN status ELSE "live",
                              !.connected = @ \/ (child /\ status = "answered")]
<1>1. /\ obj \in 0 .. 2 /\ meta \in [Sids -> [1 .. 2 -> Meta]]
  BY DEF OverInv, LegInv, TypeInv, TypeOK, CallTypes
<1>2. \A t \in Sids, o \in 1 .. 2 :
        meta'[t][o].status \in Terminal => meta[t][o].status \in Terminal \/ leg[t].st = "ended"
  <2>1. CASE obj = 0  BY <2>1 DEF StatusArrives
  <2>2. CASE obj # 0
    <3>1. old \in Meta  BY <1>1, <2>2
    <3>2. new.status \in Terminal => leg[s].st = "ended"  BY <3>1 DEF Meta, Terminal
    <3>3. meta' = [meta EXCEPT ![s][obj] = new]  BY <2>2 DEF StatusArrives
    <3> HIDE DEF new
    <3> QED BY <1>1, <2>2, <3>2, <3>3
  <2> QED BY <2>1, <2>2
<1>3. \A j \in finishing' \ finishing : leg[j.sid].st = "ended"
  BY DEF StatusArrives, Report, Terminal
<1> QED BY <1>2, <1>3 DEF CallsMove

LEMMA MarkMoves ==
    ASSUME OverInv, NEW s \in Sids, NEW status \in {"callback", "machine"}, Mark(s, status),
           UNCHANGED <<processedTerminalSids, finishing, hangups>>
    PROVE  CallsMove
<1>1. activeCalls[s] \in 0 .. 2 /\ meta \in [Sids -> [1 .. 2 -> Meta]]
  BY DEF OverInv, LegInv, TypeInv, TypeOK, CallTypes
<1>2. \A t \in Sids, o \in 1 .. 2 :
        meta'[t][o].status \in Terminal => meta[t][o].status \in Terminal
  BY <1>1 DEF Mark, Meta, Terminal
<1> QED BY <1>2 DEF CallsMove

LEMMA BridgedMoves ==
    ASSUME OverInv, NEW s \in Sids, Bridged(s),
           UNCHANGED <<processedTerminalSids, finishing, hangups>>
    PROVE  CallsMove
<1> DEFINE m == [NewMeta EXCEPT !.known = activeCalls[s] # 0 /\ meta[s][activeCalls[s]].known]
<1>1. m.status = "live"  BY DEF NewMeta
<1>2. meta' = [meta EXCEPT ![s][2] = m]  BY DEF Bridged
<1> HIDE DEF m
<1>3. \A t \in Sids, o \in 1 .. 2 :
        meta'[t][o].status \in Terminal => meta[t][o].status \in Terminal
  BY <1>1, <1>2 DEF OverInv, LegInv, TypeInv, TypeOK, CallTypes, Terminal
<1> QED BY <1>3 DEF CallsMove

LEMMA CallsNext == ASSUME OverInv, [Next]_vars PROVE CallsMove
<1>1. ASSUME NEW s \in Sids, CallCreated(s)  PROVE CallsMove
  <2>1. \A t \in Sids, o \in 1 .. 2 :
          meta'[t][o].status \in Terminal => meta[t][o].status \in Terminal
    BY <1>1 DEF CallCreated, NewMeta, OverInv, LegInv, TypeInv, TypeOK, CallTypes, Terminal
  <2> QED BY <1>1, <2>1 DEF CallCreated, CallsMove
<1>2. CASE StatusWebhooks \/ \E s \in Sids : WatchdogFetches(s)
  <2>1. ASSUME NEW s \in Sids,
               \/ CallProgress(s, "ringing") \/ CallProgress(s, "answered")
               \/ AgentLegAnswered(s) \/ AgentLegEnded(s) \/ CallEnded(s) \/ WatchdogFetches(s)
        PROVE  CallsMove
    <3>1. Fit(leg[s])  BY DEF OverInv, LegInv
    <3> QED BY <2>1, <3>1, StatusMoves
            DEF CallProgress, AgentLegAnswered, AgentLegEnded, CallEnded, WatchdogFetches, Fit,
                Terminal
  <2> QED BY <1>2, <2>1 DEF StatusWebhooks
<1>3. ASSUME NEW j \in finishing, FinishStatus(j)  PROVE CallsMove
  BY <1>3 DEF FinishStatus, TerminalStatus, CallsMove
<1>4. ASSUME NEW s \in Sids,
             \/ VoiceHolds(s) \/ VoiceOverflows(s) \/ VoiceBridges(s)
             \/ HumanOverflows(s) \/ HumanBridges(s)
             \/ BridgeLands(s) \/ BridgeFails(s) \/ MachineDetected(s)
      PROVE  CallsMove
  <2>1. CASE VoiceOverflows(s) \/ HumanOverflows(s) \/ MachineDetected(s)
    BY <2>1, MarkMoves DEF VoiceOverflows, HumanOverflows, MachineDetected
  <2>2. CASE VoiceBridges(s) \/ (HumanBridges(s) /\ activeCalls[s] # 0)
    BY <2>2, BridgedMoves DEF VoiceBridges, HumanBridges
  <2>3. CASE VoiceHolds(s) \/ BridgeLands(s) \/ BridgeFails(s)
             \/ (HumanBridges(s) /\ activeCalls[s] = 0)
    BY <2>3, CallsKept DEF VoiceHolds, BridgeLands, BridgeFails, HumanBridges
  <2> QED BY <1>4, <2>1, <2>2, <2>3
<1>5. ASSUME NEW k \in skipping, SkipMachine(k)  PROVE CallsMove
  BY <1>5 DEF SkipMachine, CallsMove, Detected
<1>6. ASSUME NEW s \in Sids, Reuse(s)  PROVE CallsMove
  BY <1>6 DEF Reuse, CallsMove, NewMeta, OverInv, LegInv, TypeInv, TypeOK, CallTypes, Terminal
<1>7. CASE StopDialing \/ \E c \in Contacts : PurgeContact(c)
  BY <1>7 DEF StopDialing, PurgeContact, CallsMove
<1>8. ASSUME NEW s \in Sids, HangupLands(s)  PROVE CallsMove
  <2>1. leg'[s].st \notin {"bridging", "talking"}
    BY <1>8 DEF HangupLands, LiveLeg, Ended, OverInv, LegInv, TypeInv, TypeOK, TwilioTypes, Leg
  <2> QED BY <1>8, <2>1 DEF HangupLands, CallsMove
<1>9. CASE UNCHANGED <<processedTerminalSids, meta, finishing, hangups>>
  BY <1>9, CallsKept
<1>10. CASE Redialing \/ StartBegins \/ StartSaved \/ StartAborts \/ StartFills \/ StaleLock
            \/ \E s \in Sids : AgentReady(s)
  BY <1>10, CallsKept DEF Redialing, RedialTimerFires, RequeueDropped, RequeueEnters,
       RequeueThrows, StartBegins, StartSaved, StartAborts, StartFills, StaleLock, AgentReady
<1>11. CASE (\E l \in Leads : TrimCards(l)) \/ \E graceOver \in BOOLEAN : WatchdogSweeps(graceOver)
  BY <1>11, CallsKept DEF TrimCards, WatchdogSweeps
<1>12. CASE Dialing
  BY <1>1, <1>12, CallsKept
  DEF Dialing, PumpGivesUp, PumpTakesBatch, PumpFires, PumpEnds, SlowCreate, DialBlocked,
      DialFrozen, DialFails
<1>13. CASE Telephony
  BY <1>8, <1>13, CallsKept
  DEF Telephony, Answer, NotAnswered, AmdResult, AgentAnswers, AgentDoesNotAnswer, HangUp,
      DropAtOnce, PromptLost, FinalWebhooksLost
<1>14. CASE UNCHANGED vars  BY <1>9, <1>14 DEF vars
<1> QED BY <1>2, <1>3, <1>4, <1>5, <1>6, <1>7, <1>10, <1>11, <1>12, <1>13, <1>14
        DEF Next, Step, BridgeWebhooks, Session, Watchdog

LEMMA OverInit == Init => OverInv
  BY LegInit DEF Init, OverInv, NewMeta, Terminal

LEMMA OverNext == ASSUME OverInv, [Next]_vars PROVE OverInv' /\ LegTurn /\ CallsMove
  BY LegNext, CallsNext, OverKept DEF OverInv

-----------------------------------------------------------------------------
(* The agent is not taken from a call that is up.                            *)

Freeing ==
    \/ StartBegins \/ StopDialing \/ StaleLock
    \/ \E t \in Sids : BridgeFails(t)

\* A final report frees the owner of the lock, whose end it reports, or an owner
\* of whom no call is left: one that is not tracked, or is tracked as ended.
LEMMA FinishLasts ==
    ASSUME LockInv, OverInv, NEW j \in finishing, FinishStatus(j),
           NEW s \in Sids, agentBridgedCallId = s, agentBridgedCallId' # s
    PROVE  leg[s].st = "ended"
<1>1. j.sid \in Sids /\ leg[j.sid].st = "ended"
  BY DEF OverInv, LegInv, TypeInv, TypeOK, JobTypes, Finish
<1>2. CASE s = j.sid  BY <1>1, <1>2
<1>3. CASE s # j.sid
  <2>1. ReleaseOrphan(j) /\ ~HasOtherCalls(j.sid)
    BY <1>3 DEF FinishStatus, TerminalStatus, lockVars
  <2>2. CASE activeCalls[s] = 0
    <3>1. s # None  BY DialerAssumption
    <3> QED BY <2>2, <3>1 DEF LockInv, OrphanLockTerminated, OverInv
  <2>3. CASE activeCalls[s] # 0
    <3>1. CurrentStatus(s) \in Terminal  BY <1>3, <2>1, <2>3 DEF HasOtherCalls, Tracked
    <3>2. activeCalls[s] \in 1 .. 2
      BY <2>3 DEF LockInv, TypeInv, TypeOK, CallTypes
    <3> QED BY <3>1, <3>2 DEF CurrentStatus, OverInv
  <2> QED BY <2>2, <2>3
<1> QED BY <1>2, <1>3

LEMMA OwnerLasts ==
    ASSUME LockInv, OverInv, [Next]_vars,
           NEW s \in Sids, agentBridgedCallId = s, agentBridgedCallId' # s
    PROVE  leg[s].st = "ended" \/ Freeing
<1>0. s # None  BY DialerAssumption
<1>1. CASE \E j \in finishing : FinishStatus(j)  BY <1>1, FinishLasts
<1>2. ASSUME NEW graceOver \in BOOLEAN, WatchdogSweeps(graceOver)
      PROVE  leg[s].st = "ended"
  <2>1. LockOwnerStale  BY <1>2 DEF WatchdogSweeps
  <2> QED BY <1>0, <2>1
          DEF LockOwnerStale, LockInv, OrphanLockTerminated, OverInv, Tracked
<1>3. ASSUME NEW t \in Sids, VoiceBridges(t) \/ HumanBridges(t)  PROVE FALSE
  BY <1>0, <1>3 DEF VoiceBridges, HumanBridges, Acquire, ActuallyBusy, AgentTaken, LockInv,
                    LockConsistent
<1>4. ASSUME agentBridgedCallId' = agentBridgedCallId  PROVE FALSE  BY <1>4
<1>5. ~UNCHANGED vars /\ ~\E t \in Sids : Reuse(t)
  BY <1>4 DEF vars, lockVars, Reuse
<1>6. ~Dialing /\ ~Redialing /\ ~Telephony /\ ~StatusWebhooks
      /\ ~\E t \in Sids : WatchdogFetches(t)
  BY <1>4 DEF Dialing, PumpGivesUp, PumpTakesBatch, PumpFires, PumpEnds, SlowCreate,
     CallCreated, DialBlocked, DialFrozen, DialFails, lockVars,
     Redialing, RedialTimerFires, RequeueDropped, RequeueEnters, RequeueThrows,
     Telephony, Answer, NotAnswered, AmdResult, AgentAnswers, AgentDoesNotAnswer, HangUp,
     DropAtOnce, HangupLands, PromptLost, FinalWebhooksLost,
     StatusWebhooks, CallProgress, AgentLegAnswered, AgentLegEnded, CallEnded,
     WatchdogFetches
<1>7. ~StartSaved /\ ~StartAborts /\ ~StartFills /\ ~(\E t \in Sids : AgentReady(t))
      /\ ~(\E c \in Contacts : PurgeContact(c)) /\ ~\E l \in Leads : TrimCards(l)
  BY <1>4 DEF StartSaved, StartAborts, StartFills, AgentReady, PurgeContact, TrimCards, lockVars
<1>8. ASSUME NEW t \in Sids,
             \/ VoiceHolds(t) \/ VoiceOverflows(t) \/ HumanOverflows(t)
             \/ BridgeLands(t) \/ MachineDetected(t)
      PROVE  FALSE
  BY <1>4, <1>8 DEF VoiceHolds, VoiceOverflows, HumanOverflows, BridgeLands, MachineDetected,
                    lockVars
<1>9. ~\E k \in skipping : SkipMachine(k)  BY <1>4 DEF SkipMachine, lockVars
<1> QED BY <1>1, <1>2, <1>3, <1>5, <1>6, <1>7, <1>8, <1>9
        DEF Next, Step, BridgeWebhooks, Session, Watchdog, Freeing

\* A call keeps the agent until it ends: no report of another call, watchdog or
\* removal frees an agent who is on the phone.  Only a start, a stop, the
\* 60-minute rule and a failing redirect do (handleCallStatusUpdate, setAgentBusy).
THEOREM LockLasts == Spec => LockLastsTheCall
<1>1. LockInv /\ OverInv /\ [Next]_vars => LockInv' /\ OverInv'  BY LockNext, OverNext
<1>2. ASSUME LockInv, OverInv, [Next]_vars
      PROVE  \A s \in Sids : agentBridgedCallId = s /\ agentBridgedCallId' # s =>
               \/ leg[s].st = "ended"
               \/ StartBegins \/ StopDialing \/ StaleLock
               \/ \E t \in Sids : BridgeFails(t)
  BY <1>2, OwnerLasts DEF Freeing
<1>3. LockInv /\ OverInv /\ [Next]_vars
      => [\A s \in Sids : agentBridgedCallId = s /\ agentBridgedCallId' # s =>
            \/ leg[s].st = "ended"
            \/ StartBegins \/ StopDialing \/ StaleLock
            \/ \E t \in Sids : BridgeFails(t)]_vars
  BY <1>2
<1> QED BY <1>1, <1>3, LockInit, OverInit, PTL DEF Spec, LockLastsTheCall

-----------------------------------------------------------------------------
(* One session: nothing is under way until it starts.                        *)

Unstarted == sessions = 0 \/ starting # "no"

Empty ==
    /\ Queued(userQueue) = {} /\ pump.stage = "idle" /\ pump.batch = <<>>
    /\ leadsInFlight = {} /\ pendingRedials = {} /\ redialTimers = {} /\ requeues = {}
    /\ \A s \in Sids : leg[s].st = "unused"
    /\ \A l \in Leads : dialed[l] = 0

Fresh == (sessions = 0 => starting = "no") /\ (Unstarted => Empty)

LEMMA FreshInit == Init => Fresh
  BY DEF Init, Fresh, Empty, Queued, NoLeg

\* With every slot unused, no call and no job of a call can take a step.
LEMMA EmptyStep ==
    ASSUME LegInv, Empty, [Next]_vars
    PROVE  Session \/ StaleLock \/ (\E graceOver \in BOOLEAN : WatchdogSweeps(graceOver))
           \/ (\E s \in Sids : HangupLands(s)) \/ UNCHANGED vars
<1>1. ASSUME NEW s \in Sids
      PROVE  /\ leg[s].st = "unused" /\ ~leg[s].voice /\ ~leg[s].spoke /\ ~leg[s].resp
             /\ leg[s].end = "none" /\ leg[s].kid = "none"
             /\ leg[s].amd \notin {"human", "machine", "done"}
  BY DEF Empty, LegInv, TypeInv, TypeOK, TwilioTypes, Leg, Fit, Sound, Placed
<1>2. finishing = {} /\ Detected = {}
  <2>1. \A j \in finishing : j.sid \in Sids /\ Placed(leg[j.sid])
    BY DEF LegInv, TypeInv, TypeOK, JobTypes, Finish
  <2>2. \A s \in Detected : s \in Sids /\ leg[s].amd = "done"
    BY DEF LegInv, TypeInv, TypeOK, JobTypes, Skip, Detected
  <2> QED BY <1>1, <2>1, <2>2 DEF Placed
<1>3. ~Dialing
  BY <1>1 DEF Empty, Dialing, PumpGivesUp, PumpTakesBatch, PumpFires, PumpEnds, SlowCreate,
              CallCreated, DialBlocked, DialFrozen, DialFails
<1>4. ~StatusWebhooks /\ \A s \in Sids : ~WatchdogFetches(s)
  BY <1>1 DEF StatusWebhooks, CallProgress, AgentLegAnswered, AgentLegEnded, CallEnded,
              WatchdogFetches
<1>5. ~BridgeWebhooks
  BY <1>1, <1>2 DEF BridgeWebhooks, VoiceHolds, VoiceOverflows, VoiceBridges, HumanOverflows,
              HumanBridges, BridgeLands, BridgeFails, MachineDetected, SkipMachine, Detected
<1>6. ~Redialing  BY DEF Empty, Redialing
<1>7. Telephony => \E s \in Sids : HangupLands(s)
  BY <1>1 DEF Telephony, Answer, NotAnswered, AmdResult, AgentAnswers, AgentDoesNotAnswer,
              HangUp, DropAtOnce, PromptLost, FinalWebhooksLost
<1>8. \A s \in Sids : ~Reuse(s)  BY <1>1 DEF Reuse, Spent
<1> QED BY <1>2, <1>3, <1>4, <1>5, <1>6, <1>7, <1>8 DEF Next, Step, Watchdog

LEMMA FreshNext ==
    ASSUME LegInv, Fresh, "stop" \notin Hazards, MaxSessions <= 1, [Next]_vars
    PROVE  Fresh'
<1>0. sessions \in Nat /\ starting \in {"no", "saving", "loading"} /\ MaxSessions \in Nat
      /\ userQueue \in [Leads -> Attempts] /\ leg \in [Sids -> Leg]
  BY DialerAssumption
  DEF LegInv, TypeInv, TypeOK, HistoryTypes, SessionTypes, QueueTypes, TwilioTypes
<1>1. CASE StartBegins
  <2>1. sessions = 0 /\ sessions' = 1 /\ starting' = "saving"  BY <1>0, <1>1 DEF StartBegins
  <2>2. Empty  BY <2>1 DEF Fresh, Unstarted
  <2> QED BY <1>1, <2>1, <2>2 DEF StartBegins, Fresh, Empty, Pumped, Queued
<1>2. CASE StartSaved \/ StartAborts
  BY <1>2 DEF StartSaved, StartAborts, Fresh, Unstarted, Empty, Queued
<1>3. CASE StartFills
  BY <1>3 DEF StartFills, Fresh, Unstarted
<1>4. CASE UNCHANGED <<sessions, starting>>
  <2>1. CASE ~Unstarted  BY <1>4, <2>1 DEF Fresh, Unstarted
  <2>2. CASE Unstarted
    <3>1. Empty  BY <2>2 DEF Fresh
    <3>2. CASE UNCHANGED vars  BY <1>4, <3>1, <3>2 DEF vars, Fresh, Empty, Queued
    <3>3. CASE StaleLock \/ \E graceOver \in BOOLEAN : WatchdogSweeps(graceOver)
      BY <1>4, <3>1, <3>3 DEF StaleLock, WatchdogSweeps, Fresh, Empty, Pumped, Queued
    <3>4. ASSUME NEW s \in Sids, HangupLands(s)  PROVE Fresh'
      BY <1>4, <3>1, <3>4 DEF HangupLands, LiveLeg, Fresh, Empty, Queued
    <3>5. CASE \E s \in Sids : AgentReady(s)
      BY <3>1, <3>5 DEF AgentReady, Empty, LegInv, TypeInv, Sound, Placed
    <3>6. ASSUME NEW c \in Contacts, PurgeContact(c)  PROVE Fresh'
      <4>1. Queued(userQueue') = {}
        BY <1>0, <3>1, <3>6 DEF PurgeContact, RemoveWhere, Queued, Empty
      <4>2. pendingRedials' = {} /\ redialTimers' = {}
        BY <3>1, <3>6 DEF PurgeContact, CancelPendingRedials, Empty
      <4> QED BY <1>4, <3>1, <3>6, <4>1, <4>2 DEF PurgeContact, Fresh, Empty, Queued
    <3>7. ASSUME NEW l \in Leads, TrimCards(l)  PROVE Fresh'
      <4>1. Queued(userQueue') = {}
        BY <1>0, <3>1, <3>7 DEF TrimCards, RemoveWhere, Queued, Empty
      <4> QED BY <1>4, <3>1, <3>7, <4>1 DEF TrimCards, Fresh, Empty, Queued
    <3>8. ~StopDialing  BY DEF StopDialing
    <3> QED BY <1>1, <1>2, <1>3, <3>1, <3>2, <3>3, <3>4, <3>5, <3>6, <3>7, <3>8, EmptyStep
            DEF Session
  <2> QED BY <2>1, <2>2
<1>5. StartBegins \/ StartSaved \/ StartAborts \/ StartFills \/ UNCHANGED <<sessions, starting>>
  BY DEF Next, Step, Dialing, PumpGivesUp, PumpTakesBatch, PumpFires, PumpEnds, SlowCreate,
         CallCreated, DialBlocked, DialFrozen, DialFails,
         StatusWebhooks, CallProgress, AgentLegAnswered, AgentLegEnded, CallEnded,
         BridgeWebhooks, VoiceHolds, VoiceOverflows, VoiceBridges, HumanOverflows,
         HumanBridges, BridgeLands, BridgeFails, MachineDetected, SkipMachine,
         Watchdog, WatchdogFetches, WatchdogSweeps, StaleLock, Redialing,
         RedialTimerFires, RequeueDropped, RequeueEnters, RequeueThrows, Session,
         StopDialing, AgentReady, PurgeContact, TrimCards, Telephony, Answer, NotAnswered,
         AmdResult, AgentAnswers, AgentDoesNotAnswer, HangUp, DropAtOnce, HangupLands,
         PromptLost, FinalWebhooksLost, Reuse, FinishStatus, vars
<1> QED BY <1>1, <1>2, <1>3, <1>4, <1>5

-----------------------------------------------------------------------------
(* A conversation holds the lock.  The two webhooks that bridge act on what  *)
(* they read before an await, so the lock must not be freed, or found stale, *)
(* while its owner is on the line or about to be.                            *)

\* A call that waits for its TwiML is still up.
VoiceLive ==
    \A s \in Sids : leg[s].voice /\ leg[s].amd = "off" => leg[s].st = "answered"

LEMMA VoiceKept ==
    ASSUME OverInv, VoiceLive, LegTurn, LegInv', "stop" \notin Hazards,
           FALSE \in AmdModes => Hazards \cap {"lateVoice", "purge"} = {}
    PROVE  VoiceLive'
<1> SUFFICES ASSUME NEW s \in Sids, leg'[s].voice, leg'[s].amd = "off"
             PROVE  leg'[s].st = "answered"
  BY DEF VoiceLive
<1>1. leg'[s].st \in {"answered", "ended"} /\ FALSE \in AmdModes
  BY DEF LegInv, Fit
<1>2. "lateVoice" \notin Hazards /\ Hazards \cap {"purge", "stop"} = {}
  BY <1>1
<1>3. leg \in [Sids -> Leg]  BY DEF OverInv, LegInv, TypeInv, TypeOK, TwilioTypes
<1>4. leg[s].voice /\ leg[s].amd = "off" => leg[s].st = "answered"
  BY DEF VoiceLive
<1>5. CASE UNCHANGED leg  BY <1>4, <1>5
<1>6. ASSUME NEW t \in Sids, NEW r \in Leg, leg' = [leg EXCEPT ![t] = r],
             Turned(t, r) \/ Begun(t, r) \/ Dropped(t, r)
      PROVE  leg'[s].st = "answered"
  <2>1. CASE t # s  BY <1>3, <1>4, <1>6, <2>1
  <2>2. CASE t = s
    <3>1. r = leg'[s]  BY <1>3, <1>6, <2>2
    <3>2. ~Begun(s, r)
      <4>1. Begun(s, r) => ~r.voice  BY DEF Begun, NoLeg
      <4> QED BY <3>1, <4>1
    <3>3. ~Dropped(s, r)
      <4>1. Dropped(s, r) => ~r.voice  BY DEF Dropped, NoLeg
      <4> QED BY <3>1, <4>1
    <3>4. Turned(s, r)  BY <1>6, <2>2, <3>2, <3>3
    <3>5. leg[s].amd = "off"  BY <3>1, <3>4 DEF Turned
    <3>6. s \notin hangups  BY <1>2, <3>5 DEF OverInv
    <3>7. r.st # "ended"
      BY <1>2, <1>4, <3>1, <3>4, <3>5, <3>6 DEF Turned
    <3> QED BY <1>1, <3>1, <3>7
  <2> QED BY <2>1, <2>2
<1> QED BY <1>5, <1>6 DEF LegTurn

\* A redirect that waits on Twilio has the lock, and its call has no known end.
BridgesOwned ==
    \A s \in bridging :
        /\ agentBridgedCallId = s
        /\ leg[s].st \in {"held", "ended"}
        /\ CurrentStatus(s) \notin Terminal

\* The lock owner is tracked: the watchdog never takes its lock for an orphan.
OwnerTracked ==
    agentBridgedCallId # None =>
        /\ activeCalls[agentBridgedCallId] # 0
        /\ agentBridgedCallId \in processedTerminalSids => agentBridgedCallId \in bridging

TalkInv == /\ LockInv /\ OverInv /\ Fresh
           /\ VoiceLive /\ BridgesOwned /\ OwnerTracked /\ ConversationHoldsLock

\* The events the code has no answer to: what ends a lock from outside the call
\* (a restart or stop of the session, the 60-minute rule), an answer of Twilio
\* that arrives after the end of its call, and, when calls are bridged by their
\* own TwiML, a call that ends before its TwiML is asked for.
Undisturbed ==
    /\ MaxSessions <= 1
    /\ Hazards \cap {"stop", "staleLock", "lateBridge"} = {}
    /\ FALSE \in AmdModes => Hazards \cap {"lateVoice", "purge"} = {}

LEMMA TalkTypes ==
    ASSUME TalkInv
    PROVE  /\ leg \in [Sids -> Leg] /\ activeCalls \in [Sids -> 0 .. 2]
           /\ meta \in [Sids -> [1 .. 2 -> Meta]]
           /\ bridging \subseteq Sids /\ hangups \subseteq Sids /\ processedTerminalSids \subseteq Sids
           /\ agentBridgedCallId \in Sids \cup {None} /\ None \notin Sids
           /\ \A j \in finishing : j \in Finish /\ leg[j.sid].st = "ended"
           /\ \A s \in Sids : Fit(leg[s])
           /\ \A s \in bridging : leg[s].amd = "done"
  BY DialerAssumption
  DEF TalkInv, LockInv, OverInv, LegInv, TypeInv, TypeOK, TwilioTypes, CallTypes, JobTypes,
      LockTypes, Detected

\* handleVoiceWebhook bridges the owner of the lock, or a call that takes it.
LEMMA VoiceTakes ==
    ASSUME TalkInv, NEW s \in Sids, VoiceBridges(s)
    PROVE  agentBridgedCallId \in {None, s} /\ agentBridgedCallId' = s
<1>1. agentBridgedCallId \in {None, s}
  BY DEF VoiceBridges, ActuallyBusy, LockOwnerStale, TalkInv, OwnerTracked, LockInv,
         LockConsistent
<1> QED BY <1>1 DEF VoiceBridges, Acquire

\* A conversation that a step begins has the lock after it.
LEMMA OnLineNow ==
    ASSUME TalkInv, LegTurn, CallsMove, NEW s \in OnLine'
    PROVE  s \in OnLine \/ agentBridgedCallId' = s
<1>1. s \in Sids /\ leg'[s].st \in {"bridging", "talking"} /\ s \notin hangups'
  BY DEF OnLine
<1>2. CASE leg[s].st \in {"bridging", "talking"}
  BY <1>1, <1>2, TalkTypes DEF OnLine, CallsMove
<1>3. CASE VoiceBridges(s)  BY <1>1, <1>3, VoiceTakes
<1>4. CASE BridgeLands(s)
  BY <1>4 DEF BridgeLands, TalkInv, BridgesOwned
<1>5. leg[s].st \in {"bridging", "talking"} \/ VoiceBridges(s) \/ BridgeLands(s)
  <2>1. leg \in [Sids -> Leg]  BY TalkTypes
  <2>2. CASE UNCHANGED leg  BY <1>1, <2>2
  <2>3. ASSUME NEW t \in Sids, NEW r \in Leg, leg' = [leg EXCEPT ![t] = r],
               Turned(t, r) \/ Begun(t, r) \/ Dropped(t, r)
        PROVE  leg[s].st \in {"bridging", "talking"} \/ VoiceBridges(s) \/ BridgeLands(s)
    <3>1. CASE t # s  BY <1>1, <2>1, <2>3, <3>1
    <3>2. CASE t = s
      <4>1. r.st \in {"bridging", "talking"}  BY <1>1, <2>1, <2>3, <3>2
      <4>2. ~Begun(s, r)
        <5>1. Begun(s, r) => r.st = "placing"  BY DEF Begun, NoLeg
        <5> QED BY <4>1, <5>1
      <4>3. ~Dropped(s, r)
        <5>1. Dropped(s, r) => r.st = "unused"  BY DEF Dropped, NoLeg
        <5> QED BY <4>1, <5>1
      <4> QED BY <2>3, <3>2, <4>1, <4>2, <4>3 DEF Turned
    <3> QED BY <3>1, <3>2
  <2> QED BY <2>2, <2>3 DEF LegTurn
<1> QED BY <1>2, <1>3, <1>4, <1>5

TalkNow == BridgesOwned' /\ OwnerTracked' /\ ConversationHoldsLock'

\* A step that leaves the lock and the redirects alone, and its owner tracked.
Steady ==
    /\ UNCHANGED <<agentBridgedCallId, bridging>>
    /\ agentBridgedCallId # None =>
         /\ activeCalls'[agentBridgedCallId] # 0
         /\ agentBridgedCallId \in processedTerminalSids'
               => agentBridgedCallId \in processedTerminalSids
    /\ \A s \in bridging : meta'[s][activeCalls'[s]].status \notin Terminal

LEMMA SteadyTalk == ASSUME TalkInv, LegTurn, CallsMove, Steady PROVE TalkNow
<1>1. ConversationHoldsLock'
  BY OnLineNow DEF Steady, TalkInv, ConversationHoldsLock
<1>2. OwnerTracked'  BY DEF Steady, TalkInv, OwnerTracked
<1>3. ASSUME NEW s \in bridging  PROVE leg'[s].st \in {"held", "ended"}
  <2>1. s \in Sids /\ leg[s].st \in {"held", "ended"} /\ leg[s].amd = "done"
    BY TalkTypes DEF TalkInv, BridgesOwned
  <2>2. ~BridgeLands(s) /\ ~Reuse(s)  BY DEF BridgeLands, Reuse, Spent, Steady
  <2> QED BY <2>1, <2>2, TalkTypes DEF LegTurn, Turned, Begun, Dropped
<1>4. BridgesOwned'  BY <1>3 DEF Steady, TalkInv, BridgesOwned, CurrentStatus
<1> QED BY <1>1, <1>2, <1>4 DEF TalkNow

\* A step that frees the agent while nobody is on the line.
LEMMA FreesTalk ==
    ASSUME TalkInv, LegTurn, CallsMove, agentBridgedCallId' = None, bridging' = {}, OnLine = {}
    PROVE  TalkNow
<1>1. \A s \in OnLine' : agentBridgedCallId' = s  BY OnLineNow
<1> QED BY <1>1 DEF TalkNow, BridgesOwned, OwnerTracked, ConversationHoldsLock

LEMMA StillTalk ==
    ASSUME TalkInv,
           UNCHANGED <<agentBridgedCallId, bridging, activeCalls, meta, processedTerminalSids>>
    PROVE  Steady
  BY DEF Steady, TalkInv, OwnerTracked, BridgesOwned, CurrentStatus

LEMMA StatusSteady ==
    ASSUME TalkInv, NEW s \in Sids, NEW status, NEW child \in BOOLEAN,
           StatusArrives(s, status, child), status \in Terminal => s \notin bridging,
           UNCHANGED <<agentBridgedCallId, bridging, activeCalls, processedTerminalSids>>
    PROVE  Steady
<1> DEFINE obj == activeCalls[s]
           old == meta[s][obj]
           kept == old.status = "callback" /\ status = "answered"
           new == [old EXCEPT !.status = IF kept THEN @
                                         ELSE IF status \in Terminal THEN status ELSE "live",
                              !.connected = @ \/ (child /\ status = "answered")]
<1>1. ASSUME NEW t \in bridging  PROVE meta'[t][activeCalls[t]].status \notin Terminal
  <2>1. meta[t][activeCalls[t]].status \notin Terminal
    BY DEF TalkInv, BridgesOwned, CurrentStatus
  <2>2. CASE obj = 0 \/ t # s
    BY <2>1, <2>2, TalkTypes DEF StatusArrives
  <2>3. CASE obj # 0 /\ t = s
    <3>1. old \in Meta  BY <2>3, TalkTypes
    <3>2. new.status \notin Terminal  BY <2>3, <3>1 DEF Meta, Terminal
    <3>3. meta' = [meta EXCEPT ![s][obj] = new]  BY <2>3 DEF StatusArrives
    <3> HIDE DEF new
    <3> QED BY <2>3, <3>2, <3>3, TalkTypes
  <2> QED BY <2>2, <2>3
<1> QED BY <1>1 DEF Steady, TalkInv, OwnerTracked

LEMMA StatusTalk ==
    ASSUME TalkInv, Undisturbed, StatusWebhooks \/ \E s \in Sids : WatchdogFetches(s)
    PROVE  Steady
<1>1. ASSUME NEW s \in Sids,
             \/ CallProgress(s, "ringing") \/ CallProgress(s, "answered")
             \/ AgentLegAnswered(s) \/ AgentLegEnded(s) \/ CallEnded(s) \/ WatchdogFetches(s)
      PROVE  Steady
  <2>1. CASE CallProgress(s, "ringing") \/ CallProgress(s, "answered") \/ AgentLegAnswered(s)
    BY <2>1, StatusSteady DEF CallProgress, AgentLegAnswered, Terminal
  <2>2. CASE AgentLegEnded(s) \/ CallEnded(s) \/ WatchdogFetches(s)
    <3>1. s \notin bridging
      BY <2>2 DEF AgentLegEnded, CallEnded, WatchdogFetches, Redirected, Undisturbed
    <3> QED BY <2>2, <3>1, StatusSteady DEF AgentLegEnded, CallEnded, WatchdogFetches
  <2> QED BY <1>1, <2>1, <2>2
<1> QED BY <1>1 DEF StatusWebhooks

LEMMA FinishTalk ==
    ASSUME TalkInv, Undisturbed, LegTurn, CallsMove, NEW j \in finishing, FinishStatus(j)
    PROVE  TalkNow
<1>1. j.sid \in Sids /\ j.sid \notin bridging /\ leg[j.sid].st = "ended"
  BY TalkTypes DEF FinishStatus, Finishable, Redirected, Undisturbed, Finish
<1>2. bridging' = bridging /\ meta' = meta  BY DEF FinishStatus
<1>3. CASE agentBridgedCallId = j.sid
  <2>1. bridging = {} /\ j.sid \notin processedTerminalSids
    BY <1>1, <1>3, TalkTypes DEF TalkInv, BridgesOwned, OwnerTracked
  <2>2. agentBridgedCallId' = None
    BY <1>3, <2>1 DEF FinishStatus, TerminalStatus, ReleaseOwner, Release
  <2>3. OnLine = {}
    BY <1>1, <1>3 DEF TalkInv, ConversationHoldsLock, OnLine
  <2> QED BY <1>2, <2>1, <2>2, <2>3, FreesTalk
<1>4. CASE agentBridgedCallId # j.sid /\ UNCHANGED agentBridgedCallId
  <2>1. \A s \in Sids \ {j.sid} : activeCalls'[s] = activeCalls[s]
    BY <1>1, TalkTypes DEF FinishStatus, TerminalStatus
  <2>2. processedTerminalSids' = processedTerminalSids \cup {j.sid}
    BY DEF FinishStatus, TerminalStatus
  <2>3. Steady
    BY <1>1, <1>2, <1>4, <2>1, <2>2, TalkTypes
    DEF Steady, TalkInv, OwnerTracked, BridgesOwned, CurrentStatus
  <2> QED BY <2>3, SteadyTalk
<1>5. CASE agentBridgedCallId # j.sid /\ agentBridgedCallId' # agentBridgedCallId
  <2>1. agentBusyState /\ ~HasOtherCalls(j.sid) /\ agentBridgedCallId' = None
    BY <1>5 DEF FinishStatus, TerminalStatus, ReleaseOrphan, Release
  <2>2. PICK t \in Sids : t = agentBridgedCallId /\ t # j.sid /\ activeCalls[t] # 0
    BY <1>5, <2>1, TalkTypes DEF TalkInv, LockInv, LockConsistent, OwnerTracked
  <2>3. CurrentStatus(t) \in Terminal  BY <2>1, <2>2 DEF HasOtherCalls, Tracked
  <2>4. leg[t].st = "ended"
    BY <2>2, <2>3, TalkTypes DEF TalkInv, OverInv, CurrentStatus
  <2>5. bridging = {}  BY <2>2, <2>3 DEF TalkInv, BridgesOwned
  <2>6. OnLine = {}  BY <2>2, <2>4 DEF TalkInv, ConversationHoldsLock, OnLine
  <2> QED BY <1>2, <2>1, <2>5, <2>6, FreesTalk
<1> QED BY <1>3, <1>4, <1>5

LEMMA BridgeTalk ==
    ASSUME TalkInv, Undisturbed, LegTurn, CallsMove, NEW s \in Sids,
           \/ VoiceHolds(s) \/ VoiceOverflows(s) \/ VoiceBridges(s)
           \/ HumanOverflows(s) \/ HumanBridges(s)
           \/ BridgeLands(s) \/ BridgeFails(s) \/ MachineDetected(s)
    PROVE  TalkNow
<1>1. ASSUME NEW status \in {"callback", "machine"}, Mark(s, status), NEW t \in bridging
      PROVE  meta'[t][activeCalls[t]].status \notin Terminal
  <2>1. meta[t][activeCalls[t]].status \notin Terminal
    BY DEF TalkInv, BridgesOwned, CurrentStatus
  <2> QED BY <1>1, <2>1, TalkTypes DEF Mark, Meta, Terminal
<1>2. CASE VoiceHolds(s)  BY <1>2, StillTalk, SteadyTalk DEF VoiceHolds
<1>3. CASE VoiceOverflows(s) \/ HumanOverflows(s)
  <2>1. Steady
    BY <1>1, <1>3 DEF VoiceOverflows, HumanOverflows, Steady, TalkInv, OwnerTracked
  <2> QED BY <2>1, SteadyTalk
<1>4. ASSUME Bridged(s)
      PROVE  activeCalls'[s] = 2 /\ meta'[s][2].status = "live"
  BY <1>4, TalkTypes DEF Bridged, NewMeta
<1>5. CASE VoiceBridges(s)
  <2>1. agentBridgedCallId \in {None, s} /\ agentBridgedCallId' = s  BY <1>5, VoiceTakes
  <2>2. leg[s].st = "answered" /\ s \notin processedTerminalSids
    BY <1>5 DEF VoiceBridges, TalkInv, VoiceLive, OverInv
  <2>3. bridging' = {}
    BY <1>5, <2>1, <2>2, TalkTypes DEF VoiceBridges, TalkInv, BridgesOwned
  <2>4. ConversationHoldsLock'
    BY <2>1, OnLineNow, TalkTypes DEF TalkInv, ConversationHoldsLock, OnLine
  <2>5. OwnerTracked'
    BY <1>4, <1>5, <2>1, <2>2 DEF VoiceBridges, OwnerTracked
  <2> QED BY <2>3, <2>4, <2>5 DEF TalkNow, BridgesOwned
<1>6. CASE HumanBridges(s) /\ activeCalls[s] = 0
  BY <1>6, StillTalk, SteadyTalk DEF HumanBridges
<1>7. CASE HumanBridges(s) /\ activeCalls[s] # 0
  <2>1. agentBridgedCallId = None /\ agentBridgedCallId' = s
    BY <1>7 DEF HumanBridges, AgentTaken, Acquire, TalkInv, LockInv, LockConsistent
  <2>2. bridging = {} /\ bridging' = {s}
    BY <1>7, <2>1, TalkTypes DEF HumanBridges, TalkInv, BridgesOwned
  <2>3. leg'[s].st = leg[s].st /\ leg[s].st \in {"held", "ended"}
    BY <1>7, TalkTypes DEF HumanBridges, Leg, Fit
  <2>4. BridgesOwned'
    BY <1>4, <1>7, <2>1, <2>2, <2>3 DEF HumanBridges, BridgesOwned, CurrentStatus, Terminal
  <2>5. OwnerTracked'  BY <1>4, <1>7, <2>1, <2>2 DEF HumanBridges, OwnerTracked
  <2>6. ConversationHoldsLock'
    BY <2>1, OnLineNow, TalkTypes DEF TalkInv, ConversationHoldsLock, OnLine
  <2> QED BY <2>4, <2>5, <2>6 DEF TalkNow
<1>8. CASE BridgeLands(s)
  <2>1. agentBridgedCallId = s /\ agentBridgedCallId' = s
    BY <1>8 DEF BridgeLands, TalkInv, BridgesOwned
  <2>2. bridging' = {}  BY <1>8, <2>1, TalkTypes DEF BridgeLands, TalkInv, BridgesOwned
  <2>3. s \notin processedTerminalSids  BY <1>8 DEF BridgeLands, TalkInv, OverInv
  <2>4. OwnerTracked'
    BY <1>8, <2>1, <2>3 DEF BridgeLands, TalkInv, OwnerTracked
  <2>5. ConversationHoldsLock'
    BY <2>1, OnLineNow DEF TalkInv, ConversationHoldsLock
  <2> QED BY <2>2, <2>4, <2>5 DEF TalkNow, BridgesOwned
<1>9. CASE BridgeFails(s)
  <2>1. agentBridgedCallId = s /\ leg[s].st \in {"held", "ended"} /\ s \in bridging
    BY <1>9 DEF BridgeFails, TalkInv, BridgesOwned
  <2>2. bridging' = {} /\ agentBridgedCallId' = None
    BY <1>9, <2>1, TalkTypes DEF BridgeFails, Release, TalkInv, BridgesOwned
  <2>3. OnLine = {}  BY <2>1 DEF TalkInv, ConversationHoldsLock, OnLine
  <2> QED BY <2>2, <2>3, FreesTalk
<1>10. CASE MachineDetected(s)
  <2>1. agentBridgedCallId # s
    BY <1>10, TalkTypes DEF MachineDetected, TalkInv, LockInv, OwnerPast, Past
  <2>2. \A t \in Sids \ {s} : activeCalls'[t] = activeCalls[t]
    BY <1>10, TalkTypes DEF MachineDetected
  <2>3. \A t \in bridging : t # s /\ meta'[t][activeCalls'[t]].status \notin Terminal
    BY <1>1, <1>10, <2>1, <2>2, TalkTypes DEF MachineDetected, TalkInv, BridgesOwned
  <2>4. Steady
    BY <1>10, <2>1, <2>2, <2>3, TalkTypes DEF MachineDetected, Steady, TalkInv, OwnerTracked
  <2> QED BY <2>4, SteadyTalk
<1> QED BY <1>2, <1>3, <1>5, <1>6, <1>7, <1>8, <1>9, <1>10

\* The session begins: there is no call yet.
LEMMA StartTalk ==
    ASSUME TalkInv, Undisturbed, LegTurn, CallsMove, StartBegins PROVE TalkNow
<1>1. sessions \in Nat /\ MaxSessions \in Nat
  BY DialerAssumption DEF TalkInv, LockInv, TypeInv, TypeOK, HistoryTypes
<1>2. sessions = 0  BY <1>1 DEF StartBegins, Undisturbed
<1>3. Empty  BY <1>2 DEF TalkInv, Fresh, Unstarted
<1>4. OnLine = {}  BY <1>3 DEF Empty, OnLine
<1>5. bridging = {}  BY <1>3, TalkTypes DEF Empty, Fit
<1> QED BY <1>4, <1>5, FreesTalk DEF StartBegins, Release

LEMMA OthersSteady ==
    ASSUME TalkInv, Undisturbed,
           \/ Dialing \/ Redialing \/ Telephony
           \/ \E k \in skipping : SkipMachine(k)
           \/ StartSaved \/ StartAborts \/ StartFills \/ \E s \in Sids : AgentReady(s)
           \/ \E c \in Contacts : PurgeContact(c)
           \/ \E l \in Leads : TrimCards(l)
           \/ \E graceOver \in BOOLEAN : WatchdogSweeps(graceOver)
           \/ \E s \in Sids : Reuse(s)
           \/ UNCHANGED vars
    PROVE  Steady
<1>1. ASSUME NEW s \in Sids, CallCreated(s)  PROVE Steady
  <2>1. ASSUME NEW t \in bridging  PROVE meta'[t][activeCalls'[t]].status \notin Terminal
    <3>1. CASE t = s
      BY <1>1, <3>1, TalkTypes DEF CallCreated, NewMeta, Terminal
    <3>2. CASE t # s
      BY <1>1, <3>2, TalkTypes DEF CallCreated, TalkInv, BridgesOwned, CurrentStatus
    <3> QED BY <3>1, <3>2
  <2>2. agentBridgedCallId # None => activeCalls'[agentBridgedCallId] # 0
    BY <1>1, TalkTypes DEF CallCreated, TalkInv, OwnerTracked
  <2> QED BY <1>1, <2>1, <2>2 DEF CallCreated, Steady
<1>2. CASE Dialing
  BY <1>1, <1>2, StillTalk DEF Dialing, PumpGivesUp, PumpTakesBatch, PumpFires, PumpEnds,
     SlowCreate, DialBlocked, DialFrozen, DialFails
<1>3. CASE Redialing
  BY <1>3, StillTalk DEF Redialing, RedialTimerFires, RequeueDropped, RequeueEnters,
     RequeueThrows
<1>4. CASE Telephony
  BY <1>4, StillTalk DEF Telephony, Answer, NotAnswered, AmdResult, AgentAnswers,
     AgentDoesNotAnswer, HangUp, DropAtOnce, HangupLands, PromptLost, FinalWebhooksLost
<1>5. ASSUME NEW k \in skipping, SkipMachine(k)  PROVE Steady
  BY <1>5, StillTalk DEF SkipMachine
<1>6. CASE StartSaved \/ StartAborts \/ StartFills \/ (\E s \in Sids : AgentReady(s))
           \/ \E l \in Leads : TrimCards(l)
  BY <1>6, StillTalk DEF StartSaved, StartAborts, StartFills, AgentReady, TrimCards
<1>7. ASSUME NEW c \in Contacts, PurgeContact(c)  PROVE Steady
  <2>1. agentBridgedCallId # None
          => activeCalls'[agentBridgedCallId] = activeCalls[agentBridgedCallId]
    BY <1>7, TalkTypes DEF PurgeContact
  <2>2. \A t \in bridging : activeCalls'[t] = activeCalls[t]
    BY <2>1, TalkTypes DEF TalkInv, BridgesOwned
  <2>3. \A t \in bridging : meta'[t][activeCalls'[t]].status \notin Terminal
    BY <1>7, <2>2 DEF PurgeContact, TalkInv, BridgesOwned, CurrentStatus
  <2> QED BY <1>7, <2>1, <2>3 DEF PurgeContact, Steady, TalkInv, OwnerTracked
<1>8. ASSUME NEW graceOver \in BOOLEAN, WatchdogSweeps(graceOver)  PROVE Steady
  <2>1. ~LockOwnerStale  BY DEF LockOwnerStale, TalkInv, OwnerTracked
  <2> QED BY <1>8, <2>1, StillTalk DEF WatchdogSweeps
<1>9. ASSUME NEW s \in Sids, Reuse(s)  PROVE Steady
  <2>1. s \notin bridging  BY <1>9 DEF Reuse, Spent
  <2>2. \A t \in bridging : meta'[t] = meta[t]  BY <1>9, <2>1, TalkTypes DEF Reuse
  <2> QED BY <1>9, <2>2 DEF Reuse, Steady, TalkInv, OwnerTracked, BridgesOwned, CurrentStatus
<1>10. CASE UNCHANGED vars  BY <1>10, StillTalk DEF vars
<1> QED BY <1>2, <1>3, <1>4, <1>5, <1>6, <1>7, <1>8, <1>9, <1>10

LEMMA TalkInit == Init => TalkInv
<1> SUFFICES ASSUME Init PROVE TalkInv  OBVIOUS
<1>1. VoiceLive /\ ConversationHoldsLock
  BY DEF Init, VoiceLive, NoLeg, ConversationHoldsLock, OnLine
<1>2. BridgesOwned /\ OwnerTracked  BY DEF Init, BridgesOwned, OwnerTracked
<1> QED BY <1>1, <1>2, LockInit, OverInit, FreshInit DEF TalkInv

LEMMA TalkNext == ASSUME TalkInv, Undisturbed, [Next]_vars PROVE TalkInv'
<1>1. LockInv'  BY LockNext DEF TalkInv
<1>2. OverInv' /\ LegTurn /\ CallsMove  BY OverNext DEF TalkInv
<1>3. Fresh'  BY FreshNext DEF TalkInv, OverInv, Undisturbed
<1>4. VoiceLive'  BY <1>2, VoiceKept DEF TalkInv, OverInv, Undisturbed
<1>5. TalkNow
  <2>1. CASE \E s \in Sids : \/ VoiceHolds(s) \/ VoiceOverflows(s) \/ VoiceBridges(s)
                             \/ HumanOverflows(s) \/ HumanBridges(s)
                             \/ BridgeLands(s) \/ BridgeFails(s) \/ MachineDetected(s)
    BY <1>2, <2>1, BridgeTalk
  <2>2. CASE StatusWebhooks \/ \E s \in Sids : WatchdogFetches(s)
    BY <1>2, <2>2, StatusTalk, SteadyTalk
  <2>3. CASE \E j \in finishing : FinishStatus(j)  BY <1>2, <2>3, FinishTalk
  <2>4. CASE StartBegins  BY <1>2, <2>4, StartTalk
  <2>5. CASE \/ Dialing \/ Redialing \/ Telephony
             \/ \E k \in skipping : SkipMachine(k)
             \/ StartSaved \/ StartAborts \/ StartFills \/ \E s \in Sids : AgentReady(s)
             \/ \E c \in Contacts : PurgeContact(c)
             \/ \E l \in Leads : TrimCards(l)
             \/ \E graceOver \in BOOLEAN : WatchdogSweeps(graceOver)
             \/ \E s \in Sids : Reuse(s)
             \/ UNCHANGED vars
    BY <1>2, <2>5, OthersSteady, SteadyTalk
  <2>6. ~StopDialing /\ ~StaleLock  BY DEF StopDialing, StaleLock, Undisturbed
  <2> QED BY <2>1, <2>2, <2>3, <2>4, <2>5, <2>6
          DEF Next, Step, BridgeWebhooks, Session, Watchdog
<1> QED BY <1>1, <1>2, <1>3, <1>4, <1>5 DEF TalkInv, TalkNow

\* Two callers are never bridged to the agent's browser at once, and the one
\* that is holds the lock, however the webhooks, the watchdog and the redirects
\* interleave (handleVoiceWebhook, handleAmdStatus, handleCallStatusUpdate).
THEOREM ConversationIsLocked ==
    ASSUME Undisturbed PROVE Spec => []ConversationHoldsLock
<1>1. TalkInv /\ [Next]_vars => TalkInv'  BY TalkNext
<1>2. TalkInv => ConversationHoldsLock  BY DEF TalkInv
<1> QED BY TalkInit, <1>1, <1>2, PTL DEF Spec
=============================================================================
