----------------------------- MODULE MCActivity -----------------------------
(***************************************************************************)
(* Bounds for TLC: a behaviour is of one part, which says what is there at  *)
(* the start and which actions may happen.                                  *)
(***************************************************************************)
EXTENDS ActivityProperties, Team, LifecycleMails

CONSTANTS c1, c2, n1, n2, a1

VARIABLE part
mcVars == <<part, activityVars, teamVars, mailVars, trackerVars>>

Parts == {"verdicts", "recordings", "captions", "list",
          "texts", "mirrors", "holds", "reminders", "dues",
          "seats", "nights", "mails", "tracker"}

\* An earlier call of c1's lead, over, whose recording has yet to be reported
\* or was saved, and one of c2 that left no row.
Earlier(kind, leg) ==
    /\ call = [s \in Calls |->
         [NoCall EXCEPT !.kind = IF s = 3 THEN None ELSE IF s = 1 THEN kind ELSE "manual",
                        !.of = IF s = 3 THEN None ELSE IF s = 1 THEN c1 ELSE c2,
                        !.at = IF s = 3 THEN "new" ELSE "over", !.made = (s # 3)]]
    /\ record = [s \in Calls |->
         IF s = 1 THEN [NoRecord EXCEPT !.there = TRUE, !.of = c1, !.status = "completed",
                                        !.lead = (kind = "power"), !.disposition = "CALLED",
                                        !.ended = TRUE]
         ELSE NoRecord]
    /\ post = {Webhook(1, leg, "recorded"), Webhook(2, "root", "recorded")}

\* Any of the rows that the screens tell apart.
Screened ==
    /\ call = [s \in Calls |-> NoCall] /\ post = {}
    /\ \E of \in [Calls -> Clients], st \in [Calls -> {"none", "completed", "MACHINE"}] :
         record = [s \in Calls |->
            IF st[s] = "none" THEN NoRecord
            ELSE [NoRecord EXCEPT !.there = TRUE, !.of = of[s], !.status = "completed",
                                  !.disposition = IF st[s] = "MACHINE" THEN st[s] ELSE "CALLED"]]

MCInit ==
    /\ part \in Parts
    /\ CASE part = "recordings" ->
              \E kind \in {"power", "browser"}, leg \in {"root", "child"} : Earlier(kind, leg)
         [] part = "list" -> Screened
         [] OTHER -> CallsNew
    /\ CallsQuiet /\ ScreensInit /\ AgendaInit /\ LifecycleInit /\ TrackerInit
    /\ TeamInit(IF part = "nights" THEN {1} ELSE {})
    /\ part # "mirrors" => linked = {}

\* One call, of either client, is enough for a verdict to race with its reports.
Only(s) == \A r \in Calls : IF r > s THEN call[r].at = "new" ELSE call[r].of \in {None, c1}

\* What is recorded was not answered by a machine.
Human == \A s \in Calls : ~call[s].machine

\* Reminders are of two items, and one request is enough; two requests meet
\* the mirrors when both providers are linked and stay so.
Limit == IF part = "reminders" \/ (part = "mirrors" /\ linked # Providers) THEN 1 ELSE MaxEdits

CallSteps ==
    \/ part = "verdicts" /\ (Placing \/ Arriving(Legs) \/ Writing \/ Verdicts) /\ Only(1)'
    \/ part = "captions" /\ (Placing \/ Arriving(Legs) \/ Captions) /\ Only(1)'
    \/ part = "recordings" /\ (Placing \/ Arriving({"child"}) \/ Recorded) /\ Human'
ScreenSteps ==
    \/ part = "list" /\ Dialling
    \/ part = "texts" /\ (Texting \/ Editing)
AgendaSteps ==
    /\ \/ part = "mirrors" /\ (Creates(Types, {1}, {0}) \/ Handles({0}) \/ Mirrors)
       \/ part = "holds" /\ (Creates({"callback", "appointment"}, Items, {0}) \/ Handles({0}))
       \/ part = "reminders" /\ (Creates({"task", "event"}, Items, 1..2) \/ Handles(Times) \/ Reminders)
       \/ part = "dues" /\ (Creates({"callback"}, {1}, Times) \/ Handles(Times) \/ Dues)
    /\ edits' <= Limit
TeamSteps ==
    \/ part = "seats" /\ (Buys \/ Makes \/ Erases \/ Others)
    \/ part = "nights" /\ (Nights \/ Erases)

MCNext ==
    /\ \/ CallSteps /\ UNCHANGED <<screenVars, agendaVars, teamVars, mailVars, trackerVars>>
       \/ ScreenSteps /\ UNCHANGED <<agendaVars, teamVars, mailVars, trackerVars>>
       \/ AgendaSteps /\ UNCHANGED <<callVars, screenVars, teamVars, mailVars, trackerVars>>
       \/ TeamSteps /\ UNCHANGED <<activityVars, mailVars, trackerVars>>
       \/ part = "mails" /\ Nudging /\ UNCHANGED <<activityVars, teamVars, trackerVars>>
       \/ part = "tracker" /\ Tracking({a1}, {0}) /\ UNCHANGED <<activityVars, teamVars, mailVars>>
    /\ UNCHANGED part

MCSpec == MCInit /\ [][MCNext]_mcVars
=============================================================================
