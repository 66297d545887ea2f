-------------------------- MODULE ActivityProperties --------------------------
(***************************************************************************)
(* What the records of calls, the screens made from them and the agenda     *)
(* promise.                                                                 *)
(***************************************************************************)
EXTENDS CallScreens, Agenda, Tracker

activityVars == <<callVars, screenVars, agendaVars>>

\* Once AMD has said that a machine answered, the row's disposition stays so
\* and no folder action is applied to the call: "the terminal call-status
\* webhook that follows the hangup must NOT relabel it as CALLED/NO_ANSWER"
\* (src/routes/calling/services.ts:1301).  The row is read and written at two
\* awaits, and only a handler that had read it before the verdict can do so.
MachineKept ==
    [][\A s \in Calls : record[s].disposition = "MACHINE" =>
         \/ /\ record'[s].disposition = "MACHINE"
            /\ \A j \in work' \ work : j.op = "file" => j.sid # s
         \/ \E j \in work \ work' : j.sid = s /\ j.op = "write" /\ ~j.machine]_activityVars

\* The recording that a row shows is of a call with the row's own contact,
\* though its webhook may come before the row, name the child leg of the call,
\* or be matched by lead or contact (handleRecordingUpdate).
RecordingOfContact ==
    \A s \in Calls : record[s].url # None => record[s].of = call[record[s].url].of

\* A list that is filtered and resumed is dialled whole: each contact that
\* the filters let through comes once, and none that was dialled before the
\* bookmark comes ahead of it (filterDialContacts).
ResumesWhole ==
    (\E s \in Calls : record[s].there) =>
    \A f \in [resume : {TRUE}, neverDialed : {FALSE}, since : {0},
              neverContacted : BOOLEAN, statusChanged : BOOLEAN, created : {Clients}] :
        LET ids == SetToSeq(Clients)
            list == filterDialContacts(ids, f)
        IN /\ Range(list) = Eligible(f) /\ IsInjective(list)
           /\ bookmark \in Eligible(f) =>
                \A k \in DOMAIN list : Dialed(list[k], 0) =>
                    k >= CHOOSE m \in DOMAIN list : list[m] = bookmark

\* Every message is shown by the thread of its number in the inbox, whoever
\* has come to have the number since (getSmsInbox, getSmsConversation).
InboxWhole ==
    \A k \in DOMAIN texts :
        /\ \E t \in Inbox : t.remote = texts[k].remote
        /\ \A t \in Inbox : t.remote = texts[k].remote => k \in t.shows

\* The tracker adds up the same by each route.  The dashboard, the channels and
\* the leaderboard agree on what is up to today; a contact counts once however often
\* and from whichever screen it was marked, so that the days of a period add up
\* to it; and what an agent entered by hand and was not refused is in the rows or
\* still under way, neither lost nor doubled, however entries and corrections of a
\* bucket overlap: upsertSession adds to the row it found earlier.
TrackerWhole ==
    acts = 0 \/
    /\ \A u \in Members, from \in 0..date :
         LET shown == Totals(u, from, date)
             board == getLeaderboardTotals(from, date)[u]
             channels == getChannels(u, from, date)
         IN /\ shown.contacts = board.contacts /\ shown.closed = board.closed
            /\ shown.hours = Total(LAMBDA s : channels[s].hours, DOMAIN channels)
            /\ shown.contacts = Total(LAMBDA d : Totals(u, d, d).contacts, from..date)
    /\ \A b \in Buckets :
         told[b] = Total(LAMBDA k : IF entries[k].of = b THEN entries[k].contacts ELSE 0,
                                 DOMAIN entries)
                   + Total(LAMBDA v : IF v.of = b THEN v.n ELSE 0, saves)

\* A streak is the days worked up to the last, with no weekday missed among
\* them; the strip marks each of its weekdays, or is too short for it and has no
\* gap up to the last; a period has begun and is not over (getDashboard).
StreaksWhole ==
    acts = 0 \/
    \A u \in Members, period \in {"today", "this_week", "this_month"} :
        LET shown == getDashboard(u, period)
            last == Max(shown.logged)
            Unbroken(d) == \A e \in d..last : e \in shown.logged \/ IsWeekend(e)
        IN /\ shown.streak.length =
                IF shown.logged = {} THEN 0
                ELSE Cardinality({d \in shown.logged : (d = last \/ ~IsWeekend(d)) /\ Unbroken(d)})
           /\ shown.logged # {} =>
                \/ shown.streak.length <= shown.coverage.hits + (IF IsWeekend(last) THEN 1 ELSE 0)
                \/ Unbroken(date - Window + 1)
           /\ 0 < shown.elapsed[1] /\ shown.elapsed[1] <= shown.elapsed[2]

ScreensWhole == ResumesWhole /\ InboxWhole /\ TrackerWhole /\ StreaksWhole

\* A contact that waits for an appointment has one that was not cancelled.
HoldBacked ==
    \A c \in Contacts : hold[c] = "APPOINTMENT_HOLD" =>
        \E i \in Items : /\ item[i].kind = "appointment" /\ item[i].of = c
                         /\ item[i].status # "CANCELLED"

\* The event that a row remembers is its own, and at the provider it names:
\* two calls to two providers answer in either order, with others under way.
EventOfItem ==
    \A i \in Items : item[i].ext # 0 =>
        remote[item[i].ext].of = i /\ remote[item[i].ext].via = item[i].via

\* No item is marked as reminded of that the agent was not told of: a failure
\* leaves it to the next tick.
RemindedWasTold == \A i \in Items : item[i].reminded => item[i].told \/ i \in Quiet

\* The three ways in which the rows of the agenda answer for what others were
\* told: the dialer, the calendars and the agent.
AgendaAgrees == HoldBacked /\ EventOfItem /\ RemindedWasTold
=============================================================================
