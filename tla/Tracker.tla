------------------------------- MODULE Tracker -------------------------------
(***************************************************************************)
(* The prospecting tracker: src/routes/tracker over src/domain/prospecting. *)
(* Nothing of what it shows is stored: each screen adds up the sessions of   *)
(* the dialer, the presses of "Contacted", the stages that deals reached    *)
(* and what the agent entered by hand, by day and by source, and the         *)
(* leaderboard adds up the same rows by another route.                      *)
(*                                                                         *)
(* Hours, contacts and closings stand for the nine figures of a row; a      *)
(* session is an hour long.  Deals are contacts that may be deleted.        *)
(***************************************************************************)
EXTENDS Integers, FiniteSets, FiniteSetsExt, Functions

CONSTANTS
    Members,          \* the agents of a tenant
    Deals,            \* contacts
    Sources,          \* calling lists and channels
    Untagged,         \* no source
    Floor,            \* CONTACTS_COUNTED_FROM
    Weekend,          \* days of the week without work; day 0 is Weekday0
    Weekday0,         \* the weekday of day 0, Monday being 0
    Window,           \* days of the coverage strip
    LastShown,        \* the last day of the month: bound of the clock
    MaxActs           \* bound of what is done

ASSUME TrackerAssumption ==
    /\ IsFiniteSet(Deals) /\ IsFiniteSet(Sources) /\ Untagged \notin Sources
    /\ Weekend \subseteq 0..6 /\ Weekend # 0..6 /\ Weekday0 \in 0..6
    /\ {LastShown, Window, Floor, MaxActs} \subseteq Nat

VARIABLES
    presses,          \* ContactDispositionLog, of the disposition CONTACT
    dials,            \* AgentSession
    stages,           \* ProspectingStageEvent, CLOSED
    entries,          \* ProspectingSession: id -> row
    saves,            \* entries being saved
    told,             \* history: what was entered by hand in each bucket
    date, acts

trackerVars == <<presses, dials, stages, entries, saves, told, date, acts>>

Dates == 0..LastShown
Buckets == Members \X Dates \X (Sources \cup {Untagged})
NoEntry == [of |-> <<>>, contacts |-> 0]

TrackerInit ==
    /\ presses = {} /\ dials = {} /\ stages = {} /\ saves = {}
    /\ entries = [k \in 1..MaxActs |-> NoEntry]
    /\ told = [b \in Buckets |-> 0]
    /\ date = 0 /\ acts = 0

-----------------------------------------------------------------------------
(* What is counted *)

\* Of natural numbers.
Total(f(_), S) == Cardinality(UNION {{x} \X (1..f(x)) : x \in S})

\* The day of the first press of an agent on a contact since the cutover.
First(u, c) ==
    LET on == {p.on : p \in {q \in presses : q.by = u /\ q.of = c /\ q.on >= Floor}}
    IN IF on = {} THEN {} ELSE {Min(on)}

\* A length, or an end, or the end of its last call; a session with none of
\* them is excluded.
Lasting(a) == a.length \in {"duration", "endTime", "lastCall"}

\* What one bucket of a day holds: what was derived, and the entries on top.
Row(u, d, s) ==
    LET here(rows) == {r \in rows : r.by = u /\ r.on = d /\ r.source = s}
    IN [hours |-> Cardinality({a \in here(dials) : Lasting(a)}),
        contacts |->
          (IF s = Untagged THEN Cardinality({c \in Deals : d \in First(u, c)}) ELSE 0)
          + Total(LAMBDA k : IF entries[k].of = <<u, d, s>> THEN entries[k].contacts ELSE 0,
                          DOMAIN entries),
        closed |-> Cardinality(here(stages))]

getDailyRows(u, from, to) ==
    [b \in (from..to) \X (Sources \cup {Untagged}) |-> Row(u, b[1], b[2])]

\* Sessions of which nothing says how long they were.
excludedSessions(u, from, to) ==
    Cardinality({a \in dials : a.by = u /\ a.on \in from..to /\ ~Lasting(a)})

aggregateSessions(rows, keys) ==
    [hours |-> Total(LAMBDA b : rows[b].hours, keys),
     contacts |-> Total(LAMBDA b : rows[b].contacts, keys),
     closed |-> Total(LAMBDA b : rows[b].closed, keys)]

Totals(u, from, to) ==
    LET rows == getDailyRows(u, from, to) IN aggregateSessions(rows, DOMAIN rows)

\* The totals of one source: a funnel, and a channel.
getFunnel(u, from, to, s) ==
    LET rows == getDailyRows(u, from, to)
    IN aggregateSessions(rows, {b \in DOMAIN rows : b[2] = s})
getChannels(u, from, to) == [s \in Sources \cup {Untagged} |-> getFunnel(u, from, to, s)]

\* The same figures, of many agents at once, without the days.
getLeaderboardTotals(from, to) ==
    [u \in Members |->
       [contacts |-> Cardinality({c \in Deals : First(u, c) \cap (from..to) # {}})
                     + Total(LAMBDA k : IF /\ entries[k] # NoEntry /\ entries[k].of[1] = u
                                                   /\ entries[k].of[2] \in from..to
                                                THEN entries[k].contacts ELSE 0,
                                     DOMAIN entries),
        closed |-> Cardinality({e \in stages : e.by = u /\ e.on \in from..to})]]

-----------------------------------------------------------------------------
(* Periods, streaks and the strip of days *)

IsWeekend(d) == (d + Weekday0) % 7 \in Weekend

\* The first day asked for, the last, and the last that the period covers: the
\* days of the clock are of one month.
resolvePeriodRange(period) ==
    CASE period = "today" -> [from |-> date, to |-> date, end |-> date]
      [] period = "this_week" ->
           LET monday == date - ((date + Weekday0) % 7)
           IN [from |-> monday, to |-> date, end |-> monday + 6]
      [] period = "this_month" -> [from |-> 0, to |-> date, end |-> LastShown]

\* Days used up, and days of the period: both ends count.
elapsedFractionOfPeriod(r) == <<r.to - r.from + 1, r.end - r.from + 1>>

\* Days with work of some kind.
LoggedDates(u, from, to) ==
    LET rows == getDailyRows(u, from, to)
    IN {b[1] : b \in {k \in DOMAIN rows : rows[k].hours > 0 \/ rows[k].contacts > 0}}

previousCountedDay(d) == Max({e \in (d - 7)..(d - 1) : ~IsWeekend(e)})

\* The days worked one after the other up to the last that was logged.
computeStreak(logged) ==
    LET run[d \in (-7)..LastShown] ==
          IF d \in logged THEN 1 + run[previousCountedDay(d)] ELSE 0
    IN IF logged = {} THEN [length |-> 0, isActive |-> FALSE]
       ELSE [length |-> run[Max(logged)], isActive |-> date - Max(logged) <= 1]

coverageWindow(logged) ==
    LET weekdays == {d \in (date - Window + 1)..date : ~IsWeekend(d)}
    IN [weekdays |-> Cardinality(weekdays), hits |-> Cardinality(weekdays \cap logged)]

\* The streak is of the days of the period only.
getDashboard(u, period) ==
    LET r == resolvePeriodRange(period)
        logged == LoggedDates(u, r.from, r.to)
    IN [totals |-> Totals(u, r.from, r.to), excluded |-> excludedSessions(u, r.from, r.to),
        elapsed |-> elapsedFractionOfPeriod(r), logged |-> logged,
        streak |-> computeStreak(logged), coverage |-> coverageWindow(logged)]

-----------------------------------------------------------------------------
(* What there is to count *)

Acts == acts < MaxActs /\ acts' = acts + 1

\* The button: applyDisposition logs each application, and refuses CONTACT to
\* whoever is not a person.
Pressed(u, c) ==
    /\ Acts
    /\ presses' = presses \cup {[by |-> u, of |-> c, on |-> date]}
    /\ UNCHANGED <<dials, stages, entries, saves, told, date>>

\* A session of the dialer ended, or its tab was closed, with a call or without.
Dialled(u, s, how) ==
    /\ Acts
    /\ dials' = dials \cup {[id |-> acts, by |-> u, on |-> date, source |-> s, length |-> how]}
    /\ UNCHANGED <<presses, stages, entries, saves, told, date>>

\* Retention deletes the calls that said how long a session was.
CallsDeleted(a) ==
    /\ a.length = "lastCall"
    /\ dials' = (dials \ {a}) \cup {[a EXCEPT !.length = "none"]}
    /\ UNCHANGED <<presses, stages, entries, saves, told, date, acts>>

\* One event a contact and stage, of the first who entered it.
Closes(u, c, d, s) ==
    /\ Acts
    /\ stages' = IF \E e \in stages : e.of = c
                 THEN {IF e.of = c THEN [e EXCEPT !.on = d, !.source = s] ELSE e : e \in stages}
                 ELSE stages \cup {[by |-> u, of |-> c, on |-> d, source |-> s]}
    /\ UNCHANGED <<presses, dials, entries, saves, told, date>>

\* A contact goes with its log; what it closed stays (onDelete: SetNull).
DealDeleted(c) ==
    /\ Acts
    /\ presses' = {p \in presses : p.of # c}
    /\ stages' = {IF e.of = c THEN [e EXCEPT !.of = <<c, acts>>] ELSE e : e \in stages}
    /\ UNCHANGED <<dials, entries, saves, told, date>>

-----------------------------------------------------------------------------
(* Entries by hand: read, then written *)

\* upsertSession: a day and a source have one row, if there was one to find.
SaveAsked(b, n) ==
    LET found == {k \in DOMAIN entries : entries[k].of = b}
    IN /\ Acts
       /\ \E k \in IF found = {} THEN {0} ELSE found :
            saves' = saves \cup {[id |-> acts + 1, of |-> b, n |-> n, row |-> k]}
       /\ told' = [told EXCEPT ![b] = @ + n]
       /\ UNCHANGED <<presses, dials, stages, entries, date>>

\* An error is answered: the agent knows that this entry did not land.
Refused(v) ==
    /\ told' = [told EXCEPT ![v.of] = @ - v.n]
    /\ UNCHANGED entries

\* Mutant: what the row holds is replaced, as it once was.
SaveAddsOver(v) ==
    /\ v.row # 0 /\ saves' = saves \ {v}
    /\ IF entries[v.row] = NoEntry THEN Refused(v)
       ELSE /\ entries' = [entries EXCEPT ![v.row].contacts = v.n]
            /\ UNCHANGED told
    /\ UNCHANGED <<presses, dials, stages, date, acts>>

\* The row found is added to, or the entry refused when it is gone by now.
SaveAdds(v) ==
    /\ v.row # 0 /\ saves' = saves \ {v}
    /\ IF entries[v.row] = NoEntry THEN Refused(v)
       ELSE /\ entries' = [entries EXCEPT ![v.row].contacts = @ + v.n]
            /\ UNCHANGED told
    /\ UNCHANGED <<presses, dials, stages, date, acts>>

\* No row was found: one is made.  Another save may have made its own since: the
\* unique key refuses a second of the same source, and does not know that two
\* without a source are of the same bucket.
SaveCreates(v) ==
    /\ v.row = 0 /\ saves' = saves \ {v}
    /\ IF v.of[3] # Untagged /\ \E k \in DOMAIN entries : entries[k].of = v.of THEN Refused(v)
       ELSE /\ entries' = [entries EXCEPT ![v.id] = [of |-> v.of, contacts |-> v.n]]
            /\ UNCHANGED told
    /\ UNCHANGED <<presses, dials, stages, date, acts>>

\* A correction is absolute: what it replaces is what the row holds by then.
patchSession(k, n) ==
    /\ Acts /\ entries[k] # NoEntry
    /\ entries' = [entries EXCEPT ![k].contacts = n]
    /\ told' = [told EXCEPT ![entries[k].of] = @ + n - entries[k].contacts]
    /\ UNCHANGED <<presses, dials, stages, saves, date>>

deleteSession(k) ==
    /\ Acts /\ entries[k] # NoEntry
    /\ entries' = [entries EXCEPT ![k] = NoEntry]
    /\ told' = [told EXCEPT ![entries[k].of] = @ - entries[k].contacts]
    /\ UNCHANGED <<presses, dials, stages, saves, date>>

NextDate ==
    /\ date < LastShown /\ date' = date + 1
    /\ UNCHANGED <<presses, dials, stages, entries, saves, told, acts>>

Tracking(agents, days) ==
    \/ NextDate
    \/ \E u \in Members, c \in Deals : Pressed(u, c) \/ \E d \in days : Closes(u, c, d, Untagged)
    \/ \E c \in Deals : DealDeleted(c)
    \/ \E u \in agents, s \in Sources, how \in {"duration", "lastCall", "none"} : Dialled(u, s, how)
    \/ \E a \in dials : CallsDeleted(a)
    \/ \E b \in agents \X days \X (Sources \cup {Untagged}) : SaveAsked(b, 1)
    \/ \E v \in saves : SaveAdds(v) \/ SaveCreates(v)
    \/ \E k \in DOMAIN entries : patchSession(k, 2) \/ deleteSession(k)

TrackerNext == Tracking(Members, Dates)

TrackerSpec == TrackerInit /\ [][TrackerNext]_trackerVars
=============================================================================
