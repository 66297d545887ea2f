-------------------------------- MODULE Agenda --------------------------------
(***************************************************************************)
(* Callbacks, appointments, tasks and calendar events of an agent           *)
(* (src/routes/callbacks, appointments, tasks, calender), the events that    *)
(* mirror them in the agent's Google and Outlook calendars                  *)
(* (src/routes/calendarSync) and the two jobs of each minute that remind of  *)
(* them and make callbacks due (src/jobs).                                  *)
(*                                                                         *)
(* A handler reads its row, writes it and answers; the calls to the         *)
(* providers are started and not waited for, and their ids are stored when  *)
(* both have answered.  Neither they nor the jobs hold a lock.              *)
(***************************************************************************)
EXTENDS Integers, Sequences, FiniteSets, SequencesExt

CONSTANTS
    Items,            \* ids of rows
    Contacts,         \* those that the items are of
    Quiet,            \* the items whose agent has switched reminders off
    MaxNow,           \* bound of the clock, in minutes
    Ahead, Behind,    \* a callback is due from Ahead before until Behind after
    MissedAfter,      \* minutes after which a callback is missed
    Snooze,           \* minutes that snoozing adds to now
    ReminderLead,     \* minutes before an event that its reminder is sent
    TaskLead,         \* ... and before a task is due
    MaxRemote,        \* bound of the events made at the providers
    MaxHandlers,      \* bound of the requests and jobs under way
    MaxEdits,         \* bound of the requests that change a row
    Unset

ASSUME AgendaAssumption ==
    /\ {Ahead, Behind, MissedAfter, Snooze, ReminderLead, TaskLead} \subseteq Nat
    /\ Behind <= MissedAfter
    /\ Unset \notin {"callback", "appointment", "task", "event", "removed", "CANCELLED"}

VARIABLES
    item,             \* the rows
    hold,             \* Contact.queueStatus
    linked,           \* the providers with a token
    remote,           \* external: the events at the providers
    busy,             \* handlers, jobs and calls to providers under way
    edits, now

agendaVars == <<item, hold, linked, remote, busy, edits, now>>

Types == {"callback", "appointment", "task", "event"}
Providers == {"GOOGLE", "OUTLOOK"}
Times == 0..(MaxNow + Snooze)

NoItem == [kind |-> Unset, status |-> Unset, of |-> Unset, at |-> 0, ext |-> 0,
           via |-> Unset, reminded |-> FALSE, told |-> FALSE]
StatusesOf(kind) ==
    CASE kind = "callback" -> {"PENDING", "DUE", "COMPLETED", "MISSED", "CANCELLED"}
      [] kind = "appointment" -> {"SET", "MET", "CANCELLED", "NO_SHOW"}
      [] kind = "task" -> {"OPEN", "IN_PROGRESS", "DONE", "CANCELLED"}
      [] kind = "event" -> {"SET", "MET", "CANCELLED"}

There(i) == item[i].kind \in Types
Room == Cardinality({h \in busy : h.op \notin {"syncing", "deleting", "mark"}}) < MaxHandlers

AgendaInit ==
    /\ item = [i \in Items |-> NoItem]
    /\ hold = [c \in Contacts |-> "ACTIVE"]
    /\ linked \in SUBSET Providers
    /\ remote = <<>> /\ busy = {} /\ edits = 0 /\ now = 0

-----------------------------------------------------------------------------
(* What is started without being waited for. *)

\* Both providers are called with the id that was stored; keep says whether
\* what they answer is stored.
Syncing(i, ext, keep) ==
    [op |-> "syncing", item |-> i, ext |-> ext, keep |-> keep, left |-> Providers,
     got |-> [p \in Providers |-> 0]]
Deleting(i, ext) ==
    [op |-> "deleting", item |-> i, ext |-> ext, keep |-> FALSE, left |-> Providers,
     got |-> [p \in Providers |-> 0]]

Create(i, kind, status, c, t) ==
    /\ item[i].kind = Unset /\ Room
    /\ item' = [item EXCEPT ![i] =
         [NoItem EXCEPT !.kind = kind, !.status = status, !.of = c, !.at = t]]
    /\ busy' = busy \cup {Syncing(i, 0, TRUE)}
    /\ UNCHANGED <<linked, remote, edits, now>>

createCallback(i, c, t) ==
    /\ Create(i, "callback", "PENDING", c, t)
    /\ hold' = [hold EXCEPT ![c] = "CALLBACK_HOLD"]

createAppointment(i, c, t) ==
    /\ Create(i, "appointment", "SET", c, t)
    /\ hold' = [hold EXCEPT ![c] = "APPOINTMENT_HOLD"]

createTask(i, c, t) == Create(i, "task", "OPEN", c, t) /\ UNCHANGED hold

createCalendarEvent(i, c, t) == Create(i, "event", "SET", c, t) /\ UNCHANGED hold

-----------------------------------------------------------------------------
(* Requests on a row: the row is read, and written at the next await. *)

Request(op, i, status, t) == [op |-> op, item |-> i, status |-> status, at |-> t, ext |-> item[i].ext]

\* The request finds its row and sees what id is stored.
Asks(op, i, status, t) ==
    /\ There(i) /\ Room /\ edits < MaxEdits
    /\ busy' = busy \cup {Request(op, i, status, t)}
    /\ edits' = edits + 1
    /\ UNCHANGED <<item, hold, linked, remote, now>>

Ask(i, times) ==
    /\ There(i)
    /\ \/ \E status \in StatusesOf(item[i].kind) \cup {Unset}, t \in times \cup {-1} :
            (status = Unset => t # -1) /\ Asks("update", i, status, t)
       \/ item[i].kind = "callback" /\ (Asks("snooze", i, "PENDING", -1)
                                        \/ Asks("complete", i, "COMPLETED", -1))
       \/ item[i].kind # "event" /\ Asks("delete", i, "CANCELLED", -1)
       \/ item[i].kind = "event" /\ Asks("remove", i, Unset, -1)

\* The fields that the request names; the reminder mark is not among them.
Written(row, r) ==
    [row EXCEPT !.status = IF r.status = Unset THEN @ ELSE r.status,
                !.at = CASE r.op = "snooze" -> now + Snooze
                         [] r.at = -1 -> @
                         [] OTHER -> r.at]

Writes(h, next) ==
    /\ item' = [item EXCEPT ![h.item] = Written(@, h)]
    /\ busy' = (busy \ {h}) \cup next
    /\ UNCHANGED <<linked, remote, edits, now>>

\* A callback whose event is known is synced when its time changes, and what
\* comes back is not stored; one that is over has its event deleted.
updateCallback(h) ==
    /\ h.op = "update" /\ item[h.item].kind = "callback"
    /\ Writes(h, IF h.ext = 0 THEN {}
                 ELSE IF h.status \in {"CANCELLED", "COMPLETED"} THEN {Deleting(h.item, h.ext)}
                 ELSE IF h.at # -1 THEN {Syncing(h.item, item[h.item].ext, FALSE)} ELSE {})
    /\ UNCHANGED hold

snoozeCallback(h) ==
    /\ h.op = "snooze" /\ now + Snooze \in Times
    /\ Writes(h, IF h.ext = 0 THEN {} ELSE {Syncing(h.item, item[h.item].ext, FALSE)})
    /\ UNCHANGED hold

completeCallback(h) ==
    /\ h.op = "complete"
    /\ Writes(h, IF h.ext = 0 THEN {} ELSE {Deleting(h.item, h.ext)})
    /\ UNCHANGED hold

deleteCallback(h) ==
    /\ h.op = "delete" /\ item[h.item].kind = "callback"
    /\ Writes(h, IF h.ext = 0 THEN {} ELSE {Deleting(h.item, h.ext)})
    /\ UNCHANGED hold

\* An appointment is synced by any update that does not cancel it, and by one
\* that does if its event is not known yet.
updateAppointment(h) ==
    /\ h.op = "update" /\ item[h.item].kind = "appointment"
    /\ Writes(h, IF h.status = "CANCELLED" /\ h.ext # 0 THEN {Deleting(h.item, h.ext)}
                 ELSE {Syncing(h.item, item[h.item].ext, TRUE)})
    /\ hold' = IF h.status = "CANCELLED"
               THEN [hold EXCEPT ![item[h.item].of] = "ACTIVE"] ELSE hold

\* Mutant: the appointment is cancelled, and its contact is not released.
CancelledOnly(h) ==
    /\ h.op = "delete" /\ item[h.item].kind = "appointment"
    /\ Writes(h, IF h.ext = 0 THEN {} ELSE {Deleting(h.item, h.ext)})
    /\ UNCHANGED hold

deleteAppointment(h) ==
    /\ h.op = "delete" /\ item[h.item].kind = "appointment"
    /\ Writes(h, IF h.ext = 0 THEN {} ELSE {Deleting(h.item, h.ext)})
    /\ hold' = [hold EXCEPT ![item[h.item].of] = "ACTIVE"]

updateTask(h) ==
    /\ h.op = "update" /\ item[h.item].kind = "task"
    /\ Writes(h, IF h.ext = 0 THEN {}
                 ELSE IF h.status \in {"DONE", "CANCELLED"} THEN {Deleting(h.item, h.ext)}
                 ELSE IF h.at # -1 THEN {Syncing(h.item, item[h.item].ext, FALSE)} ELSE {})
    /\ UNCHANGED hold

deleteTask(h) ==
    /\ h.op = "delete" /\ item[h.item].kind = "task"
    /\ Writes(h, IF h.ext = 0 THEN {} ELSE {Deleting(h.item, h.ext)})
    /\ UNCHANGED hold

\* With the id that was read, and nothing stored of what comes back.
updateCalendarEvent(h) ==
    /\ h.op = "update" /\ item[h.item].kind = "event"
    /\ Writes(h, IF h.status \in {"CANCELLED", "MET"} /\ h.ext # 0
                 THEN {Deleting(h.item, h.ext)} ELSE {Syncing(h.item, h.ext, FALSE)})
    /\ UNCHANGED hold

deleteCalendarEvent(h) ==
    /\ h.op = "remove"
    /\ item' = [item EXCEPT ![h.item].kind = "removed"]
    /\ busy' = (busy \ {h}) \cup (IF h.ext = 0 THEN {} ELSE {Deleting(h.item, h.ext)})
    /\ UNCHANGED <<hold, linked, remote, edits, now>>

-----------------------------------------------------------------------------
(* The providers. *)

Live(k, p) == k \in DOMAIN remote /\ remote[k].live /\ remote[k].via = p
Answered(h, p, id) ==
    busy' = (busy \ {h}) \cup {[h EXCEPT !.left = @ \ {p}, !.got[p] = id]}

\* The stored event is updated; when that fails, for whatever reason, another
\* is inserted.  Without a token, or when both fail, there is no id.
SyncsWith(p, h) ==
    /\ h.op = "syncing" /\ p \in h.left
    /\ \/ p \in linked /\ Live(h.ext, p) /\ Answered(h, p, h.ext) /\ UNCHANGED remote
       \/ /\ p \in linked /\ Len(remote) < MaxRemote
          /\ remote' = Append(remote, [of |-> h.item, via |-> p, live |-> TRUE])
          /\ Answered(h, p, Len(remote'))
       \/ Answered(h, p, 0) /\ UNCHANGED remote
    /\ UNCHANGED <<item, hold, linked, edits, now>>

GoogleSyncs(h) == SyncsWith("GOOGLE", h)
OutlookSyncs(h) == SyncsWith("OUTLOOK", h)

DeletesWith(p, h) ==
    /\ h.op = "deleting" /\ p \in h.left
    /\ \/ /\ p \in linked /\ Live(h.ext, p)
          /\ remote' = [remote EXCEPT ![h.ext].live = FALSE]
       \/ UNCHANGED remote
    /\ busy' = (busy \ {h}) \cup (IF h.left = {p} THEN {} ELSE {[h EXCEPT !.left = @ \ {p}]})
    /\ UNCHANGED <<item, hold, linked, edits, now>>

GoogleDeletes(h) == DeletesWith("GOOGLE", h)
OutlookDeletes(h) == DeletesWith("OUTLOOK", h)

\* Mutant: Outlook's id is stored as Google's.
OutlookFirst(h) ==
    [ext |-> IF h.got["OUTLOOK"] # 0 THEN h.got["OUTLOOK"] ELSE h.got["GOOGLE"],
     via |-> IF h.got["GOOGLE"] # 0 THEN "GOOGLE"
             ELSE IF h.got["OUTLOOK"] # 0 THEN "OUTLOOK" ELSE Unset]

\* Of two events, Google's is the one that is remembered.
Remembered(h) ==
    [ext |-> IF h.got["GOOGLE"] # 0 THEN h.got["GOOGLE"] ELSE h.got["OUTLOOK"],
     via |-> IF h.got["GOOGLE"] # 0 THEN "GOOGLE"
             ELSE IF h.got["OUTLOOK"] # 0 THEN "OUTLOOK" ELSE Unset]

\* Both have answered: a new id is stored, if the row is still there.
SyncSettles(h) ==
    /\ h.op = "syncing" /\ h.left = {}
    /\ item' = IF h.keep /\ Remembered(h).ext \notin {0, h.ext} /\ item[h.item].kind # "removed"
               THEN [item EXCEPT ![h.item].ext = Remembered(h).ext,
                                 ![h.item].via = Remembered(h).via]
               ELSE item
    /\ busy' = busy \ {h}
    /\ UNCHANGED <<hold, linked, remote, edits, now>>

\* handleOAuthCallback and handleOutlookOAuthCallback, disconnectProvider.
Connects(p) ==
    /\ p \notin linked /\ linked' = linked \cup {p}
    /\ UNCHANGED <<item, hold, remote, busy, edits, now>>
Disconnects(p) ==
    /\ p \in linked /\ linked' = linked \ {p}
    /\ UNCHANGED <<item, hold, remote, busy, edits, now>>

\* The agent deletes an event in the provider's calendar.
DeletedThere(k) ==
    /\ remote[k].live
    /\ remote' = [remote EXCEPT ![k].live = FALSE]
    /\ UNCHANGED <<item, hold, linked, busy, edits, now>>

-----------------------------------------------------------------------------
(* The reminder job: events, then tasks.  Ticks may overlap, and each goes by *)
(* its own time and the rows that it read. *)

Upcoming(t) ==
    {i \in Items : /\ item[i].kind = "event" /\ item[i].status = "SET" /\ ~item[i].reminded
                   /\ item[i].at > t /\ t >= item[i].at - ReminderLead}
DueTasks(t) ==
    {i \in Items : /\ item[i].kind = "task" /\ item[i].status \in {"OPEN", "IN_PROGRESS"}
                   /\ ~item[i].reminded /\ item[i].at > t /\ item[i].at <= t + TaskLead}

Tick(op, S, t) == [op |-> op, items |-> S, time |-> t]

\* The row before is still being marked.
Marking(h) == \E m \in busy : m.op = "mark" /\ m.time = h.time

\* At most one job of a kind starts in a minute.
ReminderTick ==
    /\ Room /\ ~\E h \in busy : h.op \in {"remind", "mark", "tasks"} /\ h.time = now
    /\ busy' = busy \cup {Tick("remind", Upcoming(now), now)}
    /\ UNCHANGED <<item, hold, linked, remote, edits, now>>

\* Mutant: what throws is marked all the same.
MarksAnyway(h, i) ==
    /\ h.op \in {"remind", "tasks"} /\ i \in h.items /\ ~Marking(h)
    /\ item' \in {item, [item EXCEPT ![i].told = TRUE]}
    /\ busy' = (busy \ {h}) \cup
         {[h EXCEPT !.items = @ \ {i}], [op |-> "mark", item |-> i, time |-> h.time]}
    /\ UNCHANGED <<hold, linked, remote, edits, now>>

\* The notification is made and the mails are tried, unless the settings say
\* no; what throws leaves the event to a later tick.
Reminds(h, i) ==
    /\ h.op \in {"remind", "tasks"} /\ i \in h.items /\ ~Marking(h)
    /\ \/ /\ item' = [item EXCEPT ![i].told = (@ \/ i \notin Quiet \/ item[i].kind = "task")]
          /\ busy' = (busy \ {h}) \cup
               {[h EXCEPT !.items = @ \ {i}],
                [op |-> "mark", item |-> i, time |-> h.time]}
       \/ item' = item /\ busy' = (busy \ {h}) \cup {[h EXCEPT !.items = @ \ {i}]}
    /\ UNCHANGED <<hold, linked, remote, edits, now>>

Marks(h) ==
    /\ h.op = "mark"
    /\ item' = IF There(h.item) THEN [item EXCEPT ![h.item].reminded = TRUE] ELSE item
    /\ busy' = busy \ {h}
    /\ UNCHANGED <<hold, linked, remote, edits, now>>

\* The tasks are read when the events are done with.
TasksRead(h) ==
    /\ h.op = "remind" /\ h.items = {} /\ ~Marking(h)
    /\ busy' = (busy \ {h}) \cup {Tick("tasks", DueTasks(h.time), h.time)}
    /\ UNCHANGED <<item, hold, linked, remote, edits, now>>

TickEnds(h) ==
    /\ h.op \in {"tasks", "due"} /\ h.items = {} /\ ~Marking(h)
    /\ busy' = busy \ {h}
    /\ UNCHANGED <<item, hold, linked, remote, edits, now>>

-----------------------------------------------------------------------------
(* The callback job. *)

Pending(i) == item[i].kind = "callback" /\ item[i].status = "PENDING"

\* What is overdue is missed.
CallbackTick ==
    /\ Room /\ ~\E h \in busy : h.op \in {"window", "due"} /\ h.time = now
    /\ item' = [i \in Items |->
         IF Pending(i) /\ item[i].at < now - MissedAfter
         THEN [item[i] EXCEPT !.status = "MISSED"] ELSE item[i]]
    /\ busy' = busy \cup {Tick("window", {}, now)}
    /\ UNCHANGED <<hold, linked, remote, edits, now>>

WindowRead(h) ==
    /\ h.op = "window"
    /\ busy' = (busy \ {h}) \cup
         {Tick("due", {i \in Items : Pending(i) /\ item[i].at \in (h.time - Behind)..(h.time + Ahead)},
               h.time)}
    /\ UNCHANGED <<item, hold, linked, remote, edits, now>>

\* Those that were read are due, whatever has become of them.
DueWritten(h) ==
    /\ h.op = "due" /\ h.items # {}
    /\ item' = [i \in Items |-> IF i \in h.items THEN [item[i] EXCEPT !.status = "DUE"] ELSE item[i]]
    /\ busy' = busy \ {h}
    /\ UNCHANGED <<hold, linked, remote, edits, now>>

\* What the agent's screen polls for.
getDueCallbacks ==
    {i \in Items : \/ item[i].kind = "callback" /\ item[i].status = "DUE"
                   \/ Pending(i) /\ item[i].at <= now + Ahead}

Minute ==
    /\ now < MaxNow /\ now' = now + 1
    /\ UNCHANGED <<item, hold, linked, remote, busy, edits>>

-----------------------------------------------------------------------------
Creates(kinds, rows, times) ==
    \E i \in rows, c \in Contacts, t \in times :
        \/ "callback" \in kinds /\ createCallback(i, c, t)
        \/ "appointment" \in kinds /\ createAppointment(i, c, t)
        \/ "task" \in kinds /\ createTask(i, c, t)
        \/ "event" \in kinds /\ createCalendarEvent(i, c, t)

Handles(times) ==
    \/ \E i \in Items : Ask(i, times)
    \/ \E h \in busy :
         \/ updateCallback(h) \/ snoozeCallback(h) \/ completeCallback(h) \/ deleteCallback(h)
         \/ updateAppointment(h) \/ deleteAppointment(h) \/ updateTask(h) \/ deleteTask(h)
         \/ updateCalendarEvent(h) \/ deleteCalendarEvent(h)

Mirrors ==
    \/ \E h \in busy :
         \/ GoogleSyncs(h) \/ OutlookSyncs(h) \/ GoogleDeletes(h) \/ OutlookDeletes(h)
         \/ SyncSettles(h)
    \/ \E p \in Providers : Connects(p) \/ Disconnects(p)
    \/ \E k \in DOMAIN remote : DeletedThere(k)

Reminders ==
    \/ ReminderTick \/ Minute
    \/ \E h \in busy : Marks(h) \/ TasksRead(h) \/ TickEnds(h) \/ \E i \in Items : Reminds(h, i)

Dues ==
    \/ CallbackTick \/ Minute
    \/ \E h \in busy : WindowRead(h) \/ DueWritten(h) \/ TickEnds(h)

AgendaNext == Creates(Types, Items, Times) \/ Handles(Times) \/ Mirrors \/ Reminders \/ Dues

AgendaSpec == AgendaInit /\ [][AgendaNext]_agendaVars
=============================================================================
