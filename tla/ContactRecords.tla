--------------------------- MODULE ContactRecords ---------------------------
(***************************************************************************)
(* What contacts are: creating, editing, importing and merging them, Do Not *)
(* Call and suppressed numbers (src/routes/contact/service.ts), the         *)
(* dispositions (src/routes/systemSettings/dispositions/service.ts) and the *)
(* stage events of the tracker (src/routes/tracker/service.ts).             *)
(***************************************************************************)
EXTENDS ContactMoves

-----------------------------------------------------------------------------
(* Requests. *)

AskCreate ==
    {Ask("create", {c}, l, None, nums) :
       c \in Unborn, l \in OpenLists(db) \cup {None}, nums \in SUBSET Numbers}
AskUpdate ==
    {Ask("update", {c}, None, how, {}) : c \in Present(db),
       how \in {"DO_NOT_CALL", "FOLLOW_UP", "source"}}
    \cup {Ask("update", {c}, None, "phones", nums) : c \in Present(db), nums \in SUBSET Numbers}
\* What a file of one row, in whatever format and columns, comes to.
ParsedRows == {{n} : n \in Numbers}
AskImport ==
    {Ask("import", {c}, to, how, nums) : c \in Unborn, nums \in ParsedRows,
       to \in OpenLists(db) \cup OpenGroups(db) \cup (OpenFolders(db) \ {Dnc, Trash}),
       how \in {"KeepOld", "Overwrite"}}
\* The master is in `to`; both destinations are asked for.  Nothing keeps the
\* master out of the duplicates.
AskMerge ==
    {Ask("merge", S, <<c, l, f>>, None, {}) :
       S \in Groupings(db), c \in Present(db), l \in OpenLists(db), f \in OpenFolders(db)}
AskDnc == {Ask("dnc", {c}, None, None, {}) : c \in Present(db)}
AskBulkDnc == {Ask("bulkDnc", S, None, None, {}) : S \in Groupings(db)}
AskSuppress ==
    {Ask("suppress", {c}, None, None, {n}) : c \in Present(db), n \in Numbers}
AskDisposition ==
    {Ask("dispose", {c}, f, None, {}) : c \in Present(db), f \in OpenFolders(db) \ {Dnc}}
    \cup {Ask("dnc", {c}, None, None, {}) : c \in Present(db)}
AskTag == {Ask("tag", {c}, s, None, {}) : c \in Present(db), s \in Stages}

-----------------------------------------------------------------------------
(* Creating, editing, importing. *)

createContact(w) ==
    LET W == job[w] c == CHOOSE x \in W.ids : TRUE
    IN /\ Serves(w, "create")
       /\ Commits(w, (W.to = None \/ W.to \in OpenLists(db)) /\ W.ids \subseteq Unborn,
            [db EXCEPT !.contact[c] = Newborn(W.nums),
                       !.list = Pushed(db.list, W.to, W.ids)])

\* The status of Do Not Call adds its folder; new phones are new rows, which
\* are not blocked.
updateContact(w) ==
    LET W == job[w] c == CHOOSE x \in W.ids : TRUE
        dnc == W.how = "DO_NOT_CALL"
        old == db.contact[c]
    IN /\ Serves(w, "update")
       /\ Commits(w, W.ids \subseteq Present(db),
            [(IF dnc THEN Ensured(db, Dnc) ELSE db) EXCEPT !.contact[c] =
               CASE dnc -> [old EXCEPT !.status = W.how, !.folders = @ \cup {Dnc}]
                 [] W.how = "FOLLOW_UP" -> [old EXCEPT !.status = W.how]
                 [] W.how = "source" -> [old EXCEPT !.source = None]
                 [] OTHER -> [old EXCEPT !.phones = W.nums, !.blocked = {}]])

\* A file of one row.  Whether its number is known is looked up before the
\* transaction; a known contact is kept, or overwritten with new phones and
\* without its tags and source, and put where the import goes, too.
\* findFirst has no order: any of the contacts with the number is the one.
Owners(seen, nums) == {c \in Present(seen) : seen.contact[c].phones \cap nums # {}}
Inserted(d, c, nums) == [d EXCEPT !.contact[c] = Newborn(nums)]
Overwritten(d, c, nums) ==
    [d EXCEPT !.contact[c] = [@ EXCEPT !.phones = nums, !.blocked = {}, !.source = None,
                                       !.mpl = FALSE]]
PutInto(d, to, c) ==
    CASE to \in Lists -> [d EXCEPT !.list = Pushed(@, to, {c})]
      [] to \in Groups -> [d EXCEPT !.group = Pushed(@, to, {c})]
      [] OTHER -> [d EXCEPT !.folder = Pushed(@, to, {c}), !.contact[c].folders = @ \cup {to}]

importContacts(w) ==
    LET W == job[w]
        new == CHOOSE x \in W.ids : TRUE
        there == W.to \in OpenLists(db) \cup OpenGroups(db) \cup OpenFolders(db)
    IN /\ Serves(w, "import")
       /\ \/ /\ Owners(W.seen, W.nums) = {}
             /\ Commits(w, there /\ W.ids \subseteq Unborn,
                        PutInto(Inserted(db, new, W.nums), W.to, new))
          \/ /\ Owners(W.seen, W.nums) # {} /\ W.how = "KeepOld"
             /\ Commits(w, TRUE, db)
          \/ /\ W.how = "Overwrite"
             /\ \E c \in Owners(W.seen, W.nums) :
                  Commits(w, there /\ c \in Present(db),
                          PutInto(Overwritten(db, c, W.nums), W.to, c))

-----------------------------------------------------------------------------
(* Merging duplicates into a master. *)

\* The commission of some events, counted by its units.
Units(seen, E) == UNION {{e} \X (1..seen.event[e].gci) : e \in E}
Sum(seen, E) == Cardinality(Units(seen, E))
FirstDay(seen, E) ==
    CHOOSE d \in {seen.event[e].on : e \in E} : \A e \in E : d <= seen.event[e].on

\* Mutant: the index of the master's events is not kept up with the merge, so
\* that the last duplicate is added to what the master had.
GciStale(seen, E) ==
    LET e == CHOOSE x \in E : \A y \in E : y <= x
        m == CHOOSE x \in E : \A y \in E : x <= y
    IN IF e = m THEN seen.event[e].gci ELSE seen.event[m].gci + seen.event[e].gci

\* What the events of one stage, of all that are merged, come to.
MergedGci(seen, E) == Sum(seen, E)

EventsOf(seen, S) == {e \in Events : seen.event[e].live /\ seen.event[e].of \in S}
\* @@unique([contactId, stage])
OneEventEach(d) ==
    \A c \in Contacts, s \in Stages :
        Cardinality({e \in EventsOf(d, {c}) : d.event[e].stage = s}) <= 1
mergedEvents(d, seen, master, dups) ==
    LET at(s) == {e \in EventsOf(seen, dups \cup {master}) : seen.event[e].stage = s}
        own(s) == {e \in at(s) : seen.event[e].of = master}
        survivor(s) == CHOOSE e \in at(s) :
                          own(s) # {} => e \in own(s)
        stages == {s \in Stages : at(s) \ own(s) # {}}
    IN [e \in Events |->
          LET s == seen.event[e].stage
          IN IF e \notin EventsOf(seen, dups \cup {master}) \/ s \notin stages THEN d.event[e]
             ELSE IF e # survivor(s) THEN NoEvent
             ELSE IF at(s) = {e} THEN [d.event[e] EXCEPT !.of = master]
             ELSE [d.event[e] EXCEPT !.of = master, !.on = FirstDay(seen, at(s)),
                                     !.gci = MergedGci(seen, at(s))]]

\* Of a stage that the master had reached, its own event is the survivor: when
\* it is one of the duplicates' too, it is deleted in its turn.
SharedStage(seen, master, e) ==
    \E x \in EventsOf(seen, {master}) : seen.event[x].stage = seen.event[e].stage
Dissolved(events, seen, master, all) ==
    [e \in Events |-> IF e \in EventsOf(seen, all) /\ SharedStage(seen, master, e) THEN NoEvent
                     ELSE events[e]]

\* Each shares a phone with the master; the merged contact is moved to one
\* list and one folder; the duplicates are deleted, but not from the groups
\* and folders, and without a backup or tombstone.  A master among its
\* duplicates is deleted with them, unless another's event of a stage comes
\* after its own, which is gone by then, and the merge throws.
mergeContacts(w) ==
    LET W == job[w]
        master == W.to[1] l == W.to[2] f == W.to[3]
        itself == master \in W.ids
        dups == (W.ids \ {master}) \cap Present(W.seen)
        all == dups \cup {master}
        ends == IF itself THEN all ELSE dups
        phones == UNION {W.seen.contact[c].phones : c \in all}
        related == \A c \in dups :
                      W.seen.contact[c].phones \cap W.seen.contact[master].phones # {}
        lists == ListsWith(W.seen, all)
        left == Scrubbed(db.list, W.seen.list, lists, all)
        target == (IF l \in lists THEN left[l].members ELSE W.seen.list[l].members) \cup {master}
        events == mergedEvents(db, W.seen, master, dups)
        merged == [db EXCEPT
                     !.list = [left EXCEPT ![l].members = target],
                     !.contact[master].phones = phones, !.contact[master].blocked = {},
                     !.contact[master].folders = {f},
                     !.contact[master].mpl = \E c \in all : W.seen.contact[c].mpl,
                     !.event = IF itself THEN Dissolved(events, W.seen, master, all) ELSE events]
        ok == /\ related /\ dups # {} /\ master \in Present(db)
              /\ lists \cup {l} \subseteq OpenLists(db)
              /\ \A e \in EventsOf(W.seen, all) :
                   (\E x \in EventsOf(W.seen, ends) : W.seen.event[x].stage = W.seen.event[e].stage)
                   => db.event[e].live
              /\ OneEventEach(merged)
        mayThrow == itself /\ \E e \in EventsOf(W.seen, dups) : SharedStage(W.seen, master, e)
    IN /\ Serves(w, "merge")
       /\ \E throws \in {FALSE, mayThrow} :
            Ends(w, ok /\ ~throws, Deleted(merged, ends), ends,
                 IF itself THEN "dissolved" ELSE "merged")

-----------------------------------------------------------------------------
(* Do Not Call. *)

moveToDnc(w) ==
    LET W == job[w] c == CHOOSE x \in W.ids : TRUE
        lists == ListsWith(W.seen, W.ids)
    IN /\ Serves(w, "dnc")
       /\ Commits(w, W.ids \subseteq Present(db) /\ lists \subseteq OpenLists(db),
            [Ensured(db, Dnc) EXCEPT
               !.list = Scrubbed(db.list, W.seen.list, lists, W.ids),
               !.contact[c] = [@ EXCEPT !.status = "DO_NOT_CALL", !.folders = {Dnc},
                                        !.blocked = db.contact[c].phones, !.plan = FALSE]])

removeFromDnc ==
    \E c \in Present(db) : Statement([db EXCEPT !.contact[c].status = "PENDING"])

\* All the reads of a list come before its first write, so that the last one
\* stands: it takes out one contact only.
bulkMoveToDnc(w) ==
    LET W == job[w] S == W.ids
        lists == ListsWith(W.seen, S)
    IN /\ Serves(w, "bulkDnc")
       /\ \E last \in [lists -> S] :
            /\ \A l \in lists : last[l] \in W.seen.list[l].members
            /\ Commits(w, S \subseteq Present(db) /\ lists \subseteq OpenLists(db),
                 [Ensured(db, Dnc) EXCEPT
                    !.list = [l \in Lists |->
                       IF l \in lists
                       THEN [db.list[l] EXCEPT !.members = W.seen.list[l].members \ {last[l]}]
                       ELSE db.list[l]],
                    !.contact = [c \in Contacts |->
                       IF c \in S
                       THEN [db.contact[c] EXCEPT !.status = "DO_NOT_CALL",
                                                  !.folders = @ \cup {Dnc}]
                       ELSE db.contact[c]]])

\* The number is blocked for every contact; then the one at hand is moved to
\* Do Not Call if it has no number left.
suppressNumber(w) ==
    LET W == job[w]
        now == [db EXCEPT
                  !.suppressed = @ \cup W.nums,
                  !.contact = [c \in Contacts |->
                     [db.contact[c] EXCEPT !.blocked = @ \cup (W.nums \cap db.contact[c].phones)]]]
    IN /\ Serves(w, "suppress")
       /\ db' = now
       /\ job' = [job EXCEPT ![w] = [Idle EXCEPT !.op = "remaining", !.ids = W.ids]]
       /\ UNCHANGED <<queue, fate, origin, asked>>
suppressedLast(w) ==
    LET c == CHOOSE x \in job[w].ids : TRUE
        last == db.contact[c].phones # {} /\ db.contact[c].phones = db.contact[c].blocked
    IN /\ Serves(w, "remaining")
       /\ job' = [job EXCEPT ![w] = IF last THEN [@ EXCEPT !.op = "dnc", !.seen = db]
                                    ELSE Idle]
       /\ UNCHANGED <<db, queue, fate, origin, asked>>

markAsContacted ==
    \E c \in Present(db) : Statement([db EXCEPT !.contact[c].status = "CONTACTED"])

-----------------------------------------------------------------------------
(* Dispositions and stage events. *)

\* A disposition with a folder moves the contact there; not a transaction:
\* the lists are written even if the contact is then found gone.
applyDisposition(w) ==
    LET W == job[w] c == CHOOSE x \in W.ids : TRUE
        lists == ListsWith(W.seen, W.ids)
        open == lists \cap OpenLists(db)
        left == [db EXCEPT !.list = Scrubbed(db.list, W.seen.list, open, W.ids)]
    IN /\ Serves(w, "dispose")
       /\ Commits(w, TRUE,
            IF c \in Present(db) /\ open = lists THEN [left EXCEPT !.contact[c].folders = {W.to}] ELSE left)

HasEvent(d, c, s) == {e \in EventsOf(d, {c}) : d.event[e].stage = s}
Entered(d, c, s, gci, on) ==
    [d EXCEPT !.event[d.booked + 1] =
                 [live |-> TRUE, of |-> c, stage |-> s, gci |-> gci, on |-> on],
              !.booked = @ + 1]

\* setContactDispositions: six of the tags are stages; a stage that was
\* reached before is left as it is.
setContactDispositions(w) ==
    LET W == job[w] c == CHOOSE x \in W.ids : TRUE
    IN /\ Serves(w, "tag")
       /\ \E today \in 0..MaxDay :
            Commits(w, W.ids \subseteq Present(db),
                    IF HasEvent(db, c, W.to) # {} \/ db.booked = MaxEvents THEN db
                    ELSE Entered(db, c, W.to, 0, today))

\* createStageEvent sets what is there, or enters it.
createStageEvent ==
    \E c \in Present(db), s \in Stages, gci \in 0..MaxGci, on \in 0..MaxDay :
       Statement(
         IF HasEvent(db, c, s) = {}
         THEN IF db.booked < MaxEvents THEN Entered(db, c, s, gci, on) ELSE db
         ELSE [db EXCEPT !.event[CHOOSE e \in HasEvent(db, c, s) : TRUE].gci = gci,
                         !.event[CHOOSE e \in HasEvent(db, c, s) : TRUE].on = on])
deleteStageEvent ==
    \E e \in Events : db.event[e].live /\ Statement([db EXCEPT !.event[e] = NoEvent])
=============================================================================
