---------------------------- MODULE ContactState ----------------------------
(***************************************************************************)
(* The contacts of one tenant as src/routes/contact/service.ts keeps them   *)
(* in Postgres: the contacts, the lists, folders and groups that hold their *)
(* ids in arrays, the backups of deleted contacts, the funnel's stage       *)
(* events, the suppressed numbers and the tombstones of imported listings.  *)
(*                                                                         *)
(* A handler is modelled by two steps: it begins, when it reads what it     *)
(* goes by (seen, a snapshot), and it commits, when all that it writes      *)
(* becomes visible at once.  Postgres runs its transactions at READ         *)
(* COMMITTED, so what others committed in between is overwritten by arrays  *)
(* built from the snapshot, which is what overlapping requests can do; an   *)
(* update of a row that is gone throws and undoes the whole transaction.    *)
(* A handler of a single statement is a single step.                        *)
(***************************************************************************)
EXTENDS Naturals, FiniteSets, Sequences

CONSTANTS
    Contacts, Lists, Folders, Groups,    \* ids of rows
    Dnc, Trash,       \* the system folders "Do Not Call" and "Trash"
    Numbers,          \* phone numbers
    Listings,         \* MyPlusLeads listings (MLS numbers)
    Stages,           \* stages of the prospecting funnel
    Workers,          \* requests and jobs that run at the same time
    MaxBackups,       \* bound: backup rows
    MaxEvents,        \* bound: stage events
    MaxGci, MaxDay,   \* bounds: commission of a stage event, days it is on
    MaxRequests,      \* bound: requests of a behaviour
    None

ASSUME ContactAssumption ==
    /\ \A n \in {MaxBackups, MaxEvents, MaxGci, MaxDay, MaxRequests} : n \in Nat \ {0}
    /\ Dnc # Trash /\ {Dnc, Trash} \cap Folders = {}
    /\ None \notin Listings

VARIABLES
    db,               \* the rows
    job,              \* the request a worker serves and what it has read
    queue,            \* the syncs of the user that wait for their turn
    fate,             \* history: what became of each contact
    origin,           \* history: the listing a contact was imported from
    asked             \* the requests so far

contactVars == <<db, job, queue, fate, origin, asked>>

Homes == Folders \cup {Dnc, Trash}
Statuses == {"PENDING", "CONTACTED", "FOLLOW_UP", "DO_NOT_CALL"}
Life == {"new", "open", "gone"}
Backups == 1..MaxBackups
Events == 1..MaxEvents
\* "dissolved": merged into a master that was one of the duplicates itself.
Fates == {"unborn", "known", "merged", "dissolved", "erased"}

\* A contact: its source is the listing it was imported from, the list it was
\* last moved to, or something else; mpl is the tag "MyPlusLeads"; blocked are
\* the phones with isDnc; plan is an action plan in progress.
Contact == [present : BOOLEAN, status : Statuses, folders : SUBSET Homes,
            phones : SUBSET Numbers, blocked : SUBSET Numbers,
            source : Listings \cup Lists \cup {None}, mpl : BOOLEAN, plan : BOOLEAN]
Absent == [present |-> FALSE, status |-> "PENDING", folders |-> {}, phones |-> {},
           blocked |-> {}, source |-> None, mpl |-> FALSE, plan |-> FALSE]
Newborn(nums) == [Absent EXCEPT !.present = TRUE, !.phones = nums]

NotSaved == [contact |-> Absent, lists |-> {}, groups |-> {}]
NoEvent == [live |-> FALSE, of |-> None, stage |-> None, gci |-> 0, on |-> 0]

Idle == [op |-> "idle", ids |-> {}, to |-> None, how |-> None, nums |-> {}, seen |-> None]
Ask(op, ids, to, how, nums) ==
    [op |-> op, ids |-> ids, to |-> to, how |-> how, nums |-> nums]

Tables ==
    [contact : [Contacts -> Contact],
     list : [Lists -> [life : Life, members : SUBSET Contacts, folder : Folders \cup {None}]],
     folder : [Homes -> [life : Life, members : SUBSET Contacts]],
     group : [Groups -> [life : Life, members : SUBSET Contacts]],
     backup : [Backups -> [Contacts -> [contact : Contact, lists : SUBSET Lists,
                                        groups : SUBSET Groups]]],
     rows : 0..MaxBackups,
     event : [Events -> [live : BOOLEAN, of : Contacts \cup {None}, stage : Stages \cup {None},
                         gci : Nat, on : 0..MaxDay]],
     booked : 0..MaxEvents,
     suppressed : SUBSET Numbers, tombstone : SUBSET (Listings \cup Lists)]

ContactTypeOK ==
    /\ db \in Tables
    /\ fate \in [Contacts -> Fates]
    /\ origin \in [Contacts -> Listings \cup {None}]
    /\ \A w \in Workers : job[w].ids \subseteq Contacts
    /\ asked \in 0..MaxRequests

-----------------------------------------------------------------------------
(* Reading the rows d. *)

Present(d) == {c \in Contacts : d.contact[c].present}
OpenLists(d) == {l \in Lists : d.list[l].life = "open"}
OpenGroups(d) == {g \in Groups : d.group[g].life = "open"}
OpenFolders(d) == {f \in Homes : d.folder[f].life = "open"}

ListsWith(d, S) == {l \in OpenLists(d) : d.list[l].members \cap S # {}}
GroupsWith(d, S) == {g \in OpenGroups(d) : d.group[g].members \cap S # {}}
FoldersWith(d, S) == {f \in OpenFolders(d) : d.folder[f].members \cap S # {}}

Unborn == {c \in Contacts : fate[c] = "unborn"}
RowOf(d, c) == {b \in Backups : d.backup[b][c] # NotSaved}

-----------------------------------------------------------------------------
(* Writing them.  An array without S is built from the snapshot; a push is   *)
(* the database's own.                                                      *)

Scrubbed(now, seen, which, S) ==
    [k \in DOMAIN now |-> IF k \in which
                          THEN [now[k] EXCEPT !.members = seen[k].members \ S]
                          ELSE now[k]]
Pushed(now, k, S) == IF k = None THEN now ELSE [now EXCEPT ![k].members = @ \cup S]

\* What deletes contacts removes them from the lists and groups they were in.
Unlisted(d, seen, S) ==
    [d EXCEPT !.list = Scrubbed(d.list, seen.list, ListsWith(seen, S), S),
              !.group = Scrubbed(d.group, seen.group, GroupsWith(seen, S), S)]
Writable(d, seen, S) ==
    /\ ListsWith(seen, S) \subseteq OpenLists(d)
    /\ GroupsWith(seen, S) \subseteq OpenGroups(d)

\* ensureDncFolder, ensureTrashFolder: the first use creates the folder.
Ensured(d, f) == [d EXCEPT !.folder[f].life = "open"]

\* tombstoneMplContacts, as the rows are now.
Tombstoned(d, S) ==
    [d EXCEPT !.tombstone = @ \cup
        {d.contact[c].source : c \in
            {x \in S \cap Present(d) : d.contact[x].mpl /\ d.contact[x].source # None}}]

\* contact.delete: the stage events stay, without a contact.
Deleted(d, S) ==
    [d EXCEPT !.contact = [c \in Contacts |-> IF c \in S THEN Absent ELSE d.contact[c]],
              !.event = [e \in Events |-> IF d.event[e].of \in S
                                          THEN [d.event[e] EXCEPT !.of = None]
                                          ELSE d.event[e]]]

Saved(seen, S, homes) ==
    [c \in Contacts |->
       IF c \in S
       THEN [contact |-> seen.contact[c],
             lists |-> IF homes THEN ListsWith(seen, {c}) ELSE {},
             groups |-> IF homes THEN GroupsWith(seen, {c}) ELSE {}]
       ELSE NotSaved]
BackedUp(d, rows) ==
    IF \A c \in Contacts : rows[c] = NotSaved THEN d
    ELSE [d EXCEPT !.backup[d.rows + 1] = rows, !.rows = @ + 1]

-----------------------------------------------------------------------------
(* Requests. *)

Serves(w, op) == job[w].op = op

Begins(w, r) ==
    /\ Serves(w, "idle")
    /\ asked < MaxRequests
    /\ asked' = asked + 1
    /\ job' = [job EXCEPT ![w] = [op |-> r.op, ids |-> r.ids, to |-> r.to, how |-> r.how,
                                   nums |-> r.nums, seen |-> db]]
    /\ UNCHANGED <<db, queue, fate, origin>>

\* The transaction of w commits, or throws and leaves the rows as they are.
\* The contacts in ends are gone for a reason.
Ends(w, ok, new, ends, as) ==
    /\ db' = IF ok THEN new ELSE db
    /\ fate' = IF ~ok THEN fate
               ELSE [c \in Contacts |-> IF c \in ends THEN as
                                        ELSE IF new.contact[c].present THEN "known"
                                        ELSE fate[c]]
    /\ job' = [job EXCEPT ![w] = Idle]
    /\ UNCHANGED <<queue, origin, asked>>
Commits(w, ok, new) == Ends(w, ok, new, {}, "known")

\* A handler of one statement.
Statement(new) ==
    /\ asked < MaxRequests
    /\ asked' = asked + 1
    /\ db' = new
    /\ UNCHANGED <<job, queue, fate, origin>>
=============================================================================
