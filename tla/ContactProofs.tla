---------------------------- MODULE ContactProofs ----------------------------
(***************************************************************************)
(* NothingLost, FunnelKept and OneContactPerListing for any number of      *)
(* contacts, lists, folders, groups, backups, stage events, listings and   *)
(* workers, and whatever the tables hold at the start.                     *)
(*                                                                         *)
(* NothingLost.  A worker that rewrites a shared backup row writes it from *)
(* an older reading.  What saves the others of the row is that a contact is*)
(* only ever away since its last delete, which made a row of its own that  *)
(* was in no reading before, and that whoever has read the row since found *)
(* it there (SafeIn).                                                      *)
(*                                                                         *)
(* FunnelKept.  What a merge has read of the stage events still stands when*)
(* it writes (FunnelInv), and what it writes sums up what it read.         *)
(*                                                                         *)
(* OneContactPerListing.  The syncs of a user take turns (InLine), so that *)
(* who is about to create a contact has looked for its listing since       *)
(* anybody else created one (Sources).                                     *)
(***************************************************************************)
EXTENDS ContactProperties, FiniteSetTheorems, SequenceTheorems, WellFoundedInduction, TLAPS

USE ContactAssumption

-----------------------------------------------------------------------------
(* The inductive invariant. *)

\* What is true of the tables, whenever they are read: their shape, and that a
\* backup row is one of those counted and holds contacts that were there.
Fields == {"contact", "list", "folder", "group", "backup", "rows", "event", "booked",
           "suppressed", "tombstone"}
IsContact(r) == DOMAIN r = DOMAIN Absent
Whole(d) ==
    /\ DOMAIN d = Fields
    /\ DOMAIN d.contact = Contacts /\ \A c \in Contacts : IsContact(d.contact[c])
    /\ DOMAIN d.backup = Backups /\ \A b \in Backups : DOMAIN d.backup[b] = Contacts
    /\ d.rows \in 0..MaxBackups
    /\ \A b \in Backups, c \in Contacts : d.backup[b][c] # NotSaved =>
         /\ b <= d.rows
         /\ IsContact(d.backup[b][c].contact) /\ d.backup[b][c].contact.present

Deleting == {"deleteContact", "purge", "outOfFolder", "outOfList"}
Restoring == {"restore", "erase"}

\* What a worker goes by is an older reading of the tables.
ReadBefore(w) ==
    /\ DOMAIN job[w] = DOMAIN Idle
    /\ job[w].op \in Deleting \cup Restoring =>
         Whole(job[w].seen) /\ job[w].seen.rows <= db.rows
    /\ job[w].op \in Deleting => job[w].ids \in Groupings(job[w].seen)
    /\ job[w].op \in Restoring => \E c \in Contacts : job[w].ids = {c}

\* Contact c is in row b, and whoever may write that row keeps it there.
SafeIn(c, b) ==
    /\ db.backup[b][c] # NotSaved
    /\ \A w \in Workers, x \in Contacts :
         /\ job[w].op \in Restoring /\ job[w].ids = {x} /\ x # c
         /\ job[w].seen.backup[b][x] # NotSaved
         => job[w].seen.backup[b][c] # NotSaved

ContactInv ==
    /\ DOMAIN fate = Contacts /\ DOMAIN job = Workers
    /\ Whole(db)
    /\ \A w \in Workers : ReadBefore(w)
    /\ \A c \in Contacts : fate[c] = "known" /\ ~db.contact[c].present =>
         \E b \in Backups : SafeIn(c, b)

-----------------------------------------------------------------------------
(* Steps that neither delete a contact nor write a backup. *)

\* Tables e come from d without a change of the backups and, but for those in
\* ends, without a delete.
FollowsBut(d, e, ends) ==
    /\ DOMAIN e = DOMAIN d /\ e.backup = d.backup /\ e.rows = d.rows
    /\ DOMAIN e.contact = Contacts
    /\ \A c \in Contacts : /\ IsContact(e.contact[c])
                           /\ c \notin ends /\ d.contact[c].present => e.contact[c].present
Follows(d, e) == FollowsBut(d, e, {})

LEMMA FollowsWhole ==
    ASSUME NEW d, NEW e, NEW ends, Whole(d), FollowsBut(d, e, ends) PROVE Whole(e)
BY DEF Whole, FollowsBut

\* A worker is done, or at something other, or has just read the tables.
Rests(w) == DOMAIN job'[w] = DOMAIN Idle /\ job'[w].op \notin Deleting \cup Restoring
Reads(w) ==
    /\ DOMAIN job'[w] = DOMAIN Idle /\ job'[w].seen = db
    /\ job'[w].op \in Deleting => job'[w].ids \in Groupings(db)
    /\ job'[w].op \in Restoring => \E c \in Contacts : job'[w].ids = {c}

\* Nobody who is known goes, and nobody is known anew without being there.
FateKept ==
    /\ DOMAIN fate' = Contacts
    /\ \A c \in Contacts : fate'[c] = "known" /\ ~db'.contact[c].present =>
         fate[c] = "known" /\ ~db.contact[c].present

LEMMA ReadBeforeKept ==
    ASSUME ContactInv, NEW w \in Workers, db'.rows \in Nat, db.rows <= db'.rows,
           \/ job'[w] = job[w]
           \/ Rests(w)
           \/ Reads(w)
    PROVE  ReadBefore(w)'
<1>0. ReadBefore(w) /\ Whole(db)  BY DEF ContactInv
<1>1. CASE job'[w] = job[w]
  <2>1. CASE job[w].op \in Deleting \cup Restoring
    <3>1. Whole(job[w].seen) /\ job[w].seen.rows <= db.rows  BY <1>0, <2>1 DEF ReadBefore
    <3>2. PICK r \in Nat : r = job[w].seen.rows  BY <3>1 DEF Whole
    <3>3. PICK q \in Nat : q = db.rows  BY <1>0 DEF Whole
    <3>4. PICK p \in Nat : p = db'.rows  OBVIOUS
    <3>5. r <= p  BY <3>1, <3>2, <3>3, <3>4
    <3> QED BY <1>0, <1>1, <3>1, <3>2, <3>4, <3>5 DEF ReadBefore, Groupings, Present, Whole, IsContact
  <2> QED BY <1>0, <1>1, <2>1 DEF ReadBefore
<1>2. CASE Rests(w)  BY <1>2 DEF Rests, ReadBefore, Deleting, Restoring
<1>3. CASE Reads(w)  BY <1>0, <1>3 DEF Reads, ReadBefore, Groupings, Present, Whole, IsContact
<1> QED BY <1>1, <1>2, <1>3

LEMMA QuietStep ==
    ASSUME ContactInv, NEW ends, FollowsBut(db, db', ends), FateKept, DOMAIN job' = Workers,
           \A w \in Workers : job'[w] = job[w] \/ Rests(w) \/ Reads(w)
    PROVE  ContactInv'
<1>0. Whole(db)  BY DEF ContactInv
<1>1. Whole(db')  BY <1>0, FollowsWhole
<1>2. db'.rows \in Nat /\ db.rows <= db'.rows /\ db'.backup = db.backup
  BY <1>0 DEF Whole, FollowsBut
<1>3. \A w \in Workers : ReadBefore(w)'  BY <1>2, ReadBeforeKept
<1>4. ASSUME NEW c \in Contacts, fate'[c] = "known", ~db'.contact[c].present
      PROVE  \E b \in Backups : SafeIn(c, b)'
  <2>1. PICK b \in Backups : SafeIn(c, b)  BY <1>4 DEF FateKept, ContactInv
  <2>2. ASSUME NEW w \in Workers, NEW x \in Contacts,
               job'[w].op \in Restoring, job'[w].ids = {x}, x # c,
               job'[w].seen.backup[b][x] # NotSaved
        PROVE  job'[w].seen.backup[b][c] # NotSaved
    <3>1. CASE job'[w] = job[w]  BY <2>1, <2>2, <3>1 DEF SafeIn
    <3>2. CASE Rests(w)  BY <2>2, <3>2 DEF Rests
    <3>3. CASE Reads(w)  BY <2>1, <3>3 DEF Reads, SafeIn
    <3> QED BY <3>1, <3>2, <3>3
  <2>3. db'.backup[b][c] # NotSaved  BY <1>2, <2>1 DEF SafeIn
  <2> QED BY <2>2, <2>3 DEF SafeIn
<1>5. Whole(db)' /\ DOMAIN fate' = Contacts  BY <1>1 DEF FateKept, Whole, IsContact
<1> QED BY <1>3, <1>4, <1>5 DEF ContactInv

-----------------------------------------------------------------------------
(* Handlers in general. *)

LEMMA IdleRests == ASSUME NEW w \in Workers, job'[w] = Idle PROVE Rests(w)
BY DEF Rests, Idle, Deleting, Restoring

\* A transaction that deletes nobody but those in ends, or throws.
LEMMA QuietEnds ==
    ASSUME ContactInv, NEW w \in Workers, NEW ok, NEW new, NEW ends, NEW as,
           ends = {} \/ as # "known", ok => FollowsBut(db, new, ends),
           Ends(w, ok, new, ends, as)
    PROVE  ContactInv'
<1>1. FollowsBut(db, db', ends)
  BY DEF Ends, FollowsBut, ContactInv, Whole
<1>2. FateKept  BY DEF Ends, FateKept, ContactInv, FollowsBut
<1>3. \A v \in Workers : job'[v] = job[v] \/ Rests(v)
  BY IdleRests DEF Ends, ContactInv
<1>4. DOMAIN job' = Workers  BY DEF Ends, ContactInv
<1> QED BY <1>1, <1>2, <1>3, <1>4, QuietStep

LEMMA QuietCommits ==
    ASSUME ContactInv, NEW w \in Workers, NEW ok, NEW new,
           ok => Follows(db, new), Commits(w, ok, new)
    PROVE  ContactInv'
BY QuietEnds DEF Commits, Follows

LEMMA QuietStatement ==
    ASSUME ContactInv, NEW new, Follows(db, new), Statement(new)
    PROVE  ContactInv'
<1>1. FateKept  BY DEF Statement, FateKept, ContactInv, Follows, FollowsBut
<1> QED BY <1>1, QuietStep DEF Statement, ContactInv, Follows

\* A step of a handler that is no transaction, on the worker's way elsewhere.
LEMMA QuietSteps ==
    ASSUME ContactInv, NEW w \in Workers, Follows(db, db'), FateKept,
           NEW new, job' = [job EXCEPT ![w] = new], DOMAIN new = DOMAIN Idle,
           new.op \notin Deleting \cup Restoring
    PROVE  ContactInv'
<1>1. \A v \in Workers : job'[v] = job[v] \/ Rests(v)  BY DEF Rests, ContactInv
<1> QED BY <1>1, QuietStep DEF ContactInv, Follows

LEMMA SameFollows == ASSUME ContactInv PROVE Follows(db, db)
BY DEF ContactInv, Whole, Follows, FollowsBut

\* What a request may name.
Sensible(r) ==
    /\ r.op \in Deleting => r.ids \in Groupings(db)
    /\ r.op \in Restoring => \E c \in Contacts : r.ids = {c}

LEMMA SensibleBegins ==
    ASSUME ContactInv, NEW w \in Workers, NEW r, Sensible(r), Begins(w, r)
    PROVE  ContactInv'
<1>1. \A v \in Workers : job'[v] = job[v] \/ Reads(v)
  BY DEF Begins, Reads, Sensible, ContactInv, Idle
<1>2. Follows(db, db') /\ FateKept  BY SameFollows DEF Begins, FateKept, ContactInv
<1> QED BY <1>1, <1>2, QuietStep DEF Begins, ContactInv, Follows

LEMMA MoveRequestsSensible ==
    ASSUME NEW r \in MoveRequests PROVE Sensible(r)
<1>1. CASE r \in AskAssignList \cup AskBulkList \cup AskBulkFolder \cup AskGroups
  BY <1>1 DEF AskAssignList, AskBulkList, AskBulkFolder, AskGroups, Ask, Sensible,
              Deleting, Restoring
<1>2. CASE r \in AskDelete
  BY <1>2 DEF AskDelete, Groupings, Ask, Sensible, Deleting, Restoring
<1>3. CASE r \in AskBulkDelete
  BY <1>3 DEF AskBulkDelete, Ask, Sensible, Deleting, Restoring
<1>4. CASE r \in AskBackup
  BY <1>4 DEF AskBackup, Ask, Sensible, Deleting, Restoring
<1> QED BY <1>1, <1>2, <1>3, <1>4 DEF MoveRequests

LEMMA RecordRequestsSensible ==
    ASSUME NEW r \in RecordRequests \cup AskTag \cup AskRepair \cup AskPush PROVE Sensible(r)
<1>1. CASE r \in AskCreate \cup AskUpdate
  BY <1>1 DEF AskCreate, AskUpdate, Ask, Sensible, Deleting, Restoring
<1>2. CASE r \in AskDnc \cup AskBulkDnc \cup AskSuppress
  BY <1>2 DEF AskDnc, AskBulkDnc, AskSuppress, Ask, Sensible, Deleting, Restoring
<1>3. CASE r \in AskImport
  <2>1. r.op = "import"  BY <1>3 DEF AskImport, Ask
  <2> QED BY <2>1 DEF Sensible, Deleting, Restoring
<1>4. CASE r \in AskDisposition \cup AskTag \cup AskRepair \cup AskPush
  BY <1>4 DEF AskDisposition, AskTag, AskRepair, AskPush, Ask, Sensible, Deleting, Restoring
<1> QED BY <1>1, <1>2, <1>3, <1>4 DEF RecordRequests

LEMMA MergeRequestSensible == ASSUME NEW r \in AskMerge PROVE Sensible(r)
BY DEF AskMerge, Ask, Sensible, Deleting, Restoring

-----------------------------------------------------------------------------
(* Moves. *)

LEMMA FilingStep ==
    ASSUME ContactInv, NEW w \in Workers,
           assignContactsToList(w) \/ bulkAssignContactsToFolder(w)
           \/ assignContactToGroups(w) \/ moveContactsToTrash(w)
    PROVE  ContactInv'
<1> USE DEF ContactInv, Whole, Follows, FollowsBut, IsContact, Fields, Absent
<1>1. CASE assignContactsToList(w)
  <2> DEFINE W == job[w] e == AssignedToList(db, W.seen, W.ids, W.to, W.how = "bulk")
  <2>1. Follows(db, e)  BY DEF AssignedToList
  <2> HIDE DEF e
  <2>2. PICK ok : Commits(w, ok, e)  BY <1>1 DEF assignContactsToList, e
  <2> QED BY <2>1, <2>2, QuietCommits
<1>2. CASE bulkAssignContactsToFolder(w)
  <2> DEFINE W == job[w]
             e == AssignedToFolder(db, W.seen, W.ids, W.to, W.how = "replace")
  <2>1. Follows(db, e)  BY DEF AssignedToFolder
  <2> HIDE DEF e
  <2>2. PICK ok : Commits(w, ok, e)  BY <1>2 DEF bulkAssignContactsToFolder, e
  <2> QED BY <2>1, <2>2, QuietCommits
<1>3. CASE assignContactToGroups(w)
  <2>1. \A x : Follows(db, [db EXCEPT !.group = x])  OBVIOUS
  <2> QED BY <1>3, <2>1, QuietCommits DEF assignContactToGroups
<1>4. CASE moveContactsToTrash(w)
  <2> DEFINE S == job[w].ids lists == ListsWith(job[w].seen, S)
             e == [Ensured(db, Trash) EXCEPT
                     !.list = Scrubbed(db.list, job[w].seen.list, lists, S),
                     !.contact = [c \in Contacts |->
                        IF c \in S /\ db.contact[c].present
                        THEN [db.contact[c] EXCEPT !.folders = {Trash}] ELSE db.contact[c]]]
  <2>1. Follows(db, e)  BY DEF Ensured
  <2> HIDE DEF e
  <2>2. PICK ok : Commits(w, ok, e)  BY <1>4 DEF moveContactsToTrash, e
  <2> QED BY <2>1, <2>2, QuietCommits
<1> QED BY <1>1, <1>2, <1>3, <1>4

-----------------------------------------------------------------------------
(* Records. *)

LEMMA CreateStep ==
    ASSUME ContactInv, NEW w \in Workers, createContact(w) PROVE ContactInv'
<1> USE DEF ContactInv, Whole, Follows, FollowsBut, IsContact, Fields, Absent
<1> DEFINE W == job[w] c == CHOOSE x \in W.ids : TRUE
           e == [db EXCEPT !.contact[c] = Newborn(W.nums), !.list = Pushed(db.list, W.to, W.ids)]
<1>1. Follows(db, e)  BY DEF Newborn
<1> HIDE DEF e
<1>2. PICK ok : Commits(w, ok, e)  BY DEF createContact, e
<1> QED BY <1>1, <1>2, QuietCommits

LEMMA UpdateStep ==
    ASSUME ContactInv, NEW w \in Workers, updateContact(w) PROVE ContactInv'
<1> USE DEF ContactInv, Whole, Follows, FollowsBut, IsContact, Fields, Absent
<1> DEFINE W == job[w] c == CHOOSE x \in W.ids : TRUE
           dnc == W.how = "DO_NOT_CALL"
           ensured == IF dnc THEN Ensured(db, Dnc) ELSE db
           old == db.contact[c]
           new == CASE dnc -> [old EXCEPT !.status = W.how, !.folders = @ \cup {Dnc}]
                    [] W.how = "FOLLOW_UP" -> [old EXCEPT !.status = W.how]
                    [] W.how = "source" -> [old EXCEPT !.source = None]
                    [] OTHER -> [old EXCEPT !.phones = W.nums, !.blocked = {}]
           e == [ensured EXCEPT !.contact[c] = new]
<1>1. Follows(db, ensured) /\ ensured.contact = db.contact  BY DEF Ensured
<1>2. c \in Contacts => DOMAIN new = DOMAIN Absent /\ new.present = old.present
  <2>1. c \in Contacts => DOMAIN old = DOMAIN Absent  BY <1>1
  <2> HIDE DEF old, c
  <2> QED BY <2>1
<1>3. Follows(db, e)
  <2> HIDE DEF ensured, c, new
  <2> QED BY <1>1, <1>2
<1>4. \E ok : Commits(w, ok, e)  BY Zenon DEF updateContact
<1> HIDE DEF e
<1> QED BY <1>3, <1>4, QuietCommits

LEMMA PutIntoFollows ==
    ASSUME NEW d, NEW m, Whole(d), Follows(d, m), NEW to, NEW c PROVE Follows(d, PutInto(m, to, c))
BY DEF PutInto, Whole, Follows, FollowsBut, IsContact, Fields, Absent

LEMMA ImportStep ==
    ASSUME ContactInv, NEW w \in Workers, importContacts(w) PROVE ContactInv'
<1> USE DEF ContactInv, Whole, Follows, FollowsBut, IsContact, Fields, Absent
<1> DEFINE W == job[w] new == CHOOSE x \in W.ids : TRUE
           e == PutInto(Inserted(db, new, W.nums), W.to, new)
           o(c) == PutInto(Overwritten(db, c, W.nums), W.to, c)
<1>1. Follows(db, e)
  <2>1. Follows(db, Inserted(db, new, W.nums))  BY DEF Inserted, Newborn
  <2>2. Whole(db)  OBVIOUS
  <2> HIDE DEF ContactInv, Whole, Follows, FollowsBut, IsContact, Fields, Absent
  <2> QED BY <2>1, <2>2, PutIntoFollows
<1>2. ASSUME NEW c PROVE Follows(db, o(c))
  <2>1. Follows(db, Overwritten(db, c, W.nums))  BY DEF Overwritten
  <2>2. Whole(db)  OBVIOUS
  <2> HIDE DEF ContactInv, Whole, Follows, FollowsBut, IsContact, Fields, Absent
  <2> QED BY <2>1, <2>2, PutIntoFollows
<1>3. \/ \E ok : Commits(w, ok, e)
      \/ Commits(w, TRUE, db)
      \/ \E c, ok : Commits(w, ok, o(c))
  BY Zenon DEF importContacts
<1> HIDE DEF e, o
<1> QED BY <1>1, <1>2, <1>3, SameFollows, QuietCommits

LEMMA FieldFollows ==
    ASSUME NEW d, NEW m, Whole(d), Follows(d, m), NEW c, NEW x
    PROVE  /\ Follows(d, [m EXCEPT !.contact[c].phones = x])
           /\ Follows(d, [m EXCEPT !.contact[c].blocked = x])
           /\ Follows(d, [m EXCEPT !.contact[c].folders = x])
           /\ Follows(d, [m EXCEPT !.contact[c].status = x])
           /\ Follows(d, [m EXCEPT !.contact[c].mpl = x])
           /\ Follows(d, [m EXCEPT !.contact[c].plan = x])
<1> USE DEF Whole, Follows, FollowsBut, IsContact, Fields, Absent
<1>1. Follows(d, [m EXCEPT !.contact[c].phones = x])  OBVIOUS
<1>2. Follows(d, [m EXCEPT !.contact[c].blocked = x])  OBVIOUS
<1>3. Follows(d, [m EXCEPT !.contact[c].folders = x])  OBVIOUS
<1>4. Follows(d, [m EXCEPT !.contact[c].status = x])  OBVIOUS
<1>5. Follows(d, [m EXCEPT !.contact[c].mpl = x])  OBVIOUS
<1>6. Follows(d, [m EXCEPT !.contact[c].plan = x])  OBVIOUS
<1> HIDE DEF Whole, Follows, FollowsBut, IsContact, Fields, Absent
<1> QED BY <1>1, <1>2, <1>3, <1>4, <1>5, <1>6

LEMMA TableFollows ==
    ASSUME NEW d, NEW m, Whole(d), Follows(d, m), NEW x
    PROVE  /\ Follows(d, [m EXCEPT !.list = x])
           /\ Follows(d, [m EXCEPT !.folder = x])
           /\ Follows(d, [m EXCEPT !.group = x])
           /\ Follows(d, [m EXCEPT !.event = x])
           /\ Follows(d, [m EXCEPT !.booked = x])
<1> USE DEF Whole, Follows, FollowsBut, IsContact, Fields
<1>1. Follows(d, [m EXCEPT !.list = x])  OBVIOUS
<1>2. Follows(d, [m EXCEPT !.folder = x])  OBVIOUS
<1>3. Follows(d, [m EXCEPT !.group = x])  OBVIOUS
<1>4. Follows(d, [m EXCEPT !.event = x])  OBVIOUS
<1>5. Follows(d, [m EXCEPT !.booked = x])  OBVIOUS
<1> HIDE DEF Whole, Follows, FollowsBut, IsContact, Fields
<1> QED BY <1>1, <1>2, <1>3, <1>4, <1>5

LEMMA MergeEnds ==
    ASSUME NEW w, mergeContacts(w)
    PROVE  \E ok, new, ends, as : Ends(w, ok, new, ends, as)
                                  /\ (as = "merged" \/ as = "dissolved")
<1> DEFINE as == IF job[w].to[1] \in job[w].ids THEN "dissolved" ELSE "merged"
<1>1. \E ok, new, ends : Ends(w, ok, new, ends, as)  BY Zenon DEF mergeContacts
<1>2. as = "merged" \/ as = "dissolved"  OBVIOUS
<1> HIDE DEF as
<1> QED BY <1>1, <1>2

LEMMA MergeStep ==
    ASSUME ContactInv, NEW w \in Workers, mergeContacts(w) PROVE ContactInv'
<1> DEFINE W == job[w] master == W.to[1] dups == (W.ids \ {master}) \cap Present(W.seen)
           M(lists, phones, folders, mpl, event) ==
                    [db EXCEPT
                     !.list = lists,
                     !.contact[master].phones = phones, !.contact[master].blocked = {},
                     !.contact[master].folders = folders,
                     !.contact[master].mpl = mpl,
                     !.event = event]
<1>1. \E ok, lists, phones, folders, mpl, event, ends, as :
        /\ Ends(w, ok, Deleted(M(lists, phones, folders, mpl, event), ends), ends, as)
        /\ (as = "merged" \/ as = "dissolved")
  <2> DEFINE l == W.to[2] f == W.to[3]
             all == dups \cup {master}
             phones == UNION {W.seen.contact[c].phones : c \in all}
             gone == ListsWith(W.seen, all)
             left == Scrubbed(db.list, W.seen.list, gone, all)
             target == (IF l \in gone THEN left[l].members ELSE W.seen.list[l].members)
                       \cup {master}
             lists == [left EXCEPT ![l].members = target]
             folders == {f}
             mpl == \E c \in all : W.seen.contact[c].mpl
             itself == master \in W.ids
             ends == IF itself THEN all ELSE dups
             events == mergedEvents(db, W.seen, master, dups)
             event == IF itself THEN Dissolved(events, W.seen, master, all) ELSE events
             as == IF itself THEN "dissolved" ELSE "merged"
  <2>1. \E ok : Ends(w, ok, Deleted(M(lists, phones, folders, mpl, event), ends), ends, as)
    BY Zenon DEF mergeContacts
  <2>2. as = "merged" \/ as = "dissolved"  OBVIOUS
  <2> HIDE DEF lists, phones, folders, mpl, event, M, dups, ends, as
  <2> QED BY <2>1, <2>2, Zenon
<1>2. ASSUME NEW lists, NEW phones, NEW folders, NEW mpl, NEW event
      PROVE  Follows(db, M(lists, phones, folders, mpl, event))
  <2> DEFINE m1 == [db EXCEPT !.list = lists]
             m2 == [m1 EXCEPT !.contact[master].phones = phones]
             m3 == [m2 EXCEPT !.contact[master].blocked = {}]
             m4 == [m3 EXCEPT !.contact[master].folders = folders]
             m5 == [m4 EXCEPT !.contact[master].mpl = mpl]
             m6 == [m5 EXCEPT !.event = event]
  <2>1. M(lists, phones, folders, mpl, event) = m6  OBVIOUS
  <2> HIDE DEF m1, m2, m3, m4, m5, m6, master, M
  <2>2. Whole(db) /\ Follows(db, m1)  BY SameFollows, TableFollows DEF m1, ContactInv
  <2>3. Follows(db, m2)  BY <2>2, FieldFollows DEF m2
  <2>4. Follows(db, m3)  BY <2>2, <2>3, FieldFollows DEF m3
  <2>5. Follows(db, m4)  BY <2>2, <2>4, FieldFollows DEF m4
  <2>6. Follows(db, m5)  BY <2>2, <2>5, FieldFollows DEF m5
  <2>7. Follows(db, m6)  BY <2>2, <2>6, TableFollows DEF m6
  <2> QED BY <2>1, <2>7
<1> HIDE DEF M, dups
<1>3. ASSUME NEW m, Follows(db, m), NEW ends PROVE FollowsBut(db, Deleted(m, ends), ends)
  BY <1>3 DEF Deleted, ContactInv, Whole, Follows, FollowsBut, IsContact, Fields, Absent
<1>4. PICK ok, lists, phones, folders, mpl, event, ends, as :
        /\ Ends(w, ok, Deleted(M(lists, phones, folders, mpl, event), ends), ends, as)
        /\ (as = "merged" \/ as = "dissolved")
  BY <1>1
<1>5. FollowsBut(db, Deleted(M(lists, phones, folders, mpl, event), ends), ends)
  BY <1>2, <1>3
<1>6. as # "known"  BY <1>4
<1> HIDE DEF M
<1> QED BY <1>4, <1>5, <1>6, QuietEnds

-----------------------------------------------------------------------------
(* Do Not Call, dispositions, stage events. *)

LEMMA DncStep ==
    ASSUME ContactInv, NEW w \in Workers, moveToDnc(w) PROVE ContactInv'
<1> DEFINE W == job[w] c == CHOOSE x \in W.ids : TRUE
           lists == ListsWith(W.seen, W.ids)
           e == [Ensured(db, Dnc) EXCEPT
                   !.list = Scrubbed(db.list, W.seen.list, lists, W.ids),
                   !.contact[c] = [@ EXCEPT !.status = "DO_NOT_CALL", !.folders = {Dnc},
                                            !.blocked = db.contact[c].phones, !.plan = FALSE]]
<1>1. Follows(db, e)
  BY DEF Ensured, ContactInv, Whole, Follows, FollowsBut, IsContact, Fields, Absent
<1>2. \E ok : Commits(w, ok, e)  BY Zenon DEF moveToDnc
<1> HIDE DEF e
<1> QED BY <1>1, <1>2, QuietCommits

LEMMA BulkDncStep ==
    ASSUME ContactInv, NEW w \in Workers, bulkMoveToDnc(w) PROVE ContactInv'
<1> DEFINE W == job[w]
           e(lists) == [Ensured(db, Dnc) EXCEPT
                    !.list = lists,
                    !.contact = [c \in Contacts |->
                       IF c \in W.ids
                       THEN [db.contact[c] EXCEPT !.status = "DO_NOT_CALL",
                                                  !.folders = @ \cup {Dnc}]
                       ELSE db.contact[c]]]
<1>1. ASSUME NEW lists PROVE Follows(db, e(lists))
  BY DEF Ensured, ContactInv, Whole, Follows, FollowsBut, IsContact, Fields, Absent
<1>2. \E ok, lists : Commits(w, ok, e(lists))  BY Zenon DEF bulkMoveToDnc
<1> HIDE DEF e
<1> QED BY <1>1, <1>2, QuietCommits

LEMMA SuppressStep ==
    ASSUME ContactInv, NEW w \in Workers, suppressNumber(w) \/ suppressedLast(w)
    PROVE  ContactInv'
<1>1. CASE suppressNumber(w)
  <2>1. Follows(db, db')
    BY <1>1 DEF suppressNumber, ContactInv, Whole, Follows, FollowsBut, IsContact, Fields, Absent
  <2>2. FateKept  BY <1>1, <2>1 DEF suppressNumber, FateKept, Follows, FollowsBut, ContactInv
  <2> DEFINE new == [Idle EXCEPT !.op = "remaining", !.ids = job[w].ids]
  <2>3. job' = [job EXCEPT ![w] = new]  BY <1>1 DEF suppressNumber
  <2>4. DOMAIN new = DOMAIN Idle /\ new.op \notin Deleting \cup Restoring
    BY DEF Idle, Deleting, Restoring
  <2> HIDE DEF new
  <2> QED BY <2>1, <2>2, <2>3, <2>4, QuietSteps
<1>2. CASE suppressedLast(w)
  <2>1. Follows(db, db') /\ FateKept
    BY <1>2, SameFollows DEF suppressedLast, FateKept, ContactInv
  <2> DEFINE dnc == [job[w] EXCEPT !.op = "dnc", !.seen = db]
  <2>2. job' = [job EXCEPT ![w] = dnc] \/ job' = [job EXCEPT ![w] = Idle]
    BY <1>2 DEF suppressedLast
  <2>3. DOMAIN dnc = DOMAIN Idle /\ dnc.op \notin Deleting \cup Restoring
    BY DEF Idle, Deleting, Restoring, ContactInv, ReadBefore
  <2>4. Idle.op \notin Deleting \cup Restoring  BY DEF Idle, Deleting, Restoring
  <2> HIDE DEF dnc
  <2> QED BY <2>1, <2>2, <2>3, <2>4, QuietSteps
<1> QED BY <1>1, <1>2

LEMMA DispositionStep ==
    ASSUME ContactInv, NEW w \in Workers, applyDisposition(w) PROVE ContactInv'
<1> DEFINE W == job[w] c == CHOOSE x \in W.ids : TRUE
           lists == ListsWith(W.seen, W.ids)
           open == lists \cap OpenLists(db)
           left == [db EXCEPT !.list = Scrubbed(db.list, W.seen.list, open, W.ids)]
           moved == [left EXCEPT !.contact[c].folders = {W.to}]
           e == IF c \in Present(db) /\ open = lists THEN moved ELSE left
<1>1. Whole(db) /\ Follows(db, left)  BY SameFollows, TableFollows DEF ContactInv
<1>2. Follows(db, moved)
  <2> HIDE DEF left, c
  <2> QED BY <1>1, FieldFollows
<1>3. Follows(db, e)  BY <1>1, <1>2
<1>4. Commits(w, TRUE, e)  BY Zenon DEF applyDisposition
<1> HIDE DEF e
<1> QED BY <1>3, <1>4, QuietCommits

LEMMA EnteredFollows ==
    ASSUME ContactInv, NEW c, NEW s, NEW gci, NEW on PROVE Follows(db, Entered(db, c, s, gci, on))
BY DEF Entered, ContactInv, Whole, Follows, FollowsBut, IsContact, Fields

LEMMA StageStep ==
    ASSUME ContactInv, NEW w \in Workers, setContactDispositions(w) PROVE ContactInv'
<1> DEFINE c == CHOOSE x \in job[w].ids : TRUE
           e(today) == IF HasEvent(db, c, job[w].to) # {} \/ db.booked = MaxEvents THEN db
                       ELSE Entered(db, c, job[w].to, 0, today)
<1>1. ASSUME NEW today PROVE Follows(db, e(today))  BY SameFollows, EnteredFollows
<1>2. \E ok, today : Commits(w, ok, e(today))  BY Zenon DEF setContactDispositions
<1> HIDE DEF e
<1> QED BY <1>1, <1>2, QuietCommits

LEMMA TracksStep == ASSUME ContactInv, Tracks PROVE ContactInv'
<1> USE DEF ContactInv, Whole, Follows, FollowsBut, IsContact, Fields
<1>1. CASE createStageEvent
  <2> DEFINE set(c, s, gci, on) ==
                [db EXCEPT !.event[CHOOSE e \in HasEvent(db, c, s) : TRUE].gci = gci,
                           !.event[CHOOSE e \in HasEvent(db, c, s) : TRUE].on = on]
             e(c, s, gci, on) == IF HasEvent(db, c, s) = {}
                                 THEN IF db.booked < MaxEvents THEN Entered(db, c, s, gci, on) ELSE db
                                 ELSE set(c, s, gci, on)
  <2>1. ASSUME NEW c, NEW s, NEW gci, NEW on PROVE Follows(db, e(c, s, gci, on))
    <3>1. Follows(db, set(c, s, gci, on))  OBVIOUS
    <3> HIDE DEF set, ContactInv, Whole, Follows, FollowsBut, IsContact, Fields
    <3> QED BY <3>1, SameFollows, EnteredFollows
  <2>2. \E c, s, gci, on : Statement(e(c, s, gci, on))  BY <1>1, Zenon DEF createStageEvent
  <2> HIDE DEF e
  <2> QED BY <2>1, <2>2, QuietStatement
<1>2. CASE deleteStageEvent
  <2>1. ASSUME NEW e PROVE Follows(db, [db EXCEPT !.event[e] = NoEvent])  OBVIOUS
  <2> HIDE DEF ContactInv, Whole, Follows, FollowsBut, IsContact, Fields
  <2> QED BY <1>2, <2>1, QuietStatement DEF deleteStageEvent
<1> QED BY <1>1, <1>2 DEF Tracks

LEMMA EditsStep == ASSUME ContactInv, Edits PROVE ContactInv'
<1>1. ASSUME NEW c, NEW x PROVE Follows(db, [db EXCEPT !.contact[c].status = x])
  BY SameFollows, FieldFollows DEF ContactInv
<1> QED BY <1>1, QuietStatement DEF Edits, removeFromDnc, markAsContacted

-----------------------------------------------------------------------------
(* Lists, folders and groups; leads. *)

LEMMA MovesStep == ASSUME ContactInv, Moves PROVE ContactInv'
<1>0. /\ \A x : /\ Follows(db, [db EXCEPT !.list = x])
                /\ Follows(db, [db EXCEPT !.folder = x])
                /\ Follows(db, [db EXCEPT !.group = x])
      /\ \A c, x : Follows(db, [db EXCEPT !.contact[c].folders = x])
  BY SameFollows, TableFollows, FieldFollows DEF ContactInv
<1>1. CASE createContactList \/ updateContactList \/ deleteContactList
  <2>1. \E x : Statement([db EXCEPT !.list = x])
    BY <1>1 DEF createContactList, updateContactList, deleteContactList
  <2> QED BY <1>0, <2>1, QuietStatement
<1>2. CASE createContactFolder \/ updateContactFolder \/ deleteContactFolder
  <2>1. \E x : Statement([db EXCEPT !.folder = x])
    BY <1>2 DEF createContactFolder, updateContactFolder, deleteContactFolder
  <2> QED BY <1>0, <2>1, QuietStatement
<1>3. CASE createContactGroup \/ updateContactGroup \/ deleteContactGroup
  <2>1. \E x : Statement([db EXCEPT !.group = x])
    BY <1>3 DEF createContactGroup, updateContactGroup, deleteContactGroup
  <2> QED BY <1>0, <2>1, QuietStatement
<1>4. CASE assignContactToFolder
  BY <1>0, <1>4, QuietStatement DEF assignContactToFolder
<1> QED BY <1>1, <1>2, <1>3, <1>4 DEF Moves

\* A sync or push passes on, as itself or as Idle.
Leading == {"syncQueued", "sync", "syncCreate", "syncPush", "syncPhones", "syncEnds",
            "push", "pushCreate", "pushFolder"}

LEMMA LeadSteps ==
    ASSUME ContactInv, NEW w \in Workers, Follows(db, db'), FateKept, NEW new,
           job' = [job EXCEPT ![w] = new], DOMAIN new = DOMAIN Idle,
           new.op \in Leading \cup {"idle"}
    PROVE  ContactInv'
<1>1. new.op \notin Deleting \cup Restoring  BY DEF Leading, Deleting, Restoring
<1> QED BY <1>1, QuietSteps

\* One that writes no contact.
LEMMA LeadReads ==
    ASSUME ContactInv, NEW w \in Workers, db' = db, fate' = fate, NEW new,
           job' = [job EXCEPT ![w] = new], DOMAIN new = DOMAIN Idle,
           new.op \in Leading \cup {"idle"}
    PROVE  ContactInv'
<1>1. FateKept  BY DEF FateKept, ContactInv
<1> QED BY <1>1, SameFollows, LeadSteps

\* One that makes a contact.
LEMMA LeadCreates ==
    ASSUME ContactInv, NEW w \in Workers, NEW c, NEW n, NEW new, ImportsLead(c, n),
           Follows(db, db'), db'.contact = [db.contact EXCEPT ![c] = Lead(n)],
           job' = [job EXCEPT ![w] = new], DOMAIN new = DOMAIN Idle,
           new.op \in Leading \cup {"idle"}
    PROVE  ContactInv'
<1>1. Lead(n).present = TRUE  BY DEF Lead, Newborn, Absent
<1>2. FateKept
  BY <1>1 DEF FateKept, ContactInv, Whole, ImportsLead
<1> QED BY <1>2, LeadSteps

LEMMA SyncStep ==
    ASSUME ContactInv, NEW w \in Workers,
           \/ RequestSync(w) \/ SyncStarts(w) \/ SyncFinds(w)
           \/ SyncPushes(w) \/ SyncPhones(w) \/ SyncEnds(w)
    PROVE  ContactInv'
<1>0. DOMAIN job[w] = DOMAIN Idle /\ DOMAIN job = Workers  BY DEF ContactInv, ReadBefore
<1>1. CASE RequestSync(w)
  BY <1>0, <1>1, LeadReads DEF RequestSync, Leading, Idle
<1>2. CASE SyncStarts(w)
  BY <1>2, LeadReads DEF SyncStarts, Leading, Idle
<1>3. CASE SyncFinds(w)
  <2>1. PICK n, new :
          /\ job' = [job EXCEPT ![w] = new] /\ db' = db /\ fate' = fate
          /\ LET rest == [job[w] EXCEPT !.seen.todo = @ \ {n}]
             IN new = rest \/ new = [rest EXCEPT !.op = "syncCreate", !.to = n]
    BY <1>3 DEF SyncFinds, Steps
  <2>2. DOMAIN new = DOMAIN Idle /\ new.op \in {"sync", "syncCreate"}
    BY <1>0, <1>3, <2>1 DEF SyncFinds, Serves, Idle
  <2> QED BY <2>1, <2>2, LeadReads DEF Leading
<1>4. CASE SyncPushes(w)
  <2>1. \A x : Follows(db, [db EXCEPT !.list = x])
    BY SameFollows, TableFollows DEF ContactInv
  <2>2. Follows(db, db')  BY <1>4, <2>1, SameFollows DEF SyncPushes
  <2>3. FateKept  BY <1>4, <2>2 DEF SyncPushes, FateKept, Follows, FollowsBut, ContactInv
  <2> QED BY <1>0, <1>4, <2>2, <2>3, LeadSteps DEF SyncPushes, Steps, Leading, Idle
<1>5. CASE SyncPhones(w)
  <2>1. \A c, x : Follows(db, [db EXCEPT !.contact[c].phones = x])
    BY SameFollows, FieldFollows DEF ContactInv
  <2> DEFINE phoned(c, n) == [db EXCEPT !.contact[c].phones = {n}]
  <2>2. db' = db \/ \E c, n : db' = phoned(c, n)  BY <1>5, Zenon DEF SyncPhones
  <2>3. \A c, n : Follows(db, phoned(c, n))  BY <2>1
  <2> HIDE DEF phoned
  <2>4. Follows(db, db')  BY <2>2, <2>3, SameFollows
  <2>5. FateKept  BY <1>5, <2>4 DEF SyncPhones, FateKept, Follows, FollowsBut, ContactInv
  <2> QED BY <1>0, <1>5, <2>4, <2>5, LeadSteps DEF SyncPhones, Steps, Leading, Idle
<1>6. CASE SyncEnds(w)
  BY <1>6, LeadReads DEF SyncEnds, Leading, Idle
<1> QED BY <1>1, <1>2, <1>3, <1>4, <1>5, <1>6

LEMMA ImportStepOfLead ==
    ASSUME ContactInv, NEW w \in Workers, SyncCreates(w) \/ PushCreates(w)
    PROVE  ContactInv'
<1>0. DOMAIN job[w] = DOMAIN Idle  BY DEF ContactInv, ReadBefore
<1>1. \A n : DOMAIN Lead(n) = DOMAIN Absent /\ Lead(n).present = TRUE
  BY DEF Lead, Newborn, Absent
<1>2. CASE SyncCreates(w)
  <2>1. PICK c, l : /\ db' = [db EXCEPT !.contact[c] = Lead(job[w].to), !.list[l].life = "open"]
                    /\ ImportsLead(c, job[w].to)
                    /\ Steps(w, [job[w] EXCEPT !.op = "syncPush", !.ids = {c}, !.how = l])
    BY <1>2 DEF SyncCreates
  <2>2. Follows(db, db') /\ db'.contact = [db.contact EXCEPT ![c] = Lead(job[w].to)]
    BY <1>1, <2>1 DEF ContactInv, Whole, Follows, FollowsBut, IsContact, Fields
  <2> QED BY <1>0, <2>1, <2>2, LeadCreates DEF Steps, Leading, Idle
<1>3. CASE PushCreates(w)
  <2>1. PICK c, f : /\ db' = [db EXCEPT !.contact[c] = Lead(job[w].to), !.folder[f].life = "open"]
                    /\ ImportsLead(c, job[w].to)
                    /\ Steps(w, [job[w] EXCEPT !.op = "pushFolder", !.ids = {c}, !.how = f])
    BY <1>3 DEF PushCreates
  <2>2. Follows(db, db') /\ db'.contact = [db.contact EXCEPT ![c] = Lead(job[w].to)]
    BY <1>1, <2>1 DEF ContactInv, Whole, Follows, FollowsBut, IsContact, Fields
  <2> QED BY <1>0, <2>1, <2>2, LeadCreates DEF Steps, Leading, Idle
<1> QED BY <1>2, <1>3

LEMMA PushStep ==
    ASSUME ContactInv, NEW w \in Workers, PushFinds(w) \/ PushFolder(w) PROVE ContactInv'
<1>0. DOMAIN job[w] = DOMAIN Idle  BY DEF ContactInv, ReadBefore
<1>1. CASE PushFinds(w)
  BY <1>0, <1>1, LeadReads DEF PushFinds, Steps, Leading, Idle
<1>2. CASE PushFolder(w)
  <2> DEFINE c == CHOOSE x \in job[w].ids : TRUE
             f == job[w].how
             pushed == IF f \in OpenFolders(db)
                       THEN [db EXCEPT !.folder = Pushed(db.folder, f, {c})] ELSE db
  <2>1. Whole(db) /\ Follows(db, pushed)  BY SameFollows, TableFollows DEF ContactInv
  <2>2. \A x : Follows(db, [pushed EXCEPT !.contact[c].folders = x])
    <3> HIDE DEF pushed, c
    <3> QED BY <2>1, FieldFollows
  <2>3. db' = pushed \/ db' = [pushed EXCEPT !.contact[c].folders = @ \cup {f}]
    BY <1>2, Zenon DEF PushFolder
  <2> HIDE DEF pushed, c
  <2>4. Follows(db, db')  BY <2>1, <2>2, <2>3
  <2>5. FateKept  BY <1>2, <2>4 DEF PushFolder, FateKept, Follows, FollowsBut, ContactInv
  <2> QED BY <1>2, <2>4, <2>5, LeadSteps DEF PushFolder, Steps, Leading, Idle
<1> QED BY <1>1, <1>2

LEMMA RepairStep ==
    ASSUME ContactInv, NEW w \in Workers, repairListMembership(w) PROVE ContactInv'
<1> DEFINE e(l, add) == [db EXCEPT !.list[l] = [@ EXCEPT !.life = "open", !.members = @ \cup add]]
<1>1. ASSUME NEW l, NEW add PROVE Follows(db, e(l, add))
  BY DEF ContactInv, Whole, Follows, FollowsBut, IsContact, Fields
<1>2. \E ok, l, add : Commits(w, ok, e(l, add))  BY Zenon DEF repairListMembership
<1> HIDE DEF e
<1> QED BY <1>1, <1>2, QuietCommits

-----------------------------------------------------------------------------
(* Deletes: those who go are in a backup row that no one has read yet. *)

Gone(m, seen, S, homes) ==
    Deleted(Tombstoned(BackedUp(m, Saved(seen, S, homes)), S), S)

LEMMA SavedRow ==
    ASSUME NEW seen, Whole(seen), NEW S \in SUBSET Present(seen), NEW homes, NEW c \in Contacts
    PROVE  /\ c \notin S => Saved(seen, S, homes)[c] = NotSaved
           /\ c \in S => /\ Saved(seen, S, homes)[c] # NotSaved
                         /\ IsContact(Saved(seen, S, homes)[c].contact)
                         /\ Saved(seen, S, homes)[c].contact.present
<1>1. c \notin S => Saved(seen, S, homes)[c] = NotSaved  BY DEF Saved
<1>2. c \in S => Saved(seen, S, homes)[c].contact = seen.contact[c]  BY DEF Saved
<1>3. c \in S => seen.contact[c].present /\ IsContact(seen.contact[c])
  BY DEF Present, Whole
<1>4. ~NotSaved.contact.present  BY DEF NotSaved, Absent
<1> QED BY <1>1, <1>2, <1>3, <1>4

LEMMA GoneTables ==
    ASSUME NEW m, Whole(m), m.rows < MaxBackups, NEW seen, Whole(seen),
           NEW S \in SUBSET Present(seen), S # {}, NEW homes
    PROVE  LET e == Gone(m, seen, S, homes)
           IN /\ DOMAIN e = Fields /\ e.rows = m.rows + 1
              /\ e.backup = [m.backup EXCEPT ![m.rows + 1] = Saved(seen, S, homes)]
              /\ e.contact = [c \in Contacts |-> IF c \in S THEN Absent ELSE m.contact[c]]
<1> DEFINE T == Saved(seen, S, homes)
<1>1. PICK x \in S : TRUE  OBVIOUS
<1>2. T[x] # NotSaved /\ x \in Contacts  BY <1>1, SavedRow DEF Present
<1> HIDE DEF T
<1>3. BackedUp(m, T) = [m EXCEPT !.backup[m.rows + 1] = T, !.rows = @ + 1]
  BY <1>2 DEF BackedUp
<1> DEFINE b == BackedUp(m, T)
<1>4. /\ DOMAIN b = Fields /\ b.rows = m.rows + 1 /\ b.contact = m.contact
      /\ b.backup = [m.backup EXCEPT ![m.rows + 1] = T]
  BY <1>3 DEF Whole, Fields
<1> HIDE DEF b
<1> DEFINE t == Tombstoned(b, S)
<1>5. DOMAIN t = Fields /\ t.rows = b.rows /\ t.contact = b.contact /\ t.backup = b.backup
  BY <1>4 DEF Tombstoned, Fields
<1> HIDE DEF t
<1>6. LET e == Deleted(t, S)
      IN /\ DOMAIN e = Fields /\ e.rows = t.rows /\ e.backup = t.backup
         /\ e.contact = [c \in Contacts |-> IF c \in S THEN Absent ELSE t.contact[c]]
  BY <1>5 DEF Deleted, Fields
<1> QED BY <1>4, <1>5, <1>6 DEF Gone, T, b, t

LEMMA DeleteStep ==
    ASSUME ContactInv, NEW w \in Workers, job[w].op \in Deleting,
           NEW S \in SUBSET job[w].ids, S # {}, NEW m, Follows(db, m),
           db.rows < MaxBackups, NEW homes, NEW ok,
           Commits(w, ok, Gone(m, job[w].seen, S, homes))
    PROVE  ContactInv'
<1>1. CASE ~ok  BY <1>1, QuietCommits
<1>2. CASE ok
  <2> DEFINE seen == job[w].seen
  <2>1. /\ Whole(db) /\ Whole(m) /\ m.rows = db.rows /\ m.backup = db.backup
        /\ Whole(seen) /\ S \subseteq Present(seen)
    BY FollowsWhole DEF ContactInv, ReadBefore, Groupings, Follows, FollowsBut
  <2>2. PICK n \in Nat : n = db.rows  BY <2>1 DEF Whole
  <2>3. n < MaxBackups /\ n + 1 \in Backups  BY <2>2 DEF Backups
  <2>4. /\ DOMAIN db' = Fields /\ db'.rows = n + 1
        /\ db'.backup = [db.backup EXCEPT ![n + 1] = Saved(seen, S, homes)]
        /\ db'.contact = [c \in Contacts |-> IF c \in S THEN Absent ELSE m.contact[c]]
    <3>1. PICK e : e = Gone(m, seen, S, homes)  OBVIOUS
    <3>2. db' = e  BY <1>2, <3>1 DEF Commits, Ends
    <3> HIDE DEF seen
    <3>3. /\ DOMAIN e = Fields /\ e.rows = m.rows + 1
          /\ e.backup = [m.backup EXCEPT ![m.rows + 1] = Saved(seen, S, homes)]
          /\ e.contact = [c \in Contacts |-> IF c \in S THEN Absent ELSE m.contact[c]]
      <4>1. Whole(m) /\ m.rows < MaxBackups /\ Whole(seen) /\ S \in SUBSET Present(seen)
        BY <2>1 DEF seen
      <4> QED BY <3>1, <4>1, GoneTables
    <3> QED BY <2>1, <2>2, <3>2, <3>3
  <2>5. /\ DOMAIN job' = Workers /\ DOMAIN fate' = Contacts
        /\ \A v \in Workers : job'[v] = job[v] \/ Rests(v)
    BY <1>2, IdleRests DEF Commits, Ends, ContactInv
  <2>6. Whole(db')
    <3>1. \A c \in Contacts : IsContact(db'.contact[c])
      <4>1. ASSUME NEW c \in Contacts PROVE IsContact(m.contact[c])  BY <2>1 DEF Whole
      <4> QED BY <2>4, <4>1 DEF IsContact
    <3>2. DOMAIN db'.backup = Backups /\ \A b \in Backups : DOMAIN db'.backup[b] = Contacts
      <4>1. DOMAIN Saved(seen, S, homes) = Contacts  BY DEF Saved
      <4>2. DOMAIN db.backup = Backups /\ \A b \in Backups : DOMAIN db.backup[b] = Contacts
        BY <2>1 DEF Whole
      <4> QED BY <2>3, <2>4, <4>1, <4>2
    <3>3. db'.rows \in 0..MaxBackups  BY <2>2, <2>3, <2>4
    <3>4. ASSUME NEW b \in Backups, NEW c \in Contacts, db'.backup[b][c] # NotSaved
          PROVE  /\ b <= db'.rows /\ IsContact(db'.backup[b][c].contact)
                 /\ db'.backup[b][c].contact.present
      <4>1. CASE b = n + 1  BY <2>1, <2>3, <2>4, <3>4, <4>1, SavedRow DEF Whole
      <4>2. CASE b # n + 1
        <5>1. db'.backup[b] = db.backup[b]  BY <2>1, <2>4, <4>2 DEF Whole
        <5>2. b <= n /\ IsContact(db.backup[b][c].contact) /\ db.backup[b][c].contact.present
          BY <2>1, <2>2, <3>4, <5>1 DEF Whole
        <5> QED BY <2>4, <5>1, <5>2 DEF Backups
      <4> QED BY <4>1, <4>2
    <3> QED BY <2>4, <3>1, <3>2, <3>3, <3>4 DEF Whole
  <2>7. ASSUME NEW v \in Workers PROVE ReadBefore(v)'
    BY <2>2, <2>4, <2>5, ReadBeforeKept
  <2>8. ASSUME NEW c \in Contacts, fate'[c] = "known", ~db'.contact[c].present
        PROVE  \E b \in Backups : SafeIn(c, b)'
    <3>1. CASE c \in S
      <4>1. db'.backup[n + 1][c] # NotSaved
        BY <2>1, <2>3, <2>4, <3>1, SavedRow DEF Whole
      <4>2. ASSUME NEW v \in Workers, NEW x \in Contacts, job'[v].op \in Restoring,
                   job'[v].ids = {x}, x # c, job'[v].seen.backup[n + 1][x] # NotSaved
            PROVE  FALSE
        <5>1. job'[v] = job[v]  BY <2>5, <4>2 DEF Rests
        <5>2. Whole(job[v].seen) /\ job[v].seen.rows <= n
          BY <2>2, <4>2, <5>1 DEF ContactInv, ReadBefore
        <5>3. PICK k \in Nat : k = job[v].seen.rows  BY <5>2 DEF Whole
        <5>4. n + 1 <= k  BY <2>3, <4>2, <5>1, <5>2, <5>3 DEF Whole
        <5> QED BY <5>2, <5>3, <5>4
      <4> QED BY <2>3, <4>1, <4>2 DEF SafeIn
    <3>2. CASE c \notin S
      <4>1. ~db.contact[c].present /\ fate[c] = "known"
        BY <1>2, <2>4, <2>8, <3>2, GoneTables DEF Commits, Ends, Follows, FollowsBut
      <4>2. PICK b \in Backups : SafeIn(c, b)  BY <4>1 DEF ContactInv
      <4>3. b # n + 1
        <5>1. db.backup[b][c] # NotSaved  BY <4>2 DEF SafeIn
        <5>2. b <= n  BY <2>1, <2>2, <5>1 DEF Whole
        <5> QED BY <5>2 DEF Backups
      <4>4. db'.backup[b] = db.backup[b]  BY <2>1, <2>4, <4>3 DEF Whole
      <4>5. \A v \in Workers : job'[v] = job[v] \/ job'[v].op \notin Restoring
        BY <2>5 DEF Rests
      <4> QED BY <4>2, <4>4, <4>5 DEF SafeIn
    <3> QED BY <3>1, <3>2
  <2> QED BY <2>5, <2>6, <2>7, <2>8 DEF ContactInv, Whole, IsContact
<1> QED BY <1>1, <1>2

LEMMA UnlistedFollows ==
    ASSUME NEW d, NEW m, NEW seen, NEW S, Whole(d), Follows(d, m)
    PROVE  Follows(d, Unlisted(m, seen, S))
<1> DEFINE m1 == [m EXCEPT !.list = Scrubbed(m.list, seen.list, ListsWith(seen, S), S)]
           m2 == [m1 EXCEPT !.group = Scrubbed(m.group, seen.group, GroupsWith(seen, S), S)]
<1>1. Unlisted(m, seen, S) = m2  BY DEF Unlisted
<1>2. Follows(d, m1)  BY TableFollows
<1> HIDE DEF m1
<1>3. Follows(d, m2)  BY <1>2, TableFollows
<1> QED BY <1>1, <1>3

LEMMA HardDeleteStep ==
    ASSUME ContactInv, NEW w \in Workers, deleteContact(w) PROVE ContactInv'
<1> DEFINE W == job[w] m == Unlisted(db, W.seen, W.ids)
<1>1. /\ W.op = "deleteContact" /\ db.rows < MaxBackups
      /\ \E ok : Commits(w, ok, Gone(m, W.seen, W.ids, TRUE))
  BY Zenon DEF deleteContact, Serves, Gone
<1>2. Follows(db, m)  BY SameFollows, UnlistedFollows DEF ContactInv
<1>3. W.op \in Deleting  BY <1>1 DEF Deleting
<1>4. W.ids # {}  BY <1>3 DEF ContactInv, ReadBefore, Groupings
<1> HIDE DEF m
<1> QED BY <1>1, <1>2, <1>3, <1>4, DeleteStep

\* Purged(d, seen, S), where d follows the tables.
LEMMA PurgeStep ==
    ASSUME ContactInv, NEW w \in Workers, job[w].op \in Deleting, db.rows < MaxBackups,
           NEW S \in SUBSET job[w].ids, NEW d, Follows(db, d), NEW seen,
           Saved(seen, S, FALSE) = Saved(job[w].seen, S, FALSE), NEW ok,
           Commits(w, ok, Purged(d, seen, S))
    PROVE  ContactInv'
<1>1. CASE S = {}  BY <1>1, QuietCommits DEF Purged
<1>2. CASE S # {}
  <2> DEFINE m == Unlisted(d, seen, S)
  <2>1. Purged(d, seen, S) = Gone(m, job[w].seen, S, FALSE)  BY <1>2 DEF Purged, Gone
  <2>2. Follows(db, m)  BY UnlistedFollows DEF ContactInv
  <2> HIDE DEF m
  <2> QED BY <1>2, <2>1, <2>2, DeleteStep
<1> QED BY <1>1, <1>2

LEMMA PurgesStep ==
    ASSUME ContactInv, NEW w \in Workers,
           purgeContacts(w) \/ removeFromFolder(w) \/ removeFromList(w)
    PROVE  ContactInv'
<1> DEFINE W == job[w]
<1>1. CASE purgeContacts(w)
  <2>1. W.op \in Deleting /\ db.rows < MaxBackups
    BY <1>1 DEF purgeContacts, Serves, Deleting
  <2>2. \E ok : Commits(w, ok, Purged(db, W.seen, W.ids))  BY <1>1, Zenon DEF purgeContacts
  <2> QED BY <2>1, <2>2, SameFollows, PurgeStep
<1>2. CASE removeFromFolder(w)
  <2> DEFINE f == W.to
             ids == {c \in W.ids : f \in W.seen.contact[c].folders}
             kept == {c \in ids : W.seen.contact[c].folders # {f}
                                  \/ ListsWith(W.seen, {c}) # {}}
             left == [db EXCEPT
                   !.folder[f].members = W.seen.folder[f].members \ ids,
                   !.contact = [c \in Contacts |->
                      IF c \in kept
                      THEN [db.contact[c] EXCEPT !.folders = W.seen.contact[c].folders \ {f}]
                      ELSE db.contact[c]]]
  <2>1. W.op \in Deleting /\ db.rows < MaxBackups
    BY <1>2 DEF removeFromFolder, Serves, Deleting
  <2>2. \E ok : Commits(w, ok, Purged(left, W.seen, ids \ kept))
    BY <1>2, Zenon DEF removeFromFolder
  <2>3. ids \ kept \in SUBSET W.ids  OBVIOUS
  <2> HIDE DEF kept, ids
  <2>4. Follows(db, left)
    BY DEF ContactInv, Whole, Follows, FollowsBut, IsContact, Fields, Absent
  <2> HIDE DEF left
  <2> QED BY <2>1, <2>2, <2>3, <2>4, PurgeStep
<1>3. CASE removeFromList(w)
  <2> DEFINE l == W.to
             ids == W.ids \cap W.seen.list[l].members
             lone == {c \in ids \cap Present(W.seen) :
                        W.seen.contact[c].folders = {} /\ ListsWith(W.seen, {c}) = {l}}
             left == [db EXCEPT !.list[l].members = W.seen.list[l].members \ ids]
             after == [W.seen EXCEPT !.list[l].members = @ \ ids]
  <2>1. W.op \in Deleting /\ db.rows < MaxBackups
    BY <1>3 DEF removeFromList, Serves, Deleting
  <2>2. \E ok : Commits(w, ok, Purged(left, after, lone))  BY <1>3, Zenon DEF removeFromList
  <2>3. lone \in SUBSET W.ids  OBVIOUS
  <2>4. Follows(db, left)
    <3> HIDE DEF ids
    <3> QED BY DEF ContactInv, Whole, Follows, FollowsBut, IsContact, Fields
  <2>5. Saved(after, lone, FALSE) = Saved(W.seen, lone, FALSE)
    <3>1. Whole(W.seen)  BY <2>1 DEF ContactInv, ReadBefore
    <3> HIDE DEF ids, lone
    <3>2. after.contact = W.seen.contact  BY <3>1 DEF Whole, Fields
    <3> QED BY <3>2 DEF Saved
  <2> HIDE DEF left, after, lone
  <2> QED BY <2>1, <2>2, <2>3, <2>4, <2>5, PurgeStep
<1> QED BY <1>1, <1>2, <1>3

-----------------------------------------------------------------------------
(* Restores and permanent deletes rewrite a row from what they have read:    *)
(* those it was the last delete of are in what they have read, too.         *)

LEMMA RewriteStep ==
    ASSUME ContactInv, NEW w \in Workers, job[w].op \in Restoring,
           NEW c \in Contacts, job[w].ids = {c}, NEW b \in RowOf(job[w].seen, c),
           DOMAIN db' = Fields, db'.rows = db.rows,
           db'.backup = [db.backup EXCEPT ![b] = RowWithout(job[w].seen, b, c)],
           DOMAIN db'.contact = Contacts, IsContact(db'.contact[c]),
           \A x \in Contacts : x # c => db'.contact[x] = db.contact[x],
           DOMAIN fate' = Contacts,
           \A x \in Contacts : fate'[x] = "known" /\ ~db'.contact[x].present =>
              fate[x] = "known" /\ ~db.contact[x].present /\ x # c,
           job' = [job EXCEPT ![w] = Idle]
    PROVE  ContactInv'
<1> DEFINE seen == job[w].seen
<1>1. /\ Whole(db) /\ Whole(seen) /\ seen.rows <= db.rows
      /\ b \in Backups /\ seen.backup[b][c] # NotSaved
  BY DEF ContactInv, ReadBefore, RowOf
<1>2. /\ DOMAIN job' = Workers
      /\ \A v \in Workers : job'[v] = job[v] \/ Rests(v)
  BY IdleRests DEF ContactInv
<1>3. /\ DOMAIN db'.backup[b] = Contacts
      /\ db'.backup[b][c] = NotSaved
      /\ \A x \in Contacts : x # c => db'.backup[b][x] = seen.backup[b][x]
      /\ DOMAIN db'.backup = Backups
      /\ \A a \in Backups : a # b => db'.backup[a] = db.backup[a]
  <2> DEFINE new == RowWithout(seen, b, c)
  <2>1. /\ DOMAIN new = Contacts /\ new[c] = NotSaved
        /\ \A x \in Contacts : x # c => new[x] = seen.backup[b][x]
    BY <1>1 DEF Whole, RowWithout
  <2>2. DOMAIN db.backup = Backups  BY <1>1 DEF Whole
  <2> HIDE DEF new, seen
  <2>3. db'.backup = [db.backup EXCEPT ![b] = new]  BY DEF new, seen
  <2>4. db'.backup[b] = new  BY <1>1, <2>2, <2>3
  <2> QED BY <1>1, <2>1, <2>2, <2>3, <2>4
<1>4. Whole(db')
  <2>1. \A x \in Contacts : IsContact(db'.contact[x])  BY <1>1 DEF Whole, IsContact
  <2>2. \A a \in Backups : DOMAIN db'.backup[a] = Contacts  BY <1>1, <1>3 DEF Whole
  <2>3. ASSUME NEW a \in Backups, NEW x \in Contacts, db'.backup[a][x] # NotSaved
        PROVE  /\ a <= db'.rows /\ IsContact(db'.backup[a][x].contact)
               /\ db'.backup[a][x].contact.present
    <3>1. CASE a = b
      <4>0. db'.backup[b][x] = seen.backup[b][x]  BY <1>3, <2>3, <3>1
      <4>1. /\ b <= seen.rows /\ IsContact(seen.backup[b][x].contact)
            /\ seen.backup[b][x].contact.present
        BY <1>1, <2>3, <3>1, <4>0 DEF Whole
      <4>2. PICK n \in Nat : n = db.rows  BY <1>1 DEF Whole
      <4>3. PICK k \in Nat : k = seen.rows  BY <1>1 DEF Whole
      <4>4. b <= n  BY <1>1, <4>1, <4>2, <4>3 DEF Backups
      <4> QED BY <3>1, <4>0, <4>1, <4>2, <4>4
    <3>2. CASE a # b  BY <1>1, <1>3, <2>3, <3>2 DEF Whole
    <3> QED BY <3>1, <3>2
  <2>4. db'.rows \in 0..MaxBackups  BY <1>1 DEF Whole
  <2> QED BY <1>3, <2>1, <2>2, <2>3, <2>4 DEF Whole
<1>5. \A v \in Workers : ReadBefore(v)'
  <2>1. db'.rows \in Nat /\ db.rows <= db'.rows  BY <1>1 DEF Whole
  <2> QED BY <1>2, <2>1, ReadBeforeKept
<1>6. ASSUME NEW x \in Contacts, fate'[x] = "known", ~db'.contact[x].present
      PROVE  \E a \in Backups : SafeIn(x, a)'
  <2>1. fate[x] = "known" /\ ~db.contact[x].present /\ x # c  BY <1>6
  <2>2. PICK a \in Backups : SafeIn(x, a)  BY <2>1 DEF ContactInv
  <2>3. db'.backup[a][x] # NotSaved
    <3>1. CASE a = b
      <4>1. seen.backup[b][x] # NotSaved  BY <1>1, <2>1, <2>2, <3>1 DEF SafeIn
      <4> QED BY <1>3, <2>1, <3>1, <4>1
    <3>2. CASE a # b  BY <1>3, <2>2, <3>2 DEF SafeIn
    <3> QED BY <3>1, <3>2
  <2>4. \A v \in Workers : job'[v] = job[v] \/ job'[v].op \notin Restoring
    BY <1>2 DEF Rests
  <2>5. ASSUME NEW v \in Workers, NEW y \in Contacts, job'[v].op \in Restoring,
               job'[v].ids = {y}, y # x, job'[v].seen.backup[a][y] # NotSaved
        PROVE  job'[v].seen.backup[a][x] # NotSaved
    BY <2>2, <2>4, <2>5 DEF SafeIn
  <2> QED BY <2>3, <2>5 DEF SafeIn
<1> QED BY <1>2, <1>4, <1>5, <1>6 DEF ContactInv, Whole, IsContact

LEMMA RestoreStep ==
    ASSUME ContactInv, NEW w \in Workers, restoreContact(w) PROVE ContactInv'
<1> DEFINE W == job[w]
           e(c, b, lists, groups) ==
                [db EXCEPT !.contact[c] = Revived(W.seen.backup[b][c]),
                           !.list = lists, !.group = groups,
                           !.backup[b] = RowWithout(W.seen, b, c)]
<1>1. W.op \in Restoring  BY DEF restoreContact, Serves, Restoring
<1>2. PICK c \in Contacts : W.ids = {c}  BY <1>1 DEF ContactInv, ReadBefore
<1>3. c = CHOOSE x \in W.ids : TRUE  BY <1>2
<1>4. \E b : b \in RowOf(W.seen, c) /\ \E ok, lists, groups :
         Commits(w, ok, e(c, b, lists, groups))
  <2> DEFINE s == CHOOSE x \in W.ids : TRUE
  <2>1. \E b : b \in RowOf(W.seen, s) /\ \E ok, lists, groups :
          Commits(w, ok, e(s, b, lists, groups))
    BY Zenon DEF restoreContact
  <2>2. c = s  BY <1>3
  <2> HIDE DEF s, e
  <2> QED BY <2>1, <2>2
<1>5. PICK b : b \in RowOf(W.seen, c) /\ \E ok, lists, groups :
                  Commits(w, ok, e(c, b, lists, groups))
  BY <1>4
<1>6. PICK ok, lists, groups : Commits(w, ok, e(c, b, lists, groups))  BY <1>5
<1>7. CASE ~ok
  <2> HIDE DEF e
  <2> QED BY <1>6, <1>7, QuietCommits
<1>8. CASE ok
  <2>1. /\ Whole(db) /\ b \in Backups /\ IsContact(W.seen.backup[b][c].contact)
        /\ W.seen.backup[b][c].contact.present
    BY <1>1, <1>5 DEF ContactInv, ReadBefore, RowOf, Whole
  <2> DEFINE back == Revived(W.seen.backup[b][c])
  <2>2. DOMAIN back = DOMAIN Absent /\ back.present
    <3> DEFINE old == W.seen.backup[b][c].contact
    <3>1. back = [old EXCEPT !.status = "PENDING", !.folders = {}, !.blocked = {}, !.plan = FALSE]
      BY DEF Revived
    <3>2. DOMAIN old = DOMAIN Absent /\ old.present  BY <2>1 DEF IsContact
    <3> HIDE DEF old, back
    <3> QED BY <3>1, <3>2 DEF Absent
  <2> DEFINE row == RowWithout(W.seen, b, c)
  <2> HIDE DEF back, row
  <2>3. /\ DOMAIN db' = Fields /\ db'.rows = db.rows
        /\ db'.backup = [db.backup EXCEPT ![b] = row]
        /\ db'.contact = [db.contact EXCEPT ![c] = back]
    BY <1>6, <1>8, <2>1 DEF Commits, Ends, Whole, Fields, back, row
  <2>4. /\ DOMAIN db'.contact = Contacts /\ db'.contact[c] = back
        /\ \A x \in Contacts : x # c => db'.contact[x] = db.contact[x]
    BY <2>1, <2>3 DEF Whole
  <2>5. DOMAIN fate' = Contacts /\ job' = [job EXCEPT ![w] = Idle]
    BY <1>6 DEF Commits, Ends, ContactInv
  <2>6. ASSUME NEW x \in Contacts, fate'[x] = "known", ~db'.contact[x].present
        PROVE  fate[x] = "known" /\ ~db.contact[x].present /\ x # c
    <3>1. x # c  BY <2>2, <2>4, <2>6
    <3>2. ~db.contact[x].present  BY <2>4, <2>6, <3>1
    <3>3. fate'[x] = "known" => fate[x] = "known"
      <4>1. fate' = [y \in Contacts |-> IF db'.contact[y].present THEN "known" ELSE fate[y]]
        BY <1>6, <1>8 DEF Commits, Ends
      <4> QED BY <2>6, <4>1
    <3> QED BY <2>6, <3>1, <3>2, <3>3
  <2> QED BY <1>1, <1>2, <1>5, <2>2, <2>3, <2>4, <2>5, <2>6, RewriteStep DEF row, IsContact
<1> QED BY <1>7, <1>8

LEMMA EraseStep ==
    ASSUME ContactInv, NEW w \in Workers, permanentlyDeleteContact(w) PROVE ContactInv'
<1> DEFINE W == job[w]
           e(c, b) == [db EXCEPT !.backup[b] = RowWithout(W.seen, b, c)]
<1>1. W.op \in Restoring  BY DEF permanentlyDeleteContact, Serves, Restoring
<1>2. PICK c \in Contacts : W.ids = {c}  BY <1>1 DEF ContactInv, ReadBefore
<1>3. PICK b \in RowOf(W.seen, c) :
        Ends(w, RowThere(db, b), e(c, b), W.ids \ Present(db), "erased")
  <2> DEFINE s == CHOOSE x \in W.ids : TRUE
  <2>1. \E b \in RowOf(W.seen, s) :
          Ends(w, RowThere(db, b), e(s, b), W.ids \ Present(db), "erased")
    BY Zenon DEF permanentlyDeleteContact
  <2>2. c = s  BY <1>2
  <2> HIDE DEF s, e
  <2> QED BY <2>1, <2>2
<1>4. CASE ~RowThere(db, b)
  <2> HIDE DEF e
  <2> QED BY <1>3, <1>4, QuietEnds
<1>5. CASE RowThere(db, b)
  <2> DEFINE row == RowWithout(W.seen, b, c)
  <2>1. Whole(db) /\ b \in Backups  BY DEF ContactInv, RowOf
  <2> HIDE DEF row
  <2>2. /\ DOMAIN db' = Fields /\ db'.rows = db.rows /\ db'.contact = db.contact
        /\ db'.backup = [db.backup EXCEPT ![b] = row]
    BY <1>3, <1>5, <2>1 DEF Ends, Whole, Fields, row
  <2>3. /\ DOMAIN fate' = Contacts /\ job' = [job EXCEPT ![w] = Idle]
        /\ fate' = [x \in Contacts |-> IF x \in W.ids \ Present(db) THEN "erased"
                                       ELSE IF db'.contact[x].present THEN "known"
                                       ELSE fate[x]]
    BY <1>3, <1>5 DEF Ends
  <2>4. ASSUME NEW x \in Contacts, fate'[x] = "known", ~db'.contact[x].present
        PROVE  fate[x] = "known" /\ ~db.contact[x].present /\ x # c
    <3>1. x \notin W.ids \ Present(db)  BY <2>3, <2>4
    <3> QED BY <1>2, <2>2, <2>3, <2>4, <3>1 DEF Present
  <2>5. DOMAIN db'.contact = Contacts /\ IsContact(db'.contact[c])
        /\ \A x \in Contacts : x # c => db'.contact[x] = db.contact[x]
    BY <2>1, <2>2 DEF Whole, IsContact
  <2> QED BY <1>1, <1>2, <2>2, <2>3, <2>4, <2>5, RewriteStep DEF row
<1> QED BY <1>4, <1>5

-----------------------------------------------------------------------------
(* The whole. *)

LEMMA ContactInvInit == ContactInit => ContactInv
<1> SUFFICES ASSUME ContactInit PROVE ContactInv  OBVIOUS
<1>1. Whole(db)
  <2>1. /\ DOMAIN db = Fields /\ db.contact \in [Contacts -> Contact]
        /\ db.backup \in [Backups -> [Contacts -> [contact : Contact, lists : SUBSET Lists,
                                                   groups : SUBSET Groups]]]
        /\ db.rows \in 0..MaxBackups
    BY DEF ContactInit, Tables, Fields
  <2>2. \A r \in Contact : IsContact(r)  BY DEF Contact, IsContact, Absent
  <2>3. \A b \in Backups, c \in Contacts : db.backup[b][c].contact \in Contact
    BY <2>1
  <2> QED BY <2>1, <2>2, <2>3 DEF ContactInit, Whole
<1>2. \A w \in Workers : ReadBefore(w)
  BY DEF ContactInit, ReadBefore, Idle, Deleting, Restoring
<1>3. ASSUME NEW c \in Contacts, fate[c] = "known", ~db.contact[c].present
      PROVE  \E b \in Backups : SafeIn(c, b)
  <2>1. RowOf(db, c) # {}  BY <1>3 DEF ContactInit, Present
  <2>2. \A w \in Workers : job[w].op \notin Restoring  BY DEF ContactInit, Idle, Restoring
  <2> QED BY <2>1, <2>2 DEF RowOf, SafeIn
<1> QED BY <1>1, <1>2, <1>3 DEF ContactInit, ContactInv

LEMMA ContactInvNext == ContactInv /\ [ContactNext]_contactVars => ContactInv'
<1> SUFFICES ASSUME ContactInv, [ContactNext]_contactVars PROVE ContactInv'  OBVIOUS
<1>1. ASSUME NEW w \in Workers, Proceed(w) PROVE ContactInv'
  BY <1>1, FilingStep, HardDeleteStep, PurgesStep, RestoreStep, EraseStep, CreateStep, UpdateStep,
     ImportStep, MergeStep, DncStep, BulkDncStep, SuppressStep, DispositionStep, StageStep,
     SyncStep, ImportStepOfLead, PushStep, RepairStep DEF Proceed
<1>2. ASSUME NEW w \in Workers,
             NEW r \in MoveRequests \cup RecordRequests \cup AskTag \cup AskRepair \cup AskPush
                       \cup AskMerge,
             Begins(w, r)
      PROVE  ContactInv'
  <2>1. Sensible(r)
    BY MoveRequestsSensible, RecordRequestsSensible, MergeRequestSensible
  <2> QED BY <1>2, <2>1, SensibleBegins
<1>3. ASSUME NEW w \in Workers, RequestSync(w) PROVE ContactInv'  BY <1>3, SyncStep
<1>4. CASE Moves \/ Edits \/ Tracks  BY <1>4, MovesStep, EditsStep, TracksStep
<1>5. CASE UNCHANGED contactVars
  <2>1. Follows(db, db') /\ FateKept  BY <1>5, SameFollows DEF contactVars, FateKept, ContactInv
  <2> QED BY <1>5, <2>1, QuietStep DEF contactVars, ContactInv, Follows
<1> QED BY <1>1, <1>2, <1>3, <1>4, <1>5 DEF ContactNext

\* Whatever requests, syncs and repairs overlap, and whatever the tables held at
\* the start, a contact that was ever created is there or in a backup, unless it
\* was merged into another, its backup was deleted for good, or a merge named its
\* own master as a duplicate and deleted all it merged (deleteContactFromDb, bulkDeleteContactsInDb, restoreContactFromDb,
\* permanentlyDeleteContactFromDb).
THEOREM ContactsNothingLost == ContactSpec => []NothingLost
<1>1. ContactInv => NothingLost
  BY DEF ContactInv, NothingLost, SafeIn, RowOf, Present
<1> QED BY <1>1, ContactInvInit, ContactInvNext, PTL DEF ContactSpec

-----------------------------------------------------------------------------
(* What the events of a stage come to: the first day and the commission of a  *)
(* union are those of its parts.                                            *)

LEMMA LeastIsOne ==
    ASSUME NEW S \in SUBSET Nat, S # {} PROVE \E d \in S : \A r \in S : d <= r
<1>1. PICK n \in S : TRUE  OBVIOUS
<1> DEFINE N == {r \in S : r <= n}
           Below(s) == {r \in N : r < s}
           T == {Below(s) : s \in N}
<1>2. N \in SUBSET (0..n) /\ n \in N
  <2>1. n \in Nat /\ \A r \in N : r \in Nat /\ r <= n  OBVIOUS
  <2>2. n \in N  BY <2>1
  <2> HIDE DEF N
  <2> QED BY <2>1, <2>2
<1>3. ASSUME NEW s \in N PROVE Below(s) \in FiniteSubsetsOf(0..n)
  <2>1. IsFiniteSet(0..n)  BY FS_Interval
  <2>2. Below(s) \in SUBSET (0..n)  BY <1>2
  <2> HIDE DEF Below
  <2>3. IsFiniteSet(Below(s))  BY <2>1, <2>2, FS_Subset
  <2> QED BY <2>2, <2>3 DEF FiniteSubsetsOf
<1>4. IsWellFoundedOn(StrictSubsetOrdering(0..n), FiniteSubsetsOf(0..n))
  BY FS_StrictSubsetOrderingWellFounded
<1>5. T \subseteq FiniteSubsetsOf(0..n) /\ T # {}
  <2> HIDE DEF Below, N
  <2> QED BY <1>2, <1>3
<1>6. PICK U \in T : \A V \in T : <<V, U>> \notin StrictSubsetOrdering(0..n)
  <2> HIDE DEF T
  <2> QED BY <1>4, <1>5, WFMin, Zenon
<1>7. PICK d \in N : U = Below(d)  BY <1>6
<1>8. ASSUME NEW r \in N, ~(d <= r) PROVE FALSE
  <2>0. d \in 0..n /\ r \in 0..n  BY <1>2
  <2>1. r \in Below(d) /\ r \notin Below(r)  BY <1>8, <2>0
  <2>2. ASSUME NEW q \in Below(r) PROVE q \in Below(d)
    <3>1. q \in 0..n /\ q \in N /\ q < r  BY <1>2
    <3> QED BY <1>8, <2>0, <3>1
  <2>3. Below(r) \in SUBSET (0..n) /\ Below(d) \in SUBSET (0..n)  BY <1>2
  <2>4. Below(r) \in T  OBVIOUS
  <2> HIDE DEF Below, T, N
  <2>5. <<Below(r), Below(d)>> \in StrictSubsetOrdering(0..n)
    BY <2>1, <2>2, <2>3 DEF StrictSubsetOrdering
  <2> QED BY <1>6, <1>7, <2>4, <2>5
<1>9. ASSUME NEW r \in S PROVE d <= r
  <2>1. CASE r <= n  BY <1>8, <2>1
  <2>2. CASE ~(r <= n)  BY <1>2, <2>2
  <2> QED BY <2>1, <2>2
<1> QED BY <1>9

\* The events E of d, with their commissions and days.
Dated(d, E) == \A e \in E : d.event[e].gci \in Nat /\ d.event[e].on \in Nat
IsFirst(d, E, day) ==
    /\ \E e \in E : d.event[e].on = day
    /\ \A e \in E : day <= d.event[e].on

LEMMA FirstDayIs ==
    ASSUME NEW d, NEW E, E # {}, Dated(d, E)
    PROVE  IsFirst(d, E, FirstDay(d, E))
<1> DEFINE S == {d.event[e].on : e \in E}
<1>1. S \in SUBSET Nat /\ S # {}  BY DEF Dated
<1>2. \E x \in S : \A e \in E : x <= d.event[e].on
  <2> HIDE DEF S
  <2>1. PICK x \in S : \A r \in S : x <= r  BY <1>1, LeastIsOne
  <2> QED BY <2>1 DEF S
<1>3. FirstDay(d, E) \in S /\ \A e \in E : FirstDay(d, E) <= d.event[e].on
  BY <1>2 DEF FirstDay
<1> QED BY <1>3 DEF IsFirst

LEMMA OneFirstDay ==
    ASSUME NEW d, NEW E, E # {}, Dated(d, E), NEW day, IsFirst(d, E, day)
    PROVE  FirstDay(d, E) = day
<1>1. PICK first : first = FirstDay(d, E)  OBVIOUS
<1>2. IsFirst(d, E, first)  BY <1>1, FirstDayIs
<1>3. first = day
  <2>1. PICK e \in E : d.event[e].on = first  BY <1>2 DEF IsFirst
  <2>2. PICK f \in E : d.event[f].on = day  BY DEF IsFirst
  <2>3. first \in Nat /\ day \in Nat  BY <2>1, <2>2 DEF Dated
  <2>4. day <= first /\ first <= day  BY <1>2, <2>1, <2>2 DEF IsFirst
  <2> QED BY <2>3, <2>4
<1> QED BY <1>1, <1>3

LEMMA UnitsFinite ==
    ASSUME NEW d, NEW E \in SUBSET Events, Dated(d, E) PROVE IsFiniteSet(Units(d, E))
<1> DEFINE U(e) == {e} \X (1..d.event[e].gci)
           T == {U(e) : e \in E}
<1>1. IsFiniteSet(E)
  <2>1. MaxEvents \in Nat  BY ContactAssumption DEF ContactAssumption
  <2>2. IsFiniteSet(Events)  BY <2>1, FS_Interval DEF Events
  <2> QED BY <2>2, FS_Subset
<1>2. IsFiniteSet(T)
  <2> HIDE DEF U
  <2> DEFINE f == [e \in E |-> U(e)]
  <2>1. f \in Surjection(E, T)  BY DEF Surjection
  <2> HIDE DEF T, f
  <2> QED BY <1>1, <2>1, FS_Surjection
<1>3. \A u \in T : IsFiniteSet(u)
  <2>1. ASSUME NEW e \in E PROVE IsFiniteSet(U(e))
    <3>1. IsFiniteSet({e})  BY FS_Singleton
    <3>2. PICK n \in Nat : n = d.event[e].gci  BY DEF Dated
    <3>3. IsFiniteSet(1..n)  BY FS_Interval
    <3> QED BY <3>1, <3>2, <3>3, FS_Product
  <2> HIDE DEF U
  <2> QED BY <2>1
<1> HIDE DEF T
<1>4. IsFiniteSet(UNION T)  BY <1>2, <1>3, FS_UNION
<1> QED BY <1>4 DEF Units, T

LEMMA SumOfParts ==
    ASSUME NEW d, NEW E \in SUBSET Events, NEW F \in SUBSET Events, E \cap F = {},
           Dated(d, E \cup F)
    PROVE  /\ Sum(d, E \cup F) = Sum(d, E) + Sum(d, F)
           /\ Sum(d, E) \in Nat /\ Sum(d, F) \in Nat
<1> DEFINE A == Units(d, E) B == Units(d, F)
<1>1. IsFiniteSet(A) /\ IsFiniteSet(B)  BY UnitsFinite DEF Dated
<1>2. Units(d, E \cup F) = A \cup B  BY DEF Units
<1>3. A \cap B = {}
  <2>1. \A u \in A : u[1] \in E  BY DEF Units
  <2>2. \A u \in B : u[1] \in F  BY DEF Units
  <2> HIDE DEF A, B
  <2> QED BY <2>1, <2>2
<1> HIDE DEF A, B
<1>4. PICK m \in Nat : m = Cardinality(A)  BY <1>1, FS_CardinalityType
<1>5. PICK n \in Nat : n = Cardinality(B)  BY <1>1, FS_CardinalityType
<1>6. Cardinality(A \cup B) = Cardinality(A) + Cardinality(B) - Cardinality(A \cap B)
  BY <1>1, FS_Union
<1>7. Cardinality(A \cap B) = 0  BY <1>3, FS_EmptySet
<1>8. Cardinality(A \cup B) = m + n  BY <1>4, <1>5, <1>6, <1>7
<1> QED BY <1>2, <1>4, <1>5, <1>8 DEF Sum, A, B

LEMMA SumOfOne ==
    ASSUME NEW d, NEW e \in Events, Dated(d, {e}) PROVE Sum(d, {e}) = d.event[e].gci
<1>1. PICK n \in Nat : n = d.event[e].gci  BY DEF Dated
<1> DEFINE U == {e} \X (1..n) f == [i \in 1..n |-> <<e, i>>]
<1>2. Units(d, {e}) = U  BY <1>1 DEF Units
<1>3. f \in Surjection(1..n, U) /\ f \in Injection(1..n, U)
  <2>1. f \in [1..n -> U] /\ \A i \in 1..n : f[i] = <<e, i>>  OBVIOUS
  <2>2. \A u \in U : \E i \in 1..n : u = <<e, i>>  OBVIOUS
  <2> HIDE DEF f, U
  <2>3. \A i, j \in 1..n : f[i] = f[j] => i = j  BY <2>1
  <2> QED BY <2>1, <2>2, <2>3 DEF Surjection, Injection, IsInjective
<1>4. IsFiniteSet(1..n) /\ Cardinality(1..n) = n
  <2>1. PICK m : m = Cardinality(1..n)  OBVIOUS
  <2>2. IsFiniteSet(1..n) /\ m = IF 1 > n THEN 0 ELSE n - 1 + 1  BY <2>1, FS_Interval
  <2>3. m = n  BY <2>2
  <2> QED BY <2>1, <2>2, <2>3
<1> HIDE DEF f, U
<1>5. Cardinality(U) = n  BY <1>3, <1>4, FS_Surjection
<1> QED BY <1>1, <1>2, <1>5 DEF Sum

LEMMA SameSum ==
    ASSUME NEW d, NEW q, NEW E, \A e \in E : q.event[e].gci = d.event[e].gci
    PROVE  Sum(q, E) = Sum(d, E)
<1>1. Units(q, E) = Units(d, E)  BY DEF Units
<1> QED BY <1>1 DEF Sum

LEMMA SameFirst ==
    ASSUME NEW d, NEW q, NEW E, E # {}, Dated(d, E),
           \A e \in E : q.event[e].gci = d.event[e].gci /\ q.event[e].on = d.event[e].on
    PROVE  FirstDay(q, E) = FirstDay(d, E)
<1>1. Dated(q, E)  BY DEF Dated
<1>2. PICK day : day = FirstDay(d, E)  OBVIOUS
<1>3. IsFirst(d, E, day)  BY <1>2, FirstDayIs
<1>4. IsFirst(q, E, day)  BY <1>3 DEF IsFirst
<1> QED BY <1>1, <1>2, <1>4, OneFirstDay

\* Events A of E become the one event e, with what they came to.
MergesTo(d, q, E, A, e) ==
    /\ \A x \in E \ A : /\ q.event[x].gci = d.event[x].gci
                        /\ q.event[x].on = d.event[x].on
    /\ q.event[e].gci = Sum(d, A) /\ q.event[e].on = FirstDay(d, A)

LEMMA MergedIntoOne ==
    ASSUME NEW d, NEW q, NEW E \in SUBSET Events, NEW A \in SUBSET E, NEW e \in A,
           Dated(d, E), MergesTo(d, q, E, A, e), NEW F, F = (E \ A) \cup {e}
    PROVE  Dated(q, F) /\ Sum(q, F) = Sum(d, E) /\ FirstDay(q, F) = FirstDay(d, E)
<1> USE DEF MergesTo
<1> DEFINE R == E \ A
<1>0. /\ R \in SUBSET Events /\ A \in SUBSET Events /\ {e} \in SUBSET Events
      /\ R \cap A = {} /\ R \cup A = E /\ R \cap {e} = {} /\ F = R \cup {e}
  OBVIOUS
<1>1. Sum(d, E) = Sum(d, R) + Sum(d, A) /\ Sum(d, R) \in Nat /\ Sum(d, A) \in Nat
  <2> HIDE DEF R
  <2>1. Dated(d, R \cup A)  BY <1>0
  <2>2. /\ Sum(d, R \cup A) = Sum(d, R) + Sum(d, A)
        /\ Sum(d, R) \in Nat /\ Sum(d, A) \in Nat
    BY <1>0, <2>1, SumOfParts
  <2> QED BY <1>0, <2>2
<1>2. PICK first : first = FirstDay(d, A)  OBVIOUS
<1>3. IsFirst(d, A, first)  BY <1>2, FirstDayIs DEF Dated
<1>4. first \in Nat  BY <1>3 DEF IsFirst, Dated
<1>5. Dated(q, F)  BY <1>0, <1>1, <1>2, <1>4 DEF Dated
<1>6. Sum(q, F) = Sum(d, E)
  <2> HIDE DEF R
  <2>1. Sum(q, F) = Sum(q, R) + Sum(q, {e})
    <3>1. Dated(q, R \cup {e})  BY <1>0, <1>5
    <3>2. Sum(q, R \cup {e}) = Sum(q, R) + Sum(q, {e})  BY <1>0, <3>1, SumOfParts
    <3> QED BY <1>0, <3>2
  <2>2. Sum(q, R) = Sum(d, R)  BY SameSum DEF R
  <2>3. Sum(q, {e}) = q.event[e].gci
    <3>1. Dated(q, {e})  BY <1>0, <1>5 DEF Dated
    <3> QED BY <3>1, SumOfOne
  <2> QED BY <1>1, <2>1, <2>2, <2>3
<1>7. FirstDay(q, F) = FirstDay(d, E)
  <2>1. PICK day : day = FirstDay(d, E)  OBVIOUS
  <2>2. IsFirst(d, E, day)  BY <2>1, FirstDayIs
  <2>3. day \in Nat /\ day <= first
    BY <1>3, <2>2 DEF IsFirst, Dated
  <2>4. ASSUME NEW x \in F PROVE day <= q.event[x].on
    <3>1. CASE x = e  BY <1>2, <2>3, <3>1
    <3>2. CASE x # e  BY <2>2, <3>2 DEF IsFirst
    <3> QED BY <3>1, <3>2
  <2>5. \E x \in F : q.event[x].on = day
    <3>1. PICK x \in E : d.event[x].on = day  BY <2>2 DEF IsFirst
    <3>2. CASE x \in A
      <4>1. first <= day  BY <1>3, <3>1, <3>2 DEF IsFirst
      <4> QED BY <1>2, <1>4, <2>3, <4>1
    <3>3. CASE x \notin A  BY <3>1, <3>3
    <3> QED BY <3>2, <3>3
  <2>6. IsFirst(q, F, day) /\ F # {}  BY <2>4, <2>5 DEF IsFirst
  <2> QED BY <1>5, <2>1, <2>6, OneFirstDay
<1> QED BY <1>5, <1>6, <1>7

-----------------------------------------------------------------------------
(* The funnel.  Events that were there when a merge began are what they were  *)
(* until it commits.                                                        *)

EventsWhole(d) ==
    /\ DOMAIN d.event = Events /\ d.booked \in Nat
    /\ \A x \in Events : /\ DOMAIN d.event[x] = DOMAIN NoEvent
                         /\ d.event[x].gci \in Nat /\ d.event[x].on \in Nat
                         /\ x > d.booked => ~d.event[x].live

\* The same, but for the contact.
SameEvent(r, q) ==
    /\ DOMAIN r = DOMAIN q /\ r.live = q.live
    /\ r.stage = q.stage /\ r.gci = q.gci /\ r.on = q.on
EventsKept(d, e) ==
    /\ e.booked = d.booked /\ DOMAIN e.event = DOMAIN d.event
    /\ \A x \in Events : SameEvent(e.event[x], d.event[x])

\* Whoever merges has read the events as they are.
ReadEvents(d, seen) ==
    /\ EventsWhole(seen)
    /\ \A x \in Events : seen.event[x].live => SameEvent(d.event[x], seen.event[x])
FunnelInv ==
    /\ EventsWhole(db)
    /\ \A v, w \in Workers : job[v].op = "merge" /\ job[w].op = "merge" => v = w
    /\ \A w \in Workers : job[w].op = "merge" => ReadEvents(db, job[w].seen)

LiveAt(d, s) == {x \in Events : d.event[x].live /\ d.event[x].stage = s}
LEMMA SameBooked ==
    ASSUME NEW d, NEW e, NEW s, EventsWhole(d), EventsWhole(e),
           LiveAt(d, s) = {} <=> LiveAt(e, s) = {},
           Sum(e, LiveAt(e, s)) = Sum(d, LiveAt(d, s)),
           LiveAt(d, s) # {} => FirstDay(e, LiveAt(e, s)) = FirstDay(d, LiveAt(d, s))
    PROVE  Booked(e, s) = Booked(d, s)
BY DEF Booked, LiveAt

LEMMA KeptBooked ==
    ASSUME NEW d, NEW e, EventsWhole(d), EventsKept(d, e)
    PROVE  EventsWhole(e) /\ \A s : Booked(e, s) = Booked(d, s)
<1>1. EventsWhole(e)  BY DEF EventsWhole, EventsKept, SameEvent
<1>2. ASSUME NEW s PROVE Booked(e, s) = Booked(d, s)
  <2>1. PICK E : E = LiveAt(d, s) /\ E \in SUBSET Events  BY DEF LiveAt
  <2>2. LiveAt(e, s) = E  BY <2>1 DEF LiveAt, EventsKept, SameEvent
  <2>3. \A x \in E : e.event[x].gci = d.event[x].gci /\ e.event[x].on = d.event[x].on
    BY <2>1 DEF EventsKept, SameEvent
  <2>4. Dated(d, E)  BY <2>1 DEF Dated, EventsWhole
  <2>5. Sum(e, E) = Sum(d, E)  BY <2>3, SameSum
  <2>6. E # {} => FirstDay(e, E) = FirstDay(d, E)  BY <2>3, <2>4, SameFirst
  <2> QED BY <1>1, <2>1, <2>2, <2>5, <2>6, SameBooked
<1> QED BY <1>1, <1>2

\* The events of a stage as a merge has read them, and one of them, in the
\* merged events m, that stands for all.
ReadAt(seen, S, s) == {x \in EventsOf(seen, S) : seen.event[x].stage = s}
StandsFor(m, d, A, s, e) ==
    /\ e \in A /\ DOMAIN m[e] = DOMAIN NoEvent /\ m[e].live /\ m[e].stage = s
    /\ m[e].gci = Sum(d, A) /\ m[e].on = FirstDay(d, A)
    /\ \A x \in A \ {e} : m[x] = NoEvent

LEMMA MergedStage ==
    ASSUME NEW d, NEW seen, NEW master, NEW dups, EventsWhole(d), ReadEvents(d, seen),
           NEW m, m = mergedEvents(d, seen, master, dups), NEW s, NEW A,
           A = ReadAt(seen, dups \cup {master}, s)
    PROVE  (\A x \in A : m[x] = d.event[x]) \/ \E e : StandsFor(m, d, A, s, e)
<1> USE DEF ReadAt, StandsFor
<1> DEFINE all == dups \cup {master}
           at(t) == {x \in EventsOf(seen, all) : seen.event[x].stage = t}
           own(t) == {x \in at(t) : seen.event[x].of = master}
           survivor(t) == CHOOSE x \in at(t) : own(t) # {} => x \in own(t)
           stages == {t \in Stages : at(t) \ own(t) # {}}
           moved(x) == [d.event[x] EXCEPT !.of = master]
           summed(x, t) == [d.event[x] EXCEPT !.of = master, !.on = FirstDay(seen, at(t)),
                                              !.gci = MergedGci(seen, at(t))]
           new(x, t) == IF x \notin EventsOf(seen, all) \/ t \notin stages THEN d.event[x]
                        ELSE IF x # survivor(t) THEN NoEvent
                        ELSE IF at(t) = {x} THEN moved(x) ELSE summed(x, t)
<1>1. A \in SUBSET Events /\ \A x \in A : /\ d.event[x].live /\ d.event[x].stage = s
                                          /\ SameEvent(d.event[x], seen.event[x])
  BY DEF EventsOf, ReadEvents, SameEvent
<1>2. m = [x \in Events |-> new(x, seen.event[x].stage)]  BY DEF mergedEvents
<1>3. A = at(s) /\ \A x \in A : x \in EventsOf(seen, all) /\ seen.event[x].stage = s
  OBVIOUS
<1> HIDE DEF new
<1>4. \A x \in A : m[x] = new(x, s)
  <2> HIDE DEF at
  <2> QED BY <1>1, <1>2, <1>3
<1>5. CASE s \notin stages
  <2> HIDE DEF stages
  <2>1. \A x \in A : m[x] = d.event[x]  BY <1>3, <1>4, <1>5 DEF new
  <2> QED BY <2>1
<1>6. CASE s \in stages
  <2>1. PICK e : e = survivor(s)  OBVIOUS
  <2>2. e \in A
    <3>1. \E x \in at(s) : own(s) # {} => x \in own(s)  BY <1>6
    <3> QED BY <1>3, <2>1, <3>1
  <2>3. FirstDay(seen, A) = FirstDay(d, A) /\ MergedGci(seen, A) = Sum(d, A)
    <3>1. Dated(d, A)  BY <1>1 DEF Dated, EventsWhole
    <3>2. \A x \in A : /\ seen.event[x].gci = d.event[x].gci
                       /\ seen.event[x].on = d.event[x].on
      BY <1>1 DEF SameEvent
    <3>3. FirstDay(seen, A) = FirstDay(d, A)  BY <2>2, <3>1, <3>2, SameFirst
    <3>4. Sum(seen, A) = Sum(d, A)  BY <3>2, SameSum
    <3> QED BY <3>3, <3>4 DEF MergedGci
  <2> HIDE DEF stages, survivor, at, own, all, moved, summed
  <2>4. ASSUME NEW x \in A \ {e} PROVE m[x] = NoEvent
    BY <1>3, <1>4, <1>6, <2>1, <2>4 DEF new
  <2>5. m[e] = IF A = {e} THEN moved(e) ELSE summed(e, s)
    BY <1>3, <1>4, <1>6, <2>1, <2>2 DEF new
  <2>6. DOMAIN d.event[e] = DOMAIN NoEvent /\ d.event[e].live /\ d.event[e].stage = s
    BY <1>1, <2>2 DEF EventsWhole
  <2>7. CASE A = {e}
    <3>1. m[e] = moved(e)  BY <2>5, <2>7
    <3>2. Dated(d, A)  BY <1>1 DEF Dated, EventsWhole
    <3>3. Sum(d, A) = d.event[e].gci  BY <1>1, <2>7, <3>2, SumOfOne
    <3>4. FirstDay(d, A) = d.event[e].on
      <4>1. PICK day \in Nat : day = d.event[e].on  BY <1>1, <2>2 DEF EventsWhole
      <4>2. \A x \in A : d.event[x].on = day  BY <2>7, <4>1
      <4>3. day <= day  OBVIOUS
      <4>4. IsFirst(d, A, day)  BY <2>2, <4>2, <4>3 DEF IsFirst
      <4> QED BY <2>2, <3>2, <4>1, <4>4, OneFirstDay
    <3>5. /\ DOMAIN m[e] = DOMAIN NoEvent /\ m[e].live /\ m[e].stage = s
          /\ m[e].gci = d.event[e].gci /\ m[e].on = d.event[e].on
      BY <2>6, <3>1 DEF moved, NoEvent
    <3> QED BY <2>2, <2>4, <3>3, <3>4, <3>5
  <2>8. CASE A # {e}
    <3>1. m[e] = [d.event[e] EXCEPT !.of = master, !.on = FirstDay(d, A), !.gci = Sum(d, A)]
      BY <1>3, <2>3, <2>5, <2>8 DEF summed
    <3>2. /\ DOMAIN m[e] = DOMAIN NoEvent /\ m[e].live /\ m[e].stage = s
          /\ m[e].gci = Sum(d, A) /\ m[e].on = FirstDay(d, A)
      BY <2>6, <3>1 DEF NoEvent
    <3> QED BY <2>2, <2>4, <3>2
  <2> QED BY <2>7, <2>8
<1> QED BY <1>5, <1>6

LEMMA MergedBooked ==
    ASSUME NEW d, NEW seen, NEW master, NEW dups, EventsWhole(d), ReadEvents(d, seen),
           NEW q, q.event = mergedEvents(d, seen, master, dups), q.booked = d.booked
    PROVE  EventsWhole(q) /\ \A s : Booked(q, s) = Booked(d, s)
<1> DEFINE all == dups \cup {master}
           A(s) == ReadAt(seen, all, s)
<1>0. PICK m : m = mergedEvents(d, seen, master, dups)  OBVIOUS
<1>1. DOMAIN m = Events  BY <1>0 DEF mergedEvents
<1>2. ASSUME NEW x \in Events, x \notin EventsOf(seen, all) PROVE m[x] = d.event[x]
  BY <1>0, <1>2 DEF mergedEvents
<1> HIDE DEF all
<1>3. ASSUME NEW s
      PROVE  (\A x \in A(s) : m[x] = d.event[x]) \/ \E e : StandsFor(m, d, A(s), s, e)
  <2>1. PICK B : B = ReadAt(seen, dups \cup {master}, s)  OBVIOUS
  <2>2. (\A x \in B : m[x] = d.event[x]) \/ \E e : StandsFor(m, d, B, s, e)
    BY <1>0, <2>1, MergedStage
  <2> QED BY <2>1, <2>2 DEF all
<1>4. ASSUME NEW s
      PROVE  A(s) \in SUBSET LiveAt(d, s) /\ LiveAt(d, s) \in SUBSET Events
             /\ Dated(d, LiveAt(d, s)) /\ Dated(d, A(s))
  <2>1. A(s) \in SUBSET LiveAt(d, s)  BY DEF ReadAt, EventsOf, LiveAt, ReadEvents, SameEvent
  <2>2. Dated(d, LiveAt(d, s))  BY DEF Dated, LiveAt, EventsWhole
  <2> QED BY <2>1, <2>2 DEF LiveAt, Dated
<1>5. ASSUME NEW s, NEW e, StandsFor(m, d, A(s), s, e)
      PROVE  Sum(d, A(s)) \in Nat /\ FirstDay(d, A(s)) \in Nat
  <2>1. PICK B : B = A(s)  OBVIOUS
  <2>2. IsFiniteSet(Units(d, B))  BY <1>4, <2>1, UnitsFinite
  <2>3. Sum(d, B) \in Nat  BY <2>2, FS_CardinalityType DEF Sum
  <2>4. PICK first : first = FirstDay(d, B)  OBVIOUS
  <2>5. IsFirst(d, B, first)  BY <1>4, <1>5, <2>1, <2>4, FirstDayIs DEF StandsFor
  <2>6. first \in Nat  BY <1>4, <2>1, <2>5 DEF IsFirst, Dated
  <2> QED BY <2>1, <2>3, <2>4, <2>6
<1>6. ASSUME NEW x \in Events
      PROVE  /\ DOMAIN m[x] = DOMAIN NoEvent /\ m[x].gci \in Nat /\ m[x].on \in Nat
             /\ m[x].live => d.event[x].live
  <2>1. CASE m[x] = d.event[x]  BY <2>1 DEF EventsWhole
  <2>2. CASE m[x] = NoEvent  BY <2>2 DEF NoEvent
  <2>3. CASE m[x] # d.event[x] /\ m[x] # NoEvent
    <3>1. PICK s : x \in A(s)  BY <1>2, <2>3 DEF ReadAt
    <3>2. PICK e : StandsFor(m, d, A(s), s, e)  BY <1>3, <2>3, <3>1
    <3>3. x = e  BY <2>3, <3>1, <3>2 DEF StandsFor
    <3>4. d.event[x].live  BY <1>4, <3>1 DEF LiveAt
    <3> QED BY <1>5, <3>2, <3>3, <3>4 DEF StandsFor
  <2> QED BY <2>1, <2>2, <2>3
<1>7. EventsWhole(q)  BY <1>0, <1>1, <1>6 DEF EventsWhole
<1>8. ASSUME NEW s PROVE Booked(q, s) = Booked(d, s)
  <2>1. PICK E : E = LiveAt(d, s)  OBVIOUS
  <2>2. PICK B : B = A(s)  OBVIOUS
  <2>3. B \in SUBSET E /\ E \in SUBSET Events /\ Dated(d, E)  BY <1>4, <2>1, <2>2
  <2>4. q.event = m  BY <1>0
  <2>5. ASSUME NEW x \in Events \ B
        PROVE  (x \in LiveAt(q, s) <=> x \in E) /\ (x \in E => m[x] = d.event[x])
    <3>1. CASE x \notin EventsOf(seen, all)  BY <1>2, <2>1, <2>4, <3>1 DEF LiveAt
    <3>2. CASE x \in EventsOf(seen, all)
      <4>1. PICK t : t = seen.event[x].stage  OBVIOUS
      <4>2. x \in A(t) /\ t # s  BY <2>2, <3>2, <4>1 DEF ReadAt
      <4>3. x \in LiveAt(d, t)  BY <1>4, <4>2
      <4>4. x \notin E  BY <2>1, <4>2, <4>3 DEF LiveAt
      <4>5. CASE m[x] = d.event[x]  BY <2>1, <2>4, <4>4, <4>5 DEF LiveAt
      <4>6. CASE m[x] # d.event[x]
        <5>1. PICK e : StandsFor(m, d, A(t), t, e)  BY <1>3, <4>2, <4>6
        <5>2. m[x].stage = t \/ m[x] = NoEvent  BY <4>2, <5>1 DEF StandsFor
        <5> QED BY <2>4, <4>2, <4>4, <5>2 DEF LiveAt, NoEvent
      <4> QED BY <4>5, <4>6
    <3> QED BY <3>1, <3>2
  <2>6. \A x \in E \ B : m[x] = d.event[x]  BY <2>3, <2>5
  <2>7. CASE \A x \in B : m[x] = d.event[x]
    <3>1. \A x \in E : m[x] = d.event[x]  BY <2>6, <2>7
    <3>2. LiveAt(q, s) = E
      <4>1. \A x \in B : x \in LiveAt(q, s)  BY <2>1, <2>3, <2>4, <2>7 DEF LiveAt
      <4> QED BY <2>3, <2>5, <4>1 DEF LiveAt
    <3>3. Sum(q, E) = Sum(d, E)  BY <2>4, <3>1, SameSum
    <3>4. E # {} => FirstDay(q, E) = FirstDay(d, E)  BY <2>3, <2>4, <3>1, SameFirst
    <3> QED BY <1>7, <2>1, <3>2, <3>3, <3>4, SameBooked
  <2>8. CASE \E e : StandsFor(m, d, B, s, e)
    <3>1. PICK e \in B : StandsFor(m, d, B, s, e)  BY <2>8 DEF StandsFor
    <3>2. PICK F : F = (E \ B) \cup {e}  OBVIOUS
    <3>3. LiveAt(q, s) = F
      <4>1. e \in LiveAt(q, s)  BY <2>3, <2>4, <3>1 DEF LiveAt, StandsFor
      <4>2. \A x \in B : x # e => x \notin LiveAt(q, s)  BY <2>4, <3>1 DEF LiveAt, NoEvent, StandsFor
      <4> QED BY <2>3, <2>5, <3>2, <4>1, <4>2 DEF LiveAt
    <3>4. q.event[e].gci = Sum(d, B) /\ q.event[e].on = FirstDay(d, B)
      BY <2>4, <3>1 DEF StandsFor
    <3>5. MergesTo(d, q, E, B, e)  BY <2>4, <2>6, <3>4 DEF MergesTo
    <3>6. Sum(q, F) = Sum(d, E) /\ FirstDay(q, F) = FirstDay(d, E)
      BY <2>3, <3>2, <3>5, MergedIntoOne
    <3> QED BY <1>7, <2>1, <2>3, <3>1, <3>2, <3>3, <3>6, SameBooked
  <2> QED BY <1>3, <2>2, <2>7, <2>8
<1> QED BY <1>7, <1>8

-----------------------------------------------------------------------------
(* Handlers that leave the funnel alone. *)

EventsRest ==
    /\ EventsKept(db, db')
    /\ \A v \in Workers : job'[v] = job[v] \/ job'[v].op # "merge"

LEMMA RestingEvents ==
    ASSUME FunnelInv, EventsRest
    PROVE  FunnelInv' /\ \A s : Booked(db', s) = Booked(db, s)
<1>1. EventsWhole(db)' /\ \A s : Booked(db', s) = Booked(db, s)
  BY KeptBooked DEF FunnelInv, EventsRest
<1>2. ASSUME NEW w \in Workers, job'[w].op = "merge"
      PROVE  job[w].op = "merge" /\ job'[w] = job[w]
  BY <1>2 DEF EventsRest
<1>3. ASSUME NEW w \in Workers, job'[w].op = "merge" PROVE ReadEvents(db, job[w].seen)'
  <2>1. PICK q : q = job[w].seen /\ ReadEvents(db, q) /\ job'[w].seen = q
    BY <1>2, <1>3 DEF FunnelInv
  <2>2. ReadEvents(db', q)  BY <2>1 DEF ReadEvents, EventsRest, EventsKept, SameEvent
  <2> QED BY <2>1, <2>2
<1> QED BY <1>1, <1>2, <1>3 DEF FunnelInv

\* No event is written.
Untracked == db'.event = db.event /\ db'.booked = db.booked
LEMMA UntrackedKept == ASSUME Untracked PROVE EventsKept(db, db')
BY DEF Untracked, EventsKept, SameEvent

LEMMA MovesUntracked ==
    ASSUME ContactInv, NEW w \in Workers,
           \/ assignContactsToList(w) \/ bulkAssignContactsToFolder(w)
           \/ assignContactToGroups(w) \/ moveContactsToTrash(w)
    PROVE  Untracked
<1>0. DOMAIN db = Fields  BY DEF ContactInv, Whole
<1> USE DEF Commits, Ends, Untracked, Fields
<1>1. CASE assignContactsToList(w)  BY <1>0, <1>1 DEF assignContactsToList, AssignedToList
<1>2. CASE bulkAssignContactsToFolder(w)
  BY <1>0, <1>2 DEF bulkAssignContactsToFolder, AssignedToFolder
<1>3. CASE assignContactToGroups(w)  BY <1>0, <1>3 DEF assignContactToGroups
<1>4. CASE moveContactsToTrash(w)  BY <1>0, <1>4 DEF moveContactsToTrash, Ensured
<1> QED BY <1>1, <1>2, <1>3, <1>4

LEMMA RecordsUntracked ==
    ASSUME ContactInv, NEW w \in Workers,
           \/ createContact(w) \/ updateContact(w) \/ importContacts(w)
           \/ moveToDnc(w) \/ bulkMoveToDnc(w) \/ suppressNumber(w) \/ suppressedLast(w)
           \/ applyDisposition(w)
    PROVE  Untracked
<1>0. DOMAIN db = Fields  BY DEF ContactInv, Whole
<1> USE DEF Commits, Ends, Untracked, Fields
<1>1. CASE createContact(w)  BY <1>0, <1>1 DEF createContact
<1>2. CASE updateContact(w)  BY <1>0, <1>2 DEF updateContact, Ensured
<1>3. CASE importContacts(w)
  BY <1>0, <1>3 DEF importContacts, PutInto, Inserted, Overwritten
<1>4. CASE moveToDnc(w)  BY <1>0, <1>4 DEF moveToDnc, Ensured
<1>5. CASE bulkMoveToDnc(w)  BY <1>0, <1>5 DEF bulkMoveToDnc, Ensured
<1>6. CASE suppressNumber(w)  BY <1>0, <1>6 DEF suppressNumber
<1>7. CASE suppressedLast(w)  BY <1>7 DEF suppressedLast
<1>8. CASE applyDisposition(w)  BY <1>0, <1>8 DEF applyDisposition
<1> QED BY <1>1, <1>2, <1>3, <1>4, <1>5, <1>6, <1>7, <1>8

LEMMA LeadsUntracked ==
    ASSUME ContactInv, NEW w \in Workers,
           \/ SyncStarts(w) \/ SyncFinds(w) \/ SyncCreates(w) \/ SyncPushes(w)
           \/ SyncPhones(w) \/ SyncEnds(w)
           \/ PushFinds(w) \/ PushCreates(w) \/ PushFolder(w) \/ repairListMembership(w)
           \/ RequestSync(w)
    PROVE  Untracked
<1>0. DOMAIN db = Fields  BY DEF ContactInv, Whole
<1> USE DEF Untracked, Fields
<1>1. CASE SyncStarts(w) \/ SyncFinds(w) \/ SyncEnds(w) \/ PushFinds(w) \/ RequestSync(w)
  BY <1>1 DEF SyncStarts, SyncFinds, SyncEnds, PushFinds, RequestSync
<1>2. CASE SyncCreates(w)  BY <1>0, <1>2 DEF SyncCreates
<1>3. CASE SyncPushes(w)  BY <1>0, <1>3 DEF SyncPushes
<1>4. CASE SyncPhones(w)  BY <1>0, <1>4 DEF SyncPhones
<1>5. CASE PushCreates(w)  BY <1>0, <1>5 DEF PushCreates
<1>6. CASE PushFolder(w)  BY <1>0, <1>6 DEF PushFolder
<1>7. CASE repairListMembership(w)  BY <1>0, <1>7 DEF repairListMembership, Commits, Ends
<1> QED BY <1>1, <1>2, <1>3, <1>4, <1>5, <1>6, <1>7

LEMMA StatementsUntracked ==
    ASSUME ContactInv, Moves \/ Edits PROVE Untracked /\ job' = job
<1>0. DOMAIN db = Fields  BY DEF ContactInv, Whole
<1> USE DEF Statement, Untracked, Fields
<1>1. CASE createContactList \/ updateContactList \/ deleteContactList
  BY <1>0, <1>1 DEF createContactList, updateContactList, deleteContactList
<1>2. CASE createContactFolder \/ updateContactFolder \/ deleteContactFolder
  BY <1>0, <1>2 DEF createContactFolder, updateContactFolder, deleteContactFolder
<1>3. CASE createContactGroup \/ updateContactGroup \/ deleteContactGroup
  BY <1>0, <1>3 DEF createContactGroup, updateContactGroup, deleteContactGroup
<1>4. CASE assignContactToFolder  BY <1>0, <1>4 DEF assignContactToFolder
<1>5. CASE Edits  BY <1>0, <1>5 DEF Edits, removeFromDnc, markAsContacted
<1> QED BY <1>1, <1>2, <1>3, <1>4, <1>5 DEF Moves

\* A delete takes the contact out of its events, which stay.
LEMMA DeletedKept ==
    ASSUME NEW d, EventsWhole(d), DOMAIN d = Fields, NEW S
    PROVE  EventsKept(d, Deleted(d, S))
BY DEF EventsWhole, EventsKept, SameEvent, Deleted, Fields, NoEvent

LEMMA GoneKept ==
    ASSUME NEW m, EventsWhole(m), DOMAIN m = Fields, NEW seen, NEW S, NEW homes
    PROVE  EventsKept(m, Gone(m, seen, S, homes))
<1> DEFINE T == Saved(seen, S, homes) b == BackedUp(m, T) t == Tombstoned(b, S)
<1> HIDE DEF T
<1>1. DOMAIN b = Fields /\ b.event = m.event /\ b.booked = m.booked
  BY DEF BackedUp, Fields
<1> HIDE DEF b
<1>2. DOMAIN t = Fields /\ t.event = m.event /\ t.booked = m.booked
  BY <1>1 DEF Tombstoned, Fields
<1>3. EventsWhole(t)  BY <1>2 DEF EventsWhole
<1> HIDE DEF t
<1>4. EventsKept(t, Deleted(t, S))  BY <1>2, <1>3, DeletedKept
<1>5. Gone(m, seen, S, homes) = Deleted(t, S)  BY DEF Gone, t, b, T
<1> QED BY <1>2, <1>4, <1>5 DEF EventsKept

LEMMA PurgedKept ==
    ASSUME NEW m, EventsWhole(m), DOMAIN m = Fields, NEW seen, NEW S
    PROVE  EventsKept(m, Purged(m, seen, S))
<1> DEFINE u == Unlisted(m, seen, S)
<1>1. DOMAIN u = Fields /\ u.event = m.event /\ u.booked = m.booked
  BY DEF Unlisted, Fields
<1>2. EventsWhole(u)  BY <1>1 DEF EventsWhole
<1> HIDE DEF u
<1>3. EventsKept(u, Gone(u, seen, S, FALSE))  BY <1>1, <1>2, GoneKept
<1>4. EventsKept(m, Gone(u, seen, S, FALSE))  BY <1>1, <1>3 DEF EventsKept
<1>5. EventsKept(m, m)  BY DEF EventsKept, SameEvent
<1>6. Purged(m, seen, S) = IF S = {} THEN m ELSE Gone(u, seen, S, FALSE)
  BY DEF Purged, Gone, u
<1> QED BY <1>4, <1>5, <1>6

LEMMA DeletesKept ==
    ASSUME ContactInv, FunnelInv, NEW w \in Workers,
           \/ deleteContact(w) \/ purgeContacts(w) \/ removeFromFolder(w) \/ removeFromList(w)
           \/ restoreContact(w) \/ permanentlyDeleteContact(w)
    PROVE  EventsKept(db, db')
<1> DEFINE W == job[w]
<1>0. DOMAIN db = Fields /\ EventsWhole(db)  BY DEF ContactInv, Whole, FunnelInv
<1>1. EventsKept(db, db)  BY DEF EventsKept, SameEvent
<1>2. CASE deleteContact(w)
  <2> DEFINE u == Unlisted(db, W.seen, W.ids)
  <2>1. \E ok : Commits(w, ok, Gone(u, W.seen, W.ids, TRUE))
    BY <1>2, Zenon DEF deleteContact, Gone
  <2>2. DOMAIN u = Fields /\ u.event = db.event /\ u.booked = db.booked
    BY <1>0 DEF Unlisted, Fields
  <2> HIDE DEF u
  <2>3. EventsWhole(u)  BY <1>0, <2>2 DEF EventsWhole
  <2>4. EventsKept(u, Gone(u, W.seen, W.ids, TRUE))  BY <2>2, <2>3, GoneKept
  <2>5. EventsKept(db, Gone(u, W.seen, W.ids, TRUE))  BY <2>2, <2>4 DEF EventsKept
  <2> QED BY <1>1, <2>1, <2>5 DEF Commits, Ends
<1>3. CASE purgeContacts(w) \/ removeFromFolder(w) \/ removeFromList(w)
  <2>1. PICK m, seen, S, ok :
          /\ DOMAIN m = Fields /\ m.event = db.event /\ m.booked = db.booked
          /\ Commits(w, ok, Purged(m, seen, S))
    <3>1. CASE purgeContacts(w)  BY <1>0, <3>1 DEF purgeContacts
    <3>2. CASE removeFromFolder(w)
      <4> DEFINE f == W.to
                 ids == {c \in W.ids : f \in W.seen.contact[c].folders}
                 kept == {c \in ids : W.seen.contact[c].folders # {f}
                                      \/ ListsWith(W.seen, {c}) # {}}
                 left == [db EXCEPT
                       !.folder[f].members = W.seen.folder[f].members \ ids,
                       !.contact = [c \in Contacts |->
                          IF c \in kept
                          THEN [db.contact[c] EXCEPT !.folders = W.seen.contact[c].folders \ {f}]
                          ELSE db.contact[c]]]
      <4>1. \E ok : Commits(w, ok, Purged(left, W.seen, ids \ kept))
        BY <3>2, Zenon DEF removeFromFolder
      <4> HIDE DEF kept, ids
      <4>2. DOMAIN left = Fields /\ left.event = db.event /\ left.booked = db.booked
        BY <1>0 DEF Fields
      <4> HIDE DEF left
      <4> QED BY <4>1, <4>2
    <3>3. CASE removeFromList(w)
      <4> DEFINE l == W.to
                 ids == W.ids \cap W.seen.list[l].members
                 left == [db EXCEPT !.list[l].members = W.seen.list[l].members \ ids]
      <4>1. \E ok, seen, S : Commits(w, ok, Purged(left, seen, S))
        BY <3>3, Zenon DEF removeFromList
      <4> HIDE DEF ids
      <4>2. DOMAIN left = Fields /\ left.event = db.event /\ left.booked = db.booked
        BY <1>0 DEF Fields
      <4> HIDE DEF left
      <4> QED BY <4>1, <4>2
    <3> QED BY <1>3, <3>1, <3>2, <3>3
  <2>2. EventsWhole(m)  BY <1>0, <2>1 DEF EventsWhole
  <2>3. EventsKept(m, Purged(m, seen, S))  BY <2>1, <2>2, PurgedKept
  <2>4. EventsKept(db, Purged(m, seen, S))  BY <2>1, <2>3 DEF EventsKept
  <2> QED BY <1>1, <2>1, <2>4 DEF Commits, Ends
<1>4. CASE restoreContact(w)
  <2>1. Untracked  BY <1>0, <1>4 DEF restoreContact, Commits, Ends, Untracked, Fields
  <2> QED BY <2>1, UntrackedKept
<1>5. CASE permanentlyDeleteContact(w)
  <2>1. Untracked  BY <1>0, <1>5 DEF permanentlyDeleteContact, Ends, Untracked, Fields
  <2> QED BY <2>1, UntrackedKept
<1> QED BY <1>2, <1>3, <1>4, <1>5

\* A handler of a transaction, or one that passes on, is not merging then.
LEMMA JobsRest ==
    ASSUME ContactInv, NEW w \in Workers, Proceed(w)
    PROVE  \A v \in Workers : job'[v] = job[v] \/ job'[v].op # "merge"
<1>0. DOMAIN job = Workers /\ DOMAIN job[w] = DOMAIN Idle
  BY DEF ContactInv, ReadBefore
<1>1. Idle.op # "merge"  BY DEF Idle
<1>2. ASSUME NEW new, new.op # "merge", job' = [job EXCEPT ![w] = new]
      PROVE  \A v \in Workers : job'[v] = job[v] \/ job'[v].op # "merge"
  BY <1>0, <1>2
<1>3. CASE job' = [job EXCEPT ![w] = Idle]  BY <1>1, <1>2, <1>3
<1>4. CASE \/ assignContactsToList(w) \/ bulkAssignContactsToFolder(w)
           \/ assignContactToGroups(w) \/ moveContactsToTrash(w) \/ deleteContact(w)
           \/ purgeContacts(w) \/ removeFromFolder(w) \/ removeFromList(w)
           \/ restoreContact(w) \/ permanentlyDeleteContact(w)
           \/ createContact(w) \/ updateContact(w) \/ importContacts(w) \/ mergeContacts(w)
           \/ moveToDnc(w) \/ bulkMoveToDnc(w) \/ applyDisposition(w)
           \/ setContactDispositions(w) \/ repairListMembership(w)
  <2>1. \E ok, new, ends, as : Ends(w, ok, new, ends, as)
    <3>1. CASE mergeContacts(w)  BY <3>1, MergeEnds
    <3>2. CASE ~mergeContacts(w)
      BY <1>4, <3>2, Zenon DEF Commits, assignContactsToList, bulkAssignContactsToFolder,
         assignContactToGroups, moveContactsToTrash, deleteContact, purgeContacts,
         removeFromFolder, removeFromList, restoreContact, permanentlyDeleteContact,
         createContact, updateContact, importContacts, moveToDnc,
         bulkMoveToDnc, applyDisposition, setContactDispositions, repairListMembership
    <3> QED BY <3>1, <3>2
  <2> QED BY <1>3, <2>1 DEF Ends
<1>5. CASE suppressNumber(w) \/ suppressedLast(w)
  BY <1>0, <1>2, <1>3, <1>5 DEF suppressNumber, suppressedLast, Idle
<1>6. CASE \/ SyncStarts(w) \/ SyncFinds(w) \/ SyncCreates(w) \/ SyncPushes(w)
           \/ SyncPhones(w) \/ SyncEnds(w)
  <2> USE DEF Steps, Serves, Idle
  <2>1. CASE SyncStarts(w) \/ SyncEnds(w)
    <3>1. CASE SyncEnds(w)  BY <1>3, <3>1 DEF SyncEnds
    <3>2. CASE SyncStarts(w)
      <4>1. PICK x : job' = [job EXCEPT ![w] = [Idle EXCEPT !.op = "sync", !.seen = x]]
        BY <3>2 DEF SyncStarts
      <4> QED BY <1>0, <4>1
    <3> QED BY <2>1, <3>1, <3>2
  <2>2. CASE SyncFinds(w)
    <3>1. PICK new, n :
            /\ job' = [job EXCEPT ![w] = new]
            /\ LET rest == [job[w] EXCEPT !.seen.todo = @ \ {n}]
               IN new = rest \/ new = [rest EXCEPT !.op = "syncCreate", !.to = n]
      BY <2>2 DEF SyncFinds
    <3>2. new.op \in {"sync", "syncCreate"}  BY <1>0, <2>2, <3>1 DEF SyncFinds
    <3> QED BY <1>0, <3>1, <3>2
  <2>3. CASE SyncCreates(w)  BY <1>0, <2>3 DEF SyncCreates
  <2>4. CASE SyncPushes(w)  BY <1>0, <2>4 DEF SyncPushes
  <2>5. CASE SyncPhones(w)
    <3>1. PICK new : /\ job' = [job EXCEPT ![w] = new]
                     /\ \/ new = [job[w] EXCEPT !.op = "syncEnds"]
                        \/ new = [job[w] EXCEPT !.op = "sync", !.ids = {}, !.to = None,
                                                !.how = None]
      BY <2>5 DEF SyncPhones
    <3>2. new.op \in {"sync", "syncEnds"}  BY <1>0, <3>1
    <3> QED BY <1>0, <3>1, <3>2
  <2> QED BY <1>6, <2>1, <2>2, <2>3, <2>4, <2>5
<1>7. CASE PushFinds(w) \/ PushCreates(w) \/ PushFolder(w)
  <2> USE DEF Steps, Serves, Idle
  <2>1. CASE PushFinds(w)  BY <1>0, <2>1 DEF PushFinds
  <2>2. CASE PushCreates(w)  BY <1>0, <2>2 DEF PushCreates
  <2>3. CASE PushFolder(w)  BY <1>0, <2>3 DEF PushFolder
  <2> QED BY <1>7, <2>1, <2>2, <2>3
<1> QED BY <1>4, <1>5, <1>6, <1>7 DEF Proceed

LEMMA MergeBooks ==
    ASSUME ContactInv, FunnelInv, NEW w \in Workers, mergeContacts(w)
    PROVE  FunnelInv' /\ (MergesItself \/ \A s : Booked(db', s) = Booked(db, s))
<1> DEFINE W == job[w] master == W.to[1] dups == (W.ids \ {master}) \cap Present(W.seen)
           itself == master \in W.ids all == dups \cup {master}
           events == mergedEvents(db, W.seen, master, dups)
           M(lists, phones, folders, mpl, event) ==
                    [db EXCEPT
                     !.list = lists,
                     !.contact[master].phones = phones, !.contact[master].blocked = {},
                     !.contact[master].folders = folders,
                     !.contact[master].mpl = mpl,
                     !.event = event]
<1>0. DOMAIN db = Fields /\ EventsWhole(db) /\ DOMAIN job = Workers
  BY DEF ContactInv, Whole, FunnelInv
<1>1. \E ok, lists, phones, folders, mpl, event, ends, as :
        /\ Ends(w, ok, Deleted(M(lists, phones, folders, mpl, event), ends), ends, as)
        /\ (event = events \/ (itself /\ event = Dissolved(events, W.seen, master, all)))
  <2> DEFINE l == W.to[2] f == W.to[3]
             phones == UNION {W.seen.contact[c].phones : c \in all}
             gone == ListsWith(W.seen, all)
             left == Scrubbed(db.list, W.seen.list, gone, all)
             target == (IF l \in gone THEN left[l].members ELSE W.seen.list[l].members)
                       \cup {master}
             lists == [left EXCEPT ![l].members = target]
             folders == {f}
             mpl == \E c \in all : W.seen.contact[c].mpl
             ends == IF itself THEN all ELSE dups
             event == IF itself THEN Dissolved(events, W.seen, master, all) ELSE events
             as == IF itself THEN "dissolved" ELSE "merged"
  <2>1. \E ok : Ends(w, ok, Deleted(M(lists, phones, folders, mpl, event), ends), ends, as)
    BY Zenon DEF mergeContacts
  <2>2. event = events \/ (itself /\ event = Dissolved(events, W.seen, master, all))
    BY Zenon
  <2> HIDE DEF lists, phones, folders, mpl, event, M, dups, ends, as, events, all, itself
  <2> QED BY <2>1, <2>2, Zenon
<1>2. PICK ok, lists, phones, folders, mpl, event, ends, as :
        /\ Ends(w, ok, Deleted(M(lists, phones, folders, mpl, event), ends), ends, as)
        /\ (event = events \/ (itself /\ event = Dissolved(events, W.seen, master, all)))
  BY <1>1
<1>3. PICK m : m = M(lists, phones, folders, mpl, event)  OBVIOUS
<1>4. DOMAIN m = Fields /\ m.booked = db.booked /\ m.event = event
  BY <1>0, <1>3 DEF Fields
<1> HIDE DEF M
<1>5. Ends(w, ok, Deleted(m, ends), ends, as)  BY <1>2, <1>3
<1>6. ReadEvents(db, W.seen) /\ W.op = "merge"
  BY Zenon DEF FunnelInv, mergeContacts, Serves
<1>7. itself => MergesItself
  BY <1>6, Zenon DEF MergesItself, mergeContacts, Serves
<1>8. PICK n : n = [m EXCEPT !.event = events]  OBVIOUS
<1>9. DOMAIN n = Fields /\ n.booked = db.booked /\ n.event = events
  BY <1>4, <1>8 DEF Fields
<1> HIDE DEF dups, master, itself, all
<1>11. EventsWhole(n) /\ \A s : Booked(n, s) = Booked(db, s)
  BY <1>0, <1>6, <1>9, MergedBooked
<1> HIDE DEF events
<1>12. EventsWhole(m)
  <2>1. \A e \in Events : m.event[e] = n.event[e] \/ m.event[e] = NoEvent
    BY <1>2, <1>4, <1>9 DEF Dissolved
  <2>2. DOMAIN m.event = Events  BY <1>2, <1>4, <1>9, <1>11 DEF Dissolved, EventsWhole
  <2> QED BY <1>4, <1>9, <1>11, <2>1, <2>2 DEF EventsWhole, NoEvent
<1>13. EventsKept(m, Deleted(m, ends))  BY <1>4, <1>12, DeletedKept
<1>14. ASSUME ok PROVE EventsWhole(db') /\ \A s : Booked(db', s) = Booked(m, s)
  <2>1. EventsKept(m, db')  BY <1>5, <1>13, <1>14 DEF Ends
  <2>2. PICK e : e = db'  OBVIOUS
  <2>3. EventsWhole(e) /\ \A s : Booked(e, s) = Booked(m, s)
    BY <1>12, <2>1, <2>2, KeptBooked
  <2> QED BY <2>2, <2>3
<1>15. ~ok => db' = db  BY <1>5 DEF Ends
<1>16. EventsWhole(db')  BY <1>0, <1>14, <1>15
<1>17. ASSUME ~itself PROVE \A s : Booked(db', s) = Booked(db, s)
  <2>1. EventsKept(n, m)
    BY <1>2, <1>4, <1>9, <1>11, <1>17 DEF EventsKept, SameEvent, EventsWhole
  <2>2. \A s : Booked(m, s) = Booked(n, s)  BY <1>11, <2>1, KeptBooked
  <2>3. \A s : Booked(m, s) = Booked(db, s)  BY <1>11, <2>2
  <2>4. CASE ok  BY <1>14, <2>3, <2>4
  <2>5. CASE ~ok  BY <1>15, <2>5
  <2> QED BY <2>4, <2>5
<1>10. ASSUME NEW v \in Workers PROVE job'[v].op # "merge"
  <2>1. job' = [job EXCEPT ![w] = Idle]  BY <1>5 DEF Ends
  <2>2. CASE v = w  BY <1>0, <2>1, <2>2 DEF Idle
  <2>3. CASE v # w  BY <1>0, <1>6, <2>1, <2>3 DEF FunnelInv
  <2> QED BY <2>2, <2>3
<1> QED BY <1>7, <1>10, <1>16, <1>17 DEF FunnelInv

-----------------------------------------------------------------------------
(* What enters, corrects or deletes events. *)

LEMMA EnteredWhole ==
    ASSUME NEW d, EventsWhole(d), DOMAIN d = Fields, NEW c, NEW s,
           NEW gci \in Nat, NEW on \in Nat
    PROVE  LET e == Entered(d, c, s, gci, on)
           IN /\ EventsWhole(e)
              /\ \A q : ReadEvents(d, q) => ReadEvents(e, q)
<1> DEFINE e == Entered(d, c, s, gci, on)
           r == [live |-> TRUE, of |-> c, stage |-> s, gci |-> gci, on |-> on]
<1>1. PICK n \in Nat : n = d.booked  BY DEF EventsWhole
<1> HIDE DEF r
<1>2. e.event = [d.event EXCEPT ![n + 1] = r] /\ e.booked = n + 1
  BY <1>1 DEF Entered, Fields, r
<1>3. DOMAIN r = DOMAIN NoEvent /\ r.gci \in Nat /\ r.on \in Nat  BY DEF r, NoEvent
<1> HIDE DEF e
<1>4. ASSUME NEW x \in Events
      PROVE  x \in Nat /\ (x = n + 1 => ~d.event[x].live /\ e.event[x] = r)
             /\ (x # n + 1 => e.event[x] = d.event[x])
  <2>1. x \in Nat  BY DEF Events
  <2> QED BY <1>1, <1>2, <2>1 DEF EventsWhole
<1>5. EventsWhole(e)
  <2>1. ASSUME NEW x \in Events, x > e.booked PROVE ~e.event[x].live
    <3>1. x > n + 1 /\ x > n  BY <1>2, <1>4, <2>1
    <3> QED BY <1>1, <1>4, <3>1 DEF EventsWhole
  <2>2. DOMAIN e.event = Events  BY <1>2 DEF EventsWhole
  <2>3. \A x \in Events : /\ DOMAIN e.event[x] = DOMAIN NoEvent
                          /\ e.event[x].gci \in Nat /\ e.event[x].on \in Nat
    BY <1>3, <1>4 DEF EventsWhole
  <2> QED BY <1>2, <2>1, <2>2, <2>3 DEF EventsWhole
<1>6. ASSUME NEW q, ReadEvents(d, q) PROVE ReadEvents(e, q)
  <2>1. ASSUME NEW x \in Events, q.event[x].live PROVE SameEvent(e.event[x], q.event[x])
    <3>1. SameEvent(d.event[x], q.event[x])  BY <1>6, <2>1 DEF ReadEvents
    <3>2. x # n + 1  BY <1>4, <2>1, <3>1 DEF SameEvent
    <3> QED BY <1>4, <3>1, <3>2
  <2> QED BY <1>6, <2>1 DEF ReadEvents
<1> QED BY <1>5, <1>6 DEF e

LEMMA RecordsFunnel ==
    ASSUME ContactInv, FunnelInv, NEW w \in Workers, setContactDispositions(w)
    PROVE  FunnelInv'
<1>0. DOMAIN db = Fields /\ EventsWhole(db) /\ DOMAIN job = Workers
  BY DEF ContactInv, Whole, FunnelInv
<1>1. db' = db \/ \E c, s : \E on \in 0..MaxDay : db' = Entered(db, c, s, 0, on)
  BY Zenon DEF setContactDispositions, Commits, Ends
<1>2. EventsWhole(db') /\ \A q : ReadEvents(db, q) => ReadEvents(db', q)
  <2>1. CASE db' = db  BY <1>0, <2>1
  <2>2. CASE db' # db
    <3>1. PICK c, s : \E on \in 0..MaxDay : db' = Entered(db, c, s, 0, on)  BY <1>1, <2>2
    <3>2. PICK on \in 0..MaxDay : db' = Entered(db, c, s, 0, on)  BY <3>1
    <3>3. on \in Nat /\ 0 \in Nat  OBVIOUS
    <3> QED BY <1>0, <3>2, <3>3, EnteredWhole
  <2> QED BY <2>1, <2>2
<1>3. job' = [job EXCEPT ![w] = Idle]  BY DEF setContactDispositions, Commits, Ends
<1>4. \A v \in Workers : job'[v] = job[v] \/ job'[v].op # "merge"  BY <1>0, <1>3 DEF Idle
<1>5. ASSUME NEW v \in Workers, job'[v].op = "merge"
      PROVE  job[v].op = "merge" /\ ReadEvents(db, job'[v].seen)
  BY <1>4, <1>5 DEF FunnelInv
<1> QED BY <1>2, <1>5 DEF FunnelInv

LEMMA TracksFunnel == ASSUME ContactInv, FunnelInv, Tracks PROVE FunnelInv'
<1>0. DOMAIN db = Fields /\ EventsWhole(db)  BY DEF ContactInv, Whole, FunnelInv
<1>1. job' = job /\ \A v \in Workers : job[v].op # "merge"
  BY DEF Tracks, MergeAlone, Serves, createStageEvent, deleteStageEvent, Statement
<1>2. CASE createStageEvent
  <2> DEFINE at(c, s) == CHOOSE x \in HasEvent(db, c, s) : TRUE
             set(c, s, gci, on) == [db EXCEPT !.event[at(c, s)].gci = gci,
                                             !.event[at(c, s)].on = on]
             new(c, s, gci, on) == IF HasEvent(db, c, s) = {}
                                   THEN IF db.booked < MaxEvents
                                        THEN Entered(db, c, s, gci, on) ELSE db
                                   ELSE set(c, s, gci, on)
  <2>1. \E c, s : \E gci \in 0..MaxGci, on \in 0..MaxDay : db' = new(c, s, gci, on)
    <3>1. \E c \in Present(db), s \in Stages, gci \in 0..MaxGci, on \in 0..MaxDay :
             Statement(new(c, s, gci, on))
      BY <1>2, Zenon DEF createStageEvent
    <3> HIDE DEF new
    <3>2. \A e : Statement(e) => db' = e  BY DEF Statement
    <3> QED BY <3>1, <3>2, Zenon
  <2>2. PICK c, s : \E gci \in 0..MaxGci, on \in 0..MaxDay : db' = new(c, s, gci, on)
    BY <2>1
  <2>3. PICK gci \in 0..MaxGci, on \in 0..MaxDay : db' = new(c, s, gci, on)  BY <2>2
  <2>4. gci \in Nat /\ on \in Nat  OBVIOUS
  <2>5. PICK e : e = set(c, s, gci, on)  OBVIOUS
  <2>6. EventsWhole(e)  BY <1>0, <2>4, <2>5 DEF EventsWhole, Fields, NoEvent
  <2>7. EventsWhole(Entered(db, c, s, gci, on))  BY <1>0, <2>4, EnteredWhole
  <2>8. db' = Entered(db, c, s, gci, on) \/ db' = db \/ db' = e  BY <2>3, <2>5
  <2> HIDE DEF set, new
  <2> QED BY <1>0, <1>1, <2>6, <2>7, <2>8 DEF FunnelInv
<1>3. CASE deleteStageEvent
  <2>1. PICK e \in Events : db' = [db EXCEPT !.event[e] = NoEvent]
    BY <1>3 DEF deleteStageEvent, Statement
  <2>2. EventsWhole(db')  BY <1>0, <2>1 DEF EventsWhole, Fields, NoEvent
  <2> QED BY <1>1, <2>2 DEF FunnelInv
<1> QED BY <1>2, <1>3 DEF Tracks

-----------------------------------------------------------------------------
(* The funnel as a whole. *)

LEMMA FunnelInit == ContactInit => FunnelInv
<1> SUFFICES ASSUME ContactInit PROVE FunnelInv  OBVIOUS
<1>1. db \in Tables /\ \A x \in Events : x > db.booked => db.event[x] = NoEvent
  BY DEF ContactInit
<1>2. db.event \in [Events -> [live : BOOLEAN, of : Contacts \cup {None},
                               stage : Stages \cup {None}, gci : Nat, on : 0..MaxDay]]
      /\ db.booked \in 0..MaxEvents
  BY <1>1 DEF Tables
<1>3. EventsWhole(db)
  <2>1. ASSUME NEW x \in Events
        PROVE  /\ DOMAIN db.event[x] = DOMAIN NoEvent
               /\ db.event[x].gci \in Nat /\ db.event[x].on \in Nat
    BY <1>2 DEF NoEvent
  <2> QED BY <1>1, <1>2, <2>1 DEF EventsWhole, NoEvent
<1>4. \A w \in Workers : job[w].op # "merge"  BY DEF ContactInit, Idle
<1> QED BY <1>3, <1>4 DEF FunnelInv

\* A request, of a merge or something else.
LEMMA BeginsFunnel ==
    ASSUME ContactInv, FunnelInv, NEW w \in Workers, NEW r,
           r.op = "merge" => MergeAlone, Begins(w, r)
    PROVE  FunnelInv' /\ db' = db
<1>1. db' = db /\ EventsWhole(db)  BY DEF Begins, FunnelInv
<1>2. \A v \in Workers : v # w => job'[v] = job[v]  BY DEF Begins, ContactInv
<1>3. job'[w].op = r.op /\ job'[w].seen = db  BY DEF Begins, ContactInv
<1>4. ReadEvents(db, db)  BY <1>1 DEF ReadEvents, SameEvent
<1>5. CASE r.op = "merge"
  <2>1. \A v \in Workers : job[v].op # "merge"  BY <1>5 DEF MergeAlone, Serves
  <2> QED BY <1>1, <1>2, <1>3, <1>4, <2>1 DEF FunnelInv
<1>6. CASE r.op # "merge"
  <2>1. \A v \in Workers : job'[v].op = "merge" => v # w /\ job'[v] = job[v]
    BY <1>2, <1>3, <1>6
  <2> QED BY <1>1, <2>1 DEF FunnelInv
<1> QED BY <1>5, <1>6

LEMMA RequestOps ==
    ASSUME NEW r \in MoveRequests \cup RecordRequests \cup AskTag \cup AskRepair \cup AskPush
    PROVE  r.op # "merge"
<1> USE DEF Ask
<1>1. CASE r \in MoveRequests
  BY <1>1 DEF MoveRequests, AskAssignList, AskBulkList, AskBulkFolder, AskGroups, AskDelete,
     AskBulkDelete, AskBackup
<1>2. CASE r \in AskCreate \cup AskUpdate \cup AskDnc \cup AskBulkDnc
  BY <1>2 DEF AskCreate, AskUpdate, AskDnc, AskBulkDnc
<1>3. CASE r \in AskImport  BY <1>3 DEF AskImport
<1>4. CASE r \in AskSuppress \cup AskDisposition  BY <1>4 DEF AskSuppress, AskDisposition
<1>5. CASE r \in AskTag \cup AskRepair \cup AskPush  BY <1>5 DEF AskTag, AskRepair, AskPush
<1> QED BY <1>1, <1>2, <1>3, <1>4, <1>5 DEF RecordRequests

LEMMA FunnelNext ==
    ASSUME ContactInv, FunnelInv, [ContactNext]_contactVars
    PROVE  /\ FunnelInv'
           /\ \/ Tracks \/ Records \/ MergesItself
              \/ \A s \in Stages : Booked(db', s) = Booked(db, s)
<1>1. ASSUME NEW w \in Workers, Proceed(w)
      PROVE  /\ FunnelInv'
             /\ Records \/ MergesItself \/ \A s \in Stages : Booked(db', s) = Booked(db, s)
  <2>1. CASE mergeContacts(w)  BY <2>1, MergeBooks
  <2>2. CASE setContactDispositions(w)  BY <2>2, RecordsFunnel DEF Records
  <2>3. CASE ~mergeContacts(w) /\ ~setContactDispositions(w)
    <3>1. EventsKept(db, db')
      BY <1>1, <2>3, MovesUntracked, RecordsUntracked, LeadsUntracked, DeletesKept, UntrackedKept
         DEF Proceed
    <3>2. EventsRest  BY <1>1, <3>1, JobsRest DEF EventsRest
    <3> QED BY <3>2, RestingEvents
  <2> QED BY <2>1, <2>2, <2>3
<1>2. ASSUME NEW w \in Workers,
             \/ \E r \in MoveRequests \cup RecordRequests \cup AskTag \cup AskRepair : Begins(w, r)
             \/ MergeAlone /\ \E r \in AskMerge : Begins(w, r)
             \/ PushAlone /\ \E r \in AskPush : Begins(w, r)
      PROVE  FunnelInv' /\ db' = db
  BY <1>2, BeginsFunnel, RequestOps
<1>3. ASSUME NEW w \in Workers, RequestSync(w) PROVE EventsRest
  <2>1. EventsKept(db, db')  BY <1>3, LeadsUntracked, UntrackedKept
  <2>2. \A v \in Workers : job'[v] = job[v] \/ job'[v].op # "merge"
    BY <1>3 DEF RequestSync, ContactInv, ReadBefore, Idle
  <2> QED BY <2>1, <2>2 DEF EventsRest
<1>4. CASE Moves \/ Edits
  BY <1>4, StatementsUntracked, UntrackedKept, RestingEvents DEF EventsRest
<1>5. CASE Tracks  BY <1>5, TracksFunnel
<1>6. CASE UNCHANGED contactVars
  BY <1>6, UntrackedKept, RestingEvents DEF contactVars, Untracked, EventsRest
<1> QED BY <1>1, <1>2, <1>3, <1>4, <1>5, <1>6, RestingEvents DEF ContactNext

\* Whatever requests and syncs overlap, only entering, correcting or deleting a
\* stage event changes what a stage has brought and when it began: a merge adds
\* up the events of the duplicates and keeps the first day, unless it names its
\* own master as a duplicate, and a delete leaves
\* the events without a contact (mergeContactsInDb, deleteContactFromDb,
\* "must never rewrite last quarter's revenue", prisma/schema.prisma:2380).
THEOREM ContactsFunnelKept == ContactSpec => FunnelKept
<1>1. ContactInit => ContactInv /\ FunnelInv  BY ContactInvInit, FunnelInit
<1>2. ContactInv /\ FunnelInv /\ [ContactNext]_contactVars => ContactInv' /\ FunnelInv'
  BY ContactInvNext, FunnelNext
<1>3. ContactInv /\ FunnelInv /\ [ContactNext]_contactVars
      => [\/ Tracks \/ Records \/ MergesItself
          \/ \A s \in Stages : Booked(db', s) = Booked(db, s)]_contactVars
  BY FunnelNext
<1> QED BY <1>1, <1>2, <1>3, PTL DEF ContactSpec, FunnelKept

-----------------------------------------------------------------------------
(* Imports.  Syncs stand in line, the first of it alone has started; a push   *)
(* comes alone.                                                             *)

Syncing == {"syncQueued", "sync", "syncCreate", "syncPush", "syncPhones", "syncEnds"}
Started == Syncing \ {"syncQueued"}
Pushing == {"push", "pushCreate", "pushFolder"}
Creating == {"syncCreate", "pushCreate"}
Entering == {"create", "update", "import"}

Queued(w) == \E i \in 1..Len(queue) : queue[i] = w
InLine ==
    /\ queue \in Seq(Workers)
    /\ \A i, j \in 1..Len(queue) : queue[i] = queue[j] => i = j
    /\ \A w \in Workers : job[w].op \in Syncing <=> Queued(w)
    /\ \A w \in Workers : job[w].op \in Started => queue[1] = w
    /\ \A v, w \in Workers : job[v].op \in Pushing /\ job[w].op \in Leading => v = w

\* A contact that is there has the listing it came from as its source, no
\* other has, and who creates one has found none.
Holds(c) == db.contact[c].present /\ origin[c] # None
Sources ==
    /\ DOMAIN origin = Contacts
    /\ \A c \in Contacts : fate[c] = "unborn" => origin[c] = None
    /\ \A c \in Contacts : Holds(c) => db.contact[c].source = origin[c]
    /\ \A c, d \in Contacts : Holds(c) /\ Holds(d) /\ origin[c] = origin[d] => c = d
    /\ \A w \in Workers : job[w].op \in Creating =>
         \A c \in Contacts : Holds(c) => origin[c] # job[w].to
    /\ \A w \in Workers : job[w].op \in Entering => job[w].ids # {}

\* What a step does that imports no listing and edits no source of one.
Sourced ==
    /\ origin' = origin
    /\ \A c \in Contacts : fate'[c] = "unborn" => fate[c] = "unborn"
    /\ \A c \in Contacts : db'.contact[c].present /\ origin[c] # None =>
         db.contact[c].present /\ db'.contact[c].source = db.contact[c].source
Unleading(v) ==
    /\ job[v].op \notin Leading /\ job'[v].op \notin Leading
    /\ job'[v].op \in Entering => job'[v].ids # {}
LeadsRest ==
    /\ Sourced /\ queue' = queue
    /\ \A v \in Workers : job'[v] = job[v] \/ Unleading(v)

LEMMA SourcedSources ==
    ASSUME Sources, Sourced,
           \A v \in Workers :
              \/ job'[v] = job[v]
              \/ /\ job'[v].op \in Creating =>
                      \A c \in Contacts : db.contact[c].present => db.contact[c].source # job'[v].to
                 /\ job'[v].op \in Entering => job'[v].ids # {}
    PROVE  Sources'
<1>1. \A c \in Contacts : Holds(c)' => Holds(c) /\ db'.contact[c].source = origin[c]
  BY DEF Sources, Sourced, Holds
<1>2. \A w \in Workers : job'[w].op \in Creating =>
         \A c \in Contacts : Holds(c)' => origin'[c] # job'[w].to
  <2>1. \A c \in Contacts : Holds(c) => db.contact[c].source = origin[c]  BY DEF Sources
  <2> QED BY <1>1, <2>1 DEF Sources, Sourced, Holds
<1>3. \A w \in Workers : job'[w].op \in Entering => job'[w].ids # {}  BY DEF Sources
<1> QED BY <1>1, <1>2, <1>3 DEF Sources, Sourced, Holds

LEMMA RestingLeads ==
    ASSUME InLine, Sources, LeadsRest PROVE InLine' /\ Sources'
<1>1. \A v \in Workers : /\ job'[v].op \in Leading => job'[v] = job[v]
                         /\ job[v].op \in Leading => job'[v] = job[v]
  BY DEF LeadsRest, Unleading
<1>2. Syncing \subseteq Leading /\ Started \subseteq Leading /\ Pushing \subseteq Leading
      /\ Creating \subseteq Leading
  BY DEF Syncing, Started, Pushing, Creating, Leading
<1>3. InLine'
  <2>1. \A v \in Workers : /\ job'[v].op \in Syncing <=> job[v].op \in Syncing
                           /\ job'[v].op \in Started => job[v].op \in Started
                           /\ job'[v].op \in Pushing => job[v].op \in Pushing
                           /\ job'[v].op \in Leading => job[v].op \in Leading
    BY <1>1, <1>2
  <2> QED BY <2>1 DEF InLine, LeadsRest, Queued
<1>4. Sources'
  <2>1. \A v \in Workers : job'[v] # job[v] => job'[v].op \notin Creating
                                               /\ (job'[v].op \in Entering => job'[v].ids # {})
    BY <1>1, <1>2 DEF LeadsRest, Unleading
  <2> QED BY <2>1, SourcedSources DEF LeadsRest
<1> QED BY <1>3, <1>4

\* Worker w, first in line, stays; or pushes, or is done with that.
LEMMA LinePasses ==
    ASSUME ContactInv, InLine, NEW w \in Workers, NEW new, job' = [job EXCEPT ![w] = new],
           queue' = queue,
           \/ job[w].op \in Started /\ new.op \in Started
           \/ job[w].op = "syncQueued" /\ Turn(w) /\ new.op \in Started
           \/ job[w].op \in Pushing /\ new.op \in Pushing \cup {"idle"}
    PROVE  InLine'
<1>0. /\ DOMAIN job = Workers /\ job'[w] = new
      /\ \A v \in Workers : v # w => job'[v] = job[v]
  BY DEF ContactInv
<1>1. CASE job[w].op \in Pushing /\ new.op \in Pushing \cup {"idle"}
  <2>1. \A v \in Workers : /\ job'[v].op \in Syncing <=> job[v].op \in Syncing
                           /\ job'[v].op \in Started => job[v].op \in Started
                           /\ job'[v].op \in Pushing => job[v].op \in Pushing
                           /\ job'[v].op \in Leading => job[v].op \in Leading
    BY <1>0, <1>1 DEF Syncing, Started, Pushing, Leading
  <2> QED BY <2>1 DEF InLine, Queued
<1>2. CASE job[w].op \in Syncing /\ new.op \in Started /\ queue[1] = w
  <2>1. \A v \in Workers : /\ job'[v].op \in Syncing <=> job[v].op \in Syncing
                           /\ job'[v].op \in Started => v = w \/ job[v].op \in Started
                           /\ job'[v].op \in Pushing => job[v].op \in Pushing
                           /\ job'[v].op \in Leading => job[v].op \in Leading
    BY <1>0, <1>2 DEF Syncing, Started, Pushing, Leading
  <2> QED BY <1>2, <2>1 DEF InLine, Queued
<1>3. job[w].op = "syncQueued" /\ Turn(w) => queue[1] = w  BY DEF Turn, InLine
<1>4. job[w].op \in Started => job[w].op \in Syncing /\ queue[1] = w  BY DEF Started, InLine
<1>5. job[w].op = "syncQueued" => job[w].op \in Syncing  BY DEF Syncing
<1> QED BY <1>1, <1>2, <1>3, <1>4, <1>5

LEMMA LineJoined ==
    ASSUME ContactInv, InLine, NEW w \in Workers, NoPush, RequestSync(w) PROVE InLine'
<1>0. /\ DOMAIN job = Workers /\ queue \in Seq(Workers) /\ DOMAIN job[w] = DOMAIN Idle
      /\ queue' = Append(queue, w)
  BY DEF ContactInv, ReadBefore, InLine, RequestSync
<1>1. /\ job'[w].op = "syncQueued" /\ job[w].op = "idle"
      /\ \A v \in Workers : v # w => job'[v] = job[v]
  BY <1>0 DEF RequestSync, Serves, Idle
<1>2. PICK n \in Nat : n = Len(queue)  BY <1>0
<1>3. /\ queue' \in Seq(Workers) /\ Len(queue') = n + 1 /\ queue'[n + 1] = w
      /\ \A i \in 1..n : queue'[i] = queue[i]
  BY <1>0, <1>2
<1>4. \A i \in 1..n : queue[i] # w  BY <1>1, <1>2 DEF InLine, Queued, Syncing
<1>5. \A i, j \in 1..Len(queue') : queue'[i] = queue'[j] => i = j
  <2>1. \A i \in 1..Len(queue') : i \in 1..n \/ i = n + 1  BY <1>3
  <2> QED BY <1>2, <1>3, <1>4, <2>1 DEF InLine
<1>6. ASSUME NEW v \in Workers PROVE job'[v].op \in Syncing <=> Queued(v)'
  <2>1. CASE v = w
    <3>1. n + 1 \in 1..Len(queue')  BY <1>3
    <3> QED BY <1>1, <1>3, <2>1, <3>1 DEF Queued, Syncing
  <2>2. CASE v # w
    <3>1. job'[v].op \in Syncing <=> Queued(v)  BY <1>1, <2>2 DEF InLine
    <3>2. Queued(v) => Queued(v)'  BY <1>2, <1>3 DEF Queued
    <3>3. Queued(v)' => Queued(v)
      <4>1. \A i \in 1..Len(queue') : i \in 1..n \/ i = n + 1  BY <1>3
      <4> QED BY <1>2, <1>3, <2>2, <4>1 DEF Queued
    <3> QED BY <3>1, <3>2, <3>3
  <2> QED BY <2>1, <2>2
<1>7. ASSUME NEW v \in Workers, job'[v].op \in Started PROVE queue'[1] = v
  <2>1. v # w /\ job[v].op \in Started  BY <1>1, <1>7 DEF Started
  <2>2. queue[1] = v /\ Queued(v)  BY <2>1 DEF InLine, Started
  <2>3. 1 \in 1..n  BY <1>2, <2>2 DEF Queued
  <2> QED BY <1>3, <2>2, <2>3
<1>8. \A v \in Workers : job'[v].op \notin Pushing
  BY <1>1 DEF NoPush, Serves, Pushing
<1> QED BY <1>3, <1>5, <1>6, <1>7, <1>8 DEF InLine

LEMMA LineLeft ==
    ASSUME ContactInv, InLine, NEW w \in Workers, SyncEnds(w) PROVE InLine'
<1>0. DOMAIN job = Workers /\ queue \in Seq(Workers) /\ queue' = Tail(queue)
  BY DEF ContactInv, InLine, SyncEnds
<1>1. /\ job'[w].op = "idle" /\ job[w].op \in Started
      /\ \A v \in Workers : v # w => job'[v] = job[v]
  BY <1>0 DEF SyncEnds, Serves, Idle, Started, Syncing
<1>2. queue[1] = w /\ Queued(w)  BY <1>1 DEF InLine, Started
<1>3. PICK n \in Nat : Len(queue) = n + 1
  <2>1. Len(queue) \in Nat /\ Len(queue) # 0  BY <1>0, <1>2 DEF Queued
  <2> QED BY <2>1
<1>4. /\ queue' \in Seq(Workers) /\ Len(queue') = n
      /\ \A i \in 1..n : queue'[i] = queue[i + 1]
  <2>1. queue # << >>  BY <1>0, <1>3
  <2> QED BY <1>0, <1>3, <2>1
<1>5. \A i \in 1..n : i + 1 \in 1..Len(queue) /\ i + 1 # 1  BY <1>3
<1>6. ASSUME NEW i \in 1..n, queue'[i] = w PROVE FALSE
  <2>1. queue[i + 1] = queue[1]  BY <1>2, <1>4, <1>6
  <2>2. i + 1 \in 1..Len(queue) /\ 1 \in 1..Len(queue)  BY <1>3
  <2>3. i + 1 = 1  BY <2>1, <2>2 DEF InLine
  <2> QED BY <1>5, <2>3
<1>7. \A i, j \in 1..Len(queue') : queue'[i] = queue'[j] => i = j
  <2>1. ASSUME NEW i \in 1..n, NEW j \in 1..n, queue'[i] = queue'[j] PROVE i = j
    <3>1. i + 1 = j + 1  BY <1>4, <1>5, <2>1 DEF InLine
    <3> QED BY <3>1
  <2> QED BY <1>4, <2>1
<1>8. ASSUME NEW v \in Workers PROVE job'[v].op \in Syncing <=> Queued(v)'
  <2>1. CASE v = w  BY <1>1, <1>4, <1>6, <2>1 DEF Queued, Syncing
  <2>2. CASE v # w
    <3>1. job'[v].op \in Syncing <=> Queued(v)  BY <1>1, <2>2 DEF InLine
    <3>2. Queued(v)' => Queued(v)  BY <1>4, <1>5 DEF Queued
    <3>3. ASSUME Queued(v) PROVE Queued(v)'
      <4>1. PICK i \in 1..Len(queue) : queue[i] = v  BY <3>3 DEF Queued
      <4>2. i # 1  BY <1>2, <2>2, <4>1
      <4>3. PICK j \in 1..n : i = j + 1
        <5>1. i - 1 \in 1..n /\ i = (i - 1) + 1  BY <1>3, <4>2
        <5> QED BY <5>1
      <4> QED BY <1>4, <4>1, <4>3 DEF Queued
    <3> QED BY <3>1, <3>2, <3>3
  <2> QED BY <2>1, <2>2
<1>9. \A v \in Workers : job'[v].op \notin Started /\ job'[v].op \notin Pushing
  <2>1. ASSUME NEW v \in Workers, v # w PROVE job[v].op \notin Started /\ job[v].op \notin Pushing
    <3>1. job[w].op \in Leading  BY <1>1 DEF Started, Syncing, Leading
    <3> QED BY <1>2, <2>1, <3>1 DEF InLine
  <2> QED BY <1>1, <2>1 DEF Started, Syncing, Pushing
<1> QED BY <1>4, <1>7, <1>8, <1>9 DEF InLine

\* The steps of syncs and pushes.
LEMMA LeadCreated ==
    ASSUME ContactInv, InLine, Sources, NEW w \in Workers, job[w].op \in Creating,
           NEW c \in Unborn, NEW new, new.op \notin Creating \cup Entering,
           job' = [job EXCEPT ![w] = new], ImportsLead(c, job[w].to),
           db'.contact = [db.contact EXCEPT ![c] = Lead(job[w].to)]
    PROVE  Sources'
<1> DEFINE n == job[w].to
<1>0. /\ DOMAIN job = Workers /\ DOMAIN db.contact = Contacts /\ DOMAIN fate = Contacts
      /\ DOMAIN origin = Contacts /\ c \in Contacts /\ fate[c] = "unborn"
      /\ job'[w] = new /\ \A v \in Workers : v # w => job'[v] = job[v]
  BY DEF ContactInv, Whole, Sources, Unborn
<1>1. Lead(n).source = n  BY DEF Lead, Newborn, Absent
<1> HIDE DEF n
<1>2. /\ origin'[c] = n /\ db'.contact[c].source = n /\ fate'[c] # "unborn"
      /\ \A d \in Contacts : d # c => /\ origin'[d] = origin[d] /\ fate'[d] = fate[d]
                                      /\ db'.contact[d] = db.contact[d]
      /\ DOMAIN origin' = Contacts
  BY <1>0, <1>1 DEF ImportsLead, n
<1>3. \A d \in Contacts : d # c => (Holds(d)' <=> Holds(d))  BY <1>2 DEF Holds
<1>4. \A d \in Contacts : Holds(d) => origin[d] # n  BY DEF Sources, n
<1>5. ASSUME NEW v \in Workers, job'[v].op \in Creating PROVE FALSE
  <2>1. v # w /\ job[v].op \in Creating  BY <1>0, <1>5
  <2>2. /\ job[v].op \in Started \/ job[v].op \in Pushing
        /\ job[w].op \in Started \/ job[w].op \in Pushing
        /\ job[v].op \in Leading /\ job[w].op \in Leading
    BY <2>1 DEF Creating, Started, Syncing, Pushing, Leading
  <2> QED BY <2>1, <2>2 DEF InLine
<1>6. \A v \in Workers : job'[v].op \in Entering => job'[v].ids # {}
  BY <1>0 DEF Sources
<1>7. \A d \in Contacts : fate'[d] = "unborn" => origin'[d] = None  BY <1>2 DEF Sources
<1>8. \A d \in Contacts : Holds(d)' => db'.contact[d].source = origin'[d]
  BY <1>2, <1>3 DEF Sources
<1>9. \A d, e \in Contacts : Holds(d)' /\ Holds(e)' /\ origin'[d] = origin'[e] => d = e
  BY <1>2, <1>3, <1>4 DEF Sources
<1> QED BY <1>2, <1>5, <1>6, <1>7, <1>8, <1>9 DEF Sources

LEMMA ImportLeads ==
    ASSUME ContactInv, InLine, Sources, NEW w \in Workers, SyncCreates(w) \/ PushCreates(w)
    PROVE  InLine' /\ Sources'
<1>0. DOMAIN db = Fields /\ DOMAIN job[w] = DOMAIN Idle
  BY DEF ContactInv, Whole, ReadBefore
<1>1. CASE SyncCreates(w)
  <2>1. PICK c \in Unborn, l \in Lists :
          /\ db' = [db EXCEPT !.contact[c] = Lead(job[w].to), !.list[l].life = "open"]
          /\ ImportsLead(c, job[w].to)
          /\ Steps(w, [job[w] EXCEPT !.op = "syncPush", !.ids = {c}, !.how = l])
    BY <1>1 DEF SyncCreates
  <2>2. PICK new : new = [job[w] EXCEPT !.op = "syncPush", !.ids = {c}, !.how = l]  OBVIOUS
  <2>3. /\ job[w].op = "syncCreate" /\ new.op = "syncPush"
        /\ job' = [job EXCEPT ![w] = new] /\ queue' = queue
        /\ db'.contact = [db.contact EXCEPT ![c] = Lead(job[w].to)]
    BY <1>0, <1>1, <2>1, <2>2 DEF SyncCreates, Serves, Steps, Idle, Fields
  <2>4. /\ job[w].op \in Started /\ new.op \in Started
        /\ job[w].op \in Creating /\ new.op \notin Creating \cup Entering
    BY <2>3 DEF Started, Syncing, Creating, Entering
  <2> QED BY <2>1, <2>3, <2>4, LinePasses, LeadCreated
<1>2. CASE PushCreates(w)
  <2>1. PICK c \in Unborn, f \in Folders :
          /\ db' = [db EXCEPT !.contact[c] = Lead(job[w].to), !.folder[f].life = "open"]
          /\ ImportsLead(c, job[w].to)
          /\ Steps(w, [job[w] EXCEPT !.op = "pushFolder", !.ids = {c}, !.how = f])
    BY <1>2 DEF PushCreates
  <2>2. PICK new : new = [job[w] EXCEPT !.op = "pushFolder", !.ids = {c}, !.how = f]  OBVIOUS
  <2>3. /\ job[w].op = "pushCreate" /\ new.op = "pushFolder"
        /\ job' = [job EXCEPT ![w] = new] /\ queue' = queue
        /\ db'.contact = [db.contact EXCEPT ![c] = Lead(job[w].to)]
    BY <1>0, <1>2, <2>1, <2>2 DEF PushCreates, Serves, Steps, Idle, Fields
  <2>4. /\ job[w].op \in Pushing /\ new.op \in Pushing
        /\ job[w].op \in Creating /\ new.op \notin Creating \cup Entering
    BY <2>3 DEF Pushing, Creating, Entering
  <2> QED BY <2>1, <2>3, <2>4, LinePasses, LeadCreated
<1> QED BY <1>1, <1>2

LEMMA LeadPasses ==
    ASSUME ContactInv, Sources, NEW w \in Workers, NEW new, job' = [job EXCEPT ![w] = new],
           Sourced,
           \/ new.op \notin Creating \cup Entering
           \/ /\ new.op \in Creating
              /\ \A c \in Contacts : db.contact[c].present => db.contact[c].source # new.to
    PROVE  Sources'
<1>1. new.op \in Creating => new.op \notin Entering  BY DEF Creating, Entering
<1>2. \A v \in Workers : job'[v] = job[v] \/ job'[v] = new  BY DEF ContactInv
<1> QED BY <1>1, <1>2, SourcedSources

\* Only phones, folders, lists are written.
LEMMA SameSourced ==
    ASSUME ContactInv, fate' = fate, origin' = origin,
           \A c \in Contacts : /\ db'.contact[c].present => db.contact[c].present
                               /\ db'.contact[c].source = db.contact[c].source
    PROVE  Sourced
BY DEF Sourced

LEMMA SyncLeads ==
    ASSUME ContactInv, InLine, Sources, NEW w \in Workers,
           SyncStarts(w) \/ SyncFinds(w) \/ SyncPushes(w) \/ SyncPhones(w) \/ SyncEnds(w)
    PROVE  InLine' /\ Sources'
<1>0. /\ DOMAIN db = Fields /\ DOMAIN db.contact = Contacts /\ DOMAIN job[w] = DOMAIN Idle
      /\ \A c \in Contacts : DOMAIN db.contact[c] = DOMAIN Absent
  BY DEF ContactInv, Whole, ReadBefore, IsContact
<1>1. CASE SyncStarts(w)
  <2>1. PICK x : job' = [job EXCEPT ![w] = [Idle EXCEPT !.op = "sync", !.seen = x]]
    BY <1>1 DEF SyncStarts
  <2>2. PICK new : new = [Idle EXCEPT !.op = "sync", !.seen = x]  OBVIOUS
  <2>3. /\ new.op = "sync" /\ job[w].op = "syncQueued" /\ Turn(w) /\ queue' = queue
        /\ db' = db /\ fate' = fate /\ origin' = origin /\ job' = [job EXCEPT ![w] = new]
    BY <1>1, <2>1, <2>2 DEF SyncStarts, Serves, Idle
  <2>4. new.op \in Started /\ new.op \notin Creating \cup Entering
    BY <2>3 DEF Started, Syncing, Creating, Entering
  <2>5. Sourced  BY <2>3, SameSourced
  <2> QED BY <2>3, <2>4, <2>5, LinePasses, LeadPasses
<1>2. CASE SyncFinds(w)
  <2>1. PICK n, new :
          /\ job' = [job EXCEPT ![w] = new]
          /\ LET rest == [job[w] EXCEPT !.seen.todo = @ \ {n}]
             IN \/ new = rest
                \/ ~Imported(n) /\ new = [rest EXCEPT !.op = "syncCreate", !.to = n]
    BY <1>2 DEF SyncFinds, Steps
  <2>2. /\ job[w].op = "sync"
        /\ \/ new.op = "sync"
           \/ new.op = "syncCreate" /\ new.to = n /\ ~Imported(n)
        /\ queue' = queue /\ db' = db /\ fate' = fate /\ origin' = origin
    BY <1>0, <1>2, <2>1 DEF SyncFinds, Serves, Steps, Idle
  <2>3. /\ job[w].op \in Started /\ new.op \in Started
        /\ new.op = "sync" => new.op \notin Creating \cup Entering
        /\ new.op = "syncCreate" => new.op \in Creating
    BY <2>2 DEF Started, Syncing, Creating, Entering
  <2>4. ~Imported(n) => \A c \in Contacts : db.contact[c].present => db.contact[c].source # n
    BY DEF Imported, Present
  <2>5. Sourced  BY <2>2, SameSourced
  <2> QED BY <2>1, <2>2, <2>3, <2>4, <2>5, LinePasses, LeadPasses
<1>3. CASE SyncPushes(w)
  <2>1. PICK new : /\ job' = [job EXCEPT ![w] = new] /\ queue' = queue
                   /\ \/ new = [job[w] EXCEPT !.op = "syncPhones"]
                      \/ new = [job[w] EXCEPT !.op = "syncEnds"]
    BY <1>3 DEF SyncPushes, Steps
  <2>2. /\ job[w].op = "syncPush" /\ new.op \in {"syncPhones", "syncEnds"}
        /\ db'.contact = db.contact /\ fate' = fate /\ origin' = origin
    BY <1>0, <1>3, <2>1 DEF SyncPushes, Serves, Idle, Fields
  <2>3. /\ job[w].op \in Started /\ new.op \in Started /\ new.op \notin Creating \cup Entering
    BY <2>2 DEF Started, Syncing, Creating, Entering
  <2>4. Sourced  BY <2>2, SameSourced
  <2> QED BY <2>1, <2>3, <2>4, LinePasses, LeadPasses
<1>4. CASE SyncPhones(w)
  <2>1. PICK new : /\ job' = [job EXCEPT ![w] = new] /\ queue' = queue
                   /\ \/ new = [job[w] EXCEPT !.op = "sync", !.ids = {}, !.to = None, !.how = None]
                      \/ new = [job[w] EXCEPT !.op = "syncEnds"]
    BY <1>4 DEF SyncPhones, Steps
  <2>2. /\ job[w].op = "syncPhones" /\ new.op \in {"sync", "syncEnds"}
        /\ fate' = fate /\ origin' = origin
    BY <1>0, <1>4, <2>1 DEF SyncPhones, Serves, Idle
  <2>3. /\ job[w].op \in Started /\ new.op \in Started /\ new.op \notin Creating \cup Entering
    BY <2>2 DEF Started, Syncing, Creating, Entering
  <2>4. db' = db \/ \E c, n : db' = [db EXCEPT !.contact[c].phones = {n}]
    BY <1>4, Zenon DEF SyncPhones
  <2>5. \A c \in Contacts : /\ db'.contact[c].present = db.contact[c].present
                            /\ db'.contact[c].source = db.contact[c].source
    BY <1>0, <2>4 DEF Fields, Absent
  <2>6. Sourced  BY <2>2, <2>5, SameSourced
  <2> QED BY <2>1, <2>3, <2>6, LinePasses, LeadPasses
<1>5. CASE SyncEnds(w)
  <2>1. job' = [job EXCEPT ![w] = Idle] /\ db' = db /\ fate' = fate /\ origin' = origin
    BY <1>5 DEF SyncEnds
  <2>2. Idle.op \notin Creating \cup Entering  BY DEF Idle, Creating, Entering
  <2>3. Sourced  BY <2>1, SameSourced
  <2> QED BY <1>5, <2>1, <2>2, <2>3, LineLeft, LeadPasses
<1> QED BY <1>1, <1>2, <1>3, <1>4, <1>5

LEMMA PushLeads ==
    ASSUME ContactInv, InLine, Sources, NEW w \in Workers, PushFinds(w) \/ PushFolder(w)
    PROVE  InLine' /\ Sources'
<1>0. /\ DOMAIN db = Fields /\ DOMAIN db.contact = Contacts /\ DOMAIN job[w] = DOMAIN Idle
      /\ \A c \in Contacts : DOMAIN db.contact[c] = DOMAIN Absent
  BY DEF ContactInv, Whole, ReadBefore, IsContact
<1>1. CASE PushFinds(w)
  <2>1. PICK new : /\ job' = [job EXCEPT ![w] = new] /\ queue' = queue
                   /\ \/ new = Idle
                      \/ ~Imported(job[w].to) /\ new = [job[w] EXCEPT !.op = "pushCreate"]
    BY <1>1 DEF PushFinds, Steps
  <2>2. /\ job[w].op = "push"
        /\ \/ new.op = "idle"
           \/ new.op = "pushCreate" /\ new.to = job[w].to /\ ~Imported(job[w].to)
        /\ db' = db /\ fate' = fate /\ origin' = origin
    BY <1>0, <1>1, <2>1 DEF PushFinds, Serves, Idle
  <2>3. /\ job[w].op \in Pushing /\ new.op \in Pushing \cup {"idle"}
        /\ new.op = "idle" => new.op \notin Creating \cup Entering
        /\ new.op = "pushCreate" => new.op \in Creating
    BY <2>2 DEF Pushing, Creating, Entering
  <2>4. ~Imported(job[w].to) =>
           \A c \in Contacts : db.contact[c].present => db.contact[c].source # job[w].to
    BY DEF Imported, Present
  <2>5. Sourced  BY <2>2, SameSourced
  <2> QED BY <2>1, <2>2, <2>3, <2>4, <2>5, LinePasses, LeadPasses
<1>2. CASE PushFolder(w)
  <2>1. /\ job' = [job EXCEPT ![w] = Idle] /\ queue' = queue /\ job[w].op = "pushFolder"
        /\ fate' = fate /\ origin' = origin
    BY <1>2 DEF PushFolder, Steps, Serves
  <2>2. /\ job[w].op \in Pushing /\ Idle.op \in Pushing \cup {"idle"}
        /\ Idle.op \notin Creating \cup Entering
    BY <2>1 DEF Idle, Pushing, Creating, Entering
  <2>3. \A c \in Contacts : /\ db'.contact[c].present = db.contact[c].present
                            /\ db'.contact[c].source = db.contact[c].source
    BY <1>0, <1>2 DEF PushFolder, Fields, Absent
  <2>4. Sourced  BY <2>1, <2>3, SameSourced
  <2> QED BY <2>1, <2>2, <2>4, LinePasses, LeadPasses
<1> QED BY <1>1, <1>2

-----------------------------------------------------------------------------
(* Everything else leaves the sources of listings alone, as long as nobody    *)
(* does what SourcesStay excludes.                                          *)

\* Of an imported contact, nobody says where it comes from (a move to a list is
\* an answer, and so is an import that overwrites) or brings it back.
SourcesStay ==
    \A w \in Workers :
        /\ job[w].op \in {"assignList", "restore"} \/ (job[w].op = "update" /\ job[w].how = "source")
           => \A c \in job[w].ids : origin[c] = None
        /\ job[w].op = "import" /\ job[w].how = "Overwrite"
           => \A c \in Owners(job[w].seen, job[w].nums) : origin[c] = None

Transacts(w) ==
    \/ assignContactsToList(w) \/ bulkAssignContactsToFolder(w)
    \/ assignContactToGroups(w) \/ moveContactsToTrash(w) \/ deleteContact(w)
    \/ purgeContacts(w) \/ removeFromFolder(w) \/ removeFromList(w)
    \/ restoreContact(w) \/ permanentlyDeleteContact(w)
    \/ createContact(w) \/ updateContact(w) \/ importContacts(w) \/ mergeContacts(w)
    \/ moveToDnc(w) \/ bulkMoveToDnc(w) \/ applyDisposition(w)
    \/ setContactDispositions(w) \/ repairListMembership(w)

LEMMA TransactsUnleading ==
    ASSUME ContactInv, NEW w \in Workers, Transacts(w)
    PROVE  /\ queue' = queue /\ origin' = origin
           /\ \A c \in Contacts : fate'[c] = "unborn" => fate[c] = "unborn"
           /\ \A v \in Workers : job'[v] = job[v] \/ Unleading(v)
<1>1. \E ok, new, ends, as : /\ Ends(w, ok, new, ends, as)
                            /\ \/ as = "known" \/ as = "merged"
                               \/ as = "dissolved" \/ as = "erased"
  <2>1. CASE mergeContacts(w)  BY <2>1, MergeEnds
  <2>2. CASE ~mergeContacts(w)
    BY <2>2, Zenon DEF Transacts, Commits, assignContactsToList, bulkAssignContactsToFolder,
       assignContactToGroups, moveContactsToTrash, deleteContact, purgeContacts,
       removeFromFolder, removeFromList, restoreContact, permanentlyDeleteContact,
       createContact, updateContact, importContacts, moveToDnc,
       bulkMoveToDnc, applyDisposition, setContactDispositions, repairListMembership
  <2> QED BY <2>1, <2>2
<1>2. PICK ok, new, ends, as : Ends(w, ok, new, ends, as) /\ as # "unborn"
  <2>1. PICK ok, new, ends, as : /\ Ends(w, ok, new, ends, as)
                                 /\ \/ as = "known" \/ as = "merged"
                                    \/ as = "dissolved" \/ as = "erased"
    BY <1>1
  <2>2. as # "unborn"  BY <2>1
  <2> QED BY <2>1, <2>2
<1>3. \A c \in Contacts : fate'[c] = "unborn" => fate[c] = "unborn"  BY <1>2 DEF Ends
<1>4. job[w].op \notin Leading
  <2>1. job[w].op \in {"assignList", "assignFolder", "assignGroups", "trash", "deleteContact",
                       "purge", "outOfFolder", "outOfList", "restore", "erase", "create",
                       "update", "import", "merge", "dnc", "bulkDnc", "dispose", "tag", "repair"}
    BY Zenon DEF Transacts, Serves, assignContactsToList, bulkAssignContactsToFolder,
       assignContactToGroups, moveContactsToTrash, deleteContact, purgeContacts,
       removeFromFolder, removeFromList, restoreContact, permanentlyDeleteContact,
       createContact, updateContact, importContacts, mergeContacts, moveToDnc,
       bulkMoveToDnc, applyDisposition, setContactDispositions, repairListMembership
  <2> QED BY <2>1 DEF Leading
<1>5. job' = [job EXCEPT ![w] = Idle] /\ queue' = queue /\ origin' = origin
  BY <1>2 DEF Ends
<1>6. Idle.op \notin Leading /\ Idle.op \notin Entering  BY DEF Idle, Leading, Entering
<1> QED BY <1>3, <1>4, <1>5, <1>6 DEF ContactInv, Unleading

\* What Sourced says of the contacts.
SourcedRows ==
    \A c \in Contacts : db'.contact[c].present /\ origin[c] # None =>
        db.contact[c].present /\ db'.contact[c].source = db.contact[c].source

LEMMA FilingSourced ==
    ASSUME ContactInv, SourcesStay, NEW w \in Workers,
           \/ assignContactsToList(w) \/ bulkAssignContactsToFolder(w)
           \/ assignContactToGroups(w) \/ moveContactsToTrash(w)
    PROVE  SourcedRows
<1>0. /\ DOMAIN db = Fields /\ DOMAIN db.contact = Contacts
      /\ \A c \in Contacts : DOMAIN db.contact[c] = DOMAIN Absent
  BY DEF ContactInv, Whole, IsContact
<1> USE DEF Commits, Ends, SourcedRows, Fields, Absent
<1>1. CASE assignContactsToList(w)
  <2> DEFINE W == job[w] e == AssignedToList(db, W.seen, W.ids, W.to, W.how = "bulk")
  <2>1. \A c \in W.ids : origin[c] = None  BY <1>1 DEF assignContactsToList, Serves, SourcesStay
  <2>2. \A c \in Contacts : e.contact[c] = db.contact[c] \/ (c \in W.ids /\ db.contact[c].present)
    BY <1>0 DEF AssignedToList
  <2> HIDE DEF e
  <2>3. PICK ok : Commits(w, ok, e)  BY <1>1 DEF assignContactsToList, e
  <2> QED BY <2>1, <2>2, <2>3
<1>2. CASE bulkAssignContactsToFolder(w)
  BY <1>0, <1>2 DEF bulkAssignContactsToFolder, AssignedToFolder
<1>3. CASE assignContactToGroups(w)  BY <1>0, <1>3 DEF assignContactToGroups
<1>4. CASE moveContactsToTrash(w)  BY <1>0, <1>4 DEF moveContactsToTrash, Ensured
<1> QED BY <1>1, <1>2, <1>3, <1>4

LEMMA RecordsSourced ==
    ASSUME ContactInv, Sources, SourcesStay, NEW w \in Workers,
           \/ createContact(w) \/ updateContact(w) \/ importContacts(w)
           \/ moveToDnc(w) \/ bulkMoveToDnc(w) \/ suppressNumber(w) \/ suppressedLast(w)
           \/ applyDisposition(w) \/ setContactDispositions(w) \/ repairListMembership(w)
    PROVE  SourcedRows
<1>0. /\ DOMAIN db = Fields /\ DOMAIN db.contact = Contacts
      /\ \A c \in Contacts : DOMAIN db.contact[c] = DOMAIN Absent
      /\ \A c \in Unborn : origin[c] = None
  BY DEF ContactInv, Whole, IsContact, Sources, Unborn
<1> USE DEF Commits, Ends, SourcedRows, Fields, Absent
<1>1. CASE createContact(w)
  <2>1. PICK c : c = CHOOSE x \in job[w].ids : TRUE  OBVIOUS
  <2>2. c \in job[w].ids
    BY <1>1, <2>1 DEF createContact, Serves, Sources, Entering
  <2>3. db' = db \/ \E x, nums : /\ db' = [db EXCEPT !.contact[c] = Newborn(nums), !.list = x]
                                 /\ job[w].ids \subseteq Unborn
    BY <1>1, <2>1 DEF createContact
  <2> QED BY <1>0, <2>2, <2>3
<1>2. CASE updateContact(w)
  <2>1. PICK c : c = CHOOSE x \in job[w].ids : TRUE  OBVIOUS
  <2>2. c \in job[w].ids  BY <1>2, <2>1 DEF updateContact, Serves, Sources, Entering
  <2>3. job[w].how = "source" => origin[c] = None
    BY <1>2, <2>2 DEF updateContact, Serves, SourcesStay
  <2>4. /\ \A x \in Contacts : x # c => db'.contact[x] = db.contact[x]
        /\ c \in Contacts => \/ db'.contact[c] = db.contact[c]
                            \/ /\ db.contact[c].present
                               /\ \/ db'.contact[c].source = db.contact[c].source
                                  \/ job[w].how = "source"
    BY <1>0, <1>2, <2>1, <2>2 DEF updateContact, Ensured, Present
  <2> QED BY <2>3, <2>4
<1>3. CASE importContacts(w)
  <2> DEFINE new == CHOOSE x \in job[w].ids : TRUE
             e == PutInto(Inserted(db, new, job[w].nums), job[w].to, new)
  <2> DEFINE o(x) == PutInto(Overwritten(db, x, job[w].nums), job[w].to, x)
  <2>1. job[w].ids # {}  BY <1>3 DEF importContacts, Serves, Sources, Entering
  <2>2. \/ \E ok : Commits(w, ok /\ job[w].ids \subseteq Unborn, e)
        \/ Commits(w, TRUE, db)
        \/ /\ job[w].how = "Overwrite"
           /\ \E x \in Owners(job[w].seen, job[w].nums) : \E ok : Commits(w, ok /\ x \in Present(db), o(x))
    BY <1>3, Zenon DEF importContacts
  <2>6. CASE \E x \in Owners(job[w].seen, job[w].nums) : \E ok :
               job[w].how = "Overwrite" /\ Commits(w, ok /\ x \in Present(db), o(x))
    <3>0. PICK x \in Owners(job[w].seen, job[w].nums) : \E ok :
               job[w].how = "Overwrite" /\ Commits(w, ok /\ x \in Present(db), o(x))
      BY <2>6, Zenon
    <3>1. PICK ok : job[w].how = "Overwrite" /\ Commits(w, ok /\ x \in Present(db), o(x))
      BY <3>0, Zenon
    <3>2. origin[x] = None  BY <1>3, <3>1 DEF importContacts, Serves, SourcesStay
    <3>3. \A c \in Contacts : c # x => o(x).contact[c] = db.contact[c]
      BY <1>0 DEF PutInto, Overwritten
    <3> HIDE DEF o
    <3>4. db' = db \/ db' = o(x)  BY <3>1
    <3> QED BY <3>2, <3>3, <3>4
  <2>3. PICK c : c = new /\ c \in job[w].ids  BY <2>1
  <2>4. \A x \in Contacts : x # c => /\ e.contact[x].present = db.contact[x].present
                                     /\ e.contact[x].source = db.contact[x].source
    BY <1>0, <2>3 DEF PutInto, Inserted
  <2>5. job[w].ids \subseteq Unborn => c \in Contacts /\ origin[c] = None
    BY <1>0, <2>3 DEF Unborn
  <2> HIDE DEF e, new, o
  <2> QED BY <2>2, <2>4, <2>5, <2>6
<1>4. CASE moveToDnc(w)  BY <1>0, <1>4 DEF moveToDnc, Ensured
<1>5. CASE bulkMoveToDnc(w)
  <2> DEFINE e(lists) == [Ensured(db, Dnc) EXCEPT
                    !.list = lists,
                    !.contact = [c \in Contacts |->
                       IF c \in job[w].ids
                       THEN [db.contact[c] EXCEPT !.status = "DO_NOT_CALL",
                                                  !.folders = @ \cup {Dnc}]
                       ELSE db.contact[c]]]
  <2>1. \E ok, lists : Commits(w, ok, e(lists))  BY <1>5, Zenon DEF bulkMoveToDnc
  <2>2. ASSUME NEW lists, NEW c \in Contacts
        PROVE  /\ e(lists).contact[c].present = db.contact[c].present
               /\ e(lists).contact[c].source = db.contact[c].source
    BY <1>0 DEF Ensured
  <2> HIDE DEF e
  <2> QED BY <2>1, <2>2
<1>6. CASE suppressNumber(w)  BY <1>0, <1>6 DEF suppressNumber
<1>7. CASE suppressedLast(w)  BY <1>7 DEF suppressedLast
<1>8. CASE applyDisposition(w)  BY <1>0, <1>8 DEF applyDisposition
<1>9. CASE setContactDispositions(w)  BY <1>0, <1>9 DEF setContactDispositions, Entered
<1>10. CASE repairListMembership(w)  BY <1>0, <1>10 DEF repairListMembership
<1> QED BY <1>1, <1>2, <1>3, <1>4, <1>5, <1>6, <1>7, <1>8, <1>9, <1>10

LEMMA GoneContacts ==
    ASSUME NEW m, DOMAIN m = Fields, NEW seen, NEW S, NEW homes, NEW c \in Contacts,
           Gone(m, seen, S, homes).contact[c].present
    PROVE  Gone(m, seen, S, homes).contact[c] = m.contact[c]
<1> DEFINE T == Saved(seen, S, homes) b == BackedUp(m, T) t == Tombstoned(b, S)
<1> HIDE DEF T
<1>1. DOMAIN b = Fields /\ b.contact = m.contact  BY DEF BackedUp, Fields
<1> HIDE DEF b
<1>2. DOMAIN t = Fields /\ t.contact = m.contact  BY <1>1 DEF Tombstoned, Fields
<1> HIDE DEF t
<1>3. Deleted(t, S).contact = [x \in Contacts |-> IF x \in S THEN Absent ELSE t.contact[x]]
  BY <1>2 DEF Deleted, Fields
<1>4. Gone(m, seen, S, homes) = Deleted(t, S)  BY DEF Gone, t, b, T
<1> QED BY <1>2, <1>3, <1>4 DEF Absent

LEMMA PurgedContacts ==
    ASSUME NEW m, DOMAIN m = Fields, NEW seen, NEW S, NEW c \in Contacts,
           Purged(m, seen, S).contact[c].present
    PROVE  Purged(m, seen, S).contact[c] = m.contact[c]
<1> DEFINE u == Unlisted(m, seen, S)
<1>1. DOMAIN u = Fields /\ u.contact = m.contact  BY DEF Unlisted, Fields
<1> HIDE DEF u
<1>2. Purged(m, seen, S) = IF S = {} THEN m ELSE Gone(u, seen, S, FALSE)
  BY DEF Purged, Gone, u
<1>3. CASE S = {}  BY <1>2, <1>3
<1>4. CASE S # {}
  <2>0. PICK h : h = FALSE  OBVIOUS
  <2>1. Gone(u, seen, S, h).contact[c].present  BY <1>2, <1>4, <2>0
  <2>2. Gone(u, seen, S, h).contact[c] = u.contact[c]  BY <1>1, <2>1, GoneContacts
  <2>3. Purged(m, seen, S) = Gone(u, seen, S, h)  BY <1>2, <1>4, <2>0
  <2> QED BY <1>1, <2>2, <2>3
<1> QED BY <1>3, <1>4

LEMMA DeletesSourced ==
    ASSUME ContactInv, SourcesStay, NEW w \in Workers,
           \/ deleteContact(w) \/ purgeContacts(w) \/ removeFromFolder(w) \/ removeFromList(w)
           \/ restoreContact(w) \/ permanentlyDeleteContact(w) \/ mergeContacts(w)
    PROVE  SourcedRows
<1> DEFINE W == job[w]
<1>0. /\ DOMAIN db = Fields /\ DOMAIN db.contact = Contacts
      /\ \A c \in Contacts : DOMAIN db.contact[c] = DOMAIN Absent
  BY DEF ContactInv, Whole, IsContact
<1>1. ASSUME db' = db PROVE SourcedRows  BY <1>1 DEF SourcedRows
<1>2. CASE deleteContact(w)
  <2> DEFINE u == Unlisted(db, W.seen, W.ids)
  <2>1. \E ok : Commits(w, ok, Gone(u, W.seen, W.ids, TRUE))
    BY <1>2, Zenon DEF deleteContact, Gone
  <2>2. DOMAIN u = Fields /\ u.contact = db.contact  BY <1>0 DEF Unlisted, Fields
  <2> HIDE DEF u
  <2>0. PICK h, seen, S : h = TRUE /\ seen = W.seen /\ S = W.ids  OBVIOUS
  <2>3. db' = db \/ db' = Gone(u, seen, S, h)  BY <2>0, <2>1 DEF Commits, Ends
  <2>4. ASSUME NEW c \in Contacts, db' = Gone(u, seen, S, h), db'.contact[c].present
        PROVE  db'.contact[c] = db.contact[c]
    <3>1. Gone(u, seen, S, h).contact[c].present  BY <2>4
    <3>2. Gone(u, seen, S, h).contact[c] = u.contact[c]  BY <2>2, <3>1, GoneContacts
    <3> QED BY <2>2, <2>4, <3>2
  <2> QED BY <1>1, <2>3, <2>4 DEF SourcedRows
<1>3. CASE purgeContacts(w) \/ removeFromFolder(w) \/ removeFromList(w)
  <2>1. PICK m, seen, S, ok :
          /\ DOMAIN m = Fields
          /\ \A c \in Contacts : /\ m.contact[c].present = db.contact[c].present
                                 /\ m.contact[c].source = db.contact[c].source
          /\ Commits(w, ok, Purged(m, seen, S))
    <3>1. CASE purgeContacts(w)  BY <1>0, <3>1 DEF purgeContacts
    <3>2. CASE removeFromFolder(w)
      <4> DEFINE f == W.to
                 ids == {c \in W.ids : f \in W.seen.contact[c].folders}
                 kept == {c \in ids : W.seen.contact[c].folders # {f}
                                      \/ ListsWith(W.seen, {c}) # {}}
                 left == [db EXCEPT
                       !.folder[f].members = W.seen.folder[f].members \ ids,
                       !.contact = [c \in Contacts |->
                          IF c \in kept
                          THEN [db.contact[c] EXCEPT !.folders = W.seen.contact[c].folders \ {f}]
                          ELSE db.contact[c]]]
      <4>1. \E ok : Commits(w, ok, Purged(left, W.seen, ids \ kept))
        BY <3>2, Zenon DEF removeFromFolder
      <4> HIDE DEF kept, ids
      <4>2. /\ DOMAIN left = Fields
            /\ \A c \in Contacts : /\ left.contact[c].present = db.contact[c].present
                                   /\ left.contact[c].source = db.contact[c].source
        BY <1>0 DEF Fields, Absent
      <4> HIDE DEF left
      <4> QED BY <4>1, <4>2
    <3>3. CASE removeFromList(w)
      <4> DEFINE l == W.to
                 ids == W.ids \cap W.seen.list[l].members
                 left == [db EXCEPT !.list[l].members = W.seen.list[l].members \ ids]
      <4>1. \E ok, seen, S : Commits(w, ok, Purged(left, seen, S))
        BY <3>3, Zenon DEF removeFromList
      <4> HIDE DEF ids
      <4>2. DOMAIN left = Fields /\ left.contact = db.contact  BY <1>0 DEF Fields
      <4> HIDE DEF left
      <4> QED BY <4>1, <4>2
    <3> QED BY <1>3, <3>1, <3>2, <3>3
  <2>2. db' = db \/ db' = Purged(m, seen, S)  BY <2>1 DEF Commits, Ends
  <2>3. ASSUME NEW c \in Contacts, db' = Purged(m, seen, S), db'.contact[c].present
        PROVE  db'.contact[c] = m.contact[c]
    BY <2>1, <2>3, PurgedContacts
  <2> QED BY <1>1, <2>1, <2>2, <2>3 DEF SourcedRows
<1>4. CASE restoreContact(w)
  <2>1. PICK s : s = CHOOSE x \in W.ids : TRUE  OBVIOUS
  <2>2. W.op = "restore"  BY <1>4 DEF restoreContact, Serves
  <2>3. s \in W.ids /\ origin[s] = None
    BY <2>1, <2>2 DEF ContactInv, ReadBefore, Restoring, SourcesStay
  <2> DEFINE e(x, r, lists, groups, b, row) ==
             [db EXCEPT !.contact[x] = r, !.list = lists, !.group = groups, !.backup[b] = row]
  <2>4. \E ok, r, lists, groups, b, row : Commits(w, ok, e(s, r, lists, groups, b, row))
    <3> DEFINE c == CHOOSE x \in W.ids : TRUE
    <3>1. \E ok, r, lists, groups, b, row : Commits(w, ok, e(c, r, lists, groups, b, row))
      BY <1>4, Zenon DEF restoreContact
    <3>2. c = s  BY <2>1
    <3> HIDE DEF c, e
    <3> QED BY <3>1, <3>2
  <2>5. ASSUME NEW r, NEW lists, NEW groups, NEW b, NEW row, NEW c \in Contacts, c # s
        PROVE  e(s, r, lists, groups, b, row).contact[c] = db.contact[c]
    BY <1>0, <2>5 DEF Fields
  <2> HIDE DEF e
  <2>6. \A c \in Contacts : c # s => db'.contact[c] = db.contact[c]
    <3>1. PICK ok, r, lists, groups, b, row : Commits(w, ok, e(s, r, lists, groups, b, row))
      BY <2>4
    <3> QED BY <2>5, <3>1 DEF Commits, Ends
  <2> QED BY <2>3, <2>6 DEF SourcedRows
<1>5. CASE permanentlyDeleteContact(w)
  BY <1>0, <1>5 DEF permanentlyDeleteContact, Ends, SourcedRows, Fields
<1>6. CASE mergeContacts(w)
  <2> DEFINE master == W.to[1] dups == (W.ids \ {master}) \cap Present(W.seen)
             M(lists, phones, folders, mpl, event) ==
                      [db EXCEPT
                       !.list = lists,
                       !.contact[master].phones = phones, !.contact[master].blocked = {},
                       !.contact[master].folders = folders,
                       !.contact[master].mpl = mpl,
                       !.event = event]
  <2>1. \E ok, lists, phones, folders, mpl, event, ends, as :
          Ends(w, ok, Deleted(M(lists, phones, folders, mpl, event), ends), ends, as)
    <3> DEFINE l == W.to[2] f == W.to[3]
               all == dups \cup {master}
               phones == UNION {W.seen.contact[c].phones : c \in all}
               gone == ListsWith(W.seen, all)
               left == Scrubbed(db.list, W.seen.list, gone, all)
               target == (IF l \in gone THEN left[l].members ELSE W.seen.list[l].members)
                         \cup {master}
               lists == [left EXCEPT ![l].members = target]
               folders == {f}
               mpl == \E c \in all : W.seen.contact[c].mpl
               itself == master \in W.ids
               ends == IF itself THEN all ELSE dups
               events == mergedEvents(db, W.seen, master, dups)
               event == IF itself THEN Dissolved(events, W.seen, master, all) ELSE events
               as == IF itself THEN "dissolved" ELSE "merged"
    <3>1. \E ok : Ends(w, ok, Deleted(M(lists, phones, folders, mpl, event), ends), ends, as)
      BY <1>6, Zenon DEF mergeContacts
    <3> HIDE DEF lists, phones, folders, mpl, event, M, dups, ends, as
    <3> QED BY <3>1, Zenon
  <2>2. PICK ok, lists, phones, folders, mpl, event, ends, as :
          Ends(w, ok, Deleted(M(lists, phones, folders, mpl, event), ends), ends, as)
    BY <2>1
  <2>3. PICK m : m = M(lists, phones, folders, mpl, event)  OBVIOUS
  <2> HIDE DEF master, dups
  <2>4. /\ DOMAIN m = Fields
        /\ \A c \in Contacts : /\ m.contact[c].present = db.contact[c].present
                               /\ m.contact[c].source = db.contact[c].source
    BY <1>0, <2>3 DEF Fields, Absent
  <2> HIDE DEF M
  <2>5. db' = db \/ db' = Deleted(m, ends)  BY <2>2, <2>3 DEF Ends
  <2>6. \A c \in Contacts : Deleted(m, ends).contact[c] = IF c \in ends THEN Absent ELSE m.contact[c]
    BY <2>4 DEF Deleted, Fields
  <2> QED BY <1>1, <2>4, <2>5, <2>6 DEF SourcedRows, Absent
<1> QED BY <1>2, <1>3, <1>4, <1>5, <1>6

\* All handlers but the imports.
LEMMA HandlersRest ==
    ASSUME ContactInv, Sources, SourcesStay, NEW w \in Workers,
           Transacts(w) \/ suppressNumber(w) \/ suppressedLast(w)
    PROVE  LeadsRest
<1>1. SourcedRows  BY FilingSourced, RecordsSourced, DeletesSourced DEF Transacts
<1>2. /\ queue' = queue /\ origin' = origin
      /\ \A c \in Contacts : fate'[c] = "unborn" => fate[c] = "unborn"
      /\ \A v \in Workers : job'[v] = job[v] \/ Unleading(v)
  <2>1. CASE Transacts(w)  BY <2>1, TransactsUnleading
  <2>2. CASE suppressNumber(w)
    <3>1. job[w].op = "suppress" /\ job'[w].op = "remaining"
          /\ \A v \in Workers : v # w => job'[v] = job[v]
      BY <2>2 DEF suppressNumber, Serves, ContactInv, Idle
    <3> QED BY <2>2, <3>1 DEF suppressNumber, Unleading, Leading, Entering
  <2>3. CASE suppressedLast(w)
    <3>1. job[w].op = "remaining" /\ job'[w].op \in {"dnc", "idle"}
          /\ \A v \in Workers : v # w => job'[v] = job[v]
      BY <2>3 DEF suppressedLast, Serves, ContactInv, ReadBefore, Idle
    <3> QED BY <2>3, <3>1 DEF suppressedLast, Unleading, Leading, Entering
  <2> QED BY <2>1, <2>2, <2>3
<1> QED BY <1>1, <1>2 DEF LeadsRest, Sourced, SourcedRows

LEMMA StatementsRest ==
    ASSUME ContactInv, Moves \/ Edits \/ Tracks PROVE LeadsRest
<1>0. /\ DOMAIN db = Fields /\ DOMAIN db.contact = Contacts
      /\ \A c \in Contacts : DOMAIN db.contact[c] = DOMAIN Absent
  BY DEF ContactInv, Whole, IsContact
<1>1. /\ job' = job /\ queue' = queue /\ fate' = fate /\ origin' = origin
      /\ \A c \in Contacts : /\ db'.contact[c].present = db.contact[c].present
                             /\ db'.contact[c].source = db.contact[c].source
  <2> USE DEF Statement, Fields, Absent
  <2>1. CASE createContactList \/ updateContactList \/ deleteContactList
    BY <1>0, <2>1 DEF createContactList, updateContactList, deleteContactList
  <2>2. CASE createContactFolder \/ updateContactFolder \/ deleteContactFolder
    BY <1>0, <2>2 DEF createContactFolder, updateContactFolder, deleteContactFolder
  <2>3. CASE createContactGroup \/ updateContactGroup \/ deleteContactGroup
    BY <1>0, <2>3 DEF createContactGroup, updateContactGroup, deleteContactGroup
  <2>4. CASE assignContactToFolder  BY <1>0, <2>4 DEF assignContactToFolder
  <2>5. CASE Edits  BY <1>0, <2>5 DEF Edits, removeFromDnc, markAsContacted
  <2>6. CASE Tracks  BY <1>0, <2>6 DEF Tracks, createStageEvent, deleteStageEvent, Entered
  <2> QED BY <2>1, <2>2, <2>3, <2>4, <2>5, <2>6 DEF Moves
<1> QED BY <1>1 DEF LeadsRest, Sourced

\* Requests: a push begins when no import is under way; what else begins is none.
LEMMA RequestsUnleading ==
    ASSUME NEW r \in MoveRequests \cup RecordRequests \cup AskTag \cup AskRepair \cup AskMerge
    PROVE  r.op \notin Leading /\ (r.op \in Entering => r.ids # {})
<1> USE DEF Ask, Leading, Entering
<1>1. CASE r \in MoveRequests
  BY <1>1 DEF MoveRequests, AskAssignList, AskBulkList, AskBulkFolder, AskGroups, AskDelete,
     AskBulkDelete, AskBackup
<1>2. CASE r \in AskCreate  BY <1>2 DEF AskCreate
<1>3. CASE r \in AskUpdate  BY <1>3 DEF AskUpdate
<1>4. CASE r \in AskImport  BY <1>4 DEF AskImport
<1>5. CASE r \in AskDnc \cup AskBulkDnc \cup AskSuppress \cup AskDisposition
  BY <1>5 DEF AskDnc, AskBulkDnc, AskSuppress, AskDisposition
<1>6. CASE r \in AskTag \cup AskRepair \cup AskMerge
  BY <1>6 DEF AskTag, AskRepair, AskMerge
<1> QED BY <1>1, <1>2, <1>3, <1>4, <1>5, <1>6 DEF RecordRequests

LEMMA BeginsLeads ==
    ASSUME ContactInv, InLine, Sources, NEW w \in Workers, NEW r, Begins(w, r),
           \/ r.op \notin Leading /\ (r.op \in Entering => r.ids # {})
           \/ r.op = "push" /\ PushAlone
    PROVE  InLine' /\ Sources'
<1>1. /\ db' = db /\ queue' = queue /\ fate' = fate /\ origin' = origin
      /\ job[w].op = "idle" /\ job'[w].op = r.op /\ job'[w].ids = r.ids
      /\ \A v \in Workers : v # w => job'[v] = job[v]
  BY DEF Begins, Serves, ContactInv
<1>2. CASE r.op \notin Leading /\ (r.op \in Entering => r.ids # {})
  <2>1. Unleading(w)  BY <1>1, <1>2 DEF Unleading, Leading
  <2> QED BY <1>1, <2>1, RestingLeads DEF LeadsRest, Sourced
<1>3. CASE r.op = "push" /\ PushAlone
  <2>1. \A v \in Workers : job[v].op \notin Leading
    BY <1>3 DEF PushAlone, Importing, Serves, Leading
  <2>2. Sources'
    <3>1. job'[w].op \notin Creating \cup Entering  BY <1>1, <1>3 DEF Creating, Entering
    <3> QED BY <1>1, <3>1, SourcedSources DEF Sourced
  <2>3. InLine'
    <3>1. Syncing \subseteq Leading /\ Started \subseteq Leading /\ "push" \notin Syncing
          /\ "idle" \notin Syncing
      BY DEF Syncing, Started, Leading
    <3>2. \A v \in Workers : v # w => job'[v].op \notin Leading  BY <1>1, <2>1
    <3>3. \A v \in Workers : job'[v].op \in Syncing <=> job[v].op \in Syncing  BY <1>1, <1>3, <3>1
    <3>4. \A v \in Workers : job'[v].op \notin Started  BY <1>1, <1>3, <3>1, <3>2 DEF Started
    <3>5. \A v \in Workers : job'[v].op \in Pushing => v = w  BY <3>2 DEF Pushing, Leading
    <3> QED BY <1>1, <3>2, <3>3, <3>4, <3>5 DEF InLine, Queued
  <2> QED BY <2>2, <2>3
<1> QED BY <1>2, <1>3

LEMMA JoinsLeads ==
    ASSUME ContactInv, InLine, Sources, NEW w \in Workers, NoPush, RequestSync(w)
    PROVE  InLine' /\ Sources'
<1>1. InLine'  BY LineJoined
<1>2. /\ db' = db /\ fate' = fate /\ origin' = origin
      /\ job'[w].op = "syncQueued" /\ \A v \in Workers : v # w => job'[v] = job[v]
  BY DEF RequestSync, ContactInv, ReadBefore, Idle
<1>3. job'[w].op \notin Creating \cup Entering  BY <1>2 DEF Creating, Entering
<1>4. Sourced  BY <1>2 DEF Sourced
<1>5. Sources'  BY <1>2, <1>3, <1>4, SourcedSources
<1> QED BY <1>1, <1>5

LEMMA LeadsInit == ContactInit => InLine /\ Sources
<1> SUFFICES ASSUME ContactInit PROVE InLine /\ Sources  OBVIOUS
<1>1. /\ queue = << >> /\ origin = [c \in Contacts |-> None]
      /\ \A w \in Workers : job[w].op = "idle"
  BY DEF ContactInit, Idle
<1>2. InLine
  <2>1. queue \in Seq(Workers) /\ Len(queue) = 0  BY <1>1
  <2>2. \A i \in 1..Len(queue) : FALSE  BY <2>1
  <2> QED BY <1>1, <2>1, <2>2 DEF InLine, Queued, Syncing, Started, Pushing
<1>3. Sources  BY <1>1 DEF Sources, Holds, Creating, Entering
<1> QED BY <1>2, <1>3

LEMMA LeadsNext ==
    ASSUME ContactInv, InLine, Sources, SourcesStay, [ContactNext]_contactVars
    PROVE  InLine' /\ Sources'
<1>1. ASSUME NEW w \in Workers, Proceed(w) PROVE InLine' /\ Sources'
  <2>1. CASE Transacts(w) \/ suppressNumber(w) \/ suppressedLast(w)
    BY <2>1, HandlersRest, RestingLeads
  <2>2. CASE SyncCreates(w) \/ PushCreates(w)  BY <2>2, ImportLeads
  <2>3. CASE SyncStarts(w) \/ SyncFinds(w) \/ SyncPushes(w) \/ SyncPhones(w) \/ SyncEnds(w)
    BY <2>3, SyncLeads
  <2>4. CASE PushFinds(w) \/ PushFolder(w)  BY <2>4, PushLeads
  <2> QED BY <1>1, <2>1, <2>2, <2>3, <2>4 DEF Proceed, Transacts
<1>2. ASSUME NEW w \in Workers,
             NEW r \in MoveRequests \cup RecordRequests \cup AskTag \cup AskRepair \cup AskMerge,
             Begins(w, r)
      PROVE  InLine' /\ Sources'
  BY <1>2, RequestsUnleading, BeginsLeads
<1>3. ASSUME NEW w \in Workers, PushAlone, NEW r \in AskPush, Begins(w, r)
      PROVE  InLine' /\ Sources'
  <2>1. r.op = "push"  BY DEF AskPush, Ask
  <2> QED BY <1>3, <2>1, BeginsLeads
<1>4. ASSUME NEW w \in Workers, NoPush, RequestSync(w) PROVE InLine' /\ Sources'
  BY <1>4, JoinsLeads
<1>5. CASE Moves \/ Edits \/ Tracks  BY <1>5, StatementsRest, RestingLeads
<1>6. CASE UNCHANGED contactVars
  BY <1>6, RestingLeads DEF contactVars, LeadsRest, Sourced
<1> QED BY <1>1, <1>2, <1>3, <1>4, <1>5, <1>6 DEF ContactNext

LEMMA SourcesOnce == Sources => OneContactPerListing
<1> SUFFICES ASSUME Sources, NEW n \in Listings,
                    NEW S, S = {c \in Present(db) : origin[c] = n}
             PROVE  Cardinality(S) <= 1
  BY DEF OneContactPerListing
<1>1. n # None  BY ContactAssumption DEF ContactAssumption
<1>2. \A c, d \in S : c = d  BY <1>1 DEF Sources, Holds, Present
<1>3. CASE S = {}  BY <1>3, FS_EmptySet
<1>4. CASE S # {}
  <2>1. PICK c : S = {c}  BY <1>2, <1>4
  <2> QED BY <2>1, FS_Singleton
<1> QED BY <1>3, <1>4

\* As long as nobody rewrites where an imported contact comes from or brings a
\* deleted one back, no listing is imported twice, whatever syncs, pushes and
\* requests of any number overlap: the syncs of a user take turns, and each
\* looks for the listing before it creates a contact (withUserSyncLock and the
\* findFirst of syncLeadsForLeadStoreImpl, src/services/myPlusLeads.service.ts:555).
THEOREM ContactsImportedOnce == ContactSpec /\ []SourcesStay => []OneContactPerListing
<1>1. ContactInit => ContactInv /\ InLine /\ Sources  BY ContactInvInit, LeadsInit
<1>2. /\ ContactInv /\ InLine /\ Sources /\ SourcesStay /\ [ContactNext]_contactVars
      => ContactInv' /\ InLine' /\ Sources'
  BY ContactInvNext, LeadsNext
<1> QED BY <1>1, <1>2, SourcesOnce, PTL DEF ContactSpec
=============================================================================
