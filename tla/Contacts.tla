------------------------------ MODULE Contacts ------------------------------
(***************************************************************************)
(* The contacts: requests and syncs that overlap in any way, but for two    *)
(* orders the properties set aside and README.md names: merges and edits of *)
(* stage events do not overlap a merge (MergeAlone), and a pushed listing   *)
(* no other import (PushAlone).                                             *)
(***************************************************************************)
EXTENDS ContactSources

MergeAlone == \A w \in Workers : ~Serves(w, "merge")
Importing(w) == \E op \in {"push", "pushCreate", "pushFolder", "syncQueued", "sync",
                           "syncCreate", "syncPush", "syncPhones", "syncEnds"} : Serves(w, op)
PushAlone == \A w \in Workers : ~Importing(w)
NoPush == \A w \in Workers : \A op \in {"push", "pushCreate", "pushFolder"} : ~Serves(w, op)

-----------------------------------------------------------------------------
\* The requests on places, on records, on the funnel, and of the leads.
MoveRequests == AskAssignList \cup AskBulkList \cup AskBulkFolder \cup AskGroups
                \cup AskDelete \cup AskBulkDelete \cup AskBackup
RecordRequests == AskCreate \cup AskUpdate \cup AskImport \cup AskDnc \cup AskBulkDnc
                  \cup AskSuppress \cup AskDisposition

Moves ==
    \/ createContactList \/ updateContactList \/ deleteContactList
    \/ createContactFolder \/ updateContactFolder \/ deleteContactFolder
    \/ assignContactToFolder
    \/ createContactGroup \/ updateContactGroup \/ deleteContactGroup
Edits == removeFromDnc \/ markAsContacted
Tracks == MergeAlone /\ (createStageEvent \/ deleteStageEvent)

Proceed(w) ==
    \/ assignContactsToList(w) \/ bulkAssignContactsToFolder(w) \/ assignContactToGroups(w)
    \/ moveContactsToTrash(w) \/ deleteContact(w) \/ purgeContacts(w)
    \/ removeFromFolder(w) \/ removeFromList(w)
    \/ restoreContact(w) \/ permanentlyDeleteContact(w)
    \/ createContact(w) \/ updateContact(w) \/ importContacts(w) \/ mergeContacts(w)
    \/ moveToDnc(w) \/ bulkMoveToDnc(w) \/ suppressNumber(w) \/ suppressedLast(w)
    \/ applyDisposition(w) \/ setContactDispositions(w)
    \/ SyncStarts(w) \/ SyncFinds(w) \/ SyncCreates(w) \/ SyncPushes(w) \/ SyncPhones(w)
    \/ SyncEnds(w)
    \/ PushFinds(w) \/ PushCreates(w) \/ PushFolder(w) \/ repairListMembership(w)

\* Any tables at the start, with a backup of whoever a backup row names, and
\* none but the events booked.
ContactInit ==
    /\ db \in Tables
    /\ \A c \in Contacts : db.contact[c].present \/ db.contact[c] = Absent
    /\ \A b \in Backups, c \in Contacts :
         db.backup[b][c] # NotSaved => b <= db.rows /\ db.backup[b][c].contact.present
    /\ \A e \in Events : e > db.booked => db.event[e] = NoEvent
    /\ job = [w \in Workers |-> Idle] /\ queue = <<>> /\ asked = 0
    /\ fate = [c \in Contacts |-> IF c \in Present(db) \/ RowOf(db, c) # {}
                                  THEN "known" ELSE "unborn"]
    /\ origin = [c \in Contacts |-> None]

ContactNext ==
    \/ \E w \in Workers :
         \/ Proceed(w)
         \/ \E r \in MoveRequests \cup RecordRequests \cup AskTag \cup AskRepair : Begins(w, r)
         \/ MergeAlone /\ \E r \in AskMerge : Begins(w, r)
         \/ PushAlone /\ \E r \in AskPush : Begins(w, r)
         \/ NoPush /\ RequestSync(w)
    \/ Moves \/ Edits \/ Tracks

ContactSpec == ContactInit /\ [][ContactNext]_contactVars
=============================================================================
