---------------------------- MODULE ContactMoves ----------------------------
(***************************************************************************)
(* Where contacts are: lists, folders, groups, Trash (the handlers of       *)
(* src/routes/contact/controller.ts and contactlist/service.ts, and what    *)
(* they call in src/routes/contact/service.ts).                             *)
(***************************************************************************)
EXTENDS ContactState

-----------------------------------------------------------------------------
(* Requests, as the controller lets them through. *)

Groupings(d) == {S \in SUBSET Present(d) : S # {}}

AskAssignList == {Ask("assignList", {c}, l, None, {}) : c \in Present(db), l \in OpenLists(db)}
AskBulkList == {Ask("assignList", S, l, "bulk", {}) : S \in Groupings(db), l \in OpenLists(db)}
AskBulkFolder ==
    {Ask("assignFolder", S, f, how, {}) :
       S \in Groupings(db), f \in OpenFolders(db), how \in {"add", "replace"}}
AskGroups == {Ask("assignGroups", {c}, G, None, {}) : c \in Present(db), G \in SUBSET OpenGroups(db)}

\* deleteContact: with a list or folder it is taken out of that, with
\* hardDelete it is deleted, otherwise it goes to Trash.
AskDelete ==
    {Ask("deleteContact", {c}, None, None, {}) : c \in Present(db)}
    \cup {Ask("outOfFolder", {c}, f, None, {}) : c \in Present(db), f \in OpenFolders(db)}
    \cup {Ask("outOfList", {c}, l, None, {}) : c \in Present(db), l \in OpenLists(db)}
    \cup {Ask("trash", {c}, None, None, {}) : c \in Present(db)}
AskBulkDelete ==
    {Ask("outOfFolder", S, f, None, {}) : S \in Groupings(db), f \in OpenFolders(db)}
    \cup {Ask("outOfList", S, l, None, {}) : S \in Groupings(db), l \in OpenLists(db)}
    \cup {Ask("trash", S, None, None, {}) : S \in Groupings(db)}
    \cup {Ask("purge", S, None, None, {}) : S \in Groupings(db)}
\* The same handler restores, and deletes the backup, of a deleted contact.
AskBackup ==
    {Ask(op, {c}, None, None, {}) :
       op \in {"restore", "erase"}, c \in {x \in Contacts : RowOf(db, x) # {}}}

-----------------------------------------------------------------------------
(* Moves to a list: the contact leaves the other lists, and its folders are  *)
(* the list's folder, in both directions of the redundant arrays.           *)

AssignedToList(d, seen, S, l, bulk) ==
    LET f == seen.list[l].folder
        others == ListsWith(seen, S) \ {l}
        stale == FoldersWith(seen, S) \ {f}
        lists == Scrubbed(d.list, seen.list, others, S)
        folders == Scrubbed(d.folder, seen.folder, stale, S)
        known == IF f = None THEN {} ELSE {f} \cap OpenFolders(seen)
    IN [d EXCEPT
          !.list = IF bulk THEN [lists EXCEPT ![l].members = seen.list[l].members \cup S]
                   ELSE IF S \subseteq seen.list[l].members THEN lists
                   ELSE Pushed(lists, l, S),
          !.folder = IF known = {} THEN folders
                     ELSE IF bulk THEN [folders EXCEPT ![f].members = seen.folder[f].members \cup S]
                     ELSE IF S \subseteq seen.folder[f].members THEN folders
                     ELSE Pushed(folders, f, S),
          !.contact = [c \in Contacts |->
              IF c \in S /\ d.contact[c].present
              THEN [d.contact[c] EXCEPT !.source = l,
                                        !.folders = IF f = None THEN {} ELSE {f}]
              ELSE d.contact[c]]]

assignContactsToList(w) ==
    LET W == job[w] S == W.ids l == W.to
        f == W.seen.list[l].folder
        ok == /\ l \in OpenLists(db)
              /\ ListsWith(W.seen, S) \subseteq OpenLists(db)
              /\ FoldersWith(W.seen, S) \subseteq OpenFolders(db)
              /\ (W.how = "bulk" \/ S \subseteq Present(db))
    IN /\ Serves(w, "assignList")
       /\ Commits(w, ok, AssignedToList(db, W.seen, S, l, W.how = "bulk"))

(* Moves to a folder: "replace" is a move, "add" keeps the other places. *)
AssignedToFolder(d, seen, S, f, replace) ==
    [d EXCEPT
       !.list = IF replace THEN Scrubbed(d.list, seen.list, ListsWith(seen, S), S) ELSE d.list,
       !.folder =
          LET left == IF replace
                      THEN Scrubbed(d.folder, seen.folder, FoldersWith(seen, S) \ {f}, S)
                      ELSE d.folder
          IN IF f \in OpenFolders(seen)
             THEN [left EXCEPT ![f].members = seen.folder[f].members \cup S] ELSE left,
       !.contact = [c \in Contacts |->
          IF c \in S /\ d.contact[c].present
          THEN [d.contact[c] EXCEPT !.folders = IF replace THEN {f}
                                                ELSE seen.contact[c].folders \cup {f}]
          ELSE d.contact[c]]]

bulkAssignContactsToFolder(w) ==
    LET W == job[w] S == W.ids
        replace == W.how = "replace"
        ok == /\ (replace => /\ ListsWith(W.seen, S) \subseteq OpenLists(db)
                             /\ FoldersWith(W.seen, S) \subseteq OpenFolders(db))
              /\ W.to \in OpenFolders(db)
              /\ (replace \/ S \subseteq Present(db))
    IN /\ Serves(w, "assignFolder")
       /\ Commits(w, ok, AssignedToFolder(db, W.seen, S, W.to, replace))

\* The groups asked for are all that the contact is in afterwards.
assignContactToGroups(w) ==
    LET W == job[w]
        leaves == GroupsWith(W.seen, W.ids) \ W.to
        joins == (OpenGroups(W.seen) \cap W.to) \ GroupsWith(W.seen, W.ids)
    IN /\ Serves(w, "assignGroups")
       /\ Commits(w, (leaves \cup joins) \subseteq OpenGroups(db),
            [db EXCEPT !.group = [g \in Groups |->
               IF g \in joins THEN [db.group[g] EXCEPT !.members = @ \cup W.ids]
               ELSE Scrubbed(db.group, W.seen.group, leaves, W.ids)[g]]])

-----------------------------------------------------------------------------
(* Deleting. *)

moveContactsToTrash(w) ==
    LET W == job[w] S == W.ids
        lists == ListsWith(W.seen, S)
    IN /\ Serves(w, "trash")
       /\ Commits(w, lists \subseteq OpenLists(db),
            [Ensured(db, Trash) EXCEPT
               !.list = Scrubbed(db.list, W.seen.list, lists, S),
               !.contact = [c \in Contacts |->
                  IF c \in S /\ db.contact[c].present
                  THEN [db.contact[c] EXCEPT !.folders = {Trash}] ELSE db.contact[c]]])

deleteContact(w) ==
    LET W == job[w] S == W.ids
    IN /\ Serves(w, "deleteContact") /\ db.rows < MaxBackups
       /\ Commits(w, Writable(db, W.seen, S) /\ S \subseteq Present(db),
            Deleted(Tombstoned(BackedUp(Unlisted(db, W.seen, S),
                                        Saved(W.seen, S, TRUE)), S), S))

\* purgeOrphans, and the hard delete: one backup row for all, which does not
\* say which lists and groups they were in.
Purged(d, seen, S) ==
    IF S = {} THEN d
    ELSE Deleted(Tombstoned(BackedUp(Unlisted(d, seen, S), Saved(seen, S, FALSE)), S), S)

purgeContacts(w) ==
    LET W == job[w]
    IN /\ Serves(w, "purge") /\ db.rows < MaxBackups
       /\ Commits(w, Writable(db, W.seen, W.ids), Purged(db, W.seen, W.ids))

\* Out of a folder, or purged when it was the last place.
removeFromFolder(w) ==
    LET W == job[w] f == W.to
        ids == {c \in W.ids : f \in W.seen.contact[c].folders}
        kept == {c \in ids : W.seen.contact[c].folders # {f} \/ ListsWith(W.seen, {c}) # {}}
        left == [db EXCEPT
                   !.folder[f].members = W.seen.folder[f].members \ ids,
                   !.contact = [c \in Contacts |->
                      IF c \in kept
                      THEN [db.contact[c] EXCEPT !.folders = W.seen.contact[c].folders \ {f}]
                      ELSE db.contact[c]]]
    IN /\ Serves(w, "outOfFolder") /\ db.rows < MaxBackups
       /\ Commits(w, /\ f \in OpenFolders(db) /\ kept \subseteq Present(db)
                     /\ Writable(db, W.seen, ids \ kept),
                  Purged(left, W.seen, ids \ kept))

\* Out of a list, likewise.
removeFromList(w) ==
    LET W == job[w] l == W.to
        ids == W.ids \cap W.seen.list[l].members
        lone == {c \in ids \cap Present(W.seen) :
                   W.seen.contact[c].folders = {} /\ ListsWith(W.seen, {c}) = {l}}
        left == [db EXCEPT !.list[l].members = W.seen.list[l].members \ ids]
        \* purgeOrphans reads the lists after l was written
        after == [W.seen EXCEPT !.list[l].members = @ \ ids]
    IN /\ Serves(w, "outOfList") /\ db.rows < MaxBackups
       /\ Commits(w, l \in OpenLists(db) /\ Writable(db, after, lone),
                  Purged(left, after, lone))

-----------------------------------------------------------------------------
(* Deleted contacts come back, or go for ever.  A row with the contact (the  *)
(* first of findMany, which has no order) is read before the transaction    *)
(* and written, or deleted when it was the last, from that.                 *)

\* Mutant: a restored contact takes its whole row with it.
RowDropped(seen, b, c) == [x \in Contacts |-> NotSaved]

RowWithout(seen, b, c) == [seen.backup[b] EXCEPT ![c] = NotSaved]
RowThere(d, b) == \E c \in Contacts : d.backup[b][c] # NotSaved

\* What a backup holds of a contact: not its status, its folders, its plan,
\* nor that its phones are blocked.
Revived(saved) ==
    [saved.contact EXCEPT !.status = "PENDING", !.folders = {}, !.blocked = {}, !.plan = FALSE]

restoreContact(w) ==
    LET W == job[w]
        c == CHOOSE x \in W.ids : TRUE
        saved(b) == W.seen.backup[b][c]
        back(now, which, there) == [k \in DOMAIN now |->
            IF k \in which \cap there THEN [now[k] EXCEPT !.members = @ \cup {c}] ELSE now[k]]
    IN /\ Serves(w, "restore")
       /\ \E b \in RowOf(W.seen, c) :
            Commits(w, c \notin Present(db) /\ RowThere(db, b),
              [db EXCEPT !.contact[c] = Revived(saved(b)),
                         !.list = back(db.list, saved(b).lists, OpenLists(db)),
                         !.group = back(db.group, saved(b).groups, OpenGroups(db)),
                         !.backup[b] = RowWithout(W.seen, b, c)])

permanentlyDeleteContact(w) ==
    LET W == job[w]
        c == CHOOSE x \in W.ids : TRUE
    IN /\ Serves(w, "erase")
       /\ \E b \in RowOf(W.seen, c) :
            Ends(w, RowThere(db, b),
                 [db EXCEPT !.backup[b] = RowWithout(W.seen, b, c)],
                 W.ids \ Present(db), "erased")

-----------------------------------------------------------------------------
(* Lists, folders and groups themselves: single statements.  A list or       *)
(* group that is deleted takes nothing along; a folder leaves its id behind  *)
(* in the contacts.                                                         *)

createContactList ==
    \E l \in Lists, S \in SUBSET Present(db), f \in (OpenFolders(db) \ {Dnc, Trash}) \cup {None} :
        /\ db.list[l].life = "new"
        /\ Statement([db EXCEPT !.list[l] = [life |-> "open", members |-> S, folder |-> f]])
updateContactList ==
    \E l \in OpenLists(db), S \in SUBSET Present(db) :
        Statement([db EXCEPT !.list[l].members = S])
deleteContactList ==
    \E l \in OpenLists(db) :
        Statement([db EXCEPT !.list[l] = [@ EXCEPT !.life = "gone", !.members = {}]])

createContactFolder ==
    \E f \in Folders, S \in SUBSET Present(db) :
        /\ db.folder[f].life = "new"
        /\ Statement([db EXCEPT !.folder[f] = [life |-> "open", members |-> S]])
updateContactFolder ==
    \E f \in OpenFolders(db), S \in SUBSET Present(db) :
        Statement([db EXCEPT !.folder[f].members = S])
deleteContactFolder ==
    \E f \in OpenFolders(db) \ {Dnc, Trash} :
        Statement([db EXCEPT !.folder[f] = [life |-> "gone", members |-> {}]])
\* Without a folder, or to replace the folders; adding reads them first and
\* is the bulk request's.
assignContactToFolder ==
    \E c \in Present(db), F \in {{f} : f \in OpenFolders(db)} \cup {{}} :
        Statement([db EXCEPT !.contact[c].folders = F])

createContactGroup ==
    \E g \in Groups, S \in SUBSET Present(db) :
        /\ db.group[g].life = "new"
        /\ Statement([db EXCEPT !.group[g] = [life |-> "open", members |-> S]])
updateContactGroup ==
    \E g \in OpenGroups(db), S \in SUBSET Present(db) :
        Statement([db EXCEPT !.group[g].members = S])
deleteContactGroup ==
    \E g \in OpenGroups(db) :
        Statement([db EXCEPT !.group[g] = [life |-> "gone", members |-> {}]])
=============================================================================
