-------------------------- MODULE ContactProperties --------------------------
(***************************************************************************)
(* What the contact handlers promise, whatever overlaps.                    *)
(***************************************************************************)
EXTENDS Contacts

\* A contact that was ever created is there, or in a backup, unless it was
\* merged into another or its backup was deleted for good: bulk deletes share
\* one backup row, and a restore or a permanent delete of one contact, begun
\* from an older reading of the row, rewrites it for all (bulkDeleteContactsInDb,
\* restoreContactFromDb, permanentlyDeleteContactFromDb).  One merge does lose
\* contacts, and is set aside: a master among its own duplicates is deleted with
\* them and without a backup, so that all that were merged are gone ("dissolved").
NothingLost ==
    \A c \in Contacts :
        fate[c] = "known" => c \in Present(db) \/ RowOf(db, c) # {}

\* What a stage of the funnel has brought, over all its events, those without
\* a contact included.
Booked(d, s) ==
    LET E == {e \in Events : d.event[e].live /\ d.event[e].stage = s}
    IN [gci |-> Sum(d, E), first |-> IF E = {} THEN None ELSE FirstDay(d, E)]

Records == \E w \in Workers : setContactDispositions(w)

\* A merge whose duplicates name its master.
MergesItself ==
    \E w \in Workers : Serves(w, "merge") /\ job[w].to[1] \in job[w].ids /\ mergeContacts(w)

\* Only entering, correcting or deleting a stage event changes what a stage
\* has brought and when it began: "ordinary contact hygiene (merging a
\* duplicate, a hard delete, purging an orphan) must never rewrite last
\* quarter's revenue" (prisma/schema.prisma:2380, mergeContactsInDb).  A merge
\* whose duplicates name its master does rewrite it, and is set aside.
FunnelKept ==
    [][\/ Tracks \/ Records \/ MergesItself
       \/ \A s \in Stages : Booked(db', s) = Booked(db, s)]_contactVars

\* Syncs of a user that overlap import a listing once: the later waits, and
\* its look for the listing sees what the earlier created (withUserSyncLock).
OneContactPerListing ==
    \A n \in Listings : Cardinality({c \in Present(db) : origin[c] = n}) <= 1

\* A listing is not imported again while the contact it became is there: "once
\* a contact is imported, list membership belongs to the user (they may have
\* called it, moved it, or removed it on purpose)"
\* (src/services/myPlusLeads.service.ts:562).
MovedStaysImported ==
    [][\A c \in Contacts : origin'[c] # origin[c] =>
         ~\E d \in Present(db) : origin[d] = origin'[c]]_contactVars
=============================================================================
