--------------------------- MODULE ContactSources ---------------------------
(***************************************************************************)
(* Contacts that MyPlusLeads sends: the sync that pulls an account's        *)
(* listings (src/services/myPlusLeads.service.ts), the webhook that is      *)
(* pushed one (src/routes/webhooks/myplusleads.ts), and the repair of the   *)
(* lists they go to.  None is a transaction: each await is a step.          *)
(***************************************************************************)
EXTENDS ContactRecords

\* What findFirst({ userId, source }) looks for.
Imported(n) == \E c \in Present(db) : db.contact[c].source = n

Lead(n) == [Newborn({}) EXCEPT !.source = n, !.mpl = TRUE]
ImportsLead(c, n) ==
    /\ fate' = [fate EXCEPT ![c] = "known"]
    /\ origin' = [origin EXCEPT ![c] = n]

\* The list or folder of a package is found by its name, or created.
Steps(w, new) ==
    /\ job' = [job EXCEPT ![w] = new]
    /\ UNCHANGED <<queue, asked>>

-----------------------------------------------------------------------------
(* The sync: one at a time per user. *)

RequestSync(w) ==
    /\ Serves(w, "idle") /\ asked < MaxRequests
    /\ asked' = asked + 1
    /\ queue' = Append(queue, w)
    /\ job' = [job EXCEPT ![w].op = "syncQueued"]
    /\ UNCHANGED <<db, fate, origin>>

\* Mutant: the syncs of a user do not wait for each other.
NoLock(w) == TRUE

Turn(w) == Head(queue) = w

\* The listings fetched, and the tombstones as they are now.
SyncStarts(w) ==
    /\ Serves(w, "syncQueued") /\ Turn(w)
    /\ \E S \in SUBSET Listings :
         job' = [job EXCEPT ![w] = [Idle EXCEPT !.op = "sync",
                                                !.seen = [todo |-> S, tomb |-> db.tombstone]]]
    /\ UNCHANGED <<db, queue, fate, origin, asked>>

SyncFinds(w) ==
    /\ Serves(w, "sync")
    /\ \E n \in job[w].seen.todo :
         LET rest == [job[w] EXCEPT !.seen.todo = @ \ {n}]
         IN \/ Imported(n) /\ Steps(w, rest)
            \/ ~Imported(n) /\ n \in job[w].seen.tomb /\ Steps(w, rest)
            \/ /\ ~Imported(n) /\ n \notin job[w].seen.tomb
               /\ Steps(w, [rest EXCEPT !.op = "syncCreate", !.to = n])
    /\ UNCHANGED <<db, fate, origin>>

\* contact.create; the list of its status was found or created before.
SyncCreates(w) ==
    /\ Serves(w, "syncCreate")
    /\ \E c \in Unborn, l \in {x \in Lists : db.list[x].life # "gone" /\ db.list[x].folder = None} :
         /\ db' = [db EXCEPT !.contact[c] = Lead(job[w].to), !.list[l].life = "open"]
         /\ ImportsLead(c, job[w].to)
         /\ Steps(w, [job[w] EXCEPT !.op = "syncPush", !.ids = {c}, !.how = l])

\* A list or contact that is gone throws, and ends the sync.
SyncPushes(w) ==
    /\ Serves(w, "syncPush")
    /\ LET l == job[w].how
       IN IF l \in OpenLists(db)
          THEN /\ db' = [db EXCEPT !.list = Pushed(db.list, l, job[w].ids)]
               /\ Steps(w, [job[w] EXCEPT !.op = "syncPhones"])
          ELSE db' = db /\ Steps(w, [job[w] EXCEPT !.op = "syncEnds"])
    /\ UNCHANGED <<fate, origin>>

SyncPhones(w) ==
    /\ Serves(w, "syncPhones")
    /\ LET c == CHOOSE x \in job[w].ids : TRUE
       IN IF c \in Present(db)
          THEN /\ \E n \in Numbers : db' = [db EXCEPT !.contact[c].phones = {n}]
               /\ Steps(w, [job[w] EXCEPT !.op = "sync", !.ids = {}, !.to = None, !.how = None])
          ELSE db' = db /\ Steps(w, [job[w] EXCEPT !.op = "syncEnds"])
    /\ UNCHANGED <<fate, origin>>

SyncEnds(w) ==
    /\ \/ Serves(w, "syncEnds")
       \/ Serves(w, "sync") /\ job[w].seen.todo = {}
    /\ job' = [job EXCEPT ![w] = Idle]
    /\ queue' = Tail(queue)
    /\ UNCHANGED <<db, fate, origin, asked>>

-----------------------------------------------------------------------------
(* The webhook, which asks no tombstone; the repair. *)

AskPush == {Ask("push", {}, n, None, {}) : n \in Listings}
AskRepair == {Ask("repair", {}, l, None, {}) :
                l \in {x \in Lists : db.list[x].life # "gone" /\ db.list[x].folder = None}}

PushFinds(w) ==
    /\ Serves(w, "push")
    /\ Steps(w, IF Imported(job[w].to) THEN Idle ELSE [job[w] EXCEPT !.op = "pushCreate"])
    /\ UNCHANGED <<db, fate, origin>>

PushCreates(w) ==
    /\ Serves(w, "pushCreate")
    /\ \E c \in Unborn, f \in {x \in Folders : db.folder[x].life # "gone"} :
         /\ db' = [db EXCEPT !.contact[c] = Lead(job[w].to), !.folder[f].life = "open"]
         /\ ImportsLead(c, job[w].to)
         /\ Steps(w, [job[w] EXCEPT !.op = "pushFolder", !.ids = {c}, !.how = f])

PushFolder(w) ==
    /\ Serves(w, "pushFolder")
    /\ LET c == CHOOSE x \in job[w].ids : TRUE
           f == job[w].how
           there == f \in OpenFolders(db)
           pushed == IF there THEN [db EXCEPT !.folder = Pushed(db.folder, f, {c})] ELSE db
       IN db' = IF there /\ c \in Present(db)
                THEN [pushed EXCEPT !.contact[c].folders = @ \cup {f}] ELSE pushed
    /\ Steps(w, Idle)
    /\ UNCHANGED <<fate, origin>>

repairListMembership(w) ==
    LET W == job[w]
        tagged == {c \in Present(W.seen) : W.seen.contact[c].mpl}
        add == tagged \ W.seen.list[W.to].members
    IN /\ Serves(w, "repair")
       /\ Commits(w, db.list[W.to].life # "gone",
                  [db EXCEPT !.list[W.to] = [@ EXCEPT !.life = "open", !.members = @ \cup add]])
=============================================================================
