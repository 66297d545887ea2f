----------------------------- MODULE MCContacts -----------------------------
(***************************************************************************)
(* Bounds for TLC: a behaviour is of one part, which says what is there at  *)
(* the start and which requests arrive.                                     *)
(***************************************************************************)
EXTENDS ContactProperties

CONSTANTS c1, c2, c3, l1, l2, f1, g1, n1, n2, s1, Parts

VARIABLE part
mcVars == <<part, contactVars>>

Open(S) == [life |-> "open", members |-> S]
NoRows ==
    [contact |-> [c \in Contacts |-> Absent],
     list |-> [l \in Lists |-> [life |-> "new", members |-> {}, folder |-> None]],
     folder |-> [f \in Homes |-> [life |-> "new", members |-> {}]],
     group |-> [g \in Groups |-> [life |-> "new", members |-> {}]],
     backup |-> [b \in Backups |-> [c \in Contacts |-> NotSaved]], rows |-> 0,
     event |-> [e \in Events |-> NoEvent], booked |-> 0,
     suppressed |-> {}, tombstone |-> {}]

\* Two contacts, one of them a lead whose source was edited away.
Unfiled ==
    [NoRows EXCEPT !.contact =
       [c \in Contacts |-> IF c = c3 THEN Absent
                           ELSE [Newborn({n1}) EXCEPT !.mpl = (c = c2)]]]
Placed ==
    [Unfiled EXCEPT !.list[l1] = [life |-> "open", members |-> {c1, c2}, folder |-> None],
                   !.list[l2].life = "open", !.list[l2].folder = f1,
                   !.folder[f1] = Open({}), !.group[g1] = Open({c1})]
\* A row of two deleted contacts.
Binned ==
    [Placed EXCEPT !.contact = [c \in Contacts |-> IF c = c3 THEN Newborn({n2}) ELSE Absent],
                   !.list[l1].members = {}, !.group[g1].members = {},
                   !.backup[1] = [c \in Contacts |-> IF c = c3 THEN NotSaved
                        ELSE [NotSaved EXCEPT !.contact = Newborn({n1})]],
                   !.rows = 1]
\* All three have reached the stage, or two of them.
Tracked ==
    LET all == [Placed EXCEPT
                  !.contact = [c \in Contacts |-> Newborn({n1})],
                  !.event = [e \in Events |->
                     IF e > 3 THEN NoEvent
                     ELSE [live |-> TRUE, of |-> <<c1, c2, c3>>[e], stage |-> s1,
                           gci |-> 1, on |-> e % 2]],
                  !.booked = 3]
    IN {all, [all EXCEPT !.event[1] = NoEvent]}
Called ==
    [Placed EXCEPT !.contact[c1].plan = TRUE, !.contact[c1].phones = {n1, n2}]

Start(p) ==
    CASE p = "places" -> {Placed}
      [] p = "filing" -> {Unfiled}
      [] p = "backups" -> {Binned}
      [] p = "funnel" -> Tracked
      [] p = "calls" -> {Called}
      [] OTHER -> {NoRows}

MCInit ==
    /\ part \in Parts
    /\ db \in Start(part)
    /\ ContactInit

Requests ==
    CASE part = "places" -> MoveRequests
      [] part = "filing" -> AskBulkDelete
      [] part = "backups" -> AskBackup \cup AskBulkDelete \cup AskDelete
      [] part = "calls" -> RecordRequests
      [] part = "funnel" -> AskTag \cup AskDelete \cup AskBackup
      [] part = "leads" -> {r \in AskDelete : r.op = "deleteContact"} \cup AskRepair
      [] part = "moved" -> AskAssignList
      [] OTHER -> {}

\* Calls are many in kind: two of them overlap, and no third follows.
Limit == IF part = "calls" THEN 2 ELSE MaxRequests

MCNext ==
    /\ \/ \E w \in Workers :
            \/ Proceed(w)
            \/ /\ Serves(w, "idle") /\ asked < Limit
               /\ \/ \E r \in Requests : Begins(w, r)
                  \/ part = "funnel" /\ MergeAlone /\ \E r \in AskMerge : Begins(w, r)
                  \/ part = "leads" /\ PushAlone /\ \E r \in AskPush : Begins(w, r)
                  \/ part \in {"leads", "moved"} /\ NoPush /\ RequestSync(w)
       \/ /\ asked < Limit
          /\ \/ part \in {"places", "filing"} /\ Moves
             \/ part = "leads" /\ deleteContactList
             \/ part = "calls" /\ Edits
             \/ part = "funnel" /\ Tracks
    /\ UNCHANGED part

MCSpec == MCInit /\ [][MCNext]_mcVars
=============================================================================
