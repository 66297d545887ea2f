----------------------------- MODULE CallScreens -----------------------------
(***************************************************************************)
(* What the handlers of src/routes/calling/controller.ts work out from the  *)
(* rows when an agent opens a list, the messages or a call: the order in    *)
(* which a list is dialled, the threads of the SMS inbox.  The bookmark and  *)
(* the messages are their own; the calls are those of CallRecords, and the  *)
(* phones of a contact change as the contact handlers change them.          *)
(***************************************************************************)
EXTENDS CallRecords

CONSTANTS
    Phones,           \* phone numbers, normalised
    MaxTexts          \* messages in a behaviour

ASSUME ScreensAssumption == IsFiniteSet(Clients)

VARIABLES
    reached,          \* contacts whose status is CONTACTED
    bookmark,         \* DialListSession.lastContactId
    phones,           \* the numbers of each contact
    texts             \* SmsLog, oldest first

screenVars == <<reached, bookmark, phones, texts>>

ScreensInit ==
    /\ reached = {} /\ bookmark = None /\ texts = <<>>
    /\ phones = [c \in Clients |-> {}]

-----------------------------------------------------------------------------
(* filterDialContacts: the contacts of a list that a session dials, and in   *)
(* which order.  Calls are placed in the order of their numbers, and those   *)
(* after f.since lie in the window that the agent asks about.                *)

Filters ==
    [resume : BOOLEAN, neverDialed : BOOLEAN, since : 0..Cardinality(Calls),
     neverContacted : BOOLEAN, statusChanged : BOOLEAN, created : SUBSET Clients]

Dialed(c, since) == \E s \in Calls : s > since /\ record[s].there /\ record[s].of = c

\* A call that was answered, and not by a machine.
Contacted(c) ==
    \E s \in Calls : /\ record[s].of = c /\ record[s].status = "completed"
                     /\ record[s].disposition # "MACHINE"

StatusChanged(c, since) == \E s \in Calls : s > since /\ record[s].of = c /\ s \in filed

Eligible(f) ==
    {c \in f.created \ reached :
        /\ f.neverDialed => ~Dialed(c, f.since)
        /\ f.neverContacted => ~Contacted(c)
        /\ f.statusChanged => StatusChanged(c, f.since)}

\* Those of S, in their order.
Kept(ids, S) ==
    LET upTo[k \in 0..Len(ids)] ==
          IF k = 0 THEN <<>>
          ELSE IF ids[k] \in S THEN Append(upTo[k - 1], ids[k]) ELSE upTo[k - 1]
    IN upTo[Len(ids)]

\* New leads first, then from the contact that was saved, then the rest.
Resumed(ids, mark) ==
    LET at == CHOOSE k \in DOMAIN ids : ids[k] = mark
        before == SubSeq(ids, 1, at - 1)
        fresh == {c \in Clients : ~Dialed(c, 0)}
    IN Kept(before, fresh) \o SubSeq(ids, at, Len(ids)) \o Kept(before, Clients \ fresh)

\* A list without a bookmark, or whose bookmark the filters leave out, is
\* dialled from the top.
filterDialContacts(ids, f) ==
    LET kept == Kept(ids, Eligible(f))
    IN IF f.resume /\ bookmark \in Range(kept) THEN Resumed(kept, bookmark) ELSE kept

upsertDialSession(c) ==
    /\ c # bookmark /\ bookmark' = c
    /\ UNCHANGED <<callVars, reached, phones, texts>>

\* markContactAsContacted, by the agent.
Reach(c) ==
    /\ c \notin reached /\ reached' = reached \cup {c}
    /\ UNCHANGED <<callVars, bookmark, phones, texts>>

-----------------------------------------------------------------------------
(* SMS. *)

Text(sent, n, c) == [sent |-> sent, remote |-> n, of |-> c]
Owners(n) == {c \in Clients : n \in phones[c]}

\* The contact of the latest message among M that names one of S.
LatestOf(S, M) ==
    LET ks == {k \in M : texts[k].of \in S}
    IN IF ks = {} THEN None ELSE texts[Latest(ks)].of

\* The screen names the contact; without one it is any that has the number.
sendSms(n, c) ==
    /\ Len(texts) < MaxTexts
    /\ c \in Clients \/ c \in Owners(n) \/ (c = None /\ Owners(n) = {})
    /\ texts' = Append(texts, Text(TRUE, n, c))
    /\ UNCHANGED <<callVars, reached, bookmark, phones>>

\* The one contact that has the number; of several, that of the latest
\* message with one of them, and the first found if there is none.
handleIncomingSms(n, c) ==
    /\ Len(texts) < MaxTexts
    /\ LET last == LatestOf(Owners(n), DOMAIN texts)
       IN IF last # None /\ Cardinality(Owners(n)) > 1 THEN c = last
          ELSE IF Owners(n) = {} THEN c = None ELSE c \in Owners(n)
    /\ texts' = Append(texts, Text(FALSE, n, c))
    /\ UNCHANGED <<callVars, reached, bookmark, phones>>

\* A number of a contact is added or removed.
PhonesEdited(c, n) ==
    /\ phones' = [phones EXCEPT ![c] = IF n \in @ THEN @ \ {n} ELSE @ \cup {n}]
    /\ UNCHANGED <<callVars, reached, bookmark, texts>>

\* Whom the thread of a number is shown under: the contact of the last
\* message sent to it, of those that have the number, else that of its last
\* message, else the first found.
Best(n) ==
    LET with == {k \in DOMAIN texts : texts[k].remote = n}
        sent == LatestOf(Owners(n), {k \in with : texts[k].sent})
        last == texts[Latest(with)].of
    IN IF sent # None THEN {sent} ELSE IF last \in Owners(n) THEN {last} ELSE Owners(n)

\* The messages of a thread that is opened by contact, and by number.
Conversation(c) == {k \in DOMAIN texts : texts[k].remote \in phones[c] \/ texts[k].of = c}
NumberConversation(n) == {k \in DOMAIN texts : texts[k].remote = n}

\* getSmsInbox: each number with what its thread shows when it is opened; the
\* threads of a contact are one.
Inbox ==
    {[remote |-> t[1], shows |-> Conversation(t[2])] : t \in
        {s \in {texts[k].remote : k \in DOMAIN texts} \X Clients : s[2] \in Best(s[1])}}
    \cup {[remote |-> n, shows |-> NumberConversation(n)] : n \in
        {m \in {texts[k].remote : k \in DOMAIN texts} : Best(m) = {}}}

Dialling == \E c \in Clients : upsertDialSession(c) \/ Reach(c)

Texting ==
    \E n \in Phones, c \in Clients \cup {None} :
        sendSms(n, c) \/ handleIncomingSms(n, c)

Editing == \E c \in Clients, n \in Phones : PhonesEdited(c, n)

ScreensNext == Dialling \/ Texting \/ Editing

ScreensSpec == ScreensInit /\ [][ScreensNext]_screenVars
=============================================================================
