--------------------------- MODULE Deliverability ---------------------------
(***************************************************************************)
(* Two enrolments of an admin's phone numbers that build on the A2P         *)
(* customer profile: Voice Integrity (src/services/                         *)
(* voiceIntegrity.service.ts), which keeps carriers from labelling calls as *)
(* spam, and CNAM (src/services/cnam.service.ts), which shows a name.  Each *)
(* is a product at Twilio that is reviewed, and to which numbers are        *)
(* assigned; an integration row mirrors it, and every number's row keeps    *)
(* its assignment and a flag that it is registered.                         *)
(***************************************************************************)
EXTENDS A2P

CONSTANTS
    Numbers,          \* phone numbers
    Products          \* bound: the products Twilio will create

ASSUME EnrolAssumption == None \notin Products

Programmes == {"vi", "cnam"}

VARIABLES
    product,          \* the review of each product at Twilio
    assigned,         \* the numbers assigned to each product at Twilio
    cred,             \* the credentials of the integration row of a programme
    line,             \* the numbers: at Twilio, listed, and their assignments
    clerk             \* the request that works on an enrolment, its locals

enrolVars == <<product, assigned, cred, line, clerk>>

EnrolStatus == {"not-started", "draft", "pending-review", "twilio-approved", "twilio-rejected"}
NoClerk == [at |-> "idle", prog |-> "vi", sid |-> None, status |-> "not-started",
            todo |-> {}, number |-> None]

EnrolTypeOK ==
    /\ product \in [Products -> EnrolStatus]
    /\ assigned \in [Products -> SUBSET Numbers]
    /\ cred \in [Programmes -> [status : EnrolStatus, sid : Products \cup {None}]]
    /\ line \in [Numbers -> [held : BOOLEAN, listed : BOOLEAN,
                             sid : [Programmes -> Products \cup {None}],
                             registered : [Programmes -> BOOLEAN]]]
    /\ clerk.prog \in Programmes /\ clerk.sid \in Products \cup {None}
    /\ clerk.todo \subseteq Numbers

Unenrolled == [held |-> FALSE, listed |-> FALSE,
               sid |-> [g \in Programmes |-> None],
               registered |-> [g \in Programmes |-> FALSE]]

EnrolInit ==
    /\ product = [p \in Products |-> "not-started"]
    /\ assigned = [p \in Products |-> {}]
    /\ cred = [g \in Programmes |-> [status |-> "not-started", sid |-> None]]
    /\ line = [n \in Numbers |-> Unenrolled]
    /\ clerk = NoClerk

-----------------------------------------------------------------------------

ProductReviewed ==
    /\ \E p \in Products :
         /\ product[p] = "pending-review"
         /\ \E to \in {"twilio-approved", "twilio-rejected"} :
              product' = [product EXCEPT ![p] = to]
    /\ UNCHANGED <<assigned, cred, line, clerk, faults>>

\* getStatus blocks who has no approved customer profile ...
OpenToVI == reg.approved /\ reg.profileSid # None
\* ... and from CNAM who has no approved Voice Integrity.
Open(g) == OpenToVI /\ (g = "cnam" => cred["vi"].status = "twilio-approved")

FreshProducts == {p \in Products : product[p] = "not-started"}

Clerk(stage) == clerk.at = stage
Serves(stage) == clerk' = [clerk EXCEPT !.at = stage]
Rests == clerk' = NoClerk

exceptClerk == <<product, assigned, cred, line>>

-----------------------------------------------------------------------------
(* submitOnboarding. *)

\* Voice Integrity does not ask getStatus: it takes an approved profile of the
\* account, or else any.  Bounds: who is enrolled or under review does not ask
\* again, nor when Twilio's products would not suffice.
ProfileAtTwilio == \E s \in Profiles : profile[s] \notin Absent
Onboard(g) ==
    /\ Clerk("idle")
    /\ cred[g].status \in {"not-started", "draft", "twilio-rejected"}
    /\ FreshProducts # {}
    /\ IF g = "vi" THEN ProfileAtTwilio ELSE Open("cnam") /\ cred["vi"].sid # None
    /\ clerk' = [NoClerk EXCEPT !.at = "seed", !.prog = g,
                                !.todo = {n \in Numbers : line[n].held}]
    /\ NoFault /\ UNCHANGED exceptClerk

\* What was there is forgotten.
Seed ==
    /\ Clerk("seed")
    /\ cred' = [cred EXCEPT ![clerk.prog] = [status |-> "draft", sid |-> None]]
    /\ Serves("create")
    /\ NoFault /\ UNCHANGED <<product, assigned, line>>

CreateProduct ==
    /\ Clerk("create")
    /\ product' = [product EXCEPT ![New(FreshProducts)] = "draft"]
    /\ clerk' = [clerk EXCEPT !.at = "assign", !.sid = New(FreshProducts)]
    /\ NoFault /\ UNCHANGED <<assigned, cred, line>>

\* Each number is assigned at Twilio, then its row is updated if it has one.
AssignNumber ==
    /\ Clerk("assign")
    /\ \E n \in clerk.todo :
         /\ assigned' = [assigned EXCEPT ![clerk.sid] = @ \cup {n}]
         /\ line' = IF line[n].listed
                    THEN [line EXCEPT ![n].sid[clerk.prog] = clerk.sid] ELSE line
         /\ clerk' = [clerk EXCEPT !.todo = @ \ {n}]
    /\ NoFault /\ UNCHANGED <<product, cred>>

EnterProduct ==
    /\ Clerk("assign") /\ clerk.todo = {}
    /\ product' = [product EXCEPT ![clerk.sid] = "pending-review"]
    /\ Serves("storeProduct")
    /\ NoFault /\ UNCHANGED <<assigned, cred, line>>

StoreProduct ==
    /\ Clerk("storeProduct")
    /\ cred' = [cred EXCEPT ![clerk.prog] = [status |-> "pending-review", sid |-> clerk.sid]]
    /\ Rests
    /\ NoFault /\ UNCHANGED <<product, assigned, line>>

\* Any of it may throw; the row keeps its draft.
OnboardFails ==
    /\ clerk.at \in {"create", "assign", "storeProduct"}
    /\ Rests
    /\ Fault /\ UNCHANGED exceptClerk

-----------------------------------------------------------------------------
(* refreshStatus: the review as it is now, then the flags. *)

Refresh(g) ==
    /\ Clerk("idle")
    /\ Open(g) /\ cred[g].sid # None
    /\ clerk' = [NoClerk EXCEPT !.at = "mirror", !.prog = g, !.sid = cred[g].sid,
                                !.status = product[cred[g].sid]]
    /\ NoFault /\ UNCHANGED exceptClerk

Mirror ==
    /\ Clerk("mirror")
    /\ cred' = [cred EXCEPT ![clerk.prog] = [status |-> clerk.status, sid |-> clerk.sid]]
    /\ IF clerk.status = "twilio-approved" THEN Serves("flag") ELSE Rests
    /\ NoFault /\ UNCHANGED <<product, assigned, line>>

\* Mutant: every number is flagged, assigned or not.
FlagAll ==
    /\ Clerk("flag")
    /\ line' = [n \in Numbers |->
                  IF line[n].listed
                  THEN [line[n] EXCEPT !.registered[clerk.prog] = TRUE] ELSE line[n]]
    /\ Rests
    /\ NoFault /\ UNCHANGED <<product, assigned, cred>>

Flag ==
    /\ Clerk("flag")
    /\ line' = [n \in Numbers |->
                  IF line[n].listed /\ line[n].sid[clerk.prog] # None
                  THEN [line[n] EXCEPT !.registered[clerk.prog] = TRUE] ELSE line[n]]
    /\ Rests
    /\ NoFault /\ UNCHANGED <<product, assigned, cred>>

-----------------------------------------------------------------------------
(* Numbers come and go. *)

\* purchaseUSPhoneNumber and the row.
BuyNumber(n) ==
    /\ Clerk("idle") /\ ~line[n].held
    /\ line' = [line EXCEPT ![n].held = TRUE, ![n].listed = TRUE]
    /\ NoFault /\ UNCHANGED <<product, assigned, cred, clerk>>

\* transferNumberToSubAccount assigns a number that has no row yet.
TransferNumber(n) ==
    /\ Clerk("idle") /\ ~line[n].held
    /\ line' = [line EXCEPT ![n].held = TRUE]
    /\ clerk' = [NoClerk EXCEPT !.at = "join", !.prog = "vi", !.number = n]
    /\ NoFault /\ UNCHANGED <<product, assigned, cred>>

\* assignNumber, for the one programme and the other; Twilio's errors are logged.
Join ==
    LET g == clerk.prog
        p == cred[g].sid
        n == clerk.number IN
    /\ Clerk("join")
    /\ IF Open(g) /\ p # None
       THEN \/ /\ assigned' = [assigned EXCEPT ![p] = @ \cup {n}]
               /\ line' = IF line[n].listed
                          THEN [line EXCEPT ![n].sid[g] = p,
                                            ![n].registered[g] = cred[g].status = "twilio-approved"]
                          ELSE line
            \/ UNCHANGED <<assigned, line>>
       ELSE UNCHANGED <<assigned, line>>
    /\ IF line[n].listed THEN Rests
       ELSE IF g = "vi" THEN clerk' = [clerk EXCEPT !.prog = "cnam"] ELSE Serves("list")
    /\ NoFault /\ UNCHANGED <<product, cred>>

ListNumber ==
    /\ Clerk("list")
    /\ line' = [line EXCEPT ![clerk.number].listed = TRUE]
    /\ Rests
    /\ NoFault /\ UNCHANGED <<product, assigned, cred>>

\* backfillAssignments: a number without an assignment, when approved.
Backfill(g, n) ==
    /\ Clerk("idle") /\ Open(g) /\ cred[g].status = "twilio-approved" /\ cred[g].sid # None
    /\ line[n].listed /\ line[n].sid[g] = None
    /\ clerk' = [NoClerk EXCEPT !.at = "join", !.prog = g, !.number = n]
    /\ NoFault /\ UNCHANGED exceptClerk

\* releaseNumber: unassignNumber for each programme, whose errors are logged,
\* then the number and its row.
Leaves(n, g) == IF line[n].sid[g] # None /\ Open(g) /\ cred[g].sid # None
                THEN cred[g].sid ELSE None
ReleaseNumber(n) ==
    /\ Clerk("idle") /\ line[n].listed
    /\ \/ UNCHANGED assigned
       \/ assigned' = [p \in Products |->
                         IF \E g \in Programmes : Leaves(n, g) = p THEN assigned[p] \ {n}
                         ELSE assigned[p]]
    /\ line' = [line EXCEPT ![n] = Unenrolled]
    /\ NoFault /\ UNCHANGED <<product, cred, clerk>>

CrashClerk ==
    /\ ~Clerk("idle")
    /\ Rests
    /\ Fault /\ UNCHANGED exceptClerk

-----------------------------------------------------------------------------

EnrolProceeds ==
    \/ Seed \/ CreateProduct \/ AssignNumber \/ EnterProduct \/ StoreProduct \/ OnboardFails
    \/ Mirror \/ Flag \/ Join \/ ListNumber

\* What an enrolment reads of the registration may change at any time.
RegistrationMoves ==
    /\ \/ reg' = [reg EXCEPT !.approved = ~@] /\ UNCHANGED profile
       \/ /\ reg' = [reg EXCEPT !.profileSid = IF @ = None THEN New(Profiles) ELSE None]
          /\ UNCHANGED profile
       \/ \E status \in {"none", "twilio-approved"} :
            profile' = [s \in Profiles |-> status] /\ UNCHANGED reg
    /\ UNCHANGED <<brand, campaign, faults, enrolVars>>

EnrolNext ==
    \/ UNCHANGED <<atTwilio, reg>> /\
       \/ ProductReviewed
       \/ \E g \in Programmes : Onboard(g) \/ Refresh(g) \/ \E n \in Numbers : Backfill(g, n)
       \/ \E n \in Numbers : BuyNumber(n) \/ TransferNumber(n) \/ ReleaseNumber(n)
       \/ EnrolProceeds
       \/ CrashClerk
    \/ RegistrationMoves
=============================================================================
