-------------------------- MODULE RegistrationProofs --------------------------
(***************************************************************************)
(* The promises of the registration and of the enrolments for any number of *)
(* profiles, brands, campaigns, products and phone numbers.                  *)
(***************************************************************************)
EXTENDS RegistrationProperties, TLAPS

USE A2PAssumption, EnrolAssumption

Approved == "twilio-approved"

-----------------------------------------------------------------------------
(* The enrolments: the inductive invariant. *)

Onboarding == {"seed", "create", "assign", "storeProduct"}
ClerkType == [at : Onboarding \cup {"idle", "mirror", "flag", "join", "list"},
              prog : Programmes, sid : Products \cup {None}, status : EnrolStatus,
              todo : SUBSET Numbers, number : Numbers \cup {None}]
LineType == [held : BOOLEAN, listed : BOOLEAN, sid : [Programmes -> Products \cup {None}],
             registered : [Programmes -> BOOLEAN]]
EnrolTypes == EnrolTypeOK /\ line \in [Numbers -> LineType] /\ clerk \in ClerkType

\* What the row of a programme says is approved is approved.
CredInv == \A g \in Programmes : cred[g].status = Approved =>
    cred[g].sid \in Products /\ product[cred[g].sid] = Approved

\* A number's row names the product of its programme, where it is assigned.
LineInv == \A n \in Numbers :
    /\ line[n].listed => line[n].held
    /\ \A g \in Programmes :
         /\ line[n].sid[g] # None => line[n].listed /\ n \in assigned[line[n].sid[g]]
         /\ cred[g].sid # None => line[n].sid[g] \in {None, cred[g].sid}
         /\ line[n].registered[g] => line[n].sid[g] # None /\ cred[g].status = Approved

\* While it onboards, the programme has no product but that in the making,
\* which every number gets; while it refreshes, what it has read is so.
ClerkInv ==
    /\ clerk.at \in Onboarding => cred[clerk.prog].status # Approved
    /\ clerk.at \in Onboarding \ {"seed"} => cred[clerk.prog].sid = None
    /\ clerk.at \in {"seed", "create"} =>
         FreshProducts # {} /\ \A n \in Numbers : line[n].held => n \in clerk.todo
    /\ clerk.at \in {"assign", "storeProduct"} =>
         /\ clerk.sid \in Products
         /\ \A n \in Numbers \ clerk.todo : line[n].sid[clerk.prog] \in {None, clerk.sid}
    /\ clerk.at = "assign" => product[clerk.sid] = "draft"
    /\ clerk.at = "storeProduct" => clerk.todo = {}
    /\ clerk.at \in {"mirror", "flag"} =>
         clerk.sid \in Products /\ clerk.sid = cred[clerk.prog].sid
    /\ clerk.at = "mirror" =>
         /\ clerk.status = Approved => product[clerk.sid] = Approved
         /\ cred[clerk.prog].status = Approved => clerk.status = Approved
    /\ clerk.at = "flag" => cred[clerk.prog].status = Approved
    /\ clerk.at \in {"join", "list"} => clerk.number \in Numbers /\ line[clerk.number].held

EnrolInv == EnrolTypes /\ CredInv /\ LineInv /\ ClerkInv

-----------------------------------------------------------------------------
(* The steps of an enrolment. *)

LEMMA EnrolInvInit == EnrolInit => EnrolInv
  BY DEF EnrolInit, EnrolInv, EnrolTypes, EnrolTypeOK, LineType, ClerkType, NoClerk, Unenrolled, CredInv,
         LineInv, ClerkInv, Onboarding, EnrolStatus, Programmes, Approved

LEMMA FreshIsProduct ==
    FreshProducts # {} => New(FreshProducts) \in Products
                          /\ product[New(FreshProducts)] = "not-started"
  BY DEF FreshProducts, New

\* A request ends, in whatever way: the rest does not depend on it.
LEMMA RestKeeps == ASSUME EnrolInv, Rests, UNCHANGED exceptClerk PROVE EnrolInv'
<1>1. EnrolTypes'
  BY DEF Rests, exceptClerk, EnrolInv, EnrolTypes, EnrolTypeOK, LineType, ClerkType, NoClerk, EnrolStatus,
         Programmes
<1>2. CredInv' /\ LineInv'  BY DEF exceptClerk, EnrolInv, CredInv, LineInv
<1>3. ClerkInv'  BY DEF Rests, NoClerk, ClerkInv, Onboarding
<1> QED BY <1>1, <1>2, <1>3 DEF EnrolInv

\* A product is reviewed: none that is approved, fresh or a draft changes.
LEMMA ReviewKeeps == ASSUME EnrolInv, ProductReviewed PROVE EnrolInv'
<1>1. PICK p \in Products, to \in {Approved, "twilio-rejected"} :
          product[p] = "pending-review" /\ product' = [product EXCEPT ![p] = to]
  BY DEF ProductReviewed, Approved
<1>2. UNCHANGED <<assigned, cred, line, clerk>>  BY DEF ProductReviewed
<1>3. EnrolTypes'
  BY <1>1, <1>2 DEF EnrolInv, EnrolTypes, EnrolTypeOK, LineType, EnrolStatus, Approved
<1>4. \A q \in Products : product[q] \in {Approved, "draft", "not-started"} =>
          product'[q] = product[q]
  BY <1>1 DEF EnrolInv, EnrolTypes, EnrolTypeOK, LineType, Approved
<1>5. CredInv'  BY <1>2, <1>4 DEF EnrolInv, CredInv
<1>6. LineInv'  BY <1>2 DEF EnrolInv, LineInv
<1>7. FreshProducts # {} => FreshProducts' # {}  BY <1>4 DEF FreshProducts
<1>8. ClerkInv'  BY <1>2, <1>4, <1>7 DEF EnrolInv, ClerkInv
<1> QED BY <1>3, <1>5, <1>6, <1>8 DEF EnrolInv

\* A request begins.
LEMMA BeginKeeps ==
    ASSUME EnrolInv, UNCHANGED exceptClerk, clerk' \in ClerkType, ClerkInv'
    PROVE  EnrolInv'
<1>1. EnrolTypes'
  BY DEF exceptClerk, EnrolInv, EnrolTypes, EnrolTypeOK, LineType, ClerkType
<1>2. CredInv' /\ LineInv'  BY DEF exceptClerk, EnrolInv, CredInv, LineInv
<1> QED BY <1>1, <1>2 DEF EnrolInv

LEMMA OnboardKeeps == ASSUME EnrolInv, NEW g \in Programmes, Onboard(g) PROVE EnrolInv'
<1>1. /\ cred[g].status # Approved /\ FreshProducts # {} /\ UNCHANGED exceptClerk
      /\ clerk' = [NoClerk EXCEPT !.at = "seed", !.prog = g,
                                  !.todo = {n \in Numbers : line[n].held}]
  BY DEF Onboard, Approved
<1>2. clerk' \in ClerkType /\ clerk'.at = "seed" /\ clerk'.prog = g
      /\ clerk'.todo = {n \in Numbers : line[n].held}
  BY <1>1 DEF ClerkType, NoClerk, Onboarding, EnrolStatus, Programmes
<1>3. FreshProducts' # {}  BY <1>1 DEF exceptClerk, FreshProducts
<1>4. ClerkInv'  BY <1>1, <1>2, <1>3 DEF ClerkInv, Onboarding, exceptClerk
<1> QED BY <1>1, <1>2, <1>4, BeginKeeps

LEMMA RefreshKeeps == ASSUME EnrolInv, NEW g \in Programmes, Refresh(g) PROVE EnrolInv'
<1>1. /\ cred[g].sid # None /\ UNCHANGED exceptClerk
      /\ clerk' = [NoClerk EXCEPT !.at = "mirror", !.prog = g, !.sid = cred[g].sid,
                                  !.status = product[cred[g].sid]]
  BY DEF Refresh
<1>2. cred[g].sid \in Products /\ product[cred[g].sid] \in EnrolStatus
  BY <1>1 DEF EnrolInv, EnrolTypes, EnrolTypeOK, LineType
<1>3. /\ clerk' \in ClerkType /\ clerk'.at = "mirror" /\ clerk'.prog = g
      /\ clerk'.sid = cred[g].sid /\ clerk'.status = product[cred[g].sid]
  BY <1>1, <1>2 DEF ClerkType, NoClerk
<1>4. ClerkInv'
  BY <1>1, <1>2, <1>3 DEF EnrolInv, CredInv, ClerkInv, Onboarding, exceptClerk
<1> QED BY <1>1, <1>3, <1>4, BeginKeeps

LEMMA BackfillKeeps ==
    ASSUME EnrolInv, NEW g \in Programmes, NEW n \in Numbers, Backfill(g, n)
    PROVE  EnrolInv'
<1>1. UNCHANGED exceptClerk /\ clerk' = [NoClerk EXCEPT !.at = "join", !.prog = g, !.number = n]
  BY DEF Backfill
<1>2. clerk' \in ClerkType /\ clerk'.at = "join" /\ clerk'.number = n
  BY <1>1 DEF ClerkType, NoClerk, EnrolStatus, Programmes
<1>3. line[n].held  BY DEF Backfill, EnrolInv, LineInv
<1>4. ClerkInv'  BY <1>1, <1>2, <1>3 DEF ClerkInv, Onboarding, exceptClerk
<1> QED BY <1>1, <1>2, <1>4, BeginKeeps

\* Onboarding.
LEMMA SeedKeeps == ASSUME EnrolInv, Seed PROVE EnrolInv'
<1> DEFINE g == clerk.prog
<1>1. PICK h \in Programmes : h = clerk.prog  BY DEF EnrolInv, EnrolTypes, EnrolTypeOK, LineType
<1>2. /\ clerk.at = "seed" /\ UNCHANGED <<product, assigned, line>>
      /\ cred' = [cred EXCEPT ![h] = [status |-> "draft", sid |-> None]]
      /\ clerk' = [clerk EXCEPT !.at = "create"]
  BY <1>1 DEF Seed, Clerk, Serves
<1>3. /\ clerk' \in ClerkType /\ clerk'.at = "create" /\ clerk'.prog = h
      /\ clerk'.todo = clerk.todo /\ clerk'.sid = clerk.sid
  BY <1>1, <1>2 DEF EnrolInv, EnrolTypes, ClerkType, Onboarding
<1>4. EnrolTypes'
  BY <1>2, <1>3 DEF EnrolInv, EnrolTypes, EnrolTypeOK, LineType, ClerkType, EnrolStatus
<1>5. cred'[h] = [status |-> "draft", sid |-> None]
      /\ \A k \in Programmes : k # h => cred'[k] = cred[k]
  BY <1>2 DEF EnrolInv, EnrolTypes, EnrolTypeOK, LineType
<1>6. cred[h].status # Approved  BY <1>1, <1>2 DEF EnrolInv, ClerkInv, Onboarding
<1>7. CredInv'  BY <1>2, <1>5 DEF EnrolInv, CredInv, Approved
<1>8. LineInv'  BY <1>2, <1>5, <1>6 DEF EnrolInv, LineInv
<1>9. ClerkInv'
  BY <1>2, <1>3, <1>5 DEF EnrolInv, ClerkInv, Onboarding, FreshProducts, Approved
<1> QED BY <1>4, <1>7, <1>8, <1>9 DEF EnrolInv

LEMMA CreateKeeps == ASSUME EnrolInv, CreateProduct PROVE EnrolInv'
<1>1. PICK p \in Products : p = New(FreshProducts) /\ product[p] = "not-started"
  BY FreshIsProduct DEF CreateProduct, Clerk, EnrolInv, ClerkInv
<1>2. /\ clerk.at = "create" /\ UNCHANGED <<assigned, cred, line>>
      /\ product' = [product EXCEPT ![p] = "draft"]
      /\ clerk' = [clerk EXCEPT !.at = "assign", !.sid = p]
  BY <1>1 DEF CreateProduct, Clerk
<1>3. /\ clerk' \in ClerkType /\ clerk'.at = "assign" /\ clerk'.prog = clerk.prog
      /\ clerk'.todo = clerk.todo /\ clerk'.sid = p
  BY <1>2 DEF EnrolInv, EnrolTypes, ClerkType, Onboarding
<1>4. EnrolTypes'
  BY <1>2, <1>3 DEF EnrolInv, EnrolTypes, EnrolTypeOK, LineType, ClerkType, EnrolStatus
<1>5. CredInv'  BY <1>1, <1>2 DEF EnrolInv, EnrolTypes, EnrolTypeOK, LineType, CredInv, Approved
<1>6. LineInv'  BY <1>2 DEF EnrolInv, LineInv
<1>7. \A n \in Numbers : ~line[n].held => line[n].sid[clerk.prog] = None
  BY DEF EnrolInv, LineInv, EnrolTypes, EnrolTypeOK, LineType
<1>8. product'[p] = "draft" /\ \A n \in Numbers : line[n].held => n \in clerk.todo
  BY <1>2 DEF EnrolInv, EnrolTypes, EnrolTypeOK, LineType, ClerkInv
<1>9. ClerkInv'
  BY <1>2, <1>3, <1>7, <1>8 DEF EnrolInv, ClerkInv, Onboarding
<1> QED BY <1>4, <1>5, <1>6, <1>9 DEF EnrolInv

LEMMA AssignKeeps == ASSUME EnrolInv, AssignNumber PROVE EnrolInv'
<1>0. PICK h \in Programmes, p \in Products : h = clerk.prog /\ p = clerk.sid
  BY DEF EnrolInv, EnrolTypes, EnrolTypeOK, LineType, ClerkInv, AssignNumber, Clerk
<1>1. PICK n \in clerk.todo :
        /\ assigned' = [assigned EXCEPT ![p] = @ \cup {n}]
        /\ line' = IF line[n].listed THEN [line EXCEPT ![n].sid[h] = p] ELSE line
        /\ clerk' = [clerk EXCEPT !.todo = @ \ {n}]
  BY <1>0 DEF AssignNumber
<1>2. clerk.at = "assign" /\ UNCHANGED <<product, cred>> /\ n \in Numbers
  BY DEF AssignNumber, Clerk, EnrolInv, EnrolTypes, EnrolTypeOK, LineType
<1>3. /\ clerk' \in ClerkType /\ clerk'.at = "assign" /\ clerk'.prog = h
      /\ clerk'.todo = clerk.todo \ {n} /\ clerk'.sid = p
  BY <1>0, <1>1, <1>2 DEF EnrolInv, EnrolTypes, ClerkType
<1>4. \A m \in Numbers :
        /\ line'[m].listed = line[m].listed /\ line'[m].held = line[m].held
        /\ line'[m].registered = line[m].registered
        /\ \A k \in Programmes : line'[m].sid[k] =
              IF m = n /\ k = h /\ line[m].listed THEN p ELSE line[m].sid[k]
  BY <1>0, <1>1, <1>2 DEF EnrolInv, EnrolTypes, EnrolTypeOK, LineType
<1>5. \A q \in Products, m \in Numbers : m \in assigned'[q] <=> m \in assigned[q] \/ (q = p /\ m = n)
  BY <1>1 DEF EnrolInv, EnrolTypes, EnrolTypeOK, LineType
<1>6. EnrolTypes'
  <2>1. line' \in [Numbers -> LineType]
    BY <1>0, <1>1, <1>2 DEF EnrolInv, EnrolTypes, EnrolTypeOK, LineType
  <2>2. assigned' \in [Products -> SUBSET Numbers]
    BY <1>1, <1>2 DEF EnrolInv, EnrolTypes, EnrolTypeOK, LineType
  <2> QED BY <1>2, <1>3, <2>1, <2>2 DEF EnrolInv, EnrolTypes, EnrolTypeOK, LineType, ClerkType
<1>7. cred[h].status # Approved /\ cred[h].sid = None
  BY <1>0, <1>2 DEF EnrolInv, ClerkInv, Onboarding
<1>8. CredInv'  BY <1>2 DEF EnrolInv, CredInv
<1>9. LineInv'
  <2> SUFFICES ASSUME NEW m \in Numbers, NEW k \in Programmes
               PROVE  /\ line'[m].listed => line'[m].held
                      /\ line'[m].sid[k] # None => line'[m].listed /\ m \in assigned'[line'[m].sid[k]]
                      /\ cred'[k].sid # None => line'[m].sid[k] \in {None, cred'[k].sid}
                      /\ line'[m].registered[k] => line'[m].sid[k] # None /\ cred'[k].status = Approved
    BY DEF LineInv, Programmes
  <2>1. line[m].sid[k] \in Products \cup {None}  BY DEF EnrolInv, EnrolTypes, EnrolTypeOK, LineType
  <2>2. /\ line[m].listed => line[m].held
        /\ line[m].sid[k] # None => line[m].listed /\ m \in assigned[line[m].sid[k]]
        /\ cred[k].sid # None => line[m].sid[k] \in {None, cred[k].sid}
        /\ line[m].registered[k] => line[m].sid[k] # None /\ cred[k].status = Approved
    BY DEF EnrolInv, LineInv
  <2> QED BY <1>2, <1>4, <1>5, <1>7, <2>1, <2>2
<1>10. ClerkInv'
  <2>1. ASSUME NEW m \in Numbers \ clerk'.todo PROVE line'[m].sid[h] \in {None, p}
    <3>1. CASE m = n  BY <1>2, <1>4, <3>1 DEF EnrolInv, LineInv
    <3>2. CASE m # n
      <4>1. line[m].sid[h] \in {None, p}  BY <1>0, <1>2, <1>3, <3>2 DEF EnrolInv, ClerkInv
      <4> QED BY <1>4, <3>2, <4>1
    <3> QED BY <3>1, <3>2
  <2>2. product[p] = "draft"  BY <1>0, <1>2 DEF EnrolInv, ClerkInv
  <2> QED BY <1>2, <1>3, <1>7, <2>1, <2>2 DEF ClerkInv, Onboarding
<1> QED BY <1>6, <1>8, <1>9, <1>10 DEF EnrolInv

LEMMA EnterKeeps == ASSUME EnrolInv, EnterProduct PROVE EnrolInv'
<1>1. PICK p \in Products : p = clerk.sid /\ product[p] = "draft"
  BY DEF EnrolInv, ClerkInv, EnterProduct, Clerk
<1>2. /\ clerk.at = "assign" /\ clerk.todo = {} /\ UNCHANGED <<assigned, cred, line>>
      /\ product' = [product EXCEPT ![p] = "pending-review"]
      /\ clerk' = [clerk EXCEPT !.at = "storeProduct"]
  BY <1>1 DEF EnterProduct, Clerk, Serves
<1>3. /\ clerk' \in ClerkType /\ clerk'.at = "storeProduct" /\ clerk'.prog = clerk.prog
      /\ clerk'.todo = {} /\ clerk'.sid = clerk.sid
  BY <1>2 DEF EnrolInv, EnrolTypes, ClerkType, Onboarding
<1>4. EnrolTypes'
  BY <1>2, <1>3 DEF EnrolInv, EnrolTypes, EnrolTypeOK, LineType, ClerkType, EnrolStatus
<1>5. CredInv'  BY <1>1, <1>2 DEF EnrolInv, EnrolTypes, EnrolTypeOK, LineType, CredInv, Approved
<1>6. LineInv'  BY <1>2 DEF EnrolInv, LineInv
<1>7. ClerkInv'  BY <1>2, <1>3 DEF EnrolInv, ClerkInv, Onboarding
<1> QED BY <1>4, <1>5, <1>6, <1>7 DEF EnrolInv

LEMMA StoreKeeps == ASSUME EnrolInv, StoreProduct PROVE EnrolInv'
<1>1. PICK h \in Programmes, p \in Products : h = clerk.prog /\ p = clerk.sid
  BY DEF EnrolInv, EnrolTypes, EnrolTypeOK, LineType, ClerkInv, StoreProduct, Clerk
<1>2. /\ clerk.at = "storeProduct" /\ UNCHANGED <<product, assigned, line>>
      /\ cred' = [cred EXCEPT ![h] = [status |-> "pending-review", sid |-> p]]
      /\ clerk' = NoClerk
  BY <1>1 DEF StoreProduct, Clerk, Rests
<1>3. cred'[h] = [status |-> "pending-review", sid |-> p]
      /\ \A k \in Programmes : k # h => cred'[k] = cred[k]
  BY <1>2 DEF EnrolInv, EnrolTypes, EnrolTypeOK, LineType
<1>4. EnrolTypes'
  BY <1>2 DEF EnrolInv, EnrolTypes, EnrolTypeOK, LineType, ClerkType, EnrolStatus, NoClerk, Programmes
<1>5. cred[h].status # Approved /\ \A n \in Numbers : line[n].sid[h] \in {None, p}
  BY <1>1, <1>2 DEF EnrolInv, ClerkInv, Onboarding
<1>6. CredInv'  BY <1>2, <1>3 DEF EnrolInv, CredInv, Approved
<1>7. LineInv'  BY <1>2, <1>3, <1>5 DEF EnrolInv, LineInv
<1>8. ClerkInv'  BY <1>2 DEF ClerkInv, NoClerk, Onboarding
<1> QED BY <1>4, <1>6, <1>7, <1>8 DEF EnrolInv

\* The status is read again.
LEMMA MirrorKeeps == ASSUME EnrolInv, Mirror PROVE EnrolInv'
<1>1. PICK h \in Programmes, p \in Products : h = clerk.prog /\ p = clerk.sid
  BY DEF EnrolInv, EnrolTypes, EnrolTypeOK, LineType, ClerkInv, Mirror, Clerk
<1>2. /\ clerk.at = "mirror" /\ UNCHANGED <<product, assigned, line>>
      /\ cred' = [cred EXCEPT ![h] = [status |-> clerk.status, sid |-> p]]
      /\ clerk' = IF clerk.status = Approved THEN [clerk EXCEPT !.at = "flag"] ELSE NoClerk
  BY <1>1 DEF Mirror, Clerk, Serves, Rests, Approved
<1>3. cred'[h] = [status |-> clerk.status, sid |-> p] /\ clerk.status \in EnrolStatus
      /\ \A k \in Programmes : k # h => cred'[k] = cred[k]
  BY <1>2 DEF EnrolInv, EnrolTypes, EnrolTypeOK, LineType, ClerkType
<1>4. EnrolTypes'
  BY <1>2, <1>3 DEF EnrolInv, EnrolTypes, EnrolTypeOK, LineType, ClerkType, EnrolStatus, NoClerk, Programmes
<1>5. /\ cred[h].sid = p
      /\ clerk.status = Approved => product[p] = Approved
      /\ cred[h].status = Approved => clerk.status = Approved
  BY <1>1, <1>2 DEF EnrolInv, ClerkInv
<1>6. CredInv'  BY <1>2, <1>3, <1>5 DEF EnrolInv, CredInv
<1>7. LineInv'  BY <1>2, <1>3, <1>5 DEF EnrolInv, LineInv
<1>8. ClerkInv'
  <2>1. CASE clerk.status = Approved
    <3>1. clerk'.at = "flag" /\ clerk'.prog = h /\ clerk'.sid = p
      BY <1>1, <1>2, <2>1 DEF EnrolInv, EnrolTypes, ClerkType
    <3> QED BY <1>3, <2>1, <3>1 DEF ClerkInv, Onboarding
  <2>2. CASE clerk.status # Approved  BY <1>2, <2>2 DEF ClerkInv, NoClerk, Onboarding
  <2> QED BY <2>1, <2>2
<1> QED BY <1>4, <1>6, <1>7, <1>8 DEF EnrolInv

LEMMA FlagKeeps == ASSUME EnrolInv, Flag PROVE EnrolInv'
<1>1. PICK h \in Programmes : h = clerk.prog  BY DEF EnrolInv, EnrolTypes, EnrolTypeOK, LineType
<1>2. /\ clerk.at = "flag" /\ UNCHANGED <<product, assigned, cred>> /\ clerk' = NoClerk
      /\ line' = [n \in Numbers |->
                    IF line[n].listed /\ line[n].sid[h] # None
                    THEN [line[n] EXCEPT !.registered[h] = TRUE] ELSE line[n]]
  BY <1>1 DEF Flag, Clerk, Rests
<1>3. EnrolTypes'
  <2>1. line' \in [Numbers -> LineType]
    BY <1>2 DEF EnrolInv, EnrolTypes, EnrolTypeOK, LineType
  <2> QED BY <1>2, <2>1 DEF EnrolInv, EnrolTypes, EnrolTypeOK, LineType, ClerkType, NoClerk, EnrolStatus,
             Programmes
<1>4. \A n \in Numbers :
        /\ line'[n].listed = line[n].listed /\ line'[n].held = line[n].held
        /\ line'[n].sid = line[n].sid
        /\ \A k \in Programmes : line'[n].registered[k] =>
              line[n].registered[k] \/ (k = h /\ line[n].sid[h] # None)
  BY <1>2 DEF EnrolInv, EnrolTypes, EnrolTypeOK, LineType
<1>5. cred[h].status = Approved  BY <1>1, <1>2 DEF EnrolInv, ClerkInv
<1>6. CredInv'  BY <1>2 DEF EnrolInv, CredInv
<1>7. LineInv'  BY <1>2, <1>4, <1>5 DEF EnrolInv, LineInv
<1>8. ClerkInv'  BY <1>2 DEF ClerkInv, NoClerk, Onboarding
<1> QED BY <1>3, <1>6, <1>7, <1>8 DEF EnrolInv

\* Numbers come and go.
LEMMA BuyKeeps == ASSUME EnrolInv, NEW n \in Numbers, BuyNumber(n) PROVE EnrolInv'
<1>1. /\ clerk.at = "idle" /\ ~line[n].held /\ UNCHANGED <<product, assigned, cred, clerk>>
      /\ line' = [line EXCEPT ![n].held = TRUE, ![n].listed = TRUE]
  BY DEF BuyNumber, Clerk
<1>2. EnrolTypes'  BY <1>1 DEF EnrolInv, EnrolTypes, EnrolTypeOK, LineType
<1>3. \A m \in Numbers :
        /\ line'[m].sid = line[m].sid /\ line'[m].registered = line[m].registered
        /\ line[m].listed => line'[m].listed
  BY <1>1 DEF EnrolInv, EnrolTypes, EnrolTypeOK, LineType
<1>4. CredInv'  BY <1>1 DEF EnrolInv, CredInv
<1>5. LineInv'
  <2>1. ASSUME NEW m \in Numbers, line'[m].listed PROVE line'[m].held
    <3>1. line'[n].held  BY <1>1 DEF EnrolInv, EnrolTypes, LineType
    <3>2. m # n => line'[m] = line[m]  BY <1>1 DEF EnrolInv, EnrolTypes
    <3> QED BY <2>1, <3>1, <3>2 DEF EnrolInv, LineInv
  <2>2. \A m \in Numbers, g \in Programmes :
          /\ line[m].sid[g] # None => line[m].listed /\ m \in assigned[line[m].sid[g]]
          /\ cred[g].sid # None => line[m].sid[g] \in {None, cred[g].sid}
          /\ line[m].registered[g] => line[m].sid[g] # None /\ cred[g].status = Approved
    BY DEF EnrolInv, LineInv
  <2>3. UNCHANGED <<assigned, cred>>  BY <1>1
  <2> QED BY <1>3, <2>1, <2>2, <2>3 DEF LineInv
<1>6. ClerkInv'  BY <1>1 DEF ClerkInv, Onboarding
<1> QED BY <1>2, <1>4, <1>5, <1>6 DEF EnrolInv

LEMMA TransferKeeps == ASSUME EnrolInv, NEW n \in Numbers, TransferNumber(n) PROVE EnrolInv'
<1>1. /\ clerk.at = "idle" /\ UNCHANGED <<product, assigned, cred>>
      /\ line' = [line EXCEPT ![n].held = TRUE]
      /\ clerk' = [NoClerk EXCEPT !.at = "join", !.prog = "vi", !.number = n]
  BY DEF TransferNumber, Clerk
<1>2. clerk' \in ClerkType /\ clerk'.at = "join" /\ clerk'.number = n
  BY <1>1 DEF ClerkType, NoClerk, EnrolStatus, Programmes
<1>3. EnrolTypes'
  <2>1. line' \in [Numbers -> LineType]  BY <1>1 DEF EnrolInv, EnrolTypes, LineType
  <2> QED BY <1>1, <1>2, <2>1 DEF EnrolInv, EnrolTypes, EnrolTypeOK, LineType, ClerkType
<1>4. \A m \in Numbers :
        /\ line'[m].sid = line[m].sid /\ line'[m].registered = line[m].registered
        /\ line'[m].listed = line[m].listed /\ (line[m].held => line'[m].held)
  BY <1>1 DEF EnrolInv, EnrolTypes, EnrolTypeOK, LineType
<1>5. CredInv'  BY <1>1 DEF EnrolInv, CredInv
<1>6. LineInv'  BY <1>1, <1>4 DEF EnrolInv, LineInv
<1>7. line'[n].held  BY <1>1 DEF EnrolInv, EnrolTypes, LineType
<1>8. ClerkInv'  BY <1>2, <1>7 DEF ClerkInv, Onboarding
<1> QED BY <1>3, <1>5, <1>6, <1>8 DEF EnrolInv

LEMMA JoinKeeps == ASSUME EnrolInv, Join PROVE EnrolInv'
<1>1. PICK h \in Programmes, n \in Numbers : h = clerk.prog /\ n = clerk.number
  BY DEF EnrolInv, EnrolTypes, EnrolTypeOK, LineType, ClerkInv, Join, Clerk
<1>2. clerk.at = "join" /\ UNCHANGED <<product, cred>>  BY DEF Join, Clerk
<1>3. clerk' \in ClerkType /\ clerk'.at \in {"idle", "join", "list"}
      /\ (clerk'.at \in {"join", "list"} => clerk'.number = n)
  BY <1>1, <1>2 DEF Join, Rests, Serves, NoClerk, EnrolInv, EnrolTypes, ClerkType, Programmes,
                    EnrolStatus
<1>4. CredInv'  BY <1>2 DEF EnrolInv, CredInv
<1>5. line[n].held  BY <1>1, <1>2 DEF EnrolInv, ClerkInv
<1>6. CASE UNCHANGED <<assigned, line>>
  <2>3. ClerkInv'  BY <1>3, <1>5, <1>6 DEF ClerkInv, Onboarding
  <2>1. EnrolTypes'  BY <1>2, <1>3, <1>6 DEF EnrolInv, EnrolTypes, EnrolTypeOK, LineType, ClerkType
  <2>2. LineInv'  BY <1>2, <1>6 DEF EnrolInv, LineInv
  <2> QED BY <1>4, <2>1, <2>2, <2>3 DEF EnrolInv
<1>7. CASE ~UNCHANGED <<assigned, line>>
  <2>1. PICK p \in Products, ok \in BOOLEAN :
           /\ p = cred[h].sid /\ ok = (cred[h].status = Approved)
           /\ assigned' = [assigned EXCEPT ![p] = @ \cup {n}]
           /\ line' = IF line[n].listed
                      THEN [line EXCEPT ![n].sid[h] = p, ![n].registered[h] = ok] ELSE line
    <3>1. cred[h].sid # None
          /\ assigned' = [assigned EXCEPT ![cred[h].sid] = @ \cup {n}]
          /\ line' = IF line[n].listed
                     THEN [line EXCEPT ![n].sid[h] = cred[h].sid,
                                       ![n].registered[h] = (cred[h].status = Approved)]
                     ELSE line
      BY <1>1, <1>7 DEF Join, Approved
    <3>2. cred[h].sid \in Products /\ (cred[h].status = Approved) \in BOOLEAN
      BY <3>1 DEF EnrolInv, EnrolTypes, EnrolTypeOK, LineType
    <3> QED BY <3>1, <3>2
  <2>2. \A m \in Numbers :
        /\ line'[m].listed = line[m].listed /\ line'[m].held = line[m].held
        /\ \A k \in Programmes :
              /\ line'[m].sid[k] =
                   IF m = n /\ k = h /\ line[m].listed THEN p ELSE line[m].sid[k]
              /\ line'[m].registered[k] =
                   IF m = n /\ k = h /\ line[m].listed THEN ok ELSE line[m].registered[k]
    BY <2>1 DEF EnrolInv, EnrolTypes, EnrolTypeOK, LineType
  <2>3. \A q \in Products, m \in Numbers :
          m \in assigned'[q] <=> m \in assigned[q] \/ (q = p /\ m = n)
    BY <2>1 DEF EnrolInv, EnrolTypes, EnrolTypeOK, LineType
  <2>4. EnrolTypes'
    <3>1. line' \in [Numbers -> LineType]
      <4>1. [line[n] EXCEPT !.sid[h] = p, !.registered[h] = ok] \in LineType
        BY DEF EnrolInv, EnrolTypes, LineType
      <4>2. line' = [line EXCEPT ![n] = [line[n] EXCEPT !.sid[h] = p, !.registered[h] = ok]]
            \/ line' = line
        BY <2>1 DEF EnrolInv, EnrolTypes
      <4> QED BY <4>1, <4>2 DEF EnrolInv, EnrolTypes
    <3>2. assigned' \in [Products -> SUBSET Numbers]
      BY <2>1 DEF EnrolInv, EnrolTypes, EnrolTypeOK, LineType
    <3> QED BY <1>2, <1>3, <3>1, <3>2 DEF EnrolInv, EnrolTypes, EnrolTypeOK, LineType, ClerkType
  <2>5. LineInv'
    <3> SUFFICES ASSUME NEW m \in Numbers, NEW k \in Programmes
                 PROVE  /\ line'[m].listed => line'[m].held
                        /\ line'[m].sid[k] # None =>
                             line'[m].listed /\ m \in assigned'[line'[m].sid[k]]
                        /\ cred'[k].sid # None => line'[m].sid[k] \in {None, cred'[k].sid}
                        /\ line'[m].registered[k] =>
                             line'[m].sid[k] # None /\ cred'[k].status = Approved
      BY DEF LineInv, Programmes
    <3>1. line[m].sid[k] \in Products \cup {None}  BY DEF EnrolInv, EnrolTypes, EnrolTypeOK, LineType
    <3>2. /\ line[m].listed => line[m].held
          /\ line[m].sid[k] # None => line[m].listed /\ m \in assigned[line[m].sid[k]]
          /\ cred[k].sid # None => line[m].sid[k] \in {None, cred[k].sid}
          /\ line[m].registered[k] => line[m].sid[k] # None /\ cred[k].status = Approved
      BY DEF EnrolInv, LineInv
    <3>3. CASE m = n /\ k = h /\ line[m].listed
      <4>1. p = cred[h].sid /\ p # None /\ (ok => cred[h].status = Approved)  BY <2>1
      <4>2. line'[m].sid[k] = p /\ line'[m].registered[k] = ok /\ line'[m].listed /\ line'[m].held
        BY <2>2, <3>2, <3>3
      <4>3. m \in assigned'[p]  BY <2>3, <3>3
      <4> QED BY <1>2, <3>3, <4>1, <4>2, <4>3
    <3>4. CASE ~(m = n /\ k = h /\ line[m].listed)
      <4>1. line'[m].sid[k] = line[m].sid[k] /\ line'[m].registered[k] = line[m].registered[k]
            /\ line'[m].listed = line[m].listed /\ line'[m].held = line[m].held
        BY <2>2, <3>4
      <4>2. line[m].sid[k] # None => m \in assigned'[line[m].sid[k]]
        BY <2>3, <3>1, <3>2
      <4> QED BY <1>2, <3>2, <4>1, <4>2
    <3> QED BY <3>3, <3>4
  <2>6. ClerkInv'  BY <1>3, <1>5, <2>2 DEF ClerkInv, Onboarding
  <2> QED BY <1>4, <2>4, <2>5, <2>6 DEF EnrolInv
<1> QED BY <1>6, <1>7

LEMMA ListKeeps == ASSUME EnrolInv, ListNumber PROVE EnrolInv'
<1>1. PICK n \in Numbers : n = clerk.number /\ line[n].held
  BY DEF EnrolInv, ClerkInv, ListNumber, Clerk
<1>2. /\ UNCHANGED <<product, assigned, cred>> /\ clerk' = NoClerk
      /\ line' = [line EXCEPT ![n].listed = TRUE]
  BY <1>1 DEF ListNumber, Rests
<1>3. EnrolTypes'
  <2>1. line' \in [Numbers -> LineType]  BY <1>2 DEF EnrolInv, EnrolTypes, LineType
  <2> QED BY <1>2, <2>1 DEF EnrolInv, EnrolTypes, EnrolTypeOK, LineType, ClerkType, NoClerk,
             EnrolStatus, Programmes
<1>4. \A m \in Numbers :
        /\ line'[m].sid = line[m].sid /\ line'[m].registered = line[m].registered
        /\ line'[m].held = line[m].held /\ (line[m].listed => line'[m].listed)
        /\ m # n => line'[m].listed = line[m].listed
  BY <1>2 DEF EnrolInv, EnrolTypes, LineType
<1>5. CredInv'  BY <1>2 DEF EnrolInv, CredInv
<1>6. LineInv'  BY <1>1, <1>2, <1>4 DEF EnrolInv, LineInv
<1>7. ClerkInv'  BY <1>2 DEF ClerkInv, NoClerk, Onboarding
<1> QED BY <1>3, <1>5, <1>6, <1>7 DEF EnrolInv

\* The row of a number goes, with whatever Twilio still has of it.
LEMMA ReleaseKeeps == ASSUME EnrolInv, NEW n \in Numbers, ReleaseNumber(n) PROVE EnrolInv'
<1>1. /\ clerk.at = "idle" /\ UNCHANGED <<product, cred, clerk>>
      /\ line' = [line EXCEPT ![n] = Unenrolled]
      /\ assigned' \in [Products -> SUBSET Numbers]
      /\ \A p \in Products, m \in Numbers : m # n /\ m \in assigned[p] => m \in assigned'[p]
  <2>1. CASE UNCHANGED assigned
    BY <2>1 DEF ReleaseNumber, Clerk, EnrolInv, EnrolTypes, EnrolTypeOK
  <2>2. CASE assigned' = [p \in Products |->
                            IF \E g \in Programmes : Leaves(n, g) = p THEN assigned[p] \ {n}
                            ELSE assigned[p]]
    <3>1. assigned' \in [Products -> SUBSET Numbers]
      BY <2>2 DEF EnrolInv, EnrolTypes, EnrolTypeOK
    <3>2. \A p \in Products, m \in Numbers : m # n /\ m \in assigned[p] => m \in assigned'[p]
      BY <2>2
    <3> QED BY <3>1, <3>2 DEF ReleaseNumber, Clerk
  <2> QED BY <2>1, <2>2 DEF ReleaseNumber
<1>2. Unenrolled \in LineType
  BY DEF Unenrolled, LineType
<1>3. EnrolTypes'
  BY <1>1, <1>2 DEF EnrolInv, EnrolTypes, EnrolTypeOK, LineType, ClerkType
<1>4. CredInv'  BY <1>1 DEF EnrolInv, CredInv
<1>5. LineInv'
  <2> SUFFICES ASSUME NEW m \in Numbers, NEW k \in Programmes
               PROVE  /\ line'[m].listed => line'[m].held
                      /\ line'[m].sid[k] # None =>
                           line'[m].listed /\ m \in assigned'[line'[m].sid[k]]
                      /\ cred'[k].sid # None => line'[m].sid[k] \in {None, cred'[k].sid}
                      /\ line'[m].registered[k] =>
                           line'[m].sid[k] # None /\ cred'[k].status = Approved
    BY DEF LineInv, Programmes
  <2>1. CASE m = n
    <3>1. line'[m] = Unenrolled  BY <1>1, <2>1 DEF EnrolInv, EnrolTypes
    <3> QED BY <3>1 DEF Unenrolled
  <2>2. CASE m # n
    <3>1. line'[m] = line[m] /\ line[m].sid[k] \in Products \cup {None}
      BY <1>1, <2>2 DEF EnrolInv, EnrolTypes, LineType
    <3> QED BY <1>1, <2>2, <3>1 DEF EnrolInv, LineInv
  <2> QED BY <2>1, <2>2
<1>6. ClerkInv'  BY <1>1 DEF ClerkInv, Onboarding
<1> QED BY <1>3, <1>4, <1>5, <1>6 DEF EnrolInv

LEMMA EnrolInvNext ==
    EnrolInv /\ [(A2PNext /\ UNCHANGED enrolVars) \/ (EnrolNext /\ UNCHANGED work)]_<<a2pVars, enrolVars>>
    => EnrolInv'
<1> SUFFICES ASSUME EnrolInv, UNCHANGED enrolVars \/ EnrolNext PROVE EnrolInv'
  BY DEF enrolVars
<1>1. CASE UNCHANGED enrolVars
  BY <1>1 DEF enrolVars, EnrolInv, EnrolTypes, EnrolTypeOK, LineType, ClerkType, CredInv,
              LineInv, ClerkInv, FreshProducts
<1>2. CASE EnrolProceeds
  <2>1. CASE OnboardFails  BY <2>1, RestKeeps DEF OnboardFails
  <2> QED BY <1>2, <2>1, SeedKeeps, CreateKeeps, AssignKeeps, EnterKeeps, StoreKeeps, MirrorKeeps,
             FlagKeeps, JoinKeeps, ListKeeps DEF EnrolProceeds
<1>3. CASE CrashClerk  BY <1>3, RestKeeps DEF CrashClerk
<1> QED BY <1>1, <1>2, <1>3, ReviewKeeps, OnboardKeeps, RefreshKeeps, BackfillKeeps, BuyKeeps,
           TransferKeeps, ReleaseKeeps DEF EnrolNext, RegistrationMoves

-----------------------------------------------------------------------------
(* What holds of the enrolments. *)

\* A number flagged as registered has a row with the product, which Twilio has
\* approved and to which it has assigned the number, whatever fails or crashes
\* on the way (src/services/voiceIntegrity.service.ts, cnam.service.ts).
THEOREM FlaggedNumbersApproved == EnrolSpec => []FlaggedIsApproved
<1>1. EnrolInv => FlaggedIsApproved
  <2> SUFFICES ASSUME EnrolInv, NEW n \in Numbers, NEW g \in Programmes, line[n].registered[g]
               PROVE  /\ line[n].sid[g] # None
                      /\ product[line[n].sid[g]] = Approved
                      /\ n \in assigned[line[n].sid[g]]
    BY DEF FlaggedIsApproved, Approved
  <2>1. /\ line[n].sid[g] # None /\ n \in assigned[line[n].sid[g]]
        /\ cred[g].status = Approved
        /\ cred[g].sid # None => line[n].sid[g] \in {None, cred[g].sid}
    BY DEF EnrolInv, LineInv
  <2>2. cred[g].sid \in Products /\ product[cred[g].sid] = Approved
    BY <2>1 DEF EnrolInv, CredInv
  <2> QED BY <2>1, <2>2
<1> QED BY <1>1, EnrolInvInit, EnrolInvNext, PTL DEF EnrolSpec

-----------------------------------------------------------------------------
(* The registration: types, and that a SID is kept only of what was created. *)

\* The SIDs of a row are of resources that Twilio has created.
KnownRow(r) ==
    /\ r.profileSid # None => profile[r.profileSid] # "none"
    /\ r.brandSid # None => brand[r.brandSid].status \in BrandStatus
    /\ r.campaignSid # None => campaign[r.campaignSid].status # "none"

\* What a worker has created, by its stage.
KnownWork(x) ==
    /\ KnownRow(x.reg)
    /\ x.at \in {"idle", "submit", "dropProfile", "clearBrand", "find", "cleanup"} => x.sid = None
    /\ x.at = "nulls" /\ x.sid # None => x.sid \in Profiles /\ profile[x.sid] # "none"
    /\ x.at \in {"enter", "brand", "store"} => x.sid \in Profiles /\ profile[x.sid] # "none"
    /\ x.at = "store" => x.brandSid \in Brands /\ brand[x.brandSid].status \in BrandStatus
    /\ x.at \in {"phase2Store", "restore"} => x.sid \in Campaigns /\ campaign[x.sid].status # "none"

A2PTypes == A2PTypeOK /\ KnownRow(reg) /\ \A w \in Workers : KnownWork(work[w])

TwilioTypes ==
    /\ profile \in [Profiles -> CpStatus \cup Absent]
    /\ brand \in [Brands -> [status : BrandStatus \cup Absent, reason : Reasons]]
    /\ campaign \in [Campaigns -> [status : CampaignStatus \cup Absent, reason : Reasons]]

\* A resource that was created is not forgotten.
Grows ==
    /\ \A s \in Profiles : profile[s] # "none" => profile'[s] # "none"
    /\ \A s \in Brands : brand[s].status \in BrandStatus => brand'[s].status \in BrandStatus
    /\ \A s \in Campaigns : campaign[s].status # "none" => campaign'[s].status # "none"

LEMMA RestingTyped == Resting \in Work /\ NoRow \in Row /\ KnownWork(Resting)
<1>1. NoRow \in Row  BY DEF NoRow, NoStage, Row, Stage, Retriable
<1>2. Resting \in Work /\ Resting.reg = NoRow /\ Resting.sid = None /\ Resting.at = "idle"
  BY <1>1 DEF Resting, Work
<1> QED BY <1>1, <1>2 DEF KnownWork, KnownRow, NoRow

LEMMA A2PTypesInit == A2PInit => A2PTypes
<1> SUFFICES ASSUME A2PInit PROVE A2PTypes  OBVIOUS
<1>1. A2PTypeOK
  <2>1. TwilioTypes  BY DEF A2PInit, TwilioTypes, Absent, Reasons
  <2>2. work \in [Workers -> Work]  BY RestingTyped DEF A2PInit
  <2>3. reg \in Row  BY RestingTyped DEF A2PInit
  <2>4. faults \in 0..MaxFaults
    <3>1. faults = 0  BY DEF A2PInit
    <3> QED BY <3>1
  <2> QED BY <2>1, <2>2, <2>3, <2>4 DEF A2PTypeOK, TwilioTypes
<1>2. KnownRow(NoRow)  BY DEF KnownRow, NoRow
<1> QED BY <1>1, <1>2, RestingTyped DEF A2PInit, A2PTypes

LEMMA KnownStays ==
    ASSUME A2PTypeOK, Grows, NEW r \in Row, KnownRow(r) PROVE KnownRow(r)'
  BY DEF KnownRow, Grows, Row

\* A worker's locals change beside the resources and the row.
LEMMA WorkerTyped ==
    ASSUME A2PTypes, NEW w \in Workers, NEW x \in Work, work' = [work EXCEPT ![w] = x],
           TwilioTypes', Grows, reg' \in Row, KnownRow(reg)', KnownWork(x)', faults' \in 0..MaxFaults
    PROVE  A2PTypes'
<1>1. A2PTypeOK'  BY DEF A2PTypes, A2PTypeOK, TwilioTypes
<1>2. ASSUME NEW v \in Workers PROVE KnownWork(work[v])'
  <2>1. CASE v = w  BY <2>1 DEF A2PTypes, A2PTypeOK
  <2>2. CASE v # w
    <3>1. work'[v] = work[v] /\ work[v] \in Work  BY <2>2 DEF A2PTypes, A2PTypeOK
    <3>2. KnownWork(work[v])  BY DEF A2PTypes
    <3>3. work[v].reg \in Row  BY <3>1 DEF Work
    <3>4. PICK y \in Work : y = work[v]  BY <3>1
    <3>5. KnownRow(y.reg)'  BY <3>2, <3>3, <3>4, KnownStays DEF KnownWork, A2PTypes
    <3>6. KnownWork(y)'  BY <3>2, <3>4, <3>5 DEF KnownWork, Grows
    <3> QED BY <3>1, <3>4, <3>6 DEF KnownWork, KnownRow
  <2> QED BY <2>1, <2>2
<1> QED BY <1>1, <1>2 DEF A2PTypes

\* ... or beside what stays as it is.
LEMMA LocalTyped ==
    ASSUME A2PTypes, NEW w \in Workers, NEW x \in Work, work' = [work EXCEPT ![w] = x],
           UNCHANGED atTwilio, reg' \in Row, KnownRow(reg)', KnownWork(x), faults' \in 0..MaxFaults
    PROVE  A2PTypes'
<1>1. TwilioTypes' /\ Grows  BY DEF atTwilio, A2PTypes, A2PTypeOK, TwilioTypes, Grows
<1>2. KnownWork(x)'  BY DEF KnownWork, KnownRow, atTwilio
<1> QED BY <1>1, <1>2, WorkerTyped

LEMMA Counted ==
    ASSUME A2PTypes, Fault \/ NoFault PROVE faults' \in 0..MaxFaults
  BY DEF A2PTypes, A2PTypeOK, Fault, NoFault

\* A worker goes to a stage that asks nothing of its locals, or rests.
Plain == {"profile", "checkProfile", "checkBrand", "phase2", "checkCampaign", "write",
          "clearCampaign", "removeCampaign", "recreate"}
LEMMA GotoTyped ==
    ASSUME A2PTypes, NEW w \in Workers, NEW stage, Goto(w, stage),
           UNCHANGED atTwilio, reg' \in Row, KnownRow(reg)', Fault \/ NoFault,
           \/ stage \in Plain
           \/ stage = "submit" /\ work[w].at \in {"dropProfile", "clearBrand"}
           \/ stage = "cleanup" /\ work[w].at = "find"
           \/ stage = "nulls" /\ work[w].at = "cleanup"
           \/ stage = "brand" /\ work[w].sid # None /\ work[w].at = "nulls"
    PROVE  A2PTypes'
<1>1. work[w] \in Work /\ KnownWork(work[w])  BY DEF A2PTypes, A2PTypeOK
<1>2. PICK x : x = [work[w] EXCEPT !.at = stage]  OBVIOUS
<1>3. x \in Work /\ x.at = stage /\ x.sid = work[w].sid /\ x.reg = work[w].reg
  BY <1>1, <1>2 DEF Work, Plain, Submitting, Checking, Resubmitting
<1>4. KnownWork(x)  BY <1>1, <1>3 DEF KnownWork, Plain
<1> QED BY <1>2, <1>3, <1>4, LocalTyped, Counted DEF Goto

LEMMA DoneTyped ==
    ASSUME A2PTypes, NEW w \in Workers, Done(w), UNCHANGED atTwilio, reg' \in Row, KnownRow(reg)',
           Fault \/ NoFault
    PROVE  A2PTypes'
  BY RestingTyped, LocalTyped, Counted DEF Done

LEMMA SameRow == ASSUME A2PTypes, UNCHANGED <<atTwilio, reg>> PROVE reg' \in Row /\ KnownRow(reg)'
  BY DEF A2PTypes, A2PTypeOK, KnownRow, atTwilio

\* Twilio's reviews.
LEMMA ReviewsTyped == ASSUME A2PTypes, Reviews, UNCHANGED <<reg, work, faults>> PROVE A2PTypes'
<1>1. TwilioTypes' /\ Grows
  <2>0. TwilioTypes  BY DEF A2PTypes, A2PTypeOK, TwilioTypes
  <2>1. CASE \E s \in Profiles, to \in {"in-review", "twilio-approved", "twilio-rejected"} :
               profile' = [profile EXCEPT ![s] = to] /\ UNCHANGED <<brand, campaign>>
    BY <2>0, <2>1 DEF TwilioTypes, Grows, CpStatus
  <2>2. CASE \E s \in Brands, reason \in Reasons, to \in BrandStatus :
               /\ brand' = [brand EXCEPT ![s] = [status |-> to, reason |-> reason]]
               /\ UNCHANGED <<profile, campaign>>
    BY <2>0, <2>2 DEF TwilioTypes, Grows
  <2>3. CASE \E s \in Campaigns, reason \in Reasons, to \in CampaignStatus :
               /\ campaign' = [campaign EXCEPT ![s] = [status |-> to, reason |-> reason]]
               /\ UNCHANGED <<profile, brand>>
    BY <2>0, <2>3 DEF TwilioTypes, Grows, CampaignStatus
  <2> QED BY <2>1, <2>2, <2>3 DEF Reviews, BrandStatus, CampaignStatus
<1>2. A2PTypeOK'  BY <1>1 DEF A2PTypes, A2PTypeOK, TwilioTypes
<1>3. KnownRow(reg)'
  BY <1>1 DEF A2PTypes, A2PTypeOK, KnownRow, Row, Grows
<1>4. ASSUME NEW v \in Workers PROVE KnownWork(work[v])'
  <2>1. work[v] \in Work /\ KnownWork(work[v])  BY DEF A2PTypes, A2PTypeOK
  <2>2. PICK y \in Work : y = work[v]  BY <2>1
  <2>3. KnownRow(y.reg)'  BY <1>1, <2>1, <2>2, KnownStays DEF KnownWork, A2PTypes, Work
  <2>4. KnownWork(y)'  BY <1>1, <2>1, <2>2, <2>3 DEF KnownWork, Grows
  <2> QED BY <2>2, <2>4 DEF KnownWork, KnownRow
<1> QED BY <1>2, <1>3, <1>4 DEF A2PTypes

\* Submission.
LEMMA SubmitTyped ==
    ASSUME A2PTypes, NEW w \in Workers, SubmitRow(w) PROVE A2PTypes'
<1>1. work[w] \in Work /\ KnownWork(work[w]) /\ reg \in Row /\ KnownRow(reg) /\ work[w].sid = None
  BY DEF A2PTypes, A2PTypeOK, SubmitRow, At, KnownWork
<1>2. PICK r : r = [reg EXCEPT !.status = "PENDING", !.cp = NoStage, !.br = NoStage, !.ca = NoStage]
  OBVIOUS
<1>3. r \in Row /\ r.profileSid = reg.profileSid /\ r.brandSid = reg.brandSid
      /\ r.campaignSid = reg.campaignSid
  BY <1>1, <1>2 DEF Row, NoStage, Stage, Retriable
<1>4. PICK x : x = [work[w] EXCEPT !.at = "find", !.reg = r]  OBVIOUS
<1>5. x \in Work /\ x.at = "find" /\ x.sid = None /\ x.reg = r
  BY <1>1, <1>3, <1>4 DEF Work, Submitting
<1>6. reg' = r /\ work' = [work EXCEPT ![w] = x] /\ UNCHANGED atTwilio /\ NoFault
  BY <1>2, <1>4 DEF SubmitRow
<1>7. KnownRow(r)  BY <1>1, <1>3 DEF KnownRow
<1>8. KnownRow(reg)'  BY <1>6, <1>7 DEF KnownRow, atTwilio
<1>9. KnownWork(x)  BY <1>5, <1>7 DEF KnownWork
<1> QED BY <1>3, <1>5, <1>6, <1>8, <1>9, LocalTyped, Counted

LEMMA FindTyped == ASSUME A2PTypes, NEW w \in Workers, FindAccount(w) PROVE A2PTypes'
<1>1. UNCHANGED <<atTwilio, reg>> /\ work[w].at = "find" /\ (Fault \/ NoFault)
  BY DEF FindAccount, At
<1>2. CASE Goto(w, "cleanup")  BY <1>1, <1>2, SameRow, GotoTyped
<1>3. CASE Done(w)  BY <1>1, <1>3, SameRow, DoneTyped
<1> QED BY <1>2, <1>3 DEF FindAccount

LEMMA CleanupTyped == ASSUME A2PTypes, NEW w \in Workers, Cleanup(w) PROVE A2PTypes'
<1>1. PICK old : old = work[w].reg.profileSid  OBVIOUS
<1>2. /\ work[w] \in Work /\ KnownWork(work[w]) /\ work[w].at = "cleanup" /\ work[w].sid = None
      /\ UNCHANGED <<brand, campaign, reg>> /\ (Fault \/ NoFault)
  BY DEF A2PTypes, A2PTypeOK, Cleanup, At, KnownWork
<1>3. old \in Profiles \cup {None} /\ (old # None => profile[old] # "none")
  BY <1>1, <1>2 DEF Work, Row, KnownWork, KnownRow
<1>4. CASE UNCHANGED profile /\ Goto(w, "nulls")
  BY <1>2, <1>4, SameRow, GotoTyped DEF atTwilio
<1>5. CASE old # None /\ UNCHANGED profile /\ work' = [work EXCEPT ![w].at = "nulls", ![w].sid = old]
  <2>1. PICK x : x = [work[w] EXCEPT !.at = "nulls", !.sid = old]  OBVIOUS
  <2>2. x \in Work /\ x.at = "nulls" /\ x.sid = old /\ x.reg = work[w].reg
    BY <1>2, <1>3, <2>1 DEF Work, Submitting
  <2>3. KnownWork(x)  BY <1>2, <1>3, <1>5, <2>2 DEF KnownWork
  <2> QED BY <1>2, <1>5, <2>1, <2>2, <2>3, SameRow, LocalTyped, Counted DEF atTwilio
<1>6. CASE old # None /\ profile' = [profile EXCEPT ![old] = "removed"] /\ Goto(w, "nulls")
  <2>1. TwilioTypes' /\ Grows
    BY <1>2, <1>6 DEF A2PTypes, A2PTypeOK, TwilioTypes, Grows, Absent
  <2>2. PICK x : x = [work[w] EXCEPT !.at = "nulls"]  OBVIOUS
  <2>3. x \in Work /\ x.at = "nulls" /\ x.sid = None /\ x.reg = work[w].reg
    BY <1>2, <2>2 DEF Work, Submitting
  <2>4. KnownRow(x.reg)'
    <3>1. PICK r \in Row : r = x.reg /\ KnownRow(r)  BY <1>2, <2>3 DEF Work, KnownWork
    <3>2. KnownRow(r)'  BY <2>1, <3>1, KnownStays DEF A2PTypes
    <3> QED BY <3>1, <3>2
  <2>5. KnownWork(x)'  BY <2>3, <2>4 DEF KnownWork
  <2>6. reg' \in Row /\ KnownRow(reg)'
    <3>1. PICK r \in Row : r = reg /\ KnownRow(r)  BY DEF A2PTypes, A2PTypeOK
    <3>2. KnownRow(r)'  BY <2>1, <3>1, KnownStays DEF A2PTypes
    <3> QED BY <1>2, <3>1, <3>2 DEF KnownRow
  <2> QED BY <1>2, <1>6, <2>1, <2>2, <2>3, <2>5, <2>6, WorkerTyped, Counted DEF Goto
<1> QED BY <1>1, <1>4, <1>5, <1>6 DEF Cleanup

LEMMA ForgetTyped == ASSUME A2PTypes, NEW w \in Workers, ForgetSids(w) PROVE A2PTypes'
<1>1. /\ work[w] \in Work /\ KnownWork(work[w]) /\ work[w].at = "nulls" /\ reg \in Row
      /\ UNCHANGED atTwilio /\ NoFault
      /\ Goto(w, IF work[w].sid = None THEN "profile" ELSE "brand")
  BY DEF A2PTypes, A2PTypeOK, ForgetSids, At
<1>2. PICK s \in Profiles \cup {None} : s = work[w].sid /\ (s # None => profile[s] # "none")
  BY <1>1 DEF KnownWork
<1>3. reg' = [reg EXCEPT !.profileSid = s, !.brandSid = None, !.service = FALSE, !.campaignSid = None]
  BY <1>2 DEF ForgetSids
<1>4. reg' \in Row /\ reg'.profileSid = s /\ reg'.brandSid = None /\ reg'.campaignSid = None
  BY <1>1, <1>3 DEF Row
<1>5. KnownRow(reg)'  BY <1>1, <1>2, <1>4 DEF KnownRow, atTwilio
<1>6. CASE s = None  BY <1>1, <1>2, <1>4, <1>5, <1>6, GotoTyped DEF Plain
<1>7. CASE s # None  BY <1>1, <1>2, <1>4, <1>5, <1>7, GotoTyped
<1> QED BY <1>6, <1>7

\* A resource is created, or entered: what was known stays known.
LEMMA CreationTyped ==
    ASSUME A2PTypes, NEW w \in Workers, NEW x \in Work, work' = [work EXCEPT ![w] = x],
           TwilioTypes', Grows, UNCHANGED reg, NoFault, x.reg = work[w].reg,
           KnownRow(x.reg)' => KnownWork(x)'
    PROVE  A2PTypes'
<1>1. PICK r \in Row : r = reg /\ KnownRow(r)  BY DEF A2PTypes, A2PTypeOK
<1>2. KnownRow(r)'  BY <1>1, KnownStays DEF A2PTypes
<1>3. reg' \in Row /\ KnownRow(reg)'  BY <1>1, <1>2 DEF KnownRow
<1>4. PICK q \in Row : q = x.reg /\ KnownRow(q)  BY DEF A2PTypes, A2PTypeOK, Work, KnownWork
<1>5. KnownRow(q)'  BY <1>4, KnownStays DEF A2PTypes
<1> QED BY <1>3, <1>4, <1>5, WorkerTyped, Counted

LEMMA NewIsFresh ==
    /\ FreshProfiles # {} => New(FreshProfiles) \in Profiles
    /\ FreshBrands # {} => New(FreshBrands) \in Brands
    /\ FreshCampaigns # {} => New(FreshCampaigns) \in Campaigns
  BY DEF FreshProfiles, FreshBrands, FreshCampaigns, New

LEMMA ProfileTyped ==
    ASSUME A2PTypes, NEW w \in Workers, CreateProfile(w) \/ EnterProfile(w) PROVE A2PTypes'
<1>1. work[w] \in Work /\ KnownWork(work[w]) /\ UNCHANGED <<brand, campaign, reg>> /\ NoFault
  BY DEF A2PTypes, A2PTypeOK, CreateProfile, EnterProfile
<1>2. PICK s \in Profiles, status \in CpStatus, stage \in {"enter", "brand"} :
        /\ profile' = [profile EXCEPT ![s] = status]
        /\ work' = [work EXCEPT ![w] = [work[w] EXCEPT !.at = stage, !.sid = s]]
  <2>1. CASE CreateProfile(w)  BY <2>1, <1>1, NewIsFresh DEF CreateProfile, CpStatus
  <2>2. CASE EnterProfile(w)
    <3>1. work[w].sid \in Profiles  BY <1>1, <2>2 DEF EnterProfile, At, KnownWork
    <3>2. work' = [work EXCEPT ![w] = [work[w] EXCEPT !.at = "brand"]]
      BY <2>2 DEF EnterProfile, Goto
    <3>3. [work[w] EXCEPT !.at = "brand"] = [work[w] EXCEPT !.at = "brand", !.sid = work[w].sid]
      BY <1>1 DEF Work
    <3> QED BY <2>2, <3>1, <3>2, <3>3 DEF EnterProfile, CpStatus
  <2> QED BY <2>1, <2>2
<1>3. PICK x : x = [work[w] EXCEPT !.at = stage, !.sid = s]  OBVIOUS
<1>4. x \in Work /\ x.at = stage /\ x.sid = s /\ x.reg = work[w].reg
  BY <1>1, <1>3 DEF Work, Submitting
<1>5. TwilioTypes' /\ Grows /\ profile'[s] # "none"
  BY <1>1, <1>2 DEF A2PTypes, A2PTypeOK, TwilioTypes, Grows, CpStatus
<1>6. KnownRow(x.reg)' => KnownWork(x)'  BY <1>4, <1>5 DEF KnownWork
<1> QED BY <1>1, <1>2, <1>3, <1>4, <1>5, <1>6, CreationTyped

LEMMA BrandTyped == ASSUME A2PTypes, NEW w \in Workers, CreateBrand(w) PROVE A2PTypes'
<1>1. /\ work[w] \in Work /\ KnownWork(work[w]) /\ UNCHANGED <<profile, campaign, reg>> /\ NoFault
      /\ work[w].at = "brand"
  BY DEF A2PTypes, A2PTypeOK, CreateBrand, At
<1>2. PICK b \in Brands : b = New(FreshBrands)  BY NewIsFresh DEF CreateBrand
<1>3. PICK x : x = [work[w] EXCEPT !.at = "store", !.brandSid = b]  OBVIOUS
<1>4. /\ brand' = [brand EXCEPT ![b].status = "PENDING"]
      /\ work' = [work EXCEPT ![w] = x]
  BY <1>2, <1>3 DEF CreateBrand
<1>5. x \in Work /\ x.at = "store" /\ x.sid = work[w].sid /\ x.brandSid = b /\ x.reg = work[w].reg
  BY <1>1, <1>3 DEF Work, Submitting
<1>6. TwilioTypes' /\ Grows /\ brand'[b].status \in BrandStatus
  BY <1>1, <1>4 DEF A2PTypes, A2PTypeOK, TwilioTypes, Grows, BrandStatus
<1>7. KnownRow(x.reg)' => KnownWork(x)'  BY <1>1, <1>5, <1>6 DEF KnownWork
<1> QED BY <1>1, <1>4, <1>5, <1>6, <1>7, CreationTyped

LEMMA CampaignTyped ==
    ASSUME A2PTypes, NEW w \in Workers, Phase2(w) \/ RecreateCampaign(w) PROVE A2PTypes'
<1>1. /\ work[w] \in Work /\ KnownWork(work[w]) /\ UNCHANGED <<profile, brand, reg>> /\ NoFault
  BY DEF A2PTypes, A2PTypeOK, Phase2, RecreateCampaign, CreatesCampaign
<1>2. PICK c \in Campaigns : c = New(FreshCampaigns)
  BY NewIsFresh DEF Phase2, RecreateCampaign, CreatesCampaign
<1>3. PICK next \in {"phase2Store", "restore"} :
        /\ campaign' = [campaign EXCEPT ![c].status = "IN_PROGRESS"]
        /\ work' = [work EXCEPT ![w].at = next, ![w].sid = c]
  BY <1>2 DEF Phase2, RecreateCampaign, CreatesCampaign
<1>4. PICK x : x = [work[w] EXCEPT !.at = next, !.sid = c]  OBVIOUS
<1>5. x \in Work /\ x.at = next /\ x.sid = c /\ x.reg = work[w].reg
  BY <1>1, <1>4 DEF Work, Checking, Resubmitting
<1>6. TwilioTypes' /\ Grows /\ campaign'[c].status # "none"
  BY <1>1, <1>3 DEF A2PTypes, A2PTypeOK, TwilioTypes, Grows, CampaignStatus
<1>7. KnownRow(x.reg)' => KnownWork(x)'  BY <1>5, <1>6 DEF KnownWork
<1> QED BY <1>1, <1>3, <1>4, <1>5, <1>6, <1>7, CreationTyped

LEMMA StoreBrandTyped == ASSUME A2PTypes, NEW w \in Workers, StoreBrand(w) PROVE A2PTypes'
<1>1. work[w].at = "store" /\ KnownWork(work[w]) /\ reg \in Row /\ KnownRow(reg)
      /\ UNCHANGED atTwilio /\ NoFault /\ Done(w)
  BY DEF A2PTypes, A2PTypeOK, StoreBrand, At
<1>2. PICK s \in Profiles, b \in Brands :
        /\ s = work[w].sid /\ b = work[w].brandSid
        /\ profile[s] # "none" /\ brand[b].status \in BrandStatus
  BY <1>1 DEF KnownWork
<1>3. reg' = [reg EXCEPT !.status = "PENDING", !.profileSid = s, !.brandSid = b]
  BY <1>2 DEF StoreBrand
<1>4. reg' \in Row /\ reg'.profileSid = s /\ reg'.brandSid = b /\ reg'.campaignSid = reg.campaignSid
  BY <1>1, <1>3 DEF Row
<1>5. KnownRow(reg)'  BY <1>1, <1>2, <1>4 DEF KnownRow, atTwilio
<1> QED BY <1>1, <1>4, <1>5, DoneTyped

LEMMA SubmitFailsTyped == ASSUME A2PTypes, NEW w \in Workers, SubmitFails(w) PROVE A2PTypes'
<1>1. /\ reg \in Row /\ UNCHANGED atTwilio /\ Fault /\ Done(w)
      /\ reg' = [reg EXCEPT !.status = "NOT_STARTED", !.profileSid = None, !.brandSid = None,
                            !.service = FALSE, !.campaignSid = None]
  BY DEF A2PTypes, A2PTypeOK, SubmitFails
<1>2. reg' \in Row /\ reg'.profileSid = None /\ reg'.brandSid = None /\ reg'.campaignSid = None
  BY <1>1 DEF Row
<1> QED BY <1>1, <1>2, DoneTyped DEF KnownRow

\* The check of the status, and phase 2.
LEMMA ReadTyped ==
    ASSUME A2PTypes, NEW w \in Workers, NEW r \in Row, NEW stage,
           stage \in Plain \cup {"dropProfile", "clearBrand"}, work[w].at = "idle" \/ stage \in Plain,
           work' = [work EXCEPT ![w].at = stage, ![w].reg = r], KnownRow(r),
           UNCHANGED <<atTwilio, reg>>, Fault \/ NoFault
    PROVE  A2PTypes'
<1>1. work[w] \in Work /\ KnownWork(work[w])  BY DEF A2PTypes, A2PTypeOK
<1>2. PICK x : x = [work[w] EXCEPT !.at = stage, !.reg = r]  OBVIOUS
<1>3. x \in Work /\ x.at = stage /\ x.sid = work[w].sid /\ x.reg = r
  BY <1>1, <1>2 DEF Work, Plain, Submitting, Checking, Resubmitting
<1>4. KnownWork(x)  BY <1>1, <1>3 DEF KnownWork, Plain
<1> QED BY <1>2, <1>3, <1>4, SameRow, LocalTyped, Counted

LEMMA CheckTyped == ASSUME A2PTypes, NEW w \in Workers, Check(w) PROVE A2PTypes'
<1>1. reg \in Row /\ KnownRow(reg) /\ UNCHANGED <<atTwilio, reg>> /\ NoFault
  BY DEF A2PTypes, A2PTypeOK, Check
<1>2. PICK r : r = [reg EXCEPT !.cp.retriable = "null", !.br.retriable = "null",
                               !.ca.retriable = "null"]
  OBVIOUS
<1>3. r \in Row /\ r.profileSid = reg.profileSid /\ r.brandSid = reg.brandSid
      /\ r.campaignSid = reg.campaignSid
  BY <1>1, <1>2 DEF Row, Stage, Retriable
<1>4. KnownRow(r)  BY <1>1, <1>3 DEF KnownRow
<1>5. work' = [work EXCEPT ![w].at = "checkProfile", ![w].reg = r]  BY <1>2 DEF Check
<1> QED BY <1>1, <1>3, <1>4, <1>5, ReadTyped DEF Plain

\* What is seen of a stage becomes part of the row that was read.
LEMMA SeenTyped ==
    ASSUME NEW r \in Row, KnownRow(r)
    PROVE  /\ \A v \in Stage(CpStatus), b \in BOOLEAN :
                [r EXCEPT !.cp = v, !.approved = b] \in Row
                /\ KnownRow([r EXCEPT !.cp = v, !.approved = b])
           /\ \A v \in Stage(BrandStatus) :
                [r EXCEPT !.br = v] \in Row /\ KnownRow([r EXCEPT !.br = v])
           /\ \A v \in Stage(CampaignStatus) :
                [r EXCEPT !.ca = v] \in Row /\ KnownRow([r EXCEPT !.ca = v])
  BY DEF Row, KnownRow

LEMMA ClassifyTyped ==
    /\ \A status \in CpStatus : classifyCustomerProfile(status) \in Stage(CpStatus)
    /\ \A x : x.status \in BrandStatus => classify(x) \in Stage(BrandStatus)
    /\ \A x : x.status \in CampaignStatus => classify(x) \in Stage(CampaignStatus)
  BY DEF classifyCustomerProfile, classify, unrejected, Stage, Retriable, CpStatus, BrandStatus,
         CampaignStatus

LEMMA CheckThrowsTyped == ASSUME A2PTypes, NEW w \in Workers, CheckThrows(w) PROVE A2PTypes'
  BY SameRow, GotoTyped DEF CheckThrows, Plain

LEMMA CheckProfileTyped == ASSUME A2PTypes, NEW w \in Workers, CheckProfile(w) PROVE A2PTypes'
<1>1. PICK r \in Row : r = work[w].reg /\ KnownRow(r)
  BY DEF A2PTypes, A2PTypeOK, KnownWork, Work
<1>2. UNCHANGED <<atTwilio, reg>> /\ NoFault  BY DEF CheckProfile
<1>3. CASE \E stage \in {"checkBrand", "write"} : Goto(w, stage)
  BY <1>2, <1>3, SameRow, GotoTyped DEF Plain
<1>4. CASE ~\E stage \in {"checkBrand", "write"} : Goto(w, stage)
  <2>1. /\ r.profileSid # None /\ profile[r.profileSid] # "removed"
        /\ work' = [work EXCEPT ![w].at = "checkBrand",
                       ![w].reg.cp = classifyCustomerProfile(profile[r.profileSid]),
                       ![w].reg.approved = @ \/ profile[r.profileSid] = "twilio-approved"]
    BY <1>1, <1>4 DEF CheckProfile
  <2>2. profile[r.profileSid] \in CpStatus
    BY <1>1, <2>1 DEF A2PTypes, A2PTypeOK, Row, KnownRow, Absent
  <2>3. PICK v \in Stage(CpStatus), b \in BOOLEAN :
          /\ v = classifyCustomerProfile(profile[r.profileSid])
          /\ b = (r.approved \/ profile[r.profileSid] = "twilio-approved")
    BY <2>2, ClassifyTyped
  <2>4. PICK q \in Row : q = [r EXCEPT !.cp = v, !.approved = b] /\ KnownRow(q)
    BY <1>1, SeenTyped
  <2>5. work' = [work EXCEPT ![w].at = "checkBrand", ![w].reg = q]
    <3>1. work[w] \in Work /\ work \in [Workers -> Work]  BY DEF A2PTypes, A2PTypeOK
    <3>2. work' = [work EXCEPT ![w] = [work[w] EXCEPT !.at = "checkBrand",
                                         !.reg = [work[w].reg EXCEPT !.cp = v, !.approved = b]]]
      BY <1>1, <2>1, <2>3, <3>1 DEF Work, Row
    <3> QED BY <1>1, <2>4, <3>2
  <2> QED BY <1>2, <2>4, <2>5, ReadTyped DEF Plain
<1> QED BY <1>3, <1>4

LEMMA CheckBrandTyped == ASSUME A2PTypes, NEW w \in Workers, CheckBrand(w) PROVE A2PTypes'
<1>1. PICK r \in Row : r = work[w].reg /\ KnownRow(r)
  BY DEF A2PTypes, A2PTypeOK, KnownWork, Work
<1>2. UNCHANGED <<atTwilio, reg>> /\ NoFault  BY DEF CheckBrand
<1>3. CASE Goto(w, "checkCampaign")  BY <1>2, <1>3, SameRow, GotoTyped DEF Plain
<1>4. CASE ~Goto(w, "checkCampaign")
  <2>1. r.brandSid # None
        /\ \E stage \in {"phase2", "checkCampaign"} :
             work' = [work EXCEPT ![w].at = stage, ![w].reg.br = classify(brand[r.brandSid])]
    BY <1>1, <1>4 DEF CheckBrand
  <2>2. brand[r.brandSid].status \in BrandStatus  BY <1>1, <2>1 DEF KnownRow
  <2>3. PICK v \in Stage(BrandStatus) : v = classify(brand[r.brandSid])
    BY <2>2, ClassifyTyped
  <2>4. PICK q \in Row : q = [r EXCEPT !.br = v] /\ KnownRow(q)  BY <1>1, SeenTyped
  <2>5. PICK stage \in {"phase2", "checkCampaign"} :
          work' = [work EXCEPT ![w].at = stage, ![w].reg = q]
    <3>1. work[w] \in Work /\ work \in [Workers -> Work]  BY DEF A2PTypes, A2PTypeOK
    <3> QED BY <1>1, <2>1, <2>3, <2>4, <3>1 DEF Work
  <2> QED BY <1>2, <2>4, <2>5, ReadTyped DEF Plain
<1> QED BY <1>3, <1>4

LEMMA CheckCampaignTyped == ASSUME A2PTypes, NEW w \in Workers, CheckCampaign(w) PROVE A2PTypes'
<1>1. PICK r \in Row : r = work[w].reg /\ KnownRow(r)
  BY DEF A2PTypes, A2PTypeOK, KnownWork, Work
<1>2. UNCHANGED <<atTwilio, reg>> /\ (Fault \/ NoFault) /\ reg \in Row /\ KnownRow(reg)
  BY DEF CheckCampaign, A2PTypes, A2PTypeOK
<1>3. CASE Goto(w, "write")  BY <1>2, <1>3, SameRow, GotoTyped DEF Plain
<1>4. CASE ~Goto(w, "write")
  <2>1. PICK c : /\ c = IF reg.campaignSid # None THEN reg.campaignSid ELSE r.campaignSid
                 /\ c # None /\ campaign[c].status # "removed"
                 /\ work' = [work EXCEPT ![w].at = "write", ![w].reg.ca = classify(campaign[c])]
    BY <1>1, <1>4 DEF CheckCampaign
  <2>2. campaign[c].status \in CampaignStatus
    <3>1. c \in Campaigns /\ campaign[c].status # "none"
      BY <1>1, <1>2, <2>1 DEF KnownRow, Row
    <3> QED BY <2>1, <3>1 DEF A2PTypes, A2PTypeOK, Absent
  <2>3. PICK v \in Stage(CampaignStatus) : v = classify(campaign[c])  BY <2>2, ClassifyTyped
  <2>4. PICK q \in Row : q = [r EXCEPT !.ca = v] /\ KnownRow(q)  BY <1>1, SeenTyped
  <2>5. work' = [work EXCEPT ![w].at = "write", ![w].reg = q]
    <3>1. work[w] \in Work /\ work \in [Workers -> Work]  BY DEF A2PTypes, A2PTypeOK
    <3> QED BY <1>1, <2>1, <2>3, <2>4, <3>1 DEF Work
  <2> QED BY <1>2, <2>4, <2>5, ReadTyped DEF Plain
<1> QED BY <1>3, <1>4

LEMMA CheckWritesTyped == ASSUME A2PTypes, NEW w \in Workers, CheckWrites(w) PROVE A2PTypes'
<1>1. PICK r \in Row : r = work[w].reg  BY DEF A2PTypes, A2PTypeOK, Work
<1>2. reg \in Row /\ KnownRow(reg) /\ UNCHANGED atTwilio /\ NoFault /\ Done(w)
  BY DEF CheckWrites, A2PTypes, A2PTypeOK
<1>3. PICK status \in {"PENDING", "APPROVED", "REJECTED"} :
        reg' = [reg EXCEPT !.status = status, !.approved = r.approved, !.cp = r.cp, !.br = r.br,
                           !.ca = r.ca]
  BY <1>1 DEF CheckWrites, deriveRollupStatus
<1>4. reg' \in Row /\ reg'.profileSid = reg.profileSid /\ reg'.brandSid = reg.brandSid
      /\ reg'.campaignSid = reg.campaignSid
  BY <1>1, <1>2, <1>3 DEF Row
<1>5. KnownRow(reg)'  BY <1>2, <1>4 DEF KnownRow, atTwilio
<1> QED BY <1>2, <1>4, <1>5, DoneTyped

LEMMA StoreCampaignTyped ==
    ASSUME A2PTypes, NEW w \in Workers, Phase2Stores(w) \/ RestoreCampaign(w) PROVE A2PTypes'
<1>1. /\ work[w].at \in {"phase2Store", "restore"} /\ KnownWork(work[w])
      /\ reg \in Row /\ KnownRow(reg) /\ UNCHANGED atTwilio /\ NoFault
  BY DEF A2PTypes, A2PTypeOK, Phase2Stores, RestoreCampaign, StoresCampaign, At
<1>2. PICK c \in Campaigns : c = work[w].sid /\ campaign[c].status # "none"
  BY <1>1 DEF KnownWork
<1>3. reg' = [reg EXCEPT !.service = TRUE, !.campaignSid = c, !.status = "PENDING",
                         !.ca = [status |-> "IN_PROGRESS", retriable |-> "null"]]
  BY <1>2 DEF Phase2Stores, RestoreCampaign, StoresCampaign
<1>4. reg' \in Row /\ reg'.profileSid = reg.profileSid /\ reg'.brandSid = reg.brandSid
      /\ reg'.campaignSid = c
  BY <1>1, <1>3 DEF Row, Stage, CampaignStatus, Retriable
<1>5. KnownRow(reg)'  BY <1>1, <1>2, <1>4 DEF KnownRow, atTwilio
<1>6. CASE Goto(w, "checkCampaign")  BY <1>1, <1>4, <1>5, <1>6, GotoTyped DEF Plain
<1>7. CASE Done(w)  BY <1>1, <1>4, <1>5, <1>7, DoneTyped
<1> QED BY <1>6, <1>7 DEF Phase2Stores, RestoreCampaign, StoresCampaign

LEMMA Phase2FailsTyped ==
    ASSUME A2PTypes, NEW w \in Workers, Phase2Fails(w) \/ RecreateFails(w) PROVE A2PTypes'
  BY SameRow, GotoTyped, DoneTyped DEF Phase2Fails, RecreateFails, Plain

\* Resubmissions.
LEMMA ResubmitsTyped ==
    ASSUME A2PTypes, NEW w \in Workers,
           resubmitCustomerProfile(w) \/ resubmitBrand(w) \/ resubmitCampaign(w)
    PROVE  A2PTypes'
<1>1. reg \in Row /\ KnownRow(reg)  BY DEF A2PTypes, A2PTypeOK
<1>2. PICK stage \in {"dropProfile", "clearBrand", "clearCampaign"} : Resubmits(w, stage)
  BY DEF resubmitCustomerProfile, resubmitBrand, resubmitCampaign
<1> QED BY <1>1, <1>2, ReadTyped DEF Resubmits, At, Plain

LEMMA DropsTyped ==
    ASSUME A2PTypes, NEW w \in Workers, DropProfile(w) \/ ClearBrand(w) \/ ClearCampaign(w)
    PROVE  A2PTypes'
<1>1. reg \in Row /\ KnownRow(reg) /\ UNCHANGED atTwilio /\ NoFault
  BY DEF A2PTypes, A2PTypeOK, DropProfile, ClearBrand, ClearCampaign
<1>2. /\ reg' \in Row
      /\ reg'.profileSid \in {None, reg.profileSid} /\ reg'.brandSid \in {None, reg.brandSid}
      /\ reg'.campaignSid \in {None, reg.campaignSid}
  <2>1. CASE DropProfile(w)  BY <1>1, <2>1 DEF DropProfile, Row
  <2>2. CASE ClearBrand(w)  BY <1>1, <2>2 DEF ClearBrand, Row, NoStage, Stage, Retriable
  <2>3. CASE ClearCampaign(w)  BY <1>1, <2>3 DEF ClearCampaign, Row, NoStage, Stage, Retriable
  <2> QED BY <2>1, <2>2, <2>3
<1>3. KnownRow(reg)'  BY <1>1, <1>2 DEF KnownRow, atTwilio
<1> QED BY <1>1, <1>2, <1>3, GotoTyped DEF DropProfile, ClearBrand, ClearCampaign, At, Plain

LEMMA RemoveTyped == ASSUME A2PTypes, NEW w \in Workers, RemoveCampaign(w) PROVE A2PTypes'
<1>1. /\ work[w] \in Work /\ KnownWork(work[w]) /\ Goto(w, "recreate")
      /\ UNCHANGED <<profile, brand, reg>> /\ NoFault
  BY DEF A2PTypes, A2PTypeOK, RemoveCampaign
<1>2. PICK old : old = work[w].reg.campaignSid  OBVIOUS
<1>3. CASE UNCHANGED campaign
  BY <1>1, <1>3, SameRow, GotoTyped DEF Plain, atTwilio
<1>4. CASE old # None /\ campaign' = [campaign EXCEPT ![old].status = "removed"]
  <2>1. TwilioTypes' /\ Grows
    BY <1>1, <1>2, <1>4 DEF A2PTypes, A2PTypeOK, TwilioTypes, Grows, Absent, Work, Row
  <2>2. PICK x : x = [work[w] EXCEPT !.at = "recreate"]  OBVIOUS
  <2>3. x \in Work /\ x.at = "recreate" /\ x.reg = work[w].reg
    BY <1>1, <2>2 DEF Work, Resubmitting
  <2>4. KnownRow(x.reg)' => KnownWork(x)'  BY <2>3 DEF KnownWork
  <2> QED BY <1>1, <2>1, <2>2, <2>3, <2>4, CreationTyped DEF Goto
<1> QED BY <1>2, <1>3, <1>4 DEF RemoveCampaign

LEMMA CrashTyped == ASSUME A2PTypes, CrashWorkers PROVE A2PTypes'
<1>1. /\ work' = [w \in Workers |-> Resting] /\ UNCHANGED <<atTwilio, reg>> /\ Fault
  BY DEF CrashWorkers
<1>2. A2PTypeOK'
  BY <1>1, RestingTyped, Counted DEF A2PTypes, A2PTypeOK, atTwilio
<1>3. \A w \in Workers : KnownWork(work[w])'
  BY <1>1, RestingTyped DEF KnownWork, KnownRow, atTwilio
<1> QED BY <1>1, <1>2, <1>3, SameRow DEF A2PTypes

LEMMA A2PTypesNext == A2PTypes /\ [A2PNext]_a2pVars => A2PTypes'
<1> SUFFICES ASSUME A2PTypes, [A2PNext]_a2pVars PROVE A2PTypes'  OBVIOUS
<1>1. CASE UNCHANGED a2pVars
  BY <1>1 DEF a2pVars, atTwilio, A2PTypes, A2PTypeOK, KnownRow, KnownWork
<1>2. ASSUME NEW w \in Workers, Request(w) \/ Check(w) \/ Proceed(w) PROVE A2PTypes'
  <2>1. CASE Request(w)  BY <2>1, SubmitTyped, ResubmitsTyped DEF Request
  <2>2. CASE Check(w)  BY <2>2, CheckTyped
  <2>3. CASE Proceed(w)
    BY <2>3, SubmitTyped, FindTyped, CleanupTyped, ForgetTyped, ProfileTyped, BrandTyped,
       StoreBrandTyped, SubmitFailsTyped, CheckThrowsTyped, CheckProfileTyped, CheckBrandTyped,
       CampaignTyped, StoreCampaignTyped, Phase2FailsTyped, CheckCampaignTyped,
       CheckWritesTyped, DropsTyped, RemoveTyped DEF Proceed
  <2> QED BY <1>2, <2>1, <2>2, <2>3
<1> QED BY <1>1, <1>2, ReviewsTyped, CrashTyped DEF A2PNext

-----------------------------------------------------------------------------
(* The registration: what is approved was vetted.  Two requests that overlap *)
(* can overwrite each other's SIDs; the promise is of one worker at a time.  *)

\* What a copy of the row says of its stages holds of the row's resources.
Seen(r) ==
    /\ r.cp.status = Approved =>
         reg.profileSid # None /\ profile[reg.profileSid] = Approved
    /\ r.br.status = "APPROVED" =>
         reg.brandSid # None /\ brand[reg.brandSid].status = "APPROVED"
    /\ r.ca.status = "VERIFIED" =>
         reg.campaignSid # None /\ campaign[reg.campaignSid].status = "VERIFIED"

Unseen(r) == r.cp.status = None /\ r.br.status = None /\ r.ca.status = None

RowVetted ==
    /\ Seen(reg)
    /\ reg.status = "APPROVED" =>
         reg.cp.status = Approved /\ reg.br.status = "APPROVED" /\ reg.ca.status = "VERIFIED"

\* A submission has forgotten every stage; a resubmission is of a stage that
\* was refused; a check works on the SIDs of the row.
StageVetted(x) ==
    /\ x.at \in Submitting => Unseen(reg)
    /\ x.at = "dropProfile" => reg.cp.status = "twilio-rejected"
    /\ x.at = "clearBrand" => reg.br.status = "FAILED"
    /\ x.at = "clearCampaign" => reg.ca.status = "FAILED"
    /\ x.at \in {"removeCampaign", "recreate", "restore"} => reg.ca.status = None
    /\ x.at \in Checking =>
         /\ Seen(x.reg)
         /\ x.reg.profileSid = reg.profileSid /\ x.reg.brandSid = reg.brandSid
         /\ x.at \in {"checkProfile", "checkBrand"} => x.reg.campaignSid = reg.campaignSid
         /\ x.at \in {"phase2", "phase2Store"} => x.reg.campaignSid = None /\ reg.campaignSid = None
         /\ x.reg.campaignSid # None => x.reg.campaignSid = reg.campaignSid

VettedInv == A2PTypes /\ RowVetted /\ \A w \in Workers : StageVetted(work[w])

\* What is approved stays so.
Keeps ==
    /\ \A s \in Profiles : profile[s] = Approved => profile'[s] = Approved
    /\ \A s \in Brands : brand[s].status = "APPROVED" => brand'[s].status = "APPROVED"
    /\ \A s \in Campaigns : campaign[s].status = "VERIFIED" => campaign'[s].status = "VERIFIED"

LEMMA SeenStays ==
    ASSUME A2PTypes, Keeps, UNCHANGED reg, NEW r, Seen(r) PROVE Seen(r)'
  BY DEF Seen, Keeps, A2PTypes, A2PTypeOK, Row

LEMMA UnseenIsSeen == ASSUME NEW r, Unseen(r) PROVE Seen(r)
  BY DEF Unseen, Seen, CpStatus, BrandStatus, CampaignStatus, Approved

LEMMA VettedInit == A2PInit => VettedInv
<1> SUFFICES ASSUME A2PInit PROVE VettedInv  OBVIOUS
<1>1. reg = NoRow /\ \A w \in Workers : work[w] = Resting  BY DEF A2PInit
<1>2. Unseen(reg) /\ reg.status = "none"  BY <1>1 DEF Unseen, NoRow, NoStage
<1>3. RowVetted  BY <1>2, UnseenIsSeen DEF RowVetted
<1>4. \A w \in Workers : StageVetted(work[w])
  BY <1>1 DEF StageVetted, Resting, Submitting, Checking
<1> QED BY <1>3, <1>4, A2PTypesInit DEF VettedInv

\* The reviews.
LEMMA ReviewsVetted ==
    ASSUME VettedInv, Reviews, UNCHANGED <<reg, work, faults>> PROVE VettedInv'
<1>1. A2PTypes'  BY ReviewsTyped DEF VettedInv
<1>2. Keeps  BY DEF Keeps, Reviews, VettedInv, A2PTypes, A2PTypeOK, Approved
<1>3. RowVetted'
  <2>1. PICK r : r = reg /\ Seen(r)  BY DEF VettedInv, RowVetted
  <2>2. Seen(r)'  BY <1>2, <2>1, SeenStays DEF VettedInv
  <2> QED BY <2>1, <2>2 DEF VettedInv, RowVetted, Seen
<1>4. ASSUME NEW w \in Workers PROVE StageVetted(work[w])'
  <2>1. PICK x : x = work[w] /\ StageVetted(x)  BY DEF VettedInv
  <2>2. Seen(x.reg) => Seen(x.reg)'
    <3>1. PICK r : r = x.reg  OBVIOUS
    <3>2. Seen(r) => Seen(r)'  BY <1>2, SeenStays DEF VettedInv
    <3> QED BY <3>1, <3>2 DEF Seen
  <2>3. StageVetted(x)'  BY <2>1, <2>2 DEF StageVetted, Unseen
  <2> QED BY <2>1, <2>3 DEF StageVetted, Seen
<1> QED BY <1>1, <1>3, <1>4 DEF VettedInv

\* What is to be shown of a step of the only worker.
LEMMA OneVetted ==
    ASSUME NEW w, Workers = {w}, A2PTypes', RowVetted', StageVetted(work[w])' PROVE VettedInv'
  BY DEF VettedInv

\* A step within a submission: no stage is seen, nor will be by it.
LEMMA SubmissionVetted ==
    ASSUME NEW w, Workers = {w}, VettedInv, A2PTypes', Unseen(reg)', reg'.status # "APPROVED",
           work'[w].at \in Submitting \cup {"idle"}
    PROVE  VettedInv'
<1>1. RowVetted'
  <2>1. PICK r : r = reg' /\ Unseen(r)  BY DEF Unseen
  <2>2. Seen(r)'  BY <2>1 DEF Seen, Unseen, CpStatus, BrandStatus, CampaignStatus, Approved
  <2> QED BY <2>1, <2>2 DEF RowVetted, Seen
<1>2. StageVetted(work[w])'
  BY DEF StageVetted, Submitting, Checking
<1> QED BY <1>1, <1>2, OneVetted

LEMMA UnseenPends ==
    ASSUME RowVetted, Unseen(reg) PROVE reg.status # "APPROVED"
  BY DEF RowVetted, Unseen, CpStatus, Approved

LEMMA SubmitsVetted ==
    ASSUME NEW w, Workers = {w}, VettedInv,
           \/ SubmitRow(w) \/ FindAccount(w) \/ Cleanup(w) \/ ForgetSids(w) \/ CreateProfile(w)
           \/ EnterProfile(w) \/ CreateBrand(w) \/ StoreBrand(w) \/ SubmitFails(w)
    PROVE  VettedInv'
<1>0. /\ A2PTypes /\ w \in Workers /\ work[w] \in Work /\ reg \in Row /\ StageVetted(work[w])
      /\ work \in [Workers -> Work]
  BY DEF VettedInv, A2PTypes, A2PTypeOK
<1>1. A2PTypes'
  BY <1>0, SubmitTyped, FindTyped, CleanupTyped, ForgetTyped, ProfileTyped, BrandTyped,
     StoreBrandTyped, SubmitFailsTyped
<1>2. CASE SubmitRow(w)
  <2>1. Unseen(reg)' /\ reg'.status = "PENDING"
    BY <1>0, <1>2 DEF SubmitRow, Unseen, Row, NoStage
  <2>2. work'[w].at = "find"  BY <1>0, <1>2 DEF SubmitRow, Work
  <2> QED BY <1>1, <2>1, <2>2, SubmissionVetted DEF Submitting
<1>3. CASE ~SubmitRow(w)
  <2>1. work[w].at \in Submitting
    BY <1>3 DEF FindAccount, Cleanup, ForgetSids, CreateProfile, EnterProfile, CreateBrand,
         StoreBrand, SubmitFails, At, Submitting
  <2>2. Unseen(reg) /\ reg.status # "APPROVED"
    BY <1>0, <2>1, UnseenPends DEF StageVetted, VettedInv
  <2>3. reg'.cp = reg.cp /\ reg'.br = reg.br /\ reg'.ca = reg.ca
        /\ reg'.status \in {reg.status, "PENDING", "NOT_STARTED"}
    BY <1>0, <1>3 DEF FindAccount, Cleanup, ForgetSids, CreateProfile, EnterProfile, CreateBrand,
         StoreBrand, SubmitFails, Row
  <2>4. work'[w].at \in Submitting \cup {"idle"}
    BY <1>0, <1>3 DEF FindAccount, Cleanup, ForgetSids, CreateProfile, EnterProfile, CreateBrand,
         StoreBrand, SubmitFails, Goto, Done, Resting, Work, Submitting
  <2> QED BY <1>1, <2>2, <2>3, <2>4, SubmissionVetted DEF Unseen
<1> QED BY <1>2, <1>3

\* A step of a check that leaves the row alone.
LEMMA CheckingVetted ==
    ASSUME NEW w, Workers = {w}, VettedInv, A2PTypes', UNCHANGED reg, Keeps, StageVetted(work[w])'
    PROVE  VettedInv'
<1>1. PICK r : r = reg /\ Seen(r)  BY DEF VettedInv, RowVetted
<1>2. Seen(r)'  BY <1>1, SeenStays DEF VettedInv
<1>3. RowVetted'  BY <1>1, <1>2 DEF VettedInv, RowVetted, Seen
<1> QED BY <1>3, OneVetted

LEMMA TwilioKeeps == ASSUME UNCHANGED atTwilio PROVE Keeps  BY DEF Keeps, atTwilio

LEMMA CheckVetted == ASSUME NEW w, Workers = {w}, VettedInv, Check(w) PROVE VettedInv'
<1>0. A2PTypes /\ w \in Workers /\ work \in [Workers -> Work] /\ reg \in Row /\ Seen(reg)
  BY DEF VettedInv, A2PTypes, A2PTypeOK, RowVetted
<1>1. A2PTypes' /\ UNCHANGED <<atTwilio, reg>>  BY <1>0, CheckTyped DEF Check
<1>2. PICK r : r = [reg EXCEPT !.cp.retriable = "null", !.br.retriable = "null",
                               !.ca.retriable = "null"]
  OBVIOUS
<1>3. /\ r.profileSid = reg.profileSid /\ r.brandSid = reg.brandSid
      /\ r.campaignSid = reg.campaignSid /\ r.cp.status = reg.cp.status
      /\ r.br.status = reg.br.status /\ r.ca.status = reg.ca.status
  BY <1>0, <1>2 DEF Row, Stage
<1>4. work'[w].at = "checkProfile" /\ work'[w].reg = r
  BY <1>0, <1>2 DEF Check, Work
<1>5. Seen(r)'  BY <1>0, <1>1, <1>3 DEF Seen, atTwilio
<1>6. StageVetted(work[w])'
  BY <1>1, <1>3, <1>4, <1>5 DEF StageVetted, Submitting, Checking, Seen
<1> QED BY <1>1, <1>6, CheckingVetted, TwilioKeeps

\* The worker goes on with its check, having seen no more.
LEMMA GoesOnVetted ==
    ASSUME NEW w, Workers = {w}, VettedInv, A2PTypes', UNCHANGED reg, Keeps,
           NEW stage \in {"checkBrand", "checkCampaign", "write", "phase2Store"},
           work[w].at \in Checking, work'[w].at = stage, work'[w].reg = work[w].reg,
           stage = "checkBrand" => work[w].at = "checkProfile",
           stage = "phase2Store" => work[w].at = "phase2"
    PROVE  VettedInv'
<1>1. PICK x : x = work[w] /\ StageVetted(x)  BY DEF VettedInv
<1>2. PICK r : r = x.reg /\ Seen(r)  BY <1>1 DEF StageVetted
<1>3. Seen(r)'  BY <1>2, SeenStays DEF VettedInv
<1>4. StageVetted(work[w])'
  BY <1>1, <1>2, <1>3 DEF StageVetted, Submitting, Checking, Seen
<1> QED BY <1>4, CheckingVetted

LEMMA ProbesVetted ==
    ASSUME NEW w, Workers = {w}, VettedInv, CheckThrows(w) \/ CheckProfile(w) PROVE VettedInv'
<1>0. /\ A2PTypes /\ w \in Workers /\ work \in [Workers -> Work] /\ work[w].reg \in Row
      /\ UNCHANGED <<atTwilio, reg>> /\ work[w].at \in Checking
      /\ StageVetted(work[w])
  BY DEF VettedInv, A2PTypes, A2PTypeOK, Work, CheckThrows, CheckProfile, At, Checking
<1>1. A2PTypes' /\ Keeps  BY <1>0, CheckThrowsTyped, CheckProfileTyped, TwilioKeeps
<1>2. CASE CheckThrows(w)
  <2>1. work'[w].at = "write" /\ work'[w].reg = work[w].reg
    BY <1>0, <1>2 DEF CheckThrows, Goto, Work
  <2> QED BY <1>0, <1>1, <2>1, GoesOnVetted
<1>3. CASE CheckProfile(w)
  <2>1. PICK r : r = work[w].reg /\ r \in Row  BY <1>0
  <2>2. Seen(r) /\ r.profileSid = reg.profileSid /\ r.brandSid = reg.brandSid
        /\ r.campaignSid = reg.campaignSid /\ work[w].at = "checkProfile"
    BY <1>0, <1>3, <2>1 DEF StageVetted, CheckProfile, At
  <2>3. CASE \E stage \in {"checkBrand", "write"} : Goto(w, stage)
    <3>1. PICK stage \in {"checkBrand", "write"} : Goto(w, stage)  BY <2>3
    <3>2. work'[w].at = stage /\ work'[w].reg = work[w].reg  BY <1>0, <3>1 DEF Goto, Work
    <3> QED BY <1>0, <1>1, <2>2, <3>2, GoesOnVetted
  <2>4. CASE ~\E stage \in {"checkBrand", "write"} : Goto(w, stage)
    <3>1. PICK v, b :
            /\ v = classifyCustomerProfile(profile[r.profileSid])
            /\ b = (r.approved \/ profile[r.profileSid] = "twilio-approved")
      OBVIOUS
    <3>2. /\ r.profileSid # None
          /\ work' = [work EXCEPT ![w].at = "checkBrand", ![w].reg.cp = v, ![w].reg.approved = b]
      BY <1>3, <2>1, <2>4, <3>1 DEF CheckProfile
    <3>3. /\ work'[w].at = "checkBrand"
          /\ work'[w].reg = [r EXCEPT !.cp = v, !.approved = b]
      BY <1>0, <2>1, <3>2 DEF Work, Row
    <3>4. PICK q : q = work'[w].reg  OBVIOUS
    <3>5. /\ q.cp.status = profile[r.profileSid] /\ q.br = r.br /\ q.ca = r.ca
          /\ q.profileSid = r.profileSid /\ q.brandSid = r.brandSid /\ q.campaignSid = r.campaignSid
      BY <2>1, <3>1, <3>3, <3>4 DEF Row, classifyCustomerProfile, unrejected
    <3>6. Seen(q)'  BY <1>0, <2>2, <3>2, <3>5 DEF Seen, atTwilio
    <3>7. StageVetted(work[w])'
      BY <1>0, <2>2, <3>3, <3>4, <3>5, <3>6 DEF StageVetted, Submitting, Checking, Seen
    <3> QED BY <1>0, <1>1, <3>7, CheckingVetted
  <2> QED BY <2>3, <2>4
<1> QED BY <1>2, <1>3

LEMMA CheckBrandVetted == ASSUME NEW w, Workers = {w}, VettedInv, CheckBrand(w) PROVE VettedInv'
<1>0. /\ A2PTypes /\ w \in Workers /\ work \in [Workers -> Work] /\ work[w].reg \in Row
      /\ UNCHANGED <<atTwilio, reg>> /\ work[w].at = "checkBrand"
      /\ StageVetted(work[w])
  BY DEF VettedInv, A2PTypes, A2PTypeOK, Work, CheckBrand, At
<1>1. A2PTypes' /\ Keeps  BY <1>0, CheckBrandTyped, TwilioKeeps
<1>2. PICK r : r = work[w].reg /\ r \in Row  BY <1>0
<1>3. Seen(r) /\ r.profileSid = reg.profileSid /\ r.brandSid = reg.brandSid
      /\ r.campaignSid = reg.campaignSid
  BY <1>0, <1>2 DEF StageVetted, Checking
<1>4. CASE Goto(w, "checkCampaign")
  <2>1. work'[w].at = "checkCampaign" /\ work'[w].reg = work[w].reg
    BY <1>0, <1>4 DEF Goto, Work
  <2> QED BY <1>0, <1>1, <2>1, GoesOnVetted DEF Checking
<1>5. CASE ~Goto(w, "checkCampaign")
  <2>1. /\ r.brandSid # None
        /\ work'[w].at \in {"phase2", "checkCampaign"}
        /\ work'[w].at = "phase2" => r.campaignSid = None
        /\ work'[w].reg = [r EXCEPT !.br = classify(brand[r.brandSid])]
    BY <1>0, <1>2, <1>5 DEF CheckBrand, Work, Row
  <2>2. PICK q : q = work'[w].reg  OBVIOUS
  <2>3. /\ q.br.status = "APPROVED" => brand[r.brandSid].status = "APPROVED"
        /\ q.cp = r.cp /\ q.ca = r.ca
        /\ q.profileSid = r.profileSid /\ q.brandSid = r.brandSid /\ q.campaignSid = r.campaignSid
    BY <1>2, <2>1, <2>2 DEF Row, classify, unrejected
  <2>4. Seen(q)'  BY <1>0, <1>3, <2>1, <2>3 DEF Seen, atTwilio
  <2>5. StageVetted(work[w])'
    BY <1>0, <1>3, <2>1, <2>2, <2>3, <2>4 DEF StageVetted, Submitting, Checking, Seen
  <2> QED BY <1>0, <1>1, <2>5, CheckingVetted
<1> QED BY <1>4, <1>5

\* Creating a campaign takes nothing from one that is verified.
LEMMA CreationKeepsVetted ==
    ASSUME A2PTypes, NEW w, NEW stage, NEW next, CreatesCampaign(w, stage, next) PROVE Keeps
<1>1. PICK c \in Campaigns : c = New(FreshCampaigns) /\ campaign[c].status = "none"
  BY DEF CreatesCampaign, FreshCampaigns, New
<1> QED BY <1>1 DEF CreatesCampaign, Keeps, A2PTypes, A2PTypeOK

LEMMA Phase2Vetted ==
    ASSUME NEW w, Workers = {w}, VettedInv, Phase2(w) \/ Phase2Fails(w) PROVE VettedInv'
<1>0. /\ A2PTypes /\ w \in Workers /\ work \in [Workers -> Work] /\ UNCHANGED reg
      /\ work[w].at = "phase2"
  BY DEF VettedInv, A2PTypes, A2PTypeOK, Phase2, CreatesCampaign, Phase2Fails, At
<1>1. A2PTypes'  BY <1>0, CampaignTyped, Phase2FailsTyped
<1>2. Keeps  BY <1>0, CreationKeepsVetted, TwilioKeeps DEF Phase2, Phase2Fails
<1>3. PICK stage \in {"phase2Store", "checkCampaign"} :
        work'[w].at = stage /\ work'[w].reg = work[w].reg
  BY <1>0 DEF Phase2, CreatesCampaign, Phase2Fails, Goto, Work
<1> QED BY <1>0, <1>1, <1>2, <1>3, GoesOnVetted DEF Checking

LEMMA Phase2StoresVetted ==
    ASSUME NEW w, Workers = {w}, VettedInv, Phase2Stores(w) PROVE VettedInv'
<1>0. /\ A2PTypes /\ w \in Workers /\ work \in [Workers -> Work] /\ reg \in Row
      /\ UNCHANGED atTwilio /\ work[w].at = "phase2Store" /\ StageVetted(work[w]) /\ RowVetted
  BY DEF VettedInv, A2PTypes, A2PTypeOK, Phase2Stores, StoresCampaign, At
<1>1. A2PTypes'  BY <1>0, StoreCampaignTyped
<1>2. PICK r : r = work[w].reg  OBVIOUS
<1>3. /\ Seen(r) /\ r.profileSid = reg.profileSid /\ r.brandSid = reg.brandSid
      /\ r.campaignSid = None /\ reg.campaignSid = None
  BY <1>0, <1>2 DEF StageVetted, Checking
<1>4. /\ reg'.profileSid = reg.profileSid /\ reg'.brandSid = reg.brandSid
      /\ reg'.cp = reg.cp /\ reg'.br = reg.br /\ reg'.ca.status = "IN_PROGRESS"
      /\ reg'.status = "PENDING"
      /\ work'[w].at = "checkCampaign" /\ work'[w].reg = r
  BY <1>0, <1>2 DEF Phase2Stores, StoresCampaign, Goto, Work, Row
<1>5. Seen(r)'  BY <1>0, <1>3, <1>4 DEF Seen, atTwilio
<1>6. RowVetted'  BY <1>0, <1>4 DEF RowVetted, Seen, atTwilio
<1>7. StageVetted(work[w])'
  BY <1>3, <1>4, <1>5 DEF StageVetted, Submitting, Checking, Seen
<1> QED BY <1>1, <1>6, <1>7, OneVetted

LEMMA CheckCampaignVetted ==
    ASSUME NEW w, Workers = {w}, VettedInv, CheckCampaign(w) PROVE VettedInv'
<1>0. /\ A2PTypes /\ w \in Workers /\ work \in [Workers -> Work] /\ work[w].reg \in Row
      /\ UNCHANGED <<atTwilio, reg>> /\ work[w].at = "checkCampaign"
      /\ StageVetted(work[w])
  BY DEF VettedInv, A2PTypes, A2PTypeOK, Work, CheckCampaign, At
<1>1. A2PTypes' /\ Keeps  BY <1>0, CheckCampaignTyped, TwilioKeeps
<1>2. PICK r : r = work[w].reg /\ r \in Row  BY <1>0
<1>3. Seen(r) /\ r.profileSid = reg.profileSid /\ r.brandSid = reg.brandSid
      /\ (r.campaignSid # None => r.campaignSid = reg.campaignSid)
  BY <1>0, <1>2 DEF StageVetted, Checking
<1>4. CASE Goto(w, "write")
  <2>1. work'[w].at = "write" /\ work'[w].reg = work[w].reg  BY <1>0, <1>4 DEF Goto, Work
  <2> QED BY <1>0, <1>1, <2>1, GoesOnVetted DEF Checking
<1>5. CASE ~Goto(w, "write")
  <2>1. PICK c : /\ c = IF reg.campaignSid # None THEN reg.campaignSid ELSE r.campaignSid
                 /\ c # None
                 /\ work' = [work EXCEPT ![w].at = "write", ![w].reg.ca = classify(campaign[c])]
    BY <1>2, <1>5 DEF CheckCampaign
  <2>2. c = reg.campaignSid  BY <1>3, <2>1
  <2>3. work'[w].at = "write" /\ work'[w].reg = [r EXCEPT !.ca = classify(campaign[c])]
    BY <1>0, <1>2, <2>1 DEF Work, Row
  <2>4. PICK q : q = work'[w].reg  OBVIOUS
  <2>5. /\ q.ca.status = "VERIFIED" => campaign[c].status = "VERIFIED"
        /\ q.cp = r.cp /\ q.br = r.br
        /\ q.profileSid = r.profileSid /\ q.brandSid = r.brandSid /\ q.campaignSid = r.campaignSid
    BY <1>2, <2>3, <2>4 DEF Row, classify, unrejected
  <2>6. Seen(q)'  BY <1>0, <1>3, <2>1, <2>2, <2>5 DEF Seen, atTwilio
  <2>7. StageVetted(work[w])'
    BY <1>0, <1>3, <2>3, <2>4, <2>5, <2>6 DEF StageVetted, Submitting, Checking, Seen
  <2> QED BY <1>0, <1>1, <2>7, CheckingVetted
<1> QED BY <1>4, <1>5

\* What was seen becomes the row's; approved is what all three stages are.
LEMMA WritesVetted == ASSUME NEW w, Workers = {w}, VettedInv, CheckWrites(w) PROVE VettedInv'
<1>0. /\ A2PTypes /\ w \in Workers /\ work \in [Workers -> Work] /\ work[w].reg \in Row
      /\ reg \in Row /\ UNCHANGED atTwilio /\ work[w].at = "write" /\ StageVetted(work[w])
  BY DEF VettedInv, A2PTypes, A2PTypeOK, Work, CheckWrites, At
<1>1. A2PTypes'  BY <1>0, CheckWritesTyped
<1>2. PICK r : r = work[w].reg /\ r \in Row /\ Seen(r)  BY <1>0 DEF StageVetted, Checking
<1>3. /\ reg'.profileSid = reg.profileSid /\ reg'.brandSid = reg.brandSid
      /\ reg'.campaignSid = reg.campaignSid
      /\ reg'.cp = r.cp /\ reg'.br = r.br /\ reg'.ca = r.ca
      /\ reg'.status = deriveRollupStatus(r.cp.status, r.br.status, r.ca.status)
  BY <1>0, <1>2 DEF CheckWrites, Row
<1>4. RowVetted'
  BY <1>0, <1>2, <1>3 DEF RowVetted, Seen, atTwilio, deriveRollupStatus, Approved
<1>5. work'[w].at = "idle"  BY <1>0 DEF CheckWrites, Done, Resting
<1>6. StageVetted(work[w])'  BY <1>5 DEF StageVetted, Submitting, Checking
<1> QED BY <1>1, <1>4, <1>6, OneVetted

\* Resubmissions.
LEMMA ResubmitsVetted ==
    ASSUME NEW w, Workers = {w}, VettedInv,
           resubmitCustomerProfile(w) \/ resubmitBrand(w) \/ resubmitCampaign(w)
    PROVE  VettedInv'
<1>0. A2PTypes /\ w \in Workers /\ work \in [Workers -> Work] /\ UNCHANGED <<atTwilio, reg>>
  BY DEF VettedInv, A2PTypes, A2PTypeOK, Resubmits, resubmitCustomerProfile, resubmitBrand,
         resubmitCampaign
<1>1. A2PTypes'  BY <1>0, ResubmitsTyped
<1>2. \/ work'[w].at = "dropProfile" /\ reg.cp.status = "twilio-rejected"
      \/ work'[w].at = "clearBrand" /\ reg.br.status = "FAILED"
      \/ work'[w].at = "clearCampaign" /\ reg.ca.status = "FAILED"
  BY <1>0 DEF Resubmits, resubmitCustomerProfile, resubmitBrand, resubmitCampaign, Work
<1>3. StageVetted(work[w])'  BY <1>0, <1>2 DEF StageVetted, Submitting, Checking
<1> QED BY <1>0, <1>1, <1>3, CheckingVetted, TwilioKeeps

LEMMA DropsVetted ==
    ASSUME NEW w, Workers = {w}, VettedInv,
           \/ DropProfile(w) \/ ClearBrand(w) \/ ClearCampaign(w) \/ RemoveCampaign(w)
           \/ RecreateCampaign(w) \/ RestoreCampaign(w) \/ RecreateFails(w)
    PROVE  VettedInv'
<1>0. /\ A2PTypes /\ w \in Workers /\ work \in [Workers -> Work] /\ reg \in Row
      /\ StageVetted(work[w]) /\ RowVetted /\ UNCHANGED <<profile, brand>>
  BY DEF VettedInv, A2PTypes, A2PTypeOK, DropProfile, ClearBrand, ClearCampaign, RemoveCampaign,
         RecreateCampaign, RestoreCampaign, RecreateFails, CreatesCampaign, StoresCampaign, atTwilio
<1>1. A2PTypes'
  BY <1>0, DropsTyped, RemoveTyped, CampaignTyped, StoreCampaignTyped, Phase2FailsTyped
<1>2. CASE DropProfile(w)
  <2>1. /\ reg.cp.status = "twilio-rejected" /\ reg'.cp = reg.cp /\ reg'.br = reg.br
        /\ reg'.ca = reg.ca /\ reg'.status = reg.status /\ reg'.brandSid = reg.brandSid
        /\ reg'.campaignSid = reg.campaignSid /\ UNCHANGED campaign
        /\ work'[w].at = "submit"
    BY <1>0, <1>2 DEF DropProfile, At, Goto, StageVetted, Row, Work, atTwilio
  <2>2. RowVetted'  BY <1>0, <2>1 DEF RowVetted, Seen, Approved
  <2>3. StageVetted(work[w])'  BY <2>1 DEF StageVetted, Submitting, Checking
  <2> QED BY <1>1, <2>2, <2>3, OneVetted
<1>3. CASE ClearBrand(w)
  <2>1. /\ reg.br.status = "FAILED" /\ reg'.cp = reg.cp /\ reg'.br.status = None
        /\ reg'.ca = reg.ca /\ reg'.status = reg.status /\ reg'.brandSid = reg.brandSid
        /\ reg'.profileSid = reg.profileSid /\ reg'.campaignSid = reg.campaignSid
        /\ UNCHANGED campaign /\ work'[w].at = "submit"
    BY <1>0, <1>3 DEF ClearBrand, At, Goto, StageVetted, Row, Work, atTwilio, NoStage
  <2>2. RowVetted'  BY <1>0, <2>1 DEF RowVetted, Seen, BrandStatus
  <2>3. StageVetted(work[w])'  BY <2>1 DEF StageVetted, Submitting, Checking
  <2> QED BY <1>1, <2>2, <2>3, OneVetted
<1>4. CASE ClearCampaign(w)
  <2>1. /\ reg.ca.status = "FAILED" /\ reg'.cp = reg.cp /\ reg'.ca.status = None
        /\ reg'.br = reg.br /\ reg'.status = reg.status /\ reg'.brandSid = reg.brandSid
        /\ reg'.profileSid = reg.profileSid /\ work'[w].at = "removeCampaign"
    BY <1>0, <1>4 DEF ClearCampaign, At, Goto, StageVetted, Row, Work, NoStage
  <2>2. RowVetted'  BY <1>0, <2>1 DEF RowVetted, Seen, CampaignStatus
  <2>3. StageVetted(work[w])'  BY <2>1 DEF StageVetted, Submitting, Checking
  <2> QED BY <1>1, <2>2, <2>3, OneVetted
<1>5. CASE RemoveCampaign(w) \/ RecreateCampaign(w) \/ RecreateFails(w)
  <2>1. /\ reg.ca.status = None /\ UNCHANGED reg
        /\ work'[w].at \in {"recreate", "restore", "idle"}
    BY <1>0, <1>5 DEF RemoveCampaign, RecreateCampaign, RecreateFails, CreatesCampaign, At, Goto,
         Done, Resting, StageVetted, Work
  <2>2. RowVetted'  BY <1>0, <2>1 DEF RowVetted, Seen, CampaignStatus
  <2>3. StageVetted(work[w])'  BY <2>1 DEF StageVetted, Submitting, Checking
  <2> QED BY <1>1, <2>2, <2>3, OneVetted
<1>6. CASE RestoreCampaign(w)
  <2>1. /\ reg'.cp = reg.cp /\ reg'.br = reg.br /\ reg'.ca.status = "IN_PROGRESS"
        /\ reg'.status = "PENDING" /\ reg'.brandSid = reg.brandSid
        /\ reg'.profileSid = reg.profileSid /\ work'[w].at = "idle"
    BY <1>0, <1>6 DEF RestoreCampaign, StoresCampaign, Done, Resting, Row
  <2>2. RowVetted'  BY <1>0, <2>1 DEF RowVetted, Seen
  <2>3. StageVetted(work[w])'  BY <2>1 DEF StageVetted, Submitting, Checking
  <2> QED BY <1>1, <2>2, <2>3, OneVetted
<1> QED BY <1>2, <1>3, <1>4, <1>5, <1>6

LEMMA CrashVetted == ASSUME NEW w, Workers = {w}, VettedInv, CrashWorkers PROVE VettedInv'
<1>1. A2PTypes'  BY CrashTyped DEF VettedInv
<1>2. UNCHANGED <<atTwilio, reg>> /\ work'[w] = Resting  BY DEF CrashWorkers
<1>3. StageVetted(work[w])'  BY <1>2 DEF StageVetted, Resting, Submitting, Checking
<1> QED BY <1>1, <1>2, <1>3, CheckingVetted, TwilioKeeps

LEMMA VettedNext ==
    ASSUME NEW w, Workers = {w} PROVE VettedInv /\ [A2PNext]_a2pVars => VettedInv'
<1> SUFFICES ASSUME VettedInv, [A2PNext]_a2pVars PROVE VettedInv'  OBVIOUS
<1>1. CASE UNCHANGED a2pVars
  <2>1. A2PTypes'  BY <1>1, A2PTypesNext DEF VettedInv
  <2> QED BY <1>1, <2>1 DEF a2pVars, atTwilio, VettedInv, RowVetted, Seen, StageVetted, Unseen
<1>2. CASE Request(w)  BY <1>2, SubmitsVetted, ResubmitsVetted DEF Request
<1>3. CASE Proceed(w)
  BY <1>3, SubmitsVetted, ProbesVetted, CheckBrandVetted, Phase2Vetted, Phase2StoresVetted,
     CheckCampaignVetted, WritesVetted, DropsVetted DEF Proceed
<1> QED BY <1>1, <1>2, <1>3, ReviewsVetted, CheckVetted, CrashVetted DEF A2PNext

-----------------------------------------------------------------------------
(* What holds of the registration. *)

\* Rows, resources and locals of the registration keep their types: no status
\* that is stored is one that was never given, whatever overlaps or crashes.
THEOREM RegistrationTypeCorrect == A2PSpec => []A2PTypeOK
<1>1. A2PTypes => A2PTypeOK  BY DEF A2PTypes
<1> QED BY <1>1, A2PTypesInit, A2PTypesNext, PTL DEF A2PSpec

\* A registration shown as approved has its profile, brand and campaign
\* approved, through every sequence of submissions, resubmissions, failed
\* probes and crashes, where one request or poll works on it at a time
\* (checkA2PStatus of src/services/a2pRegistrationService.ts).
THEOREM RegistrationVetted ==
    ASSUME NEW w, Workers = {w} PROVE A2PSpec => []ApprovedIsVetted
<1>1. VettedInv => ApprovedIsVetted
  BY DEF VettedInv, RowVetted, Seen, ApprovedIsVetted, Approved
<1>2. VettedInv /\ [A2PNext]_a2pVars => VettedInv'  BY VettedNext
<1> QED BY <1>1, <1>2, VettedInit, PTL DEF A2PSpec
=============================================================================
