-------------------------------- MODULE A2P --------------------------------
(***************************************************************************)
(* The A2P registration of one admin, which carriers demand before they     *)
(* deliver a business's text messages (src/services/                        *)
(* a2pRegistrationService.ts).  Three resources are vetted by others, one   *)
(* after the other: the customer profile by Twilio, then the brand and the  *)
(* campaign by the carriers' registry.  A row of the database holds their   *)
(* SIDs, the status of each stage as last seen, and one status of all.      *)
(*                                                                         *)
(* Requests (submit, resubmit one stage, read the status) and the poller    *)
(* that runs every six hours are workers; a worker may be interleaved with  *)
(* the others and with Twilio at every await.                               *)
(***************************************************************************)
EXTENDS Naturals, FiniteSets

CONSTANTS
    Workers,                      \* requests and polls that may overlap
    Profiles, Brands, Campaigns,  \* bounds: the resources Twilio will create
    MaxFaults,                    \* bound: failures and crashes
    None

VARIABLES
    profile, brand, campaign,     \* the resources at Twilio
    reg,                          \* the A2P_Registration row
    work,                         \* the local variables of each worker
    faults                        \* how many failures there were

atTwilio == <<profile, brand, campaign>>
a2pVars == <<atTwilio, reg, work, faults>>

-----------------------------------------------------------------------------

CpStatus == {"draft", "pending-review", "in-review", "twilio-approved", "twilio-rejected"}
BrandStatus == {"PENDING", "IN_REVIEW", "APPROVED", "FAILED", "SUSPENDED"}
CampaignStatus == {"IN_PROGRESS", "VERIFIED", "FAILED"}
Absent == {"none", "removed"}

ASSUME A2PAssumption ==
    /\ MaxFaults \in Nat
    /\ None \notin Profiles \cup Brands \cup Campaigns
    /\ None \notin CpStatus \cup BrandStatus \cup CampaignStatus

\* Why the registry refused: only some reasons may be tried again.
Reasons == {"", "mismatch", "prohibited"}

\* What the row says of a stage; retriable is null, yes or no.
Retriable == {"null", "yes", "no"}
Stage(statuses) == [status : statuses \cup {None}, retriable : Retriable]
NoStage == [status |-> None, retriable |-> "null"]

Row == [status : {"none", "NOT_STARTED", "PENDING", "APPROVED", "REJECTED"},
        profileSid : Profiles \cup {None}, brandSid : Brands \cup {None},
        service : BOOLEAN, campaignSid : Campaigns \cup {None},
        approved : BOOLEAN,          \* customerProfileApproved
        cp : Stage(CpStatus), br : Stage(BrandStatus), ca : Stage(CampaignStatus)]
NoRow == [status |-> "none", profileSid |-> None, brandSid |-> None, service |-> FALSE,
          campaignSid |-> None, approved |-> FALSE,
          cp |-> NoStage, br |-> NoStage, ca |-> NoStage]

Submitting == {"find", "cleanup", "nulls", "profile", "enter", "brand", "store"}
Checking == {"checkProfile", "checkBrand", "phase2", "phase2Store", "checkCampaign", "write"}
Resubmitting == {"dropProfile", "clearBrand", "submit",
                 "clearCampaign", "removeCampaign", "recreate", "restore"}
Work == [at : {"idle"} \cup Submitting \cup Checking \cup Resubmitting,
         reg : Row,                       \* the row as it was read
         sid : Profiles \cup Brands \cup Campaigns \cup {None},
         brandSid : Brands \cup {None}]
Resting == [at |-> "idle", reg |-> NoRow, sid |-> None, brandSid |-> None]

A2PTypeOK ==
    /\ profile \in [Profiles -> CpStatus \cup Absent]
    /\ brand \in [Brands -> [status : BrandStatus \cup Absent, reason : Reasons]]
    /\ campaign \in [Campaigns -> [status : CampaignStatus \cup Absent, reason : Reasons]]
    /\ reg \in Row
    /\ work \in [Workers -> Work]
    /\ faults \in 0..MaxFaults

A2PInit ==
    /\ profile = [s \in Profiles |-> "none"]
    /\ brand = [s \in Brands |-> [status |-> "none", reason |-> ""]]
    /\ campaign = [s \in Campaigns |-> [status |-> "none", reason |-> ""]]
    /\ reg = NoRow
    /\ work = [w \in Workers |-> Resting]
    /\ faults = 0

-----------------------------------------------------------------------------
(* Twilio and the registry decide. *)

Reviews ==
    \/ \E s \in Profiles :
         /\ profile[s] \in {"pending-review", "in-review"}
         /\ \E to \in {"in-review", "twilio-approved", "twilio-rejected"} \ {profile[s]} :
              profile' = [profile EXCEPT ![s] = to]
         /\ UNCHANGED <<brand, campaign>>
    \/ \E s \in Brands, reason \in Reasons :
         /\ brand[s].status \in {"PENDING", "IN_REVIEW"}
         /\ \E to \in {"IN_REVIEW", "APPROVED", "SUSPENDED", "FAILED"} \ {brand[s].status} :
              /\ (reason # "") <=> (to = "FAILED")
              /\ brand' = [brand EXCEPT ![s] = [status |-> to, reason |-> reason]]
         /\ UNCHANGED <<profile, campaign>>
    \/ \E s \in Campaigns, reason \in Reasons :
         /\ campaign[s].status = "IN_PROGRESS"
         /\ campaign' = [campaign EXCEPT ![s] =
                [status |-> IF reason = "" THEN "VERIFIED" ELSE "FAILED", reason |-> reason]]
         /\ UNCHANGED <<profile, brand>>

-----------------------------------------------------------------------------
(* The verdicts (src/services/a2pFailureClassifier.ts): what may be tried   *)
(* again.  An unknown reason may, and so may every rejected profile.        *)

unrejected(status) == [status |-> status, retriable |-> "null"]

classifyCustomerProfile(status) ==
    IF status # "twilio-rejected" THEN unrejected(status)
    ELSE [status |-> status, retriable |-> "yes"]

classify(resource) ==
    IF resource.status # "FAILED" THEN unrejected(resource.status)
    ELSE [status |-> "FAILED",
          retriable |-> IF resource.reason = "prohibited" THEN "no" ELSE "yes"]

\* A rejection of any stage wins; approval needs all three.
deriveRollupStatus(cp, br, ca) ==
    IF cp = "twilio-rejected" \/ br = "FAILED" \/ ca = "FAILED" THEN "REJECTED"
    ELSE IF cp = "twilio-approved" /\ br = "APPROVED" /\ ca = "VERIFIED" THEN "APPROVED"
    ELSE "PENDING"

-----------------------------------------------------------------------------

At(w, stage) == work[w].at = stage
Goto(w, stage) == work' = [work EXCEPT ![w].at = stage]
Done(w) == work' = [work EXCEPT ![w] = Resting]

Fault == faults < MaxFaults /\ faults' = faults + 1
NoFault == UNCHANGED faults

FreshProfiles == {s \in Profiles : profile[s] = "none"}
FreshBrands == {s \in Brands : brand[s].status = "none"}
FreshCampaigns == {s \in Campaigns : campaign[s].status = "none"}

\* A new SID differs from all others; which one it is does not matter.
New(sids) == CHOOSE s \in sids : TRUE

\* Bound: nothing is begun, or created, that Twilio's resources would not suffice for.
Enough == FreshProfiles # {} /\ FreshBrands # {} /\ FreshCampaigns # {}

-----------------------------------------------------------------------------
(* submitA2PRegistration. *)

\* Mutant: the stages keep what was last seen.
SubmitRowKept(w) ==
    /\ (At(w, "idle") /\ Enough) \/ At(w, "submit")
    /\ reg' = [reg EXCEPT !.status = "PENDING"]
    /\ work' = [work EXCEPT ![w].at = "find", ![w].reg = reg']
    /\ NoFault /\ UNCHANGED atTwilio

\* The row is pending and every stage forgotten; the SIDs stay.
SubmitRow(w) ==
    /\ (At(w, "idle") /\ Enough) \/ At(w, "submit")
    /\ reg' = [reg EXCEPT !.status = "PENDING", !.cp = NoStage, !.br = NoStage, !.ca = NoStage]
    /\ work' = [work EXCEPT ![w].at = "find", ![w].reg = reg']
    /\ NoFault /\ UNCHANGED atTwilio

\* The admin's sub-account; without one an error is answered.
FindAccount(w) ==
    /\ At(w, "find")
    /\ \/ Goto(w, "cleanup") /\ NoFault
       \/ Done(w) /\ Fault
    /\ UNCHANGED <<atTwilio, reg>>

Preserved == {"pending-review", "in-review", "twilio-approved"}

\* A profile that is approved or under review is kept; any other, or one that
\* cannot be fetched, is removed if Twilio lets it.
Cleanup(w) ==
    LET old == work[w].reg.profileSid IN
    /\ At(w, "cleanup")
    /\ \/ /\ old = None
          /\ Goto(w, "nulls")
          /\ NoFault /\ UNCHANGED profile
       \/ /\ old # None /\ profile[old] \in Preserved
          /\ work' = [work EXCEPT ![w].at = "nulls", ![w].sid = old]
          /\ NoFault /\ UNCHANGED profile
       \/ /\ old # None
          /\ IF profile[old] \in Preserved THEN Fault ELSE NoFault
          /\ profile' \in {profile, [profile EXCEPT ![old] = "removed"]}
          /\ Goto(w, "nulls")
    /\ UNCHANGED <<brand, campaign, reg>>

ForgetSids(w) ==
    /\ At(w, "nulls")
    /\ reg' = [reg EXCEPT !.profileSid = work[w].sid, !.brandSid = None,
                          !.service = FALSE, !.campaignSid = None]
    /\ Goto(w, IF work[w].sid = None THEN "profile" ELSE "brand")
    /\ NoFault /\ UNCHANGED atTwilio

\* Steps 1 to 1d, then 1e.
CreateProfile(w) ==
    /\ At(w, "profile") /\ FreshProfiles # {}
    /\ profile' = [profile EXCEPT ![New(FreshProfiles)] = "draft"]
    /\ work' = [work EXCEPT ![w].at = "enter", ![w].sid = New(FreshProfiles)]
    /\ NoFault /\ UNCHANGED <<brand, campaign, reg>>

EnterProfile(w) ==
    /\ At(w, "enter")
    /\ profile' = [profile EXCEPT ![work[w].sid] = "pending-review"]
    /\ Goto(w, "brand")
    /\ NoFault /\ UNCHANGED <<brand, campaign, reg>>

\* Steps 1f and 2: the messaging profile and the brand.
CreateBrand(w) ==
    /\ At(w, "brand") /\ FreshBrands # {}
    /\ brand' = [brand EXCEPT ![New(FreshBrands)].status = "PENDING"]
    /\ work' = [work EXCEPT ![w].at = "store", ![w].brandSid = New(FreshBrands)]
    /\ NoFault /\ UNCHANGED <<profile, campaign, reg>>

StoreBrand(w) ==
    /\ At(w, "store")
    /\ reg' = [reg EXCEPT !.status = "PENDING", !.profileSid = work[w].sid,
                          !.brandSid = work[w].brandSid]
    /\ Done(w)
    /\ NoFault /\ UNCHANGED atTwilio

\* Any of these steps may throw.
SubmitFails(w) ==
    /\ work[w].at \in {"profile", "enter", "brand", "store"}
    /\ reg' = [reg EXCEPT !.status = "NOT_STARTED", !.profileSid = None, !.brandSid = None,
                          !.service = FALSE, !.campaignSid = None]
    /\ Done(w)
    /\ Fault /\ UNCHANGED atTwilio

-----------------------------------------------------------------------------
(* checkA2PStatus: by the poller for a pending row, by a request for any    *)
(* but an approved one.  What it has seen is written in one update.         *)

Check(w) ==
    /\ At(w, "idle") /\ reg.status \notin {"none", "APPROVED"}
    /\ work' = [work EXCEPT ![w].at = "checkProfile",
                  ![w].reg = [reg EXCEPT !.cp.retriable = "null", !.br.retriable = "null",
                                         !.ca.retriable = "null"]]
    /\ NoFault /\ UNCHANGED <<atTwilio, reg>>

\* Any fetch may throw: the rest of the probes is skipped.
CheckThrows(w) ==
    /\ \/ At(w, "checkProfile") /\ work[w].reg.profileSid # None
       \/ At(w, "checkBrand") /\ work[w].reg.brandSid # None
    /\ Goto(w, "write")
    /\ Fault /\ UNCHANGED <<atTwilio, reg>>

CheckProfile(w) ==
    LET s == work[w].reg.profileSid IN
    /\ At(w, "checkProfile")
    /\ IF s = None THEN Goto(w, "checkBrand")
       ELSE IF profile[s] = "removed" THEN Goto(w, "write")
       ELSE work' = [work EXCEPT ![w].at = "checkBrand",
                       ![w].reg.cp = classifyCustomerProfile(profile[s]),
                       ![w].reg.approved = @ \/ profile[s] = "twilio-approved"]
    /\ NoFault /\ UNCHANGED <<atTwilio, reg>>

\* Mutant: phase 2 only when the approval is news.
CheckBrandNews(w) ==
    LET r == work[w].reg IN
    /\ At(w, "checkBrand")
    /\ IF r.brandSid = None \/ r.cp.status = "twilio-rejected" THEN Goto(w, "checkCampaign")
       ELSE work' = [work EXCEPT
                ![w].at = IF /\ brand[r.brandSid].status = "APPROVED" /\ r.campaignSid = None
                             /\ r.br.status # "APPROVED"
                          THEN "phase2" ELSE "checkCampaign",
                ![w].reg.br = classify(brand[r.brandSid])]
    /\ NoFault /\ UNCHANGED <<atTwilio, reg>>

\* A brand that is approved and has no campaign starts phase 2.
CheckBrand(w) ==
    LET r == work[w].reg IN
    /\ At(w, "checkBrand")
    /\ IF r.brandSid = None \/ r.cp.status = "twilio-rejected" THEN Goto(w, "checkCampaign")
       ELSE work' = [work EXCEPT
                ![w].at = IF brand[r.brandSid].status = "APPROVED" /\ r.campaignSid = None
                          THEN "phase2" ELSE "checkCampaign",
                ![w].reg.br = classify(brand[r.brandSid])]
    /\ NoFault /\ UNCHANGED <<atTwilio, reg>>

\* executePhase2: a messaging service and a campaign, then the row.
CreatesCampaign(w, stage, next) ==
    /\ At(w, stage) /\ FreshCampaigns # {}
    /\ campaign' = [campaign EXCEPT ![New(FreshCampaigns)].status = "IN_PROGRESS"]
    /\ work' = [work EXCEPT ![w].at = next, ![w].sid = New(FreshCampaigns)]
    /\ NoFault /\ UNCHANGED <<profile, brand, reg>>

StoresCampaign(w, stage, next) ==
    /\ At(w, stage)
    /\ reg' = [reg EXCEPT !.service = TRUE, !.campaignSid = work[w].sid, !.status = "PENDING",
                          !.ca = [status |-> "IN_PROGRESS", retriable |-> "null"]]
    /\ next
    /\ NoFault /\ UNCHANGED atTwilio

Phase2(w) == CreatesCampaign(w, "phase2", "phase2Store")
Phase2Stores(w) == StoresCampaign(w, "phase2Store", Goto(w, "checkCampaign"))

\* Only the reason is written: the next check tries again.
Phase2Fails(w) ==
    /\ At(w, "phase2")
    /\ Goto(w, "checkCampaign")
    /\ Fault /\ UNCHANGED <<atTwilio, reg>>

\* The row is read again for the SIDs; a fetch that fails is logged.
CheckCampaign(w) ==
    LET c == IF reg.campaignSid # None THEN reg.campaignSid ELSE work[w].reg.campaignSid IN
    /\ At(w, "checkCampaign")
    /\ \/ /\ c # None /\ (reg.service \/ work[w].reg.service)
          /\ campaign[c].status # "removed"
          /\ work' = [work EXCEPT ![w].at = "write", ![w].reg.ca = classify(campaign[c])]
          /\ NoFault
       \/ /\ Goto(w, "write")
          /\ IF c = None THEN NoFault
             ELSE IF campaign[c].status = "removed" THEN NoFault ELSE Fault
    /\ UNCHANGED <<atTwilio, reg>>

CheckWrites(w) ==
    LET r == work[w].reg IN
    /\ At(w, "write")
    /\ reg' = [reg EXCEPT !.status = deriveRollupStatus(r.cp.status, r.br.status, r.ca.status),
                          !.approved = r.approved, !.cp = r.cp, !.br = r.br, !.ca = r.ca]
    /\ Done(w)
    /\ NoFault /\ UNCHANGED atTwilio

-----------------------------------------------------------------------------
(* Resubmissions of one stage.  What they ask of the row is what they read. *)

Resubmits(w, stage) ==
    /\ At(w, "idle") /\ reg.status # "none"
    /\ work' = [work EXCEPT ![w].at = stage, ![w].reg = reg]
    /\ NoFault /\ UNCHANGED <<atTwilio, reg>>

resubmitCustomerProfile(w) ==
    /\ Enough /\ reg.cp.status = "twilio-rejected" /\ reg.cp.retriable # "no"
    /\ Resubmits(w, "dropProfile")

resubmitBrand(w) ==
    /\ Enough /\ reg.br.status = "FAILED" /\ reg.br.retriable # "no" /\ reg.approved
    /\ Resubmits(w, "clearBrand")

resubmitCampaign(w) ==
    /\ FreshCampaigns # {}
    /\ reg.ca.status = "FAILED" /\ reg.ca.retriable # "no"
    /\ reg.brandSid # None /\ reg.br.status = "APPROVED" /\ reg.service
    /\ Resubmits(w, "clearCampaign")

\* The first two go on as a submission, from the row's details.
DropProfile(w) ==
    /\ At(w, "dropProfile")
    /\ reg' = [reg EXCEPT !.profileSid = None]
    /\ Goto(w, "submit")
    /\ NoFault /\ UNCHANGED atTwilio

ClearBrand(w) ==
    /\ At(w, "clearBrand")
    /\ reg' = [reg EXCEPT !.br = NoStage]
    /\ Goto(w, "submit")
    /\ NoFault /\ UNCHANGED atTwilio

ClearCampaign(w) ==
    /\ At(w, "clearCampaign")
    /\ reg' = [reg EXCEPT !.campaignSid = None, !.ca = NoStage]
    /\ Goto(w, "removeCampaign")
    /\ NoFault /\ UNCHANGED atTwilio

\* An error is logged.
RemoveCampaign(w) ==
    LET old == work[w].reg.campaignSid IN
    /\ At(w, "removeCampaign")
    /\ \/ old # None /\ campaign' = [campaign EXCEPT ![old].status = "removed"]
       \/ UNCHANGED campaign
    /\ Goto(w, "recreate")
    /\ NoFault /\ UNCHANGED <<profile, brand, reg>>

RecreateCampaign(w) == CreatesCampaign(w, "recreate", "restore")
RestoreCampaign(w) == StoresCampaign(w, "restore", Done(w))
RecreateFails(w) ==
    /\ At(w, "recreate")
    /\ Done(w)
    /\ Fault /\ UNCHANGED <<atTwilio, reg>>

\* The process dies.
CrashWorkers ==
    /\ work # [w \in Workers |-> Resting]
    /\ work' = [w \in Workers |-> Resting]
    /\ FreshCampaigns # {}
    /\ Fault /\ UNCHANGED <<atTwilio, reg>>

-----------------------------------------------------------------------------

Request(w) ==
    \/ At(w, "idle") /\ SubmitRow(w)
    \/ resubmitCustomerProfile(w) \/ resubmitBrand(w) \/ resubmitCampaign(w)

Proceed(w) ==
    \/ At(w, "submit") /\ SubmitRow(w)
    \/ FindAccount(w) \/ Cleanup(w) \/ ForgetSids(w) \/ CreateProfile(w) \/ EnterProfile(w)
    \/ CreateBrand(w) \/ StoreBrand(w) \/ SubmitFails(w)
    \/ CheckThrows(w) \/ CheckProfile(w) \/ CheckBrand(w) \/ Phase2(w) \/ Phase2Stores(w)
    \/ Phase2Fails(w) \/ CheckCampaign(w) \/ CheckWrites(w)
    \/ DropProfile(w) \/ ClearBrand(w) \/ ClearCampaign(w) \/ RemoveCampaign(w)
    \/ RecreateCampaign(w) \/ RestoreCampaign(w) \/ RecreateFails(w)

A2PNext ==
    \/ Reviews /\ UNCHANGED <<reg, work, faults>>
    \/ \E w \in Workers : Request(w) \/ Check(w) \/ Proceed(w)
    \/ CrashWorkers

\* The poller looks at a pending row whenever a worker is free, what has started
\* goes on, and the reviews come to an end.
Polls == reg.status = "PENDING" /\ \E w \in Workers : Check(w)
A2PFairness ==
    /\ WF_a2pVars(Polls)
    /\ WF_a2pVars(Reviews /\ UNCHANGED <<reg, work, faults>>)
    /\ \A w \in Workers : WF_a2pVars(Proceed(w))

A2PSpec == A2PInit /\ [][A2PNext]_a2pVars /\ A2PFairness
=============================================================================
