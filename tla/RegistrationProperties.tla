----------------------- MODULE RegistrationProperties -----------------------
(***************************************************************************)
(* What the registration tells an admin is what Twilio and the carriers     *)
(* have decided.                                                            *)
(***************************************************************************)
EXTENDS Deliverability

RegistrationTypeOK == A2PTypeOK /\ EnrolTypeOK

\* The enrolments beside the registration, whose row and profile may moreover
\* change in any way as far as an enrolment reads them.
EnrolSpec ==
    /\ A2PInit /\ EnrolInit
    /\ [][(A2PNext /\ UNCHANGED enrolVars) \/ (EnrolNext /\ UNCHANGED work)]_<<a2pVars, enrolVars>>

\* A registration that is shown as approved, and is therefore never looked at
\* again, has its profile, its brand and its campaign approved, through every
\* sequence of submissions, resubmissions, failed probes and crashes.
ApprovedIsVetted == reg.status = "APPROVED" =>
    /\ reg.profileSid # None /\ profile[reg.profileSid] = "twilio-approved"
    /\ reg.brandSid # None /\ brand[reg.brandSid].status = "APPROVED"
    /\ reg.campaignSid # None /\ campaign[reg.campaignSid].status = "VERIFIED"

\* A registration whose brand has been sent does not stay pending, although its
\* second phase is started by the poller and may fail or be cut off on the way:
\* it is settled in the end, unless the carriers suspend the brand, or the
\* process died when a resubmission had removed the profile.
Sent == reg.status = "PENDING" /\ reg.brandSid # None
Suspended == \E b \in Brands : brand[b].status = "SUSPENDED"
Orphaned == reg.profileSid = None \/ profile[reg.profileSid] = "removed"
PendingSettles == Sent ~> ~Sent \/ Suspended \/ Orphaned

\* A number flagged as registered is one that Twilio has assigned to a product
\* it has approved.
FlaggedIsApproved == \A n \in Numbers, g \in Programmes : line[n].registered[g] =>
    /\ line[n].sid[g] # None
    /\ product[line[n].sid[g]] = "twilio-approved"
    /\ n \in assigned[line[n].sid[g]]
=============================================================================
