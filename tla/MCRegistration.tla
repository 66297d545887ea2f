--------------------------- MODULE MCRegistration ---------------------------
(***************************************************************************)
(* Bounds for TLC: a behaviour is of the registration or of the enrolments, *)
(* to which the registration is then any change of what they read of it.    *)
(***************************************************************************)
EXTENDS RegistrationProperties

VARIABLE part
mcVars == <<part, a2pVars, enrolVars>>

MCInit == A2PInit /\ EnrolInit /\ part \in {"registration", "enrolment"}

MCNext ==
    /\ \/ part = "registration" /\ A2PNext /\ UNCHANGED enrolVars
       \/ part = "enrolment" /\ EnrolNext /\ UNCHANGED work
    /\ UNCHANGED part

InPart(A) == part = "registration" /\ A /\ UNCHANGED <<part, enrolVars>>
MCSpec ==
    /\ MCInit /\ [][MCNext]_mcVars
    /\ WF_mcVars(InPart(Polls))
    /\ WF_mcVars(InPart(Reviews /\ UNCHANGED <<reg, work, faults>>))
    /\ \A w \in Workers : WF_mcVars(InPart(Proceed(w)))
=============================================================================
