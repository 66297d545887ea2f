----------------------------- MODULE MCAccounts -----------------------------
(***************************************************************************)
(* Bounds for TLC.  Purchases of a number are interchangeable, and so are   *)
(* the executions of the webhook.                                           *)
(***************************************************************************)
EXTENDS AccountProperties, TLC

Alike == Permutations(Phones) \cup Permutations(Handlers)

\* Bounds of the run "numbers": from MaxEvents on, what Stripe sends is about
\* add-ons, and the signup is delivered twice only before anything else is sent;
\* an error of Stripe comes when the signup is over, and before the last event.
Signing == {h \in Handlers : frame[h].ev = 1}
NumbersBound ==
    /\ \A e \in MaxEvents..Len(sent) : sent[e].sub \in AddonSubs
    /\ Len(sent) = 1 \/ Signing = {} \/ (Signing # Handlers /\ 1 \notin processed)
    /\ Trouble => Signing = {} /\ Len(sent) <= MaxTrouble
=============================================================================
