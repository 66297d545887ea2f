-------------------------- MODULE AccountProperties --------------------------
(***************************************************************************)
(* What an account promises to a customer who pays, and to the platform     *)
(* that pays Twilio for its numbers.                                        *)
(***************************************************************************)
EXTENDS Accounts

AtRest == due = {} /\ \A p \in Procs : At(p, "idle")
LivePlans == {s \in PlanSubs : stripe[s].status \in {"trialing", "active"} /\ ~stripe[s].closing}

\* Once all events of Stripe are answered, a customer whose plan is live has
\* access, and one without a plan that is paid for has not: isSubscribed, which
\* five handlers write, follows the subscription through every sequence of
\* trial, failure, retry, cancellation and crash.  Not so for a user whom a
\* failed rollback left behind, or a signup that died before it set the flag.
LeftBehind == mishaps \cap {"undo", "cut"} # {}
AccessMirrorsPlan == AtRest /\ user.present /\ ~user.suspended /\ ~LeftBehind =>
    /\ LivePlans # {} => user.isSubscribed
    /\ user.isSubscribed => \E s \in PlanSubs : stripe[s].status \in {"trialing", "active"}

\* A signup is all or nothing: a user with a subscription row once its event is
\* PROCESSED, until the user is deleted; no user, row or number listed once it is
\* FAILED, wherever the provisioning stopped and whether or not the rollback
\* deleted the row.  Two failures break it: a death before the row is there, or
\* while it is undone, since the next delivery finds the user and skips; and a
\* rollback that cannot delete the user.
SignupIsWhole == \A e \in DOMAIN sent : sent[e].type = "signup" =>
    /\ e \in processed /\ ~user.deleted => (user.present /\ rows # <<>>) \/ "cut" \in mishaps
    /\ e \in rejected => (~user.present /\ rows = <<>> /\ Numbers = {}) \/ "undo" \in mishaps

\* When the plan has ended for good, access is taken away for good, though the
\* webhook may die on the way, and the numbers are released, unless the last
\* attempt threw: the webhook logs that, records the event and never tries again.
\* A user left behind without a row is not found when the plan ends.
PlanEnded == NoPlanRuns /\ \E s \in PlanSubs : stripe[s].status = "canceled"
EndedPlanReleased ==
    <>[]PlanEnded => <>[](LeftBehind \/ (~user.isSubscribed /\ (Numbers = {} \/ "release" \in mishaps)))

\* Number n has been released by p, which goes on to delete its row.
Releasing(p, n) ==
    \/ frame[p].at \in {"releasing", "userReleasing"} /\ n \in frame[p].found \ frame[p].todo
    \/ /\ frame[p].at \in {"unpaidRow", "deleteItem", "deleteCount", "deleteRow"}
       /\ frame[p].phone = n
    \/ /\ frame[p].at \in {"cancelAddon", "dropAddon"}
       /\ \/ frame[p].then = "deleteRow" /\ frame[p].phone = n
          \/ frame[p].then = "userRow" /\ n \in frame[p].found
    \/ frame[p].at = "userRow" /\ n \in frame[p].found

\* A caller ID that an agent can pick is a number the account holds at Twilio,
\* although events and requests release and list numbers in any order; but for
\* the numbers of a release whose delete of the rows threw.
LineBacked == \A n \in Numbers :
    twilio[n] = "held" \/ n \in mishaps \/ \E p \in Procs : Releasing(p, n)

\* An add-on subscription that Stripe charges is the one in the account's row,
\* or a purchase is about to write it: no customer pays for a subscription that
\* nothing in the database would ever cancel.  The exception is one whose
\* cancellation Stripe refused: the error is logged and the row dropped.
BilledAddonIsKnown == \A s \in AddonSubs : stripe[s].status \notin {"none", "canceled"} =>
    \/ addonRow = s \/ s \in mishaps
    \/ \E c \in Clients : frame[c].at \in {"addonRow", "addonRowBehalf"} /\ frame[c].sub = s

\* The dialer and the inbox are closed to whoever is neither subscribed nor on
\* trial (src/utils/status.ts).
isFeatureLocked == ~user.isSubscribed /\ user.trial # "ACTIVE"

\* billing/controller.ts says of a cancelled plan "so the user keeps access
\* until the billing cycle ends": nothing is locked while Stripe has the plan
\* active.
CancelledKeepsAccess ==
    AtRest /\ user.present /\ (\E s \in PlanSubs : stripe[s].status = "active")
    => ~isFeatureLocked
=============================================================================
