------------------------------- MODULE CardLife -------------------------------
(***************************************************************************)
(* What the dialer promises about a queue card, whatever the webhooks,     *)
(* timers and database calls in between do: a card is in one place at a    *)
(* time, it is dialed out of the queue only, it comes back to the queue    *)
(* only by waiting for a redial, and it is dialed at most MaxAttempts times *)
(* for every time it is loaded.                                            *)
(***************************************************************************)
EXTENDS Naturals

CONSTANTS Leads, MaxAttempts

VARIABLES place,   \* where each card is
          tries    \* how often it has been dialed

cardVars == <<place, tries>>

Places == {"idle", "queued", "dialing", "waiting"}

CardInit ==
    /\ place = [l \in Leads |-> "idle"]
    /\ tries = [l \in Leads |-> 0]

\* The moves of one card; none of them dials.
Moves(l) ==
    \/ place[l] = "idle" /\ tries[l] = 0 /\ place'[l] = "queued"        \* loaded
    \/ place[l] = "queued" /\ place'[l] = "dialing"                     \* dequeued
    \/ place[l] = "dialing" /\ place'[l] = "idle"                       \* over
    \/ place[l] = "dialing" /\ tries[l] \in 1 .. MaxAttempts - 1
         /\ place'[l] = "waiting"                                       \* not reached
    \/ place[l] = "waiting" /\ place'[l] = "queued"                     \* redial due
    \/ place[l] \in {"queued", "waiting"} /\ place'[l] = "idle"         \* taken out

\* Twilio dials the card.
Dials(l) ==
    /\ place[l] = "dialing" /\ place'[l] = "dialing"
    /\ tries[l] < MaxAttempts /\ tries'[l] = tries[l] + 1

Stays(l) == place'[l] = place[l] /\ tries'[l] = tries[l]

\* One step of the dialer may move several cards, each by one move.
CardNext ==
    \A l \in Leads : Stays(l) \/ Dials(l) \/ (Moves(l) /\ tries'[l] = tries[l])

CardSpec == CardInit /\ [][CardNext]_cardVars
=============================================================================
