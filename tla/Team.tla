--------------------------------- MODULE Team ---------------------------------
(***************************************************************************)
(* The agents of one admin: their seats, of which the plan includes SeatCap *)
(* and further ones are bought (src/routes/agentSeats,                      *)
(* src/services/agentSeatBilling.service.ts), their creation by either of    *)
(* two paths and their removal by any of four (src/lib/auth.ts,             *)
(* src/routes/user), the seats that are never paid for                      *)
(* (src/routes/webhooks/stripe.ts) and the nightly job that removes old      *)
(* calls and agents who stayed away (src/services/retention.service.ts).     *)
(*                                                                         *)
(* Handlers read, wait for Stripe or R2, and write; none of them holds a     *)
(* lock.  The client passes the id of a seat that was bought on to the       *)
(* request that creates the agent.                                          *)
(***************************************************************************)
EXTENDS Naturals, FiniteSets

CONSTANTS
    Agents,           \* ids (and e-mail addresses) of agents: 1..n
    Seats, SeatSubs,  \* Stripe's ids of seats and of seat subscriptions
    Makers, Buyers, Erasers,  \* requests and jobs that run at the same time
    SeatCap,          \* the agents that the plan includes
    Logs,             \* call records: 1..n, of the admin unless in AgentLogs
    AgentLogs,        \* those of calls an agent made
    LogDays, UrlDays, AwayDays,  \* the days of retention, 0 for no limit
    MaxAsked,         \* bound of the requests
    MaxDays,          \* bound of the days
    Nobody

ASSUME TeamAssumption ==
    /\ {SeatCap, LogDays, UrlDays, AwayDays} \subseteq Nat
    /\ IsFiniteSet(Agents)

VARIABLES
    agent,            \* User rows of agents
    suspended,        \* the admin's status is SUSPENDED
    seatRow,          \* AgentSeatSubscription.stripeSubscriptionId
    seatSub,          \* external: Stripe's seat subscriptions that run
    seat,             \* external: the seats at Stripe
    given,            \* the seats that a client was told it has bought
    buying, making, erasing,  \* the handlers between two awaits
    invited,          \* agents that were sent the invitation
    overlapped,       \* history: two agents were being created at a time
    callLog,          \* CallRecord rows and their files in R2
    asked, today      \* bounds

teamVars == <<agent, suspended, seatRow, seatSub, seat, given, buying, making, erasing,
              invited, overlapped, callLog, asked, today>>
exceptSeats == <<agent, suspended, making, erasing, invited, overlapped, callLog, today>>
exceptAgents == <<suspended, seatRow, seatSub, given, buying, callLog, today>>

NoAgent == [life |-> "new", item |-> Nobody, banned |-> FALSE, login |-> Nobody]
NoSeat == [of |-> Nobody, live |-> FALSE, paid |-> FALSE]
NotBuying == [at |-> "idle", row |-> Nobody, item |-> Nobody]
NotMaking == [at |-> "idle", agent |-> Nobody, item |-> Nobody, via |-> Nobody]
NotErasing == [at |-> "idle", todo |-> {}]
NoLog == [there |-> FALSE, url |-> FALSE, file |-> FALSE, on |-> 0]

TeamInit(there) ==
    /\ agent = [a \in Agents |-> IF a \in there THEN [NoAgent EXCEPT !.life = "on"] ELSE NoAgent]
    /\ suspended = FALSE /\ seatRow = Nobody /\ seatSub = {} /\ given = {}
    /\ seat = [i \in Seats |-> NoSeat]
    /\ buying = [b \in Buyers |-> NotBuying]
    /\ making = [m \in Makers |-> NotMaking]
    /\ erasing = [e \in Erasers |-> NotErasing]
    /\ invited = {} /\ overlapped = FALSE
    /\ callLog = [k \in Logs |-> NoLog]
    /\ asked = 0 /\ today = 0

Team == {a \in Agents : agent[a].life = "on"}
WithSeat(i) == {a \in Team : agent[a].item = i}

\* protectRoute: a suspended account is refused.
Admitted == ~suspended

\* assertCanManageUser for one of the admin's agents: the admin or an owner.
MayManage(role) == role = "OWNER" \/ (role = "ADMIN" /\ Admitted)

AskedOnce == asked < MaxAsked /\ asked' = asked + 1

-----------------------------------------------------------------------------
(* Buying a seat. *)

\* purchaseAgentSeat: the subscription row is read; the price is made before.
purchaseAgentSeat(b) ==
    /\ buying[b].at = "idle" /\ Admitted /\ AskedOnce
    /\ buying' = [buying EXCEPT ![b] =
         [at |-> IF seatRow = Nobody THEN "first" ELSE "further", row |-> seatRow, item |-> Nobody]]
    /\ UNCHANGED <<exceptSeats, seatRow, seatSub, seat, given>>

\* The first seat comes with a subscription, which is charged or not made.
FirstSeatCharged(b, s, i) ==
    /\ buying[b].at = "first" /\ s \notin seatSub /\ seat[i] = NoSeat
    /\ \A j \in Seats : seat[j].of # s
    /\ seatSub' = seatSub \cup {s}
    /\ seat' = [seat EXCEPT ![i] = [of |-> s, live |-> TRUE, paid |-> TRUE]]
    /\ buying' = [buying EXCEPT ![b] = [at |-> "store", row |-> s, item |-> i]]
    /\ UNCHANGED <<exceptSeats, seatRow, given, asked>>

\* The row is unique: where another purchase was first, the request fails.
FirstSeatStored(b) ==
    /\ buying[b].at = "store"
    /\ IF seatRow = Nobody
       THEN seatRow' = buying[b].row /\ given' = given \cup {buying[b].item}
       ELSE UNCHANGED <<seatRow, given>>
    /\ buying' = [buying EXCEPT ![b] = NotBuying]
    /\ UNCHANGED <<exceptSeats, seatSub, seat, asked>>

\* A further seat is added to the subscription that was read, if it still runs.
SeatAdded(b, i) ==
    /\ buying[b].at = "further" /\ buying[b].row \in seatSub /\ seat[i] = NoSeat
    /\ seat' = [seat EXCEPT ![i] = [of |-> buying[b].row, live |-> TRUE, paid |-> FALSE]]
    /\ buying' = [buying EXCEPT ![b].at = "pay", ![b].item = i]
    /\ UNCHANGED <<exceptSeats, seatRow, seatSub, given, asked>>

SeatPaid(b) ==
    /\ buying[b].at = "pay" /\ seat[buying[b].item].live
    /\ seat' = [seat EXCEPT ![buying[b].item].paid = TRUE]
    /\ given' = given \cup {buying[b].item}
    /\ buying' = [buying EXCEPT ![b] = NotBuying]
    /\ UNCHANGED <<exceptSeats, seatRow, seatSub, asked>>

\* The card is declined: the seat is deleted, and a failure to do so ignored.
SeatUnpaid(b) ==
    /\ buying[b].at = "pay"
    /\ \E deleted \in BOOLEAN :
         seat' = [seat EXCEPT ![buying[b].item].live = @ /\ ~deleted]
    /\ buying' = [buying EXCEPT ![b] = NotBuying]
    /\ UNCHANGED <<exceptSeats, seatRow, seatSub, given, asked>>

\* Stripe refuses: nothing was written.
PurchaseFails(b) ==
    /\ buying[b].at \in {"first", "further"}
    /\ buying' = [buying EXCEPT ![b] = NotBuying]
    /\ UNCHANGED <<exceptSeats, seatRow, seatSub, seat, given, asked>>

\* cancelAgentSeatSubscriptionForUser, when the admin is suspended: the row
\* goes whether Stripe has cancelled or not; the agents keep their seats' ids.
Suspend ==
    /\ ~suspended /\ AskedOnce
    /\ suspended' = TRUE /\ seatRow' = Nobody
    /\ \E cancelled \in SUBSET (seatSub \cap {seatRow}) :
         /\ seatSub' = seatSub \ cancelled
         /\ seat' = [i \in Seats |-> IF seat[i].of \in cancelled
                                     THEN [seat[i] EXCEPT !.live = FALSE] ELSE seat[i]]
    /\ UNCHANGED <<agent, given, buying, making, erasing, invited, overlapped, callLog, today>>

Reinstate ==
    /\ suspended /\ suspended' = FALSE
    /\ UNCHANGED <<agent, seatRow, seatSub, seat, given, buying, making, erasing, invited,
                   overlapped, callLog, asked, today>>

\* deactivateAgentSeatsForUncollectibleInvoice, for one line of the invoice:
\* the first agent that has the seat is banned and loses it.
Deactivate(i) ==
    /\ seat[i].live
    /\ \E a \in WithSeat(i) :
         agent' = [agent EXCEPT ![a].banned = TRUE, ![a].item = Nobody]
    /\ \E deleted \in BOOLEAN : seat' = [seat EXCEPT ![i].live = ~deleted]
    /\ UNCHANGED <<suspended, seatRow, seatSub, given, buying, making, erasing, invited,
                   overlapped, callLog, asked, today>>

-----------------------------------------------------------------------------
(* Creating an agent: createUserInDb ("route") or Better Auth's own endpoint *)
(* with the hooks around it ("hook").                                       *)

Making == {m \in Makers : making[m].at \in {"validate", "create"}}

\* The agents are counted, banned ones and those with bought seats, too.
SeatsLeft == Cardinality(Team) < SeatCap

MakeAsked(m, a, i, via) ==
    /\ making[m].at = "idle" /\ AskedOnce /\ agent[a].life # "gone"
    /\ i \in given \cup {Nobody}
    /\ via = "route" => Admitted /\ a \notin Team
    /\ SeatsLeft \/ i # Nobody
    /\ making' = [making EXCEPT ![m] = [at |-> IF SeatsLeft THEN "create" ELSE "validate",
                                        agent |-> a, item |-> i, via |-> via]]
    /\ overlapped' = (overlapped \/ Making # {})
    /\ UNCHANGED <<exceptAgents, agent, seat, erasing, invited>>

\* Mutant: that another agent has the seat is not asked.
SeatIsOurs(i) == seatRow # Nobody /\ seat[i].of = seatRow /\ seat[i].live

\* validatePurchasedAgentSeat.
SeatIsFree(i) ==
    /\ seatRow # Nobody
    /\ WithSeat(i) = {}
    /\ seat[i].of = seatRow /\ seat[i].live

SeatValidated(m) ==
    /\ making[m].at = "validate"
    /\ making' = [making EXCEPT ![m] = IF SeatIsFree(making[m].item)
                                       THEN [@ EXCEPT !.at = "create"] ELSE NotMaking]
    /\ UNCHANGED <<exceptAgents, agent, seat, erasing, invited, overlapped, asked>>

\* The row is made, with the id of the seat; the after-hook runs whether or not.
MakeCreated(m) ==
    LET a == making[m].agent IN
    /\ making[m].at = "create" /\ agent[a].life = "new"
    /\ agent' = [agent EXCEPT ![a] = [NoAgent EXCEPT !.life = "on", !.item = making[m].item]]
    /\ making' = [making EXCEPT ![m].at = "invite"]
    /\ UNCHANGED <<exceptAgents, seat, erasing, invited, overlapped, asked>>

\* The address is taken by now, or there is no Twilio sub-account: rolled back.
MakeFailed(m) ==
    /\ making[m].at = "create"
    /\ making[m].via = "hook" => agent[making[m].agent].life # "new"
    /\ making' = [making EXCEPT ![m] = IF making[m].via = "hook" THEN [@ EXCEPT !.at = "invite"]
                                       ELSE NotMaking]
    /\ UNCHANGED <<exceptAgents, agent, seat, erasing, invited, overlapped, asked>>

\* The hook invites whoever has the address, if made some seconds ago at most.
MakeInvites(m) ==
    /\ making[m].at = "invite"
    /\ \/ invited' = invited \cup ({making[m].agent} \cap Team)
       \/ making[m].via = "hook" /\ making[m].agent \in invited /\ UNCHANGED invited
    /\ making' = [making EXCEPT ![m] = NotMaking]
    /\ UNCHANGED <<exceptAgents, agent, seat, erasing, overlapped, asked>>

-----------------------------------------------------------------------------
(* Removing agents.  None of the paths deletes the seat at Stripe. *)

EraseAsked(e, a, via) ==
    /\ erasing[e].at = "idle" /\ AskedOnce
    /\ a \in Team
    /\ via = "route" => \E role \in {"OWNER", "ADMIN"} : MayManage(role)
    /\ erasing' = [erasing EXCEPT ![e] = [at |-> "one", todo |-> {a}]]
    /\ UNCHANGED <<exceptAgents, agent, seat, making, invited, overlapped>>

\* deleteAllUsersFromDb, which releases what each has before the rows go.
deleteAllUsers(e) ==
    /\ erasing[e].at = "idle" /\ AskedOnce
    /\ erasing' = [erasing EXCEPT ![e] = [at |-> "all", todo |-> {}]]
    /\ UNCHANGED <<exceptAgents, agent, seat, making, invited, overlapped>>

Gone(S) == [a \in Agents |-> IF a \in S \cap Team THEN [NoAgent EXCEPT !.life = "gone"]
                             ELSE agent[a]]

\* deleteUserFromDb: whose row is gone by now fails, which the job ignores.
Erased(e, a) ==
    /\ a \in erasing[e].todo /\ erasing[e].at \in {"one", "away"}
    /\ agent' = Gone({a})
    /\ erasing' = [erasing EXCEPT ![e].todo = @ \ {a}]
    /\ UNCHANGED <<exceptAgents, seat, making, invited, overlapped, asked>>

AllErased(e) ==
    /\ erasing[e].at = "all"
    /\ agent' = Gone(Team) /\ erasing' = [erasing EXCEPT ![e] = NotErasing]
    /\ UNCHANGED <<exceptAgents, seat, making, invited, overlapped, asked>>

EraseEnds(e) ==
    /\ erasing[e].at \in {"one", "away"} /\ erasing[e].todo = {}
    /\ erasing' = [erasing EXCEPT ![e] = NotErasing]
    /\ UNCHANGED <<exceptAgents, agent, seat, making, invited, overlapped, asked>>

-----------------------------------------------------------------------------
(* The nightly job: old records, old recordings, agents who stayed away. *)

onlyJob == <<suspended, seatRow, seatSub, seat, given, buying, making, invited, overlapped, asked>>

OldLogs == {k \in Logs \ AgentLogs : callLog[k].there /\ LogDays > 0 /\ callLog[k].on + LogDays < today}
OldUrls == {k \in Logs \ AgentLogs : callLog[k].there /\ callLog[k].url /\ UrlDays > 0
                                     /\ callLog[k].on + UrlDays < today}
StayedAway == {a \in Team : agent[a].login # Nobody /\ AwayDays > 0 /\ agent[a].login + AwayDays < today}

\* A call of today with its recording, and a sign-in, unless banned.
CallLogged(k) ==
    /\ callLog[k] = NoLog
    /\ callLog' = [callLog EXCEPT ![k] = [there |-> TRUE, url |-> TRUE, file |-> TRUE, on |-> today]]
    /\ UNCHANGED <<agent, erasing, today, onlyJob>>
SignsIn(a) ==
    /\ a \in Team /\ ~agent[a].banned /\ agent[a].login # today
    /\ agent' = [agent EXCEPT ![a].login = today]
    /\ UNCHANGED <<erasing, callLog, today, onlyJob>>

Midnight(e) ==
    /\ erasing[e].at = "idle" /\ today < MaxDays /\ today' = today + 1
    /\ erasing' = [erasing EXCEPT ![e].at = "old"]
    /\ UNCHANGED <<agent, callLog, onlyJob>>

\* What is next to do: rows are selected when the step before has ended.
JobSelects(e, from, to, todo) ==
    /\ erasing[e].at = from
    /\ erasing' = [erasing EXCEPT ![e] = [at |-> to, todo |-> todo]]
    /\ UNCHANGED <<agent, callLog, today, onlyJob>>

\* The files are deleted, which may fail unnoticed; then the rows are written.
FilesDeleted(e) ==
    /\ erasing[e].at \in {"logs", "urls"}
    /\ \E kept \in SUBSET erasing[e].todo :
         callLog' = [k \in Logs |-> IF k \in erasing[e].todo \ kept
                                    THEN [callLog[k] EXCEPT !.file = FALSE] ELSE callLog[k]]
    /\ erasing' = [erasing EXCEPT ![e].at = IF @ = "logs" THEN "logRows" ELSE "urlRows"]
    /\ UNCHANGED <<agent, today, onlyJob>>
RowsWritten(e) ==
    /\ erasing[e].at \in {"logRows", "urlRows"}
    /\ callLog' = [k \in Logs |->
         IF k \notin erasing[e].todo THEN callLog[k]
         ELSE IF erasing[e].at = "logRows" THEN [callLog[k] EXCEPT !.there = FALSE, !.url = FALSE]
         ELSE [callLog[k] EXCEPT !.url = FALSE]]
    /\ erasing' = [erasing EXCEPT ![e] = [at |-> IF @.at = "logRows" THEN "logsDone" ELSE "urlsDone",
                                          todo |-> {}]]
    /\ UNCHANGED <<agent, today, onlyJob>>

Retention(e) ==
    \/ JobSelects(e, "old", "logs", OldLogs)
    \/ JobSelects(e, "logsDone", "urls", OldUrls)
    \/ JobSelects(e, "urlsDone", "away", StayedAway)
    \/ FilesDeleted(e) \/ RowsWritten(e)

\* The process dies: what it was doing is lost, but not what it had written.
Dies ==
    /\ \E b \in Buyers : buying[b].at \in {"store", "pay"}
    /\ buying' = [b \in Buyers |-> NotBuying]
    /\ making' = [m \in Makers |-> NotMaking]
    /\ erasing' = [e \in Erasers |-> NotErasing]
    /\ UNCHANGED <<agent, suspended, seatRow, seatSub, seat, given, invited, overlapped, callLog,
                   asked, today>>

Buys ==
    \E b \in Buyers :
        \/ purchaseAgentSeat(b) \/ FirstSeatStored(b) \/ SeatPaid(b) \/ SeatUnpaid(b)
        \/ PurchaseFails(b)
        \/ \E i \in Seats : SeatAdded(b, i) \/ \E s \in SeatSubs : FirstSeatCharged(b, s, i)
Makes ==
    \E m \in Makers :
        \/ \E a \in Agents, i \in Seats \cup {Nobody}, via \in {"route", "hook"} : MakeAsked(m, a, i, via)
        \/ SeatValidated(m) \/ MakeCreated(m) \/ MakeFailed(m) \/ MakeInvites(m)
Erases ==
    \E e \in Erasers :
        \/ \E a \in Agents : Erased(e, a) \/ \E via \in {"route", "hook"} : EraseAsked(e, a, via)
        \/ deleteAllUsers(e) \/ AllErased(e) \/ EraseEnds(e)
Nights ==
    \/ \E k \in Logs : CallLogged(k)
    \/ \E a \in Agents : SignsIn(a)
    \/ \E e \in Erasers : Midnight(e) \/ Retention(e)
Others == Suspend \/ Reinstate \/ Dies \/ \E i \in Seats : Deactivate(i)

\* An admin may have made as many agents before as the plan includes.
TeamSpec ==
    /\ \E there \in SUBSET Agents : Cardinality(there) <= SeatCap /\ TeamInit(there)
    /\ [][Buys \/ Makes \/ Erases \/ Nights \/ Others]_teamVars

-----------------------------------------------------------------------------
(* What is promised. *)

HasOwnSeat(a) == agent[a].item # Nobody /\ WithSeat(agent[a].item) = {a}

\* "it gets persisted onto the new row below so it can't be reused for a second
\* agent" (src/routes/user/service.ts:51): however seats are bought, used, asked
\* for again, left unpaid and freed by removals, no more agents work without a
\* seat of their own than the plan includes, unless two were created at a time,
\* for the count and the creation are not one step.
SeatsCovered ==
    ~overlapped => Cardinality({a \in Team : ~agent[a].banned /\ ~HasOwnSeat(a)}) <= SeatCap
=============================================================================
