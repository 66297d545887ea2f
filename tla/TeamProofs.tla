------------------------------- MODULE TeamProofs -------------------------------
(***************************************************************************)
(* SeatsCovered for any agents, seats and requests at a time: however seats  *)
(* are bought, left unpaid, asked for again and freed, only two creations    *)
(* that overlap make more agents without a seat of their own than the plan   *)
(* includes.  Removing, banning or freeing an agent never makes another one  *)
(* lack a seat, so everything hangs on the one maker that is between its     *)
(* check and its creation: what it has checked is still so when it writes.   *)
(*                                                                         *)
(* NudgedOnce for any people, agents, windows and advance, whatever runs of  *)
(* the daily job are missed, cut off or overtaken by changes.  The windows   *)
(* are one day wide, so the day of a run determines the day that a mail is   *)
(* about: the lag between the two is a constant of the mail.  Two mails of   *)
(* one kind on different days are then about different days.                 *)
(***************************************************************************)
EXTENDS Team, LifecycleMails, FiniteSetTheorems, TLAPS

USE TeamAssumption, LifecycleAssumption

-----------------------------------------------------------------------------
(* Seats: the inductive invariant. *)

\* Agents at work without a seat of their own.
Unseated == {a \in Team : ~agent[a].banned /\ ~HasOwnSeat(a)}

AgentType == [life : {"new", "on", "gone"}, item : Seats \cup {Nobody}, banned : BOOLEAN,
              login : Nat \cup {Nobody}]
MakingType == [at : {"idle", "validate", "create", "invite"}, agent : Agents \cup {Nobody},
               item : Seats \cup {Nobody}, via : {"route", "hook", Nobody}]
TeamTypes ==
    /\ agent \in [Agents -> AgentType]
    /\ making \in [Makers -> MakingType]
    /\ \A m \in Makers : making[m].at # "idle" => making[m].agent \in Agents
    /\ today \in Nat

\* What a maker has checked of the seats and of the count still holds.
StillChecked(m) ==
    /\ making[m].at = "validate" => making[m].item # Nobody
    /\ making[m].at = "create" =>
          \/ Cardinality(Team) < SeatCap
          \/ making[m].item # Nobody /\ WithSeat(making[m].item) = {}

SeatsInv ==
    /\ TeamTypes
    /\ ~overlapped =>
          /\ \A m, n \in Making : m = n
          /\ \A m \in Makers : StillChecked(m)
          /\ Cardinality(Unseated) <= SeatCap

-----------------------------------------------------------------------------
(* Lemmas about the sets. *)

LEMMA TeamFinite == Team \subseteq Agents /\ IsFiniteSet(Team) /\ Cardinality(Team) \in Nat
<1>1. Team \subseteq Agents  BY DEF Team
<1> QED BY <1>1, FS_Subset, FS_CardinalityType

LEMMA UnseatedFinite ==
    Unseated \subseteq Team /\ IsFiniteSet(Unseated) /\ Cardinality(Unseated) \in Nat
<1>1. Unseated \subseteq Team  BY DEF Unseated
<1> QED BY <1>1, TeamFinite, FS_Subset, FS_CardinalityType

\* Agents only leave, are banned or lose their seat: nobody else lacks one.
Shrinks ==
    \A a \in Agents : agent'[a].life = "on" =>
        /\ agent[a].life = "on"
        /\ agent[a].banned => agent'[a].banned
        /\ \/ agent'[a].item = agent[a].item
           \/ agent'[a].item = Nobody /\ agent'[a].banned

LEMMA ShrinksSets ==
    ASSUME Shrinks
    PROVE  /\ Team' \subseteq Team
           /\ \A i : i # Nobody => WithSeat(i)' \subseteq WithSeat(i)
           /\ Unseated' \subseteq Unseated
<1>1. Team' \subseteq Team  BY DEF Shrinks, Team
<1>2. ASSUME NEW i, i # Nobody PROVE WithSeat(i)' \subseteq WithSeat(i)
  BY <1>1, <1>2 DEF WithSeat, Team, Shrinks
<1>3. ASSUME NEW a \in Unseated' PROVE a \in Unseated
  <2>1. a \in Team' /\ a \in Team /\ ~agent'[a].banned /\ ~agent[a].banned
        /\ agent'[a].item = agent[a].item
    BY <1>1, <1>3 DEF Unseated, Team, Shrinks
  <2>2. CASE agent[a].item = Nobody  BY <2>1, <2>2 DEF Unseated, HasOwnSeat
  <2>3. CASE agent[a].item # Nobody
    <3>1. PICK i : i = agent[a].item  OBVIOUS
    <3>2. WithSeat(i)' \subseteq WithSeat(i)  BY <1>2, <2>3, <3>1
    <3>3. a \in WithSeat(i)'  BY <2>1, <3>1 DEF WithSeat
    <3>4. WithSeat(i)' # {a}
      BY <1>3, <2>1, <2>3, <3>1 DEF Unseated, HasOwnSeat, WithSeat
    <3> QED BY <2>1, <3>1, <3>2, <3>3, <3>4 DEF Unseated, HasOwnSeat
  <2> QED BY <2>2, <2>3
<1> QED BY <1>1, <1>2, <1>3

LEMMA ShrinksKeeps ==
    ASSUME SeatsInv, TeamTypes', Shrinks, UNCHANGED <<making, overlapped>>
    PROVE  SeatsInv'
<1>1. Team' \subseteq Team /\ Unseated' \subseteq Unseated  BY ShrinksSets
<1>2. /\ Cardinality(Team) \in Nat /\ Cardinality(Team') \in Nat
      /\ Cardinality(Team') <= Cardinality(Team)
  BY <1>1, TeamFinite, FS_Subset, FS_CardinalityType
<1>3. /\ Cardinality(Unseated) \in Nat /\ Cardinality(Unseated') \in Nat
      /\ Cardinality(Unseated') <= Cardinality(Unseated)
  BY <1>1, UnseatedFinite, FS_Subset, FS_CardinalityType
<1>4. CASE overlapped  BY <1>4 DEF SeatsInv
<1>5. CASE ~overlapped
  <2>1. \A m, n \in Making' : m = n  BY <1>5 DEF SeatsInv, Making
  <2>2. ASSUME NEW m \in Makers PROVE StillChecked(m)'
    <3>1. StillChecked(m)  BY <1>5 DEF SeatsInv
    <3>2. making[m].item # Nobody => WithSeat(making[m].item)' \subseteq WithSeat(making[m].item)
      BY ShrinksSets
    <3> QED BY <1>2, <3>1, <3>2 DEF StillChecked, WithSeat
  <2>3. Cardinality(Unseated') <= SeatCap  BY <1>3, <1>5 DEF SeatsInv
  <2> QED BY <2>1, <2>2, <2>3 DEF SeatsInv
<1> QED BY <1>4, <1>5 DEF SeatsInv

-----------------------------------------------------------------------------
(* Every step keeps the invariant. *)

LEMMA SeatsInvInit ==
    ASSUME NEW there \in SUBSET Agents, Cardinality(there) <= SeatCap, TeamInit(there)
    PROVE  SeatsInv
<1>1. TeamTypes
  BY DEF TeamInit, TeamTypes, AgentType, MakingType, NoAgent, NotMaking
<1>2. Making = {} /\ \A m \in Makers : StillChecked(m)
  BY DEF TeamInit, NotMaking, Making, StillChecked
<1>3. Team = there  BY DEF TeamInit, Team, NoAgent
<1>4. Cardinality(Unseated) <= Cardinality(Team)
  BY UnseatedFinite, TeamFinite, FS_Subset
<1>5. Cardinality(Unseated) <= SeatCap  BY <1>3, <1>4, UnseatedFinite, TeamFinite
<1> QED BY <1>1, <1>2, <1>5 DEF SeatsInv

\* Whatever leaves the agents and their makers alone.
LEMMA IdleKeeps ==
    ASSUME SeatsInv, UNCHANGED <<agent, making, overlapped>>, today' \in Nat
    PROVE  SeatsInv'
<1>1. TeamTypes'  BY DEF SeatsInv, TeamTypes
<1>2. Shrinks  BY DEF Shrinks
<1> QED BY <1>1, <1>2, ShrinksKeeps

\* The removals.
LEMMA ErasesKeep == ASSUME SeatsInv, Erases PROVE SeatsInv'
<1>0. UNCHANGED <<making, overlapped, today>> /\ today \in Nat
  BY DEF Erases, Erased, EraseAsked, deleteAllUsers, AllErased, EraseEnds, exceptAgents,
         SeatsInv, TeamTypes
<1>1. CASE UNCHANGED agent  BY <1>0, <1>1, IdleKeeps
<1>2. CASE \E S \in SUBSET Agents : agent' = Gone(S)
  <2>1. PICK S \in SUBSET Agents : agent' = Gone(S)  BY <1>2
  <2>2. TeamTypes'
    BY <1>0, <2>1 DEF SeatsInv, TeamTypes, Gone, AgentType, NoAgent
  <2>3. Shrinks  BY <2>1 DEF Gone, Shrinks, NoAgent
  <2> QED BY <1>0, <2>2, <2>3, ShrinksKeeps
<1>3. UNCHANGED agent \/ \E S \in SUBSET Agents : agent' = Gone(S)
  <2>1. \A a \in Agents : {a} \in SUBSET Agents  OBVIOUS
  <2>2. Team \in SUBSET Agents  BY DEF Team
  <2> QED BY <2>1, <2>2 DEF Erases, Erased, EraseAsked, deleteAllUsers, AllErased, EraseEnds
<1> QED BY <1>1, <1>2, <1>3

\* The nightly job and what it works on: a sign-in touches no seat.
LEMMA NightsKeep == ASSUME SeatsInv, Nights PROVE SeatsInv'
<1>0. today \in Nat /\ UNCHANGED <<making, overlapped>>
  BY DEF Nights, Retention, CallLogged, SignsIn, Midnight, JobSelects, FilesDeleted,
         RowsWritten, onlyJob, SeatsInv, TeamTypes
<1>1. CASE \E a \in Agents : SignsIn(a)
  <2>1. PICK a \in Agents : SignsIn(a)  BY <1>1
  <2>2. agent' = [agent EXCEPT ![a].login = today] /\ UNCHANGED today  BY <2>1 DEF SignsIn
  <2>3. TeamTypes'  BY <1>0, <2>2 DEF SeatsInv, TeamTypes, AgentType
  <2>4. Shrinks  BY <2>2 DEF Shrinks, SeatsInv, TeamTypes, AgentType
  <2> QED BY <1>0, <2>3, <2>4, ShrinksKeeps
<1>2. CASE ~\E a \in Agents : SignsIn(a)
  <2>1. UNCHANGED agent /\ today' \in {today, today + 1}
    BY <1>2 DEF Nights, Retention, CallLogged, Midnight, JobSelects, FilesDeleted,
         RowsWritten, onlyJob
  <2> QED BY <1>0, <2>1, IdleKeeps
<1> QED BY <1>1, <1>2

\* Suspension, deactivation and a death of the process.
LEMMA OthersKeep == ASSUME SeatsInv, Others PROVE SeatsInv'
<1>0. today \in Nat /\ UNCHANGED <<overlapped, today>>
  BY DEF Others, Suspend, Reinstate, Dies, Deactivate, SeatsInv, TeamTypes
<1>1. CASE Suspend \/ Reinstate  BY <1>0, <1>1, IdleKeeps DEF Suspend, Reinstate
<1>2. CASE \E i \in Seats : Deactivate(i)
  <2>1. PICK i \in Seats : Deactivate(i)  BY <1>2
  <2>2. PICK a \in WithSeat(i) : agent' = [agent EXCEPT ![a].banned = TRUE, ![a].item = Nobody]
    BY <2>1 DEF Deactivate
  <2>3. UNCHANGED making /\ a \in Agents  BY <2>1 DEF Deactivate, WithSeat, Team
  <2>4. TeamTypes'  BY <1>0, <2>2, <2>3 DEF SeatsInv, TeamTypes, AgentType
  <2>5. Shrinks  BY <2>2, <2>3 DEF Shrinks, SeatsInv, TeamTypes, AgentType
  <2> QED BY <1>0, <2>3, <2>4, <2>5, ShrinksKeeps
<1>3. CASE Dies
  <2>1. UNCHANGED agent /\ making' = [m \in Makers |-> NotMaking]  BY <1>3 DEF Dies
  <2>2. TeamTypes'  BY <1>0, <2>1 DEF SeatsInv, TeamTypes, MakingType, NotMaking
  <2>3. Making' = {} /\ \A m \in Makers : StillChecked(m)'
    BY <2>1 DEF Making, NotMaking, StillChecked
  <2>4. Unseated' = Unseated  BY <2>1 DEF Unseated, Team, HasOwnSeat, WithSeat
  <2> QED BY <1>0, <2>2, <2>3, <2>4 DEF SeatsInv
<1> QED BY <1>1, <1>2, <1>3 DEF Others

\* A maker goes on without making the row.
LEMMA MakerMoves ==
    ASSUME SeatsInv, NEW m \in Makers, NEW r \in MakingType, UNCHANGED <<agent, today>>,
           making' = [making EXCEPT ![m] = r], r.at # "idle" => r.agent \in Agents,
           ~overlapped' =>
               /\ ~overlapped
               /\ r.at \in {"validate", "create"} => Making \subseteq {m}
               /\ StillChecked(m)'
    PROVE  SeatsInv'
<1>1. TeamTypes'  BY DEF SeatsInv, TeamTypes
<1>2. CASE overlapped'  BY <1>1, <1>2 DEF SeatsInv
<1>3. CASE ~overlapped'
  <2>1. \A k, n \in Making' : k = n  BY <1>3 DEF SeatsInv, TeamTypes, Making
  <2>2. Team' = Team /\ Unseated' = Unseated /\ \A i : WithSeat(i)' = WithSeat(i)
    BY DEF Unseated, Team, HasOwnSeat, WithSeat
  <2>3. ASSUME NEW n \in Makers PROVE StillChecked(n)'
    <3>1. CASE n = m  BY <1>3, <3>1
    <3>2. CASE n # m
      <4>1. making'[n] = making[n]  BY <3>2 DEF SeatsInv, TeamTypes
      <4> QED BY <1>3, <2>2, <4>1 DEF SeatsInv, StillChecked
    <3> QED BY <3>1, <3>2
  <2> QED BY <1>1, <1>3, <2>1, <2>2, <2>3 DEF SeatsInv
<1> QED BY <1>2, <1>3

\* The row is made by the only maker: there was room, or the seat was nobody's.
LEMMA CreationKeeps == ASSUME SeatsInv, NEW m \in Makers, MakeCreated(m) PROVE SeatsInv'
<1>0. PICK a, i : a = making[m].agent /\ i = making[m].item  OBVIOUS
<1> DEFINE new == [NoAgent EXCEPT !.life = "on", !.item = i]
<1>1. /\ a \in Agents /\ a \notin Team /\ new \in AgentType
      /\ agent' = [agent EXCEPT ![a] = new]
      /\ making' = [making EXCEPT ![m].at = "invite"] /\ UNCHANGED <<overlapped, today>>
  BY <1>0 DEF MakeCreated, SeatsInv, TeamTypes, MakingType, AgentType, NoAgent, Team, exceptAgents
<1>2. TeamTypes'
  <2>1. making' \in [Makers -> MakingType]
        /\ \A n \in Makers : making'[n].at # "idle" => making'[n].agent \in Agents
    BY <1>0, <1>1 DEF SeatsInv, TeamTypes, MakingType
  <2> HIDE DEF new
  <2>2. agent' \in [Agents -> AgentType]  BY <1>1 DEF SeatsInv, TeamTypes
  <2> QED BY <1>1, <2>1, <2>2 DEF SeatsInv, TeamTypes
<1>3. CASE overlapped  BY <1>1, <1>2, <1>3 DEF SeatsInv
<1>4. CASE ~overlapped
  <2>1. Making \subseteq {m} /\ StillChecked(m) /\ Cardinality(Unseated) <= SeatCap
    BY <1>4 DEF SeatsInv, Making, MakeCreated
  <2>2. \A n \in Makers : making'[n].at \notin {"validate", "create"}
    <3>1. ASSUME NEW n \in Makers, n # m PROVE making'[n].at \notin {"validate", "create"}
      BY <1>1, <2>1, <3>1 DEF Making, SeatsInv, TeamTypes
    <3>2. making'[m].at = "invite"  BY <1>1 DEF SeatsInv, TeamTypes, MakingType
    <3> QED BY <3>1, <3>2
  <2>3. Making' = {} /\ \A n \in Makers : StillChecked(n)'
    BY <2>2 DEF Making, StillChecked
  <2>4. Team' = Team \cup {a}  BY <1>1 DEF Team, SeatsInv, TeamTypes, AgentType, NoAgent
  <2>5. CASE Cardinality(Team) < SeatCap
    <3>1. Cardinality(Team') = Cardinality(Team) + 1  BY <1>1, <2>4, TeamFinite, FS_AddElement
    <3>2. Cardinality(Unseated') <= Cardinality(Team') /\ Cardinality(Unseated') \in Nat
      <4>1. IsFiniteSet(Team')  BY <2>4, TeamFinite, FS_AddElement
      <4>2. Unseated' \subseteq Team'  BY DEF Unseated
      <4> QED BY <4>1, <4>2, FS_Subset, FS_CardinalityType
    <3>3. Cardinality(Unseated') <= SeatCap  BY <2>5, <3>1, <3>2, TeamFinite
    <3> QED BY <1>1, <1>2, <2>3, <3>3 DEF SeatsInv
  <2>6. CASE i # Nobody /\ WithSeat(i) = {}
    <3>1. \A b \in Team : agent'[b] = agent[b] /\ agent[b].item # i
      BY <1>1, <2>6 DEF WithSeat, SeatsInv, TeamTypes
    <3>2. agent'[a].item = i /\ WithSeat(i)' = {a}
      BY <1>1, <2>4, <2>6, <3>1 DEF WithSeat, SeatsInv, TeamTypes, AgentType, NoAgent
    <3>3. \A j : j # i => WithSeat(j)' = WithSeat(j)
      BY <1>1, <2>4, <3>1, <3>2 DEF WithSeat
    <3>4. Unseated' \subseteq Unseated
      <4>1. ASSUME NEW b \in Unseated' PROVE b \in Unseated
        <5>1. b \in Team' /\ ~agent'[b].banned /\ ~HasOwnSeat(b)'  BY <4>1 DEF Unseated
        <5>2. b # a
          <6>1. HasOwnSeat(a)'  BY <1>1, <2>6, <3>2 DEF HasOwnSeat, WithSeat
          <6> QED BY <5>1, <6>1
        <5>3. b \in Team /\ agent'[b] = agent[b] /\ agent[b].item # i
          BY <2>4, <3>1, <5>1, <5>2
        <5>4. PICK j : j = agent[b].item  OBVIOUS
        <5>5. WithSeat(j)' = WithSeat(j)  BY <3>3, <5>3, <5>4
        <5>6. ~(j # Nobody /\ WithSeat(j)' = {b})
          BY <5>1, <5>3, <5>4 DEF HasOwnSeat, WithSeat
        <5> QED BY <5>1, <5>3, <5>4, <5>5, <5>6 DEF Unseated, HasOwnSeat
      <4> QED BY <4>1
    <3>5. Cardinality(Unseated') <= SeatCap
      BY <2>1, <3>4, UnseatedFinite, FS_Subset, FS_CardinalityType
    <3> QED BY <1>1, <1>2, <2>3, <3>5 DEF SeatsInv
  <2> QED BY <1>0, <2>1, <2>5, <2>6 DEF StillChecked, MakeCreated
<1> QED BY <1>3, <1>4

LEMMA MakesKeep == ASSUME SeatsInv, Makes PROVE SeatsInv'
<1>1. PICK m \in Makers :
          \/ \E a \in Agents, i \in Seats \cup {Nobody}, via \in {"route", "hook"} :
                MakeAsked(m, a, i, via)
          \/ SeatValidated(m) \/ MakeCreated(m) \/ MakeFailed(m) \/ MakeInvites(m)
  BY DEF Makes
<1>0. making[m] \in MakingType /\ (making[m].at # "idle" => making[m].agent \in Agents)
      /\ NotMaking \in MakingType /\ UNCHANGED today
  BY <1>1 DEF SeatsInv, TeamTypes, MakingType, NotMaking, exceptAgents, MakeAsked,
              SeatValidated, MakeCreated, MakeFailed, MakeInvites
<1>2. CASE \E a \in Agents, i \in Seats \cup {Nobody}, via \in {"route", "hook"} :
                MakeAsked(m, a, i, via)
  <2>1. PICK a \in Agents, i \in Seats \cup {Nobody}, via \in {"route", "hook"} :
                MakeAsked(m, a, i, via)
    BY <1>2
  <2> DEFINE r == [at |-> IF SeatsLeft THEN "create" ELSE "validate",
                   agent |-> a, item |-> i, via |-> via]
  <2>2. /\ making' = [making EXCEPT ![m] = r] /\ UNCHANGED agent
        /\ overlapped' = (overlapped \/ Making # {}) /\ (SeatsLeft \/ i # Nobody)
    BY <2>1 DEF MakeAsked
  <2>3. r \in MakingType /\ r.agent \in Agents  BY DEF MakingType
  <2>4. StillChecked(m)'
    BY <2>2 DEF StillChecked, SeatsInv, TeamTypes, SeatsLeft, Team
  <2> QED BY <1>0, <2>2, <2>3, <2>4, MakerMoves
<1>3. CASE SeatValidated(m)
  <2>1. UNCHANGED <<agent, overlapped>> /\ making[m].at = "validate"  BY <1>3 DEF SeatValidated
  <2>2. ~overlapped => Making \subseteq {m} /\ making[m].item # Nobody
    BY <2>1 DEF SeatsInv, StillChecked, Making
  <2>3. CASE SeatIsFree(making[m].item)
    <3> DEFINE r == [making[m] EXCEPT !.at = "create"]
    <3>1. r \in MakingType /\ r.agent \in Agents /\ r.item = making[m].item
      BY <1>0, <2>1 DEF MakingType
    <3>2. making' = [making EXCEPT ![m] = r]  BY <1>3, <2>3 DEF SeatValidated
    <3>3. making'[m] = r  BY <3>2 DEF SeatsInv, TeamTypes
    <3>4. ~overlapped => StillChecked(m)'
      <4>1. PICK j : j = making[m].item  OBVIOUS
      <4>2. WithSeat(j)' = {} /\ making'[m].item = j
        BY <2>1, <2>3, <3>1, <3>3, <4>1 DEF SeatIsFree, WithSeat, Team
      <4> QED BY <2>2, <3>3, <4>1, <4>2 DEF StillChecked, WithSeat
    <3> QED BY <1>0, <2>1, <2>2, <3>1, <3>2, <3>4, MakerMoves
  <2>4. CASE ~SeatIsFree(making[m].item)
    <3>1. making' = [making EXCEPT ![m] = NotMaking]  BY <1>3, <2>4 DEF SeatValidated
    <3>2. StillChecked(m)'  BY <3>1 DEF StillChecked, NotMaking, SeatsInv, TeamTypes
    <3> QED BY <1>0, <2>1, <3>1, <3>2, MakerMoves DEF NotMaking
  <2> QED BY <2>3, <2>4
<1>4. CASE MakeCreated(m)  BY <1>4, CreationKeeps
<1>5. CASE MakeFailed(m) \/ MakeInvites(m)
  <2>1. UNCHANGED <<agent, overlapped>> /\ making[m].at \in {"create", "invite"}
    BY <1>5 DEF MakeFailed, MakeInvites, exceptAgents
  <2>2. PICK r \in MakingType : /\ making' = [making EXCEPT ![m] = r]
                                /\ r.at \in {"idle", "invite"}
                                /\ r.at # "idle" => r.agent \in Agents
    <3>1. [making[m] EXCEPT !.at = "invite"] \in MakingType  BY <1>0 DEF MakingType
    <3> QED BY <1>0, <1>5, <2>1, <3>1 DEF MakeFailed, MakeInvites, NotMaking, MakingType
  <2>3. StillChecked(m)'  BY <2>2 DEF StillChecked, SeatsInv, TeamTypes
  <2> QED BY <1>0, <2>1, <2>2, <2>3, MakerMoves
<1> QED BY <1>1, <1>2, <1>3, <1>4, <1>5

LEMMA SeatsInvNext ==
    SeatsInv /\ [Buys \/ Makes \/ Erases \/ Nights \/ Others]_teamVars => SeatsInv'
<1> SUFFICES ASSUME SeatsInv, [Buys \/ Makes \/ Erases \/ Nights \/ Others]_teamVars
             PROVE  SeatsInv'
  OBVIOUS
<1>0. today \in Nat  BY DEF SeatsInv, TeamTypes
<1>1. CASE UNCHANGED teamVars  BY <1>0, <1>1, IdleKeeps DEF teamVars
<1>2. CASE Buys
  BY <1>0, <1>2, IdleKeeps DEF Buys, purchaseAgentSeat, FirstSeatCharged, FirstSeatStored,
       SeatAdded, SeatPaid, SeatUnpaid, PurchaseFails, exceptSeats
<1> QED BY <1>1, <1>2, MakesKeep, ErasesKeep, NightsKeep, OthersKeep

-----------------------------------------------------------------------------
(* The result. *)

\* No more agents are at work without a seat of their own than the plan
\* includes, unless two were created at a time (createUserInDb of
\* src/routes/user/service.ts and the hooks of src/lib/auth.ts).
THEOREM TeamSeatsCovered == TeamSpec => []SeatsCovered
<1>1. SeatsInv => SeatsCovered  BY DEF SeatsInv, SeatsCovered, Unseated
<1>2. (\E there \in SUBSET Agents : Cardinality(there) <= SeatCap /\ TeamInit(there)) => SeatsInv
  BY SeatsInvInit
<1> QED BY <1>1, <1>2, SeatsInvNext, PTL DEF TeamSpec

-----------------------------------------------------------------------------
(* The lifecycle mails: the inductive invariant. *)

Days == Nat \cup {Unknown}
Rows == {"none", "ACTIVE", "CANCELLED"}

\* The days from what a mail is about to its run.
Lag(mail) ==
    CASE mail = "away" -> AwayFor + 1
      [] mail = "subscribe" -> UnsubscribedFor + 1
      [] mail = "comeback" -> CancelledFor + 1
      [] mail = "trialEnds" -> -Advance
      [] OTHER -> 0
Timely(mail, about, on) == mail # "card" => about \in Int /\ about + Lag(mail) = on

PersonType == [made : Days, login : Days, subscribed : BOOLEAN, trial : BOOLEAN, row : Rows,
               end : Days, at : Nat, card : BOOLEAN, declines : SUBSET Optional]
MailTypes ==
    /\ person \in [People -> PersonType]
    /\ day \in Nat

\* Whoever a run has selected is written to on the day of the selection.
RunIsTimely ==
    \/ run = NotRunning
    \/ /\ run = [mail |-> run.mail, todo |-> run.todo] /\ run.mail \in 1..5
       /\ \A r \in run.todo : Timely(Mails[run.mail], r.about, day)
SentIsTimely ==
    \A m \in sent : m.on \in Nat /\ m.on <= day /\ Timely(m.mail, m.about, m.on)

MailsInv == MailTypes /\ RunIsTimely /\ SentIsTimely /\ NudgedOnce

-----------------------------------------------------------------------------
(* Lemmas about the selections. *)

LEMMA MailsAre ==
    /\ Len(Mails) = 5 /\ DOMAIN Mails = 1..5
    /\ Mails[1] = "away" /\ Mails[2] = "subscribe" /\ Mails[3] = "comeback"
    /\ Mails[4] = "trialEnds" /\ Mails[5] = "card"
  BY DEF Mails

\* What a selection is about is tied to the day on which it is made.
LEMMA SelectedIsTimely ==
    ASSUME MailTypes, NEW n \in 1..5, NEW r \in Selected(n)
    PROVE  Timely(Mails[n], r.about, day)
<1>1. PICK p \in Recipients(n) : r = [to |-> p, about |-> ReasonFor(n, p)]  BY DEF Selected
<1>2. CASE n = 1
  <2>1. p \in People /\ InWindow(person[p].login, AwayFor) /\ r.about = person[p].login
    BY <1>1, <1>2, MailsAre DEF Recipients, ReasonFor, Away
  <2>2. person[p].login \in Nat  BY <2>1 DEF InWindow, MailTypes, PersonType, Days
  <2> QED BY <1>2, <2>1, <2>2, MailsAre DEF InWindow, Timely, Lag, MailTypes
<1>3. CASE n = 2
  <2>1. p \in People /\ InWindow(person[p].made, UnsubscribedFor) /\ r.about = person[p].made
    BY <1>1, <1>3, MailsAre DEF Recipients, ReasonFor, Unsubscribed
  <2>2. person[p].made \in Nat  BY <2>1 DEF InWindow, MailTypes, PersonType, Days
  <2> QED BY <1>3, <2>1, <2>2, MailsAre DEF InWindow, Timely, Lag, MailTypes
<1>4. CASE n = 3
  <2>1. p \in People /\ InWindow(person[p].at, CancelledFor) /\ r.about = person[p].at
    BY <1>1, <1>4, MailsAre DEF Recipients, ReasonFor, Cancelled
  <2>2. person[p].at \in Nat  BY <2>1 DEF MailTypes, PersonType
  <2> QED BY <1>4, <2>1, <2>2, MailsAre DEF InWindow, Timely, Lag, MailTypes
<1>5. CASE n = 4
  <2>1. p \in OnTrial /\ TrialEndsSoon(p) /\ r.about = TrialEnd(p)
    BY <1>1, <1>5, MailsAre DEF Recipients, ReasonFor
  <2>2. TrialEnd(p) \in Nat  BY <2>1 DEF OnTrial, Known, TrialEnd, MailTypes, PersonType, Days
  <2> QED BY <1>5, <2>1, <2>2, MailsAre DEF TrialEndsSoon, Timely, Lag, MailTypes
<1>6. CASE n = 5  BY <1>6, MailsAre DEF Timely
<1> QED BY <1>2, <1>3, <1>4, <1>5, <1>6

\* The same of the first mail, to be used of the day that begins.
LEMMA FirstIsTimely ==
    MailTypes => \A r \in Selected(1) : Timely(Mails[1], r.about, day)
  BY SelectedIsTimely

\* A mail that has not been sent is sent now: only the card's is looked up, and
\* any other is about a day of its own.
LEMMA SentOnce ==
    ASSUME MailsInv, NEW m1 \in sent, NEW m2,
           m2.on = day, Timely(m2.mail, m2.about, day),
           m2.mail = "card" => ~AlreadyReminded(m2.to),
           m1.mail = m2.mail, m1.to = m2.to, m1.on < m2.on
    PROVE  IF m1.mail = "card" THEN m2.on > m1.on + Remembered25 ELSE m1.about # m2.about
<1>0. m1.on \in Nat /\ day \in Nat /\ Timely(m1.mail, m1.about, m1.on)
  BY DEF MailsInv, SentIsTimely, MailTypes
<1>1. CASE m1.mail = "card"  BY <1>0, <1>1 DEF AlreadyReminded
<1>2. CASE m1.mail # "card"
  <2>1. Lag(m1.mail) \in Int  BY DEF Lag
  <2> QED BY <1>0, <1>2, <2>1 DEF Timely
<1> QED BY <1>1, <1>2

-----------------------------------------------------------------------------
(* Every step keeps the invariant. *)

LEMMA MailsInvInit == LifecycleInit => MailsInv
  BY DEF LifecycleInit, MailsInv, MailTypes, PersonType, NoPerson, Days, Rows, RunIsTimely,
         SentIsTimely, NudgedOnce

\* An account changes; the run and what was sent do not.
LEMMA ChangesKeep ==
    ASSUME MailsInv, NEW p \in People, NEW row \in PersonType, Changed(p, row)
    PROVE  MailsInv'
<1>1. UNCHANGED <<run, sent, day>> /\ person' = [person EXCEPT ![p] = row]  BY DEF Changed
<1>2. MailTypes'  BY <1>1 DEF MailsInv, MailTypes
<1> QED BY <1>1, <1>2 DEF MailsInv, RunIsTimely, SentIsTimely, NudgedOnce, NotRunning

\* What a sign-up or a webhook writes is a row.
LEMMA Rewritten ==
    ASSUME NEW row \in PersonType, NEW s \in BOOLEAN, NEW b \in BOOLEAN, NEW d \in Nat
    PROVE  /\ \A declines \in SUBSET Optional :
                [row EXCEPT !.made = d, !.trial = b, !.subscribed = s, !.declines = declines]
                    \in PersonType
           /\ \A end \in Days, status \in Rows :
                [row EXCEPT !.subscribed = s, !.row = status, !.end = end, !.at = d, !.card = b]
                    \in PersonType
  BY DEF PersonType, Days

LEMMA AccountsKeep ==
    ASSUME MailsInv, NEW p \in People,
           SignUp(p) \/ SignIn(p) \/ Subscribes(p) \/ Cancels(p) \/ RowWritten(p)
    PROVE  MailsInv'
<1>0. person[p] \in PersonType /\ day \in Nat /\ NoPerson \in PersonType
  BY DEF MailsInv, MailTypes, PersonType, NoPerson, Days, Rows
<1>1. CASE SignUp(p)
  <2>1. PICK declines \in {{}, Optional}, trial \in BOOLEAN :
             Changed(p, [NoPerson EXCEPT !.made = day, !.trial = trial /\ p \notin AgentsOf,
                                         !.subscribed = (p \in AgentsOf), !.declines = declines])
    BY <1>1 DEF SignUp
  <2>2. [NoPerson EXCEPT !.made = day, !.trial = trial /\ p \notin AgentsOf,
                         !.subscribed = (p \in AgentsOf), !.declines = declines] \in PersonType
    <3>1. (trial /\ p \notin AgentsOf) \in BOOLEAN /\ (p \in AgentsOf) \in BOOLEAN  OBVIOUS
    <3>2. declines \in SUBSET Optional  OBVIOUS
    <3> QED BY <1>0, <3>1, <3>2, Rewritten
  <2> QED BY <2>1, <2>2, ChangesKeep
<1>2. CASE SignIn(p)
  BY <1>0, <1>2, ChangesKeep DEF SignIn, PersonType, Days
<1>3. CASE Subscribes(p)
  <2>1. PICK end \in {Unknown, day + 1, day + 2}, card \in BOOLEAN :
             Changed(p, [person[p] EXCEPT !.subscribed = TRUE, !.row = "ACTIVE", !.end = end,
                                          !.at = day, !.card = card])
    BY <1>3 DEF Subscribes
  <2>2. [person[p] EXCEPT !.subscribed = TRUE, !.row = "ACTIVE", !.end = end,
                          !.at = day, !.card = card] \in PersonType
    <3>1. end \in Days /\ TRUE \in BOOLEAN /\ "ACTIVE" \in Rows  BY <1>0 DEF Days, Rows
    <3> QED BY <1>0, <3>1, Rewritten
  <2> QED BY <2>1, <2>2, ChangesKeep
<1>4. CASE Cancels(p)
  BY <1>0, <1>4, ChangesKeep DEF Cancels, PersonType, Rows
<1>5. CASE RowWritten(p)
  BY <1>0, <1>5, ChangesKeep DEF RowWritten, PersonType
<1> QED BY <1>1, <1>2, <1>3, <1>4, <1>5

\* A run begins, goes on to the next mail, or is cut off.
LEMMA RunsKeep == ASSUME MailsInv, DailyRun \/ NextMail \/ RunDies PROVE MailsInv'
<1>1. UNCHANGED <<person, sent>> /\ day' \in {day, day + 1}
  BY DEF DailyRun, NextMail, RunDies
<1>2. MailTypes' /\ SentIsTimely' /\ NudgedOnce'
  BY <1>1 DEF MailsInv, MailTypes, SentIsTimely, NudgedOnce
<1>3. RunIsTimely'
  <2>1. CASE DailyRun
    <3>1. CASE run' = [mail |-> 1, todo |-> Selected(1)']
      <4>1. (MailTypes => \A r \in Selected(1) : Timely(Mails[1], r.about, day))'
        BY FirstIsTimely, PTL
      <4> QED BY <1>2, <3>1, <4>1 DEF RunIsTimely
    <3>2. CASE UNCHANGED run  BY <2>1, <3>2 DEF DailyRun, RunIsTimely, NotRunning
    <3> QED BY <2>1, <3>1, <3>2 DEF DailyRun
  <2>2. CASE NextMail
    <3>1. run.mail \in 1..5 /\ UNCHANGED <<person, day>>  BY <2>2, MailsAre DEF NextMail
    <3>2. CASE run.mail = 5  BY <2>2, <3>2, MailsAre DEF NextMail, RunIsTimely, NotRunning
    <3>3. CASE run.mail # 5
      <4>1. \A r \in Selected(run.mail + 1) : Timely(Mails[run.mail + 1], r.about, day)
        BY <3>1, <3>3, SelectedIsTimely DEF MailsInv
      <4> QED BY <2>2, <3>1, <3>3, <4>1, MailsAre DEF NextMail, RunIsTimely
    <3> QED BY <3>2, <3>3
  <2>3. CASE RunDies  BY <2>3 DEF RunDies, RunIsTimely, NotRunning
  <2> QED BY <2>1, <2>2, <2>3
<1> QED BY <1>2, <1>3 DEF MailsInv

\* One of those selected is written to, or skipped.
LEMMA NudgesKeep == ASSUME MailsInv, NEW r \in run.todo, Nudged(r) PROVE MailsInv'
<1> DEFINE new == [mail |-> Mails[run.mail], to |-> r.to, on |-> day, about |-> r.about]
<1>1. UNCHANGED <<person, day>> /\ run' = [run EXCEPT !.todo = @ \ {r}]  BY DEF Nudged
<1>2. run = [mail |-> run.mail, todo |-> run.todo] /\ run.mail \in 1..5
      /\ \A q \in run.todo : Timely(Mails[run.mail], q.about, day)
  BY DEF MailsInv, RunIsTimely, NotRunning
<1>3. MailTypes' /\ day \in Nat  BY <1>1 DEF MailsInv, MailTypes
<1>4. RunIsTimely'
  <2>1. run' = [mail |-> run.mail, todo |-> run.todo \ {r}]  BY <1>1, <1>2
  <2> QED BY <1>1, <1>2, <2>1 DEF RunIsTimely
<1>5. CASE UNCHANGED sent
  BY <1>1, <1>3, <1>4, <1>5 DEF MailsInv, SentIsTimely, NudgedOnce
<1>6. CASE ~Skipped(run.mail, r.to) /\ sent' = sent \cup {new}
  <2>1. new.on = day /\ Timely(new.mail, new.about, day)  BY <1>2
  <2>2. SentIsTimely'  BY <1>1, <1>3, <1>6, <2>1 DEF MailsInv, SentIsTimely
  <2>3. new.mail = "card" => ~AlreadyReminded(new.to)  BY <1>2, <1>6, MailsAre DEF Skipped
  <2>4. ASSUME NEW m1 \in sent', NEW m2 \in sent', m1.mail = m2.mail, m1.to = m2.to,
               m1.on < m2.on
        PROVE  IF m1.mail = "card" THEN m2.on > m1.on + Remembered25 ELSE m1.about # m2.about
    <3>1. m1 # new  BY <1>1, <1>3, <2>1, <2>2, <2>4 DEF SentIsTimely
    <3>2. CASE m2 = new
      <4> HIDE DEF new
      <4> QED BY <1>6, <2>1, <2>3, <2>4, <3>1, <3>2, SentOnce
    <3>3. CASE m2 # new  BY <1>6, <2>4, <3>1, <3>3 DEF MailsInv, NudgedOnce
    <3> QED BY <3>2, <3>3
  <2> QED BY <1>3, <1>4, <2>2, <2>4 DEF MailsInv, NudgedOnce
<1> QED BY <1>5, <1>6 DEF Nudged

LEMMA MailsInvNext == MailsInv /\ [Nudging]_mailVars => MailsInv'
<1> SUFFICES ASSUME MailsInv, [Nudging]_mailVars PROVE MailsInv'  OBVIOUS
<1>1. CASE UNCHANGED mailVars
  BY <1>1 DEF mailVars, MailsInv, MailTypes, RunIsTimely, SentIsTimely, NudgedOnce, NotRunning
<1>2. CASE Nudging  BY <1>2, RunsKeep, NudgesKeep, AccountsKeep DEF Nudging
<1> QED BY <1>1, <1>2

-----------------------------------------------------------------------------
(* The result. *)

\* Nobody is sent the same mail twice for the same reason, nor one about the
\* card within the days for which it is looked up (the daily job of
\* src/jobs/userLifecycle.job.ts), however many accounts, changes and days.
THEOREM LifecycleNudgesOnce == LifecycleSpec => []NudgedOnce
<1>1. MailsInv => NudgedOnce  BY DEF MailsInv
<1> QED BY <1>1, MailsInvInit, MailsInvNext, PTL DEF LifecycleSpec
=================================================================================
