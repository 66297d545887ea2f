# Verification of the multi-line dialer backend

TLA+ modules, TLC configurations and TLAPS proofs for the backend in `src/`
(Node, Express, TypeScript, Prisma on PostgreSQL; Twilio for calls, Stripe for
billing, MailerSend and SMTP for e-mail). Below, **S** is
`src/src/routes/calling/services.ts` and **C** is
`src/src/routes/calling/controller.ts`.

1. [The system](#the-system)
2. [The modules](#the-modules)
3. [What the runs check](#what-the-runs-check)
4. [Fairness](#fairness)
5. [What is proved](#what-is-proved)
6. [What is only model-checked](#what-is-only-model-checked)
7. [Findings, and divergences without a run](#findings)
8. [What is not modelled](#what-is-not-modelled)
9. [Plan](#plan)

To use: `tlc -config Dialer_lines.cfg MCDialer.tla`, `tlapm DialerProofs.tla`. The
configuration `Dialer_*` belongs to `MCDialer`, `Outreach_plans` to `MCOutreach`,
`accounts`, `numbers` and `lockedOut` to `MCAccounts`, and `contacts`,
`registration` and `activity` to the MC module of that name.

## The system

`src/src/index.ts` starts one Express process. It keeps the whole state of the
dialer **in memory** (class `DialerService`, Maps keyed by user); everything else
is rows of PostgreSQL. The reconciliation loop of the dialer always runs; the cron
jobs (`src/src/jobs/`) only when `ENABLE_CRON=true`, which is meant for one
instance. The repository has no automated tests to speak of, so the comments and
the docs are what the code is held to.

### Inventory

| Component | State | Operations | Talks to | Hard behaviour | Correct when |
|---|---|---|---|---|---|
| **Dialer** (S) | per user: priority queue, `leadsInFlight`, `activeCalls` with a metadata object per SID, `pendingRedials` and timers, agent lock (`agentBusyState`, `agentBridgedCallId`), post-call, ready, removed contacts, stop signal, processed SIDs | `processQueue`, `makeCall`, `handleCallStatusUpdate`, `requeueLeadForRedial`, `setAgentBusy`, `agentReady`, `purgeContactFromSession`, `clearQueue`, `reconcileUser` (15 s), `isAgentBusy` (60 min) | Twilio REST, lead rows, the webhooks below | every handler awaits in the middle; webhooks late, lost, twice, out of order; two sources of the same final status | one caller at a time; the lock never stuck nor stolen; lines within the pacing; nobody dialed too often; no card or line lost; the queue advances |
| **Calling webhooks and requests** (C) | none of its own; writes the Maps of the dialer directly | start, stop, agent ready, remove contact; voice, AMD, status webhooks | browser, Twilio, Dialer | check, await, act | as above |
| **E-mail sending and retry** (`services/email.service.ts`, `jobs/emailQueue.job.ts`, `utils/emailSuppression.ts`) | `EmailQueue` rows, suppression list, SMTP failure streak | `sendEmail`, `dispatchEmail`, retry tick (30 s), startup reset, suppress | transports, mail-provider webhook | overlap of ticks, restart, refusal | each mail delivered or given up, never to a suppressed address |
| **Action plans** (`jobs/actionPlanStep.job.ts`, `systemSettings/actionplan/`) | `ContactActionPlan`, `ActionPlanStepExecution` rows | assign, unassign, edit, delete, step tick (5 min), DNC | e-mail, tasks, callbacks, contacts | overlap of ticks, requests during a tick, concurrent assigns | each step fired once, one plan per contact, removed plans quiet |
| **Contacts and DNC** (`routes/contact/`, `routes/contactlist/`) | contacts, phones, lists, folders and groups as arrays of ids, backups, suppressed numbers, action-plan flags | create, edit, import, merge, move, DNC, trash, bulk delete, restore, purge | dialer, action plans, tracker | READ COMMITTED transactions that write arrays read earlier; a backup row shared by many contacts | no contact is lost; deals survive hygiene |
| **MyPlusLeads** (`services/myPlusLeads*`, `routes/webhooks/myplusleads.ts`) | imported contacts, tombstones, per-user lock in memory | sync, webhook, repair | external lead service, contacts | several importers of one listing, each await a step | a listing is one contact; what was deleted stays so |
| **Billing requests, Stripe webhook, trials, suspension** (`routes/billing/`, `routes/webhooks/stripe.ts`, `services/endTrial*`, `accountSuspension*`) | `User` flags, `UserSubscription`, `BillingEvent` rows | checkout, plan change, cancel, renew, suspend; six kinds of event | Stripe, numbers, seats | duplicated and reordered events; three stores that disagree; crash between any two | access follows payment; a signup is all or nothing |
| **Caller IDs, number billing, Twilio accounts** (`systemSettings/callerId/`, C, `services/phoneNumberBilling*`, `trialProvisioning*`) | `CallerId` rows, add-on subscription and its items | buy, buy for a user, top up, release, delete | Twilio, Stripe | a saga of buy, charge, transfer, store with give-back | a listed number is held; a charge is on record |
| **Seats, team, retention** (`services/agentSeatBilling*`, `retention*`, `routes/user/`, `lib/auth.ts`) | users, seat subscription and items, old calls and files | buy a seat, create an agent by two paths, remove by four, nightly removal | Stripe, R2, mails | count and creation are two steps; rows selected before they are deleted | no seat used twice |
| **Daily mails** (`jobs/userLifecycle.job.ts`) | `EmailLog` | five kinds of mail | e-mail | missed runs, rows that change between runs | nobody nudged twice for one reason |
| **A2P, CNAM, voice integrity** (`services/a2p*`, `cnam*`, `voiceIntegrity*`) | a registration row; flags of numbers | submit, resubmit, poll, check; onboard, refresh, backfill | Twilio, the carriers' registry | three vettings in a row, each failing, slow or retried; cleanup of what failed | approved means approved; pending ends |
| **Call records and screens** (C, S) | `CallRecord`, lead status, recordings, captions, SMS, dial bookmark | status, AMD, recording, transcription webhooks; list order; inbox | dialer, Twilio, contacts | rows read and written at two awaits; webhooks before the row exists | machine calls stay so; recordings stay with their contact |
| **Agenda and calendar sync** (`routes/callbacks`, `appointments`, `tasks`, `calender`, `calendarSync`, `jobs/`) | rows with due times, remembered ids, `queueStatus` of contacts | create, change, snooze, delete; reminder and callback jobs of each minute | Google, Outlook, contacts, push | calls nobody waits for; two providers; ticks that overlap | ids, holds and reminders agree |
| **Tracker** (`routes/tracker`, `domain/prospecting/`) | entries by hand; all else is added up | dashboard, channels, leaderboard; save, correct, delete an entry | sessions, dispositions, stage events | boundaries of days; two overlapping first entries | every route gives the same sums |
| **SMTP settings** | one row per company | save, test, un-verify | SMTP, e-mail sending | test during an edit | only a verified configuration sends |
| **Companies, settings, library, reports, notifications, server** | rows | create, read, update, delete | - | little | - |

`PROJECT.json` lists every part with its sources and status. The hard, stateful
and concurrent logic that the product stands on is the dialer; action plans and
their e-mails are the second part that acts on customers by itself. These two are
modelled in depth and proved about; the other rows down to the tracker are modelled
and checked, each in modules of its own; the last two are not modelled.

### How the dialer works

`addLeadsToDialer` fills a priority queue with cards (one phone number of one
contact). `processQueue` (the *pump*), one at a time per user, takes as many
cards as lines are free and runs `makeCall` for each, 250 ms apart. A card is
counted in `leadsInFlight` until `calls.create` has answered and the call is in
`activeCalls`. When the customer answers, Twilio asks for TwiML
(`handleVoiceWebhook`): without answering-machine detection the call is bridged
to the agent's browser there; with it the call is held and `handleAmdStatus`
bridges a human or hangs up on a machine. Whoever is bridged holds the agent lock.
A second human who answers meanwhile hears hold music and is dropped. The final
status (`handleCallStatusUpdate`, called by the webhook for parent and child
legs and by the watchdog) releases the lock, enters *post-call* when the agent
spoke, schedules a redial for an unanswered call, and pumps. The agent's
disposition (`agent-ready`) ends post-call. The watchdog `reconcileUser` asks
Twilio for calls that have gone quiet, frees an orphaned lock, ends a forgotten
post-call and pumps.

### How action plans work

`assignToContact` writes an assignment and one execution row per step with its
due time. The step job reads due rows, claims each by a conditional update, and
fires it: a template e-mail, or a callback or task row. An e-mail that no
transport takes is put in `EmailQueue`, which the retry job works off until it
is sent, suppressed or out of attempts. Removing the plan, or moving the contact
to Do-Not-Call, skips what is still pending; editing or deleting a plan cascades.

## The modules

| Module | What it is |
|---|---|
| `DialerState` | variables, types, `Init`, helpers shared by handlers (queue, lock, redial guard) |
| `DialerTwilio` | the outside: what Twilio, the customer and the agent's browser may do to a call leg |
| `DialerCalls` | pump, `makeCall`, status, voice and AMD webhooks, redial timers |
| `Dialer` | session requests, watchdog, 60-minute rule, `Next`, `Spec` |
| `DialerProperties` | properties, fairness, refinement mapping |
| `CardLife` | abstract specification: the life of one queue card |
| `MCDialer` | instances for TLC |
| `DialerProofs`, `DialerCardProofs` | theorems about the dialer: its types and the agent lock; the cards and the lines |
| `EmailDelivery` | one dispatch, the retry queue and its job, suppression |
| `ActionPlans` | assignments, executions, requests, step job, crash; composes with `EmailDelivery` (EXTENDS; its step-job ticks are the callers of `sendEmail`) |
| `OutreachProperties`, `MCOutreach`, `OutreachProofs` | properties, instance, theorems |
| `AccountState` | one account in three places: Stripe, Twilio, the database; frames of handlers |
| `PlanBilling` | Stripe's subscriptions, the events about plans and leads, the requests that change the plan |
| `LineBilling` | numbers: topping up, releasing, buying, deleting, and the add-on subscription |
| `Accounts` | receiving, skipping, recording and rejecting events; crash; `Next` and fairness; composes the three above |
| `AccountProperties`, `MCAccounts`, `AccountProofs` | properties, instance, theorems |
| `ContactState` | contacts, containers, backups; a worker's request with the snapshot it read |
| `ContactMoves`, `ContactRecords`, `ContactSources` | where contacts are; what they are; those that MyPlusLeads sends |
| `Contacts`, `ContactProperties`, `MCContacts`, `ContactProofs` | composition, properties, instance, theorems |
| `A2P` | one registration, its reviews, requests and poller |
| `Deliverability` | Voice Integrity and CNAM, over the registration's profile |
| `RegistrationProperties`, `MCRegistration`, `RegistrationProofs` | properties, instance, theorems |
| `CallRecords` | rows of calls under the webhooks |
| `CallScreens` | the list that is dialled next, the SMS inbox, worked out from the rows |
| `Agenda` | callbacks, appointments, tasks, events, their mirrors and jobs |
| `Tracker` | sums of the tracker, entries by hand |
| `Team`, `LifecycleMails`, `TeamProofs` | seats, agents, nightly removals; the daily job's mails (each with its property); theorems |
| `ActivityProperties`, `MCActivity`, `ActivityProofs` | properties of records, screens and agenda; the instance that checks them with `Team`, `LifecycleMails` and `Tracker`; theorems |

### Grain of atomicity

Node runs JavaScript between two `await`s without interruption. So **one action
is one stretch of a handler between two awaits** that matter: the pump is
`PumpGivesUp` / `PumpTakesBatch` / `PumpFires` / `PumpEnds`; a call being placed
is `MakeCall` (up to its first await), then `CallCreated`, `DialBlocked`,
`DialFrozen` or `DialFails`; a final status is `StatusArrives` (what is
synchronous) and `FinishStatus` (after the database); a bridge after detection is
`HumanBridges` (lock, Maps), then `BridgeLands` or `BridgeFails` (Twilio's
answer). Awaits between which no shared state is read or written are merged. A
database transaction is one action when it only writes and two when it writes
what it has checked (`AssignChecks`, `AssignWrites`).

In the modules of the account a handler is a *frame*: `frame[p].at` names the await
it is at, the other fields are its local variables, and each action moves it to the
next (`BuyPaid`, `ChargeFirst`, `AddonRow`, `Transfer`, `StorePaid`, or `GiveBack`). In
the contact modules a handler *begins*, when it takes a snapshot, and *commits*, when all
it writes becomes visible; PostgreSQL's READ COMMITTED lets others commit between. The
sync of listings is no transaction and goes step by step. Elsewhere a handler under way
is a record in a set (`work`, `busy`) or in a function of workers, with the row it read.

### State correspondence

* `userQueue[l]` is 0 when card `l` is not queued, else the attempt it is for.
* `activeCalls[s]` is 0 (not in the Map), 1 (the object `makeCall` stored) or 2
  (the object a bridge stored in its place); `meta[s][1..2]` are the two objects.
  The code closes over metadata objects across awaits, so which object a handler
  holds matters: `finishing` and `skipping` entries carry it (`obj`).
* `pendingRedials` are guard keys; `redialTimers` and `requeues` are timeouts not
  yet fired, and fired ones that wait for the database. `cancelable` is whether
  `redialTimers` of the code still holds the handle of the timeout.
* `leg[s]` is Twilio's view of a call: `end` and `kid` say which final webhooks
  may come for the parent and the agent's leg, `voice` whether a TwiML request is
  outstanding, `resp` whether `calls.create` has yet to answer, `spoke` whether
  the agent answered and may disposition.
* Every Map of the service is keyed by user, so the modules are about one agent.
* `queue[m].status` and `execution[e]` are the row's status, with PENDING split
  in WAITING (not due yet) and PENDING (due). `job[j]` and `tick[t]` are the local
  variables of a tick; `job[j].removed` is what the tick's snapshot said of
  assignments, stale by design of the code.
* `dialed`, `dispositioned`, `sessions`, `tries`, `accepted`, `fired`, `crashes`,
  `dbFaults` and `mishaps` (of the account: what failed and was only logged, or was cut off) are history.
* **Accounts.** `stripe[s]` and `items[s]` are Stripe's, `twilio[n]` Twilio's; `user`,
  `rows`, `addonRow`, `Numbers` (listed caller IDs) and `lead` are the database's. `sent`
  is all events of Stripe, `due` those not answered with 2xx, `processed` and `rejected`
  the `BillingEvent` rows PROCESSED and FAILED.
* **Contacts.** `db` is one record of all tables, so that a snapshot is `job[w].seen`.
  `fate[c]` says whether `c` was created, merged, dissolved with its master or deleted for good, `origin[c]` is the
  listing it was imported from.
* **Registration.** `profile`, `brand`, `campaign`, `product`, `assigned` are at Twilio;
  `reg` and `line[n]` are rows; `work[w]` is a worker's copy of the row and what it made.
* **Calls.** `call[s]` is what happened, `record[s]` its row, `post` the webhooks that may
  arrive (in any order, or never), `work` the handlers under way.
* **Agenda.** `item[i]` is the row, with `ext` and `via` the event it remembers; `remote`
  is what exists at the providers, including what nobody remembers; `busy` is
  requests, calls to providers and ticks.
* **Tracker.** Nothing but `entries` and what it is summed from; `told[b]` is history,
  what agents have entered and not been refused.

### Webhooks

No message is stored in a channel. A handler may run **whenever the leg's
history entitles Twilio to report**, and a final status as often as it likes, so
lost, late, duplicated and reordered webhooks are all behaviours. The `Hazards`
constant names the less usual ones, so that a run can say which it includes:

| Hazard | What may happen |
|---|---|
| `slowDb` | other handlers run while a status update is in the database |
| `lateVoice` | a call ends before its TwiML request is handled |
| `lateProgress` | ringing or answered callbacks come after later ones |
| `slowCreate` | webhooks overtake the response of `calls.create` |
| `placeFail`, `frozen`, `blocked` | `calls.create` throws; every caller ID in cooldown; `isDialBlocked` refuses |
| `closed` | outside calling hours, or autodialing off |
| `dbFail`, `restFail` | a database call in a redial timer throws; a redirect, to the agent or to hold music, fails on a live call |
| `lateBridge` | a redirect is answered after the end of the call was processed |
| `stop`, `purge`, `trim` | the agent stops; a contact is removed; its other cards are dropped |
| `staleLock` | the 60-minute rule fires |

Each theorem about the dialer names the hazards it is about; the others hold for
**every** set of them ([what is proved](#what-is-proved)).

### Bounds

`Pacing`, `MaxAttempts`, `AmdModes` are parameters of the code. Bounds of the
model are `MaxDials` (how often one card is dialed in a behaviour),
`MaxSessions`, `MaxFaults` (crashes and failed updates together) and the number of
slots `Sids`. A slot is reused (`Reuse`) when its call is `Spent`: over, referred
to by nothing, with no webhook left that could change anything. So slots bound
the calls *at one time*, not all calls. Reuse runs first, which is only an
ordering of steps that commute with it.

Not a bound but an abstraction: `no-answer` stands for no-answer, busy and failed,
`completed` for completed and canceled; numbers, names, caller IDs and
timings are left out, and a timeout fires at any moment the code's order of events
allows (a 15 s redial timer does not fire while a status handler that was already
running is still waiting on the database).

## What the runs check

`CHECK_DEADLOCK FALSE` in every run: a session that is over, and a plan whose last
step is done, have no next step, and that is right. States are distinct states.

| Run | Instance | Properties | Shows |
|---|---|---|---|
| `lines` (1.1M) | 3 cards of 2 people, 2 lines, 3 slots, detection on, `trim` | `TypeOK`, `ConversationHoldsLock`, `PostCallIsFree`, `LinesWithinPacing` | one conversation at a time and the lock is its; post-call holds nobody; no more lines than the agent chose |
| `redials` (1.4M) | 2 cards, 2 attempts, up to 3 dials allowed by the bound, failing REST, frozen numbers, late progress, webhooks before `calls.create`, removals | `DialsBounded`, `GuardBacked`, `CardsLive` | attempts are bounded, guards do not leak, the dialer implements `CardLife` |
| `slow` (223k) | 1 card, 2 attempts, the hazards of `redials` with `slowDb`, `dbFail`, `lateVoice`, fairness | `OnePlacePerCard`, `InFlightBacked`, `CallsForgotten` | duplicated final statuses never put a card in two places; no line is lost; every tracked call is forgotten |
| `sessions` (1.6M) | 2 sessions, stop, `staleLock`, `closed`, `blocked`, `lateVoice`, `purge` | `OrphanLockTerminated`, `LockLastsTheCall` | an orphaned lock belongs to a call whose end was processed; an agent on the phone is freed by nothing but a start, a stop or the 60-minute rule (a failing redirect is excepted, see the divergences) |
| `live` (67k) | 2 cards on 1 line, with and without detection, fairness | `QueueAdvances`, `LockEventuallyReleased`, `PostCallEnds` | the session goes on although no webhook, prompt or disposition is promised |
| `plans` (420k) | 1 contact, 2 plans (an EMAIL and a TASK step), 2 overlapping step ticks, 1 retry tick, 2 faults | `FiresOnce`, `OneActivePlan`, `SentMeansAccepted`, `AttemptsBounded`, `MailSettles`, `SuppressedMailDies`, `StepsSettle`, `SkippedStaysQuiet` | a step fires once, one plan is active, SENT is true, attempts are counted, everything settles |
| `accounts` (822k) | two plans one after the other, a lead product, 2 included numbers, 4 events, 1 handler and 1 request, crashes, also before a signup's flag and while it is undone; signups, their rollback, topping-up and releases that fail; fairness | `AccessMirrorsPlan`, `SignupIsWhole`, `EndedPlanReleased` | access follows the plan, a signup is all or nothing unless two things fail, an ended plan is cleared up unless the release throws |
| `numbers` (3.0M) | one plan, two add-on subscriptions one after the other, 2 numbers, 4 events, 2 overlapping handlers with events in any order, requests that buy, buy for a user, delete, renew, end the trial; declined cards, a slow signup, errors of Stripe | `LineBacked`, `BilledAddonIsKnown` | a listed number is held, a charged add-on is on record unless Stripe refused to cancel it |
| `lockedOut` | one plan, cancelled | `CancelledKeepsAccess`: violated | [findings](#findings) |
| `contacts` (1.5M) | 3 contacts, 2 lists, 1 folder, 1 group, 2 numbers, 2 listings, 2 workers, 3 requests, in six parts | `NothingLost`, `OneContactPerListing`, `FunnelKept` | overlapping requests lose no contact, import no listing twice, and merges and deletes rewrite no figures |
| `registration` (931k) | 2 profiles, brands and campaigns, 1 worker, 1 fault; 2 numbers, 2 products; fairness | `ApprovedIsVetted`, `FlaggedIsApproved`, `PendingSettles` | approved is what Twilio and the carriers said; pending ends |
| `activity` (2.2M) | thirteen parts, see below | `RecordingOfContact`, `ScreensWhole`, `AgendaAgrees`, `SeatsCovered`, `NudgedOnce`, `MachineKept` | records, screens, agenda, seats, mails and tracker hold what they promise |

Where a component is many parts that share no state in a behaviour, its instance
chooses one **part** in the initial state, which fixes the rows there are and the
requests that arrive: their product would be large and show nothing more. The parts of
`contacts` are moves (`places`), the first folders (`filing`), a shared backup row
(`backups`), calls and DNC (`calls`), merges of deals (`funnel`), some with the master among the duplicates, and imports (`leads`). Those of
`activity`:

| Part | Of | What overlaps |
|---|---|---|
| `verdicts`, `captions` | `CallRecords` | machine verdict, status webhooks of either leg, hang-up, transcription |
| `recordings` | `CallRecords` | recordings of three calls of two contacts, matched by SID, lead or contact |
| `list`, `texts` | `CallScreens` | any rows, all filters; messages of numbers that change hands |
| `mirrors`, `holds` | `Agenda` | two requests on one row and two calendars; the hold of a contact with two rows |
| `reminders`, `dues` | `Agenda` | overlapping ticks, requests, the clock |
| `seats`, `nights` | `Team` | 2 purchases, 2 creations, 2 removals, 3 agents, cap of 1, a bought seat that is not paid; retention during sign-ins |
| `mails` | `LifecycleMails` | runs missed and cut off, changes of an admin and an agent |
| `tracker` | `Tracker` | three acts on sessions, contacts, deals and entries over the days of a week with its weekend |

Why the bounds are enough to be interesting:

* `lines` has more cards than lines, so a batch is taken while other calls are up,
  and two cards of one person, so that machine detection and `trim` drop the other.
  The double-bridge cases need two answered calls and a third event; three slots
  give all three.
* `redials` allows one dial more than `MaxAttempts`, so that exceeding the limit is a
  state and not cut off by the bound. Two attempts are the least number with a
  redial, and the limit is reached.
* `slow` needs one card only: its property is about duplicated reports of *one*
  call's end. Two slots let the redial's call overlap with handlers of the first.
* `sessions` needs two sessions because `clearQueue` leaves guards, timers and pending
  handlers behind.
* `plans` has both kinds of step, two assignments racing for one contact, and two ticks
  of the step job; two faults may strike anywhere, which is what it takes to have an
  attempt that no update of the row counts though the process lives. With one retry tick: the
  job's claim has no condition on the status, so overlapping ticks would break
  `AttemptsBounded` (see the divergences).
* `accounts` handles events one at a time and oldest first (`Ordered`): a deleted and an
  updated event out of order give access to who has no plan (see the divergences). A second
  plan makes the late events of the first bite. `numbers` drops the order and the
  second plan, and lets two executions of the webhook overlap a request. It has a second
  add-on subscription, because the row of the first is dropped by whoever ends it, whichever
  it names by then; its last event is about an add-on, and the signup is delivered twice
  only before anything else is sent; an error of Stripe comes after the signup and before the last event
  (`NumbersBound`). Once an error has been logged that leaves something behind for good (`mishaps`), only
  `MaxTrouble` events are sent in all: what it leaves is seen by then.
* `contacts` has two workers, since each of its hazards is one handler that commits
  between the reading and the writing of another, and three requests: one to make the
  situation, two to overlap. Three contacts give a shared backup row or a merge of two
  duplicates.
* `registration` has two of each resource: the one that was refused and its
  replacement. One worker: two overlapping checks, and a check overlapping a submission,
  do break the properties (see the divergences).
* `activity`: periods of the jobs, days of retention and of the mails are scaled to one to
  five, with their order kept. Two requests on one row meet the mirrors when both
  providers are linked. The tracker's strip (`Window`) is 2 days and its month 4, with a weekend in
  the middle, because the code's strip of 28 days (`streak.ts`:113) is shorter than a month too: a streak
  may be longer than the strip shows.

Every property has a mutant in `PROJECT.json`: a change to a definition of the model
such as a plausible bug would make (a dropped guard, a slot not freed, a flag not
reset), under which the run finds the property violated. Mutant operators
stand beside the definitions they change, marked `Mutant:`.

### The abstract specification

`CardLife` says what the queue promises about a card: it is idle, queued, being
dialed or waiting for a redial; it is dialed only out of the queue; it comes back only
by waiting; it is dialed at most `MaxAttempts` times. The refinement mapping
(`CardPlace`) reads the place of a card off the structures of the service: the queue,
the batch, the calls it is engaged in (`Calling`), the final reports that are still in the
database (`Reported`: until then the card may yet get a redial, so its dialing is not over),
the timers and the fired timers; `tries` is `dialed`. `CardsLive` is checked in `redials` and
proved for every instance. It holds per card for one loading of the queue
(`MaxSessions = 1`): a new session may load a card again.

## Fairness

**Dialer** (`Fairness`): Node runs what is scheduled (the stretches of the pump,
the database continuations, timers); the watchdog ticks every 15 s
(`startReconciliationLoop` runs in every process) and its fetch sees a
call that has ended; the 45 s post-call grace runs out; Twilio answers a
`calls.create`, a redirect and a hang-up; an answered or ringing call
ends some time. **Nothing** is assumed of the status and AMD webhooks, of the
browser, of dispositions or of the agent: the comment at S:2063 ("even if every
webhook were lost") is taken at its word. All fairness is weak, on actions that stay
enabled until taken; `Free` states the model's own ordering (spent slots first,
and with `slowDb` off the database before others). The `live` run has neither
`closed` nor `frozen`: outside calling hours no progress is promised.

**Accounts** (`AccountFairness`): Stripe delivers an event again until it is answered; a
handler or request that has begun goes on; the process does not die for ever. Nobody has to
request anything, and no plan has to end. **Registration** (`MCSpec`): the poller runs every six
hours (`startA2PStatusPoller`, in the process with `ENABLE_CRON`), reviews come to an end, a worker goes on.
What Twilio and the carriers decide is free.

**Contacts** and **activity** assume none: their properties are about safety.

**Outreach** (`OutreachFair`): cron runs both jobs for ever, due times pass, the
database and the transports answer (accepting or refusing). Users, bounces,
crashes and faults may stay away. `MailSettles` and `SuppressedMailDies` except
a failed final update, which leaves a row PROCESSING until the next
restart; `StepsSettle` excepts crashes too, since no startup reset looks at
step executions.

## What is proved

The assumptions on constants are named in the modules that declare them:
`DialerAssumption`, `EmailAssumption`, `PlanAssumption` (finite sets of cards and slots,
functions of the right types, `None` outside them, positive limits, for plans that e-mails
are steps addressed to their contact), `A2PAssumption`, `EnrolAssumption` (`None` is no
resource and no status), `TeamAssumption` (agents are finitely many, the cap is a number),
`LifecycleAssumption` (windows are numbers of days, `Unknown` is none), `ContactAssumption`
(the bounds are positive, the folder of Do Not Call is not the trash, `None` is no listing), `CallAssumption` (calls are
numbered from 1 in the order in which they are placed, `None` is no client), `AgendaAssumption`
(margins are numbers of minutes, a callback is due before it is missed, `Unset` is no kind of row),
`ScreensAssumption` (finitely many contacts), `TrackerAssumption` (finitely many deals and sources,
`Untagged` is no source, some day of the week is worked, days and the bound of the acts are numbers)
and `AccountAssumption` (finitely many numbers, the subscriptions of a plan, an add-on and a lead
product apart, handlers apart from requests, `None` is no number and no subscription).
Nothing bounds the number of cards, calls, contacts, plans, steps, profiles, products, numbers,
subscriptions, events, agents, people, rows, messages, requests, ticks or faults. What a theorem assumes beyond that stands in its `ASSUME`; TLC finds a counterexample to the
property when the hypothesis is dropped, except where the last column says otherwise:

| Theorem | States | Hypothesis | Without it |
|---|---|---|---|
| `TypeCorrect`, `OrphansAreTerminated`, `PostCallHoldsNoCall`, `LockLasts` | `TypeOK`, `OrphanLockTerminated`, `PostCallIsFree`, `LockLastsTheCall` | none: every hazard | - |
| `ConversationIsLocked` | `ConversationHoldsLock` | `Undisturbed`: one session that is not stopped, no `staleLock`, no `lateBridge`; with detection off no `lateVoice` and no `purge` | the lock goes while the caller talks: the 60-minute rule, a late failed redirect, a zombie call |
| `InFlightIsBacked` | `InFlightBacked` | no `stop` | a stop abandons the batch in `leadsInFlight` |
| `OnePlaceForACard` | `OnePlacePerCard` | `Orderly`: one session, not stopped; with detection off no `lateVoice`, `purge` or `slowCreate` | a session loads a card again; a TwiML request revives a call that was forgotten. For `purge`, and for stopping the only session, no counterexample is known: it is `CallsInv` that fails |
| `GuardsAreBacked` | `GuardBacked` | `Orderly`, `Dropping`: no `blocked`, no `dbFail`, one card per contact | the three leaks of a guard that the divergences name |
| `DialsAreBounded` | `DialsBounded` | `Orderly`, detection on | a bridge drops the count of attempts |
| `LinesStayWithinPacing` | `LinesWithinPacing` | `Orderly`, no `restFail` | a caller whose redirect failed stays on hold and is counted no more |
| `DialerImplementsCardLife` | `CardsLive` | `Orderly`, detection on, not both `slowDb` and `purge` | as above; a report that waits in the database schedules the redial that a removal of the contact has cancelled |
| `StepsFireOnce`, `ContactFollowsOnePlan`, `SkippedStepsRest`, `SentWasAccepted` | `FiresOnce`, `OneActivePlan`, `SkippedStaysQuiet`, `SentMeansAccepted` | none | - |
| `MailAttemptsBounded` | `AttemptsBounded` | one tick of the retry job at a time | overlapping ticks dispatch one row twice |
| `FlaggedNumbersApproved` | `FlaggedIsApproved` | none | - |
| `RegistrationVetted` | `ApprovedIsVetted` | one worker on a registration at a time | a check that overlaps another writes what it read before |
| `TeamSeatsCovered` | `SeatsCovered` | none (two creations at once are excepted by the property) | - |
| `LifecycleNudgesOnce` | `NudgedOnce` | none | - |
| `ContactsNothingLost`, `ContactsFunnelKept` | `NothingLost`, `FunnelKept` | none (a merge that names its own master as a duplicate is excepted by the properties) | - |
| `ContactsImportedOnce` | `OneContactPerListing` | `SourcesStay`: no assignment to a list, edit of the source or import that overwrites concerns an imported contact, and none is restored | each of the four makes a second contact: the source is the key by which a listing is recognised, and a listing whose contact was deleted may be pushed again before the contact comes back |
| `RecordingsStayWithContact`, `MachinesStayMachines`, `AgendaStaysAgreed` | `RecordingOfContact`, `MachineKept`, `AgendaAgrees` | none | - |
| `ScreensStayWhole` | `ScreensWhole`, of `ScreensSpec` and `TrackerSpec` together | none | - |
| `MessagesAreShown`, `TrackerAddsUp` | its parts `InboxWhole` and `TrackerWhole`, each of its own module | none | - |
| `AccountTypeCorrect` | `AccountTypeOK`, which no run repeats | none: every fault and request | - |
| `ListedNumbersHeld` | `LineBacked` | no `crash`, `cutSignup`, `crashInSignup` | a server that dies between a release at Twilio and the deletion of the row leaves the number listed |
| `SignupAllOrNothing` | `SignupIsWhole` | no `slowSignup` | a second delivery finds the user that the first is about to undo and records PROCESSED |
| `ChargedAddonKnown` | `BilledAddonIsKnown` | one request at a time; no `crash`, `cutSignup`, `crashInSignup`, `signup`, `slowCancel`; no `deleteUser` beside `slowSignup` or `db` | a death between charge and row, a signup undone under a purchase, two cancellations, two first purchases, a signup undone after the user it found was deleted and has ordered. For `deleteUser` beside `db` no counterexample is known: it is the lemma that needs it |
| `AccessFollowsPlan` | `AccessMirrorsPlan` | `Ordered`, no add-ons, no `renew`, no `endTrial`, no `slowSignup`, no `crashInSignup` (`cutSignup`, `undo` and `release` are allowed) | a failure handled before the signup finds no row to close; the paid invoice of an add-on opens a plan that is past due; the two requests write `isSubscribed = true` after the webhook has written false; a suspension that outlives an undone signup closes the next; for `crashInSignup` no counterexample is known now that a death before the flag is excepted by the property: it is `SignupInv` that needs it |

Every hypothesis is met by the run that checks the property, or by a part of it, and the
runs have the case in which the property could fail otherwise: `lines` is within
`Orderly` and has no `restFail`, `redials` is within the hypotheses of its three
theorems, `slow` is `Orderly`.

**`DialerProofs`** - first `TypeCorrect : Spec => []TypeOK`. `TypeOK` is not inductive
alone: a redial is scheduled for `leg[s].lead`, which must be a card and not
`None`. `TypeInv` adds that a leg in use was placed for a card (`Sound`) and that
a pending database job refers to such a leg (`Placed`). `LegStep` captures the only
way a leg changes, so that each handler shows it once and the rest is bookkeeping by
group of variables. Then the agent lock, the state all webhooks fight over.
`LockInv` is `TypeInv` with
* `LockConsistent`: busy exactly when somebody holds the lock;
* `OwnerPast`: the owner was answered and is past machine detection (so the machine
  branch, which forgets a call at once, cannot forget the owner);
* `OrphanLockTerminated`: an owner that is not tracked has had its end processed -
  the premise of the watchdog's step 2 and of the stale-lock test;
* `PostCallIsFree`: post-call holds nobody.

Every step is `Quiet` (lock alone, owner forgotten only as its end is processed),
`Frees`, or `Takes(s)` (for a tracked call, when nobody else holds it). `LockInvKept`
shows the invariant survives each; one lemma per group of actions shows there is no
fourth kind. For `ConversationIsLocked`, `TalkInv` adds what a call's history says of its end:
that an end is processed only after the call is over (`OverInv`), that nothing refers to a
slot before it is used (`Fresh`), and that a call that talks is tracked and is the owner. `LockLasts` is about a step: a step that takes the lock from `s`
is one of the exceptions or the final report of a call. Such a report frees the agent of its own call, which is over by
`OverInv`, or, in the stuck-lock branch, of one that is not tracked and no call of which remains, whose end has been
processed (`OrphanLockTerminated`) and is over too.

**`DialerCardProofs`** - the cards and the lines, one property after the other on one
invariant that grows:
* `FlightInv`: a batch exists only while the pump fires it. Gives `InFlightIsBacked`.
* `CallsInv`: a live leg is tracked, or Twilio's answer to its creation is still out, or it is
  about to be hung up.
* `CardsInv`: queue, batch, calls, timers and fired timers are apart (`Apart`), no structure
  has a card twice (`Once`), what waits for a redial has its guard (`Guarded`), and while a
  final report that may schedule a redial is in the database its card is nowhere else (`Late`;
  this is what makes a duplicated final status harmless). `CardsFlow` says where the cards
  of each place come from, `LegTurn` and `TrackMoves` what may become of a call in one
  step; each is proved once per action and used by all that follows. Gives `OnePlaceForACard`.
* `PastInv`: what has happened to a call forbids what it could still owe (a call on hold was
  not unanswered, a machine's card is nowhere else). Gives `GuardsAreBacked`.
* `TriesInv`: the attempt a card is queued or waiting for is beyond what has been dialed.
  Gives `DialsAreBounded`.
* `LinesInv`: the lines in use and the leads in flight together are within the pacing, and
  what is on its way to Twilio is in flight. The count is over sets, so each step says which
  lead leaves the one as it enters the other. Gives `LinesStayWithinPacing`.
* `LifeInv` adds that a placed call was dialed; each action of the dialer is then one of
  `CardLife` for the card it moves, or a stutter. Gives `DialerImplementsCardLife`.

**`OutreachProofs`** - `OutreachTypeCorrect` (`OutreachTypeOK`, which no run repeats); `StepsFireOnce`,
`ContactFollowsOnePlan` and `SkippedStepsRest` from `Inv`, `SentWasAccepted`
from `MailInv`, `MailAttemptsBounded` from `CountInv`.
* `StepsInv`: an execution held by a tick is PROCESSING (or deleted), no two ticks
  hold the same one, a claimed one has not fired, and neither has a pending one. This is
  what makes the conditional update an exclusive claim; `FiresOnce` follows.
* `PlansInv`: an assignment that passed its checks has no row yet, and executions
  exist only for assignments that do; with `AssignWrites` (the partial unique index)
  `OneActivePlan` follows.
* `MailInv`: an attempt that returned "accepted" was; the step job's current mail is the
  one its dispatch is about; a step about to be recorded was accepted.
* `CountInv`: the row has counted all attempts but those that faults have cost, and the one that
  is under way. A row that is PENDING although the tick has found it has had its claim
  fail, one that is PROCESSING although no tick has it has had its update fail; which is why an
  attempt is lost only to a death of the process, or to two failures. The first proof
  attempt found the property too strong: it allowed for deaths only, and the run had one
  fault, with which two failed updates cannot happen.

**`RegistrationProofs`** - `FlaggedNumbersApproved` from `EnrolInv`: a programme under
onboarding is not approved and has no product but the one in the making (`ClerkInv`), and a number's
row names the product of its programme, where it is assigned (`LineInv`). `RegistrationTypeCorrect`
and `RegistrationVetted` from `VettedInv`: what the row, or the copy a worker has of it, says
was seen (`Seen`) is so at Twilio and the carriers, and stays so; a worker's copy names the
row's resources (`StageVetted`).

**`TeamProofs`** - `SeatsInv`: of the one maker that is between its check and its creation, what
it has checked still holds, as everything else that happens only frees seats. `MailsInv`: the windows are a day wide, so what a mail is about determines
the day of its run (`Timely`), and two mails on two days are about two things.

**`ContactProofs`** - what saves `NothingLost` although a shared backup row is written from an
older reading. A contact is away only since its last delete, which made a row of its own that
was in no reading before; whoever has read that row since found the contact there (`SafeIn`). So
a restore or a permanent delete of another contact of the row, from whatever reading, writes it back
with the contact in it. `ContactInv` adds that a reading is of tables that were (`Whole`), with
no more backups than there are now (`ReadBefore`). A step is quiet, a delete into a new row, or
rewrites one row (`QuietStep`, `DeleteStep`, `RewriteStep`). The theorems are about `ContactSpec`:
any tables at the start that back up who is away, where the run starts each part from a few.

`FunnelKept` is about a step, of tables that anybody may have written since a merge read them.
`FunnelInv`: the stage events that a merge has read, of the contacts it merges, still stand when it
commits, because other requests change whose an event is, and nothing else (`SameEvent`), while
entering and deleting events waits for merges (`MergeAlone`). The merge that names its own master is the one that the
property excepts; the proof shows it to be the only one. What is left is
about sums: the commission of a set of events is a cardinality (`Units`), so that the sum over a union is
shown from finite sets, with no induction over the duplicates.

`OneContactPerListing` needs two invariants. `InLine`: the queue holds the workers that sync, each
once, and only its head has started, which is what `withUserSyncLock` is for; a push is
alone. `Sources`: an imported contact that is there has its listing as its source, no two have the
same, and who is about to create one has found none. `findFirst` and `create` are two steps; between
them nobody else creates a lead, and nobody else writes a source or brings a
contact back (`Sourced`, shown once per request).

**`ActivityProofs`** - three invariants, one for each module that the properties are about.
* `CallInv`: whatever is under way, a webhook or a handler, is of a call that was placed; a row
  names the contact of its call; and while a handler is about to insert a row there is none,
  and no other handler to insert it. A recording is then filed with the row of its own call, or, for a
  child leg, with the latest row of the same lead or contact (`LatestIsOne`: the latest of
  finitely many is one of them, by well-founded induction on sets). For `MachineKept`,
  `MachineStep` goes through the writers of a row: those that come after the verdict read
  that a machine answered, and those that read before it are the exception that the property names.
* `AgendaInv`: an id that anything remembers, a row, a request or a call to a provider, is of an
  event made for that row at that provider (`Held`), which is what lets answers come in any order;
  and every request and job is of rows that were made, which stay what they are (`RowsLast`). So a
  status that is written late is still written on a callback, and what is marked was told.
* For `MessagesAreShown` the rows have the right shape, and a thread is shown under a contact
  that has its number (`BestIsOwner`).
* `TrackerInv` is of three parts: `EntriesOK` (the row that a save is about to make is free and no
  other save's, and the row that it found keeps its bucket of person, day and source), `CountsOK` (rows of
  sessions and deals are finitely many, of days that the clock has) and `ToldOK` (what a bucket was told is
  the size of the set of its units). The last is what the two halves of `upsertSession` could break: the
  lookup finds no row, another save makes one, and the insertion that follows must add. `TrackerSums` then
  needs no step: every figure is the size of a set (`SumOfSizes`: a sum over sets that are apart is the size
  of their union), and each screen splits the same set another way, by day, by channel or by entry.
* `ResumesWhole` and `StreaksWhole` are about the operators, in any state. `Kept`, which stands for the
  code's `filter`, and the streak's run back are recursive functions: that they exist, and what they
  hold of each index, is shown by `Reaches` (what holds of 0, and of one more wherever it holds, holds of
  every number; by the well-founded order of the numbers, on a set and not a predicate). `ResumedWhole` goes
  through the three pieces of a resumed list; `StreakIs` equates what `computeStreak` counts with the size of
  the chain of days, which ends because of seven days in a row one is worked.

`CallSpec`, `AgendaSpec`, `ScreensSpec` and `TrackerSpec` take all actions of a module together, from empty tables;
the run goes through them in parts, some of which start from rows that earlier calls have left.

**`AccountProofs`** - some seventy kinds of step, of which each property concerns a few. So each step
is described once, by what it may do: `StripeTold` (a subscription moves only along its life, an
event is only ever appended and speaks of the subscription it is about), `Written` (which steps write the
user, the rows, the add-on row, Twilio and the caller IDs), `TurnOK` (a step moves the frame of one
process, to a stage it can reach).
* `AccountTypeCorrect` from `TypeInv`: the types, and `KindsOK`, what a process is about at each
  stage: a plan it changes, an add-on it has charged, a number it has bought.
* `ListedNumbersHeld` from `LineInv`: a number nobody has bought is known to nobody (`FreshOK`); one
  that has been bought and is not listed yet is known to its buyer alone, but for an event that bills
  it and passes it by (`BoughtOK`); a process that releases numbers has found them in rows
  (`FoundOK`). So no step releases a number under the process that is about to list it.
* `SignupAllOrNothing` from `SignupInv`: a customer's only signup is the first event; the one handler that
  has it open has reached what its stage says (`ReachedOK`), and what it has made nobody else undoes. Deaths
  anywhere and rollbacks that fail are among its steps: a user without a row is there only while the handler is
  between the two, or after a death before the row or in the middle of undoing it (`"cut"`), or after a rollback
  that could not delete the user (`"undo"`). A rollback that fails only to delete the row
  leaves nothing: the row goes with the user.
* `ChargedAddonKnown` from `AddonInv`: whoever orders does so for a user who is there, a purchase that
  has charged the first add-on finds no row in its way, and a row is dropped by one process, once its
  subscription has ended. That no signup is undone meanwhile is `Unmixed`, from `SignupInv` where
  deliveries do not overlap and from `Undeleted` where no user is deleted: neither hypothesis alone
  is needed, which is why the theorem has the two as an alternative.
* `AccessFollowsPlan` is about a moment at rest, so its invariant has to say how far the database is
  behind Stripe. Stripe's side is `PlanInv`: one plan runs at a time, and the last event about a
  plan (`Latest`) tells how it stands. A step leaves the plans alone, or changes one and tells of it in
  an event of its own (`PlanTold`, shown once for each act of Stripe and each request); `ReadInv` says that what a
  request or a row names has begun. The webhook's side is `FlagInv`: events are answered from the
  oldest on by one handler at a time (`OrderInv`); a handler that is about to write the flag handles the
  kind of event its stage is for (`StageOK`); a suspension under way is of a user who has been signed up
  (`UserInv`); and the flag shows what the last answered event told, or the one being
  handled (`AccessInv`). With nothing due the two meet in the same event.

The first proof attempts corrected the model in one place (undoing a signup deletes the user's lead and
add-on rows too, by the schema's cascades, not only the rows of its plan), led to two divergences (`slowCancel`,
and a purchase under a deletion), and made three properties say more: `SignupIsWhole` spoke only of moments at
rest, `LineBacked` also accepted a number that some event still due might release, and
`BilledAddonIsKnown` spoke only of active subscriptions, and accepted any busy process that knew one.

Three of the properties name what the code itself gives up (`mishaps`): it logs the error, records the event
as PROCESSED or goes on, and nothing tries again. A property says exactly what may be left then: the numbers of
the one release that threw, the one subscription whose cancellation Stripe refused, the user of the one rollback
that failed. The proofs show that nothing else is.

## What is only model-checked

* Liveness: `QueueAdvances`, `LockEventuallyReleased`, `PostCallEnds`,
  `CallsForgotten`, `MailSettles`, `SuppressedMailDies`, `StepsSettle`, `EndedPlanReleased`,
  `PendingSettles`. Fairness and ENABLED are beyond the prover.
* `ContactTypeOK` is in no run and no theorem: TLC has checked it
  while the module was written, and it says nothing of the code.

Every invariant and action property that a run checks is stated by a theorem, under the hypothesis
that the table above names where there is one.

## Findings

`lockedOut`, whose counterexample is quoted with the comments it contradicts in
`PROJECT.json`: a customer who cancels at the end of the period keeps the plan at
Stripe, and `cancelSubscription` is careful to leave `isSubscribed` alone (`billing/controller.ts`:1380,
1398). But Stripe answers with `customer.subscription.updated`, whose handler takes a
closing subscription for a dead one (`webhooks/stripe.ts`:883) and locks the account at once.

### Divergences without a run

Met while modelling, each read off the code; most need one hazard more than the
runs include, and the modules contain them where they say so. Some are stated as
properties that no run checks, because the code breaks them: `OverflowRedialed` and
`NoDoubleBridge` (`DialerProperties`), `DeliveredOnce` (`OutreachProperties`),
`MovedStaysImported` (`ContactProperties`, with the part `moved` of `MCContacts`).

#### Dialer, e-mail and action plans

* **A stop starves the next session**: a stop between dequeue and dialing abandons the batch
  with its cards in `leadsInFlight` (S:617); with pacing 1 the next session never
  dials. In the model with `stop`; `QueueAdvances` is checked without.
* **A bridged call is redialed for ever**: `handleVoiceWebhook` replaces the metadata and drops
  `attempts` (C:735). A call that the carrier drops at once is attempt 2 again and
  again. In the model with detection off; `DialsBounded` is checked with it on.
* **A zombie call**: a TwiML request handled after the call's end takes the lock for a dead call
  (C:735) and puts it back among the active ones; its second final status
  forgets it and does not release the lock, as the SID was processed before. Every request
  then finds the lock stale and none can take it: two callers are bridged
  (`NoDoubleBridge`, with `lateVoice`).
* **An overflow caller is not redialed**: the final status overwrites the `callback` mark before
  it is tested (S:1248; `OverflowRedialed`).
* **A removed plan's mail is delivered**: refused once, it waits in `EmailQueue`, where
  removing the plan does not look.
* **The startup reset sends twice** what had been accepted before the restart (`DeliveredOnce`).
* **Stop does not stop a bridge** (S:403-404 "so nothing bridges to them after
  they leave"): with detection off, a TwiML request handled after the stop bridges
  the caller, as `handleVoiceWebhook` does not ask for the stop signal. In the model
  (`StopDialing`, then `VoiceBridges`).
* **A removed contact is dialed** (S:137-140 "may be dialed or redialed again"):
  `makeCall` reads `removedContacts` before its awaits (S:824) and dials
  after them. In the model (`PurgeContact` between `MakeCall` and `CallCreated`).
* **A refused number keeps its redial guard**: the skip at S:914-922 drops the line but
  not `pendingRedials`, unlike the abort at S:868 ("clean up the in-flight/redial
  guards"). In the model (`DialBlocked`); `GuardBacked` is checked without `blocked`.
* **So do a dropped card and a failed timer**: `removeQueuedContactCards` (S:488-502)
  removes the card of a pending redial without its guard, and the catch of the timer
  (S:1889) only logs. In the model (`TrimCards`, `SkipMachine`, `RequeueThrows`); the
  card's later redials are refused.
* **A late bridge failure frees somebody else's agent** (C:1009 against S:1480
  "ONLY if this specific SID or its ROOT is the lock owner"): in the model with
  `lateBridge`, which the runs of `ConversationHoldsLock` leave out.
* **A failed redirect is taken for a dead call** (C:1011 "The call is dead"): when the request
  fails and the call does not, the caller stays on hold and its line is counted no more. In the
  model with `restFail`; `LinesWithinPacing` is checked without.
* **Dialing in post-call** (S:527 against S:1483-1484 "ALWAYS require the agent to
  pick a disposition before the next call is dialed"): the flag is read before the
  pump's awaits and not again. In the model (`PumpTakesBatch`).
* **A ready credited to the wrong call** (S:643 against S:1492-1493 "leaking onto this
  one"): `agent-ready` carries no call; when the next caller already holds
  the lock it is the one that skips post-call. In the model (`AgentReady`).
* **An unknown AMD verdict** is logged as "Treating as human" and then ignored
  (C:818-823): the caller stays on hold until the call ends.
* **Zero duration** is no-answer for the webhook (C:1144) and completed for the watchdog;
  whether the person is redialed depends on which comes first. In the model.
* **The 60-minute rule**: activity is recorded when the lock is taken, so a
  conversation longer than an hour loses its lock. In the model (`StaleLock`).
* **DNC at session start**: `addLeadsToDialer` computes a filtered list (C:311)
  and saves `leads` (C:348); what stops the call is `isDialBlocked` alone.
* **Back from DNC**: `removeFromDncInDb` says the contact can be dialed again
  (`src/src/routes/contact/service.ts:1396`) but leaves `isDnc` on its phones, which
  `isDialBlocked` (S:778) refuses.
* **A stale snapshot** (`actionPlanStep.job.ts:52`): the step job skips on the assignment status of its snapshot.
  Reassigning the same plan marks the old assignment REMOVED and leaves its
  executions PENDING; a tick that read before fires them. In the model
  (`AssignWrites` and `JobClaims`).
* **A crash leaves a step PROCESSING** for ever, and **a step FAILED** whose e-mail
  waits in the queue may still deliver. Both in the model.
* **Editing a plan** deletes its steps and by cascade the executions of all active
  assignments; they stay active and do nothing. In the model (`EditPlan`).
* **Assigning a plan to a DNC contact** sets its status to FOLLOW_UP.
* **Suppression reasons are overwritten**: an unsubscription after a bounce
  replaces the reason, and transactional mail, which an unsubscription does not
  stop, resumes. Mails of the model carry the footer, which every reason stops.
* **Testing SMTP settings** reads the row, talks to the server, and marks the row
  verified even when it was edited meanwhile.
* **Overlapping retry ticks** deliver twice: the claim at
  `src/src/jobs/emailQueue.job.ts:45` has no condition on the status.


#### Accounts and numbers

`stripe.ts` is `src/src/routes/webhooks/stripe.ts`.

* **Suspension ends the plan**: `suspendAccount` cancels at Stripe, whose deleted event releases
  the numbers (`stripe.ts`:1100) that `accountSuspension.service.ts`:30 means to keep.
* **A rollback that fails** (`stripe.ts`:787, 795, logged) leaves a user whom no row leads to, and the event FAILED; nothing
  deletes the user, and the next signup with the address meets it. The same after a death between the user and its row, or before
  the flag: the next delivery finds the user and records PROCESSED. In the model (`UndoRow`, `UndoFails`, `Crash` with
  `cutSignup`); `SignupIsWhole` and `AccessMirrorsPlan` except it by name.
* **A release that throws** when a plan ends (`stripe.ts`:1099-1103, the query, the Twilio client or the delete) is logged and the event
  recorded PROCESSED: the numbers are kept for good, or their rows are although Twilio has them no more. In the model
  (`ReleaseFails`); `EndedPlanReleased` and `LineBacked` except it by name.
* **A refused cancellation of the add-on** (`phoneNumberBilling.service.ts`:154-156) is logged and the row deleted:
  Stripe goes on charging a subscription that no row names. In the model (`CancelAddon` with `stripe`);
  `BilledAddonIsKnown` excepts that subscription.
* **Events out of order**: an updated event handled after the deleted one, and `invoice.paid` of a
  closing subscription, activate the row again. Renewing and ending a trial
  write `isSubscribed = true` late and override the webhook.
* **An add-on pays for the plan**: `invoice.paid` finds the row by the customer, not by the subscription
  the invoice is of (`stripe.ts`:1217). The first invoice of an add-on activates a plan whose own
  invoices are unpaid. `AccessFollowsPlan` is therefore about accounts without add-ons.
* **FAILED is never retried** (`stripe.ts`:277): except for a signup the webhook answers 200 and
  the row keeps later deliveries out. A signup whose duplicate was recorded PROCESSED meanwhile is never
  provisioned, a crash within a signup leaves a half-provisioned user that the next
  delivery skips (`crashInSignup`), a crash in "subscribe" a second row.
* **First add-on purchases at once** (`prisma/schema.prisma`:1368): two make two charged
  subscriptions, one row. So do seats (`agentSeatBilling.service.ts`:61).
  `numbers` has one request at a time. **Two cancellations of the add-on at once**
  (`phoneNumberBilling.service.ts`:157) drop the account's row, whichever of them read it: the one
  that ends last drops the row of an add-on bought since (`slowCancel`).
* **The last add-on number** cancels the add-on subscription, whose deleted event cancels the
  main plan's row (`stripe.ts`:1045).
* **An unpaid add-on** is released, its item stays at Stripe. **Deleting a user** does not cancel
  the plan at Stripe, and, during a purchase, leaves a charge nobody knows of. A failed
  signup leaks its sub-account and bought numbers; the lead store makes a Stripe customer of its own.

#### Team and mails

* **Two agents at a time** pass the cap or share a bought seat: `auth.ts`:298 and
  `user/service.ts`:57 count and then create. `SeatsCovered` excepts it.
* Removing an agent never deletes the paid seat; a seat is charged though creation fails; the row
  goes even when Stripe refuses to cancel (`agentSeatBilling.service.ts`:152); banned
  agents count; `banned` is not asked by `auth.middleware`; a smaller plan keeps its agents.
* **Retention** deletes an agent who signed in after its reading (`retention.service.ts`:79).
* A missed run never sends its mails; a row written again after cancelling sends a second.

#### Contacts and imports

* **A moved contact is imported again** (`MovedStaysImported`): the sync looks for the editable
  `source` (`contact/service.ts`:856 against `myPlusLeads.service.ts`:562).
* **A pushed listing** overlapping a sync makes two contacts; the webhook does not
  ask the tombstones; a merged duplicate leaves none.
* **A merge that names its own master** among the duplicates is not refused (`contact/controller.ts`:1378): the master is deleted with
  them (`contact/service.ts`:3408), without a backup, and of each stage that it had reached the event is deleted as its own
  duplicate (3366-3405), against `prisma/schema.prisma`:2380 ("must never rewrite last quarter's revenue"). In the
  model (`mergeContacts`, `Dissolved`); `NothingLost` and `FunnelKept` except it by name.
* **Overlapping merges**, and edits of deals during one, lose figures. Overlapping transactions
  lose changes of list membership; a bulk delete with a stale selection that races a
  restore loses it, too; two restores of one backup row undo each other's row.
* **DNC in bulk** leaves contacts in lists but for one (against `contact/service.ts`:1522), keeps
  their plans; editing, importing, merging and restoring drop `isDnc`; `markAsContacted` ends DNC and keeps the lists
  it says it leaves (3424); importing does not ask the suppressed numbers (3462), nor does a
  manual call.
* Deleting a folder or a list leaves its id behind, or contacts that nothing leads to; two
  first moves to DNC make two folders.

#### Registration

* **A failed submission** forgets the profile and not that it was approved
  (`a2pRegistrationService.ts`:781 against 689); a failed fetch removes an
  approved profile (510 against 487).
* **PENDING for ever**: a crash after the cleanup, a missing Twilio integration, a
  suspended brand. A failed resubmission is REJECTED, where the poller never looks; one throw ends its tick.
* **Two overlapping checks** run the second phase twice (969); one that overlaps a submission
  writes what it read before and can approve.
* **A transferred number** is assigned before it has a row (`twilio-account.service.ts`:173) and is never
  recorded as such; onboarding again resets the credentials and keeps the flags.

#### Calls, agenda and tracker

* **A machine's call is relabelled** (S:1299-1303) by a final status that read the row before the
  verdict wrote it: the exception in `MachineKept`.
* Status webhooks that come before the row, or a late non-final one: lost, or the last to write.
  The agent leg's no-answer may be written as the call's. A recording matched
  by lead overwrites that of a later call. `answeredAt` is missing with detection on.
* **`queueStatus`** is written by callbacks and appointments and read nowhere
  (`callbacks/service.ts`:16); cancelling one of two appointments releases the contact.
* **Orphaned events**: created at both providers, remembered once; an id stored after the
  cancellation; an update that re-creates. **Due overwrites**: the job flips a
  callback completed meanwhile to DUE (`callbackDue.job.ts`:48). Overlapping ticks remind
  twice; a rescheduled event is not reminded of again.
* **Tracker**: hours are kept under the list, contacts under no source, stages under the contact's
  source, so that rates per channel are never shown (`getChannels`); the dashboard's streak sees the
  rows of its period only, so "today" is 1 at most (`tracker/service.ts`:240); of two first entries that
  overlap, the second is refused by the unique index (`prisma/schema.prisma`:2475) when they name a source, with an error, though the service means that "two entries
  saved at the same moment both land" (`tracker/service.ts`:488); when they name none NULLs are distinct and
  there are two rows, not the one that it means (479), which are added up. The schema says that an entry "WINS" over what is
  derived (2440); the code adds the two. In the model (`SaveCreates`, `Row`).
  Deleting calls or contacts takes hours and contacts from days past.

## What is not modelled

* Dialer: calls from the browser and inbound calls (another case of the voice
  webhook, and `startCalling`, `endCall`); the choice, rotation and cooldown of caller IDs
  (a call is refused or frozen, whichever number it would have used); the
  voicemail-drop branch of detection; the cap of 200 remembered SIDs. The rows
  and recordings of its calls are `CallRecords`'.
* E-mail: the choice between the tenant's SMTP server and MailerSend with its
  failure streak; mails without the unsubscribe footer; lost acknowledgements of a transport;
  the batch limits (20 and 100 rows), which only spread the work over ticks;
  a failing insert into `EmailQueue` or the log; a failing startup reset.
* Action plans: LETTER and MAILING_LABEL steps, which are calendar rows written at
  assignment; deleting a contact; editing the due times.
* Dialer, steps that are one in the model and several in the code: the status write, the hang-up and the pump
  after a machine (`SkipMachine`); the two readings of a lead and the write between them before a redial
  (`RequeueEnters`, S:1845-1856); the database write before the pump after a failed dial (`DialFails`, S:1045-1051).
  What those awaits let in can come just before the step or after it as well, but for a lead's row that changes
  between its two readings. The end of post-call by the watchdog looks at the calls that are up, where the code
  looks at the calls it listed before its awaits (S:1990, 2047): it may end post-call while a call that was placed
  meanwhile is up, which the model does a tick later.
* Accounts: a signup's event for a user who is there and whom the metadata says staff have provisioned, or names by
  id (`stripe.ts`:463-546), writes a row and the flag as `SubscribeRow` and `SubscribeFlag` do, and answers a failure
  with 500; in the model a known address is skipped (`SignupExists`). Also left out: an error while the outcome of an event is
  recorded, and an item that stays after a declined charge.
* Agenda: the hold of a callback (`callbacks/service.ts`:16-18); `AgendaAgrees` is about that of an
  appointment. Team: changing an agent's role (`user/service.ts`:525).
* Accounts: one customer, one request at a time beside the webhook; amounts and the
  ledger; a webhook that Stripe gives up delivering. The `accounts` run handles events in order.
* Contacts: ids that a request names exist when it begins. Merges and edits of deals do
  not overlap a merge (`MergeAlone`), nor a pushed listing another import (`PushAlone`): with
  them the properties fail (see the divergences). Notes, attachments, sharing, exports.
* Registration: contents of forms, mails, the choice of a messaging service's numbers; a
  second worker.
* Calls, agenda, tracker: one tenant; a webhook that is lost is one never taken up;
  `getCallSummary`, hold and transfer, voicemail drop, tokens; reading the providers' own
  events, OAuth; the business plan. The tracker's month has no end, hours, contacts and closings
  stand for the nine figures of a row, entries are made by one agent on one day.
* Team and mails: one plan with one cap; Better Auth's own endpoints (sessions, passwords,
  verification, its admin's unban).
* Components marked `not_modelled` in `PROJECT.json`, each with its reason: pure
  reads and single-row settings (nothing to go wrong between two steps), layout and
  messages nobody waits for.

## Plan

Done, in this order: `DialerState`, `DialerTwilio`, `DialerCalls`, `Dialer`,
`DialerProperties`, `MCDialer` (core, runs `lines` to `live`); `CardLife`;
`DialerProofs`, `DialerCardProofs`; `EmailDelivery`, `ActionPlans`,
`OutreachProperties`, `MCOutreach`, `OutreachProofs`; accounts and numbers; registration;
contacts with imports and Do Not Call; call records, screens and agenda; team, daily mails
and tracker; the theorems of each.

Left, and of less weight: the transport choice of `dispatchEmail` with its failure streak
and un-verification; an inbound or browser call as a second kind of lock owner of
the dialer; the business plan's targets; bulk set-up of lead products.

Every safety and action property that a run checks is stated by a theorem.
