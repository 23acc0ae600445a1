# A verification project for admin-alquiler

admin-alquiler manages rental properties in Colombia: an API (NestJS, Prisma,
PostgreSQL, optionally Redis), a worker, and a PWA for administrators, owners
and tenants. This directory holds TLA+ models of what the API and the PWA keep
state for, the TLC configurations that check them on small instances, and
proofs, checked by TLAPS, that the most important properties hold for every
instance.

Run inside this directory:

    tlc -workers 2 -config Office.cfg MCOffice
    tlapm CollectionsProofs.tla

Two facts about the code shape every model of the API:

* **No transactions.** Services await one Prisma statement after another, each
  of which commits alone. No `$transaction` is opened anywhere, although
  `docs/ARCHITECTURE.md` section 5 speaks of a transactional outbox. So between
  any two statements of a handler every other handler may run, and a handler
  that stops (a statement fails, the process dies) leaves behind what it wrote.
  In the models a statement, or a run of statements that only reads, is one
  action, and handlers with more than one step have an `Abort` action.
* **Check, then write.** A handler judges what it loaded and writes later, often
  absolute values. Only unique keys of the database stop two handlers from doing
  the same thing; they are part of the actions that insert.

Where nothing a handler judges is ever withdrawn (rows are only added), judging
and a single write commute with everything else, and the handler is one action.

Some properties hold however handlers overlap. Others hold only until two
handlers overlap: they carry a history variable (`peak`, `raced`, `overlapped`,
`late`) that says so, and thus state exactly how much the code depends on
requests not overlapping.

## Inventory

State is in PostgreSQL unless said otherwise. *Correct if* names what has to
hold for the component to be right.

| Component | State | Operations | Correct if |
|---|---|---|---|
| Collections (`rental/`) | Charge, Payment, Allocation, Receipt | generateMonthlyCharge, createAdHocCharge, recordPayment | statuses never claim more than was allocated, money is conserved, the oldest debt is served first, a receipt comes last |
| Deposits (`rental/`) | Deposit (held, deducted, returned) | recordDeposit, moveDeposit | held = deducted + returned + outstanding, never more out than in |
| Contract lifecycle (`rental/`) | Contract, ContractTermination, FINE and RENT charges, RentIncreaseIndex | createContract, renew, terminate, applyRentIncrease, recordRentIndex, addCodeudor | a terminated contract is final and explained by what is on file; increases start from the rent on file |
| Utilities, late fees, dunning (`rental/`) | MeterReading, LateFeeRule, DunningEvent | recordMeterReading, chargeFromReading, evaluateLateFee, recordDunningEvent | a tenant is charged for a reading somebody vouches for, a stage is announced once |
| Settlements (`settlements/`) | Settlement with lines, payout columns | generateSettlement, recordPayout | what is collected is shared out exactly and fairly, once |
| Properties (`properties/`) | Property, Unit, Owner, PropertyOwnership, Tenancy, Attachment | create and configure, addOwnerWithShare, addTenantWithTenancy, attachments, setupStatus | shares never exceed the property, tenancies of a unit never overlap, a finished set-up stays finished |
| Documents (`documents/`) | Document, DocumentVersion, Approval, Signature, `pdf.render` outbox events, DocumentTemplate | create, edit, transition, approve, sign, requestPdf | what is signed carries a signature, what left review is frozen |
| Idempotency (`idempotency/`) | one record per key in Redis or in the memory of the process | middleware on every POST with an Idempotency-Key | a retry is answered, not executed again; 409 only for another payload |
| Finance (`finance/`) | BankTransaction, Reconciliation, Account, Category, Transaction | importBank, suggestMatches, confirmReconciliation, accounts, statements | importing a statement again changes nothing and loses nothing, statements add up |
| Governance (`governance/`) | AssemblyAct, AssemblyDecision, Vote, AdminFee | acts, decisions, votes, results, PH cuotas | what is decided is carried by shares, what is billed is charged |
| Communications, outbox (`communications/`) | Communication, Notification, preferences, OutboxEvent | send, list and mark pending events | whom the channel of a communication is for is served, every e-mail is delivered in the end |
| Operations (`operations/`) | MaintenanceRequest, WorkOrder, Complaint, Claim, Supplier, Purchase, Insurance, TaxRecord, HouseRule, Handover | tickets and transitions, directory, house rules, handovers | no illegal status, one rule per version, rows refer to their own organization |
| Organizations, permissions (`organizations/`, `packages/permissions`) | Organization, Membership, Role | create, change role or status | somebody can always administer, nothing is written without permission |
| Authentication (`auth/`) | Session, token | login, guards, logout | an expired or closed session opens nothing |
| Rate limiting (`security/`) | a map in the process | middleware | no window holds more than the limit, who waits as told is let through |
| AI gateway (`ai/`) | AIDecisionObservation, AISuggestion, AIModelRegistry | generate, decide, label, confirm or reject, register and promote models | sensitive data stays off the provider, nothing is decided without a person where one is required, nothing is decided twice |
| Offline queue (web, `offline/queue.ts`) | this.items and localStorage | enqueue, flush, drop, clear; PhotoCapture; App | nothing queued is lost, nothing is sent twice, everything is sent in the end |
| Model cache (web, `ai/model-cache.ts`) | download states in memory and localStorage | start, progress, complete, fail, evict | a download resumes where it stopped, a failed one from zero |
| HTTP controllers | - | one route per handler | each route asks for the permission that fits what it does |
| Reports, audit, health, queues, worker, portals | none of their own | queries, probes, wiring, rendering | - |

How they interact. Every POST passes the rate limiter and the idempotency
middleware before any guard has attached a user, then the guards, a controller
and a service, which calls its store. Lifecycle, Utilities and Governance create
charges through the same `createCharge` as Collections. Settlements read the
payments of Collections and the shares of Properties; votes are weighed by the
same shares. Documents and Communications write OutboxEvent rows for a worker
that does not consume them yet. The PWA queues mutations while it is offline.

What is hard here: handlers that overlap between read and write (all of the
API), handlers that stop half-way (termination, payment, creation of an
organization), retries that meet the first request still under way, records that
expire or move between Redis and memory, unique keys that know NULL or no
organization, two instances of a queue over one localStorage, permissions judged
before the handler runs, and rounding. `PROJECT.json` lists each hazard at its
line with the properties that watch it, or the reason why none does.

## How the modules are put together

A component module has its own variables, `Init`, one action per statement or
handler, and its properties; it knows nothing of the others. Four modules put
components side by side: `Contracts` (what hangs on a contract), `Gateway` (what a
request passes before its handler), `Client` (what the browser keeps) and
`Office` (the components behind the desks of the office). Their handlers share no
rows, so rather than interleave them, which would only multiply the states, the
initial state picks the component (`desk`) that a behaviour exercises, and the
others keep their initial values: a run is the union of the state spaces of its
desks, and a theorem about the whole is one about each.
Components that do share rows are modelled in one module: shares, payments and
settlements in `Settlements`, sending and the outbox in `Communications`, guards,
sessions and memberships in `Access`, readings, charges and reminders in
`Utilities`.

| Module | Models | Checked by |
|---|---|---|
| `Collections` | charges and payments of one contract | `MCCollections`, `CollectionsProofs` |
| `Contracts` | no code of its own: puts the next three side by side | `MCContracts`, `ContractsProofs` |
| `DepositLedger` | recordDeposit and moveDeposit; implements `DepositAccount` | through `Contracts` |
| `ContractLifecycle` | renewal, termination, increase, billing of one contract | through `Contracts` |
| `Settlements` | owners, settlement and payout of one property and month | through `Contracts` |
| `DepositAccount` | what a deposit promises (abstract) | through `DepositLedger` |
| `Documents` | one document | `MCDocuments`, `DocumentsProofs` |
| `Gateway` | no code of its own: puts the next three side by side | `MCGateway`, `GatewayProofs` |
| `Idempotency` | one Idempotency-Key in one organization | through `Gateway` |
| `Access` | sessions, guards, organizations, memberships | through `Gateway` |
| `RateLimit` | the sliding window | through `Gateway` |
| `Routes` | the controllers: permission and effect of every handler | through `Access` |
| `Client` | no code of its own: puts the next three side by side | `MCClient`, `ClientProofs` |
| `OfflineQueue` | the queue of the PWA over localStorage | through `Client`; liveness by `MCOfflineQueue` |
| `PhotoCapture` | uploading one photo after another, and what the user is told | through `Client` |
| `ModelCache` | downloads of models | through `Client` |
| `Office` | no code of its own: puts the next seven side by side | `MCOffice`, `OfficeProofs` |
| `Finance` | imports, reconciliations, accounts, ledger, statements | through `Office` |
| `Governance` | one assembly with its votes, and the cuotas of its property | through `Office` |
| `Operations` | tickets, work orders, directory, house rules, handovers | through `Office` |
| `AiGateway` | calls to models, labelled outcomes, suggestions | through `Office` |
| `AiRegistry` | the life of models | through `Office` |
| `Utilities` | meter readings, their charges, reminders | through `Office` |
| `Properties` | one property: units, owners, tenancies, attachments, set-up | through `Office` |
| `BankStatement` | amounts, quarantine, suggested matches (operators) | `Finance` |
| `AiPolicy` | privacy levels, runtimes, confirmation, calibration, stages (operators) | `AiGateway`, `AiRegistry` |
| `ArrearsRules` | late fees, aging, stages of reminders (operators) | `Utilities` |
| `Communications` | sendCommunication and preferences over the outbox | `MCCommunications`, `CommunicationsProofs` |
| `Outbox` | list and mark pending events, consumers; implements `DeliveryQueue` | through `Communications` |
| `DeliveryQueue` | what an outbox promises (abstract, with liveness) | through `Outbox` |
| `SumTheorems` | no code: facts about sums over finite sets | used by the proof modules that add up |

An `MC` module names the model values and gives the sets and the symmetry; it
replaces no definition. In each module a `pc`-like variable says between which
awaited statements a handler stands, a `job`, `snap` or `draft` what it has read,
and the other variables are columns of tables. An operator whose name starts
with `Mutant_` is a plausible mistake in the definition below it. It belongs to
no specification; with it in the place of that definition the property
`PROJECT.json` names with it is violated, which shows that the property depends
on the code.

## Contracts and money

### Collections

One action per awaited statement of `recordPayment`: `StorePayment`
(createPayment), `ReadBalances` (pendingChargeBalances), `Allocate`
(createAllocation, once per charge), `MarkStatus` (updateChargeStatus),
`IssueReceipt`, `AuditPayment`. `allocatePayment` is pure, so the share of a
charge (`Share`) is computed when its row is written, from the balances read
before. A positive amount that rounds to no minor unit is stored and then
refused: that is the amount 0 of `PayAmounts`. `CreateCharge` has the unique key
(contract, period, type): the loser of a race is answered with the winner's row.

The run `collections` (two payments, two requests that create charges, rent and
an ad-hoc charge due one after the other, amounts 0 to 3 against charges of 1 or
2) shows that under any overlap and any abort

* `StatusIsBacked`: a PAID charge is covered and a PARTIAL one has received money;
* `OldestDebtFirst`, `ReceiptMeansPosted`;
* `BooksAgree`: rows and remainder of a payment add up to it
  (`PaymentIsAccounted`); with at most n payments in flight at once a charge
  receives at most n times its amount (`OverAllocationBounded`), so a charge
  *can* receive twice its amount, which serial payments cannot do; and while
  payments do not overlap (`peak <= 1`) statuses agree with the rows except where
  a handler was stopped before it wrote one (`StatusAgrees`);
* `ChargesLast`: a charge is written once, whoever races to create it, and while
  payments do not overlap a paid charge is never reopened.

Two payments are enough for every pair of statements to meet; the general case is
proved where it matters (below). Amounts up to 3 let one payment cover, exceed or
split over both charges.

Not run: `CreatedMeansPosted`. An ad-hoc charge whose period and type exist is
answered `created: true` with the existing row, whatever its amount; no document
of the repository claims otherwise, so it is stated and left.

### DepositAccount, DepositLedger

`FindDeposit` reads and validates, `AdjustDeposit` writes both totals as absolute
values computed from what was read. The abstract account moves the ledger on
file or, once two movements have raced, any ledger that was on file before. The
desk `deposit` of `contracts` (three movements, deposits of 0, 2, 3, movements of
0 to 2) shows `WithinHeld`, that the columns are the sum of the movements until
two race and no more than that afterwards (`MovementsReconcile`), and that the
ledger implements the account (`AccountSpec`).

*Finding* (run `deposit_acknowledged`): two racing movements are both
acknowledged and together exceed what is held, which PRD.md:77-78 excludes
("the deposit ledger must always reconcile").

### ContractLifecycle

Dates are month numbers: the code compares dates, counts months and keys charges
by month. `Load*` actions judge the contract, the others write:
`WriteRenewal` (which sets ACTIVE whatever the status has become),
`CreateIndemnity`, `SaveTermination` (upsert), `MarkTerminated`, `WriteIncrease`,
`CreateRent`. The months 1, 3 and 5 put the end of the term before, less than
three and more than three months after a termination; a rent of 3 with
indexes of -50, 30 and 60 per cent and caps of 50 and 100 exercise rounding and
the cap.

`IndemnityIsDue`: under any overlap a terminated contract has its termination on
file and a termination that names an indemnity has its charge; until two handlers
overlap the indemnity is the quote of the terms at termination.
`ChangesFollowTheRow`: until two handlers overlap, termination is final and an
increase starts from the rent on file. With overlap these fail in the code: a
renewal that loaded the contract first brings it back to ACTIVE.

*Finding* (run `lifecycle_billing`): rent is generated for a terminated
contract without any overlap; PRD.md:60-61 says "from active contracts".

Noted while reading: terminateContract counts the remaining months with
local-time getters and names the period of the charge with UTC ones, so near the
end of a month, in a process that does not run in UTC, the two may disagree. A
date is in one month in the model.

### Settlements

`OwnershipTotal`, `CreateOwner`, `AssignOwnership` are the statements of
addOwnerWithShare; `FindSettlement`, `ReadCollected`, `ReadShares`,
`CreateSettlement` those of generateSettlement; `FindForPayout` and
`RecordPayout` those of recordPayout. `Splits` is splitByShares: floors first,
what is left over to the largest fractions; owners that tie are ordered by their
rows, which the model leaves open. A share is an integer number of parts
(`Whole`), as the Decimal(5,2) column stores hundredths of a per cent. With six
parts and shares of 0, 2 and 4 three owners may be equal, or one own twice as
much as another, and a payment of 8, with or without 10 per cent commission,
leaves units over.

`SettledInFull` (desk `settlement`): money is conserved and fairly
split whatever is paid or given away meanwhile; shares add up to at most n
properties when n requests overlap; a settlement is divided among all the owners
there ever are unless two requests overlapped; and a payout is recorded once
unless two overlap.

Noted: a payment stored after its month was settled, or dated back into it, is
never settled; the settlement deducts the commission only, while PRD.md:170-176
(FR-030) also lists maintenance, fees and adjustments.

### ArrearsRules, Utilities

`ArrearsRules` has the rules of `rental.ts` that need no state: late fees with
their rounding, grace and base, the choice among rules of a contract, an
organization and a country, aging buckets, the stages of reminders, terms of
codeudores, expiring policies. `MCOffice` evaluates them over bounded inputs on
every run (`AgingAddsUp`, `LateFeesAreFair`, `RemindersEscalate`).

`Utilities` is one unit. recordMeterReading looks at the last reading twice:
`CheckDate` refuses a date before it, `FlagAnomaly` (in the store) flags what is
out of line with it, `CreateMeterReading` inserts. Of several readings on the last
day PostgreSQL picks one: a choice in the model. `ReadHistory` and `CreateCharge`
are chargeFromReading over the unique key of charges; `EnterCharge` is
createAdHocCharge, which takes a UTILITY charge of any amount under the same key,
from no reading; `FindDunningEvent` and `CreateDunningEvent` are recordDunningEvent
over its unique key. `TenantsAreCharged`: of charges made from a reading, one that
is out of line with the reading before was confirmed by somebody, as long as a meter is read once a day and by one person at
a time, which the code does not ensure; and a stage is announced once on a
channel even when people announce it together.

Noted: a rule of scope COUNTRY belongs to no organization, so one organization
sets the late fee of every other one in Colombia that has no rule of its own;
evaluateLateFee throws on a negative balance, which a charge that received too
much has.

## Property and people

### Properties

One property. `AddOwnerWithShare` and `AddTenantWithTenancy` read and judge,
`CreatePerson` writes the owner or tenant, `AssignOwnership` or `CreateTenancy`
the row that binds it; an abort between the two leaves a person nothing refers
to (`people`). Times are half days because the periods compared are those of the
request while the columns are of type DATE (`Midnight`). `setupStatus` awaits its
queries with `Promise.all`: `Query` runs them in any order with writes in
between.

`PropertyStaysSound`: tenancies of a unit share no day, whatever their order, when
they were given in whole days and not added at the same time; and a property that
was reported as set up stays so unless two additions of an owner overlapped,
although the report puts together queries from different moments.

### Documents

A slot is a handler; slots serve one request after another, so histories of any
length are covered up to `MaxVersions` = 2 versions. `Transitions` is TRANSITIONS;
`Granted` is what the approvals and signatures on file must show; the unique key
(document, version) is in `SaveVersion`; Approval, Signature and OutboxEvent have
none. With two slots and two users: `SignedHasSignature` under any overlap;
duplicates bounded by the handlers under way, and none without overlap
(`RowsBounded`); and what left review frozen until two handlers overlap
(`FrozenAfterReview`). Two versions suffice because a handler compares the
version it saw with the last one only.

Noted: approvals belong to no version and survive a return to DRAFT, so an
edited document may be approved by approvals of its previous text. No document
of the repository says otherwise.

### Operations

Tickets are the maintenance request, the complaint and the claim, with their
status machines; transitions load and judge (`TransitionRequest`,
`TransitionCase`) before `SetStatus` writes. A work order goes from any status to
any other. A property and a supplier are named by the organization they belong
to, so a row that refers to another organization's would show.

`ClosedIsFinal`: a closed maintenance request stays closed, whatever happens to
its work order, until two transitions overlap. `DirectoryIsInOrder`: house rules
are numbered 1, 2, 3, ... until two publications overlap (there is no unique key),
and what a row refers to exists in its own organization, down to the supplier of
a work order.

### Governance

An assembly of one property: `CreateAssemblyAct` with `ComputeQuorum` (proxies
are added to their holder), decisions by the majority they need, votes, and
`decisionResult` in two statements (`ListVotes`, `DecisionResult`) while owners
join; cuotas billed (`BillPhCuota`) and charges of their types entered by hand
(`CreateAdHocCharge`, an endpoint of its own), both through `ChargeOrFind`: the
unique key (contract, period, type) answers with the row that is there.

`VotesCarry`: an act that met the quorum lists owners of more than half of the
property, unless it lists one twice; a result that says approved is carried by
owners whose shares make the majority, although votes and shares are read one
after the other - provided every vote names an owner and none votes twice. The
code ensures neither: a vote may name no owner and have any weight, and an owner
may vote again. So one owner who votes twice may
carry a decision. `BilledIsCharged`: a cuota that was reported as billed keeps the charge
it was told, whatever is billed or entered afterwards, and that charge has the
amount of a cuota of its type or of one entered by hand. More does not hold: with
two cuotas of one type, or a charge entered by hand before, the cuota is answered
with the charge that is there, and its own amount is never charged.

Noted: decisionResult does not look at whether the quorum was met.

### BankStatement, Finance

`BankStatement` computes what `finance-import.ts` does: `ParseAmountToMinor`
character by character, because which separator means what is the point of it
(`AmountsAreRead` checks both conventions with and without cents), `ToCreate`
and `Quarantined` (decideImport: a group that disagrees about the amount is set
aside as a whole), `SuggestMatches` (`SuggestionsAreClose`). Rows go by their
places in the file, and `NextOf` takes them group by group as the code's map does.

`ImportBank` lists what is on file once, `CreateRow` and `QuarantineRow` insert
row by row with `TryCreateBankTransaction`, whose unique key (bank, account, date,
amount, reference) takes NULL for a different reference each time and names no
organization. Two organizations, two banks and three statements that share rows
with and without a reference let every case of the key happen.
`ImportIsExact`: importing statements again, whole or overlapping, never puts a
payment on file twice until two imports overlap (quarantined rows aside: nothing
compares them); every row of an import that completed is on file - for its
organization or, since the key names none, for another one at the same bank; and
a yearly statement read month by month while transactions are recorded adds up.

Noted: the key of a row on file is computed with the bank of the import under
way, so a payment at another bank with the same account, date, amount and
reference is skipped as a duplicate. confirmReconciliation looks and then
inserts: who loses the race gets an internal error instead of 409.

## What a request passes

### Idempotency

`Arrive` chooses the store: the first request pings Redis with `redisChecked`
already set, so others that arrive meanwhile take the memory store. `Lookup` and
`Replay` are the two `get()` calls, `TakeEffect` the handler, `Respond` the
wrapped `res.json`, which calls `set()` without awaiting it; the memory store has
the record at once, Redis when `SetLands`. `Expire`, `RedisEvicts`, `RedisGoes`
and `Restart` are the environment. One API process is assumed.

Three requests and two payloads let two requests race while a third comes later
with the same or another payload. `AnswersAreDeserved`: a replay sends only what
was answered before, 409 is deserved, and without overlap and loss a replay is
for the same payload. `TakesEffectOnce`: a request that arrives when a record is
on file does not execute unless the record was lost to it, and without overlap
and loss there is one execution.

*Finding* (run `idempotency_once`): two overlapping requests with one key and
payload both execute; SRS.md:195-196 says "same key + same payload within 24h
returns the original result".

Noted: the Redis client is created with `lazyConnect` and
`enableOfflineQueue: false` and is never connected before `ping`, so in practice
the ping is refused and the memory store is used (`health.controller.ts:73-75`
comments on this); the model lets the ping succeed or fail. `scopeOf` runs before
any guard, so its user is always anonymous and a key is shared by the users of
an organization; the hash covers the body only. Any JSON answer is recorded,
errors included.

### Routes, Access

`Routes` is a table per group of controller methods: the permission the decorator
names and whether the method reads, writes data of the organization in
`x-org-id`, or writes rows of the caller alone. `Access` lets a request for any
of them pass `FindSession` (JwtAuthGuard: the token, then the session),
`ListMemberships` (PermissionsGuard and `Authorize`) and its handler, one step
each, while users log in and out, memberships change, and time passes. The
handlers that change memberships (`FindMembership`, `UpdateMembership`) and
create organizations (`FindOrgBySlug` to `CreateMembership`, with aborts) are
steps of their own. Handlers that are guarded alike and write alike are one
(`Kinds`), which is what makes the instance small.

`WritesArePermitted`: whatever a handler writes, it writes for a user who was an
active member with the permission at some time since the request came, although
nothing is judged again; and no handler writes data of the organization on a
permission a viewer has. `SomebodyAdministers`: the seeded organization keeps
somebody who may change memberships until two such requests overlap (two
administrators may suspend each other); another one keeps its creator with what
the code grants, unless its creation was cut short, which takes its slug for
ever.

Noted: the role createOrganization grants (`BASELINE_PERMISSIONS`) lacks
`role:write`, so in an organization created through the API nobody can change
memberships.

### RateLimit

`Admit` and `Refuse` run to their end without awaiting anything, so there is
nothing to interleave but the clock. `RateIsKept`: in any window, wherever it
starts, at most `Max` requests of a key are let through; and who was refused and
comes back when told to is let through if nobody else was since. A window of 3,
a second of 2 ticks and a maximum of 2 make the window longer and shorter than
`Retry-After`. The header tells seconds with a fraction (the division stands
outside the rounding), which the model keeps.

## Models of language, and messages

### AiPolicy, AiGateway, AiRegistry

`AiPolicy` has the rules: privacy level of data classes, runtimes a level
allows, `ResolvePermittedRuntime` (checked over every mode, set of classes and
set of runtimes by `SensitiveStaysHome`), what needs a person, the calibration
gate, the life of a model. `CalibrationGate` computes everything but the fit of a
temperature, whose verdict (`fits`) may go either way.

`AiGateway`: `Ask` resolves a runtime once, `Upstream` is one attempt of
`postJson` with its retries, sent to `Destination`, `Decide` the gate of a decision, `Record` the
suggestion a feature keeps, `RecordObservation` a labelled outcome that comes in;
`FindSuggestion` and `DecideSuggestion` are confirm and reject.
`SentIsPermitted`: nothing of a local-only class goes to the provider, whatever the
settings and the mode, also when a call is tried again (one of the settings has the
provider alone, which calls about other classes do reach). `DecisionsAreDue`: an
answer of `decide` that needs no person rests on enough labelled outcomes of its own question
over enough days, right and wrong ones, and the gate fails closed when they cannot
be read; of two people who decide one suggestion one is acknowledged, and the
suggestion says what that one decided.

*Finding* (run `ai_hosted`): the decision adapter goes by the settings, whatever
runtime was resolved, so with the hosted decision model a question of a local-only
class is sent there; `PHASE-2.md:92-93` gives that model the "same privacy,
explicit-configuration and policy rules as any external provider".

Noted: redaction is not modelled, since the code redacts the text of a call and the
question of a decision, and neither the options of a question
(`decision-adapters.ts:71-76`) nor images (`ai.service.ts:730-736`); no property
says that what goes outside is redacted. triage stores what `decide` answered as a
classification, which names no action and forgets the verdict of the gate
(`Record`), so a confident proof-match answer is kept with `requiresConfirmation`
false; `DecisionsAreDue` speaks of what `decide` answers, not of what triage keeps.
The calibration gate reads the outcomes of every organization. `transport.ts`
clears its timer when the headers arrive, so reading the body has no timeout.

`AiRegistry`: a request looks the model up (`FindModelTo...`) and writes in a
later step. `NoStageSkipped`: even when transitions overlap, a model in use has
been installed, evaluated and approved before, and one with a score evaluated.
That a deprecated model stays deprecated does not hold: a transition under way
brings it back.

### DeliveryQueue, Outbox, Communications

`DeliveryQueue` is what an outbox promises: what was put in is pending or done,
what is done was delivered, and what can be delivered is done in the end. `Outbox`
is pendingOutbox and markOutbox as a consumer uses them: `Poll`, `Delivered` or
`NotDelivered`, `FindPending` (markOutbox looks among the first `Window` pending
events) and `MarkOutboxProcessed` (an error only counts attempts). Consumers are
external: the worker does not poll yet, so a consumer is anyone who uses the two
endpoints as meant, and may stop with a list in hand. `Communications` adds
sendCommunication. A request brings two lists, users and addresses, in which one
may stand more than once; the channel says which of them is walked (`ListOf`),
entry by entry while preferences change: `IsChannelEnabled`, `CreateNotification`,
`QueueEmail`.

The run `communications` has two consumers, a window and a list of two, and an
oldest event that can never be delivered; a communication names a user and an
address twice, or users alone. `QueueSpec`: the outbox implements the queue, safety
and liveness, *because* the undeliverable events are fewer than a consumer asks
for and it asks for no more than the window (the assumption of `MCCommunications`).
With as many as it asks for, everything behind them waits for ever: in the code
that is 20 events for a consumer that names no limit (`communications.controller.ts:251`),
100 for one that asks for all it may, the hazard at `communications.service.ts:250`.
`AnsweredIsServed`: an answered communication has served the list of its channel;
each entry of a user is a notification or a name among those left out, the latter
only with the channel off at some time meanwhile, and each entry of an address is
one e-mail.

Noted: the other list is kept with the communication and neither served nor
reported, so an EMAIL to users alone is answered and reaches nobody. An address
that stands on the list twice gets two e-mails.

## In the browser

### OfflineQueue

JavaScript runs one callback at a time, so an action goes from one `await fetch`
to the next. `enqueue` pushes onto the array a flush iterates over; `drop`, `clear`
and the end of a flush replace it, and a running flush goes on over its own one
(`own`, `iter`). `PhotoCapture` builds an instance of its own from localStorage
(`Capture`), behind the back of the page's one. `Persist` may fail and is
swallowed. Two mutations, two flushes, `MaxAttempts` = 2 (5 in the code; what
matters is the last attempt and one before it) and one reload (`MaxReloads`).

`Without` is the `filter` of `drop`. `QueueIsExact`: what the page has queued leaves the queue only by being sent,
reported or dropped, and what was dropped stays out. `SendingIsBounded`: a
mutation is tried at most `MaxAttempts` times and carried out once. Both with the
exact exceptions they name: storage that fails, a flush that ends on an array
replaced under it, overlapping flushes, a response that was lost.

*Finding* (run `offline_app`): `App.tsx:114` tells an offline user that changes are
synchronized when the network comes back. No component calls `flush`. Under
`AppSpec`, where the application does whatever it can do forever, a queued photo
stays queued.

### PhotoCapture

The same component from the user's side: the button stays enabled, so requests
for several photos are under way at once, and all they tell the user is one line
(`line`, per photo). `ToldIsKept`: a photo the user was last told is saved, queued
or known is on the server or in the stored queue, whatever becomes of other
requests, unless localStorage refused the list, which `enqueue` swallows.

Noted: when `fetch` rejects although `navigator.onLine` is true the photo is
neither sent nor queued, and the line goes on saying that it uploads.

### ModelCache

Every call changes memory first and then stores the whole list; `Persist` may
throw, `Reload` builds a new page from what is stored or from nothing.
`ResumesWhereItStopped`: the offset of the next request is where the download
under way stopped, over reloads, and zero when there is none, unless storing
threw or progress came in after a failure (`late`), which turns a failed download
back to one that is resumed.

## Runs

| Run | Specification | Distinct states | Asks |
|---|---|---|---|
| `collections` | `Collections!Spec` | 971,000 | do payments and charges stay consistent however they interleave |
| `contracts` | `Contracts!ContractsSpec` | 519,000 | what do deposits, terminations and settlements leave on file |
| `documents` | `Documents!Spec` | 3.2 million | what do overlapping handlers do to one document |
| `office` | `Office!Spec` | 695,000 | imports, assemblies, tickets, AI, meters, properties |
| `communications` | `Communications!Spec` | 117,000 | is the list of a channel served, is the outbox a queue |
| `gateway` | `Gateway!GatewaySpec` | 1.15 million | what are replays, permissions and limits worth |
| `client` | `Client!ClientSpec` | 465,000 | is anything in the browser lost or said to be what it is not |
| `deposit_acknowledged` | `Contracts!ContractsSpec`, desk `deposit` | violation | is what was acknowledged covered |
| `lifecycle_billing` | `Contracts!ContractsSpec`, desk `life` | violation | are only active contracts billed |
| `idempotency_once` | `Gateway!GatewaySpec`, desk `idempotency` | violation | does a payload take effect once |
| `offline_app` | `OfflineQueue!AppSpec` | violation | is what is queued ever sent |
| `ai_hosted` | `Office!Spec`, desk `models` | violation | is the hosted decision model an external provider |

Every passing run exhausts its state space. A property that joins several (such
as `BooksAgree`) is the conjunction of the named parts of its module.

**Bounds.** `Max...` constants bound how often something happens: requests of a
behaviour (2 to 7, enough for a row to be created, judged by one handler, changed
by another and judged again), presses, reloads, stops, sessions, time. Two slots
are enough for every pair of handlers to meet, and the handlers compare what they
read with one row at a time; three requests are used where two may race and a
third come after (idempotency, deposits, owners). Amounts and percentages are the
few values at and around the boundaries the code tests: grace periods, caps,
majorities, windows, lengths of a term.

Deadlock is not checked: requests are finite in number and a system without
requests rests, which is no error. Symmetry is used over requests, slots, items
and owners, which the specifications treat alike; not in the runs of a liveness
property.

**Fairness.** The API owes nobody progress that the code justifies: a request
may stop at any statement and nothing repairs it. So its specifications are
safety only, with two exceptions. In `Communications!Spec` a consumer keeps going
(weak fairness of its steps), and a delivery that can succeed and is tried again
and again does so (strong fairness): that is what a polling worker is, and it is
assumed of the consumer, not of the API. In `OfflineQueue!AppSpec` the steps the
application takes are weakly fair: a browser does run its callbacks, and users go
on taking photos; nothing is assumed of a flush nobody starts.

## Proofs

TLAPS checks these for every value of the constants, that is for any number of
requests, charges, owners, versions, mutations and so on, in any
interleaving and with any of them stopped anywhere. Every invariant and every
action property of a passing run is the conclusion of a theorem; `QueueSpec`, which
has liveness, in its safety (`OutboxImplementsQueue`). What is assumed of the
constants is named in the modules and holds of the code:

| Named in | Assumed |
|---|---|
| `Collections` (`ChargesAssumption` to `PaymentsAssumption`) | finitely many charges and payments, due dates and amounts that are natural numbers |
| `DepositLedger` (`DepositAmounts`, `MovementsAssumption`) | finitely many movements, amounts that are natural numbers |
| `Contracts` (`ContractsAssumption`) | months that are natural numbers, positive rents, indexes and caps from -50 to 100 per cent; finitely many owners and payouts, a property of at least one part, shares within it, commissions of at most 100 per cent |
| `Documents` (`DocumentAssumption`) | finitely many handlers under way, at least one version and one user |
| `Idempotency` (`NobodyAssumption`) | the value that stands for nobody is no request |
| `Gateway` (`GatewayAssumption`) | the seeded organization is staffed and has an administrator, permissions that only view are read permissions of the table, lifetimes, windows and bounds that are natural numbers, a limit of at least one request |
| `OfflineQueue` (`QueueAssumption`) | at least one attempt |
| `Client` (`ClientAssumption`) | sizes of downloads and bounds that are natural numbers |
| `Outbox`, `Communications` | a list and a window of at least one event; two lists of users and of addresses for each request |
| `Office`, one per desk (`StatementsAssumption` and so on) | statements are sequences of rows and a ledger has integer amounts; owners are finitely many, votes and shares entered are percentages, as the handlers check, and amounts of cuotas and of charges entered by hand are natural numbers; periods of tenancy lie within the times there are; settings, asks and outcomes have the types the request schemas give them |
| `Office` (`DesksAssumption`, `BoundsAssumption`) | desks are among the seven; bounds on requests are natural numbers |

TLC evaluates all of them on the instances of the runs. Hardly any of the
properties below is inductive; what follows names the stronger invariant each
one rests on. A module that puts components side by side leaves all of them alone
but one, so each component has its own invariant, one lemma that its own steps
keep it and one that the others do (`...Step`, `...Elsewhere`), or a theorem that a
behaviour of the whole is one of the part (`ContractsImplementsItsParts`,
`GatewayImplementsIdempotency`, `ClientImplementsQueue`).

### CollectionsProofs

`TypeCorrect`, `PaidChargesAreCovered` (`StatusIsBacked`), `OldestFirst`
(`OldestDebtFirst`), `ReceiptsArePosted` (`ReceiptMeansPosted`). The status a handler
writes comes from a balance it read earlier, so the invariant `IInv` has to say
what an old snapshot is still worth: for each payment p and charge c (`PairInv`),
the balance p read is at least what is missing now plus what p itself has
allocated (charges only receive money), and p's own row is part of what is
allocated. If then `paid >= balance` for the snapshot, the charge is covered now.
`OlderCovered` says that whatever left `todo` early was covered in full,
`NothingSeenBefore` that a handler which has not read has written nothing, and
`ReceiptsLast` that a receipt stands only behind written statuses.

`BooksAgreeAlways` (`BooksAgree`) and `ChargesAreKept` (`ChargesLast`) add three
layers. `AccountsHold`: rows and remainder of a payment, and the rows on a charge,
add up. `OInv`: what a charge has received and what the snapshots of payments in
flight still promise it is at most `peak` times its amount (`PromisesBounded`), so
n overlapping payments give it at most n times that. `SInv`: while payments do not
overlap, what the one in flight read is exact, so statuses agree with the rows and
a paid charge is not reopened.

### ContractsProofs

* Deposits: `DepositWithinHeld` (`WithinHeld`), `ColumnsReconcile`
  (`MovementsReconcile`), `ImplementsAccount` (`AccountSpec`). Every ledger that was
  ever on file is within bounds, every snapshot of a validated movement is one of
  them and admits the movement, and until two movements race the snapshot *is* the
  ledger on file (`NoRace`). So every write is a legal movement of a past ledger,
  and of the present one without a race, which is the step of the abstract account.
  For the sums, every past ledger is at most the movements applied
  (`PastReconciles`), the one on file is exactly them without a race
  (`FileReconciles`).
* Lifecycle: `IndemnityIsDueAlways`, `ChangesFollowTheRowAlways`. Under any overlap,
  what a handler is about to refer to is there already (`PostedFirst`). Until two
  handlers overlap, the one under way still sees the contract it loaded
  (`NoOverlap`); while none was stopped either, the charges on file are those of the
  one termination, as far as it has come (`OneTermination`).
* Settlements: `SettledInFullAlways`. Half of it is about `Splits`: the floors fall
  short by as many units as the fractions add up to, fewer than there are owners
  with a fraction, so the units left over go to owners whose part really is larger,
  lines add up to the net and nobody is a whole unit off (`SplitAddsUp`,
  `SplitIsFair`). The other half is what a request has read: shares given away and
  asked for are at most `peak` properties (`GivenAway`), payments only add up, and a
  property that is given away in full has nothing left to ask for (`FullIsFull`), so
  a draft stays true (`Balanced`, `Divided`) until it is written.
* `ContractsTypeCorrect`: a net is never negative because a commission is at most
  the whole, and transfers are no more than requests that have not paid (`Bounds`).

### DocumentsProofs

`SignaturesBackTheStatus` (`SignedHasSignature`), `RowsStayBounded` (`RowsBounded`),
`ReviewedIsFrozen` (`FrozenAfterReview`, which says nothing of a document once
handlers have overlapped). Signatures only grow, so a transition that
was granted stays granted (`TransitionsAreGranted`); rows and inserts still to come
are counted together (`InsertsCounted`); until two handlers overlap, the one under
way still sees what it read (`OneHandler`, `OneRow`).

### GatewayProofs

* Idempotency: `AnswersAreDeservedAlways`, `TakesEffectOnceAlways`, in three layers,
  of which only the first is free of a proviso: that a replay is for the same payload
  and that the key takes effect once rest on the last one.
  Always, a record is what a handler answered (`Answered`). While nothing was lost,
  the key lives in one store and what a late request is to find stays there
  (`Kept`). While besides no two handlers overlapped, what was executed is on its
  way into that store or is the record in it (`Alone`).
* Guards: `WritesArePermittedAlways`, `SomebodyAdministersAlways` from `AccInv`. Nobody
  is judged twice, so what a request under way may do is what the guards found
  (`Judged`). In an organization other than the seeded one there is one member at
  most, who can therefore change nobody (`OtherOrgs`, `Changing`), and one that is
  being created belongs to one request (`NewOrgs`). Until two changes of memberships
  overlap the one under way is an administrator's, who stays one, since nobody
  changes the own membership (`OneChanges`): that is who administers afterwards.
* `RateIsKeptAlways` from `RateInv`: the times in the map are the last of all that
  were let through, a whole window lies behind those it no longer holds, any `Max`+1
  that follow one another span a window, and what a refused request was told is a
  window after the first time held. That the filtered list is a tail of the sorted
  one is `TailAfter`.

### ClientProofs

* `QueueIsExactAlways`, `SendingIsBoundedAlways`. Both have provisos
  (storage that works, no flush on an array that was replaced, and so on), and claim
  nothing without them. The argument follows the arrays: as
  long as a flush iterates over `this.items`, what it has passed is settled or will
  be put back (`Exact`), so making what it kept the queue loses nothing. What is
  tried or put back has an attempt left (`Bounded`), and nothing that is settled is
  ahead of a flush or in its hands (`Once`). The loop of a flush goes on to the next
  mutation that has an attempt left; `LoopOutcome` says that this ends with one it
  awaits or at the end of the array, whatever the array.
* `ToldIsKeptAlways`: what the user was told of a photo is tied to the list in
  localStorage and to the server, neither of which ever loses one.
* `ResumesWhereItStoppedAlways` from `CacheInv`: while storing works, storage and
  memory agree (`Stored`), and while besides nothing came in late, an entry that is
  downloading has the offset that was reached (`UnderWay`).

### CommunicationsProofs

`AnsweredIsServedAlways`: what the handler has dealt with is a prefix of the list of
the channel (`Dealt`), and for every user (`UserServed`) and address (`AddressServed`)
the rows and refusals there are count the entries of that prefix (`Entries`); the lists
of the other communications stand still (`OthersStand`). An entry more is one row or
refusal more (`GoesOn`), and the whole list is dealt with when it is answered.
`OutboxImplementsQueue`: a consumer holds places of events that exist and marks what
it delivered (`OutboxInv`); every step of the outbox is then a step of the abstract
queue or a stutter.

### OfficeProofs

* Finance, `ImportIsExactAlways` from `FinIInv`. Of the rows of a file, those an import
  no longer has to create or to quarantine are on file under a key the database
  compares (`ImportIsDue`), which is why every row of a completed import is on file.
  Until two imports overlap, the one under way knows all that is on file for its
  organization (`KnowsAll`), so a key is there once (`KeysOnce`); a name that is being
  created was never reported (`NameIsNew`). What a yearly statement read of a month
  lies between the ledger at its start and the ledger now, and its entries so far
  add up to the months read (`StatementIsDue`). `TurnIsLeft` shows that taking rows group
  by group picks one of those left.
* Governance, `VotesCarryAlways` and `BilledIsChargedAlways` from `GovIInv`. Shares are
  never taken away, so whatever a vote or an attendance was checked against is a
  lower bound for ever (`VotesFit`, `AttendanceFits`). Owners who vote once and in a
  name then have at least the weight counted (`SumAlong`), and what is present
  through proxies is what the owners listed hold (`SumByGroup`). A charge of a period
  and type has the amount of a cuota of that type, or is one entered by hand, from
  the start (`ChargeIsDue`), and no later one takes its place (`CuotasFit`).
* Operations, `ClosedIsFinalAlways` and `DirectoryIsInOrderAlways` from `OpsIInv`: until
  two handlers overlap, the status a transition was judged by and the last version a
  publication saw are still on file (`HandlersAreDue`, `RulesInOrder`); handovers on
  file and still to come are no more than the documents written for them
  (`ActsCover`, a count over the handlers under way).
* Models, `SentIsPermittedAlways` and `DecisionsAreDueAlways` from `AiIInv`: settings
  stand still while a call is under way, so a call keeps what its runtime was chosen
  for (`CallsAreDue`); labelled outcomes are only added, so an evaluation that
  sufficed suffices; a suggestion has one verdict, told once, when it is no longer
  pending (`OneVerdict`). `Extremes` says that the library's Max and Min are.
* Registry, `NoStageSkippedAlways` from `RegIInv`: stages passed are never forgotten,
  and what a transition under way was allowed on has been passed (`MovesAreDue`),
  whatever the status is when it writes.
* Meters, `TenantsAreChargedAlways` from `UtilIInv`: a reading nobody raced comes after
  those on file then and before all later ones, and was flagged against the last one
  before it (`InOrder`, `JudgedBy`), which is what its charge starts from when days
  are told apart (`ChargeFits`); a charge entered by hand comes from none
  (`Unread`).
* Properties, `PropertyStaysSoundAlways` from `PropIInv`: a tenancy that is judged and
  not yet written lies apart from all on file as long as its like are not added at
  once (`TenantIsFree`, `PropApart`); shares on file and the one asked for stay within
  the property (`SharesOf`), so once they make it up they keep doing so, and a report
  that read the two at different moments still tells what is (`SharesWhole`).
* `TypeOKAlways` (`TypeOK`) for all the desks. What the invariants above leave open is
  `OfficeTyped`: the greatest version of a list of rules is a number although it is
  taken with CHOOSE (`LastIsNumber`), people on file are no fewer than requests about
  to bind one (`Bound`), so `people` stays natural, and what is present is a percentage
  because a sum of shares is capped (`QuorumIsTyped`).
* Rules without state, for every input: `SensitiveStaysHome`
  (resolvePermittedRuntime), `RemindersEscalate` (dunningStageFor), `LateFeesAreFair`
  (evaluateLateFee with a percentage) and `AgingAddsUp` (agingReport).

### Sums, sequences and extremes

`SumTheorems` has the facts about sums these proofs share. A sum, like `Without` of
`OfflineQueue`, is a recursive function, and the library's induction rules take an
operator, which none of the provers instantiates. So the existence of the function
comes first, and what would be an induction looks at a smallest counterexample
(`SmallestSubset`, `SmallestNumber`, from well-foundedness).

### Only model-checked

* Liveness, that is the second half of `QueueSpec` and `QueuedIsSent`, and everything
  about ENABLED: out of reach of TLAPS.
* Of the rules without state: `ParseAmountToMinor` and `SuggestMatches`, which read
  text digit by digit and sort by score, so what they compute for every input is an
  induction over data; `AmountsAreRead` and `SuggestionsAreClose` evaluate them on
  bounded inputs. `LateFee` is proved for percentages; a fixed fee does not depend on
  what is owed.
* The five runs that end in a violation show one behaviour of the code each; there is
  nothing to prove.

The proofs of `Office` take about a quarter of an hour, those of the other modules a
few minutes each.

## Not modelled, and why

* Formatting, wording, parsing of requests, rendering, audit contents, query
  endpoints: no state that another part depends on. An audit event is a step
  where a handler may be stopped before it, without contents.
* Templates of documents and communications, read marks of notifications,
  codeudores: rows that no other operation judges. upsertTemplate finds and then
  creates; of two first writes of one template the unique key refuses the second.
* Fitting a temperature, prompts, parsing of answers, speech: numbers and text.
* Reports, audit queries, health and queue probes: they read what the others
  write. The web portals render it. The worker is a placeholder that logs.
* Deletion of whole organizations and schema migrations.
* Passwords and signatures of tokens: a login that succeeds is an action.

## Plan

Every component with state of its own has a module, every passing run's invariants
and action properties are proved, and the two abstract specifications are
implemented. What would come next, in this order:

1. A version in `Approval`: approvals belong to no version and survive a return to
   DRAFT. No document of the repository promises otherwise; if one is written, it is
   a property of `Documents` that the code violates (the hazard at
   `documents.service.ts:192`).
2. Parts that are modelled in part: terminations with their own documents,
   templates, the worker once it consumes the outbox. `Outbox` already says what its
   consumer has to do.
3. Liveness of `Outbox` beyond the instance of the run, once a prover for it is at
   hand: the argument is that a window larger than the number of undeliverable
   events always holds one that can be delivered.
4. A transaction around the statements of a handler would turn several provisos
   (`peak`, `raced`, `overlapped`) into invariants without one; the models show which:
   drop the history variable and check.
