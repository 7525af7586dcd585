# Verification of the UASL reservation server

TLA+ models of the airway ("UASL") reservation server in `src/`, the TLC
configurations that check them on small instances, and TLAPS proofs of what holds
for every instance. Paths are relative to the repository; `usecase` is
`internal/app/uasl_reservation/application/usecase/uasl_reservation.go`,
`orchestrator`, `interconnect`, `availability`, `billing`, `ingest` are the services
`composite_reservation_orchestrator.go`, `interconnect_reservation_service.go`,
`resource_availability_service.go`, `billing_calculation_service.go` and
`external_data_ingest_service.go` in `application/services`, and `repository/...` is
`infrastructure/repository/...`.

## 1. The system

A drone operator books a route: sections of air space ("UASL sections"), vehicles and
drone ports, for a time window. A route may cross the air space of several
administrators. The server keeps the administrator's own reservations in Postgres,
reserves vehicles and ports at two vendors over HTTP, and passes the sections of other
administrators on to *their* reservation servers, through the Ouranos proxy. A monthly
batch charges what was reserved.

| part | state it keeps | operations | talks to | modelled in |
| --- | --- | --- | --- | --- |
| hold (`TryHoldCompositeUasl`) | rows of `uasl_reservations` (a parent per run of own sections, one per run of a partner's, and children), `external_resource_reservations` | create a pending request | partners (hold), vendors (read), prices, conformity, flight plans | `Hold` (order, failure, undo), `Booking` (what is written), `Quote` (check and price) |
| confirm / cancel / rescind / delete | the same rows; reservations at the vendors; copies at partners; an undo record per request in memory | one HTTP request each | partners, vendors, payment service (credit check) | `Reservation` |
| saga and retry (`pkg/retry`) | list of recorded steps of one request | `RecordSuccess`, `Rollback`, `WithBackoff` | called by all of the above | `Reservation`, `Hold`, `Quote` |
| availability check | none | refuse a confirm or a hold whose vehicle or port is taken | vendors (read) | `Quote` |
| air space conflict check | none | refuse a hold of a section that is RESERVED; flight plan policy | own rows, DIPS | `Hold` |
| interconnection | none | classify and resolve administrators, split, group and hold / confirm / cancel sections at partners | L4 discovery, L2 proxy | `Booking`, `Hold`, `Reservation`, `Directory` |
| find, lists, search | none | choose the row that stands for a request | own rows | `Booking` (readers) |
| settlement batch | `uasl_settlements` | sum a month, charge every row | payment service, L3 authentication | `Settlement`, `Booking` (which row is summed) |
| ingestion and resolution | `uasl_administrators`, `external_uasl_definitions`, `external_uasl_resources` | upserts of what requests name and of what discovery answers | design service, vendors, L4 discovery | `Directory` |
| billing, estimates | none | price aircraft, ports and sections | price service | `Quote` |
| notification, flight plans, MQTT, configuration | none | | partners, DIPS, broker | see section 11 |

What makes it hard:

* every HTTP request runs in a goroutine of its own, and no lock and no row version
  protects a booking request: a handler reads the status, makes many slow calls, and then
  writes whole rows;
* a confirmation is a distributed transaction over the database, two vendors and any
  number of partners, with undo steps held in memory only; a crash or a client that hangs
  up (the request's context reaches every call, and a compensation under a cancelled
  context is not even tried) leaves it half done;
* calls are retried on 5xx and 429 answers, so a call that was carried out may be made again;
* several undo steps do not restore what was there (section 3);
* nothing keeps two settlement processes apart, and charging has no idempotency key;
* who runs an air way is a row that requests read, merge in memory and write back whole,
  in no transaction, with every failure logged and ignored;
* a route that crosses borders is cut into runs under several parent rows, and find, the
  two lists, search and the settlement each have a rule of their own for the one that
  stands for the request;
* the availability check and the price fetches are groups of goroutines in which the first
  finding cancels the others.

What is correct, per part: a vendor's reservation is never forgotten; the rows, the
mapping table, the vendors and the partners agree between operations; a failed operation
leaves no trace; what was cancelled or deleted stays so; every request is answered; what
is submitted was paid once and shows the amount paid; a successful batch is complete; every
section is written, checked and charged once, on a row all readers agree on; nobody is
accepted unseen and the reason given is the true one; an own air way stays routable.
`PROJECT.json` lists the hazards with their lines.

## 2. Modules

| module | models |
| --- | --- |
| `Reservation` | one booking request after it was held, and the handlers working on it |
| `RequestLifecycle` | the abstract specification: what a client may believe of a request |
| `MCReservation` | instances for TLC |
| `ReservationProofs` | type correctness, the parents' status, where vendors' reservations are written down |
| `ReservationAgreementProofs` | what an ok promises, agreement of the four places, the refinement of `RequestLifecycle` |
| `Hold` | how a request comes into being: attempts of `TryHoldCompositeUasl` |
| `MCHold` | instances for TLC |
| `HoldProofs` | type correctness, the conflict check, what a failed hold leaves and an ok keeps |
| `Booking` | what one hold makes of a route, stage by stage, and who finds it again |
| `Quote` | its availability check and its prices, goroutine by goroutine |
| `MCBooking` | instances of both for TLC |
| `SetLemmas` | facts about finite sets: extremes, sums, and what parts cost |
| `BookingProofs` | theorems about `Booking` |
| `QuoteProofs` | theorems about `Quote` |
| `Directory` | administrators, definitions and resources: ingestion and resolution |
| `MCDirectory` | instances for TLC |
| `DirectoryProofs` | theorems about `Directory` |
| `Settlement` | the monthly batch: rows, overlapping processes, charges |
| `MCSettlement` | instances for TLC |
| `SettlementProofs` | theorems about `Settlement` |

The components meet in the code in three ways, and the models follow it.
`Hold` and `Reservation` share the rows of a request: `Reservation` starts from the rows one
successful hold leaves and follows one request; `Hold` follows several requests and
several attempts at them, and has confirm and close as single steps, which is what
`RequestLifecycle` makes of the handlers when nothing is left half done. A hold repeated on
a request id while its confirm is running is in neither model.
`Booking` and `Quote` look inside single actions of `Hold`: the data of `PartnerHolds`,
`SectionsFree`, `InsertParent` and `InsertChildren` are `Booking`'s stages, and `ChecksFail`
and `Priced` are what `Quote` can answer (`Quote` also is `Check` of `Reservation`). What
`Booking` takes for own administrators, or fails to resolve, are states `Directory` can be in.
`Settlement` sees the sums of reserved requests, which change under it (`Change`);
`Booking!SettlesOn` says which row of a request is in such a sum.

## 3. Reservation

**State.** `status[p]` is the status column of parent row `p` ("gone" without rows; the
children carry INHERITED and are written together with the parents, so they have no
variable of their own). `Rows` are the rows of `external_resource_reservations` that the hold
wrote: each says which vehicle or port (`on`), when (`at`), what a port is for (`use`), and whose
administrator's id is in `ex_administrator_id` (`tag`: ours, theirs, none). The tag is not the owner: `TryHold` writes
the administrator of the route's first section into the rows of our own resources (`usecase`
2636-2645), so a route that begins with a partner has own rows tagged "theirs". `mapping[r]` is
`ex_reservation_id` in row `r`: no row, empty, an id of the vendor's, or one a partner answered
(`Theirs`). `issued` and `live` are the vendor's side, `partner[e]` the request's status at another
administrator ("none" when it is not asked: the route does not cross it, or the request itself
came from another administrator). `job[h]` is the goroutine of handler `h`: the operation, the
place in it, whether the client is still there, the snapshots of parents and mapping rows it read, what
a loop has left, the `handles` the vendors answered (`newReservationIDMap`), the saga's recorded
steps, and the position and number of passes of a running `Rollback`. `lost` and `gaps` are history: which vendor reservations the program
knowingly or unknowingly dropped, and the named places where an operation was left half done.

**Actions.** One per database call or outgoing call, in the order of the code:

| Confirm (`usecase` 1031-1801) | Cancel, Rescind (201-520) | Delete (522-634) |
| --- | --- | --- |
| `Arrive`, `LoadMappings`, `TurnAway` (credit check) | `Arrive` | `Arrive`, `LoadMappings` |
| `PartnerAgrees` / `PartnerRefuses` / `PartnerSkipped` | the same | |
| `Check` / `CheckRefuses` | | |
| `Reserve` / `ReserveFails`, vehicles before ports | | |
| `LoadParents`, `Commit` | `LoadParents`, `Commit` | |
| `SaveMappings` | `LoadResources`, `CancelResource`, `Reload`, `ClearMappings` | `CancelResource`, `DeleteMappings`, `DeleteRows` |

Every `...Fails` ends in `Rollback`, whose steps are `UndoReserve` ... `UndoDeleteMappings`
(done), `UndoFails` (refused, failed, or the context is cancelled) and `UndoUnanswered`
(done, but counted as failed). A call wrapped in `retry.WithBackoff` is one action; the
number `k` of attempts whose effect happened and whose answer was lost is chosen
nondeterministically and paid for from `MaxFaults`.

**Which rows are reserved, saved, cancelled.** Four rules of the code, none of them the same:

| step | rule | code |
| --- | --- | --- |
| reserve | every vehicle; of the ports, once a partner was asked, those whose first row of the same port and use has our tag (`Sorted`); ports used at the same time are reserved once (`SameSlot`) | `usecase` 1282-1313, 1352-1436 |
| keep the handle | by vehicle, or by port and use (`SameKey`): of two windows the last one's handle stays (`Handled`), and a partner's answer replaces ours (`Answering`) | `usecase` 1547-1596 |
| cancel at the vendor | once any row is tagged, the rows with our tag (`OurRows`); all of them when our administrators cannot be read | `orchestrator` 408-441 |
| clear, delete | every row | `usecase` 420-429, `orchestrator` 626-701 |

What falls between the rules is reserved and never given back, with no fault and no row that names
it (run `cancel_leaves`). The properties therefore say what they are about: a row is `Certain` to be
reserved when every row of its key has our tag, and a resource is `Traceable`, it can be given back,
when its rows pass the filter of the cancel and two of them share a handle only if they share a
reservation. For all other resources the code promises nothing, and nothing is claimed of them but
that a confirmed row has its reservation, a partner's id, or is of a port that was left out.

**Where the code leaves a request half done** (`GapNames`). `AgreedUnlessGap` and
`AtomicOrTorn` say that these are *all* such places:

| gap | code |
| --- | --- |
| `answerLost` | a vendor or partner did what it was asked, the answer never came (`orchestrator` 57-174, `interconnect` 418-603) |
| `undoFailed` | an undo step failed or was not tried because the client is gone (`saga.go` 58-75, `retry.go` 50-53) |
| `parentsNotLoaded` | a Confirm or Cancel that cannot read the parents returns at once, without undoing what partners and vendors did (`usecase` 326-329, 1464-1467) |
| `crashed` | the process stopped with a non-empty undo record |
| `reReserved` | the undo of a vendor's cancel reserves again and throws the new id away (`orchestrator` 298-313, 353-369) |
| `partnerNotReconfirmed` | the undo of a partner's cancel is a confirm which a cancelled partner refuses, in an answer nobody looks at (`interconnect` 567-591) |
| `partnerDeleted` | the undo of a partner's confirm deletes the partner's copy (`interconnect` 467-484) |
| `parentsSplit` | the undo of a Confirm writes back the primary parent only (`usecase` 1515-1538) |
| `partnerSkipped` | an administrator whose address cannot be found has no group: nobody asks it, and the operation goes on (`interconnect` 2208-2291) |
| `mappingTorn` | rows are saved one by one outside a transaction (`external_resource_reservation.go` 101-121) |
| `mappingNotCleared` | Cancel fails to read the mapping rows again, logs it and answers ok (`usecase` 410-418) |

**Properties.** `NoSilentLeak` (every live reservation of a traceable resource is in the mapping
table, in a running handler's record, or was lost at a named place), `AgreedUnlessGap` (the four
places of a request agree between operations: what is certain is held and what is traceable is held
only with a row; a deletion is told to no partner, so after it the partners only agree with each
other, on a status nobody took back), `ConfirmedIsHeld`, `CancelledIsFree`, `DeletedIsFree` (what an
`ok` promises, gaps or not), `Answered` (liveness),
`AtomicOrTorn` (refinement of `RequestLifecycle`), and for two handlers at once
`ParentsSplitOneWay`, `DeletedStaysDeleted`, and `ReopenedByStaleRead`: a cancelled parent is
opened again only by the commit of a Confirm or the undo of a Cancel that were in flight, and
a deleted mapping row comes back only from a copy some handler read before the deletion (the
save of a Confirm, the clearing of a Cancel, the undo of a Delete).

**The refinement.** `RequestLifecycle!status` is the primary parent's status; but what a
handler wrote and has not answered for yet is not counted, since it may still be undone
(`Promised`): the operation takes effect in the step that answers. `torn` is "some gap was met".

**What a document says otherwise.** `doc/schema.yaml` 382 has a cancel take back the vehicles and
ports (`cancel_leaves`), and 346-349 calls the request id an idempotency key of the confirm, while a
second Confirm of a reserved request is turned away with an error (`usecase` 1062-1066); the model has
the latter as the guard `Admits`, without a run of its own.

**Abstractions.** Times of acceptance written with the status, amounts and conformity data are left
out. The database's own answer to a write is taken as reliable. A row without a usage type, which
makes a Confirm of ports fail before its first step, is part of `TurnAway`. A vendor, a partner or
the conflict check may always refuse; faults are budgeted. The undo steps recorded after
`DeleteRows` and after `SaveMappings` can never run, since both answer.

## 4. Settlement

**State.** `rows`, `total`, `confirmed`, `submitted` are the columns of
`uasl_settlements` for one month, by group (administrator, operator); `due[g]` is what the
reservations sum to now, `None` when the group has none. Each run `r` is a process of the
batch with its place `pc[r]`, the sums it `found`, the rows it found `unsubmitted`, those
still `todo` and those that `failed`. `paid` and `charged` are the payment service's side;
`cut` counts charges no mark was written for, `moved` the groups whose sum changed after
it was first read.

**Actions.** `Aggregate` and `UpsertBatch` (`monthly_settlement.go` 83-198: read, then one
INSERT ... ON CONFLICT ... WHERE submitted_at IS NULL), `FindUnsubmitted`, and for each row
in any order `FindByID`, `Authorize`, `ConfirmTransaction`, `UpdatePaymentConfirmedAt`,
`UpdateSubmittedAt`; every call may fail (`CallFails`, counted, next row), the charge may
succeed without an answer (`ConfirmUnanswered`), a process may die anywhere (`Crash`).

**Properties.** `SubmittedWasPaid`, `SuccessIsComplete`, `SubmittedTotalWasCharged`,
`ChargesBounded`, `RunEnds`, and `SubmittedIsFinal`: a submitted row keeps its total and marks, and
every charge of a group is made by a run that read the row before its payment was confirmed
(`settled`, what `FindByID` saw, against the charge two calls later), so that no run which starts,
lists or comes to the row afterwards charges it again. The excuse in `SubmittedTotalWasCharged`
is needed: the upsert spares submitted rows but not confirmed ones, so a row charged with
one sum can be submitted with another.

**Abstractions.** How a month's reservations are summed is one value per group. The token
cache of the L3 gateway is part of `Authorize` / `CallFails`. A read that fails is
`ReadFails`. The batch looks at one month only, and so does the model. Which row of a request
is summed, and in which month, is `Booking!SettlesOn`.

## 5. Hold

**State.** `parent[a]`, `children` and `maps` are the rows attempt `a` inserted: its own
parent's status (or "none"), whether its child rows and its mapping rows are there.
`held` is the partners' side: which administrator holds which request. `job[a]` is the
goroutine: its place, whether the client is there, the partners still to ask, the saga's
record and the position of a running `Rollback`, the verdict. `lost` and `gaps` are history
as in `Reservation`; `blockers[a]` are the attempts that collide with `a`, were reserved
when `a` arrived and have been so ever since. `Wants`, `Needs` and `RequestOf` are what the
caller asks for: windows on the administrator's own sections, the other administrators on
the route, and the request id.

The request id comes from the caller (`handler/converter.go` 244-247 draws one only when it
is absent), and an administrator that asks a partner sends its own request id along and
repeats it on every retry. Two attempts can therefore work on one request at the same time,
and both undo steps of a hold, the partner's delete and the deletion of the rows, work by
request id and take a sibling's rows with them.

**Actions**, in the order of the code (`usecase` 2418-3350):

| place | actions |
| --- | --- |
| new | `Arrive` (validation, classification, resolution; may reject) |
| partners | `PartnerHolds` / `PartnerUnnamed` (answered without a request id) / `PartnerFails`, in any order of administrators; `PartnersDone` |
| check, price | `SectionsFree` / `SectionsTaken` (`CheckConflictReservations`), `ChecksFail` (flight plans, vendors, unresolved ports, prices), `Priced` |
| parent, children | `InsertParent`, `InsertChildren` / `InsertFails`: two statements, one undo step after both; children need their parent (foreign key) |
| mappings | `InsertMappings` / `InsertMappingsFails` |
| undo | `UndoPartner`, `UndoRows`, `UndoFails`, `UndoDone` |

Around them `Disconnect`, `Crash`, and `Confirm` / `Close` of the request.

**Gaps.** `answerLost`, `unnamedHold`, `orphanParent` (the children's insert failed),
`undoFailed`, `sharedUndo` (another attempt on the request was undone), `crashed`.

**Properties.** `NoSilentPartnerHold` (what a partner holds is known here by rows or by a
running record, or was dropped at a named place), `HeldStaysHeld` (an `ok` keeps its rows
and partners until a sibling is undone), `FailedLeavesNothing`, `SeesConfirmed` (a hold
overlooks nothing that was reserved before it came and ever since), `ConflictIsReal` (nobody
is turned away for a window that merely touches), `HoldAnswered` (liveness), and
`NoDoubleBooking`, which the code does not keep. Known to a running attempt (`Recorded`) is what
its undo record still has to undo (`Standing`): a step that was undone, or failed to be, no
longer counts. `Collide` states the overlap as
shared places and instants, independently of the query's inequalities (`Overlaps`).

**Abstractions.** Amounts, the grouping of sections into parents and the windows of repeated
sections are `Booking`'s; the flight plan, vendor and price checks may refuse at will, in which
ways is `Quote`'s. Conformity and names are left out. Every attempt is taken to have mapping
rows. The database's own answers are reliable but for inserts that fail; the deletes of an undo
are tried once each. A partner's hold that is repeated by a retry is one hold. Attempts on one
request id all want what that request wants.

## 6. Booking

One hold as a sequence of stages; the state is what the goroutine has in its hands: `trip` (the
children: the route in the order of the array, then sorted), whose administrators it could
resolve (`known`, `homeRead`), whom it takes for internal (`own`), what partners `answers`, what
was `checked`, and the `rows` it inserts.

| stage | action | code |
| --- | --- | --- |
| resolve | `Resolve` | `TryHoldCompositeUasl` (usecase 2475-2554): our administrators, then the others unless the request came over the interconnection |
| classify | `Classify` | `classifyAndOrganize`: sort by sequence, read our administrators again (nobody is internal when that fails), split the window of a repeated section |
| ask | `AskPartner` / `AskFails` / `AllAsked` | `ReserveExternalUasl`, in the order of the partners' first sections; amounts and ids from the answers |
| check, price | `Check`, `Price` | the windows of the conflict query; our sections' amounts |
| write | `Write` | runs of consecutive sections on one side of the border (`Heads`, `Continues`), a parent row each, ids from the partners' answers |

The readers that find the request again are operators on `rows`: `FindShows`
(`FindByRequestID`), `ListShows` (`ListByOperator`), `AdminListShows` (`ListAdmin`),
`SearchShows` (`ListByRequestIDs`), `SettlesOn` (the settlement's query). Each chooses a parent
in its own way: by the first section's sequence, by start, the last one met, by sequence 1.

**Properties.** `NothingLost` (every resolvable section is written once, under one parent of the
right side), `CheckedAsWritten` (the windows written for our sections are those the conflict
check saw, and the passes of a repeated section follow each other), `ReadersAgree` and
`ChargedOnce` (when the route starts with us, everybody takes the same row, which is charged
once at what was agreed), `InsertableUnlessReentered` (the ids of the new rows are distinct
unless a partner answered one id for two visits).

Three limits are stated in the properties, since the code has them: a route that does not start
with us has readers that disagree; with several runs of our own the total on the first one lacks
the partners' aircraft and ports (`ForgetsExtras`); a route that comes back to a partner may be
refused by the primary key.

**Abstractions.** Instants are small numbers, amounts four constants whose sums tell which parts
they have. Times are shared out in whole instants (`\div`), as the code does in nanoseconds.

`BookingAssumption` is what the proofs and the runs take for granted of a request: windows are not
empty; sequence numbers are positive and differ (the API gives them as the order of the sections and
the code numbers those without one by position, but it rejects no repetition); and ids are UUIDs, so
that no two administrators, and neither they nor we, make the same one.

## 7. Quote

**State.** `order` is what one request asks for; `task[i]` the goroutine of its i-th window of an
aircraft or port, first in the availability check and then in the price fetch; `reported` the
findings in the order they reach the channel; `gone` the client's context; `bill` and `fees` what
is computed.

**Actions.** `Hold` begins the check: `StartCheck` (a goroutine that starts after a finding or
after the client left says nothing), `GetDronePortInfoDetail`, `ListReservations`, then
`Conclude`, which reads conflicts before errors. The prices are `Attempt` and `Receive` per window
(two error groups inside a third, `retry.WithBackoff` attempt by attempt with its limit, its
permanent errors and the context), then `CalculateResourcePrices` and
`CalculateInternalSectionPrices`. `EstimateUaslReservation` computes from the tables alone:
it bills what is in our table at the last window that has both times, leaves out without a word what
has none (the API asks for neither), and asks partners about their aircraft and ports only when a
section is theirs. A hold fills missing times in from the booking and refuses a window that does not
end after it starts; an estimate does neither.
`Leave` is the client hanging up at any time.

The two price algorithms are operators in the order of the code: cut the window at the
rules' boundaries (`PriceBoundaries`, `RuleBoundaries`), choose the rule in force, round each piece
up. `Merged` joins a section's overlapping windows.

**Properties.** `PassMeansAsked` (no accepted request has a window nobody looked at, although a
goroutine that finds the context done counts as a pass: the price fetch then fails),
`CauseReported` (whoever was stopped by another's finding is never the reason given),
`BilledByTheMinute`: an accepted hold bills everything asked for, an estimate exactly what it does
not leave out (`OwnTimed`), and the bill equals a reference that walks minute by minute (`ByRule`),
up to the rounding of pieces; of an estimate only where the windows of a resource end after they
start. Rules whose last day ends, or whose first day begins, inside their hours are
excepted (`Frayed`): the code sets no boundary there and charges them longer.

**Abstractions.** A day has few minutes, windows lie on whole minutes of one time zone, sums do
not reach 32 bits. Delays and jitter of the backoff have no length. `QuoteAssumption` is what the
proofs take for granted of the tables: prices are natural numbers (the definitions' prices are
`float64`, and a section's amount is cut off to an integer piece by piece, so with fractional prices a
bill may be below the one by the minute), dates and hours are instants and minutes of a day or
absent, and windows of sections are not empty. Units may be anything, as the code allows.

## 8. Directory

**State.** `admin[a]` is the row of `uasl_administrators`: whether it exists, `is_internal`, and
the air ways in `external_services`. `defs` are the air ways with definitions, `stock` the aircraft
and ports with a row. `job[p]` is a request with what it fetched and the copy of the rows it merges
into. `dropped` and `unguarded` are history: entries a write left out because it had not read them,
and own administrators written as external by somebody who had not found them.

**Actions.** The ingestion of a GetAvailability request is `HasAnyExternalDefinitions`,
`FindExistingExUaslIDs`, `Fetch`, `CollectItems`, `ReadForMerge`, `UpsertAdmins`,
`UpsertDefinitions`, `UpsertResources`, each of which may fail, which is logged, and the next one
runs all the same. The resolution every request may need is `Classify`, `FindByExUaslIDs`,
`FindInternalAdministrators`, `Discover` (L4, or the design service), `ReadForRemerge`,
`UpsertResolved`. `Crash` may come anywhere. Upserts replace whole rows (`Upserted`), with what was
read merged in.

**Properties.** `OwnRoutable` (an air way with definitions, which is never ingested again, is in its
administrator's row, unless a write that could not know it took it out), `OwnStaysOwn` (its
administrator is internal unless overwritten by a resolver that had not found it),
`NothingForgotten` (an action property: a step takes an entry away only as such a write), and
`AskedIsStored` (a request that met no failure finds all it named).

**Abstractions.** Sections, names and endpoints inside the rows are left out; a resource is in the
table or not. What discovery answers is any set of air ways; the design service answers our own.

## 9. Runs

| run | instance | what it shows |
| --- | --- | --- |
| `reservation_serial` | 1 handler, 3 parents, 1 vehicle with a partner's tag, 1 port used to land and to start, 1 partner, 3 operations, 2 faults | all single-handler properties, the refinement of `RequestLifecycle`, and that every request is answered |
| `reservation_concurrent` | 2 handlers, 3 parents, 1 vehicle with our tag, 3 operations, 1 fault | what concurrent handlers can still not do to the rows |
| `cancel_leaves` | 1 handler, 1 vehicle with a partner's tag, no faults | violation: a confirm and a cancel leave the vehicle reserved, `doc/schema.yaml` 382 says it is taken back |
| `confirm_race` | 2 handlers, no faults | violation: a Confirm overwrites an answered Cancel |
| `settlement` | 2 processes, 2 groups, 3 starts, 1 fault, 1 change | safety of the batch |
| `settlement_ends` | 2 processes, 1 group, 3 starts, 2 faults, 1 change | the batch ends |
| `settlement_double_payment` | 1 process, 1 group, 2 starts, 1 fault | violation: README.md promises no double payment |
| `hold` | 2 attempts on 1 request, 2 partners, 3 faults | safety of the hold and its undo |
| `hold_conflict` | 3 requests on 2 sections that share a point, 4 instants, 1 partner, 1 fault | the conflict check, and that every hold is answered |
| `double_booking` | 2 overlapping requests, no partners, no faults | violation: both are held and confirmed, `doc/schema.yaml` 102-103 says overlaps fail |
| `booking` | every route of up to 4 sections over 2 of our own and 2 of a partner; then tariffs and rules over windows of two days of 4 minutes, and crowds of 3 windows with 3 attempts each | what a hold writes and who finds it; the check and the prices |
| `directory` | 2 requests at a time, 3 in all, 2 own air ways and 2 of a partner, 1 fault | what the tables may forget |

`booking` explores `Booking` and `Quote` in one run, one resting while the other moves
(`BothSpec`): the price of a request has nothing to do with how its rows come about.

**Why the bounds are enough.** Three parents are the fewest for which "the others agree"
is not trivially true of two. One vehicle and one port distinguish the two loops and
their order; the vehicle's tag is the partner's, so it is reserved and not given back, and the port's
two rows are one reservation under two keys. A vehicle with our tag, several windows and mixed tags
are left to the proofs, which are for any rows. One partner has every kind of answer, or
is not asked at all. Three operations
on one request reach confirm, cancel, delete and a repetition; two faults make an operation fail
and its undo fail too. A vendor that has issued `MaxIds` reservations refuses further ones, which
it may do at any time. In `Settlement` two groups
give a run a row after a failed one; three starts give an overlap and a later run; amounts 0 and 1
and `None` give every relation between a sum and a changed sum. In `Hold` two attempts on one id
meet each other at every place; two partners let one hold and the other fail; three faults make
an answer get lost, an undo fail and the client leave. The three windows of `hold_conflict`
overlap in one section, overlap in neighbouring sections, and touch. In `Booking` four sections
let a route leave and come back twice, pass one section several times, and touch two air ways of
one partner; windows lie in order, all alike and reversed, so that start and sequence disagree;
sequences begin at 1 or 2, have a gap or are swapped; the month ends in the middle. In `Quote`
the rules have offers inside, gaps, hours over midnight, ended and future dates, units of 0 to 3
minutes; three windows give a finding, one that is stopped by it, and one that has not begun. In
`Directory` two requests overlap and a third comes after; two own air ways let a write know one
and forget the other.

**Fairness.** Weak fairness of a handler's or an attempt's `Progress` and of a run's `Step`: the Go
scheduler runs every goroutine, every HTTP client has a timeout
(`internal/pkg/http/client.go`), and `WithBackoff` makes a bounded number of attempts, so
a call that was begun ends. Nothing is assumed of arrivals, disconnects, crashes or
changes. `Booking`, `Quote` and `Directory` state safety only and assume no fairness.

Deadlock is checked in every run: `Idle` (in `Reservation` and `Hold`), `MonthOver`, `Done` and
`Answered` (in `Booking` and `Quote`) and `Quiet` (in `Directory`) are the only states in which
nothing need happen.

## 10. Proofs

All theorems are for any values of the constants that satisfy the module's assumption; some of
`Reservation`'s are for one handler at a time, which is in their statement.

`ReservationProofs`, from `ConstantsAssumption` only:

* `TypeCorrect`: `Spec => []TypeOK`. One lemma per way a handler's record changes
  (answer, go to, record, roll back, step undone), so that each action's leaf is about
  its own variables. The invariant contains `left <= Len(saga)`: a `Rollback` never
  indexes beyond the record.
* `SplitOneWay`: `Spec => []ParentsSplitOneWay`. Not inductive by itself: a handler may
  write back a snapshot (`RestoreParents`) it took long ago. The inductive invariant
  `SplitInv` says the same of every snapshot in a handler's hands; snapshots are copies of
  `status` or "gone" everywhere, and the writes are: all equal, a snapshot, or the primary
  set to PENDING.
* `DeletionIsFinal`: `Spec => DeletedStaysDeleted`, from a lemma that lists every write of
  the column (`StatusWrites`): each needs existing rows or leaves them gone.

Of what the vendors hold, in the same module:

* `RecordsSound`: a handler's undo record contains only steps its operation records and its
  place allows (`Sound`), for any number of handlers. From it `OnlyStaleReadsReopen`:
  `Spec => ReopenedByStaleRead`.
* `NoLeak` and `DeletedFree`, for one handler and any rows and tags. `NoSilentLeak` alone is not
  inductive: at each place one must know which of the three books has a reservation. `Books(h)` says
  so: before a Confirm reserves nothing is live that is not lost (`Pending`), while it works every
  live id is in the record (`Booked`), and of a traceable resource every id in the record is the
  handle of a row that was read and every handle is in the record (`Handed`, which also says that a
  slot still to be reserved has no handle yet, so that none is overwritten); while a Cancel works,
  the loop's rest has what is still live (`Sweeping`, `Swept`), and so on. `TraceableFacts` says why
  the tags suffice: the filter lets such rows pass, and no partner answers for them. With two
  handlers it is false: two Confirms at once overwrite each other's ids in the mapping rows.

`ReservationAgreementProofs`: `ConfirmedHeld` and `CancelledFree`, for one handler, from
`Promises(h)`, what is secured so far at each place: who is not in the loop's rest any more was
asked, and agreed or was skipped (`Told`), and every row that is due has a handle, and every handle
in the record is live (`Secured`). Then `AgreementUnlessGap` and `ImplementsLifecycle`
(`Spec => AtomicOrTorn`, every step a step of `RequestLifecycle` or a stutter), for one handler.
`AgreedUnlessGap` speaks of rest only, and `Promised` of the primary parent only; the invariant
`Whole(h)` speaks of every place. While no gap was met nothing is lost, and there is a status `s`
at which the request `Stands`: at rest all four places agree on it, and while an operation is
running each parent, mapping row and partner is as it was at `s`, or a step that puts it
back is among those still to be undone (`Was`, for a row `Fits`). So an undo that runs to its end restores `s`
(`NothingLeft`), and an ok, with what `Books` and `Promises` say, moves the request to its next
status. `Follows` is the two together: a step keeps `s` or makes one of the abstract
specification's moves, which is the refinement once `Promised = s` (`PromisedIs`).

`HoldProofs`, from `HoldAssumption` (windows do not end before they begin, points are not
sections):

* `TypeCorrect`;
* `AdmissionSound`: `Spec => []SeesConfirmed`. `OverlapIsSharing` shows that the query's
  inequalities and the shared-point test say the same as sharing a place and an instant;
  the inductive invariant `Admission` says that blockers are reserved and collide, that
  whoever passed the check has none, and that an attempt inserts its parent row only once
  (or a blocker could turn pending again);
* `ConflictsAreReal`: `Spec => ConflictIsReal`, from the invariant `VerdictOpen` (no
  attempt has a verdict before its check) and the lemmas on what a step may do to a record.

Of what an undo leaves, for any number of attempts on any requests:

* `FailureLeavesNothing`: a failed attempt's rows are gone once its record is undone, from `Tidy`
  (what rows there are at each place, and that the record names them);
* `OkIsKept`: from `Kept`, `Shared` and `Spared`: an undo takes rows and holds of its own request
  only, and marks the siblings it takes them from;
* `PartnersAreKnown`: from `Known` and `OnRoute`, whatever a partner holds is in a record's
  standing steps, belongs to rows that were answered for, or is in `lost`.

`SettlementProofs`, from `BoundsAssumption` (and `RunsAssumption`, finitely many processes, for
the last):

* `TypeCorrect`;
* `SubmittedPaid`: `PaidInv` adds what a run knows before it writes a mark (at "mark" the
  row was charged, at "submit" it is confirmed);
* `SuccessComplete`: `CompleteInv` keeps a run's books: what it found is submitted, to do
  or failed; other runs only add to submitted;
* `SubmittedFinal`: the action property, from `PaidInv` and `ReadInTime` (whoever is on the
  way to a charge read the row before its payment was confirmed);
* `SubmittedTotal`: `OneSum` says that, while a group's reservations stay as they were
  first summed, every sum of it anywhere (row, run, payment service) is the same;
  `OnlyRows` that only rows are charged and only charged rows confirmed;
* `ChargesAreBounded`: until the first mark every charge belongs to a run between charge and mark
  or to a cut (`Balanced`), which is counted with the cardinality of the runs; after it only runs
  that read the row before may charge again.

`DirectoryProofs`, from `DirectoryAssumption`: `TypeCorrect` (with what a request's place says of
what it fetched), `OwnRoutes` (`RouteInv`: whoever is about to define an air way has put it into
its administrator's row, or it is dropped), `OwnStays` (`StayInv`: a row that exists and is not
internal was overwritten unguarded), `NothingIsForgotten`, and `AskedAreStored` (`Collected`: at
each place of an ingestion without a failure, what is not in the tables is in the request's hands).

`SetLemmas` assumes nothing. The library sums by taking away one element after another (a fold over
a set), and its induction theorems take an operator as a parameter, which the provers cannot
instantiate. `SubsetInduction` says the same with the property as a set: a set of subsets that has
a set whenever it has its proper subsets has them all. From it follow the least and the greatest of
a finite set, that the fold is a sum (`SumsExist`, `SumsAgree`, `SumTake`), sums by key, and
`CoverCost`: when an amount grows with its quantity and two parts cost no less than the whole
(`IsAmount`), parts that cover wholes cost no less than those.

`BookingProofs`, from `BookingAssumption`, for any route, air ways and administrators. `BookingInv`
says, stage by stage, what the route is: sorted, one window after the other where a section of ours
comes twice (`Followed`), with the administrator that `Resolve` found; whoever was asked is a partner
on the route and the prices are its answer's; what was checked is `Windows`; and the rows are
`Written`, a function of the route. `RankIs` and `SortedOK` are about sorting by counting, `SplitOK`
about the shared windows; then each property is one of `Written`: `NoSectionIsLost`,
`WindowsWereChecked`, `InsertFailsOnlyOnReentry` (equal ids of two partner rows are one partner's,
since partners make different ones), `AllReadTheSame` (the first section, if it is ours, leads the
first run, whose row or the request's own is what every reader chooses), `ChargedOnceAndInFull`
(the sum over our sections and the sum over partners' are the total), `BookingIsTyped`.

`QuoteProofs`, from `QuoteAssumption`, for any order, price lists and number of goroutines:

* `NobodyUnasked` and `CauseIsReported`: neither is inductive. `QuoteInv` adds who is in the channel
  (`Voices`: exactly those who found something; whoever was not asked was stopped by a finding or the
  client) and how far the goroutines are (`Course`: when prices are fetched nothing was
  reported, and if somebody was not asked the client has gone and not one fetch begins);
* `BilledForEveryMinute`: `BillInv` says what is on the bill, and that each amount is the price of a
  window asked for that has both times. The
  rest is about the algorithms, for any boundaries: the pieces of a window are a partition of its
  minutes (`PiecesAre`); within a piece one rule is in force (`TariffIsSteady`, `BestIsSteady`, and
  `RuleIsSteady` for rules that are not `Frayed`, by way of days and minutes of a day); merged
  windows are disjoint and have the same minutes (`MergedAre`). So pieces and rules' minutes
  are a cover in the sense of `CoverCost` (`TariffCovered`, `SectionCovered`); and every piece of
  a child's window lies in one piece of the merged one (`PieceInPiece`), so that together is no
  dearer than one by one (`SectionNoDearer`);
* `QuoteIsTyped`.

Left to TLC: liveness (`Answered`, `RunEnds`, `HoldAnswered`), which with fairness and ENABLED is out
of the prover's reach. Every invariant and every step property that a run checks is stated by a
theorem; some of `Reservation`'s with one handler at a time, as their runs have it.

## 11. Not modelled, and what is left

Not modelled, because it keeps no state a property could relate: MQTT, configuration, logging,
connection set-up, migrations, HTTP routing, field validation and formatting; the paging and
filters of the lists; the merging of the partners' availability and estimates into one answer;
the endpoint addresses of other administrators (an administrator without one is
`PartnerSkipped` and `NextPartner \notin Internal`); the notification's text and transport;
the geometry of conformity and flight plan checks, which are refusals here.

Left out of modelled parts: the broadcast of ports, nil and duplicate sequence numbers, the time
zone of price rules (`price_timezone`), minutes that are not whole, saturation of amounts at 32
bits. The statements that expire pending requests (`repository/uasl_reservation.go` 541-634) are
called by nothing in the repository.

What is left to do:

1. The settlement's sum as a function of a month's rows, joining `Settlement` and `Booking`.
2. What two concurrent handlers leave in the mapping table. Little holds, as the two violation
   runs show; the worth of it is a list of what an operator has to look for.
