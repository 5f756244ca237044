# TruckLink (Lera Logistics): a TLA+ verification project

TruckLink is a freight marketplace: a FastAPI application over PostgreSQL. Shippers post
loads, carriers post vehicles, an AI agent proposes pairs of the two, people turn a pair
into a deal, and a deal goes from *booked* to *paid* while the shipper may follow the
vehicle on a map between loading and delivery.

The modules here model what the handlers and jobs of `src/app` do to the rows they share,
one atomic step per `await`. TLC checks them on small instances; TLAPS proves the main
invariants for instances of any size. Paths below are relative to `src/app`.

## 1. How the program runs, and what that means for the models

* One process (`uvicorn`, one event loop) serves all requests and runs two interval jobs
  (`main.py:73-99`). Handlers interleave at every `await`.
* Each request gets one `AsyncSession` (`db/session.py:37`), which is one transaction at
  PostgreSQL's default isolation level, READ COMMITTED. A failed request is rolled back
  as a whole.
* `autoflush=False` and `expire_on_commit=False` (`db/session.py:29-34`): an object that was
  read stays as it was read. Nothing is locked (`FOR UPDATE`) and no row has a version, so a
  handler decides on what it read and its commit overwrites what others wrote since.
* SQLAlchemy issues an UPDATE only for attributes whose value differs from the one read: a
  handler that assigns the value it read writes nothing, even if the row has changed.
* Unique constraints and foreign keys are the only things checked at write time. A failed
  check raises `IntegrityError` and ends the request.
* The pool has 15 connections (`db/session.py:21-22`). A request holds one from its first
  query to its end; a matcher run gives its connection back at each commit.

So a handler is modelled as a chain of actions: one per read that a later decision depends
on, with the decision, and one for its commit, which performs all its writes. The session
variable of a request slot holds what was read and the position in the chain. A refused or
failed request, a restart of the process, and a lost connection end the chain with no row
changed.

Who may call what is decided from the user's row, which no handler in these modules changes,
so authorisation is not part of them: only permitted requests start.

## 2. Inventory

| Component | Source | State it keeps | State-changing operations | Status |
|---|---|---|---|---|
| Load board | `routes/loads_platform.py` | `loads.status` | post, cancel | modelled |
| Vehicle board | `routes/vehicles.py` | writes matches, deals, both statuses | propose | modelled |
| Deals | `routes/deals.py` | `deals`, `price_samples` | from-match, status | modelled |
| Match review | `routes/loads_routes.py` | `matches.status`, `match_feedback` | reject, feedback | modelled |
| Matcher agent | `agents/matcher.py` | `matches`, `loads.status` | run | partly: control modelled, filters a constant |
| Fleet | `routes/fleet.py` | `vehicles`, `telematics_accounts`, Traccar devices | new, link, edit, delete | modelled |
| Session, schema | `db/session.py`, `db/models.py` | pool, constraints | begin, commit, rollback | partly: what handlers run into |
| GPS poll | `services/gps_poll.py`, `adapters/traccar.py` | `vehicle_positions` | poll | modelled |
| Tracking | `routes/tracking.py`, `services/access.py` | none (reads) | page, position | modelled |
| Ingestion | `services/ingestion.py`, `adapters/lardi.py` | loads, vehicles, carriers, price samples | ingest loads, ingest vehicles | modelled |
| Pricing agent | `agents/pricing.py` | `matches.suggested_price` | run | partly: without the uncalled `price_match` |
| Registration | `routes/auth.py`, `services/auth.py`, `routes/onboarding.py` | users, companies | register, login, complete | partly: login is not |
| Verification | `services/verification.py`, `adapters/edrpou.py`, `adapters/vies.py` | `trust_score`, `is_verified`, checks | run_all, email bonus | partly: the email bonus has no caller |
| Scheduler | `main.py` | two interval jobs | start, stop | modelled |
| Dashboards, search, profile, admin | `routes/*.py` | none (reads) | - | not modelled |
| Chat bot | `routes/chatbot.py` | none | - | not modelled |
| Navixy adapter | `adapters/navixy.py` | none, no caller | - | not modelled |
| Configuration, migrations, demo data | `config.py`, `migrations`, `seed_demo.py` | settings, schema | - | not modelled |

How they meet. The load board, ingestion and the matcher write `loads.status`; propose,
fleet and ingestion write `vehicles.status`; the matcher, propose, from-match and review
write `matches`. All of them are clients of the same rows and never call one another, so
everything hard here is interleaving on shared rows. The deal desk only meets the others by
the deal it starts from; tracking reads the deal's status and the GPS positions; fleet and
the GPS poll share Traccar's devices; the pricing agent reads the price samples that deliveries
and ingestion leave. Registration writes the rows everything else belongs to, and shares them
only with the profile form.

What makes each component correct:

* load board, vehicle board, deals: a booked load has a deal; no proposal takes a vehicle that
  another one has booked; a cancelled load is not booked again;
* matcher: one match per pair, matched loads have one, settled loads are left alone;
* review: a verdict is stored whenever the match says so; a match decided on is not open again;
* fleet: a deleted vehicle is not referred to; Traccar and the vehicle agree on the device;
* deal life cycle: no stage before the one that leads to it, a price sample with each delivery
  and no other, the tracking window closes for good;
* ingestion: one row and one price sample per exchange id, carriers that belong to a vehicle,
  a failed batch leaves nothing, what the job looks for and stays listed is stored in the end;
* fleet, GPS and tracking: a vehicle is linked to and has positions of its own devices only, a
  fix is stored once, each fix of a linked device or a later one is stored in the end, and the
  page shows the latest one while the cargo is on the truck;
* pricing: a price rests on enough freights, whatever happens while the LLM answers;
* registration and verification: one user per email, one company per slug, none without its
  owner; the score is what the checks give and the badge stands for the Ukrainian registry.

The hard behaviours, with the lines where they bite, are the `hazards` of `PROJECT.json`.

## 3. Modules

### Booking (and its abstraction BookingLedger)

`Booking.tla` models everything that decides on `loads.status`, `vehicles.status`, `matches`
and the making of deals.

| Variable | Code |
|---|---|
| `loads[l]` | `loads.status`; `"absent"` before the row exists |
| `vehicles[v]` | `vehicles.status`; `"off"` stands for every string but available and booked, `"deleted"` for no row |
| `matches[<<l, v>>]` | the status of the only match row of the pair, `"none"` without one |
| `deals[<<l, v>>]` | how many deals of the pair each of the two routes has made |
| `feedback` | pairs whose match has a `match_feedback` row |
| `sess[r]`, `runs[m]` | what a request, or a matcher run, holds and where it is |

| Actions | Handler |
|---|---|
| `PostLoad` | `new_load_submit`, and the load insert of ingestion |
| `CancelRead`, `CancelCommit` | `cancel_load` |
| `ProposeReadVehicle`, `ProposeReadLoad`, `ProposeReadDeal`, `ProposeCommit`, `ProposeFails` | `vehicle_propose_deal`: three reads, then flush and commit, or IntegrityError |
| `PromoteReadMatch`, `PromoteReadLoad`, `PromoteCommit` | `create_deal_from_match`; `dirty` says which UPDATEs it will issue |
| `RejectRead`, `RejectCommit` | `reject_match` |
| `FeedbackRead`, `FeedbackCommit` | `match_feedback` |
| `EditRead`, `EditCommit`, `DeleteRead`, `DeleteCommit` | `fleet_edit_submit`, `fleet_delete_vehicle` |
| `RunStart`, `RunPrefilter`, `RunScore`, `RunCommit`, `RunFails`, `RunAborts` | `match_all_new_loads` and `match_load` |
| `Restart` | the process dies and starts again |

Abstractions. The constant `Compatible` stands for the matcher's country, body and capacity
filter. The LLM's answer is any subset of the vehicles. Deals are counted, not named: their
life after the booking is `DealDesk`'s and gives nothing back to the rows of `Booking` (a
delivered or cancelled deal releases neither its load nor its vehicle). The fleet form stores
whatever status is posted (`routes/fleet.py:347,371`), so it takes a vehicle out of `booked` and
also into it, without any proposal: no property here says that a booked vehicle has a deal. `WithCarrier` are the vehicles whose `carrier_id` is set:
ingested ones whose carrier is known. Vehicles made on the platform have none
(`routes/fleet.py:189-198`), so a proposal for one always fails at the commit
(`deals.carrier_id` is NOT NULL, `db/models.py:352`); `ProposeFails` is that path.

`BookingLedger.tla` is the promise: publish, withdraw, suggest, book, assign, recondition and
retire, each atomic. `Booking` implements it under the identity mapping (`ImplementsLedger`)
as long as transactions do not overlap. `SerialInv` says why: one request or run is in flight, and
what it has read is still so when it writes.

### DealDesk (and its abstraction DealRecord)

`DealDesk.tla` models `update_deal_status`: `Create` (the row inserted by one of the two routes
of `Booking`), `ReadDeal` (read and validation against the carrier's or the admin's table),
`Commit` (status and price sample) and `Abort`. `status`, `samples` and `sess` correspond to
`deals.status`, the deal's rows in `price_samples` and the requests in flight; `visited` is a
history variable. `Priced` are the deals whose price is not zero.

`DealRecord.tla` is what a reader of the deals and their samples may rely on however requests
overlap. A deal may fall back to a stage it has been led to before, or be cancelled late, but
enters no stage before it has had the one that leads there; each arrival at *delivered* leaves a
sample of a priced deal in the same step, and nothing else does. `DealDesk` implements it
(`KeepsRecord`), with `visited` for the statuses a deal has had.

### Ingestion (and its abstraction ExchangeStore)

`Ingestion.tla` models `services/ingestion.py` with its two callers, the job of `main.py:34` and
the two endpoints of `routes/loads_routes.py`, and Lardi-Trans as the set `listed` that grows and
shrinks. The job searches for proposals that start in Ukraine only (`FromUA`;
`SearchFilter(countries_from=["UA"])`, `main.py:53`); a manual call brings filters of its own.

| Variable | Code |
|---|---|
| `loads`, `vehicles` | exchange ids with a row (`source = "lardi"`) |
| `samples[l]` | price samples of the load |
| `carriers[u]`, `carrierOf[v]` | rows with the user's `lardi_user_id`, and which of them `vehicles.carrier_id` names |
| `sess[s]` | the session's place in its batch: what is left to look up (`todo`), pending inserts (`new`), inserts already sent (`flushed`), carriers made |
| `restarts` | bound on restarts |

| Actions | Code |
|---|---|
| `StartJob`, `StartManual` | `_lardi_ingest_job`; `POST /lardi/ingest/loads` and `.../vehicles` |
| `FetchLoads`, `FetchVehicles`, `FetchFails` | `search_loads`, `search_vehicles`: one page, or an exception after three attempts |
| `UpsertLoad`, `CommitLoads` | `_upsert_load`, one lookup each; the commit, or IntegrityError |
| `FindVehicle`, `FindCarrier`, `FlushCarrier`, `CommitVehicles` | `_upsert_vehicle` and `_get_or_create_carrier`, one action per await; the commit |
| `Deadlocked` | PostgreSQL aborts one of two sessions that wait for each other's unique keys |
| `Restart` | process or database restarts; open sessions are rolled back |

The session does not autoflush (`db/session.py:29-34`), so a lookup sees committed rows and what
the session has flushed, and only the flush of a carrier row and the commit send inserts. An
insert waits while another open session has inserted the same exchange id (`Waits`) and fails
once that one has committed. Ids within one answer are taken to be distinct. An update of a
row that is there only refreshes its raw payload and is left out, as are the fields that
`_to_normalized_load` and `_to_normalized_vehicle` copy, except the id, the price (`Priced`) and
the owner (`UserOf`).

`ExchangeStore.tla` is what the rest of the system may take from it: batches that overlap, fail and
are rolled back leave what single batches would. A step stores some new loads, each priced one with its only
sample, or some new vehicles with the carrier rows made for them, and touches no row that is there;
`Ingestion` implements it (`StoresWholeBatches`). Which rows come together, and that a user may get a
second carrier row, it leaves open.

### FleetGps (and its abstraction PositionLog)

`FleetGps.tla` models `routes/fleet.py` and `services/gps_poll.py` against Traccar, a store of its
own that no rollback reaches.

| Variable | Code |
|---|---|
| `vehicle[v]`, `link[v]` | the row (before it is made, there, deleted); `traccar_device_id` |
| `account[c]` | the company's Traccar row in `telematics_accounts`, with or without a group id |
| `sess[r]` | a request: its operation, what it holds of the account, whether it inserted it (`own`), its device |
| `uid[d]`, `fix[d]` | Traccar: the unique id of a device, the time of its latest fix |
| `madeFor[d]` | history: the vehicle a device was made for |
| `log[v]` | the vehicle's `vehicle_positions`, in the order they were stored |
| `poll` | the poll: the device table it read, then Traccar's answer |

| Actions | Code |
|---|---|
| `StartNew`, `StartLink`, `StartDelete` | the reads that begin `fleet_new_submit`, `fleet_link_traccar`, `fleet_delete_vehicle` |
| `FindAccount`, `InsertAccount`, `MakeGroup` | `_get_or_create_traccar_account` (select, flush), `_ensure_traccar_group` |
| `CreateDevice`, `TraccarFails`, `EraseDevice` | the calls to Traccar; an answer may be lost after the device was made |
| `Commit`, `Remove`, `Abort` | the commits, and everything that rolls a request back |
| `PollRead`, `PollAnswer`, `PollStore`, `PollFails` | one cycle of `_poll_inner`: vehicles, positions, inserts and commit |
| `Report` | a device's next fix |

That Traccar refuses a unique id it has, never gives out a device id twice and keeps the newest
fix as the latest is taken from its API as the adapter uses it (`Creatable`, `Report` are marked
external). A vehicle has one company for good. `PositionLog.tla` is what the table promises its
readers: histories that only grow, hold a fix time once and go with their vehicle. `FleetGps`
implements it (`KeepsPositionLog`), and `Tracking` relies on nothing else. That positions go with
their vehicle is the cascade of migration 002 (lines 94-98; see section 7).

### Tracking

`Tracking.tla` composes `DealDesk` with the positions of `PositionLog` and the pages that follow a
deal. `Open` and `Refresh` are the first halves of `tracking_page` and `tracking_position_partial`
(the deal is read and `can_track_deal` decides), `Show` the second (`_latest_position`), `Break` a
lost connection. Between the halves status requests, the poll and deletions go on. A vehicle
that a deal refers to cannot be deleted (`Deletable`; `deals.vehicle_id`, `db/models.py:350`).
`Owner` is who posted the deal's load, `Nobody` for a load of the exchange. `can_track_deal` answers
yes to every carrier for every trackable deal (`services/access.py:153-156`), and so does `CanTrack`:
`PageOnceLoaded` holds shippers and forwarders to their own loads and carriers only to the status.

### Pricing

`Pricing.tla` composes `DealDesk` with the pricing agent: `StartRun` reads the unpriced matches,
`Suggest` takes one (the samples of the last 90 days, then the LLM), `CommitRun` commits all
answers, `AbortRun` loses them. `MatchMoves` and `MarketGrows` are what `Booking` and `Ingestion` do
to matches and samples, as far as the agent sees it: a match is open or decided, and an
ingested load leaves one sample. `Comparable` stands for the filter on countries and body type,
"the last 90 days" for any part of the samples. `Rows` are the rows of `price_samples` that the
deals have left: several samples of one deal are several rows. `Freights` are the deals behind them.
The market's rows are counted as freights of their own, so an ingested load that also became a
deal counts twice, for the agent and in the property.

### Accounts (and its abstraction AccountBook)

`Accounts.tla` models `register_submit`, `VerificationService.run_all` inside it, and
`onboarding_complete`.

| Variable | Code |
|---|---|
| `users[e]` | the company of the user with this email |
| `companies[s]` | the company with this slug: owner, name, number in its slug, score, badge |
| `checks[s]` | its `verification_checks` |
| `profile[s]` | its text fields |
| `sess[r]` | a registration or a profile form in flight |

| Actions | Code |
|---|---|
| `Start`, `FindEmail`, `FindSlug` | the form, the email search, one turn of the slug loop |
| `InsertCompany`, `InsertUser` | the two flushes: wait for an uncommitted row of the same key, then IntegrityError if it was committed |
| `CheckEdrpou`, `CheckVies`, `Commit` | the two registries, `_apply_score` and the commit |
| `Abort` | everything that rolls the request back |
| `ReadProfile`, `SaveProfile` | `get_current_user` and the read of the company; the commit |

`Candidate(name, k)` is the slug tried for a name at the k-th attempt; nothing is assumed of it, so
two names may lead to the same slugs.

`AccountBook.tla` is what registration and the form promise their readers: an account is entered in one
step, user and company together, under the first slug of its name that is free at that moment; nobody
loses or shares it, its badge is settled then, and its profile is only filled in. `Accounts` implements it
(`KeepsBook`) although the slug is searched long before the commit. Which checks gave the badge it leaves to
`BadgeNeedsRegistry`.

### MCBooking, MCDealDesk, MCIngestion, MCFleetGps, MCTracking, MCPricing, MCAccounts

The model values and the symmetry sets of the TLC runs.

### BookingProofs, BookingSerialProofs, DealDeskProofs, TrackingProofs, PricingProofs, IngestionProofs, FleetGpsProofs, AccountsProofs

The theorems, see section 5.

Definitions with a comment "Seeded bug" (`CancelsBooked`, `WithoutUnique`, ...) are not used by
the specifications: each is a plausible mistake in one definition, and shows which property
would notice it (`mutants` in `PROJECT.json`).

## 4. Runs

| Run | Question | Bounds | Result |
|---|---|---|---|
| `booking` | do the rows stay consistent when two transactions overlap? | 2 loads, 1 vehicle, 2 request slots, 1 run, 2 connections, from-match at most once per pair | holds, 1.31 million states |
| `booking_serial` | do the handlers implement the ledger one at a time, acting on what is still so? | 1 load, 2 vehicles (one without carrier), 1 connection, from-match at most twice | holds, 39 000 states |
| `double_booking` | can a vehicle booked by a proposal be taken by another one? | as `booking` | violated |
| `matcher_settled` | does the matcher leave booked and cancelled loads alone? | 2 loads, 1 vehicle, 1 connection | violated |
| `deal_desk` | do stale status requests skip a stage, lose a sample, open the map too early or turn it back? | 2 deals of 1 vehicle, 1 priced, 2 requests, at most 2 samples when a request starts, 1 page, 2 users, 2 fix times | holds, 1.96 million states |
| `deal_serial` | does the tracking window stay closed without overlap, and do prices rest on enough freights then? | 2 deals, 1 request slot, 2 matches, 2 pricing runs, minimum 2 samples, 1 market sample each | holds, 250 000 states |
| `tracking_window` | once delivered, is the deal out of the window for good? | 2 deals, 2 requests | violated |
| `ingestion` | do overlapping sessions store what single batches would, and do carriers not multiply? | job and one manual session, 1 load, 3 vehicles of 1 user and of none (that one not from Ukraine), 1 restart | holds, 827 000 states |
| `ingestion_live` | is what starts in Ukraine and stays listed stored in the end? | the same sessions, 2 loads (one not from Ukraine), 2 vehicles of 2 users, no restart | holds, 220 000 states |
| `fleet_gps` | does every vehicle keep to its own devices, and is the positions table what its readers rely on? | 2 vehicles of 1 company, 2 requests, 2 devices, 2 unique ids, 2 fixes each, the poll | holds, 850 000 states |
| `fleet_live` | is every fix, or a later one, stored in the end? | the same with 1 request slot, without symmetry | holds, 402 000 states |
| `accounts` | do racing registrations and stale forms leave consistent accounts, as if each came in one step? | 2 emails, 2 names whose slugs collide, 2 slots, slugs up to number 2, 1 profile field | holds, 929 000 states |

Why the bounds are enough. Every race of `Booking` is between two sessions on one pair, on
two loads of one vehicle, or on two loads of one run; two connections, two loads and one
vehicle contain all of these. A third session adds no new kind of overlap (a run with three
connections, 3.3 million states, finds nothing else), and the invariants are proved for any
number anyway. `booking_serial` takes two vehicles to have one whose proposal fails, and two
promotions to have a repeated one; it takes one load because a run that holds several loads
overlaps with other transactions even on one connection, which is what `matcher_settled` shows.
In `deal_desk` the sample bound stops requests, not commits, so a deal may be delivered twice.
The two deals do not interact; two show that a commit touches no other.

Both deals are of one vehicle, so that the vehicle's position is asked for under either.
In `deal_serial` one match is comparable to both deals and the other to one, so that
a minimum of two samples is met by two deals, or by one and a load, and missed by one; a second
run overlaps with the first. `MinSamples` is 3 in the code; 2 is the least that differs from
"any".

Symmetry: request slots are interchangeable in all modules, and loads are in `booking`, where
all pairs are compatible. In `fleet_gps` the vehicles, unique ids and devices are too, in `accounts`
the emails. `booking_serial`, `deal_serial` and the liveness runs use none. The deal and
fleet runs do not check deadlock: when every deal is paid or cancelled, or every
vehicle deleted, there is nothing left to do. `Booking` never stops, since a fleet edit is always
possible while a vehicle exists and a restart always is.

`ingestion` has two vehicles of one user, so that a row is made and found again within a batch and
across batches, and one whose user has no number. `ingestion_live` has a user for each vehicle:
only then does one session hold the key of a vehicle while it needs another's, and the deadlock
happens. Two sessions are the smallest overlap, and the safety properties are proved for any
number.

`fleet_gps` has two requests, so that two link requests, a creation and a deletion, or a deletion and a poll
overlap; two devices and two unique ids let a vehicle be linked again and an id be used again
after a deletion. In `accounts` the second name's first slug is the first name's second one, so
the loop meets a number taken by another name. Two emails make at most two companies, so
a loop never needs more than the number 2 (`MaxTries`).

Fairness is assumed in `ingestion_live` and `fleet_live` only. In `ingestion_live` the scheduler starts the job again and again (weak
fairness of `StartJob`; `main.py:71-79`) and a session that can go on does (weak fairness of the
upsert steps, of manual sessions too, since a handler does not stop halfway unless the process
does, which is `Restart`). Strong fairness is assumed of three things: a fetch by the job (the
exchange may fail any number of times but not for ever), and a flush and a commit, because
PostgreSQL grants a key to the one that waits as soon as it is free. Nothing is assumed of the
users, who may call or not call, or of what the exchange lists. With weak fairness alone a
manual call and the job could deadlock for ever, each aborted in turn. `ListedIsIngested` speaks of
the proposals the job searches for (`FromUA`); any other stays unstored until a manual call asks for
it. It holds for a page that takes all that is listed (`PageSize` at least the number of
proposals); with more it depends on the exchange, since the code only ever asks for page 0.
A restart leaves the rows and idle sessions, the state that failing fetches leave as well, so the
run does without one; `ingestion` has it.

In `fleet_live` the scheduler starts the poll again and again (weak fairness of `PollRead`; `main.py:84-99`).
Traccar may fail to answer, and the commit may fail or meet a deleted vehicle, any number of
times but not for ever: strong fairness of `PollAnswer` and `PollStore`. Nothing is assumed of the
requests or of the devices, and `FixesArrive` does not rest on devices that fall silent at
`MaxFix`: it is a leads-to about each fix, and the first answer of Traccar after it holds that fix or
a later one, however many reports follow between the answer and the commit. What it does
need is stated in it: `<>[]~Blocked`, from some time on no poll is about to store a position of a
vehicle deleted since it read, for such a deletion fails the commit of all positions.
In a run with two vehicles this is always so; in the program it is an assumption on the carriers.

For the other modules no liveness is claimed: nothing in them obliges a user to act, the code
retries no request, and a matcher run only ends if the LLM answers, which it need not.

What the violated runs show, each read back against the code:

* `double_booking`: two shippers read the same vehicle as available, both pass the check that
  would answer 404, and both commit: two booked deals for one vehicle. The unique constraint
  on matches stops the second only if the load is the same one (`ProposedOncePerPair`).
* `matcher_settled`: the run reads the list of new loads once. While it works on the first,
  the second is cancelled or booked; the run still writes `matched` to it.
* `tracking_window`: two requests validate against the same status; the slower one puts a
  delivered deal back to a trackable status.

Divergences that follow from reading the code alone and have no run: `routes/deals.py:11` says
an admin may go from any status to any, the table at 65-71 does not let him (the models follow
the table, so `NoStageSkipped` and `KeepsRecord` are properties of it and not of that line); the matrix at
`services/access.py:15` gives a carrier the positions of his *own* vehicles and the comment at
154-155 the deals of his company, `can_track_deal` returns true for any carrier and any trackable
deal (:153-156) and asks for neither; `routes/fleet.py:347,371` stores any status that is posted, where
`db/models.py:77-81` lists three, so a vehicle may say *booked* without a proposal;
the job of `main.py:34` only fetches what starts in Ukraine (`:53`); `routes/tracking.py:10`
lets the carrier track his deal "at any stage", `can_track_deal` closes the window for carriers
too (`services/access.py:141-143`); `main.py:37` says the ingestion job runs the matcher, it does not;
`agents/pricing.py:14` says samples are filtered by weight, they are not; the comment at
`routes/loads_routes.py:199` says a match is marked reviewed if it was still proposed, where a
promotion committed after the read is overwritten; delivering a deal twice by stale requests
leaves two price samples; `services/ingestion.py:155` says an existing carrier is returned, two
overlapping ingestions make two of them (`carriers.lardi_user_id` has no unique constraint), and
`CarrierRowsBounded` says how many there can be.
Of the parts added since: `services/gps_poll.py:13-18` says that only positions newer than the
vehicle's last one are inserted, that the vehicle's `updated_at` and the account's
`last_synced_at` are written; the code skips equal times only (`:76-84`) and writes neither. (The
rule as documented, the seeded bug `NewerFix`, would starve a vehicle linked to a device
whose clock or first fix is behind: `fleet_live` fails with it.) `services/verification.py:14-15` reads
as if any one official registry gave the badge; the VAT registry's 30 points are below the
threshold of 35. The comment at `routes/fleet.py:228` says a vehicle is saved whatever Traccar does; if the insert
of the account fails inside that `try`, the session cannot be used any more and the commit at
`:230` fails with it. `adapters/traccar.py:78` speaks of one group per company; two
overlapping links may make two, of which the account keeps one. `routes/auth.py:169` assigns
a collection of a flushed company, which may make the session load it outside an `await`; if it
does, every registration ends there, in `Abort`.

## 5. Proofs

All theorems hold for every value of the constants that satisfies the assumptions of their
module (`BookingAssumption`, `DealAssumption`, `TrackingAssumption`, `PricingAssumption`,
`IngestionAssumption`, `FleetAssumption`, `AccountAssumption`): subset relations, types of the constant
functions, naturals, finitely many deals and manual sessions, placeholders that are not values, and
nothing else. The theorems about requests that do not overlap say so in an
`ASSUME` of their own: `OneAtATime` (all request slots are the same one) in `SerialWindow`,
`SerialSample` and `PricedOnFreights`, and `Serial` in `BookingSerialProofs`. Those are facts about
the handlers taken one by one, not about the deployed program, whose pool has 15 connections.

`BookingProofs`:

* `TypeCorrect`: `Spec => []TypeOK`. One lemma per handler group; `SessionKind` and `RunKind`
  recover from a session's position which record it is.
* `BookingInvariant`: `Spec => []BookingInv`, where `BookingInv` is `TypeOK`, the six row
  properties (`RowsAgree`) and `SessionMatchStands`. The last is what makes the rest
  inductive: a commit writes from what its session read, so one must know that the match a
  session holds still exists and, if a promotion will not write its status, that the status is
  past *proposed*. That in turn stands only because no step of another session moves a match
  back, which is `MovesForward`. The proof therefore shows for each handler that a step keeps
  the rows' agreement *and* moves forward (`Kept`), and `OthersStand` derives the sessions of
  the other requests from the latter.
* `ProposalOnce`, `BookedHasDeal`, `RowsConsistent`: the row properties of the run `booking`.
* `HistoryForward`: the action property `HistoryMovesForward`: no match, verdict or deal disappears and
  no match goes back to *proposed*. One decision on a match may overwrite another, and does.

`BookingSerialProofs` (extends `BookingProofs`) assumes `Serial`: one connection, finitely many slots,
and either no matcher run or one load, since a run gives its connection back between two loads:

* `SerialReads`: `Spec => []SerialInv`. `NobodyInFlight` turns the count of connections into "all others are
  idle"; from there on each session only has to be looked at alone (`RequestKeeps`, `RunKeeps`).
* `SerialLedger`: `Spec => ImplementsLedger`. One lemma per handler group (`ProposeServes`, ...,
  `MatchServes`) shows that its reads and rollbacks are stutters and its commit is `Book`, `Assign`,
  `Withdraw`, `Suggest`, `Recondition` or `Retire`. `SerialInv` gives the operation's guard at the commit,
  `BookingInv` that the match a promotion holds exists (so its load was posted) and that a deleted
  vehicle has no deal.
* `SerialProposals` and `SerialMatcher`: under `Serial` the two properties hold that `double_booking` and
  `matcher_settled` refute. What those runs find comes from the overlap and from nothing else.

`DealDeskProofs`:

* `TypeCorrect`, and `DealInvariant`: no stage skipped, a sample exactly with a delivery. The
  strengthening `SessionsJustified` says that a request in flight moves its deal to a successor
  of a status the deal has *had*: the present status is of no use, since others may have
  changed it.
* `ImplementsRecord`: `Spec => KeepsRecord`, for any overlap. A commit is `Reach` of the status its session
  validated: by `SessionsJustified` the stage that leads there is one the deal has had. Every read and
  rollback is a stutter.
* `SerialWindow`: if all request slots are the same one, a delivered deal is never trackable again. The
  invariant is `SessionCurrent`, the status a session read is still the deal's, with `LeavesForGood`, a
  deal that was delivered only goes on to the invoice and the payment.
* `SerialSample`: then a delivered deal has left one price sample and no more (`OneSample`), for it
  cannot be delivered again. `VisitedGrows` and `SamplesGrow` say, for any overlap, that no step takes
  back a stage or a sample; the modules built on the deal desk rest on them.

`PricingProofs` (extends `DealDeskProofs`):

* `PricesDealDesk`: every behaviour of `PricingSpec` is one of `DealDesk`; `PricingTypeCorrect`.
* `PricedOnRows`: a price rests on `MinSamples` rows, however runs and status requests overlap. The
  strengthening `RowsBacked` also covers the answers of runs that have not committed; `FoundGrows` says that the
  rows counted, a union over a set of deals, only become more.
* `PricedOnFreights`: under `OneAtATime` it rests on that many freights: with one sample per deal
  every row is of a freight of its own (`RowsAreFreights`).

`IngestionProofs`:

* `TypeCorrect`, and `IngestionInvariant`: `Spec => []IngestionInv`, from which `SampledOnce`,
  `CarriersBelong` and `CarriersBounded` follow. What makes it inductive is `LinksWillHold`: a
  vehicle about to be stored refers to a committed carrier row or to one its own session made,
  and every row a session made is for a vehicle it will store. Since rows only come in, other
  sessions cannot take this away (`OthersStand`). The bound counts the rows of a user together
  with the sessions that are about to add one (`Makers`): a session joins them only when there
  is no row yet, and leaves them by adding one or none.
* `ImplementsStore`: `Spec => StoresWholeBatches`. `CommitLoads` is `StoreLoads` of the pending loads and
  `CommitVehicles` is `StoreVehicles` of the pending vehicles and the users whose row it made, unless
  they roll back, which is a stutter like every other step. `LinksWillHold` gives the carrier of a vehicle
  of a known user; that the others get none needs `NoLink` beside the invariant.
* These hold for any number of manual sessions, proposals and users, and any page size.

`TrackingProofs` (extends `DealDeskProofs`):

* `TracksDealDesk`: every behaviour of `TrackingSpec` is one of `DealDesk`, so its theorems hold there.
* `TrackingInvariant`: `TrackingSpec => []TrackingInv`, from which `TrackingTypeCorrect` and `GateHolds`
  follow. `SessionsJustified` and `NoStageSkipped` give that a trackable status comes after *loaded*, and
  `VisitedGrows` that no stale request takes that back while the page is open. `PageShowsStored` says that
  the time a page shows is one of the vehicle's stored ones: its deal exists, so the vehicle cannot be
  deleted, and otherwise positions are only added (`TimesGrow`).
* `OnlyAdvances`: a page never goes back (`NeverJumpsBack`). The latest of the stored times is not before
  the one that is shown, which is stored too. That a finite set of times has a latest one
  (`LatestExists`) is proved from the least element of a well-founded relation, since the induction
  theorems themselves cannot be used here.

`FleetGpsProofs`:

* `FleetInvariant`: `Spec => []FleetInv`, from which `TypeCorrect`, `DeviceIsOwn`, `StoredInOrder` and
  `GroupIsThere` follow. Inductive are: `SessionsFit` (the device a session holds was made for its
  vehicle, and what it believes of the account is true or its own uncommitted insert), `OneMaker`
  (one uncommitted account per company), `PollOwn` (the stale table of the poll pairs a device
  with the vehicle it was made for) and `NoneNewer` (nothing stored or about to be stored is newer
  than Traccar's latest, nor is anything stored newer than an answer in flight). Device ids are
  never given out again, so `madeFor` is written once; all of `OwnDevice` rests on that.
* `ImplementsPositionLog`: `Spec => KeepsPositionLog`. `PollStore` is `Store` of what is fresh, `Remove` is
  `Erase`, every other step a stutter.

`AccountsProofs`:

* `AccountInvariant`: `Spec => []AccountInv`: rows plus `Fits` (the slug and the email a session has
  inserted are free in the committed rows, the numbers it skipped are taken, its points are those of
  its checks) and `Apart` (no two sessions hold the same key). A step that only changes a session
  is one lemma (`GoesOn`, `EndKeeps`); `Commit` is the other: `Committed` says what it writes,
  `CommitKeeps` that the rows agree afterwards.
* `ImplementsBook`: `Spec => KeepsBook`. `Commit` is `Register` (by `Committed`, and by `Fits` the numbers skipped
  long ago are still taken), `SaveProfile` is `FillIn` (a form is for a company that is there: `Edits`), every
  other step a stutter.
* `OwnersMatch`, `SlugsInOrder`, `BadgeIsEarned`, `NothingIsTaken` and `ProfileStaysFilled` follow.
* `NoCircle`: in any set of registrations one waits for no other. It rests on the order of the two
  inserts alone (`HoldersGoOn`): one that waits for a slug holds nothing, and one that waits for an email
  waits for a session that has both its keys already. The run has two slots and so circles of
  two; the theorem covers all lengths.

Only model-checked: `ListedIsIngested` and `FixesArrive`. They are liveness under fairness, which is out of
reach of the proof system, as are ENABLED and what recursive definitions compute. Every other
property of a passing run is a theorem.

## 6. Plan

In order of importance, each with its abstract promise, its runs and its theorems:

1. `Booking`, `BookingLedger`, `DealDesk`, `DealRecord` with their proofs. Done.
2. `Ingestion`, `ExchangeStore` with their proofs. Done.
3. `FleetGps`, `PositionLog` with their proofs. Done.
4. `Tracking`: `DealDesk` composed with stored positions and the gate. Done, with
   its proofs.
5. `Accounts`, `AccountBook`: email and slug races, verification score and badge, profile form, with proofs. Done.
6. `Pricing` over the deal desk, with its proofs. Done.
7. The serial refinement of `Booking` to `BookingLedger` as a theorem. Done.
8. Left: the matcher's filters, ranking and cut as pure operators against a reference definition (its
   distances are floating-point; the run's control does not depend on them).

## 7. Not modelled

* Dashboards, search, admin, profile and health pages: they read rows and render them.
* The chat bot: one LLM call per question, nothing is kept.
* The Navixy adapter, `price_match`, `update_email_verified`: nothing calls them.
* Login and logout: a signed cookie is the whole session; login writes `last_login_at`, which
  nothing reads. Hashing and signing are library calls.
* Configuration: read once at start; a flag that switches an agent off removes actions.
* Migrations and demo data run before the program. The models take the constraints of `db/models.py`,
  and the cascade from vehicles to positions of `migrations/versions/002_gps_and_platform_loads.py:94-98`, which
  `db/models.py:573` does not declare. Since `render.yaml` runs `alembic upgrade head`, a deployed
  database differs from that in three places, all of them in `FleetGps`:
  - `uq_telematics_company_provider` (`db/models.py:535`), on which `Waits` and `InsertAccount` rest, is in no
    migration: both of two racing inserts could succeed, and a later `scalar_one_or_none` would raise;
  - the provider column is an enum without *traccar* (migration 002, line 41), so on that schema no Traccar
    account can be stored, and `InsertAccount` always fails;
  - `vehicles.carrier_id` is NOT NULL (migration 001, line 87), so the flush in `StartNew`
    (`routes/fleet.py:200`) fails for a vehicle without a carrier.

  On a migrated database `fleet_new_submit` and the first link of a company therefore end in
  `Abort` and nothing is ever linked; what the runs show of accounts and links is about the schema the
  ORM declares.
* A user without a company and a vehicle without one: `routes/fleet.py:293` compares the two ids, so an
  admin without a company passes for an ingested vehicle. `Ingestion` has no deletion (`Booking` does).
* The texts and layouts of pages, prompts and log lines, the parsing of registry answers beyond
  what is stored of them, and the LLM's choices, which are any choice.
