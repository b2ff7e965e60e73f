# Nimbus POS: a verification development

TLA+ models of the services that carry Nimbus POS's core logic
(`src/apps/api/src/modules/`), the TLC configurations that check them and the
proofs that TLAPS checks. `PROJECT.json` ties every definition to the source
lines it stands for.

- [The system](#the-system)
- [How the code runs, and how it is modelled](#how-the-code-runs-and-how-it-is-modelled)
- [The modules](#the-modules)
- [What the runs check and show](#what-the-runs-check-and-show)
- [Bounds](#bounds) and [fairness](#fairness)
- [What is proved](#what-is-proved)
- [Where the code and its texts part](#where-the-code-and-its-texts-part)
- [What is not modelled](#what-is-not-modelled)
- [Plan](#plan)

## The system

Nimbus POS is a NestJS API over one PostgreSQL database (Prisma), with a web
client. Fifty modules; those that decide something a race, a crash or a retry
can spoil are:

| Component | State it keeps | Operations | Correct when |
|---|---|---|---|
| Idempotency guard (`bg3-reliability`, `reliability/idempotency`) | `idempotency_keys` rows | `guard` = maintenance check, training short-circuit, `wrap` = `begin`, handler, `complete` | the write of a key happens once; its result goes to callers of the same payload; a key does not stay in flight |
| Orders (`orders`) | `orders`, `order_items`, status of `tables` | create, item add/update/delete, send, in-kitchen, ready, served, void | status follows `VALID_TRANSITIONS`, final is final, totals are live, the table follows the orders on it |
| Kitchen display (`kds`) | `kds_tickets`, `kds_ticket_items` | `createTicketsForOrder` (left behind by send), mark ready, recall | every sent kitchen line is on one ticket of its station, and no other line is |
| Floor (`floor`) | `tables` | edit, set status | |
| Payments (`payments`) | `payments`, `payment_intents`, `webhook_events`, status of `orders` | close with payment, create/cancel intent, webhook, manual reference, automatic close | a closed order is paid, provider money is recorded once and only if taken, one charge per key |
| Reservations (`reservations`) | `reservations`, `reservation_events`, `reservation_deposits`, an order per seating | create, confirm, seat, cancel, no-show, complete, deposit, assign table | status follows the lifecycle whoever races, one event per status, deposits follow the outcome, no table is booked twice |
| Refunds (`refunds`) | `refunds`, status of `payments` and `orders` | create, approve, post-close void | refunds never exceed the payment; REFUNDED says so exactly |
| Discounts (`discounts`) | `discounts`, totals of `orders` | request, approve, reject | one decision per discount; totals agree with items and discount |
| POS handoff (`pos-handoff`) | items, totals, tables and metadata of `orders` | split, merge, move, transfer | no item is lost or doubled; groups add up to the total; the table follows |
| Shifts and tills (`shifts`, `tills`) | `shifts`, `till_sessions`, `cash_movements` | open, close, safe drop, reconcile | no closed shift has an open till; expected cash adds up |
| Offline sync (`reliability/sync`) | `sync_jobs`, attempts, conflicts | replay a batch, execute, retry, resolve | an offline write is replayed once, and its status rests on rows |
| Events (`events`) | events, classes, bookings, tickets | publish, open, close, book, cancel, issue, check in | never more sold than the capacity; admitted once |
| Public ordering (`public-commerce`) | events of the public page, holds | publish, hold, confirm, expire | bookings count what was confirmed, within the capacity |
| Feedback (`feedback`) | invitations, feedback | invite, open, submit, tag, acknowledge, resolve | a token is used once; resolved stays resolved |
| Inventory (`inventory`) | batches, adjustments | receive, adjust, `fifoDeduct` | stock on hand is what came in and was adjusted, oldest first |
| Menu and recipes (`menu`, `recipes`) | groups, links, ingredients | bounds, assignment, `setRecipe`; the cost of a sold line (`orders`) | a line has the cost of one recipe; groups are those assigned |
| Ledger and payables (`ledger`, `accounts-payable`) | journals, bills, payments, posting runs, recurring profiles, reminders | post, reverse, replay, pay, generate, remind | a journal is reversed once, a payment posted once, a cycle billed once |
| Bank and period close (`bank-rec`) | statement lines, reconciliations, periods | match, skip, complete; close, lock | a completed reconciliation balances; a closed period stays settled |
| Receivables (`accounts-receivable`) | invoices, receipts, balance | invoice, receive, post | balance and outstanding amounts say what was received |
| Payroll (`payroll`) | runs, slips, adjustments | build, approve, pay | one base pay per person and day; a run is paid once |
| Staffing (`attendance`, `workforce`) | records, leave, swaps, schedules | clock, ask, review, publish, archive | decided once; out after in |
| Billing and tenancy (`billing`, `tenancy`) | subscription, transactions, branches | checkout, notify, update, create branch | ACTIVE rests on a payment; the plan caps branches |
| Onboarding (`client-onboarding`) | steps, invitations | save, complete, invite, resend, revoke, accept | complete when all steps are; one live invitation |
| Planning (`budgets`, `forecasts`, `franchise`, `approvals`) | budgets, suggestions, transfers | create, refresh, suggest, review, approve, ship, receive | actuals are the ledger's; transfers follow their transitions |
| Device registry (`device-registry`) | devices, printer routes, pairings, their audit | activate, set status, route, pair, unpair | retired is final; one route per printer and station; the history leads to what is |
| Alerts and digests (`alerts`) | channels, deliveries, digest runs | test, retry, run a digest, change a channel | SENT went out once; retries are bounded; a digest reaches its channels |
| Web client (`apps/web`) | a screen's key and answer; the cached order of the order builder | submit, time out, retry, edit; create, add, update, delete, send, refresh | a retry carries the key of its first try; what is shown was done; a choice makes one line |

The rest (reporting, access, audit, people records and so on) is listed in
`PROJECT.json` with the reason it is left.

How the components meet: `OrdersService.sendOrder` calls
`KdsService.createTicketsForOrder` without awaiting it; `PaymentsService` and
`RefundsService` write `orders.status` themselves, beside `OrdersService`;
`DiscountsService` and `PosHandoffService` write the totals that
`OrdersService` writes; `ReservationsService.seat` inserts an order and occupies
a table; tills are reconciled against the payments and refunds of the branch;
payables, receivables and period close post to one ledger; `billing-pesapal`
marks the payment step of the onboarding; every controller that takes an
`Idempotency-Key` wraps its handler in the guard, and the screens of the web
client build the keys; payment providers call webhooks. Live screens listen to
an in-process event bus that nothing reads back.

What is hard: almost every operation reads, decides and then writes by id in
separate database calls, so two requests for one row interleave; the process
can die between two calls; providers lose, repeat and reorder webhooks; clients
time out and retry; background work is left behind with its error dropped.
Locks are rare: unique indexes (idempotency keys, document numbers),
compare-and-set updates (reservations, discounts, leave) and transactions that
trust what was read before them. `PROJECT.json` lists each hazard at its line
with the properties that would catch it.

## How the code runs, and how it is modelled

- One Node process runs handlers that interleave at every `await`. An action
  is one database call with the computation around it; what a request has read
  and will still use is kept in its slot (`req[r]`, `job[r]`).
- PostgreSQL runs each call atomically (READ COMMITTED, no surrounding
  transaction unless the code opens one; `$transaction` bodies are one action,
  except the two of `Menu` whose deletes and inserts another transaction can
  see between).
- A request that is refused by its first read never occupies a slot: it changes
  nothing.
- A crash empties a slot; rows stay. Crashes are bounded by `MaxCrashes`.
- Audit rows, numbers (`ORD-000001`; where their unique index decides a race
  they are in the model), names and timestamps are left out, except where they
  can fail a handler after its write (`HandlerThrows`).
- Access checks (branch, role, waiter ownership, open shift) only refuse; a
  refused request is one that never comes.
- A property that the code keeps only while requests do not overlap says so by
  a variable that remembers who overlapped (`overlaps`, `overlapped`,
  `crossed`, `disturbed`, `met`): the set of rows or requests for which two requests
  were at work at once. It excuses those rows and no others, so the same run
  checks the racing behaviours and what the code promises outside them.

## The modules

| Module | Role |
|---|---|
| `AtMostOnce` | Abstract: a key is bound to one payload, its write happens once, its result is told to that payload only. |
| `Idempotency` | The guard step by step: `LookupMiss/LookupRefused/Replay` (the lookup of `begin`), `Create/CreateRefused` (the insert and its unique index), `HandlerReturns/HandlerThrows`, `Complete/CompleteThrows/CompleteFailed` (`complete`, and the `catch` of `wrap`), `Crash`, `ToggleWindow` (maintenance). |
| `Workstation` | A screen of the web client in front of `Idempotency` (by INSTANCE): `Choose`, `Submit`, the time-out of `apiRequest`, the retry, the answer shown. |
| `Orders` | `orders`, lines, tables, tickets. `BeginTransition/WriteStatus` then `Occupy` (send) or `CountActive/Release` (void); `BeginAdd/AddLine`, `BeginDelete/DeleteLine`; `BeginSettle/Settle` stand for the status writes of payments and refunds; `JobRead/JobFind/JobCreate/JobDone` are `createTicketsForOrder`. |
| `Bill` | What an order costs: items, discounts with their compare-and-set, lists of items that are split off or moved, merges, and the three recalculations that write one order's totals. |
| `Handoffs` | The rest of a handoff: groups of a split bill, table and server transfers, the record of a merge, anomaly flags. |
| `Payments` | One order: `Close*`, `IntentRead/FindKey/CreateIntent/RequestToPay/FailIntent`, `Cancel*`, `Webhook*`, `Manual*`, `Settle*` (the automatic close). The provider is `Decide` and `Reports`: a charge is decided once, and its webhooks come at any later time, any number of times. |
| `Refunds`, `Drawer` | Refunds and the post-close void; `Drawer` extends them with shifts, tills, drops and reconciliation. |
| `Lifecycle` | Abstract: a status moves along a graph, each status taken is logged once, after it was taken. |
| `Reservations` | Every operation of the service: `CreateCheck/CreateInsert`, a read per transition, `Cas` (`applyGuardedTransition`), what follows it (`Occupy`, `SettleDeposits`, `WriteEvent`), `OpenOrder`, deposits and table assignment. |
| `Sync` | Offline batches: `executeJob` read by read (status, attempt row, replay, outcome), manual retries, conflicts and their resolution; the dispatcher is a free choice of outcomes. |
| `Books`, `Recurring`, `Bank`, `Receivables` | Bills, payments, journals, reversals, replays and period close; recurring profiles, document numbers and reminders; reconciliations; customer invoices and receipts. |
| `Payroll`, `Staffing` | Pay runs; attendance, leave, swaps and rosters. |
| `Subscriptions`, `Onboarding`, `Planning` | PesaPal checkout and the location cap; onboarding steps and invitations; budgets, forecasts, transfers and the approvals inbox. |
| `Events`, `PublicBooking`, `Feedback` | Ticketed events; holds of the public page; feedback tokens. |
| `Devices` | Activation, status, printer routes and the pairing of terminals, each read, written and recorded call by call. |
| `Alerts` | Test alerts and digests channel by channel (`Send`, then `Insert`), retries, and changes of a channel. |
| `OrderBuilder` | The waiter's screen on a table without an order: `Mutate/ApplyAdd/AddDone` and the other mutations, choices that wait for the order (`CreationDone`, `RetryQueued`), the refreshes each success asks for (`ReadOrder/Land`), time-outs and what the server applies after them (`LateApply`). |
| `Board` | The supervisor's workspace over one order: three queries that land late, fail or wait for the network (`Land`, `Fail`, `GoOnline`), what is offered from them (`Enabled`, `Open`), what the server does (`Serve`) and what a success patches and reads again (`Answer`). |
| `Stock`, `Menu` | Batches and adjustments; what the menu assigns and what a sold line costs. |
| `IdempotencyProofs`, `OrdersProofs`, `SyncProofs`, `ReservationsProofs`, `PaymentsProofs`, `BillProofs`, `OfficeProofs` | Inductive invariants, the safety properties that follow and two refinements, proved; `ReservationsProofs` is also about `Feedback`, `PaymentsProofs` about `Bank` and `Payroll`, and `OfficeProofs` about `Drawer` with `Refunds`, `Subscriptions`, `Staffing` and `Onboarding`. |
| `SumLemmas` | Sums over finite sets and the folds that compute them: that they exist, that an element can be taken out or added anywhere, that they are natural. |
| `MCIdempotency`, `MCOrders`, `MCPayments`, `MCReservations`, `MCSync` | Instances for TLC, with what the bounds are chosen for. |
| `MCHouse`, `MCOffice` | Twelve parts of the house and eleven of the office, instantiated side by side, each with the bounds stated at its INSTANCE. |

`visited`, `reached`, `effects`, `told`, `served`, `missed`, `charge`,
`history`, `cash`, `elsewhere`, `units`, `doubled`, the overlap sets and the counters of bounds are history the code
does not store (`charge` is the provider's state); they only record, and no
guard of a program step reads them except the bounds and the provider's own
steps.

Beside a definition stand its mutants (`\* Mutant: ...`): the same definition
with a plausible bug. The specification never uses them; each property is
violated when its mutant takes the definition's place (`PROJECT.json`,
"mutants"). A property with several parts has a mutant for each module it is
about, so that every part depends on the code it is about.

## What the runs check and show

Passing runs:

| Run | Properties | Shows |
|---|---|---|
| `idempotency` | `TypeOK`, `AtMostOneEffect`, `OneOwner`, `ImplementsAtMostOnce`, `InFlightResolves` | The guard keeps the promise of `AtMostOnce` for racing, retried, failing and lost requests; without a lost request a key does not stay in flight. Deadlock is checked. |
| `orders_race` | `TypeOK`, `NoSkippedState`, `TicketsFaithful`, `OneTicketPerStation`, `SentReachesKitchen` | Although statuses are written over stale reads, no kitchen state is ever skipped; tickets hold only lines still on the order and made at the station; an order sent twice (a stale write lets the second send through) has one ticket per station unless both its jobs were under way at once; a sent order gets its ticket, moves on, or its job is known to have ended without one. |
| `orders_serial` | `TerminalIsFinal`, `ReleaseSparesOthers` | With requests one at a time (jobs and staff still interleave) final orders stay final, and voiding one order of a table never frees it under another that was sent. |
| `payments_race` | `TypeOK`, `RecordedIsTaken`, `SucceededIsRecorded` | However two requests and the webhooks interleave, money is recorded for an intent only if the provider took it, and an intent is SUCCEEDED only with its payment on the books or being written, unless a crash came between. |
| `payments_serial` | `OnePaymentPerIntent`, `OneChargePerKey`, `CloseIsPaid` | With requests one at a time a repeated webhook pays once, a retried intent charges once and no order is closed below its total. |
| `reservations` | `TypeOK`, `DepositKept`, `SeatedLinked`, `FollowsLifecycle`, `StatusReported` | Under every interleaving of two requests the compare-and-set keeps the lifecycle, its events, the deposits and the order link consistent; every status is reported unless a crash came between. |
| `sync` | `TypeOK`, `OutcomeBacked`, `AttemptsCounted`, `SuccessIsFinal`, `InProgressEnds` | The status of an offline job rests on its rows whatever interleaves; no replay outruns its attempt rows; a success that no two requests met on is final; no job stays IN_PROGRESS without a crash. |
| `house` | `HouseTypeOK`, `BillTrue`, `ItemsConserved`, `DecidedOnce`, `RefundsAgree`, `GuestsAgree`, `WorkAgrees` | Twelve parts of the house, each with two requests and a crash (below). |
| `office` | `OfficeTypeOK`, `CashAgrees`, `AccountsAgree`, `StaffAgree`, `OrganizationAgrees` | Eleven parts of the back office, each with two requests and a crash (below). |

What the compound properties say, part by part:

| Property | Parts |
|---|---|
| `BillTrue`, `ItemsConserved`, `DecidedOnce` (`Bill`) | An order no two requests disturbed says what its items come to less its latest approved discount; handoffs lose no unit, and invent none but when a list names an item twice; a discount is decided once whoever races. |
| `RefundsAgree` (`Refunds`) | Refunds, waiting ones included, never exceed their payment unless two overlapped; REFUNDED holds exactly when they reach it or the order was voided, whoever races. |
| `GuestsAgree` (`Events`, `PublicBooking`, `Feedback`) | Sold counters equal the bookings for all, and stay within the capacity without overlaps; a ticket admits once; holds count when confirmed and expire; a token is used once. |
| `WorkAgrees` (`Stock`, `Workstation`, `Menu`, `Handoffs`, `Devices`, `OrderBuilder`, `Board`) | Stock on hand adds up, oldest first; one effect per intent of the user and success shown only of what was done; bounds, shelf, links and costs of the menu; groups, merges, tables and flags of handed-over orders; a retired device stays so, one route per printer and station, a history that leads to what is; no pending line without its call, one line per choice, one order per table, and a screen at rest that shows the order; no void or discount over money the supervisor could have seen, offers that hold, one's own deeds shown, one discount asked at a time. |
| `CashAgrees` (`Drawer`) | Refunds stay within their payment and mark it; a closed shift has its summary, of every session unless requests overlapped; a till has one session at a time; expected cash is what the drawer holds and, with several tills open in the branch, what went through the others too, but for three named cases the code miscounts. |
| `AccountsAgree` (`Books`, `Bank`, `Receivables`, `Recurring`) | One reversal per journal; POSTED rests on one journal; bills settle; a closed period stays settled, its earnings the net of its entries but for contrary ones booked by hand; a completed reconciliation balances; customer balances count; a cycle is billed once and none is skipped. |
| `StaffAgree` (`Payroll`, `Staffing`) | Runs and slips agree for all; a day is paid once per branch; leave and swaps are decided once and the reviewer is told the truth; clocking in order. |
| `OrganizationAgrees` (`Subscriptions`, `Onboarding`, `Planning`, `Alerts`) | COMPLETED and ACTIVE rest on a payment; the cap holds without overlaps; onboarding completes when its steps are done; an invitation is accepted once; budgets say what the ledger held at one moment; a transfer that travels was approved; a delivery reads SENT when it went out once, retries are bounded, a stamped digest reached its channels. |

Runs that show a disagreement between the code and what the repository says of
it ("findings" quotes the lines):

| Run | Property | What happens |
|---|---|---|
| `idempotency_replay` | `SuccessMeansEffect` | A request fails; its retry finds the FAILED row and is answered 200 with no body. |
| `payments_phantom` | `ClosedWasServed` | A manual reference covers an order that was never served, and the automatic close closes it. |
| `reservations_double` | `NoDoubleBooking` | Two reservations hold one table at overlapping times, through racing creates or a seat with a table of its own. |

The serial and the racing instance of a module together say which guarantee
needs requests not to overlap. In particular `TerminalIsFinal` fails for two
overlapping requests (one validates NEW -> SENT, the other voids, the first
writes SENT over VOIDED), and so does `OneChargePerKey` (both find no intent
with the key and both ask the provider).

## Bounds

- `idempotency`: three requests, one key, two payloads, four sends, one crash.
  Keys never share state, so one suffices; two requests race for the insert, a
  third reuses the key with another payload, a fourth comes after the end.
- `orders_race`: one order, one kitchen line, two requests, one crash. Stale
  writes need two requests on one order, a second send among them; the jobs they
  leave behind are further actors.
  Tables are left to the serial run.
- `orders_serial`: two orders that may share a table, two lines of one station,
  one request. `ReleaseSparesOthers` needs two orders. Orders and lines are symmetric; only safety is checked here.
- `payments_race`: one intent, two requests, three webhooks (one repeated, one
  out of order), amounts 0 or 1. Amounts do not matter to its properties.
- `payments_serial`: two intents, one key, amounts and total up to 2 (short,
  exact, over), two webhooks, one crash. Intents are symmetric.
- `reservations`: one reservation, two requests, one deposit, two orders, one
  crash. Two reservations meet only in the conflict check, which
  `reservations_double` covers.
- `sync`: one job in batches that name it once and twice, two requests,
  `maxAttempts` 2, three replays, two conflicts, one crash. Jobs share no row,
  so one suffices; the batch that names it twice is the case of a client that
  queued a mutation again. Two attempts reach the limit, and a third replay is
  the one that would pass it.
- `house` and `office`: a behaviour chooses one part and works on it alone, so
  that the states of the parts add up; `Of(p, I)` asks `I` of the part that
  works. The parts share no rows in these models, so nothing is lost by it.
  Every part has two requests (the drawer, whose till has one user, has one
  clerk and two orders of events; the screens have one user and calls that
  overlap) and one crash; the number of arrivals is the
  longest story its properties need (publish, add a class, book, issue, check
  in, and a second guest, for example), written at each INSTANCE. A delivery has two
  attempts where the code has three: the second is retried and the limit met.
  The order builder has one person with three acts, two items, one refresh on
  its way and one call given up. Bills have three arrivals, enough for an item, a
  discount and its approval, or two items and a handoff, up to three units of an
  item (`MaxQuantity`) and three rows (`MaxRows`), and handoffs divide items twice
  at most (`MaxParts`): the smallest numbers with which one list can take two parts
  of one item. The theorems of `BillProofs` have no such bound. The drawer has two
  sessions (`MaxTills`) of two tills or of one after the other, with their floats or
  one further movement of cash (`MaxMoves`), a payment and a refund (`MaxRefunds`)
  on either side of their opening; two refunds are in `house`. The theorems of
  `OfficeProofs` have any number of tills, sessions, refunds and movements.
  Requests and clerks are interchangeable; only safety is checked, so symmetry is sound.

`CHECK_DEADLOCK FALSE` is set where the system may stop because the instance is
used up: all orders final, all rows created, all bounds reached.

## Fairness

`Idempotency`, `Orders`, `Reservations` and `Sync` assume weak fairness of
`Proceed(r)` (and `Work(r)` for a background job): a request that is being
served keeps going, because Node runs the continuation of every settled await.
A crash ends the obligation. No fairness is assumed of clients, staff, the
control plane, providers or crashes. The other modules state safety only:
nothing in the code makes a provider send its webhook, a manager decide or a
scheduler call (the code has none).

## What is proved

`IdempotencyProofs`, for any sets of clients, keys and payloads and any bounds.
`IInv` is `TypeOK`, `OneOwner`, `AtMostOneEffect` and `Progress`; the last says
how far the effect of a key can be (none while its row is absent or its handler
has yet to run; one before `complete` succeeds; one behind a SUCCEEDED row) and
that its hash is the payload of the owner. `AtMostOneEffect` alone is not
inductive: that the handler has not run before rests on `OneOwner`, which rests
on the unique index. `Init`, every action and stuttering are one step of
`NextIInv` each, over four lemmas by kind of step. The refinement
(`Implements`) maps a finished insert to `Bind`, the handler's effect to
`Execute`, `Complete` and a replay of a SUCCEEDED row to `Tell`, and everything
else to a stutter. Assumptions used: `KeysAssumption`, `NoPayloadAssumption`,
`BoundsAssumption`.

`OrdersProofs`, for any sets of orders, tables, lines, stations and requests.
A status write is unconditional and may come late, so neither `NoSkippedState`
nor `TicketsFaithful` is inductive: the write can be judged only by what its
request read. `OInv` adds three facts to them and `TypeOK`. `Slots`: what a
request or a job is about to use is there. `History`: the status a transition
was validated against was once the order's (`visited` never shrinks, so no
other request's write can undo this), and a job past its read works for an
order that was sent. `FreshLines`: a line being inserted is on no order and in
no other request's hands, so the insert takes nothing from a ticket. There is
one lemma per part with one step per action that touches it. From `OInv`
follow `OrdersTypeCorrect`, `NothingSkipped` and `TicketsAreFaithful`.
Assumptions used: `NoneAssumption`, `StationOfAssumption`, `CrashesAssumption`.

`TicketsAreSingle` is about any requests too. Two that read NEW both send an
order, so `createTicketsForOrder` can run for it again; its check for tickets that
exist decides unless two jobs were under way at once (`met`). `JInv` adds to `OInv`
that jobs of an order that never met are one (`JobsApart`) and that a job creating
tickets has none yet for the stations it has left (`StationsLeft`), without which
`OneTicketPerStation` is not inductive.

Two more theorems of it take `OneAtATime` (`Requests` has one element) as an
assumption: `TerminalStays` and `ReleasesSpareOthers`. Two requests break these
properties; the theorems say that
overlap is the only cause, for any number of orders, tables, lines and stations,
although the job one request left behind, the staff at the tables and crashes
still interleave with the next request. `SInv` adds to `OInv` that what a request
read is still so at its write (`StillRead`: the status a transition was validated
against, and between count and release that no other order of the table is
active).

`SyncProofs`, for any jobs and batches and any finite set of requests. A job's
status alone says nothing: it is written by id by whoever finishes last.
`SInv` says what stands behind it. `Rows`, `Held` and `Apart` give each
execution under way a place of its own in `attemptCount`, the attempt rows and
the effects, so that the differences between the three counters are the
requests between the calls that raise them (`Counted`, by the cardinality of
those sets of requests, hence `RequestsAssumption`). `Alone` says what a
request knows of a job no other request met it on, and `Backed` with
`OutcomeBacked` what each status rests on. From it follow `TypeCorrect`,
`StatusesBacked`, `AttemptsAreCounted` and `SuccessStays`. Assumptions used:
`BatchesAssumption`, `RequestsAssumption`, `AttemptsAssumption`.

`ReservationsProofs`, for any reservations, tables, deposits, orders, requests
and times. `RInv` is `TypeOK` and `DepositKept` with: `Carried` (what a request
carries at each call), `Creating` (a reservation being inserted is in one
request's hands), `Past` (statuses rise in a rank of the graph, and one that was
left is not taken again, which is what makes a compare-and-set on the status
read enough), `Reports` (a status is reported by the one request that took it,
so `events` counts to one), `Logged`, `Tabled` (a seated party has a table) and
`Deposited`. The lemmas go from what a handler's step does to one row
(`RowKinds`: it begins a reservation, takes a status, or changes none) to each
part. From it follow `ReservationsTypeCorrect`, `DepositsFollow`,
`SeatingLinks` and, with the statuses mapped as they are, the refinement
`LifecycleFollowed`. Assumptions used: `NoneAssumption`, `CrashesAssumption`.

Its second part is `Feedback`, for any numbers of invitations and feedbacks.
Every write there trusts a read of an earlier call, so `FeedInv` goes row by row:
two requests at work on one have crossed it (`FeedApart`), of a row nobody
crossed what was read is still so at the write (`FeedStillSo`), and `FeedUsed` counts
the feedback of an invitation: none before SUBMITTED, never two, unless it was
crossed. That a SUBMITTED invitation has its feedback holds through any race
(one transaction writes both). From it follow `FeedbackTypeCorrect` and
`FeedbackIsRight`. Assumption used: `FeedSizes`.

`PaymentsProofs`, for any numbers of requests, intents, webhooks and payments.
A webhook trusts the status it carries through three calls, during which other
requests overwrite the intent; so neither property can rest on the intent's
row, and `PInv` rests on the provider instead, where what was paid stays paid.
`Carried`: a webhook of success knows that the provider took the money, and a
request carries a known intent or an amount to the calls that need one.
`Asking`: the one request that will ask the provider for an intent is alone with
it, and it has no charge yet, so that asking never undoes a payment. `Fresh`: an
intent that was not inserted has no charge, one that was has an amount. With
`RecordedIsTaken`, `SucceededIsRecorded` and `Typed` (`TypeOK` but for the sum a
request carries) this is inductive; the lemma `Moves` does every step that leaves
the provider alone. From it follow `RecordedMoneyIsTaken` and
`SuccessesAreRecorded`, and with `Counted` (the sum a close carries is natural:
`Paid` is a fold, and the lemmas of `SumLemmas` give it its type)
`PaymentsTypes`. Assumptions used: `NoneAssumption`, `BoundsAssumption`.

`WebhooksPayOnce` and `KeysChargeOnce` of it take `OneAtATime` as those of
`OrdersProofs` do: the search for a payment and the search for a key are not
under a lock with the insert that follows (`StillMissing` is what overlap would
break), so they are worth exactly this. Webhooks still come repeatedly, late and
in any order, and crashes come between any two calls. They rest on
`OneIntentPerKey`, which is stronger than `OneChargePerKey` and inductive.
`ClosesArePaid` takes it too: the total and the sum that a close or the automatic
close compares were read in earlier calls. `Covered` says that they are still
what they were and what was found of them, up to the write; `CloseAdds` that the
rows of that write add what was asked, whichever of the two methods is used.

Two more parts of it are about rows of their own. In `Bank`, for any finite set of
lines and any amounts, matching takes four calls and writes what the first of them
found, so reconciliations are right only while requests do not overlap: `BankFound`
says what a request that is alone (`BankAlone`) has found and still holds,
`Reconciled` is the property row by row. The matched total is a fold over the lines:
`LinesTotal` gives it its type and says why skipping a line leaves it alone. From it
follow `BankTypeCorrect` and `ReconciliationsBalance`. Assumption used: `BankSizes`.

In `Payroll`, for any finite set of employees and any periods, base pay and
adjustments, a run and its slips are written by one transaction, and by another
when the run moves on. So they agree through any race: `SlipRight` says of a slip
that its run exists, can pay its employee, is as far as the slip, and that its net
is base pay with the adjustments it names, all of that employee, branch and period;
`OneSlip` that run and employee identify a slip, so that a run's count and total can
be those of a set (`RunRight`). That an update of every slip of a run leaves both
alone is `SlipsMoved`: a sum over the image of a set under an injection
(`WSumImage`). Base pay twice for a day and paying twice are prevented by reads
only, which `PayFound` follows while a request is alone; that no adjustment is on two
slips is then a consequence, since its day is in one run of the branch. From it follow
`PayrollTypeCorrect` and `PayrollIsRight`. Assumption used: `PayrollSizes` (finite
employees; days and amounts are integers).

`BillProofs`, for any orders, requests, rows and discounts. Five operations write
the totals of an order from what they read two or three calls before, so
`BillTrue` is about orders that no two requests met or died on (`disturbed`), and
`IInv` follows them through the calls in between. `Carried`: what a request is
about to use is there. `Apart`: requests that meet are about disturbed orders, and
an operation on two orders is disturbed on both or on none. `Held`: the rows a
request will write are on its order, and what a handoff read of them is still so.
`Numbered`: approvals have places of their own, so there is a latest one.
`Settled`: an order is right as long as the requests about it have changed
nothing; `Recalculating`: a request that has changed it knows the right subtotal
and discount as far as it has come. `Merged`: an order that was merged away is
VOIDED and, unless some requests met, nobody is about to put an item on it. With
`TypeOK` and `ItemsConserved` this is inductive: each call is first described by
what it changes (`...Does`), then each part has one step per call. A list of parts
may be of any length and name any item any number of times. `After` says what rows
it leaves, and `MovedUnits` that they have the units there were and, once more,
the part of every entry but the last about its item: as many if no item is named
twice, and more if one is (`doubled`). From it follow
`BillTypes`, `BillIsTrue`, `ItemsAreConserved` and, as an action property,
`DecidedOnlyOnce`, which needs no more of it than the types: the compare-and-set
on PENDING decides, whoever races. Assumptions used: `OrdersAssumption`,
`KindsAssumption`, `NumbersAssumption`.

Subtotals, numbers of items and what an order was paid are folds over rows. The
library's induction theorems cannot be instantiated by the provers at hand, but
well-foundedness can be used without them: that strict subsets of a finite set and
natural numbers have minimal elements are first-order facts (`SmallestSubset`,
`LeastNatural`). `SumLemmas` shows from them that a fold over a finite set exists,
is unique and is a sum from which any element can be taken out (`WSumRemove`),
whatever order the fold chose.

`OfficeProofs`, first, for any payments, refunds, users, shifts, sessions and
movements, and any finite sets of requests and workers. `RefundInv` is about the
refunds: what a request carries is there (`Carried`), what it has found out still
holds at its next call (`Fits`: that an insert fits the payment, unless requests
about its order overlapped, and that a payment about to be marked is covered),
and requests that meet are on an overlapped order (`Apart`). A refund that waits
for an approval already counts against its payment, which is why approving it
later needs no check. `DrawerInv` adds the drawer. What lasts through races is
little: rows belong together (`Linked`) and requests carry what exists (`Knows`).
The rest holds while nothing raced (`Calm`): one request at most is in progress,
`Undisturbed` says that the sum it has built call by call is the float with the
sales, drops or refunds it has come to, and `Held` that every open drawer whose
refunds are plain holds, together with what went through the others meanwhile
(`elsewhere`), all of them. Payments and refunds go on while a session
is open, so most of the proof is about how a row more or a status changed moves
each of the four sums (`MoneyKept`, `MoneyMoves`); the steps of requests are then
the same few lemmas (`WorkKeeps`, `ReadKeeps`). From it follow `DrawerIsTyped` and
`CashIsRight`. Assumptions used: `OrderOfAssumption`, `AmountAssumption`,
`BoundsAssumption`, `DrawerAssumption`.

Second, for any plans and numbers of requests, transactions and branches, the
subscription. No row can be trusted between the calls of `reconcileTransactionStatus`:
a callback turns a COMPLETED transaction back to REDIRECTED, and
`updateSubscription` overwrites any status. `SubInv` rests on what lasts: a
transaction was paid, it was confirmed, and once a payer was sent to PesaPal
there is a subscription (`Paid`); `SubKnows` says what of this a request carries at
each call, among it that by hand nothing goes back to PENDING_PAYMENT, which is
why a confirmation that found the subscription waiting is not undone. From it
follow `SubscriptionsTypeCorrect`, `PaymentsBackAccess` and
`ConfirmationsActivate`, parts of `OrganizationAgrees`. What they assume of the
constants is `Numbers`.

Third, for any employees, spans, rosters and numbers of rows, staffing. A review
is a compare-and-set on PENDING, so `Decideds` (a row has one decision, and one
reviewer who was told of it, or none of either) needs nothing of the requests and
holds through any race; so do `ClockedInOrder`, by the unique row of a day, and that
a swap is between people who were on a published roster (`Rostered`, which rests on
what `StaffKnows` says a request carries). Overlapping leave, a second pending swap and
a schedule's versions rest on reads: `StaffAlone` follows those while no other request
is in progress, `Unspoiled` is what they then keep. From it follow
`StaffingTypeCorrect` and `StaffingIsRight`. Assumption used: `StaffSizes`. With
`PayrollIsRight` this is `StaffAgree`, both parts of it.

Fourth, for any saved steps, people and numbers of branches and invitations,
onboarding, whose calls share no transaction and compare nothing. That it is
complete only once its steps are done holds through any race because steps are
only added: a request that found all of them still finds them (`BoardKnows`).
That somebody notices the last one (`StepsDone`) is the converse: whoever marked it
checks next, unless it was the payment, which is marked with no check after it.
Invitations and the branch rest on reads: `BoardAlone` says what a request knows of
them while no other is in progress, `Orderly` what is then kept (`OpenOnce`, `Kept`,
and `BranchMarked`: a branch there is was marked or is about to be, so a second
`createBranch` is refused, unless somebody died in between). From it follow
`OnboardingTypeCorrect` and `OnboardingIsRight`, a part of `OrganizationAgrees`.
Assumption used: `BoardSizes`, which has it that the payment is no step a member
saves.

Model-checked only: liveness (`InFlightResolves`, `SentReachesKitchen`,
`StatusReported`, `InProgressEnds`), which is out of TLAPS's reach; and of `house`
and `office` what is not in `Bill`, `Refunds`, `Drawer`, `Feedback`, `Bank`, `Payroll`,
`Staffing`, `Subscriptions` and `Onboarding`.

## Where the code and its texts part

Beside the findings of the three runs above, the models exclude or show these;
each is in a comment or an exception of the property named.

- `client-onboarding.service.ts:355-356` keeps a "single live invite" by
  superseding, but sending an old one again (`:446`) revives it (`SingleInvite`);
  and onboarding does not complete when the payment is its last step, because
  `billing-pesapal.service.ts:357-361` marks it without `checkAutoComplete`.
- `README.md:506` promises non-overlapping pay runs; two built at once overlap,
  and an employee of the organization is in the run of each branch (`PaidOnce`).
  The location cap, holds of the public page and bookings of events are exceeded
  by racing requests in the same way, and holds even one after the other.
- Of the contract of the web client's keys, item 4 ("material change") is met for
  the target and not for the reason, which is in the fingerprint of the payload:
  an edited reason is sent under the old key and refused (`MismatchIsEdited`).
  The empty 200 of a FAILED key is shown as "Items moved". The cashier's panels
  build a key for each submission, so a retry after a time-out is a second write.
- Recurring bills: the "immediate repeat" that should be answered 409 is a second
  bill when it reads its number after the first committed; `setMonth` skips a
  short month and stays on the later day; a dismissed reminder is made again and
  one of a paid bill stays PENDING; a PATCH past `endDate` is not validated.
- A reversal into a closed period is not refused (`CloseIsSettled` names it).
  Closing a period sums credits of revenue and debits of expenses only; a manual
  journal may book the contrary, which the close misses, and if it is reversed the
  close counts the reversal (`Contra`). The earnings of the close are then over the
  net of the entries, in serial use.
- A split or a move checks and writes every entry of its list against the
  quantities read before (`pos-handoff.service.ts:367`, `:437-488`, `:902-950`), and
  the list may name an item twice: of three units, two entries of one leave two and
  make two (`ItemsConserved` promises after that only that none is lost).
- Tills of one branch may be open together (`tills.service.ts:54-60` looks for the
  same till only), and `computeExpectedCash` counts the whole branch's payments and
  refunds for each, so each is short of what went through the others
  (`DrawerAgrees` says by how much).
- Menu: changing the group alone leaves the old subgroup, and a null group with a
  subgroup leaves one without group; min, max and required are never enforced on
  an order; the ingredients of a serving are in no cost; two `setRecipe` at once
  leave both recipes.
- The supervisor's screen is the only gate between a payment and a void or a
  discount (`order-actions.ts:3-7`). It looks when the dialog is opened; a payment
  that lands while it is open is missed. `SupervisorTableControlWorkspace.tsx:418`
  means never to assume "unpaid" on failure, but a payment read that waits for
  the network is neither loading nor failed, so a dialog opens, and what it
  submits goes out ahead of that read on reconnecting (`MoneyRespected` names
  both). A part paid of an order that is complimentary since reads as "unpaid". A
  success that invalidates a query in its first read changes nothing, so the list
  of discounts may miss the one just asked for (`OwnDeedsShown`, `AskedOnce`).
- Planning: refreshing actuals adds amounts whatever their direction, and skips
  a REVERSED original while it counts its reversal; a budget without period is
  made twice by racing requests; a forecast run that dies before its suggestions
  is served as COMPLETED for good.
- Handoffs: transfers, merges and payments change no table's status; discounts
  keep `anomalyFlags` as a list and refunds as an object, and a discount's
  request over an object throws.

## What is not modelled

- Prices beyond one unit price; an order line's kitchen state beyond its ticket;
  tickets marked ready or recalled. An item added
  after the order was sent gets no ticket: nothing in the code says it should.
- Training mode: its short-circuit returns a simulated answer and writes
  nothing that is modelled. `markConflict` has no caller and `expiresAt` of a key
  is never read, so neither is an action.
- The replay dispatcher has one handler registered (`GENERIC_REPLAY`), which
  always succeeds. `Sync` lets it succeed, fail or conflict, as `executeJob`
  provides for: what it shows holds for handlers yet to come.
- `completeForClosedOrder` takes the steps of `complete`; its caller is not
  reached by a route. The events of deposits and tables are left out because
  they may repeat and nothing depends on them. The order `seat` inserts before it
  loses its race, and a deposit taken after the cancellation, stay behind in the
  model as in the code: no text promises otherwise.
- `OrderBuilder` has one person and nobody else on the order. The screen is seen
  through what TanStack Query gives it: a mutation object shows the latest call,
  every call runs its own callbacks. An item under way when the order is sent is
  added after it (no ticket, as above); opening an existing order and splitting
  from this screen are left out.
- `Board` is one opening of the workspace with every permission, over an order
  that can be read; two dialogs are never open at once. The floor is patched and
  not read again; the kitchen's states before READY, which offer what READY
  does but serving, are left out. That React Query pauses offline, resumes
  mutations first, and does not restart a query without data are its defaults:
  the code sets no `networkMode`.
- Alert rules, the creation of channels and schedules and what a digest says;
  audit rows of registered devices and of routes.
- Webhooks that name no known intent change nothing modelled. The confirmed
  amount of a webhook is taken to be the intent's, and all webhooks of an intent to
  carry one `externalId`: the payment is looked up by it
  (`payments.service.ts:635-636`), and a provider that named the intent by its own
  reference in one webhook and by ours in another would be recorded twice.
- The plan of a subscription, and with it the location cap, does not change.
- Backdated stock batches, credit notes, debits and credits of a journal beyond
  its kind and direction, cadences other than monthly, gross and net of a slip.
- `merchant-payments` stores credentials, and `public-commerce-payments` only
  inserts intents that say NOT_ENABLED. `hms-integration`, exports, receipts and
  documents read. Reports, analytics, digests and the screens of the web client
  that only show are queries: most of the repository's lines are these, its
  pages, its seeds and its scripts, and have no state of their own to check.
- A second API process would interleave like a second request; nothing in these
  models relies on there being one.

## Plan

1. Done: the idempotency guard, orders with the kitchen job, payments and
   reservations; then offline sync, refunds, drawer, bills and handoffs, events,
   the public page, feedback, stock, menu, books, bank, receivables, recurring
   bills, payroll, staffing, subscriptions, onboarding, planning, devices, alerts,
   the screen in front of the guard, the one that builds an order and the supervisor's over one. Proofs of the guard, orders, payments, sync,
   reservations, bills, refunds with the drawer, subscriptions, staffing, onboarding,
   feedback, bank reconciliation and payroll.
2. Next to model: kitchen tickets marked ready and recalled, credit notes, the
   reservation screens, hiring.
3. Next to compose: payments and reservations over one order and table (what a
   close leaves behind); sync over the guard of the write it replays.
4. Next to prove: the compare-and-sets of `office` that are left
   (planning), which hold for racing requests; receivables, whose balance is a sum.
