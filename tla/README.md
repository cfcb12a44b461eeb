# FREIRAUM in TLA+

Specifications, model-checking runs and proofs for the FREIRAUM parking
marketplace: a FastAPI/SQLAlchemy backend on PostgreSQL 16 (`src/backend/app`), a
notification worker process, a Flutter app (`src/lib`), and Stripe and an SMTP
server outside. What makes the system hard is that every HTTP handler is a
coroutine with its own database session at READ COMMITTED: it reads rows,
awaits, and writes what it thinks of them later, while other handlers, the worker and
Stripe's webhooks do the same.

## The system

| component | state | operations | interacts with | hard part |
|---|---|---|---|---|
| bookings (`services/booking.py`) | `bookings` rows, exclusion constraint (migration 0002) | create, confirm_paid, expire_pending | availability, payments, listings | two checkouts for one window |
| direct payments (`services/direct_payments.py`) | `payments`, host settings | create_checkout, submit_reference, decide | bookings, outbox | several commits per handler, idempotent retries |
| launch operations (`services/launch_operations.py`) | deadline, refunds, receipts | submit_reference_with_deadline, complete_refund, expire_direct_payment_deadlines | worker | one lock for the batch, one commit per row |
| Stripe payments (`services/payments.py`, `payment_lifecycle.py`) | `payments`, `payment_webhook_events`, Stripe's sessions | create_checkout, process_webhook, refund_booking, cancel_unpaid_checkout | Stripe | late, repeated, reordered events; no locks |
| availability (`services/availability.py`) | rules, blocks | evaluate_availability | bookings | days, midnight, overrides |
| listings (`api/routes.py`, `trust_routes.py`, `account_routes.py`) | `parking_spaces`, `verification_requests` | add, update, pause, archive, verify, review, delete account | bookings, plans | check, then act |
| host plans (`main.py`, `services/subscriptions.py`) | `host_subscriptions` | middleware limit, request_pro, set_plan | listings | check in another transaction |
| outbox (`services/notifications.py`, `models/booking_notification_events.py`, `workers/notifications.py`) | `notification_outbox` | queue_email, ORM listeners, deliver_queued | everything, SMTP | crash between sending and committing |
| sessions and accounts (`services/auth.py`, `api/account_routes.py`) | `users`, `refresh_tokens`, `password_reset_tokens` | register, login, refresh, logout, change and reset password, delete account | app | refresh without a lock, lost answers, a deletion beside handlers in flight |
| reviews (`api/marketplace_routes.py`) | `reviews`, `parking_spaces.rating` and `review_count` | create_review | listings, bookings | count and average without a lock |
| reports, blocks, vehicles, media | `safety_reports`, `user_blocks`, `vehicles`, images | create, review, upload | accounts | what a deleted account leaves behind |
| migrations and deployment (`alembic/versions`, `ops/deploy-backend.sh`, `ops/bootstrap-server.sh`) | `alembic_version`, the schema, the source tree and the image on the server | push, build, upgrade heads, archive_demo_seed, start, rebuild and start again | every table | databases of older releases, deployments that overlap or die and share one tree |
| app (`src/lib`) | tokens, idempotency keys, view state | API calls, single-flight refresh | backend | retries after timeouts |

What makes each correct: no window is sold twice; a booking is confirmed exactly
for a payment that was made, and money is never kept without a booking or an
owed refund; deadlines are enforced; a listing that is sold is there; the badge
is the administrator's verdict; an e-mail about every event goes out, once; a session
ends with its logout, its password and its account; a deleted account leaves nothing
active behind; the schema is what the stamp says. The file `PROJECT.json` lists the hazards line by line.

## Modules

| module | models | composition |
|---|---|---|
| `SlotLedger` | what the bookings table promises: each window is free, held, sold or released, and clashing windows are never taken together | abstract specification |
| `DirectBooking` | bookings, direct payments, both cancel endpoints, refunds, the deadline worker | `Ledger == INSTANCE SlotLedger` with `slot` computed from `bookings.status` |
| `DirectBookingProofs` | the theorems | extends `DirectBooking` |
| `StripeCheckout` | one booking paid through Stripe or the simulated ledger, with Stripe's sessions, events and refunds, and its rivals for the window | `Ledger == INSTANCE SlotLedger` over the booking and its rivals |
| `StripeCheckoutProofs` | the theorems about it | extends `StripeCheckout` |
| `Availability` | `evaluate_availability` step by step, and what its answer should mean slot by slot | |
| `Listing` | one listing between host, administrator, renters and account deletion | |
| `HostPlan` | a host's plan, and the middleware and handler that create listings | |
| `Reviews` | the reviews of one listing, and the count and average in its row | |
| `Marketplace` | a host, the host's listings, and the renters and administrators around one of them | `L`, `P`, `R` are INSTANCEs of `Listing`, `HostPlan` and `Reviews` that share the listing's row, the stays and the requests |
| `Outbox` | rows, writers and delivering workers | |
| `Sessions` | users, refresh tokens and reset links on the server, the token an installation of the app keeps, the requests between them | |
| `Account` | the deletion of an account beside checkouts, vehicle registrations and the handlers that write personal data | extends `Sessions` |
| `Migrations` | the chain of alembic revisions, and the deployment script that builds, runs and starts them | |
| `AvailabilityProofs`, `OutboxProofs`, `AccountProofs`, `MigrationsProofs` | the theorems about each | extend the module they are named after |
| `MarketplaceProofs`, `CapacityProofs` | the theorems about one listing and its stays and reviews; about the number of a host's listings | extend `Marketplace`; `CapacityProofs` extends `MarketplaceProofs` |
| `MC*` | constants for TLC | extend the module they are named after |

### Conventions

* **One action is one transaction**, or one call to Stripe or SMTP. A handler that
  commits several times, or reads a row without a lock and writes it later, is
  cut there; what it keeps in between is an entry of `req`, `hook`, `session`,
  `request`, or, for the worker's batch, `snap` and `locked`. Two reads of one
  handler are one step where nothing can tell them apart.
* **SQLAlchemy writes only the columns that differ from what the session read.**
  In `StripeCheckout` and `Listing` this is `Flush`; elsewhere the code overwrites.
  A `SELECT ... FOR UPDATE` of a row the session already holds locks the row but
  does not refresh the object (no handler asks for `populate_existing`), which is why
  `Listing!BookInsert` does not look at `space` again.
* **Locks.** A transaction that is one action needs none. Locks held over several
  actions are explicit: `Unlocked` (the worker's batch), `RequestFree` (a
  verification request under review), `Locked` (in `Outbox` the rows a worker
  delivers, in `StripeCheckout` the booking under cancellation), `LinkFree` (a reset link in use).
* **Abort, RequestDies, WorkerDies, CancelDies, ProcessDies** stand for a crash, a lost
  connection or a rolled-back transaction at that point.
* **Histories** (`late`, `crossed`, `doubled`, `drifted`, `unchecked`, `excused`, `Late`,
  `twin`, `startedFrom`) record that a hazard has struck: a stale row was written over,
  two handlers crossed, an answer was lost. No action reads them. A property that
  a hazard breaks says with them that nothing else does; no step is left out for it.
* Names of actions follow the functions; `PROJECT.json` "map" gives the lines.
  The operators with a comment or a name such as `ConstraintMissing`,
  `ExpireAlways` or `NoneLocked` just before a definition are bugs that code
  might have; putting one in the place of the definition must break a property.

### State and code

* `DirectBooking`: `booking`, `payment`, `access` are `bookings.status`,
  `payments.status` and "access code and pass token are set"; `hold` and `due`
  count down to `payments.expires_at` and `host_response_due_at`; `host` is the
  owner with their `host_direct_payment_settings`. `CheckoutLookup`, `CheckoutInsert`, `CheckoutPay` are the
  three parts of a checkout, `CheckoutRetry` the idempotent return of an existing
  booking. `SubmitReference` and `SetDeadline` are the two commits of a submission;
  `WorkerSelect` and `WorkerExpire` the poll, whose first commit releases every lock.
  `late` has the bookings that a checkout has expired from an outdated reading.
* `StripeCheckout`: `pay`, `current`, `intent`, `live` are the columns of the payment, `sess`,
  `refunds`, `events` Stripe's side, `seen` the table of processed events, `rival[x]` what
  each other booking of the window does to it: not yet made, active, or over. A session is
  "processing" while a delayed payment method has not settled. `cancel` is the request
  that cancels, with what it read of the payment; it stops at each of its awaits
  (`CancelRead`, `CancelLooks`, `CancelExpires`, `CancelUnpaid`; `RefundAsked`, `RefundPaid`,
  `CancelRefunded`). `late` is who has written over a row that had changed since: "request", "delivery".
* `Availability`: time is local wall-clock slots; the last slot of a day begins at
  23:59. A step matches the rule of one day segment or makes the two queries.
* `Listing`: `space` is `status`, `is_verified`, and whether the owner's account
  is still there; `booking` says only whether a booking counts as active. `crossed` has
  the bookings committed between the look of an archiving handler and its own commit, `doubled`
  remembers that two verification requests were filed side by side.
* `HostPlan`: `listed` and `sub` are the rows; a `session` is in the middleware
  ("subscribing"), or has been let through to the handler ("admitted"). `InsertFails` and
  `CheckFails` are the exceptions the middleware swallows, of its insert and of
  anything else; `unchecked` counts the latter.
* `Reviews`: `review` is the table, `shown` the two columns of the listing, `author`
  what a request has read and inserted so far. `drifted` is a history variable: did the
  last review to commit overlap another?
* `Marketplace`: a booking of `Listing` is a stay of `Reviews` (`Taken`); `Listing`'s row is the
  first listing of `HostPlan` (`StillListed`); a request is in one handler at a time
  (`Free`); `swept` is what the deletion of the account has read of the other listings.
* `Sessions`: a token is live, revoked, lapsed or gone (its row deleted); `store` is the
  app's secure storage, 0 when signed out; a `call` remembers which device waits
  for it, or that none does any more. Each token carries the number of the password its session was
  opened with, or `Late` if its issue overlapped a change. A device may sign in while it has a
  token; the new one overwrites the old (`Overwritten`), which then no device knows. A device
  that loses its storage and signs in again is a second installation.
* `Account`: `booked` is whether the user has an active booking, `rides` the vehicles that bookings
  of any age refer to, `added` whether there is a vehicle the deletion has not read. `edit` is whether
  handlers are in flight that found the account active: any number of them, and each may write anything,
  so one flag stands for all. The deletion is a `call` like the others and may read, take its snapshot and
  commit at any moment between their steps. `profile` is the personal data in the user's row.
* `Migrations`: `version` is `alembic_version` with the two revisions that once were both 0010
  (`0010_launch_operations`, `0010_marketplace`, now `0011`) as 10 and 11 and the last one
  as 12; `schema` is the set of objects they create; `deploy` is each run of the script, with what
  its open transaction has made. `tree` is the source on the server, which a push replaces, `image` what was last built
  from it, `release` what serves, each by the head of its revisions; `Restart` is the second
  start, which builds again. `startedFrom` says whether what serves was built from the tree
  the deployment had brought, `twin` that a database was stamped 0010 by the other file.
* `Outbox`: `status` per deduplication key; `mailed` counts what the SMTP
  server accepted, whatever the outbox says.

## Runs

| run | instance | shows |
|---|---|---|
| `direct_races` | 2 bookings of one window, one of them free of charge, 2 requests, batch 2, fair worker | the refinement `ImplementsLedger`; no double booking, confirmed means paid, money and refunds are kept, a confirmation is final, each but for the late writes named in the property; every deadline is enforced (`DeadlineEnforced`) |
| `direct_batch` | 2 neighbouring windows, batch 2 | fails: the worker expires a booking the host has just confirmed |
| `stripe_rows` | a rival, 1 request that may retry, 2 sessions, every kind of event, both cancel endpoints, both payment modes | no window is sold twice, nothing is confirmed without a charge; booking, payment row and Stripe agree until somebody writes late; the refinement `ImplementsLedger` |
| `stripe_live` | the same with 1 session, declined cards and fair webhooks | a refund at Stripe ends the booking although the cancelling request may die |
| `stripe_charge` | 2 requests, 2 sessions, fair webhooks | fails: money is taken that nothing answers for |
| `availability_days` | 2 days of 4 slots, all schedules, blocks, bookings | the answer is exactly "open and free in every slot"; a uniform price is quoted |
| `marketplace` | 5 listings, 2 requests, 3 bookings, 2 verification requests, limits 1 and 2, 1 failing check | listing, bookings and badge agree but for the overlaps named; verdicts are final; creations overrun the limit by less than their number and the failed checks; a third review repairs what two racing ones have left; a deleted host's listings do not multiply |
| `listing_paused` | a checkout overlapping a status change | fails: a paused listing is booked |
| `accounts` | 1 device, 2 requests, 2 tokens, 2 links, 2 changes of password, lost connections and restarts, handlers beside a deletion | sessions end with their password, a logout or the account; a link works once; a deleted account has no booking |
| `accounts_refused` | 1 device, 1 request, a past booking | fails: a user whose only booking is over cannot delete the account |
| `migrations` | 52 databases of older releases, with and without demonstration listings (103 initial states), 2 deployments of 2 releases, 1 crash, 2 downgrades | the stamp tells the schema; what serves finds its revisions, unless it was built from the next push's tree; every database gets to what was pushed |
| `outbox_crashes` | 2 workers, 2 requests, an e-mail of each kind, 1 crash | at most one duplicate per crash; no event without its e-mail; every e-mail is settled |

`TypeOK` of `Availability`, `Migrations`, `Outbox` and `StripeCheckout` documents their variables and is not
an invariant of a run (that of `StripeCheckout` is proved); the other type invariants are checked.

### What the failing runs and the models show

* **direct_batch** (`launch_operations.py:425`): `expire_pending` commits inside the
  loop, the remaining rows are unlocked but still in memory as "pending".
* **stripe_charge** (`payments.py:277`): the existing booking is used whatever its status, and a
  second session replaces the one being paid in; the webhook for the payment then fails
  with 409 for ever or finds no payment, and `pay` never becomes `paid`, so that a refund cannot be asked for.
* **listing_paused** (`payment_routes.py:97`, `booking.py:81`): the listing selected
  under the lock is the object loaded before it.
* **accounts_refused** (`account_routes.py:396`): `delete_account` checks for active bookings
  only, and then deletes the vehicles; `bookings.vehicle_id` (`0001:179`) of a past booking refuses that, and the
  request ends in a server error. The same key is what keeps `NoBookingOfDeleted`:
  a booking made while the deletion goes on fails, or makes it fail.
* Properties that the modules state and the code does not have, without a run of their own:
  - nothing expires a booking whose renter never submits a payment, and the
    exclusion constraint keeps its window (`HoldReleased`;
    `docs/PAYMENTS.md:55` says expired payments release the hold);
  - `POST /api/bookings/{id}/cancel` leaves a paid payment paid, no refund is asked for, and the payments' own
    cancel endpoint answers 409 from then on (`CancelRequestsRefund`; compare `docs/PAYMENTS.md:56`);
  - the profile image survives the deletion of the account, and a name that `update_me` writes after it, having
    found the account active before (`ProfileAnonymised`; compare `account_controls_screen.dart:153`).
    The bank details of `host_direct_payment_settings`, review comments and payment references survive too.
* What the runs reach and the properties except, by name:
  - `LateRetry`, `late` of `DirectBooking`: an idempotent retry that read "pending" expires a booking the host has
    confirmed meanwhile, if the host has switched direct payments off (`direct_payments.py:130`);
  - `LateTimeout`: the worker's late write of `direct_batch`, which also loses a refund that is owed;
  - `LateRelease`, `late` of `StripeCheckout`: the same by a checkout whose Stripe call fails (`payments.py:333`) and
    by a delivery that read the booking as pending;
  - `LateConfirmation`: a webhook that has read "pending" confirms a booking that is cancelled before it commits, so that a
    released slot is sold again, though never one that another booking holds. After such a delivery
    the ledger may show a refund of another charge, and codes may outlive the booking (`late`);
  - `crossed`: a booking committed between the look and the commit of an archiving or a deletion has an archived listing;
  - `doubled`: of two verification requests filed side by side the rejection of one takes away the badge that the approval
    of the other gave;
  - `unchecked`: a request whose plan check fails is let through (`main.py:99`);
  - `Overwritten`: `/login` and `/register` are reachable signed in (`router.dart:70`), and signing in again leaves
    the first token live for thirty days after the logout;
  - `excused`: so does a logout that overlaps a refresh (`profile_screen.dart:288`), or a refresh whose answer is lost;
  - `Late`: a login or refresh that overlaps a change of the password survives it
    (`account_controls_screen.dart:133` says all sessions end);
  - "added": a vehicle inserted beside the deletion of the account is not deleted, and a deleted account can have a booking with it;
  - `Promised`: a listing created or reopened while the account is deleted stays active; no more do than requests were under way;
  - `startedFrom = "other"`: the second start of a deployment (`deploy-backend.sh:82`) builds and serves the tree that the next push
    has copied, before that push's migrations;
  - `twin`: a database stamped 0010 by the other file of that name reaches the head without the
    tables of the launch revision.
* Requests for a reset link that overlap leave one usable link each; an account deleted with a pending verification can
  still be given a badge, which nobody sees because the listing is archived.

### Bounds

Two bookings suffice for a clash, and handlers of a third touch no other row.
One rival has the window or leaves it; two never have it together, by the same constraint.
`WorkerBatch = 2` is the least batch with a row behind the first commit;
`HoldUnits`, `ResponseUnits` and the saturating clock put the end of the hold
before, at and after the deadline, which a further submission moves. Two requests are a race, of two renters or of
a checkout and its retry. In `stripe_rows` the one checkout request races deliveries, cancellations and Stripe;
two checkouts that replace each other's session are in `stripe_charge`. `MaxSessions = 2` has a stale session beside
the current one; `stripe_live` has one, because the refund concerns the one that was paid.
`Declines` and `PlainCancel` switch off what a run does not need: the event of a declined card finds a payment only by
the intent that a confirmation has stored, so it is in `stripe_live`, and `stripe_rows` has the delayed methods. Two days and
four slots have a window inside a day, up to and across midnight, and two rules
with different overrides; one obstacle at a time is enough because each is tested
alone. A crash in `Outbox` is bounded by `MaxCrashes`, which is part of
`MailedOncePerLife`.

In `Marketplace`, `focus` makes a behaviour about the plan, the listing or the reviews, which have only
the listing and its stays in common; within each every two handlers overlap. Two requests are a race; limits 1 and 2 and
four further listings leave room for the overrun, a failed check (`MaxUnchecked = 1`) and one more. The ratings 1 and 4 make
the two averages and their mean differ, and a third stay lets a review follow two that raced. In `Sessions` two tokens
are one in use and the one a refresh or a further sign-in issues; two links are one held by a request and a fresh
one; two changes of the password leave a link time to be used twice. `Handlers` names what is
written beside the deletion; the image, which it does not touch, is left to the reader. `accounts_refused` needs
no lost connection (`Offline = FALSE`). Two deployments overlap in `Migrations` because
the workflow cancels the one before (`cancel-in-progress`), of the releases 0011 and the one before it (11, 12); pushes
carry the main branch, which moves forward only (`tree' >= tree`), and two
downgrades pass the revision that repairs and the one before it.

Bookings, requests, sessions, deliveries and verification requests are symmetric where a run has no liveness property and
says so (`Interchangeable`). Deadlock is checked in `migrations`. Elsewhere people may stop, and each instance has
finitely many bookings, sessions, tokens and listings to use up.

### Fairness

Only machinery is fair, never a person or a request. The worker polls in an endless loop
(`workers/notifications.py`) and docker restarts it (`restart: unless-stopped`);
as it may die at any row, but not each time at the same one, the expiry of a row is
strongly fair; its polls need be weakly fair only. Time passes (weak fairness of `Tick`). Stripe repeats an event until it is
acknowledged, also at a moment when no cancellation holds the booking, so reading and writing a delivery is strongly fair;
a cancellation ends, in whatever way. An outbox worker is
weakly fair because its deaths are counted. That the worker's batch, or a delivery, succeeds in the end
is an assumption on the database and the network. The steps of a deployment
are weakly fair: it goes on unless it dies (`MaxCrashes`), and a failed one is repeated with
the next push. `UpgradeReaches` promises nothing while active bookings overlap, which the
constraint of 0002 refuses.

## Proofs

Every theorem holds for all values of the constants that satisfy the module's assumption: any
numbers of requests, bookings, devices, workers, deliveries, tokens, crashes. The assumptions
give the constants their types; what they say beyond that is that hold and response times are
positive, a day has at least two slots and a rule opens before it closes and ends within its day, both plan limits are
positive, the ratings are stars, that markers such as `NoBooking`, "nobody" or `This` are not values they stand beside, and that what is counted is finite (the outbox's `Keys`, and `Sessions` and
`Others` of `Marketplace`). Only two theorems suppose more, in their `ASSUME` and listed here under "if". The steps that lose something in the code are
all in the specifications the theorems are about; what they break is excepted in the property, by the
histories and actions named above.

| theorem | property | if |
|---|---|---|
| `DirectBookingProofs!TypeCorrect` | `TypeOK` | |
| `NeverDoubleBooked`, `ConfirmedAlwaysPaid` | `NoDoubleBooking`, `ConfirmedIsPaid` | |
| `LedgerImplemented` | `ImplementsLedger` | |
| `LedgerKeepsApart` | what the ledger promises, from `ImplementsLedger` alone | |
| `RefundRemainsOwed`, `MoneyIsHonoured`, `ConfirmationIsFinal` | `RefundStaysOwed`, `PaidIsHonoured`, `ConfirmedOnlyCancelled` | |
| `StripeCheckoutProofs!NeverDoubleBooked`, `StripeTypeCorrect`, `NoFreeConfirmation` | `NoDoubleBooking`, `TypeOK`, `ConfirmedIsCharged` | |
| `RefundsAreReal`, `PaymentsAreHonoured`, `CodesGoWithBooking` | `RefundIsReal`, `PaidIsHonoured`, `CodesOnlyWhileConfirmed` | |
| `ConfirmationStands`, `StripeLedgerImplemented` | `ConfirmedOnlyCancelled`, `ImplementsLedger` | |
| `AvailabilityProofs!AcceptsWhatIsFree`, `UniformPriceIsQuoted` | `AcceptsExactlyFree`, `UniformPriceQuoted` | |
| `MarketplaceProofs!VerdictStays`, `BadgeIsEarned`, `BookedListingStays` | `VerdictIsFinal`, `BadgeMatchesReview`, `ActiveBookingHasSpace` | |
| `AggregatesAreRepaired`, `AggregatesStayPlausible` | `AggregatesRecover`, `AggregatesPlausible` | |
| `CapacityProofs!MarketplaceTypeCorrect` | `TypeOK` | the bookings are finitely many |
| `OverrunIsBounded` | `OverrunBounded` | one of the limits is above 1 (`core/config.py:19`: 1 and 10) |
| `DeletedHostHasStopped` | `DeletedHostStops` | |
| `OutboxProofs!NoDuplicateMail`, `SentMeansAccepted`, `NoEventWithoutMail` | `MailedOncePerLife`, `SentWasMailed`, `EventHasMail` | |
| `AccountProofs!AccountTypeCorrect`, `OldSessionsAreOver`, `StoredTokenIsUsable`, `NothingIsLeftSignedIn`, `DeletedHasNoBooking`, `LinkIsUsedOnce` | `AcctTypeOK`, `OldSessionsEnd`, `StoredIsUsable`, `SignedOutLeavesNothing`, `NoBookingOfDeleted`, `LinkUsedOnce` | |
| `MigrationsProofs!StampIsTrue`, `NewReleaseIsReady` | `StampTellsSchema`, `NewReleaseServesHead` | |

### The arguments

**Direct bookings.** `InvariantHolds` has
`IInv == TypeOK /\ NoDoubleBooking /\ ConfirmedIsPaid /\ RowsExist /\ SnapshotSound`.
Disjointness is kept because only `CheckoutInsert` turns a row active from "none" and
`Confirm` starts from an active one. For `ConfirmedIsPaid` one must know that the worker's
late `host_timeout` does not hit a row that stays confirmed: whatever it read
as pending it also expires, and what it read as ended has ended for good, which is
`SnapshotSound`. For the refinement, an expiry must come from an existing row, which is
`RowsExist`. Both are exactly what stale objects in a session are about. `LedgerImplemented` maps initial
states to initial states and each step to one of the ledger's or a stutter. `SnapshotFresh` says that
while the batch is locked its rows are as the worker read them and still await the host; so a confirmed booking or a
refund that is owed can only be lost by a write after the lock has gone, which is `LateTimeout`, or by a retry whose
reading is out of date, `LateRetry`. `RowKind` lists what a step may do to one booking and its payment; `PaidIsHonoured`
is inductive by it for the bookings that are not in `late`.

**Stripe.** `NoDoubleBooking` is inductive as it stands: each of the four steps that activate a
booking (an insert, the simulated confirmation, a webhook's confirmation, the rival's
booking) is accepted by the exclusion constraint in the transaction that writes it, so
what was read earlier does not matter. `StripeInv` holds however late anybody writes: sessions are opened in order
and never reused, events say only what has happened, whatever a delivery has read, what it writes is what its event
says, it confirms or releases only what it has read as pending (`ReadsPending`), requests, deliveries and cancellations
begin with a booking (`BookingFirst`), and a cancellation asks for a refund only of a payment it read as received
(`CancelSees`). That gives `ConfirmedIsCharged`, and with it each step is an insert, an end, a sale, or a sale by somebody whose
reading is out of date (`Inserted`, `Closed`, `Sold`, `SoldLate`), which is what `StripeLedgerImplemented` and
`ConfirmationStands` need. `FreshInv` is what holds until a delivery writes late, however late requests and
cancellations are: a refund under delivery is that of the stored intent (`RefundsCurrent`), and an intent comes with the
confirmation, after which the booking is never pending again (`ChargedOnce`). `CalmInv` holds until anybody but a
cancellation writes late: codes go with the confirmation (`CodesFit`, `CodesRead`, `PaidHasCodes`), and no request goes on with a payment
it has read as received (`NeverRetriesPaid`). `AgreeInv` joins the three; a cancellation that is overtaken at one of its
awaits, or dies there, keeps it.

**Availability.** The loop walks through day segments, the property speaks of single slots. The invariant
is that the slots before `cursor` are open and `matched` holds the overrides of their
days. The lemmas below it do the arithmetic: a slot is its time of day after the midnight of its
day (`SlotOfDay`), slots between two midnights are of one day (`SameDay`), a rule that covers a segment
is open in each slot of it (`CoversMeansOpen`), also in the last one, which begins at 23:59; and two windows overlap in
the half-open sense exactly if they share a slot (`OverlapsMeansShared`).

**Listings.** `ListingSteps` and its kin show that a step of `Marketplace` is, for the listing, a step of
`Listing` or none, so that the rest is about `Listing` alone. `RequestsHeld` (a request under review is held by one
session and still pending) carries the verdicts; `BadgeInv` says that a badge, on the listing or in a copy somebody goes by, comes from an approval,
and, until two requests have been filed side by side (`doubled`), that at most one is pending
and that meanwhile nobody's copy has the badge, because a flush writes it only where it differs from that copy; `BookedInv` that
whoever books has seen a listing that is there, and whoever archives or deletes no active booking but those in `crossed`. A review
that overlaps no other has recomputed from the whole table when it commits (`Recomputed`).

**Reviews.** What the listing shows may be the numbers of any review that committed, each column for itself, because a flush
writes only what differs from the row as read. `PlausibleInv` therefore says of each column, and of what every
request has read and computed (`Computed`, `ShownFits`), that it is at least one, at most the number of reviews, or between two ratings
that were given; this survives more reviews (`MoreReviews`), and the first commit replaces whatever the listing started with
(`FirstReview`). That an average lies between the least and the greatest rating is an induction over the sum of a set.
The library's induction theorems cannot be used for it, but its well-founded minimum can: `SumExists` takes the least
size of sets whose sum has no value, `SumBounds` the least size whose sum is out of bounds, and one
element less gives the contradiction. Rounding to one decimal then keeps the average within whole ratings (`RoundedMean`).

**Plans.** Live listings and creations under way are counted together (`CapacityInv`),
with one more while a change of status may bring back the archived first listing: a creation that
commits moves one from the second to the first, an admission needs a count below the limit, and the others
in flight are one fewer than the requests. Before there is a subscription nothing is admitted (`NoPlanYet`). If an
administrator then inserts the row, all waiting requests fail to and are admitted unchecked, beside a listing
older than the plans: with both limits 1 that would be one too many, hence the hypothesis. A request whose check failed is
counted in `unchecked` when it is let through, so the bound moves with it. After the deletion a listing can only come
from a request under way, a creation or a change of status (`Creations \cup Reopenings`).

**Outbox.** Batches hold queued rows and are disjoint because picked rows are locked (`BatchesLocked`); an e-mail is
accepted as often as there were crashes, and once more if its row has been attempted
(`MailedCounted`); a row seen by a request stays (`SeenRowsStay`), as rows are never deleted.

**Accounts.** A step first is put into one of a dozen kinds (`Kinds`), each with what it does to tokens, requests and
stores; the histories (`TokenHistory`, `CallHistory`, ...) say what any kind may do to one of them.
`Ownership` then follows each refresh token: tokens are issued in order, a token is with one device
or on its way to one (`OnePlace`), and what has spent a stored token is an answer on its way
(`SpentIsKnown`). `Reach` says what a device may wait for at once: one way of leaving, one
refresh or logout, a sign-in only alone, unless the device is excused, so that a live token is stored, on its way, or has
been overwritten by a further sign-in, when it is nobody's (`LiveIsReachable`). `OpenedInTime` dates the sessions and those being opened, `LinksHeld` gives a link to one reset,
`Deletion` says that an active booking refers to a vehicle, and none of a deleted account to one that the deletion had read:
the deletion erases a vehicle only if no booking refers to it, and from then on a booking that would fails.

**Migrations.** At most one deployment alters the schema (`OneAlters`), it still has the stamp it started from
below it (`BaseHolds`), what its revisions were to create is there or made (`MadeAll`), and what a
revision inspected is still so unless the stamp has moved (`SawCurrent`), in which case its commit
fails. Different revisions create different objects, except 0003 and 0004 (`ObjectsDiffer`), so that no
revision is taken for another. For `NewReleaseServesHead`, `Upgraded` follows a deployment from its push: what it brought is no newer
than the tree, nor, once built, than the image, nor, once upgraded, than the stamp; the tree only moves forward, so what
starts from an image or tree that others have replaced is not what the deployment brought, which is `startedFrom`.

### Only model-checked

* Liveness: `DeadlineEnforced`, `RefundEndsBooking`, `QueuedIsSettled`, `UpgradeReaches`. They rest on
  fairness, which needs ENABLED, and that the prover does not have.
* The properties that fail.

## Not modelled

* Amounts, fees, currencies, receipts, e-mail texts, image files, routing, the data columns of a
  listing, types and defaults of columns, the checks and rollbacks of images around a deployment.
* Connect onboarding and `account.updated`; the clock change in `Europe/Berlin`;
  the deletion of an account's outbox rows; `active_until` of a subscription, which nothing reads.
* Blocks between users are single rows behind a unique constraint. The review of a report locks its row
  like that of a verification request, so that `VerdictIsFinal` stands for both. Social
  sign-in refuses every call.
* A decision on a report sends no e-mail (`ugc_routes.py:154`; compare
  `docs/TRUST_OPERATIONS.md:30`), and an image whose automatic review failed stays pending:
  nothing looks at it again. Both are the absence of code.
* Access tokens are not state: they stay valid for up to 15 minutes after a logout or a
  change of the password.
* Lock-order deadlocks (cancel locks booking then payment, decide payment then booking) end in a rolled
  back request, which the models have as an abort.
* Demonstration listings are followed until `archive_demo_seed` archives them.
* The app's screens are a view of the backend's state; its client is in `Sessions`, and in the
  other models as requests that may come twice and concurrently.

## Plan

1. Done: ledger, direct bookings, Stripe, availability, listings, plans and reviews
   and their composition, outbox, sessions, accounts, migrations.
2. Done: proofs of every safety and action property of a passing run.
3. Done: `StripeCheckout` as an implementation of `SlotLedger`.
4. Done: no bound on what overlaps in any specification; what stale writes break is excepted by name, in
   the runs and in the theorems.
5. Next: Connect onboarding; a second booking paid through Stripe, instead of rivals that only take the window.
