# TenantFlow API: TLA+ models, checks and proofs

TenantFlow is a multi-tenant API: FastAPI handlers over PostgreSQL (one
transaction per request), Celery workers over Redis, and three outside
services (Stripe, an S3 store, a mail server). This directory models the parts
of it where requests, workers and failures meet, checks them with TLC and
proves the central properties with TLAPS.

## 1. Inventory

| Part | State | Operations | What is hard |
|---|---|---|---|
| Request transaction (`db/session.py`) | open writes | commit, roll back | the response is produced before COMMIT |
| Idempotency keys (`infra/idempotency_db.py`) | `idempotency_records` | acquire, complete, expire, clean up | concurrent retries, clean-up between two statements, crash with a marker |
| Webhook delivery (`webhooks/events.py`, `workers/tasks.py`) | `webhook_deliveries`, Celery messages | emit, load and count, POST, settle, retry | publish before commit, no lock during the POST, stale ORM object, lost workers, shared retry budget |
| Webhook administration (`webhooks/router.py`) | endpoints | create, deactivate, resend | resending what is still running |
| Login rate limiter (`infra/rate_limit.py`) | a Redis hash per address | check | wall clock, rounding, expiry |
| Refresh tokens (`auth/service.py`) | `refresh_tokens` | login, refresh, logout, clean up | the same token twice, logout against refresh, failed commit |
| Invitations (`organizations/service.py`) | `invitations`, mail jobs | invite, accept, expire, mail | unlocked "expired" write, mark rolled back by its own error, job published before COMMIT |
| Memberships, roles (`organizations/service.py`, `core/permissions.py`) | memberships | create, join, change role, remove, check permission | two administrators, permission read at the start of the request |
| Billing (`billing/service.py`) | `subscriptions`, `stripe_events`, what Stripe remembers | Checkout, Stripe events, status, portal | duplicated and reordered events, first row created twice, key forwarded without its scope |
| Projects, tasks, attachments | rows and their events | create, update, delete | parent deleted under a child, stale updates, deletes sent only at COMMIT |
| Lists (`core/pagination.py`) | the client's cursor | next page | the table changes between two pages |
| Audit, security, observability, shell | – | – | see `components` in PROJECT.json |

Interaction: every handler runs inside the request transaction; handlers of
projects and tasks call `emit_event`, which inserts deliveries and publishes
jobs; workers open transactions of their own; the hourly clean-up deletes
expired idempotency records and refresh tokens and expires invitations. The database rows are the only
state that API replicas and workers share, apart from Redis for messages,
metrics and the limiter.

Properties that make each part correct: an idempotency key performs its effect
at most once and replays faithfully; a delivery's attempts are counted, bounded
and end in a final state; the limiter grants no more than its quota over any
interval; a session has exactly one live refresh token until it is logged out
or expires; an organization has one owner, and nobody joins it but by a mailed
invitation of his own, used once; a Stripe event is applied once, in the end,
and undoes nothing else; rows never leave their organization or lose their
parent, and the announced events agree with them; a listing shows every row
once.

## 2. Modules

| Module | Models | Remarks |
|---|---|---|
| `IdempotentStore` | the promise of an idempotency key | abstract: no rows, locks or transactions |
| `Idempotency` | `acquire_idempotency`, `complete_idempotency`, the handlers around them, `get_session`, the clean-up | implements `IdempotentStore` |
| `WebhookDelivery` | `emit_event`, `deliver_webhook_task`, `retry_delivery`, `deactivate_webhook`, Celery | limits 5 and 5 as in the code |
| `RateLimit` | the Lua token bucket, Redis time and expiry | integer arithmetic, scaled by the window, and the sign of the rounding error |
| `RefreshTokens` | `issue_token_pair`, `rotate_refresh_token`, `revoke_refresh_token`, clean-up | transactions with row locks |
| `Organizations` | the five operations of `organizations/service.py`, permissions, `send_invitation_task`, the clean-up | one organization; transactions with row locks |
| `Billing` | `process_stripe_event`, `get_or_create_subscription`, Checkout, status, portal | Stripe is external |
| `TenantResources` | create, update, delete of projects and tasks, `create_upload`, `record_audit`, event types | constraints, row locks and cascades of PostgreSQL |
| `Pagination` | `list_projects`, `list_tasks`, the cursor | one listing over a changing table |
| `MC*` | symmetry sets and event contents for TLC | |
| `*Proofs` | inductive invariants and theorems | |

How state and actions correspond to the code:

* **Idempotency.** `record` is the committed table, `draft[c]` the row that
  request `c` has inserted and not committed; `pc` walks through
  `acquire_idempotency`, the handler's body, `complete_idempotency`, the return
  and the end of the transaction. Locks are derived: an open insert
  (`InsertPending`), a row lock of `SELECT ... FOR UPDATE` (`RowLocked`), an
  uncommitted delete (`doomed`). PostgreSQL runs at READ COMMITTED, its default.
  The body of a handler (create an organization, invite, check out) is one
  effect that succeeds or fails. `life` and `born` are history: how often a
  slot was cleaned, and in which life an effect was made.
* **WebhookDelivery.** A job is a Celery message; its `phase` is the point
  between two steps of `deliver_webhook_task`. `count` and `seen` are the
  attempt count and state held by the ORM object, which is loaded once: the
  session does not expire on commit and `session.get(..., with_for_update=True)`
  locks the row without refreshing a loaded object, so the second transaction
  decides on old values and writes `state` only if it changes. A worker lost
  before it acknowledges leads to a redelivery (`Crash`) or, after the retry has
  been published, to two messages (`Duplicate`). An exception the task does not
  catch loses the job (`Fault`); a RuntimeError is retried (`FaultRetried`).
* **RateLimit.** A level of `tokens * Window` is an integer, so refill and cost
  are exact in `level`. The script computes in doubles; `drift` is the sign of
  the error of the stored one. At a refill it is any sign that rounding can
  produce (`Rounding`): none when the bucket is new or has overflowed, not
  above the capacity, the old one when no time has passed. `tokens >= 1` then
  depends on it only when the exact level is one token (`Enough`), and the
  quotient under `math.ceil` may land just above a whole number (`RetryAfter`).
  The size of the error is left out: it stays below one unit of `level`, that
  is `1 / Window` of a token, for 2^51 / (Capacity * Window) refills without a
  full bucket in between, some 10^9 for the limit of the login. The script is
  atomic in Redis, so a call is one action. `Observe` restarts the observed interval;
  `since`, `granted`, `skew` and `promise` are history.
* **RefreshTokens.** `tx[w]` holds the writes of an open transaction; the row
  lock of the presented token is held until it ends. Requests that are refused
  change nothing and have no action. The clean-up commits the deletion of a set
  of tokens that had expired.

* **Organizations.** `member` and `inv` are the committed rows, `tx[w]` an open
  transaction with what it has read: the membership row it means (a row is
  identified by the invitation that created it, so a member who was removed and
  returned has another row) and the old invitation it will expire.
  `accept_invitation` locks the invitation when it reads it; `invite_member`
  does not. The mail job is published in the middle of the transaction; a token
  is known only once it is mailed. A DELETE is sent at COMMIT and is harmless
  when the row is gone; an UPDATE of a missing row rolls back. Users and e-mail
  addresses are one set; creations and invitations are also idempotent
  (module `Idempotency`), which is left out here.
* **Billing.** `sub`, `marked` are the committed rows; `tx[w]` has the row as
  read (`seen`) and as the ORM object is now (`new`), and COMMIT writes the
  columns that differ. A Checkout call is a key of an organization; `stripe[k]`
  are the parameters Stripe remembers for the forwarded key. `done` stands for
  the completed idempotency record. A portal request without a customer rolls
  its new row back. `applied`, `twice` and `refused` are history. A customer
  belongs to one organization (assumed of Stripe), so that
  `uq_subscriptions_stripe_customer_id` never refuses.
* **TenantResources.** The three tables are one function `row` from ids to
  records. The action named for an endpoint reads and opens the transaction,
  `Write` is the flush with its constraints and waits, `Commit` ends it and
  sends a DELETE with its cascade. `WaitsFor` lists the lock conflicts,
  including the one between a rename (`name` is part of a unique key) and the
  key-share lock of a child. `log` is the set of events about a row,
  `members` the memberships as an environment.
* **Pagination.** A page is one action over the committed rows. ORDER BY and
  LIMIT are expressed by counting the rows before a row. `created_at` comes
  from the clock of the inserting process before its COMMIT, so a row may appear
  with any value. `steady` is history: the rows that matched ever since the
  first page.

The definitions whose comment starts with "Faulty variant" are plausible bugs
used to show that the properties can fail; no specification uses them.

## 3. Runs

| Run | Checks | Result |
|---|---|---|
| `idempotency` | `TypeOK`, `RecordHasResource`, `OneResourcePerLife`, `ReplayFaithful`, `Implements`, `EveryCallEnds` | hold |
| `webhook_safety` | `TypeOK`, `PostsCounted`, `DeadIsJustified`, `AttemptsBounded` | hold |
| `webhook_live` | `EventuallySettled`, `EveryJobEnds` | hold |
| `webhook_delivered` | `DeliveredIsFinal` with two jobs | violated |
| `webhook_invisible` | `EventuallySettled` with two early runs | violated |
| `rate_limit` | `TypeOK`, `QuotaBound`, `RetryAfterHonest` | hold |
| `refresh_tokens` | `TypeOK`, `OneLiveToken`, `NoFork`, `LogoutIsFinal`, `SessionKept` | hold |
| `organizations` | `TypeOK`, `OneOwner`, `OnePending`, `TokenUsedOnce`, `MailedIsCommitted`, `JoinsByInvitation`, `SettledInvitation`, `InvitationSettles` | hold |
| `billing` | `TypeOK`, `AppliedOnce`, `SessionIsOwn`, `OnlyAssignedChange`, `EveryEventApplied` | hold |
| `billing_retry` | `CheckoutRetrySafe` | violated |
| `resources` | `TypeOK`, `TenantIntegrity`, `Announced`, `UntouchedColumnsKept` | hold |
| `pagination` | `TypeOK`, `ListingExact`, `ListingEnds` | hold |

Run one with `tlc -workers 2 -config Idempotency.cfg MCIdempotency`.

What some of them show:

* `rate_limit`: rounding never grants a token early, because exact levels are
  multiples of `1 / Window`; it can withhold one that is just complete. The
  promise of a 429 therefore holds one millisecond after Retry-After, not at
  that very millisecond. With the limit of the login (10 per 60 s): emptied at
  0, refused at 1000 ms with Retry-After 5 (1/6 of a token is stored), refused
  again at 6000 ms with 1 - 2^-53 tokens and Retry-After 1, served at 6001 ms.
* `organizations`: whatever two administrators, an invited user, the mail
  worker and the clean-up do at the same time, there is one owner, an address
  has one pending invitation, a token is used once and is never mailed for an
  invitation that was rolled back. `SettledInvitation` names the one way in
  which "accepted" can be overwritten: `invite_member` has read the invitation
  as pending and expired before an acceptance that started in time commits, and
  then writes "expired". The membership stays.
* `billing`: the marker and the change of a Stripe event are one transaction,
  so an event that loses a race or fails is not lost; two different events that
  meet keep each other's columns. Equal keys of two organizations meet at
  Stripe, but the parameters name the organization: the second is refused and
  never gets the session of the first. Out-of-order events are applied in the
  order of arrival; the code does not promise more.
* `resources`: the SELECT that validates a parent is not enough; together with
  the composite foreign keys no child survives its parent or crosses an
  organization. An assignee has been a member, and may have been removed since.
  A request that changes nothing takes no lock and may announce an update after
  a deletion; `Announced` says what does hold.
* `pagination`: ties on `created_at` at the end of a page, rows that vanish
  (the row of the cursor included) and late rows neither repeat nor hide a row
  that matched all the time.

**Bounds.** Idempotency: three requests on two slots with two payloads, so that
a winner, a replay or mismatch and a request of the next life meet on one slot
while the other slot is independent; the theorems cover any number. Webhooks:
the liveness and violation runs use the code's own limits (5 and 5). The safety
run has three jobs for one delivery (one emitted, one resent, one duplicate)
with limits of 3, which keep the order of the limits of the code and its
combinations with a crash and a fault within reach. `MaxInvisible` bounds the
runs that find no row before the emitting request ends, `MaxCrashes` and
`MaxFaults` the failures; one of each is enough to reach every failure point
once. The rate limiter uses a bucket of two tokens, a window of three seconds
of two milliseconds each and a clock of fifteen milliseconds, longer than the
two windows after which the hash expires; the proofs cover every size. Refresh
tokens: five tokens allow a chain of three next to a second session, and three
open transactions. Organizations: a founder and one other user, two
invitations (the second repeats the first, or is for a member who was removed),
two transactions at a time, invitations as administrator so that the other user
can act too, one retry of the mail. Billing: a completed Checkout, an update
with a plan and a failed payment known only by its customer, for one of two
organizations; the other kinds of events differ only in the columns they
assign. `billing_retry` needs two keys of one organization. Resources: two
projects and two names in two organizations, so that renames collide and
tenants meet; one task and one attachment are enough for a cascade of two
levels. Pagination: four rows, two time stamps (at least two rows tie), pages of
one or two, from every initial table.

**Stopping.** The webhook and refresh-token runs switch the deadlock check
off: jobs and tokens are finite sets, and the system rests when all are used.
So do `organizations` (invitations are used up) and `pagination` (the listing
has ended and no new id is left).

**Fairness.** Idempotency: strong fairness of each request's steps, because
PostgreSQL grants a lock to its waiters in turn, and weak fairness of the
clean-up; crashes, expiry and the start of a clean-up are never required.
Webhooks: weak fairness of the emitting request, of each job (workers keep
consuming) and of an open resend; nobody has to press "retry", and failures
are not required. A request may still be aborted in every fair behaviour.
Organizations: transactions end, the worker consumes its queue and the hourly
clean-up runs. Billing: strong fairness of each request, since PostgreSQL wakes
the waiters of a unique key, and of the delivery of each event, since Stripe
repeats an event that was not answered with 2xx (for three days; a longer
failure is outside the model). Pagination: the client asks for the next page.

**Three findings.**

1. `webhook_delivered`: with two jobs for one delivery (a resend while the first
   job runs, or a redelivered message) both may be past the check of `state`
   when one records "delivered"; if the other's POST fails it writes "retrying"
   over it and the delivered webhook is sent again. `retry_delivery` says
   "Delivered webhooks are not retried".
2. `webhook_invisible`: a job has five Celery retries for everything, while the
   row is declared dead after five counted attempts. Each run that finds the
   row uncommitted uses up a retry without counting an attempt. One such run is
   harmless (`webhook_live`); after two the job ends with four attempts and the
   row stays "retrying", although the README promises a dead state. Nothing
   scans `next_retry_at`; an administrator can still resend.
3. `billing_retry`: Stripe creates a session for a key, the request's own
   transaction then fails, and before the client repeats the call a Stripe
   event (of an earlier Checkout) sets the organization's customer. The
   repeated call has the same key and payload but now sends `customer`, and
   Stripe refuses a key with other parameters. The README says that the
   external payment request is retry-safe.

## 4. Proofs

| Theorem | States |
|---|---|
| `IdempotencyProofs!TypeCorrect`, `RecordsComplete`, `AtMostOnce`, `ReplaysFaithful` | the four invariants of `Idempotency` |
| `IdempotencyProofs!Refinement` | `Spec => Implements` |
| `RateLimitProofs!TypeCorrect`, `QuotaHolds`, `RetryAfterHolds` | the three invariants of `RateLimit` |
| `RefreshTokensProofs!TypeCorrect`, `OneLive`, `RotationIsAChain`, `LogoutHolds`, `SessionHolds` | the five invariants of `RefreshTokens` |
| `WebhookDeliveryProofs!TypeCorrect`, `PostsAlwaysCounted`, `DeadAlwaysJustified`, `AttemptsAlwaysBounded` | the four invariants of `WebhookDelivery` |
| `OrganizationsProofs!TypeCorrect`, `OwnerAlwaysOne`, `PendingAlwaysOne`, `TokenAlwaysUsedOnce`, `MailAlwaysCommitted` | the five invariants of `Organizations` |
| `OrganizationsProofs!JoinsOnlyByInvitation`, `SettledStays` | its two action properties |
| `BillingProofs!TypeCorrect`, `EventAppliedOnce`, `SessionAlwaysOwn`, `OnlyAssignedColumnsChange` | the three invariants and the action property of `Billing` |
| `TenantResourcesProofs!TypeCorrect`, `TenantsStayApart`, `AlwaysAnnounced`, `OtherColumnsKept` | the three invariants and the action property of `TenantResources` |
| `PaginationProofs!TypeCorrect`, `ListingAlwaysExact` | the two invariants of `Pagination` |

They hold for any sets of requests, keys, tokens, jobs, users, organizations,
rows and connections, and for any limit, capacity, window and page size. The
only assumptions are the named `ASSUME`s of the modules: `Null` is not a value,
the sizes are positive where the code requires it (`check_rate_limit` and the
bounds of `limit`), the kinds of ids and the names of statuses do not overlap,
no role but the founder's is "owner" (the request schemas), and a table that is
listed is finite.

* *Idempotency.* None of the properties is inductive. The invariant adds what
  the locks guarantee: an uncommitted row excludes a committed one and any
  other uncommitted one of its slot (`DraftInv`, `DraftsApart`); what a request
  knows at each point (`PhaseInv`), above all that a replaying request still
  finds its row because it holds its lock; the clean-up only holds committed
  rows (`CleanupInv`); and an effect is older than the current life of its slot
  unless the committed row is its own (`AgeInv`), from which at-most-once
  follows. The refinement maps a slot to the call stored in its committed row
  and an answer to the end of the transaction; each action is a step of
  `IdempotentStore` or a stutter.
* *RateLimit.* The quota counts the tokens in the bucket as already granted
  (`QuotaInv`). That the loss of the hash is harmless needs that it expires two
  windows after its time stamp (`ExpiryInv`), when it has been full for a
  window. `PromiseInv` relates the last 429 to the exact refill until its time;
  a millisecond later the level exceeds one token or has overflowed a bucket of
  one, and no rounding matters.
* *RefreshTokens.* `LockInv` says that a presented token is still unrevoked and
  of the recorded family until its transaction ends, `LocksApart` that no two
  transactions hold the same token, `FreshInv` that a token not yet committed
  is mentioned nowhere.

* *WebhookDelivery.* A count is not inductive by itself. `PostInv` counts a run
  that has been charged and is about to POST as posted already, `ChargeInv`
  relates the attempts to the jobs that have been charged at or past the limit
  (`Charged`), to crashes and to faults: a job is charged once unless its
  worker is lost or it raises. `JobInv`, `RunInv` and `RowInv` say what a job,
  a run and a row know of each other at each phase. Only published jobs are
  counted; they stay finite, so the set of all jobs need not be.
* *Organizations.* `TxInv` says, for each kind of request, what of its reading
  cannot be stale, and why: a creation still finds no organization (unique
  slug), an invitation that was inserted is the only one of its address that
  can be pending (partial unique index), the invitation being accepted is
  still pending (row lock), the row whose role is changed is there (row lock),
  and a removal never aims at the owner. `TxApart` says which two requests
  cannot be open at once; `FoundInv` that nothing happens before the creation;
  `JobInv` that a job has seen the committed invitation before it mails.
* *Billing.* Nothing locks the row that a request has read. The invariant says
  what nobody else can undo before the request ends: its event is not recorded
  and in no other request's hands (`TxEvent`, `TxApart`: the unique key of the
  inbox), a first row it inserts is still missing and a row it has found still
  exists (`TxRow`), the session it was given is the one Stripe keeps for its
  key (`TxCheckout`). `SubInv` says that a stored customer is one that Stripe's
  events attach to this organization, so that an event known only by its
  customer finds its own row.
* *TenantResources.* `Holds` marks a request whose INSERT or UPDATE was sent.
  From then on until COMMIT its constraints stay true (`TxCreate`, `TxUpdate`):
  the parent stays, the row stays, the name stays free, because whoever could
  break one waits for it (`WaitsFor`). `TxApart` keeps two such requests on
  different rows and names. A cascade leaves no orphan because rows nest at
  most three deep, which follows from the kinds of parents in `TypeOK`.
* *Pagination.* `Passed` says that no returned row lies ahead of the cursor,
  `Awaited` that a row that matched throughout was returned or lies ahead. The
  work is in the lemmas about `ORDER BY ... LIMIT n`: a page has a last row
  (`LastOfPage`) and at most `n` rows (`PageSize`), what it leaves out comes
  after its last row (`LeftOut`), and when `limit + 1` rows bring nothing new
  there is nothing left (`LastPage`). They rest on the rank of a row and the
  least element of a set of naturals.

Every inductive invariant was also checked by TLC on the instance of its run,
that of `WebhookDelivery` on a part of it.

**Only model-checked:** the liveness properties `EveryCallEnds`,
`EventuallySettled`, `EveryJobEnds`, `InvitationSettles`, `EveryEventApplied`
and `ListingEnds`, since the prover handles neither fairness nor `ENABLED`; and
the three disagreements of section 3, which are counterexamples.

## 5. Not modelled

The size of the rounding error of the Lua script (its sign is modelled); loss of
Redis data; more than one event at a time;
deletion of an organization or a user (there is no endpoint); registration,
password checks, token encoding and signatures; content types, sizes and object
keys of uploads, and the upload itself, which does not pass through the API;
event payloads and audit entries as data (that they are written in the
transaction of their request is modelled); the order in which waiting
transactions get a lock; health checks, metrics, traces and error formats,
which change none of the modelled state. Endpoints that only read have no
action, except the lists of projects and tasks.

## 6. Plan

1. An abstract specification of a delivery (attempts until final) and how far
   `WebhookDelivery` implements it.
2. Refinements for the other protocols whose promise can be said without locks:
   an invitation that is used once, an inbox that applies an event once.
