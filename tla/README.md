# Tankly in TLA+

Tankly (`src/app`) is a web application in which the members of a farm or company record
what their vehicles are filled with. It is a FastAPI program over one SQL database:
every HTTP request is one handler, every handler one database transaction (sometimes two),
and production runs several replicas of the program against one PostgreSQL
(`src/.docs/PRODUCTION.md:147`, `src/app/config.py:37`). There is no background thread; daily jobs
call `/cron/*`, and Stripe calls `/webhooks/stripe`.

This directory holds the models of that program, the TLC configurations that check them,
and the theorems about them that TLAPS proves.

    tlasany <Module>.tla                          # parse
    tlc -workers 2 -config <run>.cfg <module>.tla # the modules of the runs are in PROJECT.json
    tlapm <Component>Proofs.tla

## Inventory

| Component | State | Operations | What is hard | What makes it correct |
|---|---|---|---|---|
| **Tank inventory** `services/storage_tanks.py`, `services/tank_ledger.py`, `routes/storage_tanks.py` | tables `storage_tanks`, `tank_ledger_entries`; the stock is never stored, it is opening balance plus the ledger rows not deleted | create, edit, remove a tank; post, edit, delete a manual movement | the ledger is a second copy of part of the fuel history; soft deletion; removal checks fills first | ledger and history agree; nothing is deducted twice; fills stand on live tanks |
| **Fuel entries** `services/fuel_entries.py`, `routes/fuel_entries.py` | table `fuel_entries` | create (form, quick form), edit, delete | an edit may change source, tank and litres at once; an entry is reachable only through its vehicle; the handler awaits its form after loading the entry | as above; a deleted entry stays deleted |
| **Vehicles** `services/vehicles.py`, `routes/vehicles.py` | table `vehicles` | create, edit, remove | a removed vehicle keeps its fills; the limit of the tier is counted before the insert | fills of removed vehicles never change; the limit holds |
| **Entitlements** `services/entitlements.py` | derived from the subscription | may this group add a vehicle, use a feature | check then act between replicas; subscriptions that ended | never more than the limit; the tier of an ended subscription is free |
| **Billing** `services/billing/`, `routes/billing.py`, `routes/webhooks_stripe.py` | tables `group_subscriptions`, `billing_events`, the tier column of a group; Stripe's own state | checkout, webhook, daily reconciliation, partner grant and revoke, deletion of the group | events late, twice, out of order; Stripe is asked between reading and writing; failures between steps; a price that tells no plan | each event once; the mirror converges to Stripe; partner and paid tiers exclude each other |
| **Groups and membership** `services/groups.py`, `group_settings.py`, `membership.py`, routes | tables `groups`, `user_groups`, `users.last_group_id` | create, join, leave, switch, delete; change role, remove member | counting the admins and deleting a membership are two statements | a live group has an administrator; only its members are in it |
| **Accounts** `services/profile.py`, `routes/profile.py` | table `users` | rename, change password, delete account | a check over several groups, then a deletion in all | no group loses its last administrator |
| **Sessions** `auth.py`, `services/sessions.py`, `routes/auth.py` | table `user_sessions`, the signed cookie | log in and out, slide, revoke, change and reset the password | two deadlines, sliding, revocation racing a login | no session outlives its ends or the password it was begun with |
| **Request context** `dependencies.py`, `middleware/`, `routes/platform.py` | the cookie's active group and support view | resolve the user, the group and the role of a request; switch; enter and leave the support view | every part of the cookie may be stale, and a slow answer puts an old one back | a request acts in a live group of its user; a support view only reads |
| **Maintenance and reminders** `services/maintenance.py`, `services/reminders.py`, `routes/cron.py` | table `maintenance_logs` | create, edit, delete a log; daily mail run | claim, send and release are apart; two runs overlap; crash | at most one mail per due date; none lost without a crash |
| **Rate limiting** `rate_limit.py` | attempts per key in a window, in memory or in Redis | check, record, clear | check and record are apart; boundary of the window; clocks of several hosts | at most the limit within a window; who waits is let in |
| **Reports** `services/consumption.py`, `summary.py`, `dashboard.py`, `analytics.py`, `mobile_stats.py` | none; computed from the entries at each visit | averages, months, bars, trends | each page has code of its own for the same figure; turn of the year; equal readings | the pages agree with each other and with a direct definition |
| **Export, audit log, QR codes, platform lists, web shell, marketing, mail, configuration, migrations, scripts** | none of their own, or append-only | | | not modelled, see below |

How they interact: handlers of all components share the database; the fuel entry handlers call
the ledger inside their own transaction; removing a tank reads the fuel entries; removing a
vehicle hides its entries from every fuel entry query; the vehicle handlers ask Entitlements, which
reads what Billing wrote; deletion of a group calls Stripe; reminders read vehicles, entries and
administrators; every request passes the sessions and the request context. `PROJECT.json` lists every hazard at
its line, with the properties that are about it.

## What is modelled

| Module | Models | Correspondence |
|---|---|---|
| `Tables` | a table as a function from the primary keys inserted so far to rows | `Insert` and `Remove` are `db.add` and `db.delete` with their flush |
| `TankInventory` | vehicles, tanks, fuel entries and ledger, and the POST handlers that write them, one handler one step | `deleted` is `deleted_at IS NOT NULL`; queries are set expressions with the filters of the SQL (`LiveTanks`, `ReachableEntries`, `LinkedWithdrawals`, ...); `ResolveFarmTank`, `SyncVehicleWithdrawal` and `SoftDeleteVehicleWithdrawals` are the functions of these names; each action is a handler with the service functions it calls. A refused form or a 404 commits nothing and is no step |
| `FuelStock` | the promise: a running balance per tank, a fill takes, gives back or moves its litres exactly once, nothing but a manual movement changes it otherwise | abstract specification; `StockBook == INSTANCE FuelStock WITH ...` in `TankInventory` maps `balance` to `current_stock_l` (`TankBalance`) and the fills to what they have taken (`FillTaken`) |
| `FillRequests` | the handlers that read before they write, split at their SQL statements, on several replicas with PostgreSQL's READ COMMITTED and row locks, and replicas that die | a request's `at` is the statement it sends next, its record what its ORM session has loaded; `SessionEntry` is the changed object, `ChangedColumns` the columns SQLAlchemy puts in the UPDATE. The variables of `TankInventory` are the committed tables. `autoflush` is off (`src/app/database.py:14`), so nothing is written before `db.flush()` |
| `Membership` | `users`, `groups`, `user_groups` and the handlers that write them, one request one step with its dependencies and its handler | `Admins` is what `count_group_admins` counts, `MayLeave`, `SoleAdminGroups` and `MayManage` are the guards of leaving, of closing an account and of the members page |
| `MembershipRequests` | the same requests in three steps: `Authenticate` (dependencies), `Check` (the handler's reads), `Commit...` | FastAPI runs the dependencies, plain functions, in its thread pool, then the `async` body on the event loop, without an `await` in it. So on one replica (`oneReplica`, chosen once) the bodies exclude each other (`BodyFree`) but another request can come between a body and its own dependencies; on several everything interleaves |
| `RequestContext` | composes `Membership` with one browser: its cookie `jar`, the sessions, the group opened last, the support view, and one slow request whose cookie and answer may be old | `Opens` is `_attach_user_to_request`, `Defaults` `default_group_for_user`, `Refreshed` what the middleware writes back, `ViewAllows` the forms `platform_view` lets through. Every form of `Membership` is an action of the browser (with the cookie's group) and of everybody else (`Elsewhere`) |
| `Billing` | one group's row in `group_subscriptions` against Stripe: checkouts, subscriptions and events are Stripe's state, a replica's request is split at the calls to Stripe and at its commit | `Deliver` inserts the event's key, `Retrieve` asks Stripe, `Load` reads the row and tells the tier (`TiersFound` is `_tier_from_stripe_subscription`), `Commit` writes what `Synced` computes; `Reconcile`, `GrantPartner`, `RevokePartner`, `DeleteGroup`, `CommitDeletion` are the handlers of these names; `Fail` is any exception or a dead replica, with rollback |
| `Entitlements` | the limit of the tier, read, compared with a count, and the insert after it | `ReadLimit`, `Count`, `InsertVehicle` are the three statements; the plan changes at any time (`ChangePlan`) |
| `Sessions` | one account: sessions with idle and absolute end, sliding, logout, revoking, password change in two commits, reset by mailed token | `NextExpiry` and `Slid` are `session_expires_at` and `touch_session`; a request is split at what it commits and at what it reads before; a reset reads the sessions (`ReadSessions`) before it flushes and commits (`CommitReset`), since `autoflush` is off |
| `Reminders` | maintenance logs and daily jobs: list, claim, mail one administrator after the other, release | `Claim` is the conditional UPDATE and its commit, `Mail` an awaited mail, `Finish` the release if every mail failed; an edit has loaded its log before it awaits the form |
| `RateLimiter` | one key in both limiters: `Ask`, then a failure recorded or the key cleared, restarts, and host clocks with different offsets | a store is a set of numbered attempts with their times, as the members of the sorted set differ also at one time; `Key`, `Active`, `Limited` are the purge and the comparison |
| `Reports` | the entries of a group over a small calendar and what each page computes from them | operators with the names of the functions; recursion is only in folds |
| `MC...` | instances: symmetry sets, the tier limits, sets of forms | `MCLimits` explores `RateLimiter` and `Entitlements` in one run, each with the other at rest, since they share nothing |
| `...Proofs` | lemmas and theorems, one module for each component (`MembershipProofs` with the requests and the request context, `LimitsProofs` with both limits) | |

Definitions introduced by "Faulty variant" are not part of the model: each is a definition
with a plausible bug, next to the one it stands for, used to show that a property notices it.

Abstractions. Names, notes, capacity and AdBlue are left out: no guard of another operation reads them.
The litres of a form are a few positive numbers (the code uses floats; sums of small integers are exact in them). Who
may call a handler of the tank inventory is left out of it; there any handler may be called at any time, which allows
more behaviours than the program has. In `Membership` invite codes are left out: whoever joins had the
code. `CreateVehicle` of the inventory is not obliged to happen, which covers the refusal at the limit. A
replica runs its handlers one after the other: the handler bodies are `async` functions with
synchronous database calls, and an `await` inside one, of the form of an edit, lies between the load of the row and the
rest (`src/app/routes/fuel_entries.py:348`, likewise for maintenance logs). Signatures, hashes and tokens are taken to be sound.

## Properties and runs

Every property has at least one mutant in `PROJECT.json`: a faulty variant of a definition under which TLC finds
the property violated in the same run.

| Run | Instance | Checks | Shows |
|---|---|---|---|
| `inventory` | 2 groups, 2 fuels, 1 vehicle, 2 tanks, 1 entry, 2 ledger rows, litres 1 and 2; 222k states | `TypeOK`, `LedgerMirrorsFills`, `FillsStandOnLiveTanks`, `RowsStayInGroup`, `ImplementsFuelStock`, `UnreachableFillsStay`, `PinnedTanksStayPinned`, `OnlyNewFuelPartsFills` | every order of creating, moving an entry between tanks and sources, correcting litres, deleting, manual movements before and after the removal of a tank, and another fuel for the vehicle |
| `one_replica` | 1 replica, 2 tanks, 2 quantities; 27k states | `ServesAtomically` | the split handlers implement the atomic ones (`FillRequests` refines `TankInventory`) |
| `races` | 2 replicas, 1 tank, 1 entry, 2 quantities; 3.4M states | `OneWithdrawalPerEntry`, `OnlyRacesSpoilTheLedger`, `OnlyRacesStrandFills`, `DeletionSurvivesRaces` | what survives every interleaving and crash; ledger and history, or a fill and its tank, part only where two requests overlapped |
| `answers` | 2 replicas, 1 tank, 1 entry; 37k states | `EveryRequestEnds` | no request waits for ever |
| `membership_requests` | one replica or several, 3 open requests, 2 users, 1 group; 1.6M states | `OnlyStaleAdminsOrphan`, `MembershipsStartByJoining` | on one replica leaving and closing accounts are safe; only a role checked in the dependencies and lost before the body can cost a group its last administrator: two administrators who demote or remove each other. On any number, no request brings a removed membership back, a role change least of all |
| `context` | 2 users, one of them an operator, 2 groups, 1 session, one browser with a slow request; 302k states | `GroupsKeepAnAdmin`, `DeletedAccountsBelongNowhere`, `ViewsChangeNothing`, `LastGroupsAreOnesOwn`, `CookiesSettle` | the forms of membership stay sound with whatever old cookie they are sent; the support view only looks; the cookie settles on a group of its user |
| `billing` | 2 subscriptions, 2 plans with a price each; four settings: on one replica a single price, mapped (3 changes, 2 checkouts, 1 failure) or mapped later or never (no failure), or both prices, one mapped and the other later or never (2 changes, 1 failure); on two replicas a single price mapped later or never (2 changes, 1 checkout); 621k states | `RowIsWhole`, `DeletedGroupsStopPaying`, `EventsApplyOnce`, `NamedSubscriptionConverges`, `SingleSubscriptionConverges` | the row stays of one piece and, once Stripe comes to rest, says what Stripe says: its status, and the plan of its price as soon as the price is mapped |
| `partner_overwritten` | the settings of one replica | `StripeKeepsPartners`, violated | the finding below |
| `reminders` | 1 vehicle, 1 log, 2 jobs, 3 days; 1 administrator with 1 edit and 1 failure, or 2 administrators with 2 failures and no edit; 635k states | `ClaimsAreKept`, `MailsAreNotRepeated`, `DueLogsAreMailed` | a reminder is neither lost nor repeated but for the overlaps and crashes named, whether mails fail for all or for some, and one that is due is mailed |
| `sessions` | 2 sessions, 2 requests, idle 3, absolute 5, slide 2; long histories and ones with three passwords; 1.4M states | `SessionsEndInTime`, `UsedSessionsLive`, `SessionsFollowPassword`, `TokensAreSpent` | both deadlines under sliding; no session outlives its password, and a token works once, on one replica |
| `limits` | 2 workers, 2 attempts in a window of 2, a second of 2 units, clocks 3 apart or equal, 4 failures; 3 requests for a vehicle under limits 1, 2 and none, 3 changes of plan; 339k states | `GuessesAreLimited`, `WaitingHelps`, `VehiclesKeepToTheLimit`, `EndedPlansAddNothing` | both limits hold at their boundary, with the exact overshoot of several workers or replicas |
| `reports` | 2 vehicles, 3 entries, a year of 3 months of 2 days with one vehicle filled on any day and the other on the first of a month, or readings 1 to 3 of one vehicle on two days; 228k states | `AveragesAgree`, `EveryWayCountsOnce`, `PagesCountOnce` | the pages agree with each other and with a direct definition |

Bounds. Keys are the only bound of `TankInventory`: rows are never removed, so a run ends a
history when its keys are used up. One entry is enough for the whole life of an entry, since an
edit may be repeated without end; a second row
key leaves room for a wrong second withdrawal or a manual movement; two tanks, fuels and quantities tell a
moved withdrawal from one that stayed. `FillRequests` bounds further: `EntryKeyLeft` keeps a key for each create in flight and
`LedgerKeyLeft` one for each entry, so no request stops for want of a key. Two
replicas suffice for each race of two requests; three are not checked.
In `Membership` two groups and two users tell an administrator of one from a member of the other; three open requests
let one close an account, join again and act on a role checked long before. `Billing` bounds what Stripe does and how often requests fail by its
`Settings`, one of which each history has: two subscriptions and three changes are enough for the late event of an
old one after those of a new one, two prices for a change of plan, and a price mapped late for a tier that no event corrects. Two replicas are
explored with one subscription and two changes; a third change, two subscriptions or failures on two replicas are left to the theorems
(safety only). `Reminders` bounds days, edits and faults; with two jobs and one edit every pair overlaps, and two
administrators are enough for a mail that reaches one of them only (`MCReminders` explores these without edits).
`Sessions` has histories one longer than `Absolute`, in which every deadline passes, and shorter ones in which the password is set
twice. Keys are interchangeable in every definition, so the runs that check safety only use
symmetry, but for `reports`, whose forms single out one vehicle; `answers`, `context`, `reminders` and `billing` check
liveness, for which symmetry is not sound, and `MCBilling` gives its two prices different plans.

`CHECK_DEADLOCK FALSE` is in every cfg: the program only reacts to requests and may
receive no more, and the finite key sets make an instance run out of them. That no request
is stuck is the liveness property `EveryRequestEnds`, not deadlock freedom.

Types. TLC checks the type invariant of `TankInventory`; those of `Membership`, `RequestContext`, `Sessions`, `Reminders`,
`Billing`, `Entitlements`, `FillRequests`, `MembershipRequests` `RateLimiter`
and `Reports` are part of the inductive invariants that TLAPS proves.

Fairness.
- `FillRequests` (`FairRSpec`): weak fairness of `Serve` for each replica, since a handler
  that has begun is ordinary code and goes on; strong fairness of `ServeLocked`, since a statement that
  waits for a row lock is queued by PostgreSQL and gets it after the holder's transaction ends, while
  other requests may take and release the lock for ever. Nothing is assumed about requests arriving or replicas dying.
- `Billing`: a request begun goes on (weak); Stripe delivers an event until it is answered with 200, and the daily job comes
  again (strong: the replica may be busy each time for a while). That the job succeeds in the end is what the bound on failures says: a failure that
  repeats every day, such as a subscription Stripe does not know, is outside this assumption.
- `Reminders`: the job is started again and goes on once begun (weak).
- `RequestContext`: the user goes on opening pages, and answers arrive (weak). `CookiesSettle` claims something only
  once memberships and sessions come to rest.

## Findings

`partner_overwritten`: "Rows stay without `stripe_subscription_id`, so webhooks/reconcile do not overwrite them"
(`src/.docs/STRIPE_BILLING.md:9`). A checkout opened before a partner tier is granted and completed after it
writes its subscription and tier over the partner row (`src/app/services/billing/subscriptions.py:137`).

Other behaviour of the code that the models show and a reader of the documentation would not expect. Each is the exception a
property names, or the reason a property is claimed only for one replica:

- Tanks. Editing the fuel type of a vehicle leaves its farm fills on a tank of the old fuel
  (`src/app/services/vehicles.py:62`, against `src/.docs/TANK_INVENTORY_AND_ADBLUE.md:166`): `OnlyNewFuelPartsFills`. An edit that
  loaded an entry before another replica deleted it revives or inserts its withdrawal (`src/app/services/tank_ledger.py:258`,
  against line 228 there): `OnlyRacesSpoilTheLedger`. The removal of a tank counts its fills and then removes it
  (`src/app/services/storage_tanks.py:138`, line 167 there): `OnlyRacesStrandFills`. A tank with a farm fill of a removed
  vehicle can never be removed: `PinnedTanksStayPinned`.
- Membership. Two administrators who leave on two replicas are each counted while the other is still there
  (`src/app/services/groups.py:134`, against `src/.docs/TECHNICAL_DOCUMENTATION.md:673`): `OnlyStaleAdminsOrphan`. A request whose account
  was closed after it was authenticated may still join or create a group, so `DeletedAccountsBelongNowhere` belongs to requests served
  one at a time.
- Billing. The late deletion of an old subscription clears a row that names a newer one; reconciliation passes over it from
  then on. With several replicas a commit computed from an old answer may be the last one until the next day, and a row written in part by two
  requests may have a tier column of its own. The checkout of a group deleted meanwhile is paid and skipped. One subscription
  Stripe does not know ends the daily job for all. The notice of a failed payment is lost by a crash after the commit.
  A price that maps to no plan (`src/app/services/billing/subscriptions.py:100`: no tier in its metadata or its product's, and not in the
  catalogue that the process has cached) makes a paid subscription one with the free tier: the row names it, but the group gets the free limits and
  may begin a second checkout (`has_active_paid_subscription` is false). No event follows when the price is mended; the daily job finds it
  (`NamedSubscriptionConverges`). The same happens to every subscription wherever the Stripe library's objects are dictionaries, since
  `items` of line 87 is then a method: for the model these are prices that are never mapped.
  A status outside the list of `src/app/services/billing/constants.py:3` that is not closed (incomplete, paused) grants the tier all the same.
- Reminders. A crash after a claim loses the reminder; rescheduling a log while a job has it may lose or repeat one; changing only
  the usage threshold never resets the claim; groups without a paid tier, and deleted ones, are mailed as well.
- Sessions. A crash between the two commits of a password change keeps the old sessions (`torn`). With several replicas a
  password change may overwrite a reset. A session in use may end up to one slide before its absolute end.
- Request context. Tabs share a cookie: a form shown for one farm is filed in another after a switch, and a late answer may put back
  an older session or view, until the next page.
- Rate limiter. The Redis limiter records times of `time.monotonic()`, which count from the boot of each host; the limit is
  shared (`src/.docs/PRODUCTION.md:170`) only where the clocks agree: `GuessesAreLimited`. `WaitingHelps` holds in any case, by the expiry
  of the key, but takes the extra second of `src/app/rate_limit.py:66` then.
- Entitlements. Each other request open on another replica may pass the count and exceed the limit by one: `Overshoot`.
- Reports. `src/.docs/DECISION_LOG.md:54` decides on sorting by reading, but the dashboard pairs fills by date and sorts the pair again
  (`src/app/services/dashboard.py:101`), so a fill with a lower reading than its predecessor is charged with the other one's litres;
  `AveragesAgree` relates it to the others only where readings rise with dates. Between fills of equal reading the average of the
  summary depends on the order in which the database returns them. The litres of partial fills are in no average.

## Proofs

All results are for every value of the constants: any number of groups, users, rows, requests, replicas, any
lengths and limits, and, since bounds are constants too, histories of any length.

| Module | Theorem | States |
|---|---|---|
| `TankInventoryProofs` | `Invariance` | `Spec => []IInv` |
| | `TypeCorrect`, `LedgerMirror`, `SingleWithdrawal`, `TanksOutliveFills`, `GroupIsolation` | `TypeOK`, `LedgerMirrorsFills`, `OneWithdrawalPerEntry`, `FillsStandOnLiveTanks`, `RowsStayInGroup` |
| | `UnreachableIsFinal`, `PinnedForever`, `FuelsPartByVehicle` | `UnreachableFillsStay`, `PinnedTanksStayPinned`, `OnlyNewFuelPartsFills` |
| | `StockBookHolds` | `ImplementsFuelStock`: `TankInventory` implements `FuelStock` |
| `FillRequestsProofs` | `RInvariance`, `RTypeCorrect` | `RSpec => []RInv`, `RTypeOK` |
| | `SingleWithdrawalInRaces`, `GroupIsolationInRaces` | `OneWithdrawalPerEntry`, `RowsStayInGroup`, under every interleaving |
| | `LedgerMirrorBarRaces`, `TanksOutliveFillsBarRaces` | `OnlyRacesSpoilTheLedger`, `OnlyRacesStrandFills` |
| | `DeletionIsFinal` | `DeletionSurvivesRaces` |
| | `OneReplicaIsAtomic` | `ServesAtomically`: on one replica `FillRequests` implements `TankInventory` |
| `MembershipProofs` | `Invariance`, `TypeCorrect`, `NoGroupOrphaned`, `AccountsGoEntirely` | `IInv`, `TypeOK`, `GroupsKeepAnAdmin`, `DeletedAccountsBelongNowhere` |
| | `GroupsClose` | `DeletedGroupsOnlyShrink`: a deleted group gains no member and no role in it changes |
| | `RInvariance`, `RTypeCorrect` | `RSpec => []RInv`, `RTypeOK` of `MembershipRequests` |
| | `OnlyStaleAdminsOrphanGroups`, `NoMembershipComesBack` | `OnlyStaleAdminsOrphan`, `MembershipsStartByJoining` |
| | `CInvariance`, `CTypeCorrect` | `CInv`, `CTypeOK` |
| | `ContextImplementsMembership` | `CSpec => Spec`: the composition implements `Membership` |
| | `CookiesOrphanNoGroup`, `ViewsOnlyLook`, `LastGroupIsOnesOwn` | `GroupsKeepAnAdmin`, `ViewsChangeNothing`, `LastGroupsAreOnesOwn` |
| `LimitsProofs` | `Invariance`, `LimitKept`, `EndedPlansFree` | `EInv`, `VehiclesKeepToTheLimit`, `EndedPlansAddNothing` of `Entitlements` |
| | `GInvariance`, `GTypeCorrect`, `GuessesLimited`, `WaitingLetsIn` | `GInv`, `GTypeOK`, `GuessesAreLimited`, `WaitingHelps` of `RateLimiter` |
| `SessionsProofs` | `Invariance`, `TypeCorrect` | `IInv`, `TypeOK` |
| | `SessionsExpire`, `SlidingSuffices`, `OldPasswordsEnd`, `TokensWorkOnce` | `SessionsEndInTime`, `UsedSessionsLive`, `SessionsFollowPassword`, `TokensAreSpent` |
| `RemindersProofs` | `Invariance`, `TypeCorrect` | `IInv`, `TypeOK` |
| | `NoReminderLost`, `NoReminderRepeated`, `OneClaim` | `ClaimsAreKept`, `MailsAreNotRepeated`, `ClaimsAreExclusive` |
| `BillingProofs` | `Invariance`, `TypeCorrect` | `BInv`, `TypeOK` |
| | `RowWhole`, `DeletedStop`, `AppliedOnce` | `RowIsWhole`, `DeletedGroupsStopPaying`, `EventsApplyOnce` |
| `ReportsProofs` | `PInvariance` | `PSpec => [](PTypeOK /\ FormsAreRows)` |
| | `AveragesAlwaysAgree`, `WaysAlwaysCountOnce`, `PagesAlwaysAddUp` | `AveragesAgree`, `EveryWayCountsOnce`, `PagesCountOnce` |

Assumptions, all evaluated by TLC in the runs: positive litres and non-negative opening balances (`gt=0`, `ge=0` in the schemas), NULL is no
key (`NoneAssumption`), the free tier has a limit, no plan on sale is called free or partner, each price is for a plan on sale (`PlanAssumption`), the settings of `Billing` are
sets of its replicas and prices and natural bounds (`SettingsAssumption`), a second lasts some time (`SecondAssumption`), requests are
finitely many, and `0 < Slide < Idle <= Absolute`; the workers of the rate limiter are finitely many, at least one, and none of them is Redis
(`WorkersAssumption`). For `Reports` the calendar is any number of months with any number of days, the cost chart shows at most a year,
the vehicles of a group are finitely many (a page adds them up), and forms are well-typed rows. No theorem assumes that groups, tanks, entries or ledger rows are finitely many: that the ledger is a finite
table is an invariant.

The arguments.

- `TankInventory`. `IInv` is the conjunction of the five state properties; none is inductive alone. An edit
  overwrites the row `LinkedWithdrawals` returns, so the mirror survives only because that row is the only one of the entry
  (`OneWithdrawalPerEntry`); a fresh entry gets a fresh row only because no old row refers to a
  key not yet inserted (`RowsStayInGroup`); the row is well typed only because the tank is in the table
  (`FillsStandOnLiveTanks`, `RowsStayInGroup`). Each kind of step has a lemma (`VehicleStepInv`, `TankStepInv`,
  `LedgerStepInv`, `FuelStepInv`) that first states the frame, what the step leaves alone, and then each part from the
  frame. The action properties rest on `UnreachableUntouched`, a step touches no entry outside `ReachableEntries`, and on
  `FuelStepMatches`, an entry is written only with the fuel of its vehicle.
- `TankInventory` implements `FuelStock`. Balances are sums over the ledger, and a sum is a fold: that `Total` adds one row, drops one
  row or is the same where the rows are (`TotalStep`, `TotalWithout`, `TotalMoves`) is shown without induction, by looking at a smallest
  set of rows for which it would fail (`SmallestSet`, `AddsAgree`, `AddsExists`). Then each handler moves the balances as the stock book says:
  by the mirror a fill has taken exactly its active row (`RowsCountFills`, `MirrorCounts`), so the row written, changed, revived or deleted
  is what changes in the sum, in one tank or from one to another. The ledger stays finite because each step inserts at most one row (`LedgerStaysFinite`).
- `FillRequests`. The invariants of `TankInventory` do not survive races, so `RInv` keeps what does. `InHand` says what is
  still true of what a session has loaded: keys and groups always, the contents for entries outside `raced`. From the flush on the
  row of the entry is locked (`LocksExclude`), so the ledger row found, or found missing, still is (hence one withdrawal under every
  interleaving); whoever overlaps with another is in `raced` (`RacesNoted`). On one replica what is in hand is what is committed, so each commit
  is the step of the atomic handler and everything before it a stutter. Trying to prove it showed that `OnlyRacesStrandFills` as
  first stated, for all farm fills, was wrong with three replicas: an edit to another tank, an edit to a farm fill, and the
  removal of the tank can strand a fill whose tank was removed in no race. It is stated now for fills outside `raced`.
- `Membership`. Where the count of administrators is neither 0 nor 1 there is one besides the user in
  question (`AnotherAdmin`), so leaving and closing an account keep one (`LeavingIsSafe`, `ClosingIsSafe`); a manager's
  step keeps the manager.
- `MembershipRequests`. `RInv` says of a request between its check and its commit that what it has decided still holds on one replica, where
  no other body comes between; then the commit of a leave or a closed account is safe as in `Membership`, and of a role change or a
  removal unless its sender is no administrator any more (`CommitOrphansOnlyStale`). On any number of replicas a commit writes only roles of memberships there are, or
  a contributor.
- `RequestContext`. Each form of the browser is a step of `Membership` or leaves its tables alone (`BrowserTables`,
  `StepTables`), so the theorems of `Membership` carry over; the two action properties go through the actions.
- `Entitlements`. The state property says nothing about requests in flight, so `EInv` counts those about to insert with the
  vehicles (`InsertsFit`). When all requests are about to insert, the last one to count saw what is there
  (`LastCountHolds`), which makes the overshoot one less than their number; on one replica what a body has read still holds (`ServedAlone`).
- `RateLimiter`. Where the clocks agree, every failure within the window is recorded still (`TriesAreRecorded`; in Redis because the key outlives its
  last attempt by a second, `KeyLives`), so whoever was let in found fewer than `MaxAttempts`, and those who are verifying at the same time
  leave room for their failures (`RoomLeft`): counted from the end, the failure `AtOnce` places before the next one is out of the window. In memory a worker is alone
  with its store. For `WaitingHelps` what is recorded was a failure, at the time of the worker's own clock where
  the clocks agree (`RecordsAreTries`); where they do not, the key has expired by then (`KeyLives`).
- `Sessions`. What is written lags behind the last use by less than `Slide` and never passes either deadline
  (`ExpiryFollowsUse`); on one replica a body is alone, so what it read still holds (`BodiesAreAlone`), and the table follows the password
  row by row (`RowsFollowPassword`).
- `Reminders`. A job at a log holds its claim and knows whether its present date was mailed (`ClaimsHold`), unless an edit was
  open at the same time, which the history sees (`RacesAreSeen`); a log somebody was mailed about stays claimed (`MailedStayClaimed`); an edit that loaded a log unclaimed still finds it so (`EditsSeeClaims`).
- `Billing`. What a request has in hand between its steps (`Fits`): its event is not yet recorded and no other request has
  it (`EventsAreApart`); the tier it has found is a plan or the free one, never partner (`TiersAreFound`); on one replica the row it loaded still is the row, and the
  row it will write is whole.
  Meanwhile Stripe only adds subscriptions and events and never revives a cancelled one (`Grows`), so what fits goes on fitting
  (`FitsStays`), and a step of a request is a quiet one (`QuietInv`) or one of the two commits (`CommitInv`, `CommitDeletionInv`).
- `Reports`. The three properties follow from the types alone, since the pages only read; the work is in the operators. Sums: a sum may be
  reindexed along a bijection (`TotalReindexed`), and taken apart into those of disjoint sets (`TotalUnion`, `TotalOfTotals`), shown by smallest
  counterexamples as for the ledger. Consumption: if readings differ, whatever the sorting, the segments are the
  neighbours by reading (`SegmentsAreSteps`), and each fill above another ends exactly one (`StepsEnd`), which gives its way (`WayIsDistance`). The
  calendar: the months the code writes as year and month are those of a running number (`Month`), the month before has the number
  before (`MonthBefore`), also in January, so `MonthsBack` counts down (`MonthsBackCountDown`), and an entry lies within n months exactly if it is not
  before their first day (`WithinMonths`).

Only model-checked: liveness (`EveryRequestEnds`, `CookiesSettle`, `DueLogsAreMailed`, `NamedSubscriptionConverges`,
`SingleSubscriptionConverges`), which is out of the prover's reach. Every other property of the runs is the statement of a theorem.

## Not modelled

Lists and counts for the operators of the platform, export and the audit view (read-only output, the audit log is append-only), QR
codes, templates, static files, marketing pages, mail, CSRF, headers and error pages, configuration,
migrations and scripts: they keep no state of their own or only write output. Of modelled components: the name, capacity and notes of
a tank; new invite codes; names and e-mail addresses of accounts; how the price catalogue is filled and cached (what it may answer is open in `TiersFound`), the customer and the mails of billing; labels, rounding and
the list of latest entries of the dashboard; the connection pool. Operators are a constant of `RequestContext`: the settings that name them
change only by a restart, so the branch that clears the view of someone who has ceased to be one is not taken.

## Plan

Done: the core (`TankInventory`, `FuelStock`, `FillRequests`), `Membership` and its requests, the request context, billing, entitlements,
sessions, reminders, rate limiting and reports; theorems for every property that is not a liveness property. Left:

1. Safety facts on which the liveness properties rest, such as who may hold a row lock in `FillRequests` and that a slow answer of
   `RequestContext` names a user of its own.
2. Several groups in `Billing`, so that a failure of the daily job for one is seen by the others.
