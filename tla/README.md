# Verification of the wallet service

TLA+ specifications of the wallet service in `src/`, configurations that check
them with TLC, and proofs that TLAPS checks. Paths below are relative to the
service's source directory (`src/src/` in `PROJECT.json`).

## The system

A NestJS process answers HTTP requests. Handlers are asynchronous: two requests
interleave at every `await`, and several processes may share one PostgreSQL
database, which holds all state. There is no queue, cache or background job.

| Component | State | Operations | What makes it correct |
|---|---|---|---|
| Transfers (`transfers/`) | table `transfers` | `create`, `findByReference` | atomic, at most once per key, retries agree, never seen unfinished |
| Wallets and funding (`wallets/`) | tables `wallets`, `wallet_fundings` | `fund`, `findByUserId` | no lost update, no funding of a blocked user, at most once per key |
| Administration (`admin/`) | `users.status`, `blocked_by_id` | `updateStatus`, `findById` | a block takes effect against what is running; only active administrators act |
| Guards (`auth/*.guard.ts`) | none | token, status and role of the caller | they believe the row and never the token, and a token only until it expires; what they read may be stale when the handler acts |
| Registration (`auth/auth.service.ts`) | tables `users`, `wallets` | `register` | a user and a wallet together, unique identities, nobody unscreened |
| Login (`auth/auth.service.ts`) | none; the token is the client's | `login` | no token on a password or a status the user never had during the request |
| Screening (`blacklist/`) | none | `assertEligible`, `check` | fails closed, ends in bounded time |
| Administrator seed (`database/seed-admin.ts`) | `users`, `wallets` | `runAdminSeed` | idempotent, safe when several deploys run it, leaves money alone |
| Money (`transfers/money.ts`) | none | `parseMajorAmount`, `formatMinorAmount` | exact minor units, formatting gives back what was parsed |
| Users (`users/`) | `users` | reads | what login and the guards decide on |
| Schema and migrations (`database/`) | the schema, table `migrations` | `up` and `down`, `runMigrations` | all or nothing, safe when several instances start, `down` undoes `up` |
| Application shell (`main.ts`, `config/`) | none | start-up chain, `validateEnvironment` | an instance serves only on a complete schema, with an administrator and a valid environment |
| Health (`health/`) | none | `SELECT 1` | - |

Transfers, funding and administration never call each other. They interact
through rows: all three lock the `users` row of the account they judge or
change, the first two then lock `wallets` rows. The guards run before each of
them, outside its transaction, and hand it the `User` entity they read.
Registration calls screening and writes rows that are new to everybody else;
the seed, which runs whenever an instance starts, writes the row of an
administrator who may be at work in older instances. Both meet in the unique
indexes on e-mail and telephone number.

What is hard: balances are computed in JavaScript from entities and written back
as absolute values, so every correctness claim rests on row locks taken in the
right order and early enough; retries arrive while the first request runs, after
a failure, or after an answer was lost; guards read outside the transaction;
locks, the connection pool and the deadlock detector decide who proceeds.
Screening asks a provider that may be slow, wrong or silent, before the
transaction that relies on it. A login decides after a slow password check on a
row it read before. Every start of an instance migrates and seeds, with no lock
around either, and the seed needs a telephone number that a customer may have
registered.
`PROJECT.json` lists these hazards line by line.

## Modules

| Module | Role |
|---|---|
| `LedgerTypes` | Data: requests, rows, replies, what a request moves; the assumptions on constants |
| `AtomicLedger` | Abstract specification: every transfer, funding and status change is one step |
| `WalletLedger` | The detailed specification of `create`, `fund`, `updateStatus`, the guards and PostgreSQL's locks; its properties |
| `MCWalletLedger` | Workloads and bounds for TLC |
| `WalletLedgerProofs` | Theorems about `WalletLedger`, with the refinement of `AtomicLedger` |
| `WalletLedgerDeadlock` | The theorem about lock order |
| `WalletLedgerTotals` | Theorems about sums over the tables: reconciliation, conservation of money |
| `Registry` | Abstract specification: an account is opened, or synchronised with the environment, in one step, and answers agree with it |
| `Onboarding` | `register`, screening and `runAdminSeed`, concurrent, in PostgreSQL's unique indexes; implements `Registry` |
| `MCOnboarding` | Forms, environments and symmetry for TLC |
| `OnboardingProofs` | Theorems about `Onboarding`, with the refinement of `Registry` |
| `Access` | `login`, tokens that expire, the two guards, against blocks, seeds and the clock |
| `AccessProofs` | Theorems about `Access` |
| `Money` | Parsing and formatting of amounts, with a client that types and repeats them |
| `MoneyProofs` | Theorems about `Money`, for texts of any length |
| `Deployment` | Migrations, seed and start of several instances; registrations, crashes, stops, reverts |
| `MCDeployment` | Environments for TLC |
| `DeploymentProofs` | Theorems about `Deployment` |
| `Foundations` | Lemmas for these proofs: induction, recursive functions, sums over finite sets |

`WalletLedger`, `Onboarding` and `Access` describe three views of the same
tables. They are separate because they share nothing but committed rows. The
writes of the other components that matter to a view are actions of its module:
`SetStatus` and `MoveMoney` in `Onboarding` stand for administration, transfers
and fundings, `SetStatus` and `Seed` in `Access` for administration and
deployments. `WalletLedger` has neither registrations nor seeds: a new account
is in no request yet, and a seed leaves balances alone; that it reactivates a
blocked administrator, with no actor to lock, is not an action there, and its
effect on the row is that of an `unblock`. `Deployment` takes the seed as one
link of a chain that `Onboarding` opens up, and has `Register` for the customers
whose telephone numbers it may meet.

What `Registry` promises of an answer is that "created" is told to whom has an
account and a refusal to whom has none. It does not ask that an identity is
really taken when somebody is told of a conflict (`Conflict` in `Onboarding` has
that guard), and of "seeded" it asks only that there is an administrator:
which one, and with what, is in `CreateAdmin` and `SyncAdmin`.

### How `WalletLedger` corresponds to the code

The tables are `balance` (`wallets.balance_minor`), `status` and `blockedBy`
(`users`), and `records` (the committed rows of `transfers` and
`wallet_fundings`; the operation in the row's input says which table).
`replies` collects what clients were told of their keys. Per request there is a
program counter `pc`, the input `req`, the count `attempt`, the locks `held`
(`FOR UPDATE` and advisory) and `shared` (`FOR KEY SHARE` of the foreign key
check), the entities `wallets` and `users` that the handler has read under lock,
`dirty` (balances saved, not committed) and `current` (the row it inserted or
found).

| `pc` | Code | Actions |
|---|---|---|
| `idle`, `done` | the client | `Send`, `Resend` |
| `guard` | `JwtAuthGuard`, `RolesGuard` | `Admit`, `Forbid` |
| `handler` | checks before the transaction | `RejectInput`, `BeginTransaction` |
| `locking` | the lock queries, one row a step; reading the key | `LockRow`, `ForbidFunding`, `Replay`, `RefuseReuse`, `InsertTransfer`, `FindNoFunding`, `SaveStatus` |
| `decide` | `create()` after the insert | `FailBlocked`, `FailInsufficient`, `MoveFunds`, `Overflow` |
| `complete` | saving SUCCEEDED | `Complete` |
| `save`, `credit` | `fund()` after finding no row | `SaveFunding`, `MoveFunds`, `Overflow` |
| `commit`, `reply` | end of `dataSource.transaction`, presenting the outcome | `Commit`, `Answer` |

`ConnectionLost` may strike at every stage, `DeadlockAbort` whoever waits in a
circle. A process crash is a connection loss of each of its requests. The
operators headed *Defect* are not part of the specification: each is a plausible
bug, and stands before the definition for which it is exchanged to see that a
property notices (`mutants` in `PROJECT.json`).

PostgreSQL is modelled as the code uses it (READ COMMITTED): a locking read
waits for the row and returns its committed version; writes are seen by others
at commit; locks last until the transaction ends; an insert waits for an
uncommitted row of the same unique key; a deadlock is broken by failing one
transaction of the circle. Ordinary reads inside a handler that nothing depends
on (which wallets exist, `wallet.id`) are folded into the step that uses them:
users and wallets are never deleted and wallet ids never change.

Abstractions. An account is a user with its one wallet. Amounts are small
integers and `MaxBalance` stands for the largest bigint. `valid` in a request
says whether the checks that read no row accept it. The fingerprint is the pair
of recipient and amount; the description, which the request hash covers too, is
one more component of the same kind, and the currency is always NGN. References
are distinct because 96 random bits are taken never to collide: the attempt that
generates a reference names it. A funding's record has no status column and
counts as SUCCEEDED. `reason` and time of a block are left out.

### How `Onboarding` corresponds to the code

`users` and `balance` are the committed rows of the two tables. A job is a call
of `register` or a run of the seed. While it runs it has its form or environment
(`input`), the row it has written (`written`), the balance of the wallet it has
inserted (`opened`) and the entries it has made in the two unique indexes
(`claims`), all of which vanish if it fails. An insert enters the index on
e-mail and then that on telephone numbers, in the order in which the migration
creates them; it waits for an uncommitted entry and fails on a committed one.

| `pc` | Code | Actions |
|---|---|---|
| `idle` | client, deploy | `Submit`, `Launch` |
| `screenEmail`, `screenPhone` | `assertEligible`, `check` | `Pass`, `Hit`, `ScreeningFails` |
| `find`, `row` | the seed's look-up and its update | `FindNobody`, `FindAdmin`, `LockAdmin` |
| `email`, `phone` | the insert of the user, or the new index entry of the update | `Claim`, `Conflict` |
| `verify` | the seed reads back what it wrote | `Verify` |
| `wallet` | the insert of the wallet, or the wallet that is found | `OpenWallet`, `KeepWallet` |
| `commit`, `reply` | the end of the transaction and the answer | `Commit`, `Answer` |

`ConnectionLost` and `DeadlockAbort` strike as in `WalletLedger`. `List` is the
provider changing its list. Identities and passwords are values: trimming, lower
case and hashing are abstracted, and so are names. `off` is a history variable
that collects the identities of a job that were off the list since it began.

### How `Access` corresponds to the code

`rows` has password, status and role of each user. A session has one request at
a time, the row its handler has read (`copy`) and the last token it was given;
tokens are taken to be unforgeable. `find` and `verify` are `login` before and
after its query, `token`, `lookup` and `decide` are `JwtAuthGuard` before the
signature check, before the query, and both guards after it. Users may be
blocked, and seeded again, between any two of these. `now` is the clock and
`Tick` lets it go on at any time; as `jsonwebtoken` does, `SignToken` writes the
moment of expiry into the token and `VerifyToken` compares it with the clock.
Three variables are history: `seen` has the rows the user of a request has had
since it arrived, `issued` the time of the session's last successful login,
`arrived` that at which its request of a route arrived.

### How `Money` corresponds to the code

A text is a sequence of digits, points and other characters. `Matches` is
`MONEY_PATTERN` (the DTOs have the same one), `Major`, `Fraction`, `PadEnd` and
`Number` are the steps of `parseMajorAmount`, `Numeral` and `PadStart` those of
`formatMinorAmount`; `PointAt` is where `split` and the group of the pattern cut
the text. `Number` and `Numeral` are recursive functions, digit by digit. The
reference does not parse the parts: `Worth` reads all digits of the text as one
number and scales it by the decimals that are missing, and `Writes` has the ways
to write a number.

### How `Deployment` corresponds to the code

`catalog` has the committed objects of the schema, `journal` counts the rows of
TypeORM's table, and `phones` says whose each telephone number is in the users
table: that of the user with `ADMIN_EMAIL`, of another user, or nobody's. An
environment has or lacks what the seed needs and what the API needs (`parts`)
and an `ADMIN_PHONE`; all instances have the same `ADMIN_EMAIL`. The seed gives
its user the number (`TakeNumber`) or fails on the unique index when another
user has it, inserting as well as updating. `Register` stands for customers who
take free numbers through an instance that serves.
Each instance runs the chain of `start:render`: `table`, `create`, `load` and
`migrate` are `run-migrations`, `find`, `insert` and `update` the seed, `boot`
the validation of the environment, `serving` the API; a script that fails ends
the chain (`failed`). The statements of `up` and `down` are the objects they
create and drop, in order, and `Uses` has the types and foreign keys between
them. All pending migrations run in one transaction, which is TypeORM's default;
the list of pending ones is read before it begins. A `CREATE` waits for another
transaction that creates the same object, and fails once that has committed.
Reverts are taken to run only while no instance does: nothing in the code
guards against the contrary, and nothing could be promised then.

## Runs

Each `.cfg` gives the constants; the instances of the ledger are in
`MCWalletLedger`, those of onboarding in `MCOnboarding`. Requests, registrations
and deployments are interchangeable, so safety runs use symmetry on them; the
liveness runs do not.

| Run | Instance | Properties | What it shows |
|---|---|---|---|
| `money` | 3 requests, once each; 2 accounts, 2 keys | `EntitiesCurrent`, `LedgerReconciles`, `MoneyConserved`, `ActsAtomically` | no lost update, every balance is accounted for by the rows, money is neither made nor lost, serializable |
| `retries` | 2 requests, 3 attempts each; 2 keys | `OnePerKey`, `RetriesAgree`, `NothingPending` | a key takes effect once, retries agree, nothing is left PENDING |
| `control` | 3 requests; 2 administrators and a customer | `TypeOK`, `NoMoneyDeadlock`, `ActsAtomically`, `BlockedAccountsFrozen` | blocks against running transfers and fundings, roles, overflow bounds, deadlocks |
| `progress` | 3 requests, pool of 2 | `EveryRequestAnswered` | nobody waits for ever |
| `actor` | 2 administrators who block each other | `BlockedActorPowerless` (violated) | the first finding below |
| `onboarding` | 2 registrations, 2 seeds, 2 e-mails, 2 telephone numbers | `TypeOK`, `OneAccountPerIdentity`, `NoClientDeadlock`, `KeepsPromise` | accounts whole and unique, seeds idempotent, nobody told of an account that is not there |
| `screening` | 2 registrations, 1 seed, a list that changes | `ScreenedOnly`, `EveryJobEnds` | fails closed, nobody waits for the provider for ever |
| `unclear` | a provider that may send an unclear 2xx | `ScreenedOnly` (violated) | the second finding below |
| `access` | 2 users, 1 session, tokens of 2 ticks, a clock of 4 | `TokensExpire`, `LoginsJustified`, `RequestsJustified`, `BlockedStayOut` | decisions are no staler than the request, tokens carry no authority and end |
| `amounts` | all texts of up to 7 characters, 3 digits before the point | `TypeOK`, `AmountsExact`, `TakesExactly`, `ShownIsAmount` | the conversions are exact and inverse |
| `deploy` | 2 instances, any environments, 2 telephone numbers, 2 crashes, 2 reverts | `TypeOK`, `SchemaMatchesJournal`, `ServesComplete`, `FailuresExplained` | migrations are all or nothing; a script fails after a lost race, on an incomplete environment, or on a number that another user has |
| `chain` | 3 instances at once, 1 environment, 2 telephone numbers, 1 crash | `EveryStartEnds`, `SomebodyServes` | concurrent starts never all lose, unless the administrator's number is another user's |

Bounds. Every property relates at most two requests and what a third one does
to the rows they share; three concurrent requests give every pair an
interfering third, and all circles of waiting that involve two users and a
foreign key. Two attempts show a retry; the third shows that the answer to a
retry does not drift. Two wallets give opposite transfers; two keys give
requests that contend for rows and not for a key. Balances are small enough
that insufficient funds, exact funds and overflow all happen. User ids and
wallet ids sort in opposite orders, and all advisory keys hash to one value,
the worst collision.

In `onboarding` every pair of jobs may share one identity, both or neither, and
two more jobs interfere; the two administrators of the environments contend for
one telephone number crosswise, which is the only way to deadlock. `screening`
needs one listed identity of each kind, as they are asked for in turn. Sessions
of `Access` share nothing but rows, so that the properties of one say all; two
users tell a token's owner from others. The clock stops at `MaxTime`: four ticks
let a token of two expire before, during and after a request, and a second one
be signed. In `amounts` three digits before the
point stand for thirteen: the pattern treats the first digit, the others and the
limit differently, and nothing else; 0, 1 and 9 are the digits that carry,
count and overflow. Crashes and reverts are counted over all processes:
two of each allow one on top of the consequences of another. `deploy` starts
from every earlier state of the schema, with each number anybody's; two numbers
let the administrator have one and another user, or another environment, the
other. In `chain` all instances have the same environment, and the second number
is another user's, or the administrator's before the deployment.

Fairness. `FairSpec` has weak fairness of `Serve(r)`, everything the server does
for a request: an event loop runs every continuation that is ready, and
PostgreSQL grants row locks and the pool grants connections in the order of
arrival. Clients are not fair (they may never send), and connections need not be
lost. As every client sends finitely often, a lock that is free again and again
is in the end free for good, so weak fairness is enough where the queues would
otherwise have to be modelled. `EveryRequestAnswered` counts a lost connection
as an end: the client sees it.

In `Onboarding` the provider is not fair: it may never answer, and only the time
limit of `fetch` (`ScreeningFails`) is sure to come. In `Access` nobody needs to
log in, and the clock need not tick: `BlockedStayOut` does not rely on tokens
expiring. In `Deployment` each script runs to its end, but nobody is assumed to
start an instance or to restart one that has failed.

Deadlock checking is on in every run: the only state without a step of its own
is `Finished`, where everything was sent and answered.
`Access`, `Money` and `Deployment` never stop: clients, clock and platform go on.

### Findings

`BlockedActorPowerless` fails: `updateStatus()` trusts the actor that
`JwtAuthGuard` read before the transaction began, and does not read the status
again under a lock, as `create()` and `fund()` do. An administrator who has been
blocked in between still blocks or unblocks others, while the repository's
README says that a blocked user cannot use an existing token. The proofs show
that the same staleness does no harm to money (`BlockedAccountsFrozen`).

`ScreenedOnly` fails in `unclear`: `check()` of the Adjutor provider refuses
every status that is neither 2xx nor 404 and every body that is not JSON, but
takes a 2xx with any other `status` than `success`, or without `data`, for "not
blacklisted". The repository's README says that integration errors fail closed.
An error reported in a 2xx body fails open. Without such answers the property
is proved (`NobodyUnscreened`).

Some smaller observations, which no run reports as a violation. The repository's
README says that simultaneous retries are serialized by the uniqueness
constraint: the proofs show that the locks on the wallet do it alone, and that
no insert ever waits for another (`NoInsertWait`). Its claim about opposite
transfers holds (`DeadlockNeedsBlock`), yet a block can still deadlock with
another block or a transfer of its actor, through the foreign key of
`blocked_by_id`; PostgreSQL then fails one of them with an error. Seeds deadlock
only when two configurations swap a telephone number between two administrators.
On a new database, of several instances that start at once one migrates and one
seeds, and the others exit with an error: they need a platform that restarts
them. Restarting is not enough in one case: with an `ADMIN_PHONE` that another
user has, be it a customer or an administrator of an earlier `ADMIN_EMAIL`, the
seed fails on `UQ_users_phone` at every start and no instance with this
environment comes up until it is changed (`FailuresExplained` names the case,
`SomebodyServes` excludes it). Every start of an instance reactivates an administrator who is configured
and was blocked: `SyncAdmin` in `Registry` promises just that. A balance of more
than thirteen digits before the point is shown, and cannot be sent in one
transfer.

## Proofs

### The ledger

All theorems are about `Spec` and hold for every number of requests, accounts,
keys, attempts and connections, from the named assumptions in `LedgerTypes` and
`WalletLedger`: keys and references differ from their placeholders, valid money
requests have a key and a positive amount, there are finitely many accounts
(needed for the sum of all balances only), and locks of different rows have
ranks that put advisory locks before users before wallets, with users and
wallets ordered among themselves (`RankAssumption`).

`EntitiesCurrent` and the others are not inductive. `WalletLedgerProofs` builds
the strengthening in layers, each an invariant proved from those below it:

1. `Types`: `TypeOK` and what a request has passed by the time it is at a stage
   (role, accepted input, kind of operation).
2. `Locks`: a lock has one holder; a transaction past `locking` holds its whole plan.
3. `Known`: what `current` and `dirty` can be at each stage, and that a decided
   outcome follows from the entities (`Judged`).
4. `EntitiesCurrent`: entities equal the committed rows, because only a holder
   of the row commits to it.
5. `Keys`: one row per key, no committed row for a key whose insert is under
   way (the wallet lock keeps the others out), references never reused.
6. `Told`: every answer was read from a committed row of its key.

`StepCases` splits a step into the step of one request, `Locality` says that it
leaves the private state of the others alone; each layer then has one lemma about a
step. From the layers follow the theorems listed in `PROJECT.json`:

| Theorem | Property |
|---|---|
| `TypeCorrect` | `TypeOK` |
| `NoLostUpdate` | `EntitiesCurrent` |
| `IdempotencyKeys` | `OnePerKey` |
| `RetriesAnsweredAlike` | `RetriesAgree` |
| `NeverPending` | `NothingPending` |
| `BlockedFrozen` | `BlockedAccountsFrozen` |
| `Serializable` | `ActsAtomically`: a commit maps to a step of `AtomicLedger`, everything else but an answer to a stutter |
| `BalancesReconcile` | `LedgerReconciles` |
| `NoMoneyMade` | `MoneyConserved` |
| `DeadlockNeedsBlock` | `NoMoneyDeadlock`: among requests without a block, the one that waits for the highest rank would wait for a holder who waits for a higher one |

`BalancesReconcile` and `NoMoneyMade` are in `WalletLedgerTotals`. Their
induction is over the refinement: a step maps to a step of `AtomicLedger` or a
stutter (`StepRefines`), so all it can do to balances and rows is to book one
accepted row that was not there, with what this row moves (`StepsBook`). The
sum over the rows then grows by `Delta` of that row (`SumExtended`), and the sum
over the wallets changes at one account, by what was funded, or at two by
opposite amounts (`NetOfRow`, which needs sender and recipient to differ: the
check in `create()`). The invariants behind them are `Layers`, layers 1 to 5,
with `IsFiniteSet(records)`.

### Onboarding

For any numbers of registrations, deployments and identities, from
`OnboardingAssumption` (registrations are not deployments, e-mails are not
telephone numbers, forms and environments are of their types). The inductive
invariant `Inv` is the conjunction of:

1. `TypeOK`;
2. `Drafts`: what a job has written at each stage: its own new row, or a version
   of the committed row of its administrator whose identities it holds;
3. `Exclusive`: an identity is entered by one job, and then committed by no row
   but the one this job replaces;
4. `Unique`: committed rows share neither id nor identity;
5. `Fresh`: a job has an account once it has committed and not before, and what
   it is told agrees;
6. `Funded`: exactly the committed users have a wallet, and a job opens one only
   for a user without.

`OneAccountPerIdentity` is not inductive alone: that a commit keeps it follows
from what the job holds in the indexes, which is what `Drafts` and `Exclusive`
say. `StepCases` reduces the actions to four kinds (a job advances, commits,
stops, or somebody else writes), each with one lemma.

| Theorem | Property |
|---|---|
| `OnboardingTypes` | `TypeOK` |
| `IdentitiesUnique` | `OneAccountPerIdentity` |
| `NobodyUnscreened` | `ScreenedOnly`, if the provider is never unclear (`Garbled = {}`); by `Cleared`: what a job has passed was off the list |
| `OnboardingRefines` | `KeepsPromise`: a commit is `Register`, `CreateAdmin` or `SyncAdmin`, an end is `Tell`, all else stutters |
| `RegistrationsDeadlockFree` | `NoClientDeadlock`: by `InsertsInOrder`, a registration that waits for a telephone number holds only its e-mail |

### Access

For any numbers of users, sessions and passwords and any life of tokens, from
`AccessAssumption`. The invariant: a handler at `verify` or `decide` holds one
row, which is among those its user had since the request arrived (`Timely`), and
the request belongs to a user (`Placed`); a token belongs to a user and expires
one life after the login that signed it (`Owned`), and a request whose token has
been verified arrived before that (`Live`, for which no request may arrive in
the future). `LoginsJustified` and `RequestsJustified`, which relate a decision
to the history, then follow from the two guards of the step, and `TokensExpire`
from `Owned` and `Live`. The types of the variables (`TypeOK`) are part of the
invariant and not a theorem of their own.

| Theorem | Property |
|---|---|
| `TokensShortLived` | `TokensExpire` |
| `LoginsTimely` | `LoginsJustified` |
| `RequestsTimely` | `RequestsJustified` |

### Deployment

For any numbers of instances, telephone numbers, crashes and reverts and any
environments, from `DeploymentAssumption` (the operator is not an instance,
environments are made of the two parts and a number). The statements of the migrations are concrete, so lemmas
first say what each sequence creates or drops (`Created`, `Dropped`), what the
schema is after the first `n` (`Schemas`), that what is pending completes it
(`PendingCompletes`) and that reverting the `n`-th leads back to `n - 1`
(`RevertGoesBack`). The invariant `Inv` joins the types (`Shape`), the schema
(`SchemaMatchesJournal`), what an instance has at each stage of its chain
(`Chained`: while it migrates, what is there, done and left to do is the whole
schema) and that a revert runs alone with what its migration created (`Alone`).
`Orderly` adds that what is left to do can be executed in its order
(`Executable`), unless another instance has committed: so a `CREATE` fails only
if the schema is complete already. No step takes the user with `ADMIN_EMAIL`
away but a revert, which runs alone: a seed that found it moves its number, and
a registration takes a free one (`SeedStep`, `RegisterStep`).

| Theorem | Property |
|---|---|
| `DeploymentTypes` | `TypeOK` |
| `SchemaIntact` | `SchemaMatchesJournal` |
| `OnlyCompleteServe` | `ServesComplete` |
| `OnlyExplainedFailures` | `FailuresExplained` |

### Money

For any limit on the digits before the point and any characters, from
`MoneyAssumption` (the characters are those of the module), and for texts of any
length. The lemmas follow a text through both conversions:

1. `Numerals`, `Numbers`, `Readings`, `Powers`: the recursive functions are what
   their definitions say, and typed.
2. `NumberOfNumeral` and `NumeralOfNumber`: `toString()` and `BigInt()` are
   inverse, on digits without leading zeros (`Plain`); `NumeralLength`: a number
   has at most `k` digits just when it is below the `k`-th power of ten.
3. `MatchesSays`: what the pattern matches is the digits `m` of a whole number,
   then none, one or two decimals, and so says `m`, `a` tenths and `b`
   hundredths (`Says`).
4. `SaysTaken`: a text that says this is taken for `Value(m, a, b)`, and the
   reference reads it so; one lemma for each number of decimals.
5. `WritesSays`: the ways to write a number are the texts that say its digits.

`TakenIsWritten` and `WrittenIsTaken` join them, and the invariant `Inv` says
that the amount and the text shown are those of the two conversions.

| Theorem | Property |
|---|---|
| `MoneyTypes` | `TypeOK`: amounts are positive and below the limit |
| `ParsedExactly` | `AmountsExact` |
| `TakesNothingElse` | `TakesExactly` |
| `ShownAmountsReturn` | `ShownIsAmount` |

### Induction

Sums and conversions are defined by recursion, and the induction theorems of the
library take the induction hypothesis as an operator, which the provers in use
cannot instantiate. `Foundations` states induction with sets instead: a set of
numbers with 0 and all successors is `Nat` (`NatInductionSet`), proved from the
existence of minimal elements (`WFMin`). From it follow that a function defined
by recursion along a falling rank exists and obeys its definition
(`RecursionExists`), which every recursive function of `Money` instantiates, and
that the folds behind `SumFunction` are independent of the order of summation
(`AnyFirst`), with the laws that `WalletLedgerTotals` uses: a value more, one
value changed, two values changed.

### What is only model-checked

Liveness, which rests on fairness and `ENABLED` and is out of the prover's
reach: `EveryRequestAnswered`, `EveryJobEnds`, `BlockedStayOut`,
`EveryStartEnds` and `SomebodyServes`. Every other property of a passing run is
a theorem.

## Not modelled

- Health checks: a constant and a `SELECT 1` that nothing depends on.
- Wiring (`*.module.ts`), CORS, headers, API documentation, request validation
  of formats other than amounts: no state, and no property here tells the cases
  apart. The pipe's refusals are `valid` in `WalletLedger`.
- The rate limiter: a library with counters per process; it only refuses
  requests before any handler sees them.
- Signatures, hashes and random references are taken to be unforgeable and
  never to collide.
- Queries of serving instances that wait while a migration of a newer release
  holds a table: there is one release in the repository, and its migrations are
  modelled as run before it serves.
- Read-only routes beyond what they may see (`NothingPending`).

## What could come next

Several processes with pools of their own in `WalletLedger`; proofs that a
request which has all its locks is never refused one again, the safety half of
`EveryRequestAnswered`.
