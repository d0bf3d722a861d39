# Verification of tesserix-home

TLA+ models of the parts of this repository where order, failure and
concurrency decide whether the program is correct, the TLC runs that check them
on small instances, and proofs (TLAPS) of what matters most for every instance.
Paths below are relative to `src/`; `PROJECT.json` maps every definition to its
lines.

Seven subsystems are modelled:

- **publishing the plan catalog**: a draft in Postgres becomes Stripe calls, which
  a human confirms and an executor makes one at a time; two systems that share no
  transaction have to end up agreeing;
- **tenant pricing overrides**: a discount for one tenant lives in Stripe, in
  Postgres, in the audit log and at the product (mark8ly), written one after another;
- **operator and machine tokens**: refresh tokens that rotate, renewed under a row
  lock held across a call to the identity provider;
- **the CRM**: people who may be erased or suppressed, deals that move, and the
  transactions that interleave on them;
- **paged lists**: keyset pages of lists that are written while they are read;
- **idempotent writes** of platform-api: retries and double submits over a small
  connection pool;
- **AI usage ingest**: an at-least-once stream into a ledger that counts once.

## 1. Inventory

| component | where | state | operations | what is hard | what makes it correct |
|---|---|---|---|---|---|
| Publish plan and guards | `apps/console/lib/billing/{parity,publish-plan,publish-guards,source-policy}.ts` | none (pure) | compare, plan, fingerprint, check guards | Stripe's immutability rules, zero-decimal currencies, thresholds | the plan can be executed, converges in one publish, asks before big moves |
| Catalog publishing | `apps/console/lib/db/publish-repo.ts`, `lib/billing/{publish-executor,orphans,stripe-read}.ts`, `lib/billing/mark8ly/stripe-write.ts`, `app/(console)/platform/billing/catalog/actions.ts`, migrations 0032, 0035, 0038 | revisions, rows, publications, attempts, operation log; Stripe's Prices and Products | create, edit and discard a draft; review, confirm, publish, promote; report orphans | concurrent requests, crashes between two calls, lost replies, edits during a publish | one writer per account, a log that explains Stripe, convergence, nothing sold goes off sale |
| Tenant pricing overrides | `apps/console/lib/{tenant-pricing-override-write,tenant-discount-write}.ts`, `lib/db/tenant-pricing-overrides-repo.ts`, migration 0047 | override rows; Stripe coupons and idempotency keys; discounts at mark8ly | grant, revoke | four services, no transaction across them; late answers; a replayed Stripe key | nothing is on a subscription that no row names; a live row can be applied; a revoke is final or says that it is not |
| Operator tokens | `apps/console/lib/auth/{operator-token-store,platform-token,operator,deadline}.ts` | one row per session, the cookie; the grant at Zitadel | sign in, read, refresh under the row lock, re-check capabilities, sign out, prune | rotation, two tabs refreshing, lost answers, sign-out during a refresh | a spent token is never presented again unless an answer was lost; signed out stays out; no stale capability; everybody is answered |
| Machine token | `apps/console/lib/auth/machine-token.ts` | one cached token, one mint in flight | get, mint, expire | requests that find it expired together | one mint at a time, nobody waits for ever |
| CRM | `apps/console/lib/db/crm-*.ts` | organisations, contacts, suppressions, erasure register, deals, activities, conversions | create, correct, promote, erase, import, suppress; stage moves, voids, next actions, outreach, conversions, deletion | transactions that check, then write; a NOT VALID constraint; a hash key that comes and goes with deployments | nobody whose erasure is recorded comes back, edited text to an erased person is flagged, stage logs chain, voided deals rest |
| Paged lists | `apps/console/lib/db/{keyset-cursor,crm-queue-repo,crm-browse-repo}.ts`, `platform-api/internal/platform/paging`, `modules/{crm,tickets}/internal/repository` | none: the cursor carries the position | first page, next, previous | two reads of two snapshots, mirrored order, ties, precision of the cursor | each row once per walk; pages tile the list |
| Idempotent writes | `platform-api/internal/platform/{write,idempotency,audit}` | idempotency rows, audit rows | run an operation once per key | retries racing the original, cancelled commits, a pool of two | one landing per key, the same answer to each retry |
| platform-api modules | `platform-api/internal/modules/*` | one table each | request handlers over the idempotent write | reads without a lock | modelled for tickets: the stamp of a resolution is the first one's |
| AI usage ingest | `platform-api/internal/modules/aiusage/internal/ingest` | JetStream stream, ledger, hourly roll-up | receive, publish, consume, write, ack | redelivery, deduplication window, partial export, outage | an event counts once, and is not lost while deliveries last |
| Audit trail | `apps/console/lib/db/audit-repo.ts`, `platform-api/internal/platform/audit` | append-only entries | append | the console's entry follows the effect | modelled where it decides what happens next: overrides, `write.Perform` |
| Parity runs and bootstrap | `apps/console/lib/billing/{parity-run,bootstrap,...}.ts` | report rows | nightly comparison, seeding of an empty account | reruns | not modelled |
| Login throttle | `apps/console/lib/db/login-throttle.ts` | counters | record failure, check | windows | not modelled: degrades to no throttle by design |
| Promo codes | `apps/console/lib/db/promo-codes-repo.ts` | coupon rows | insert, deactivate | - | not modelled: single statements on immutable rows |
| Federation fan-out | `platform-api/internal/platform/federation` | none | parallel reads | partial answers | not modelled: one slot per product |
| Console pages and session | `apps/console/{middleware.ts,app,lib/platform-api.ts}` | cookies | render, route | - | not modelled |
| Public site, mobile | `apps/web`, `apps/mobile` | - | presentation | - | not modelled |
| platform-auth, secrets-api, packages | `platform-auth`, `secrets-api`, `packages` | - | token verification, secret reads, constants | - | not modelled |

**Interactions.** The server actions of the console call its repositories
(Postgres), Stripe and mark8ly. Postgres serialises what takes a lock
(`createDraftFrom` and `startPublishAttempt` advisory locks, `SELECT ... FOR
UPDATE` of a deal, a contact or a token row, the uncommitted unique keys of
`write.Perform` and of the ledger) and nothing else; the models hold exactly
these. Stripe, Zitadel, mark8ly, JetStream, the gateway and the people who click
are outside the program and are modelled by what the code relies on.
`PROJECT.json` lists the hazards at their lines, with the properties that
cover them.

## 2. Modules

```
PublishPlan <- CatalogPublish <- MCCatalogPublish
PublishPlan <- MCPublishPlan
MCCatalogPublish, MCPublishPlan, PricingOverrides <- MCBilling
OperatorTokens <- ConsoleTokens <- MCConsoleTokens
CrmContacts <- Crm, KeysetPaging <- MCCrm
PerformWrite <- TicketWrites (INSTANCE WriteOnce) <- MCTicketWrites
AiUsageIngest <- MCAiUsageIngest

PublishPlan <- PublishPlanProofs
CatalogPublish, PublishPlanProofs <- CatalogPublishProofs
MCPublishPlan, PublishPlanProofs <- MCPublishPlanProofs
PricingOverrides <- PricingOverridesProofs
ConsoleTokens <- ConsoleTokensProofs
Crm, KeysetPaging <- CrmProofs
TicketWrites <- TicketWritesProofs
AiUsageIngest <- AiUsageIngestProofs
```

`A <- B`: B extends A. The MC modules hold the instances, the Proofs modules the
theorems. `MCPublishPlan` leaves its amounts and tax behaviours to the cfg, so that its
theorems are about every instance. `MCBilling` puts the three parts of the billing console side by
side, which share no row and no price: its variable `work` says which one a behaviour is about, and the constant `Works` which ones an instance has.

### PublishPlan
The planner. A lookup key is its rank in `lookup_key` order; what a key costs is
a *coverage*, a function from currencies to a cell (amount, tax behaviour) or
`None`. An observation is one Price view per key, or `None`.

| definition | code |
|---|---|
| `MissingInStripe` ... `TaxMismatch`, `Agrees` | `compareCatalogToStripe`, a clean report |
| `StripeAmount`, `StripeCell`, `StripeRow` | `toStripeUnitAmount`, `toStripeRow` |
| `NeedsReplace`, `TaxRequiresReplace`, `ResolveBaseline`, `BuildPublishPlan` | `buildPublishPlan` |
| `Precedes`, `NextCalls` | the order of operations, and of the calls inside one |
| `Fingerprint` | `computeObservationFingerprint` |
| `Refused`, `Intended`, `Breadth`, `Magnitude`, `RequiresConfirmation` | `checkGuards` |

A plan is the *set of Stripe calls* its operations make; a replacement is two
calls, so that the executor can be interrupted between them. The division by
100 of a zero-decimal currency is exact because Stripe amounts are counted in
hundredths of Stripe's unit: an amount that Stripe would have to be sent as a
fraction stays visible (`Payable`) instead of being rounded away.

### CatalogPublish
State: `revs`, `basedOn`, `rows`, `live`, `published` and `attempts` (with their
operation logs) are the Postgres tables; `stripe` and `products` the accounts, one
per mode; `pc` and `job` the `publishAction` requests in flight (their local
variables); `editor` a `setDraftAmount` transaction in flight. A step is one
database transaction or one Stripe call, so any other request, an edit or a crash
may come between two.

| action | code |
|---|---|
| `Review` | `planPublishAction`: the plan and the rules shown to the operator |
| `Confirm`, `Refuse` | `publishAction` plans again and compares breached with acknowledged rules; `Refuse` is also a missing capability or a closed dialog |
| `StartPublishAttempt`, `StartRefused` | `startPublishAttempt`: advisory lock, one open attempt per mode |
| `Reobserve`, `ReobserveMoved`, `FinishAborted` | the executor's fresh observation, its fingerprint check, the abort |
| `RecordOperation`, `OperationSkipped` | `recordOperation`, the write-ahead row; no Product, or no log |
| `StripeAnswers`, `StripeReplyLost`, `StripeRefuses` | the Stripe call and what the client sees of it |
| `CompleteOperation`, `CompletionFails` | `completeOperation`; `OperationLogWriteFailure` |
| `FinishPublish`, `PromotePublication` | `finishPublishAttempt`; `promotePublication` |
| `CreateDraftFrom`, `DiscardDraft`, `EditCheck`, `EditWrite` | the draft's actions; the edit is a check and a write, as in the code |
| `DashboardArchive`, `DashboardCreate`, `Crash` | the environment |

Stripe is modelled from how the code uses it: an active Price holds its lookup
key alone and `transfer_lookup_key` moves it, a currency option can only be
added, a tax behaviour can leave `unspecified` once, an amount never changes,
amounts are whole units. `Events` switches the environment's behaviour on for
an instance (refusals, lost replies, log failures, crashes, the Dashboard), so
that a run asks one question.

Abstractions that a reader should know:
- the reads of one observation (catalog, draft, Stripe) are one step;
- a call that timed out has either landed or never will;
- `createDraftFrom` reads and writes in one step, under its advisory lock;
- the id of a created Price is not copied into its log row: nothing reads it;
- idempotency keys and the gaps in operation sequence numbers are not modelled,
  because an attempt never repeats a call and a new attempt uses new keys;
- audit entries, the parity-rerun action, coupons, products' names and intervals
  are left out.

### PricingOverrides
State: `ledger` is the table of override rows, `coupons` and `minted` Stripe's
coupons and idempotency keys, `discounts` what the product put on the
subscriptions, `late` the requests it may still act on after their caller gave
up, `call` the server actions in flight. One statement or request is one step.

| action | code |
|---|---|
| `Grant`, `Mint`, `MintRefused`, `MintUnanswered` | `grantTenantPricingOverride`: checks, then `createCoupon` under a key made of the terms |
| `Record`, `RecordRefused`, `RecordUnanswered`, `AuditMint` | the row (one live row per tenant, a unique index), `auditedOperation` |
| `Attach`, `AttachUnanswered` | the product's apply call |
| `Revoke`, `Retire`, `RetireNothing`, `RetireUnanswered`, `AuditRetire` | `revokeTenantPricingOverride`, `retireTenantOverrideCoupon` |
| `Detach`, `DetachUnanswered`, `Delete` | the product's call, `deleteCoupon` |
| `LateArrives`, `ConsoleStops` | the product acts late; the console stops |

### OperatorTokens, ConsoleTokens
State: `row` is the session's row of `operator_api_tokens`, `cookie` what the
session cookie carries, `saving` and `deleting` the sign-in's and the sign-out's
write before they take effect, `zitadel` the grant (roles, current refresh token,
whether a spent one was presented), `late` the refreshes whose sender gave up,
`req` the requests in service. `ConsoleTokens` adds the machine token
(`cached`, `inFlight`, `mints`) and the requests that need it.

| action | code |
|---|---|
| `SaveLands`, `SaveLost`, `SignOut`, `DeleteLands`, `DeleteLost` | the callback and the logout route: best-effort writes |
| `ReadToken`, `ReadCapabilities`, `StoreUnavailable` | the unlocked first reads, and their fallback to the cookie |
| `Connect`, `Lock` | `renewUnderLock`: a connection, then `FOR UPDATE`, then what the row says now |
| `ZitadelAnswers`, `Commit`, `Refused`, `DeadlineEnds`, `GiveUp`, `LateArrives` | the refresh under the lock, its outcome, `withDeadline`, an answer after it |
| `AccessExpires`, `WindowPasses`, `RolesChange` | time, and the roles at Zitadel |
| `ArriveMachine`, `ResolveMachineToken`, `MintSucceeds`, `MintFails`, `CachedExpires` | `machine-token.ts` |

### CrmContacts, Crm
State: the tables `organisations`, `contacts`, `suppressions`, the erasure
`register`, `outreach` (templated DMs), `deals`, `stageLog`, `conversion`;
`hashKey`, whether the deployment has the key that recognises erased people; `tx`,
the transaction of each operator; `forgotten`, a history of the keys that erasures destroyed, with
whether the erasure had read them. Reads without a lock and the writes that follow
are separate steps; a row locked FOR UPDATE, or written and not committed, blocks
who needs it. `desk` chooses the operations that run side by side and the data they
start from.

| action | code |
|---|---|
| `AddSuppression`, `RemoveSuppression`, `Redeploy` | `crm-suppressions-repo.ts`, the environment |
| `EraseRead`, `EraseWrite`, `EraseFindsNothing` | `eraseContact`: the CTE `old` reads the statement's snapshot; the UPDATE waits for the row, nulls what the row holds by then, and registers what the CTE read |
| `CreateCheck` ... `CreateRefused`, `UpdateContact*`, `SetPrimary*` | `crm-writes.ts` |
| `ImportBegin`, `ImportCheckErased`, `ImportMatchOrCreate`, `ImportRefused`, `ImportDuplicate`, `ImportCommit` | `commitImport`: row by row, one transaction |
| `AdvanceStage*`, `SetNextAction*`, `Void*`, `Restore*`, `DealRefused` | `crm-write-repo.ts`, `crm-void.ts` |
| `LogCheck`, `LogWrite`, `LogRefused`, `DmCheck*`, `DmWrite`, `DmRefused` | `crm-outreach.ts`: checks outside, writes inside the transaction |
| `LinkOrganisation`, `LinkCommit`, `CreateOpportunity`, `DeleteOrganisation`, `DateComes` | `crm-handoff-repo.ts`, deletion, time |

### KeysetPaging
A reader opens a list and turns its pages. A page is a count and a fetch of
`limit + 1` rows beyond the cursor's anchor, of two snapshots: the console starts
both at once (`Promise.all`), the API counts first. State: the `table`, the
`request` being read, the `page` on the screen with its two cursors; `walk` is a
history of what one direction has shown.

| action | code |
|---|---|
| `OpenList`, `TurnPage` | a request without, or with, a cursor (`decodeKeysetCursor`, `paging.Decode`) |
| `CountRows`, `FetchRows` | the two statements of `queuePage`, `listOrganisations`, `List` |
| `ShowPage` | trimming, the preceding count, both cursors (`Trimmed`, `PrecedingCount`, `HasNext`, `HasPrevious`) |
| `WriteRow` | any request that puts a row in, out of or elsewhere in the list |

`Rendered` is the one place where console and API differ in precision: the
console's `toIso` of a `Date` keeps milliseconds of the microseconds that Postgres
stores, the API's RFC3339Nano keeps them all. `Ordered` is ORDER BY: a row stands at the place
that the number of rows nearer the anchor gives it (`PlaceOf`), which needs no recursion and can be
reasoned about.

### PerformWrite, TicketWrites, WriteOnce
`PerformWrite` is `write.Perform`: look the key up (`Lookup`), take a connection
(`Begin`), run the operation (`Worked`, `Fail`), insert the key (`Record`), which
waits for whoever holds it and loses to whoever committed it
(`ReplayStored`), and commit (`Commit`), with a client that may give up during the
commit (`Detach`, `DetachedLands`, `DetachedRollsBack`). `TicketWrites` is the
operation: `SetStatus` and replies of the tickets module, with the row lock of their
UPDATE (`TicketFree`) and the status they read before it. `WriteOnce` is the
promise to clients: a key lands at most one write, and every answer with it names
that write. `TicketWrites` implements it under
`effects <- Effects`, the audit rows that were committed.

### AiUsageIngest
State: `export` (the gateway's batches), `stream` (messages with their deliveries),
`window` (message ids JetStream still remembers), `writer` (where each consumer is in
`Consume`'s callback and `Write`'s transaction), `events` and `hourly` (the ledger),
`database`.

| action | code |
|---|---|
| `Send`, `Publish`, `PublishFails`, `Accept`, `GiveUpBatch` | the gateway; `receiver.go` record by record |
| `WindowPasses`, `Deliver` | the duplicate window, a delivery (at most `MaxDeliver`) |
| `InsertEvent`, `UpsertHourly`, `CommitEvent`, `WriteFails`, `CommitUnanswered`, `Ack` | `writer.go` and the callback of `stream.go` |
| `CrashWriter`, `DatabaseFails`, `DatabaseReturns` | the environment |

## 3. What the runs check

| run | instance | question and answer |
|---|---|---|
| `Faults` | publishing: 1 key, 2 modes, 2 requests, draft created, edited, discarded; refusals, lost replies, log failures, crashes. Or one tenant's price: 3 calls, each a grant or a revoke, 2 sets of terms, 2 coupons | all hold. Publishing: types, `OneWriterPerMode`, `LogMatchesOutcome`, `PublishedWereExecuted`, `OrphanMeansUnfinished`, `WriteAheadExplains`, `ConvergedOnSuccess`, `KeysStayOnSale`. Overrides: `OverridesTypeOK`, `NoSilentOrphan`, `LiveRowsAreUsable`, `RevokedMeansOff` |
| `Kinds` | publishing: 3 keys, usd and jpy, live mode, every kind of operation; refusals, lost replies, the Dashboard. Or planning: one of the keys, amounts 4, 5, 6, two tax behaviours, every catalog x draft x Stripe | all hold. Publishing: `AttemptsClose` (liveness) when nothing crashes, `ArchiveSparesWhatIsSold`. Planning: `PlanExecutable`, `PlanConverges`, `BigMovesNeedConfirmation` |
| `Tokens` | 2 requests at a time, any number after them, 2 connections, a role change, a rotation | all hold: types, `SpentTwiceOnlyAfterLoss`, `RowKeepsCurrent`, `SignedOutStaysOut`, `OneMintInFlight`, `StoreAnswersAreRecent`, `EveryRequestAnswered` (liveness) |
| `Crm` | 2 operators at one of four desks, 3 transactions, 2 organisations, 3 contacts, 2 deals; or a reader of a list of 5 rows, 2 per page, of the console or the API, up or down | all hold: types, `ImportSparesTheForgotten`, `ResidualSurfaced`, `StageLogChains`, `NoRawCheckViolation`, `VoidedDealsRest`; `WalkShowsEachRowOnce`, `QuietSessionsPageTheList` |
| `Writes` | 3 calls, 2 at a time, 1 key or none, 3 requests, a connection to spare | all hold: types, `LandsOnce`, `StampIsFirstResolution`, `EveryCallAnswered` (liveness), `KeepsThePromise` (refinement of `WriteOnce`) |
| `Ingest` | 1 batch of 2 spans, retried once, 2 writers, 3 deliveries | all hold: types, `RollupCountsEvents`, `AcceptedIsCounted` (liveness) |
| `CrashLease` | 1 request, crash, operators retry | violated: after a crash the attempt stays open and blocks its mode |
| `EditAfterConfirm` | edits | violated: the executor runs a plan nobody confirmed |
| `DoubleSubmit` | 3 calls at once, pool of 2 | violated: they wait for each other |
| `Outage` | 1 span, 1 writer, 5 deliveries | violated: the span never reaches the ledger |
| `ErasureOvertaken` | 2 operators who erase, correct or delete | violated: an erasure that waited for a correction registers the identifier from before it |
| `TiedDates` | the due queue of the console, dates inside one millisecond | violated: Next shows rows again |

**Bounds.** *Publishing*: two modes show that attempts of different accounts do not
interfere; two requests are the smallest number that can race, and the lease is
proved for any number. Two attempts let a second publish meet everything a first
one left half done; two revisions let one be live while the other is edited and
promoted. One key suffices in `Faults`, because calls of different keys touch
different Prices; `Kinds` has three so that a plan mixes all six kinds of
operation and the order between them shows. The plans of `Kinds` are of one key because the
planner treats keys separately, apart from the breadth count, and start from an ancestor without tax behaviours (`PlainRows`) because the rules compare its amounts; amounts 4, 5 and 6
hit the quarter threshold exactly (5 from 4 is not more than a quarter, 6 is, and
4 from 6 is on the way down). *Overrides*: a revoke between two
grants, overlapping as they may, is the story of a replayed Stripe key and of a late attach; two terms tell such a key from
a new one; calls, terms and coupons are numbered as they come up (`InTurn`), because nothing depends on their names, and the proofs
are about any number of them. *Tokens*: request slots are used again and again, so two
means two at a time; the pool may always be exhausted by others. *Crm*: two
operators are every pair of transactions; `MaxTx = 3` lets a third one follow a pair;
a migrated, a won and a new deal are the cases of the CHECK;
the desk `Forgetting` has a contact erased while its row is corrected or deleted, which `People` and `Funnel` do apart. *Pages*: five rows
of two per page make a first, a middle and a short last page, two instants make
ties of three and more. `MCLists` has the lists of the API and of the console, ascending and descending,
each with instants that share a millisecond, as `now()` makes them, and the console's besides with whole milliseconds,
as an operator's date picker does. One write falls between any two steps of the reader
(two writes were tried too and find nothing else). *Writes*: three
calls are an original, a double submit and a third that waits behind them. *Ingest*:
two spans of one hour share a bucket row, two writers the durable; three
deliveries instead of five change only how soon they run out, and `Outage` uses five.
`MaxAttempts`, `MaxPrices`, `MaxRefresh`, `MaxRoleChanges`, `MaxTx`, `MaxRowWrites`,
`MaxMessages` and `MaxRetries` bound what the code does not; `Concurrency` bounds the calls
in service.

`CHECK_DEADLOCK FALSE` is set where the system really may stop: a refused plan, calls
that are all answered, a list nobody reads, a stream that is drained. In `MCBilling` plans and
overrides may rest (`Rest`), and publishing may not. `Faults` uses symmetry and checks no liveness.

**Fairness.**
- `FairSpec` of `CatalogPublish`: weak fairness of each request's executor. A server
  action that was taken runs on unless the process dies (`Crash` is not fair).
  Nothing is assumed of operators, except in `CrashLease`, whose `RetrySpec` has
  them come back, so that its counterexample shows that not even persistent
  operators can free the mode.
- `ConsoleTokens`: weak fairness of each request's own steps; strong fairness of
  `Lock`, because Postgres queues those who wait for a row lock and grants it in
  turn although it is free only now and then; weak fairness of `MintFails`, because
  `withDeadline` bounds the wait for the token endpoint's answer and the HTTP
  client's body timeout the rest. Nothing says that Zitadel ever answers.
- `TicketWrites`: weak fairness of each call's steps. No client has to give up, no
  commit has to lose its answer.
- `AiUsageIngest`: the writers work, the stream delivers what it may deliver, and
  outages end (`DatabaseReturns`). The gateway need not retry. The stream's `MaxAge` of 72 hours with
  `DiscardOld` (`stream.go:40`, `:56`) is not modelled: under this fairness a message is acknowledged, or
  out of deliveries, long before. With writers that stay away for three days it would drop what was accepted.

**Properties a reader might misread.** `OrphanMeansUnfinished` says that a
replaced Price that is still billed is always explained by an unfinished attempt's log,
even when `findOrphans`, which looks at archive rows only, misses it; it is checked without
the Dashboard. `ConvergedOnSuccess` compares Stripe with the rows the executor read
(`job.goal`), not with the draft, which may have been edited since.
`SpentTwiceOnlyAfterLoss` allows one exception, which no program can avoid: a refresh whose
outcome never reached the row. `NoSilentOrphan` and `RevokedMeansOff` say that what is
left behind was announced to somebody; they do not say that nothing is left behind.
`AcceptedIsCounted` excuses a span whose deliveries ran out, which is what `Outage`
does not excuse. `EveryCallAnswered` holds in `Writes` because a connection is to spare; `DoubleSubmit` has the default pool.
`OneMintInFlight` counts the console's shared promises: `withDeadline` does not abort the request an abandoned one
made. `RevokedMeansOff` is about calls that were announced as incomplete, as a failed audit entry is; `LiveRowsAreUsable` is not.
`PublishedWereExecuted` does not say which of two promotions in a row is the later publish (below).
`ResidualSurfaced` excuses text written after the erasure by a DM that was checked before it (below).
`ImportSparesTheForgotten` speaks of the identifiers that an erasure had read when it nulled them; those that
replaced them meanwhile are what `ErasuresAreRecorded` is about, and `ErasureOvertaken` shows. `WalkShowsEachRowOnce` speaks of rows
nobody writes during the walk. Where cursors keep their keys (the API, and dates of whole milliseconds) it says that each is
shown once, whichever way the list is read. Where the console cuts them to the millisecond (`KeepsKeys` is false) half of that is left, and is what is
checked: a walk towards later instants leaves no row out, a walk towards earlier ones repeats none. The other half
is false there; `TiedDates` has the trace for the repeated rows. `QuietSessionsPageTheList` makes the same distinction: that each
page is an upright stretch of the list, with its true place, total and neighbours, holds for every list; that the pages are the same
both ways, at multiples of the limit, only where cursors keep their keys.

Each property of a passing run has a mutant in `PROJECT.json`: a plausible bug in a
mapped definition (a dropped lock, a missing reset, a cursor that loses precision, a page
left in fetch order) under which TLC finds it violated.

## 4. Disagreements between code and comments

Six runs end in a counterexample to something a comment of the code says; each
is quoted with its line in `PROJECT.json` under `findings`.

1. `CrashLease`: a crashed request leaves its attempt open; no code ever closes it, so
   that mode cannot be published again without a hand on the database.
2. `EditAfterConfirm`: the fingerprint covers what Stripe holds, not the draft; an edit
   between the confirmation and the executor's read changes the plan that was confirmed.
3. `DoubleSubmit`: the loser of an idempotency key asks the pool for a second connection
   while its transaction keeps the first one and a row lock. With the default pool of two,
   a double submit and one more write of the same row wait for each other until a client
   gives up.
4. `Outage`: a failed write is nak'd for immediate redelivery, five deliveries in
   all; an outage of Postgres that outlasts five attempts in a row drops the span from the ledger.
5. `ErasureOvertaken`: `eraseContact` takes the identifiers it registers from a CTE that locks
   nothing (`crm-erasure.ts:250`). If its UPDATE waits for `updateContact`, READ COMMITTED reads the target row again and not the CTE:
   the identifier from before the correction goes into the register, the corrected one is nulled and registered nowhere, and an import
   of it brings the person back. The comment at `crm-erasure.ts:122` says that there is no such window.
6. `TiedDates`: the console's `toIso` (`crm-row.ts:16`) renders a cursor's sort key through a JavaScript `Date`, in milliseconds;
   keys that `now()` wrote have microseconds, and an inbound reply gives every deal of an organisation the same one.
   The cursor then names an instant before the row's. On an ascending list (due, drifting) the rows of that millisecond come again,
   and a page of rows of one batch leads to itself; on a descending list (closed, browse) the rest of them is skipped.
   `queuePage`'s comment (`crm-queue-repo.ts:275`) says that the id tiebreak excludes this; `queues.go:400` of the API, which renders
   nanoseconds, names this very failure.

### Also met while modelling

Most of these are windows of the models too, where a property that denied them would be false.
They have no run of their own.

- A crash between a replacement's create and the recording of its archive leaves an active
  Price that `findOrphans` (`orphans.ts:22`) never reports: it looks at archive rows.
- `setDraftAmount` (`publish-repo.ts:340`) checks that its revision is unpublished and writes
  later without a lock: a promotion in between makes it rewrite published amounts.
- The attempt closes before the promotion (`actions.ts:805`): a second publish may run in between, and
  the first promotion then overwrites the second's.
- The draft stays editable while it is published (`actions.ts:677` to `:804`): the promoted
  revision may differ from what was written to Stripe.
- A second key of a plan that has a Product is executed as `create_product`
  (`publish-executor.ts:511`), although `publish-plan.ts:565` describes find-or-create.
- The console decides `previousCursor` of a backward page from a count that another snapshot may
  have given: a row inserted in between hides the earlier pages. An empty page offers no Previous
  although rows precede it.
- A templated DM may be written after the suppression or erasure that its checks did not see
  (`crm-outreach.ts:213`, whose comment says it "cannot straddle a suppression"); `late` and
  `suppressed` record it in the model.
- Two operators who promote two contacts at once leave two primaries (`crm-writes.ts:1147`);
  `updateContact` does not look at `erased_at` (`crm-writes.ts:761`).
- `linkConversion` chooses the deal to fill before it holds it (`crm-handoff-repo.ts:366`): it may
  give a product to a deal voided meanwhile.
- A merchant's reply is allowed by the status it read (`service.go:182` of the tickets module) and may
  land on a ticket closed meanwhile; two calls that set the same status both land.
- A grant of the same terms within 24 hours of a revoke gets Stripe's stored answer: the coupon that
  was deleted. It is refused (the row exists), so the terms cannot be granted again that day.
- If the audit entry of a retirement fails, detach and delete are not tried; a recorded coupon whose
  attach failed has no action that applies it later.
- The parity run reads the publication's id before its catalog, so that its report may name another
  publication than the one it compared.

## 5. What is proved

The theorems hold for every value of the constants under the assumptions the modules name
(`PlanAssumption`, `NoneAssumption`, `PublishAssumption`, `RevisionAssumption`,
`AmountsAssumption`; `OverridesAssumption`; `TokensAssumption`; `ContactsAssumption`,
`DealsAssumption`; `PagingAssumption`; `PerformAssumption`, `TicketAssumption`; `IngestAssumption`), which TLC
evaluates in every run. They say that `Null`, `None` and `NoValue` are no value of their kind, that
bounds are numbers, and that the data an instance starts from is well typed.

Every safety property of the passing runs has a theorem.
Each proof gives an inductive invariant; the sections say what it adds to the property and why the
property alone would not do. TLC checked the invariants on the runs' instances before they
were proved.

### The plan (`PublishPlanProofs`, `MCPublishPlanProofs`)

`PublishPlanProofs` has the lemmas: `PlanShape` (every call that `BuildPublishPlan` plans is one
the executor can make), `PlanMeaning` (the calls of a key, by the kind of its operation),
`PlanCovers`, `SaleAfterPlan` and `PlanAgrees` (what a key sells once its calls are applied is what
the draft says), `AgreedNeedsNothing`, `ChangedSale` (a price that moves is in the plan),
`ReplacePairs` (a replacement's archive names the Price that was observed under the key).

- `Converges` (`PlanConverges`): a plan that is not refused brings Stripe into parity with the
  draft, and a second plan on the result is empty. The whole plan is applied, whatever the number
  of keys, so that calls of one key are also shown not to disturb another.
- `Executable` (`PlanExecutable`), `BigMovesAreSeen` (`BigMovesNeedConfirmation`).

Their invariant is `PlanInv`: rows are rows with positive amounts, and a Price that is observed sells
its own currency. A Price without an amount in its own currency would make the plan send that currency
as 0 and never agree; Stripe's `unit_amount` rules it out.

### Publishing (`CatalogPublishProofs`)

| theorem | property | invariant | what it adds |
|---|---|---|---|
| `TypeInvariant`, `TypeCorrect` | `TypeOK` | `TypeInv` | what a request carries: that a call keeps the account well typed depends on it |
| `OneWriter` | `OneWriterPerMode` | `LeaseHeld` | the lease: a request from `startPublishAttempt` to `finishPublishAttempt` has an open attempt of its mode, no two share one, a mode has one; the property alone does not say that two open attempts cannot exist while nobody executes, as after a crash |
| `LogIsEvidence`, `PublishedMeansExecuted` | `LogMatchesOutcome`, `PublishedWereExecuted` | `EvidenceInv` | `RequestEvidence`: by its step, a request's log ends in the call it is making, and a call of it failed exactly when the request knows |
| `WriteAhead` | `WriteAheadExplains` | `EvidenceInv` | that the request whose call Stripe applies has that call pending in the log of an open attempt |
| `ArchivesSpare` | `ArchiveSparesWhatIsSold` | `AimInv` | an archive names the Price its plan captured; the old Price of a replacement has lost its key before its archive is called, because the create comes first and takes the archive with it when it fails |
| `NeverOffSale` | `KeysStayOnSale` | `SaleInv` | the draft that is executed sells the keys of the live catalog, although both may have changed since |
| `OrphansAreExplained` | `OrphanMeansUnfinished` | `OrphanInv` | a key has one active Price (`UniqueHolders`); while the create of a replacement is owed, the Price its archive names holds the key (`Pairs`); archives recorded as succeeded hit (`ArchivesHit`); an orphan is named by an archive in the log, or the archive was never recorded and is owed or was given up (`OrphansExplained`) |
| `SuccessMeansParity` | `ConvergedOnSuccess` | `ConvergeInv` | for each key, what is left of the plan would bring what the account holds *now* to the goal (`OnWay`), as long as nothing failed |
| `LogNamesFailures` | `FailuresAreNamed` (of the proof module) | `AccountInv` | key by key, when calls do fail: a key is still on its way, or the log has a failed call of it, or its plan has no Product; an update names a Price that its key has not left to another |

`SuccessMeansParity` is the strongest of them: it is not about one plan on a quiet account but about a
request that makes its calls one at a time, between edits, discards, promotions, crashes and the
publishes of other modes, on an account that earlier attempts may have left half done. It
needs the lease (nobody else writes to the account), the aim of the archives, the unique holders
and the plan's lemmas: `PlanOnWay` starts the argument at the executor's fresh observation,
`KeyCallOnWay` (one lemma each for creates, archives and updates) carries it over a call, and
`NothingLeft` ends it when no call is left.

`LogNamesFailures` says what is left of this when the attempt does not succeed. The executor goes on
after a failed operation (`runOperation` returns a `failed` result); whenever `finishPublishAttempt`
closes the attempt, the account agrees with the draft on every key except those of which the log has
a call that failed and those whose plan has no Product in the account. So nothing that fails on one
key stops or spoils another, and an operator finds in the log where Stripe and the draft still
differ. The second exception is real: when `create_product` is refused, the prices of that plan
are given up before a row is written for them. So is the hypothesis that the log can be
written: an operation whose `recordOperation` fails is given up without a row too.
It is a theorem only, no run lists `FailuresAreNamed`.

Hypotheses that some of these theorems state, and why the code justifies them:

- `"dashboard" \notin Events` (`WriteAhead`, `NeverOffSale`, `OrphansAreExplained`,
  `SuccessMeansParity`, `LogNamesFailures`): nobody changes Stripe by hand in the meantime. These are
  statements about what the executor does; `ArchivesSpare` and everything before it in the table do
  without. Refusals, lost replies, failing logs and crashes are all allowed.
- `"log_failure" \notin Events` (`LogNamesFailures` alone): see above.
- the initial revisions sell the same keys (`NeverOffSale`): no operation of the catalog adds or
  removes a key; a revision begins as a copy, and an edit sets an amount of a price it has.
- `CleanSeeds` (`OrphansAreExplained`, `SuccessMeansParity`, `LogNamesFailures`): the active Prices an account starts
  with have a key each, and no key twice. The second is Stripe's own rule; a Price without a key is
  none that the catalog made, and would be an orphan that no attempt explains.
- `OwnedSeeds` (`SuccessMeansParity`, `LogNamesFailures`): a Price has an amount in its own currency, as `PlanInv`.

The publishing instance of `Faults`, the run that checks the properties of `WriteAhead`, `NeverOffSale`,
`OrphansAreExplained` and `SuccessMeansParity`, satisfies the hypotheses they state, and so does that instance without `log_failure` those of `LogNamesFailures`:
they are not empty.

### Tenant pricing overrides (`PricingOverridesProofs`)

`TypeCorrect`, `OrphansAreTold` (`NoSilentOrphan`), `LiveRowsApply` (`LiveRowsAreUsable`), `RevokesAreTold`
(`RevokedMeansOff`). The invariant follows a coupon. `CouponInv`: an idempotency key made of the terms
gives each set of terms one coupon, and a deleted coupon has a retired row. `CallInv`: what a call
holds matches its step, so that a row is written once in its life. `RaceInv`: whoever may still
attach a coupon whose row is retired was seen when the row was retired. Without `CouponInv` a grant of
the same terms after a revoke could put a live row on a deleted coupon, which the properties alone do not
exclude.

### Tokens (`ConsoleTokensProofs`)

`TypeCorrect`, `NoTokenSpentTwice` (`SpentTwiceOnlyAfterLoss`), `RowIsCurrent` (`RowKeepsCurrent`),
`SignOutIsFinal` (`SignedOutStaysOut`), `MintsAreShared` (`OneMintInFlight`) and the action property
`AnswersWithinTheWindow` (`StoreAnswersAreRecent`), for any number of requests and connections. The row
lock has one holder and a row under it (`OneHolder`): it spends the refresh token of a row that nobody
else can change. Until a refresh is abandoned, every copy that may still be spent is therefore the
current one (`CurrentKept`), which is what the properties about the row and about spending cannot
say of the moment between Zitadel's answer and the commit. `ReadRecently` says the same of the roles
that a request has read, `MintJoined` of the promise that stands for the one mint.

### CRM (`CrmProofs`)

`TypeCorrect`, `ImportsSpare`, `ResidualsReachAHuman`, `StageHistory`, `ChecksAreMetFirst` and the action
property `VoidsRest`, for any operators, files, rows and desks. The invariant is about what a transaction
may rely on: a row read FOR UPDATE has one holder (`OneHolder`) and is still as it was read (`TxOK`), so
that what is computed from the read may be written; an import has checked each row it takes against a
register that only grows (`ImportOK`) and holds what erasures read and destroyed (`Registered`). An erasure is two steps here too: that its
register entry is of the row's last version cannot be proved, because it is false (section 4). `LogInv` adds to `StageLogChains` that a deal that is
not there has no log, so that one created later starts a new chain.

### Paged lists (`CrmProofs`, last part)

`WalksShowEachRowOnce` (`WalkShowsEachRowOnce`) and `QuietSessionsPage` (`QuietSessionsPageTheList`), for any
rows, instants, limit, lists and number of writes.

- The lemmas are about order. `NearerIsAnOrder`: with the id as tiebreak the keys are in one total order,
  and a backward read turns it round. `PlacesOfRows`, `OrderedRows`: the places of n rows are 1..n, each
  taken once, by counting (an injection between finite sets of one size). `OneOrder`: whatever lists the
  same rows nearest first is that list. `FetchedRows`: what LIMIT + 1 leaves of it; `TrimmedRows`,
  `ShownPage`: what the page makes of that.
- `WalkInv` carries the walk. `Reached` has two halves: what the walk owes on this side of the anchor has been shown
  (`NoneLost`), and nothing beyond the anchor has (`NoneTwice`); a cursor is a key, not a row, so this stays true when
  its row is moved or deleted. `FetchCovers`: what was fetched, perhaps before other rows were written, is still the beginning
  of what the walk owes beyond the anchor. The property alone says nothing of the rows between the read and the
  page, nor of where the next page will start.
- A cursor that is cut to the millisecond lies, with the row it was minted from, on one side of it: the key is never later than the
  row's (`MintedKey`). Reading up, everything the walk still owes is therefore beyond the cursor; reading down, everything it has
  shown is not. That is the half of `Reached` that survives on the console. Where keys are kept both do (`KeptKey`).
- `QuietInv` gives a quiet session its places. Every cursor splits the list somewhere (`Split`, `EveryCursorSplits`); a read brings the
  rows next to the split (`Brings`, by `OneOrder`), the count is its place (`CountOfPlaces`), and the page is the stretch that
  starts, or backward ends, there. Where keys are kept, the split is the row the cursor was minted from, a multiple of
  the limit (`Anchored`).

Neither theorem assumes anything of the lists' instants: the console's microseconds are among them.

### Idempotent writes (`TicketWritesProofs`)

- `TypeCorrect`, `OneLandingPerKey` (`LandsOnce`), `StoredKeysLanded` (a stored key names a write that
  landed and its request), for any attempts, keys, requests and pool. The invariant is
  `TypeOK /\ PlaceInv /\ TrailInv /\ OwnerInv /\ KeyMeansWrite`. `LandsOnce` speaks of the audit trail
  alone, and a commit could add to it; `OwnerInv` says why it cannot: a key has one owner at a time,
  either the attempt that has inserted it and not committed, or the one its committed row names, and
  whoever landed with it is that one.
- `FirstResolutionStamps` (`StampIsFirstResolution`): with `RowInv`, the row of a ticket has one holder
  until COMMIT, and the stamp that its UPDATE computed is still right when it lands.
- `ImplementsWriteOnce` (`KeepsThePromise`): initial states map to initial states; `Arrive` maps to
  `Ask`, a landing to `Land`, the answers of `Lookup` and `ReplayStored` to `Replay`, failures to
  `Fail`, and everything else to a stutter. It needs the invariant: that an answer names a landed write is
  `KeyMeansWrite`.

### Ingest (`AiUsageIngestProofs`)

`TypeCorrect`, `RollupIsExact` (`RollupCountsEvents`), `AckMeansRecorded` (an acknowledged message's event is
in the ledger), for any spans, writers, delivery limit and outages. The roll-up counts the events only
together with what is in flight: `PlaceInv` and `OneInserter` say that a writer that inserted an event
row is the only one to have done so and that the event is not in the ledger yet, so that its commit
adds one to both sides; `Handled` and `stream \in Seq(Message)` give the message it speaks of,
`IsFiniteSet(events)` lets the count be taken.

### Only model-checked

- Liveness: `AttemptsClose`, `EveryRequestAnswered`, `EveryCallAnswered`, `AcceptedIsCounted`. Fairness and
  ENABLED are out of the prover's reach.
- The six disagreements of section 4 are counterexamples and need no proof.

## 6. Not modelled, and why

- Of the CRM: `setLawfulBasis`, `setFollowersCount`, `updateOrganisation`, an organisation without a
  contact, templates, funnel figures and backfills: they write columns no other operation reads, or
  only read. Of the lists: filters, the OFFSET pages of a sorted browse list, the decoding of cursors.
- Parity runs and the bootstrap of an empty account: report rows and a one-off; the comparator they
  call is in `PublishPlan`. Promo codes, and the platform-api modules besides tickets: single
  statements, or `write.Perform` again. The login throttle degrades by design. Federation shares
  nothing.
- Rendering, routing, presentation, wire types and stateless token checks have no state to go wrong.
  They are most of the repository: pages, views, forms, view models and reads make up well over nine
  tenths of its lines, which is why the map covers a small share of them, although it covers the
  operations of the subsystems above.
- Encryption of stored tokens, decoding of spans and prices, wording.

## 7. Plan

Done: the modules above, their runs, and the proofs of section 5. Next:

1. Theorems that say more: a publish that fails or crashes leaves every key in parity or explained by
   the log; `WriteOnce` for the tickets of several products; what a second publish does after a crash
   once the attempt has been closed by hand.
2. Properties for the hazards that have none: the edit that lands after a promotion, a reply on a closed
   ticket, two primaries. The code has these windows, so that a property has to say how far they go.
3. A fence for `CrashLease` once the code has one; the parity runs and the observation window.
