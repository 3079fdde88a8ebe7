# Hacuba: specifications

TLA+ modules for the Hacuba marketplace: three Go services (Auth, Listings,
Support), a discovery worker and a Next.js client. The modules are translated from
the source; paths below are relative to `src/`, and `PROJECT.json` ("map") gives
the lines behind every definition. `tlc -config X.cfg M` runs a model,
`tlapm M.tla` checks a proof module.

## 1. The system

| Component | State | Operations | Specified by |
|---|---|---|---|
| Listings, seller and staff writes (`services/listings/internal/{handlers,listings}`) | `listings`, `listing_images`, `listing_moderation_actions` | create, patch, publish, unpublish, close, archive, image rows; hide and restore | `ListingLifecycle`; on SQLite and in memory `ListingDevStores` |
| Listings, image uploads (`internal/images`, `handlers/listings.go:151-252`, `terraform/main.tf:38-55`) | objects and their tags, presigned URLs, image rows; pending keys and files of the local store | presign, PUT, register, delete; the bucket's expiry | `ImagePipeline`, `LocalUploads` |
| Seller page, photos (`client/src/app/seller/page.tsx:60-67`) | `uploadedImages`, running batches | pick files, upload, fail, reload | `SellerPhotos` |
| Public list (`listings/pagination.go`, `handlers/listings.go:462-489`) | none (the cursor is in the request) | first page, next page | `PublicBrowse` |
| Recommendations (`handlers/listings.go:491-704`, `discovery_profile.go`) | `discovery_profiles`, recent events | profile, viewed listings, "For you", related | `DiscoveryFeed` |
| Discovery worker (`listings/discovery_aggregate.go`, `cmd/discovery-worker`) | `discovery_events`, `listing_metrics_daily`, `discovery_profiles` | record, aggregate a batch, run until caught up | `DiscoveryAggregation`, `DiscoveryDeployment` |
| Auth, accounts and sessions (`services/auth/internal/{handlers,users}`) | `users`, `refresh_sessions` | register, login, become-seller, refresh, logout | `AuthSessions`; on all stores `AuthDevStores` |
| Limits (`auth/internal/handlers/login.go:14-117`, `handlers/listings.go:41-104`, `support/internal/handlers/reports.go:26-37,134-184`) | failures per address; windows per key | check a login, count a failure, allow a request | `RequestLimits` |
| Support (`services/support/internal/{handlers,reports}`) | `support_reports`, `support_report_actions` | file, list, move | `SupportReports` |
| Start of a database (`*/internal/dbmigrate`, `cmd/migrate`; the SQLite stores' initialisation) | `schema_migrations`, advisory lock; SQLite tables | apply files in order; rebuild `dev_auth_users`, add columns to `dev_reports` | `DbMigrate`, `SqliteStartup`, `ServiceStartup` |
| Client session (`client/src/lib/slices/auth.ts`, `app/api/auth/proxy.ts`) | store of each tab, one cookie jar | refresh, login, logout | not modelled (section 7) |
| Validators (`listings/validate.go`, `reports/model.go`) | none | field rules | three groups of fields, in `ListingLifecycle` |

How they meet:

- A client talks to the services through Next.js proxies. Its cookies hold the
  access JWT, the refresh token and the CSRF token; Listings and Support trust the
  role claim of the JWT without asking Auth.
- A seller's handler reads its listing, validates a copy and writes the whole copy
  back (`SaveOwner`), without a version or status condition.
- Staff moderation is one transaction on Postgres (update and audit row) and may quote
  a report id of the Support service, which it does not look up. Staff move reports
  there by requests of their own.
- Images take a way of their own: the service signs a URL, the client PUTs the
  object to the bucket, then asks the service to register it, which promotes the
  object's tag and inserts the row. A bucket rule deletes what is still tagged
  `unregistered`. In development a file takes the bucket's place and no rule runs.
- Events recorded by Listings are moved to counters and profiles by workers that
  share its database with `FOR UPDATE SKIP LOCKED`; the feed reads the profiles, next to
  events that are younger than they are.
- Every service runs on one of several stores, chosen by its configuration when it
  starts: Postgres prepared by a migration runner, a SQLite file it prepares itself, or
  memory. Handlers are the same; what one statement or critical section covers is not.

What makes it hard, and what should hold of each part:

- *Listings*: read-check-save handlers overlap each other and staff; a save is as old
  as its read. Status and `published_at` must match in every row; the moderation
  columns must agree with the audit rows; a listing changes only by its owner or with
  an audit row; a seller must not make public what the publish gate refuses. The
  development stores have no constraints and no transactions: each audit row must still
  be true when it is written.
- *Auth*: tabs and retries present one token at once; answers get lost; logout and
  expiry race a refresh. A token is spent once, a login has one session, an ended
  login stays ended, the role in a token is one the account has, on each store.
- *Limits*: attempts overlap between asking and counting; windows restart at a boundary.
  By how much can a limit be exceeded, whose quota is used, does a block end?
- *Images*: the PUT can come at any time while the URL is valid, more than once, and
  the bucket's clock runs beside everything. No listing shows an object the rule may
  delete; abandoned uploads do go; a whole local file is left alone.
- *Seller page*: batches overlap and fail half way, with a handler possibly still at
  work. The page counts only what has a row; positions have no gaps.
- *Public list*: listings come, go and change price between two pages. A listing nobody
  touched is shown once, and a walk ends.
- *Recommendations*: profile, viewed listings and candidates are separate reads. No card
  was viewed before; sections are as full as they can be.
- *Discovery worker*: workers overlap, crash and deadlock; events commit out of order.
  Each event is counted once and in the end; a profile has the events marked for it.
- *Support*: staff move one report at once. Audit rows form a chain from open to the
  report's status; each request is answered.
- *Start*: runners of several releases start together and die at any statement. Each file
  takes effect once, in order, and in the end; no account is lost.

`PROJECT.json` ("hazards") lists the hazards line by line with the properties that
watch them.

## 2. Modules

Every module says in its header what it leaves out of the data. MC modules only give
values to constants.

### ListingLifecycle, StatusMachine, ListingRefinement, ListingDevStores

`ListingLifecycle` is the Postgres store and its handlers. `row[l]` holds the columns
`SaveOwner` writes; `moderation`, `images` and `audit` are the parts it leaves alone;
`request[s]` is a handler between its read and its save.

| Code | Definition |
|---|---|
| `scanListing`, `AddressLine` with `json:"-"` (`model.go:41`) | `ReadCopy` |
| `Create`; the row inserts and deletes of images | `Create`, `AddImage`, `DeleteImage` |
| reading half of PATCH, publish, unpublish, close, archive | `BeginPatch`, `BeginPublish`, `BeginUnpublish`, `BeginClose`, `BeginArchive` |
| `ListImages` and `MissingPublishFields` | `CheckPatch`, `CheckPublish`, `MayPublish` |
| `SaveOwner` (`postgres.go:77`) | `SaveOwner` |
| `Moderate` (`postgres.go:209-234`) | `Hide`, `Restore` with `Record` |
| `listings_published_fields`, `listings_draft_not_published` | `DBAccepts` |
| every early return, error, cancelled request, stopped process | `GiveUp` |

Columns are four Booleans: `price` and `columns` (which the constraint requires too),
`contact` (what only the service requires) and `address`. The price stands apart because no
request can clear it: `Apply` takes null for an omitted field (`validate.go:24`) and
`ValidateDraft` refuses what is not greater than zero (`validate.go:103`). Which of the other
fields is missing is not told apart.

`StatusMachine` is the promise: the diagram of `services/listings/README.md` and the
rules of `docs/MODERATION.md`, one atomic step each. `ListingRefinement` maps
`ListingLifecycle` to it: a listing without owner is "none", `since` is
`published_at`, `ready` is `MayPublish`, `decisions` is `audit`. It holds with one
slot. With two, a save that is as old as its read breaks it.

`ListingDevStores` runs the same handlers on `sqlite.go` or `memory.go`. A save writes the
moderation fields of its copy too (`copied[s]`), SQLite writes a moderated listing and its
audit row in two statements under a mutex (`auditing`), and no constraint refuses a row. When
the second statement fails (`InsertFails`) only that moderation ends; when the service stops
between them (`Stop`) every handler does.

### AuthSessions, LoginChain, AuthRefinement, AuthDevStores

`tokens` is the history of issued refresh tokens (each stands for the token, its hash,
its CSRF token and the JWT of the same answer), `live` the `refresh_sessions` table.
`request[s]` is a handler between its database calls: `register` between the account
and its session, `refresh` between the checks and the rotation. A client may present
any token ever issued: a replay, a retry and a second tab are the same action.
`RotateRefreshSession` is the transaction `DELETE ... RETURNING` and `INSERT`;
`DropRefused` deletes a session presented too late or with another CSRF token; `Logout`
deletes by hash and answers 204 whether it found a row; `LogoutFails` answers 204 although
the store failed. `loggedOut` is a history variable: the logins for which such an answer
was given.

`LoginChain` is the promise with no handler in sight: a login is opened once, moves
from token to fresh token in one step, and once ended stays so.
`AuthRefinement` maps `live` to the current token of each login.

`AuthDevStores` has the handlers on any of the three stores. SQLite's rotation is two
steps (`ConsumeSQLite`, `CommitSQLite` or `Abandon`) under a mutex that `DeleteSession`
does not take but waits for at the database's write lock; readers pass by both.

### ImagePipeline, LocalUploads, SellerPhotos

`url` is the presigned URL of a key (unissued, valid, expired), `object` the object's
state with its tag, `images` the rows, `request[s]` a handler between counting and
signing, or between `HeadObject`, `PutObjectTagging` and `INSERT`. Clients are
arbitrary: they PUT while the URL is valid and register any existing key at any
position. `reput` is a history variable: the keys a client wrote again after they were
registered. The object store is external (S3) and modelled from how
`images/images.go` and `terraform/main.tf` use it. The rule waits at least a day and a
URL lives five minutes, so `ExpireUnregistered` asks for an expired URL.

`LocalUploads` has the pipeline's handlers on S3 or on `images/local.go`. There a PUT is a
handler of the service: `Accept` reads `pending` under the mutex, `CreateFile` truncates
what is there, `FinishFile` and `RemoveFile` end it, and nothing holds the file in
between. `HeadLocal` finds a file that is half written, `MarkLocal` does nothing, and
`Restart` forgets what was expected. A file that is whole counts as "registered".

`SellerPhotos` puts the seller page in the client's place. It EXTENDS the pipeline and
composes its actions with `selectPhotos`: `batch[s]` is one run of the loop, whose
requests run in the same slot. A failure ends the run and leaves its handler at work
(`Fail`); a page load forgets what was uploaded (`Reload`). A batch numbers its photos from
the count it began with (`Call` is the request for one of them).

### PublicBrowse, DiscoveryFeed

`PublicBrowse` is one visitor's walk through the public list: `ListPublished` is the set of
matching rows after the cursor, `First` its first page by `BeforeBrowse`, `AfterCursor` the
keyset condition, in all three orders. A cursor keeps the key its listing had when the page
was read; `moved` has the listings that were published, withdrawn or repriced since the
walk began. `Publish` may carry a time that has passed: the handler takes the time before
it saves.

`DiscoveryFeed` EXTENDS it with the other two errands of a visitor, `Discover` and
`Related`, read by read (`ReadProfile`, `ReadViewed`, `ForYou`; `ReadSource`, `Related`).
`views` counts the meaningful interactions of thirty days with each listing, `profile` is what the
worker (Postgres) or the request itself (development) derives from them (`Interactions` has
each of them as an element, so that a count is a cardinality). `before` is a history variable: what
was viewed when the request came.

### DiscoveryAggregation, DiscoveryDeployment

One action per statement of `AggregateDiscoveryEvents`: `Claim` (the locking SELECT),
`Count` (one upsert), `Mark`, `ReadInteractions` and `WriteProfile` (a profile
statement takes its snapshot, then writes, perhaps after waiting for the row),
`Commit`. What a transaction wrote stays in `worker[w]` until it commits, and the rows
are locked until then. `Abort` is an error or a crash; Postgres ends deadlocks
(`EndDeadlock`). `Start` is the schedule. Postgres' READ COMMITTED and row locks are
external. Events are numbered by `(created_at, id)` and inserted in any order.

`DiscoveryDeployment` fixes which workers are ever started, one of them or all, and watches for
a profile written from a snapshot older than another worker's commit (`late`, `overtaken`).

### RequestLimits

A behaviour follows one of the three services. `failures` and `window` are the maps behind
their mutexes; a login is two critical sections with the password check between them
(`Check`, then `WrongPassword`, `RightPassword` or `LookupFails`). Times are ages in ticks
and `Tick` makes everything older, so a state has no absolute time. `KeyOf` says whose
window a request counts in: the account for uploads, the forwarded address for reports
when the proxies share a secret (`proxyKey`), the address of the Next server for events. The failures of an
address are the sequence of their ages, newest first. `granted` and `passed` are history
variables: the requests allowed to each caller and under each window key (`WindowKey`).

### SupportReports, ReportTrail

`req[q]` is a transition in flight: before the store ("sent"), between its SELECT and its
UPDATE ("read"), holding SQLite's write lock ("writing"). `LockPostgres` waits for the row
lock; a SQLite transaction is `stale` when another has committed since its snapshot and can
then only fail; the memory store has one critical section. `Insert` files a report with
the time its handler took. `ReportTrail` is the promise: the trail of a report is one walk
along the status machine.

### DbMigrate, SqliteStartup, ServiceStartup

`DbMigrate` is one runner per instance, statement by statement: `session[i]` is its
connection, which outlives a crash on the server until `SessionEnds`, with a COMMIT possibly
under way (`SendCommit`, `CommitLands`). Runners may be of different releases: directory
`i` has the files `1..Release[i]`. `SqliteStartup` has what the Auth and Support stores do to
an older file: a rebuild in one transaction, and columns added one statement at a time.
`ServiceStartup` composes them: the configuration names the database.

## 3. Runs

Distinct states in parentheses. Every run but one passes.

| Run | Bounds | What it shows |
|---|---|---|
| `listing_races` (6.35M) | 1 listing, 2 sellers, 2 reports, 2 slots, 3 timestamps, 3 decisions | with overlap: `PublishTimeMatchesStatus`, `OnlyBlankedClosedRowsAreRefused`, `ModerationMatchesAudit`, `ChangesAreTheOwnersOrAudited`, `SellersNeverPublishIncomplete` |
| `listing_serial` (4.02M) | 2 listings, 2 sellers, 1 slot | `ImplementsStatusMachine`: without overlap the handlers are the documented machine |
| `listing_stale_restore` (violation) | 2 slots | `OnlyStaffRestore`: a PATCH that read before a hide puts the listing back in public, with no audit row |
| `listing_dev_stores` (1.88M) | 1 listing, 2 slots, both stores | `AuditRowsAreTrueWhenWritten`, `RowsFitTheirStatus` without transactions and constraints |
| `auth_races` (1.93M) | 2 accounts (1 staff), 2 slots, 4 tokens (3 on the development stores) | on the three stores: `SpentOnce`, `OneLivePerLogin`, `EndedLoginsStayEnded`, `SellerTokensAreOfSellers`, `ImplementsLoginChain` |
| `image_races` (309K) | 2 keys, 2 positions, 2 slots, 2 PUTs, both stores, any client | `ImagesKeepTheirObject`, `WholeFilesStay`; `S3AbandonedUploadsGo` under the bucket's clock |
| `photo_batches` (37K) | 3 keys, 3 positions, 2 slots, batches of at most 2 | the seller page: `CountsOnlyRegisteredPhotos`, `GalleryHasNoGaps`, `ExpiryTakesNoListingImage` |
| `discovery_workers` (256K) | 1 or 3 workers, 4 events, 2 cells, 2 viewers, batches of 2 | `CountedOnce`, `OnlyOvertakenProfilesMissEvents`, `EveryEventIsCounted` |
| `discovery_visits` (1.70M) | 3 listings in 2 cities, 2 prices, pages of 1, 2 candidates, 1 card, 3 views | `UntouchedShownOnce`, `WalksEnd`; `ForYouOmitsViewed`, `SectionsAreFull` |
| `request_limits` (65K) | 2 addresses, 2 slots, 2 callers, 2 failures or requests a window, windows of 3 ticks | `OverlapIsBounded`, `BurstIsBounded`, `QuotaIsOwn`, `BlockEnds` |
| `support_reports` (160K) | 2 reports, 2 requests, 3 stores, two seconds of 2 parts, a list of 1 | `AuditChains`, `ImplementsReportTrail`, `OmitsNoNewerSecond`, `RequestsAreAnswered` |
| `startup_databases` (6,996) | 3 runners of 2 releases, 2 accounts, 1 old report | `AppliedOnce`, `AppliedInOrder`, `AccountsSurvive`, `AllAreApplied` |

Every property of a passing run has a mutant in `PROJECT.json`: a plausible fault, kept
in the module as a definition whose comment begins with "Fault:", that makes TLC find
it violated. No specification uses the faults. Type invariants are listed in two runs; those of
the other modules (`TypeOK`, `DevTypeOK`, `PhotosTypeOK`, `FeedTypeOK`, `StartTypeOK`,
`LimitTypeOK`) hold when added to their configuration, and section 5 proves them. So do
`RotationHoldsItsRow`, `HeldStatusIsCurrent`, `TransactionsHoldTheLock`,
`ServesWithAllColumns` and `PagesMoveOn`, which are proved too. `CHECK_DEADLOCK` is on everywhere: no model
stops.

*What the properties leave out.* Some hold because they except what goes wrong elsewhere; the
table at the end of this section says what TLC finds there.

- `ChangesAreTheOwnersOrAudited` says whose request changes a listing, not that the request is
  fresh: a stale save of the owner satisfies it (`OnlyStaffRestore`, `ClosedNeverReopens`).
- `SellersNeverPublishIncomplete` excepts changes with an audit row, so restores by staff
  (`PublicOnlyWithPublishData`).
- `SellerTokensAreOfSellers` is one direction: no token claims "seller" of an account that is
  not. A token may say less than the account has until its next refresh.
- `WholeFilesStay` excepts files a PUT is at already (`RegisteredFilesAreWhole`).
- `ExpiryTakesNoListingImage` is about the seller page, not about any client.
- `OnlyOvertakenProfilesMissEvents` allows a profile that another worker's commit overtook to
  lack events until the viewer's next one is aggregated (`ProfilesHaveMarkedEvents`).
- `ForYouOmitsViewed` excepts a viewed list that was cut off at its limit, as
  `docs/DISCOVERY.md:48` does.
- `QuotaIsOwn` is about uploads and reports, not about events (`EventQuotaIsOwn`).

*Are the bounds enough?*

- The races of listings, logins, keys and reports are between two handlers; every third party
  (staff, a clock, logout, expiry) is one more action, so two slots show every pairwise
  interleaving. Handlers of different listings share nothing, so races use one listing and
  the serial run uses two, to see that ownership keeps them apart.
- Three timestamps allow publish, hide, restore, and a second publish after an unpublish; four tokens
  two logins and two rotations of one; a list of one report a second report that does not fit.
- Four events in batches of two meet the counter cells in opposite orders, so that they
  deadlock; a third worker finds all rows locked.
- Three listings on pages of one give a walk with a first, a middle and a last page, and a
  listing that moves across either cursor; two candidates are one less than there are listings, so
  that a section can be cut off.
- Two runners of the newest release and one of the one before include a runner that starts behind what is
  recorded, one that dies in a transaction, and one that waits for both.
- Windows of three ticks hold requests at their start, inside and at the boundary; two
  callers are enough for one to use another's quota.
- The theorems of section 5 do without these bounds.

*Also found, without a standing run.* Each of these definitions states a sentence of the
repository, or what a reader would expect, and TLC finds it violated when it is added to
the configuration named, unless told otherwise:

| Definition | Configuration | What happens |
|---|---|---|
| `ClosedNeverReopens` | `ListingLifecycle_races` | a stale PATCH reopens a closed listing |
| `PublishingNeedsAnImage` | same | the last image goes between the count and the save |
| `PublicOnlyWithPublishData` | same | hide, blank the contact, restore |
| `AddressSurvives` | same | a copy is read without the address and saved whole (`model.go:41`) |
| `EveryHideIsAudited` | `ListingDevStores_races` | a stop, or a failed INSERT, after the first of SQLite's two statements |
| `StaffIsNotSelfService` | `AuthSessions_races` | become-seller overwrites "staff" (`postgres.go:94`) |
| `LoggedOutLoginsAreOver` | same | a logout with a token just rotated ends nothing and answers 204 |
| `AtMostMaxImages` | `ImagePipeline_races`, `MaxImages = 1` | the cap is read at presign only |
| `ExpiryTakesNoListingImage` | `ImagePipeline_races` | an arbitrary client PUTs to a registered key again |
| `RegisteredFilesAreWhole` | `ImagePipeline_races` | a local file is registered while its bytes still come, or an older PUT writes over it |
| `RecoveryFindsAFreePosition` | `SellerPhotos_batches` | positions are counted from an empty list after a load |
| `ProfilesHaveMarkedEvents` | `DiscoveryAggregation_workers` | profile statements of two workers pass each other |
| `PagesNeverRepeat` | `DiscoveryFeed_visits` | a price moves across the cursor (`docs/DISCOVERY.md:12` speaks of additions) |
| `FittingListingsAreFound` | same | the newest candidates have all been viewed |
| `FiveFailures` | `RequestLimits_services` | overlapping attempts pass `blocked` (`docs/authentication.md:51`) |
| `EventQuotaIsOwn` | same | all visitors come from the Next server's address |
| `UnresolvedAreListed` | `SupportReports_staff` | the list ends after `ListLimit` reports |
| `ServedReportsCanBeListed` | `ServiceStartup_databases` | a start cut off between adding `updated_at` and filling it in |

## 4. Fairness

Fairness is assumed for liveness only; the proofs do not use it.

- `S3AbandonedUploadsGo` (`UploadsFairness`): weak fairness of `UrlExpires` and
  `ExpireUnregistered`, the bucket's clock. Nothing is asked of clients or handlers. An object
  that was registered and whose row was deleted stays: the rule does not match it, and
  the property does not say otherwise.
- `EveryEventIsCounted` (`DeployedFairness`): weak fairness of a worker's next statement. The
  schedule starts it again, the process goes on while its next statement can run, and
  Postgres ends a deadlock that lasts (`deadlock_timeout`); without that last one it fails. The
  property excepts runs in which workers are ended for ever.
- `RequestsAreAnswered` (`Fairness` of `SupportReports`): strong fairness of a request's own
  steps, because Postgres grants a row lock to its waiters in turn and Go's mutex does not
  starve; weak fairness of SQLite's answer to a stale snapshot. No other failure is assumed
  to happen.
- `WalksEnd` (`FeedSpec`): the visitor asks for the next page while there is a cursor. That
  sellers are faster is no excuse: pages only go on.
- `AllAreApplied` (`StartSpec`): a deployment starts its runner again, a runner's next
  statement comes, the server ends the session of a dead client (weak fairness), and a waiter
  for the advisory lock gets it in its turn (strong fairness). Runs in which runners are broken
  off for ever are excepted.
- `BlockEnds` (`LimitSpec`): time goes on, and a password check ends (weak fairness).

## 5. Proofs

A theorem module EXTENDS its component. The theorems hold for every value of the constants under
assumptions that say that bounds are numbers, null values are no members and maps are functions:
`ConstantsAssumption`, `SessionAssumption`, `StoreAssumption`, `ImageAssumption`,
`DiscoveryAssumption`, `StoresAssumption`, `ClockAssumption`, `MigrateAssumption`,
`DatabasesAssumption`, `BrowseAssumption`, `FeedAssumption`, `LimitsAssumption`,
`PhotosAssumption`. TLC evaluates them in its runs. Every invariant, action property and
refinement that a passing run checks is also the statement of a theorem.

**ListingLifecycleProofs.** `TypeCorrect`; then `SaveInvariant`, the induction the rest hangs
on. `PublishTimeMatchesStatus` says already of the candidates in flight what it says of the
rows, because a save copies one into the other; what it lacks for the checks is
`CheckedCandidates`: a candidate past the check that is public has the fields the gate asks for.
`PricesAreKept` adds that what is, or was, public keeps its price, in rows and copies alike, so
that the constraints never refuse a save for want of one.
`PublishTimesMatch`, `RefusalsAreBlankedClosedRows` and the action property
`SellersPublishComplete` follow from it. `ModerationIsAudited` and `RowsChangeByOwnerOrAudit`
rest on lemmas that say which actions write `moderation` and `row` (`ModerationWrites`,
`RowWrites`).

`ImplementsPromise` is the refinement: `Spec` implements `StatusMachine`. It has the hypothesis
`OneRequest`, one slot, because with two it is false (`listing_stale_restore`). The invariant of
the serial system is `SerialInv`: the copy of a handler is the row with the change that handler
will make (`CopiesAreCurrent`), and a listing nobody created is empty (`RowsAreBehindTheClock`).
A staff decision is one step, but a request too: it needs a free slot (`FreeSlot`), and with a
single slot none falls between a read and its save. Each step of a handler is then a step of the
diagram or a stutter.

On the development stores `DevInv` does the work: the moderation fields, publish time and price of
each row fit its status, and so do those of each copy in flight (`PairsFit`), which gives `RowsFit` without any
constraint in the store; and between SQLite's two statements the listing is still what the
missing audit row will say of it (`PendingIsTrue`, the mutex), which gives `AuditRowsAreTrue`.

**AuthSessionsProofs.** `ChainInv` is the inductive part no property says: `from` points
backwards, `login` is an earlier or the same token, a waiting handler holds an issued token and
a role the account had (and still has, if it is seller). From it, `TypeCorrect` and
`SellersAreSellers`. `TableSteps` then reduces every action to one of four things that can
happen to the table (nothing, a row goes, a login is opened, a row is exchanged); `TableInv`
(`SpentOnce` and `OneLivePerLogin` together, neither being inductive alone) follows by these
four cases, and so do `EndedIsFinal` and `Implements`: every step of the handlers is a step or a
stutter of `LoginChain`. The development stores come for free after that: `StoresAreSessions`
shows that `StoresSpec` implies `Spec` step by step. The hard step is SQLite's commit, which is
a rotation of Postgres only if the row its first statement deleted is still there and nobody
else rotates (`HoldInv`, stated as `RotationsAreAlone`). `StoresKeepSessions` collects what
follows.

**ImagePipelineProofs.** `ImagesKeepTheirObject` is not inductive: the row is inserted after the
object was promoted. On S3, `InsertReady` says a handler about to insert holds a key that is
kept, and `KeptIsStable` that no step takes that away. On the local store (`UploadsInv`) nothing
is promoted, and what protects a file is that its key is no longer expected: `PendingTellsFiles`
relates the pending keys, the PUTs under way and the files, `HeadsAreSafe` and `RowsAreSafe`
carry it to the handlers and rows. `ObjectsAreKept` and `WholeFilesAreLeftAlone` follow.

With the seller page in the client's place more is true. `RowsKeepTheirObject` needs `UrlInv`: a
key is drawn by one call only, its PUT comes before its registration, and a registered object
stays so, since this client never writes a key again. `PhotosCountedHaveRows` and
`GalleryIsWhole` need `GalleryInv`: a batch counts from no more than what is uploaded, and a
call asks for a position no higher than the number of rows (`BehindTheRows`). That the page's
counts have rows is a statement about disjoint sets of rows, one for the page and one for each
batch; `AccountsAreKept` and `RowIsNew` say that a registration extends one of them by a row
that none of the others has.

**DiscoveryAggregationProofs.** `CountedOnce` needs to know that what a worker commits is not
yet marked (`ClaimsAreWaiting`) nor held by another (`ClaimsAreApart`, the row locks); the
commit then adds disjoint finite sets. That a batch keeps its limit, part of `TypeCorrect`,
needs `OldestFits`: the first elements of a finite set are no more than asked for, by induction
on its size over a fixed set. `ProfilesMissLittle` adds `ReadsAreWhole`: a
snapshot that no other commit has overtaken has everything of its viewer that is marked or about
to be; and `LoneInv`: nobody overtakes a worker that runs alone.

**SupportReportsProofs.** `AuditChains` is inductive with `RequestsAreSound` (a transaction that
is about to write holds the report's status) and `OneHolder` (one writer: the row lock, SQLite's
single writer). `HeldStatusesAreCurrent` is that fact; `Implements` shows that each step extends
one report's walk along the machine of `ReportTrail`, or none. `ListOmitsNoNewerSecond` is about
stored times as text: a time without a fraction sorts after the others of its second
(`OrderOfSeconds`, from what quotient and remainder say of two times, `SecondsApart`), but never
past another second, so that the list may be wrong within a second only.

**ServiceStartupProofs.** For the runner, `Progress` ties what is recorded to how far each
session has got, and the lock to open transactions; for SQLite, `Rebuild` says in which of the
two tables each account is at each statement. `AppliedOnceAlways`, `AppliedInOrderAlways`,
`OneTransactionAtATime`, `NoAccountIsLost` and `ColumnsAreThere` follow.

**DiscoveryFeedProofs.** `UntouchedShownOnce` says of an untouched listing that it was shown
once if it is at or before the cursor, and not yet if it is after. It rests on lemmas about a
page of a finite set in a total order: keys are ordered (`Order`), the cursor's condition is
that order (`CursorAgrees`), a page is no longer than asked for (`PageFits`), and what precedes
its last key is all that follows the old cursor (`PageSplits`). `NextPageShows` puts them
together; `SellersStep` shows that what sellers do touches only what is in `moved`.
`WalksMoveOn` is the safety half of `WalksEnd`: whatever sellers do, the keys ahead of a walk
(`Ahead`) never become more, and each further page leaves fewer. What is left of `WalksEnd` is
fairness, and that prices are finitely many.

The same lemmas, stated for any total order (`IsOrder`, `FirstOf`), serve the other two errands:
the first so many of a set are as many as asked for or all there are, for candidates, cards and
the viewed listings alike. `CountIs`, `MostCommonIs` and `ProfileIs` say what a profile consists
of. `RequestInv` adds to the types that what was viewed when a request came is viewed still
(`BeforeIsViewed`): views only come in. From it and `FeedInv` follow the action properties
`ViewedIsLeftOut` and `SectionsFill`.

**RequestLimitsProofs.** `OverlapBound` is inductive: an attempt is let in with fewer than
`MaxFailures` failures on record, there are never more under way than slots, and a failure
recorded is an attempt no longer under way. `BurstBound` is not: `WindowInv` says of each key
that what was allowed is what the window counted, plus less than a window's worth from before
its start (`WindowsFit`), and that only callers of a key are counted under it (`OwnRequests`),
which is also what `OwnQuota` needs.

Only model-checked is liveness, which is out of the prover's reach as is ENABLED:
`S3AbandonedUploadsGo`, `EveryEventIsCounted`, `WalksEnd`, `BlockEnds`, `RequestsAreAnswered`
and `AllAreApplied`. Induction over data is out of reach too (what a fold or a recursive
function computes), so the models count by cardinalities, and keep logs as sequences.

## 6. Disagreements found

`listing_stale_restore` is kept as a run: `SaveOwner` (`postgres.go:77`) writes a status read
earlier, while `docs/MODERATION.md:9` says that restoring is staff-only and audited. The table
at the end of section 3 has the others.

## 7. Not modelled

- *Data and wording*: field values beyond what the modules' headers name, formatting, error
  texts, logging, metrics, presentation.
- *Validators*: whether one request's fields are well formed is a function of that request; the
  models have its outcomes. Where two layers judge the same input differently (bytes in the
  service, characters in the constraint), the outcome of both is modelled for Support only. For
  listing titles it is not (`validate.go:88,143` against `001_init.sql:24` and
  `002_domain_fixes.sql:28`): a title of five bytes and fewer characters passes the publish check
  and is refused by the constraint with a 500, which `OnlyBlankedClosedRowsAreRefused` leaves out.
- *Cryptography and tokens*: hashes, signatures and JWT parsing; a token is a number and its
  checks succeed or fail. The auth middleware checks one request and keeps nothing.
- *Client session slice*: one refresh is started when the page loads, before anything else can
  be done; requests of several tabs reach the server in any order, and there they
  are `AuthSessions`' clients. What a tab displays in between is not modelled.
- *Discovery's fixed sections* (newest, by price): one query each. Scores are small numbers,
  and price bands and recency weights are abstracted as `DiscoveryFeed` says.
- *Limits across restarts*: the maps are empty after one, and those of windows are never
  pruned; no property is about their memory.
- *Numbers*: a price has no upper limit, and `*profile.PriceCentavos*130`
  (`handlers/listings.go:566`) overflows above 7 x 10^16 centavos; that arithmetic is left out.
- *Databases prepared by Compose*: it mounts the migrations as the database's init scripts
  (`services/listings/docker-compose.yml:27`, likewise Auth, Support and
  `docker-compose.e2e.yml`), so that Postgres applies them when it creates the database and
  `schema_migrations` has no rows. `DbMigrate` starts from an empty database, as Railway's is,
  and says nothing of a runner started on such a one, which would find nothing recorded and
  repeat every file (the second would fail at its `ADD CONSTRAINT`).
- *Infrastructure*: only the bucket rule has behaviour.

## 8. Plan

Done: listings and their status machine, on all stores; sessions and their chain, on all stores; the
image pipeline, its local store and its page; the discovery worker; public list and feed; limits;
support reports and their trail; the start of a database; a theorem module for each of these
eight, with a theorem for every property that is not liveness.

Left, most important first:

1. `ListingRules`: `ValidateDraft` and `MissingPublishFields` against the constraints of the
   migrations, over bounded inputs.
2. What the other liveness properties rest on, as theorems of their safety half (`WalksMoveOn` is that of
   `WalksEnd`): a block gets no longer by refused attempts; a runner's next file is the first one not
   recorded.
3. The definitions of the last table of section 3 that have a true, narrower form: stated as
   properties of the callers that do keep to it, as `SellerPhotos` does for the expiry.
