# Stockiha in TLA+

Stockiha is a desktop program for one shop: a React front end, a Rust back end (Tauri) and a
PostgreSQL 18 server that the program installs and runs itself. Nearly all business rules are
`SECURITY DEFINER` functions in `src/src-tauri/migrations/` (172 files, forward only; the last
definition of a function is the one in force). The tills, the back office and the recovery code
all talk to that one database, through a pool of at most 25 connections.

This directory holds TLA+ modules of the parts whose errors a test would hardly reach, TLC
configurations that check them on small instances, and TLAPS proofs of their main properties for
every value of the constants. `PROJECT.json` maps each definition to the source lines it models.

## Inventory

| Component | State | Operations | What is hard | What makes it correct |
|---|---|---|---|---|
| Safe upgrade (`infrastructure/safe_upgrade.rs`) | the database, dump files in `backups/` and `backups/failed/` | gate, preflight, dump, verify, migrate, verify schema, rollback, retention | power cut at any step, partial drops and restores, retention against failed attempts | the data survives; no change without a verified dump; the report is true |
| Schema version and start-up (`schema_version.rs`, `AppRouter.tsx`) | none | verdict, routing | unknown verdicts, down-grades | a shop opens only at its own schema |
| Stock and average cost (`inventory.positions`, `inventory.movements`) | quantity, value, average per variant | sale, purchase, return, landed cost, adjustment | rounding of three scales, zero quantity | position = sum of movements, value near quantity x average, account = stock |
| Tills and posting (`confirm_cash_sale`, `confirm_purchase_return`, `PosScreen.tsx`) | forms, request ids, row locks, documents | edit, submit, post, deliver, lose an answer | concurrent postings, retries, deadlocks | a form posts once, no unit sold twice, no gap in the numbers |
| Cash sessions (`sales.cash_sessions`) | status, expected cash | open, close, count, approve, move cash | a posting while the drawer is counted | a count misses no cash |
| User administration and sessions (`iam`, `application/auth.rs`) | accounts, role, permissions, sessions | sign in and out, create, activate, deactivate, assign role, set permissions | checks of overlapping transactions | an active SUPER_ADMIN remains |
| Live restore (`recovery_engine/restore_flow.rs`, `live.rs`) | database, asset directories, safety backup | validate, test, safety backup, replace, migrate, verify, swap directories, rollback | power cut between drop and verification, directories and database out of step, calls in flight at the takeover | nothing is replaced unprotected; success is the backup; the outcome is true |
| Backup bundles, catalogue, retention, drill, sweep (`recovery_engine`) | bundles, catalogue, drill clusters | create, copy, prune, drill, sweep | partial copies, pruning of the only good one | a sound bundle remains |
| Embedded server and updates (`useAppUpdate.ts`, `update_shutdown.rs`, `pg_process.rs`) | server process, phases of the update, what the window knows of the cash session | check, download, back up, stop, wait for files, install, resume, start at launch | runs that outlive their banner, a restore in the meantime, files held by others, a server left by a crash | the shop ends with a working database; the installer meets no running server |
| Licence (`licence/`) | stored licence, clock marks | activate, evaluate | clock set back, restarts | a lapsed licence does not come back |
| Receivables (`confirm_credit_sale`, `post_customer_payment`, `post_customer_refund`, `void_sale`, `CustomersScreen.tsx`) | ledger entries, allocations, cached exposure and due date, authorizations, overrides | sell, pay, refund, cancel, change a policy, apply the opening debt | concurrent reads of one exposure, partial allocation, crossed row locks, approvals used twice | one-at-a-time account: the cache is the ledger, nothing is overpaid or refunded twice |
| Entry forms (`StockReceiptScreen.tsx`, `StockAdjustmentScreen.tsx`, `PosScreen.tsx`, `PurchasesScreen.tsx`, the modals) | lines, fields, kept request id, calls under way | enter, edit, remove, submit, submit a batch, leave | lost answers, edits and new lines during a call, batches that stop half way | what is entered once is recorded once, and nothing is cleared unrecorded |
| Procurement to supplier balance (orders, GRNI, invoices) | GRNI lines, invoices, payables | receive, invoice, pay, credit | partial receipts and invoices | GRNI clears to zero |
| Document, print and drawer jobs | jobs, leases | queue, claim, complete, fail | none yet: nothing in the program claims a job | a job is done once per claim |
| Opening state, onboarding | state and its lines | prepare, approve, apply | reopen after use | applied once |
| Journals and fiscal periods | entries, periods | post, reverse, close | a period closing under a posting | debits = credits |
| First-run setup, catalogue, reports, screens | | | see "Not modelled" | |

The components meet in the database. A till calls a posting function, which reserves the request
(`core.request_idempotency`), reads the cash session, locks positions, moves stock, posts a
journal, claims numbers and stores its result, in one transaction. The upgrade and the restore
replace the database under everything else, and run while nothing else does.

## Modules

| Module | Models | Composed of |
|---|---|---|
| `ShopDatabase` | the database as upgrade and recovery see it: applied schema, wholeness, data | |
| `SafeUpgrade` | `run_safe_upgrade` with the start-up that leads to it | extends `ShopDatabase` |
| `LiveRestore` | `run_restore`, its rollback, the backups and their retention | extends `ShopDatabase` |
| `StockLedger` | the arithmetic of positions, movements and the inventory account | |
| `ShopBooks` | abstract: the books of the shop, one posting at a time | |
| `TillPosting` | postings at the same time: forms, retries, locks, cash sessions, numbers | instance of `ShopBooks` (refinement) |
| `UserAdministration` | the `iam` schema and its concurrent administration calls | |
| `UpdateInstall` | `performUpdate`, the server it stops, and what else goes on at the workstation | |
| `CustomerAccount` | abstract: the account of a customer, one operation at a time | |
| `Receivables` | credit sales, payments, refunds, cancellations as transactions with row locks | instance of `CustomerAccount` (refinement) |
| `EntryForms` | seven entry forms, their request ids and the answers they may not get | |
| `MC...` | symmetry sets and the forms of an instance | each extends its module |
| `..._proofs` | theorems | each extends its module and `TLAPS` |

### SafeUpgrade

`pc` is the place in `run_safe_upgrade`; each action from `Gate` to `Retention` is one stage of it,
with its failure exits. `db` is what the server holds: the last applied migration (0: no
`_sqlx_migrations` table), whether a drop or a restore stopped part way (`whole`), and which of the
shop's entries are in it. A dump file has a name (its time stamp, so names grow), a place, a content
and a quality: `torn` (pg_restore cannot list it), `listable` (it lists and does not replay),
`sound`. `Stop` is a power cut or a closed window and is possible in every state; `Install` is the
updater or an older installer; `OpenApp` is the routing of `AppRouter.tsx`. Migrations are committed
one file at a time (`MigratedOnce`), and their number between two builds is arbitrary.

`listable` dumps are left out of the runs and ruled out by the assumption of `DataIsKept`: if
`pg_restore --list` accepts a dump that does not replay, the rollback loses the data, and no code
in the repository could notice it before.

### LiveRestore

`pc` is the place in `run_restore`: `Validate` (steps 1 and 2), `TestRestore`, `SafetyBackup`,
`StopConnections`, then the steps that change something: `Reset` and `Restore` (`replace_database`),
`Forward`, `Verify`, `MoveAside` and `Copy` for each asset directory, `Record`. Any of those may go
over to the way back, `Revert` (what `swap_in_assets` does on an error of its own), `UndoReset` and
`UndoRestore` (`rollback`). `task.kind` is `RestoreKind`: on a new PC there is no safety backup and
the users are counted instead, three times. A bundle holds a database and the files of every
directory; its name is the second it was made in (`stamp`), and the directories that a restore moves
aside carry the second of that restore. `Stop` is a power cut, a closed window or the operator's
restart, and is possible in every state; `OpenApp` is the routing of `AppRouter.tsx` afterwards.

Abstractions: an entry stands for a row and a file attached with it. `InFlight` are the entries of
calls that were under way when the takeover began: they may commit until the pool is closed, before
or after the safety backup. `UpgradeAtStart` is `SafeUpgrade` in two outcomes, all migrations or
none. A database with schemas missing opens neither the shop nor the setup: `core`, which
`core.get_setup_status()` needs, is the oldest and goes first. `AUTOMATIC` is either of the two timer
kinds. There is one backup destination, the rows of `operations.recovery_attempts` are left out, and
`inspect_bundle` finds what changed after a dump was written but not what was wrong with it.
Of the mutated forms, each stands before the action it is a mutant of.

### StockLedger

Amounts are integers in the units of their columns: centimes for journals, `numeric(18,4)` values
(`ValuePerCent` to a centime), `numeric(18,6)` rates (`RateScale` to a value unit). `RoundDiv` is
PostgreSQL's `round`. A document's lines change a `draft` (its transaction), `PostSale`,
`PostPurchase` and `PostReturn` write the journal and commit, `Rollback` discards. `Issued`,
`Found`, `Received`, `Returned` are the four ways a position moves; `Clearable`, `Residual` and
`RefuseResidual` are `_handle_residual_at_zero_quantity`. `LandCost` is `allocate_landed_cost` as
one receipt line sees it. Postings here follow one another; their locks are TillPosting's subject.
Quantities are whole base units, and `CreditCents` rounds quantity times the unrounded unit cost
(the code rounds the unit cost first; only whether the credit is zero is used). Adjustments and
landed costs are documents of one line.

### TillPosting

A form is a cart (a cash sale) or a purchase return. `Submit` starts a call on a free connection;
`Steps(b)` are the rows it locks in the order of the function's statements, one statement per
action: `Reserve`, `LockSession`, `LockReceipt`, `LockPosition`, `CheckLines`, `ClaimNumber`,
`Commit`. `Abort` is an error, a lost connection or a crash at any of them, `AbortDeadlock` is
PostgreSQL's deadlock detector. `Deliver` and `LoseAnswer` end the call on the till's side: after a
lost answer the cart keeps its request id, a return takes a new one, as the screens do. Row locks
are `FOR UPDATE` and `FOR SHARE` (`Shared`). The cash session goes through open, closing, counting
and approval meanwhile. Left out: suspend, resume and handover, the opening float, the fiscal period
lock, payments other than cash, and cancelling after a first attempt.

What the calls promise together is `ShopBooks`: its steps are whole postings and whole cash
operations, without calls, locks, retries or failures. A posting needs a request that is new, a
session that is open, units that are there and, for a return, units that were received; it takes the
next numbers of its series. A session is counted against a running total of its drawer, where the
code sums the session's documents; this total is what the refinement maps (`Books`).
`ImplementsBooks` says that whatever the calls interleave, fail or repeat, the books change only so.

### UserAdministration

`role`, `active`, `grants` are `iam.user_roles`, `is_active` and `iam.role_permissions`; `session`
is the one token per account that the model keeps. A call runs as a READ COMMITTED transaction:
authorised, `Lock` (the row of its target), `CheckSuperAdmin`, `CheckAdministrator`, `Commit`, with
`Rollback` possible throughout. Each check sees what is committed when it runs. `stale` is a history
variable: another call committed since this one began to check. `create_role` is left out (the
roles exist from the start), and the statements within one check see one snapshot.

### UpdateInstall

`run[r]` is one invocation of `performUpdate`, `run[r].pc` the statement it awaits; there may be
several, because a run goes on when its banner is unmounted (`own`) and the next user's banner starts
idle. `server` is whether PostgreSQL answers and `child` whether this process started it: after a
crash the old server is adopted without being a child. `shown` is `activeCashSession` as the window
last heard of it, `answer` an inspection under way. `StopServer` and `Unlocked` or `StaysLocked` are
one Rust command, split where it waits up to 15 seconds; `StopFails` may leave the server up or down.
`install()` ends in one of three ways: `Installed` ends the process, `InstallFails` throws and goes on
to the resume, `InstallReturns` comes back and resumes nothing. `restore` is the live restore as seen from
here (`LiveRestore` has its inside); once it begins, the window belongs to it until a restart.
`ForeignProgram` is whatever holds a bundled file open. `overtaken` and `crossed` are history, and so
is `outage`: the last reason, since the server answered, that it does not. Only the embedded mode is modelled: with an external server the stop does nothing.

### CustomerAccount and Receivables

`CustomerAccount` is what the books promise: sell, pay, refund, cancel, apply the opening debt, one
at a time, each with the exposure and the oldest due date that follow. `Receivables` is the code: a
connection's `call` takes the row locks of its function in statement order (`Locks`), reads and
checks under them (`Take`, `Refuse`) and posts (`Commit...`). Locks are row and mode: `Key(c)` is the
`FOR KEY SHARE` that PostgreSQL takes for a foreign key to `receivables.customers`, which is how a
refund and a cancellation reach the customer after the credit state, and the others before it.
`seen` is the exposure a sale, a payment or a refund read; a cancellation and the opening state
update in place. `live` is whether an approval had not expired when the call began, `day` is
`now()`'s day of its transaction. `Refunded` is the refinement mapping: the payments whose
authorization was used. Payments name any posted invoices, since the screen may show those of
another customer (`CustomersScreen.tsx:450-479`). Left out: the journal, stock, number and fiscal
period rows (every posting takes them in one order; `TillPosting`), amounts other than whole units,
manual `ADJUSTMENT` entries, and customer terms beyond zero days.

### EntryForms

One operator, one form of one of seven kinds. A line is something the operator means to record once;
two lines may have the same content. `Renewing` forms drop their request id at every edit, `Keeping`
forms use it again for the next attempt, the return and the movement have none to keep (the movement
sends none at all, modelled as an id that is always new). `Submit` sends the whole form, or the one
line; `SubmitBatch` and `Continue` are the loop of receipts and adjustments, with an id per line.
`Record` is the posting transaction with `reserve_idempotent_request`, `Reject` any refusal, `Lose`
an answer that never comes while the call may still run. `Leave` unmounts the form; the code that
awaits goes on without it, and its success is `Unheard`, except that the screen of the purchases acts
on the late success of a return (`LateSuccess`) if it is still there. Of the history variables, `doubt` has the lines whose id the form gave up
before it knew their end, `late` those entered during a call, `replaced` says that a purchase was
changed or closed over a kept id.

## Runs

| Run | Shows |
|---|---|
| `safe_upgrade` | through failures, power cuts, re-installs and several upgrades: `DataSurvives`, `NeverChangedUnprotected`, `OutcomeIsTrue`, `ReportedBackupExists` |
| `live_restore` | two restores or backups after a first backup, live and on a new PC, with failures and power cuts everywhere: `NeverReplacesUnprotected`, `OutcomeIsTrue`, `SuccessIsTheBackup`, `DataSurvives`, `FilesSurvive` |
| `update_install` | two users, two runs, a restore, locks, crashes: `OutageIsExcused`, `InstallOverStoppedServer`, `RestoreKeepsItsServer`, and `OutagesEnd` under fairness |
| `update_install_locked` | *violated*: bundled files that stay locked leave the server stopped |
| `stock_ledger` | three documents of up to two lines over two variants: `PositionsAreMovements`, `ValueTracksAverage`, `AccountTracksStock` |
| `till_posting` | two tills, two carts, retries, a session being counted: `OncePerRequest`, `AnswersAreTrue`, `CountsAreComplete`, `DeadlocksNeedAReturn` |
| `till_return` | a cart and a return over the same stock, in crossed order: `ImplementsBooks` (the refinement), `StockIsWhatWasMoved`, `NumbersHaveNoGaps`, and `CallsAreAnswered` under fairness |
| `receivables` | two connections over two customers: `ImplementsAccount` (the refinement), `InvoicesAreNotOverpaid`, `RefundedOnce`, `DeadlocksNeedACancellation` |
| `credit_sales` | two invoices over two days with an override: `CacheReconciles`, `OverdueSalesSpendAnOverride` |
| `entry_forms` | seven kinds of form, three lines, three calls: `RecordedOnce`, `NothingIsLost` |
| `user_administration` | two accounts, two connections: `CleanCallsKeepASuperAdmin` |
| `user_administration_overlap` | *violated*: two administrators deactivate each other |

The runs check `TypeOK` of their modules too, once per module; that of `UpdateInstall` holds by its
theorem `TypeCorrect`. A module has two runs where one instance would be too large for both questions.

### Bounds and why they are enough

- `safe_upgrade`: two entries tell "lost one" from "lost all"; three schema versions allow an
  upgrade over two migrations (one applied, the next failed) and a down-grade; three dumps with a
  retention of one reach pruning after a failed attempt. The code keeps three.
- `live_restore`: two directories give a swap that fails in the second with the first already
  replaced (the code has three); two schema versions give a bundle of an older build; three stamps
  are a first bundle and two more backups or restores, which with retention counts of one (the code
  keeps 14 daily, 5 pre-update, 5 pre-restore) reaches pruning after a restore. `torn` and `sound`
  dumps; a `listable` one loses the data in a rollback, as in `safe_upgrade`. Two entries that may be
  swapped, one of a call in flight.
- Stock: `RateScale` and `ValuePerCent` of 2 instead of 100 make every rounding step occur, ties
  included, with quantities of 1 and 3, packs of one and two and costs of one centime; the proofs
  hold for every scale and every cost. Three documents buy, sell or return, and re-average; two
  lines and two variants give documents that mix positions.
- Tills: two tills and two connections make every pair of statements interleave. `Crossed` lists
  the receipt lines in the opposite order of the variants, which is what a deadlock with a sale
  needs, `TwoAndOne` leaves one unit to compete for. Two request ids suffice for a retry under the
  same and under a new one, two sessions for a sale that outlives its session.
- Users: two accounts and two connections are the smallest instance in which two guards can pass
  together, and reach bootstrapping, creation, promotion and mutual deactivation.

- `update_install`: two users are needed for a cash session that is not the signed-in user's and for
  a run that outlives its user; two runs for an overlap; two versions for one installation and the
  state after it. What happens after a second installation repeats the first.
- `receivables`: payments of one and of two units against an invoice of two fill it in one payment, in
  two, or overfill it when both run; two authorizations of one payment compete; two connections are
  what a cycle of two waits needs, and longer cycles are covered by the proof. The second customer
  has the opening debt and is the wrong customer of a payment. The day stands still.
- `credit_sales`: two invoices on two days give an oldest due date that moves forward and back, one
  override for two sales that need it, a limit of one unit that the second sale exceeds.
- `entry_forms`: two lines that look alike and one that does not tell "recorded twice" from "both
  recorded"; three calls are an attempt, a retry, and a third under an id of its own. All seven kinds
  run in one instance, since a form never changes its kind.

Where deadlock is not checked the system may stop: the tills and the forms once everything is
recorded and every bounded id used, the receivables on the last day with every document posted, the
administration once nobody active can sign in.

### Fairness

Two runs assume any. `till_return`: `SF(Advance(b))`: a transaction that waits for a row gets it in
the end, since PostgreSQL queues waiters and wakes them in order. `WF(AbortDeadlock(b))`: the
deadlock detector runs after `deadlock_timeout`. `WF(Deliver(t))`: the IPC promise of the webview
resolves when the command ends. `update_install`: `WF(RunStep(r))`: each await of `performUpdate`
ends, because the stop, the wait for the files (15 seconds) and the start of the server have
time limits in `pg_process.rs` and the installer ends the process, throws or returns. Of `OutagesEnd` this is all: that an update under way
comes to an end, with the server, without the process, or with a reason; after an `install()` that
comes back, or files that stay locked, the server stays away until the program is restarted
(finding 1), which nobody is assumed to do. Nothing is
assumed of what people do, nor that a foreign program ever lets go of a file.

## Proofs

All for every value of the constants, from the named `ASSUME`s of the modules. Those
that say a set is finite are about sets that amounts are summed over or a greatest member is taken
of: the variants (`VariantsAssumption`, `VariantAssumption`), the invoices and payments
(`DocumentsAreFinite`).

Sums are folds over finite sets. What they do is proved in each of the three modules that need it
(`StockLedger_proofs`, `TillPosting_proofs`, `Receivables_proofs`), each about the sum of its own
model, always the same way: were a claim false for some finite set, it would be false for one of
the smallest size (`SmallestSet`), and taking one member out of that set contradicts it. So a sum
changes by what one of its terms changes, and a sum of natural numbers is one.

- `SafeUpgrade_proofs`. `UpgradeInv` adds to the checked invariants what each stage presumes:
  `NamesAreFresh` (no dump reuses a name, so "the dump of this attempt" is one file),
  `BackupFollowsPc`, `DatabaseFollowsPc` (up to the verification of the dump the database is
  untouched, while migrating only the schema version moved) and `OutcomeFollowsPc`. It is inductive;
  `TypeCorrect`, `NeverUnprotected`, `OutcomesAreTrue` and `ReportedBackupsExist` follow.
  `DataIsKept` needs the assumption on dumps above, and its own step: nothing in `db` is dropped
  while the dump of the attempt, which is sound, holds it.
- `LiveRestore_proofs`. `RestoreInv` says, by the place the restore is at, what is unchanged, what is
  the backup's and what protects the rest: no backup reuses a second (`NamesAreFresh`), so "the safety
  backup of this restore" is one bundle; the database is as found until `StopConnections`, and the
  backup's, but for its schema, from the replay on (`FoundFollowsPc`, `DatabaseFollowsPc`); of the
  directories, those before `dir` are the backup's, those after it as found, and what is aside is
  what the restore found (`FilesFollowPc`). It is inductive; `TypeCorrect`,
  `UnprotectedIsNeverReplaced`, `OutcomesAreTrue`, `SuccessHoldsTheBackup` and `FilesAreKept` are its
  conjuncts. `DataIsKept` needs `DumpsAsPresumed` (a safety backup is listed, never replayed), and a
  second invariant, `DataFollowsPc`: once the connections are stopped the bundles alone hold
  everything, so it does not matter what becomes of the database.
- `StockLedger_proofs`. `LedgerInv` states of every position, committed or in a draft, that it is
  explained by its movements and tracks its average. The lemmas bound the error of one `RoundDiv`
  and show how `Drift` grows by it per issue, return and re-averaging. `TypeCorrect`,
  `PositionsExplained` and `ValueStaysNearAverage` follow. `AccountStaysNearStock` needs a second
  invariant, `AccountInv`: what a draft did to the value of the stock is what it owes the account,
  but for the residuals and clamps among its lines (`DraftTracks`), so that a commit adds only the
  rounding of its one journal amount. TLC found it an invariant of `stock_ledger` before the proof.
- `TillPosting_proofs`. `RequestInv`: a reservation excludes every other of the same request
  (`ReservationsExclude`), and nothing is posted yet for a reserved request (`ReservedIsUnposted`).
  These give `RequestsPostOnce` and `AnswersHold`. `WorkInv` is about the locks: two calls hold a row
  together only FOR SHARE (`RowsExclude`), so what a call read of a row under its lock (the next
  number, the stock, the status of the session) is still true (`Knows`); it rests on what `Steps`
  locks in which order, which `SaleSteps` and `ReturnSteps` work out for any number of lines, and on
  the order that `OrderedBy` chooses (`OrderedByOrders`). `OnlyReturnsDeadlock` follows: in a cycle of
  sales nobody waits for the journal number, since its holder has nothing left to wait for, hence
  nobody for the sale number, so all wait for positions, and of finitely many variants one is the
  greatest. `BooksInv` compares the documents with numbers, stock and counts; a commit adds one
  document under numbers and units it holds, which gives `CountsStayComplete`, `NumbersWithoutGaps`
  and `UnitsAreMovedOnce`. `PapersInv` types the documents and the rows of the cash
  sessions, whose expected cash is a sum over the session's documents; with the others it gives
  `TypeCorrect`. `PostingsImplementTheBooks` is the refinement of `ShopBooks`, for any number of
  tills, connections and documents: what a call read under its locks is still true when it commits
  (`Knows`), so the commit is one posting from the books of that moment (`CommitIsAPosting`); a line of
  a return that was checked may still be given back then, since the call holds its
  position (`ReturnsAreDue`, carried by `DueInvariant`); the drawer gains what the new document puts in it
  (`DrawerGains`); every cash operation is its counterpart (`SessionIsBooked`), and every other step
  leaves the books alone.
- `UserAdministration_proofs`. `AdministrationInv`: calls carry what their operation needs
  (`WellFormed`), and a guard that nobody overtook is still true (`ChecksHold`). With what a commit
  changes (`CommitEffect`) this gives `TypeCorrect` and `CleanCalls`; and for one connection
  `SerialCallsKeepASuperAdmin`, so overlap is the only way to lose the last SUPER_ADMIN.

- `UpdateInstall_proofs`. `IInv`: a run that reached the server has its backup and knows that it
  stopped it (`RunsKnow`), a server that does not answer was stopped by a run or its absence has a
  reason (`StoppedBySomebody`), which is forgotten once it answers (`ReasonsAreFresh`), a run that was never crossed is alone and its server stays stopped
  (`UncrossedIsAlone`), a run about to stop the server under a restore was overtaken
  (`OvertakenByRestore`). `TypeCorrect`, `OutagesAreExcused`, `InstallsOverStoppedServer` and
  `RestoresKeepTheirServer` follow.
- `Receivables_proofs`. The invariant is about the locks: of two conflicting rows only one is held
  (`HeldLocksExclude`), so what a transaction read under its lock on the credit state is still there
  when it commits. With it each commit is a step of `CustomerAccount` and everything else a stutter
  (`TransactionsImplementTheAccount`: the refinement, for any number of customers, documents and
  connections and any amounts). `PaymentsAreRefundedOnce` needs the lock of the authorization and the
  UNIQUE constraint. `OnlyCancellationsDeadlock` ranks the rows that a sale, a payment, a policy
  change and the opening state lock, each in ascending order: in a cycle of these alone every wanted
  rank would be below another one, and there are four. `OverdueSalesAreOverridden` adds `OverrideInv`:
  under the lock of the credit state, what a sale found of the due date and of its override stays so.
  The money is in `AccountInv`, about the account alone: an allocation is always of a payment to an
  invoice of the same customer (`AllocationsAreOwn`), so that an operation for one customer leaves the
  debts and due dates of the others as they are; invoices are not overpaid; and the cached exposure
  and due date are what the rows say (`CacheReconciles`). Each operation of `CustomerAccount` keeps
  it (`SaleKeepsTheAccount`, `PaymentKeepsTheAccount`, `RefundKeepsTheAccount`, `VoidKeepsTheAccount`,
  `OpeningKeepsTheAccount`), and since every step of a transaction is one of these or silent, the
  refinement carries it to `Receivables` (`StepAccount`): `AccountInvariant`, `NoInvoiceIsOverpaid`,
  `TheCacheReconciles`, and with it `TypeCorrect`, since an exposure is a natural number only as a sum
  of such. TLC found `AccountInv` an invariant of `receivables` and `credit_sales` before the proof.
- `EntryForms_proofs`. `OnceInv` follows a line that is not in doubt: it is under way with one request
  id, which the database knows once the line is recorded, and what the loop of a batch has still to
  send is neither recorded nor under way anywhere (`OnItsWay`); a line that stands in the form and is
  not settled is out, or recorded, only under the id that the form keeps or by the call it awaits
  (`InForm`), so the next submission uses that id or finds nothing recorded. `CoverInv` adds what an
  awaited call and a kept id answer for: under one id, and unless a purchase was changed over it, only
  lines were sent that the form still has, and of lines that look different the payload tells which
  (`SentIsKnown`). `TypeCorrect`, `LinesAreRecordedOnce` and, as a property of the steps,
  `NoLineIsLost` follow, for any lines, contents and number of calls. What the operator does to
  the form (`Enter` to `Close`) is one action there, `FormStep`, and so is what takes the form away
  (`Leave`, `LateSuccess`), `LetGo`. Both invariants were checked
  with TLC on the instance of `entry_forms` before.

Only model-checked: `CallsAreAnswered` and `OutagesEnd` (liveness under fairness, out of the prover's
reach). Every other property of the passing runs is stated by a theorem.

## Findings

Two have a run (`update_install_locked`, `user_administration_overlap`). The others with a property are stated at the end
of their module, with a comment that the code does not keep them; checking that property as an invariant
under the constants given here shows the trace.

1. **Update.** When bundled files stay locked, `prepare_for_update_install` fails after it stopped
   the server, before `performUpdate` noted that it did (`useAppUpdate.ts:217-218`): nothing resumes,
   although the comments say it would (230-233, 51-53). An `install()` that returns without ending
   the process goes idle without the catch that resumes (220-226), and leaves the server stopped too,
   although "it is treated the same as any other failure" (224): `ReturnedInstallLeavesADatabase`
   (`UpdateInstall`, the constants of `update_install`).
2. Two administration calls on two SUPER_ADMINs pass each other's guard
   (`20260823210000...sql:189`).
3. `UpdatesSpareOthersSessions` (`UpdateInstall`, the constants of `update_install`): the window
   knows the cash session of the signed-in user only, so an update begins over another user's open
   session (`useAppUpdate.ts:21-30` says it must not), and a session opened during the download is
   not noticed either.
4. `CacheIsRecomputable` (`Receivables`, the constants of `credit_sales`): the opening debt of a
   customer has a due date in the cache and no invoice, so the next payment forgets it, no payment
   can be allocated to it, and `reconcile_customer_credit_state` computes another due date
   (`20260730201000:3-4` wants it recomputable). `CacheReconciles` therefore excepts that customer's
   due date once the opening state is applied.
5. `FailedUpgradeBackupIsKept` (`SafeUpgrade`; one entry, two schema versions, retention of one, two
   backups): a backup whose rollback failed stays in `backups/` and later retention deletes it, which
   the module's documentation excludes (`safe_upgrade.rs:91-96` against 497-511 and 811-813).
6. `OnlyMaterialResidualsRefuse` (`StockLedger`; one variant, both scales 4, quantities 1 and 3,
   packs of 1 and 2, a cost of 2, one line, five documents): a residual in [0.005, 0.01) is cleared by
   an update of an immutable row, so the sale is refused (`20260724140000...sql:159`, against line 10).
7. `LateCostFollowsStock` (the same, four documents): the remaining share of a late cost divides base
   units by purchase units (`20260803131100...sql:178`).
8. `FormsPostOnce` (`TillPosting`, the constants of `till_return` with two units of each variant received and in stock): the return form takes a new
   request id at every submit (`PurchaseReturnModal.tsx:107`).
9. `InterruptedRestoreReopens` (`LiveRestore`, the constants of `live_restore`): a power cut while a
   restore drops the schemas: `_sqlx_migrations`, in `public`, goes last, so the next start finds its
   own schema version and no `core`, and shows neither the upgrade screen nor the first-run setup from
   which the plan (E-24) and `docs/recovery/RESTORE_PROCEDURE.md` have the operator continue
   (`safe_upgrade.rs:557-595`, called at `live.rs:107`). After a cut later on the database is empty
   and both routes open, as they say.
10. **Forms** (the exceptions of `RecordedOnce` and `NothingIsLost`). A batch of receipts or adjustments
    takes a fresh id per line at every submit and keeps all its lines after a failure, so a retry
    posts the earlier ones again (`StockReceiptScreen.tsx:327-328`; its header, lines 5-6, says that the id of
    a submission is reused on retry). The single adjustment leaves its recorded row in the table, from where a
    later batch posts it again (`StockAdjustmentScreen.tsx:595-604`). The purchase form keeps its id
    when it is edited or closed (`PurchasesScreen.tsx:411-418`, 441): a changed purchase is refused,
    and an equal-looking one gets the old answer. A customer payment takes a new id per attempt
    (`CustomersScreen.tsx:511`), a cash movement has none.
11. `LateAnswersSpareTheForm` (`EntryForms`, the constants of `entry_forms`): the return modal can be
    closed while its call runs (`PurchaseReturnModal.tsx:137-145`, 261-268). When that return then
    succeeds, `onPosted` closes whatever return modal is open (`PurchasesScreen.tsx:1184-1185`), with
    what was entered in it. `NothingIsLost` excepts this.

Seen while modelling and stated in the properties as they are: a rollback loses what calls in flight
committed after the safety backup (`ImageOf`), and the result of the way back of the asset swap is
ignored (`live.rs:283`), so `RolledBack` says nothing of the files; `FilesSurvive` shows that they
are at least still aside. A refund or a cancellation can deadlock with a sale or a payment of the same
customer; PostgreSQL ends one of the two, which posts nothing.

## Plan

Done: the modules above, with their theorems. Next, in this order:

1. `Procurement`: orders, receipts against GRNI, supplier invoices and payments, with an abstract
   three-way match that they implement.
2. The whole cash session (suspend, resume, handover, float), cash cancellations with their stock.
3. Abstract specifications: an atomic replacement of the shop (before, or after) that `SafeUpgrade`
   implements.
4. The lifecycle of the opening state before it is applied; `Licence`; the drill cluster and its
   sweep.
5. Theorems: the refinement of item 3.

## Not modelled

First-run setup runs once, before there is data; what it leaves is the initial state here.
The leased queues of generation, print and drawer jobs exist in the database
(`20260722125411`, `20260722125412`) with no consumer in the repository: the program renders, prints
and waits, so there is no claim or completion to interleave. Reports, the catalogue, receipt layout, translation and the screens
keep no state of their own that the modelled components do not. Signature checks of licences and
bundles are cryptography, and PostgreSQL is taken to work as documented. Everything else not
modelled is in the plan above.
