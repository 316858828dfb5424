# Computeza in TLA+

Computeza is a self-hosted data-platform console: one Rust server that
installs open-source components (postgres, garage, lakekeeper, ...) on its
host, keeps their declared state in SQLite, observes and reconciles them,
offers an editor and a file workspace (Studio) over them, and manages the
accounts, secrets, licence, evidence and audit log around them.  This directory
holds TLA+ models of the parts of that server where ordering, failure and
concurrency decide whether it is correct, the TLC configurations that check
them, and the theorems TLAPS has proved about them.

Paths below are relative to `src/crates/`; `lib.rs` is
`computeza-ui-server/src/lib.rs`, `auth.rs` its neighbour, `main.rs` is
`computeza/src/main.rs`, drivers are under `computeza-driver-native/src/`.

## 1. The system and its parts

The server is one tokio process.  Each HTTP request is a future that may run in
parallel with every other one, and that axum drops at its next await when the
client hangs up.  Installs and rollbacks run in spawned tasks; a reconcile tick
runs every 30 seconds.  State is in memory (lost in a crash), in SQLite
(transactional), in JSONL, key and licence files next to the database, or on
the host and in the services the server installed.

| Part | State | Operations | Hard behaviour | What makes it correct |
|---|---|---|---|---|
| Metadata store (`computeza-state`, `SqliteStore`) | table `resources`: key, uuid, revision, spec, status | `save`, `load`, `list`, `put_status`, `delete` | handlers load, compute and save with a revision seen earlier; rows are deleted and created again | a matching revision means the spec its holder saw; no lost update; transactions behave as atomic table operations |
| Audit log (`computeza-audit`) | the file, `next_seq`, `chain_head` | `append`, `open` (recovery), `verify_log` | each append is three awaits; it may fail, be dropped or crash at each | acknowledged events are never lost silently; recovery continues the chain; edits are noticed |
| Secrets vault (`computeza-secrets`, `main.rs` 827-1020, rotation in `lib.rs`) | passphrase file, salt file, `computeza-secrets.jsonl`, cache, the component's own password | boot, `put`, `get`, `delete`, rotate, install, uninstall | a key made of two files that are never synced; a credential that lives in two places | what was acknowledged can be read back; vault and component agree |
| Model cards (`computeza-compliance`) | JSONL registry and its cache | open, create, delete | create checks, appends and enters the cache in three steps without a lock held between them | an answer holds until the next request about the card, across restarts |
| Operator accounts (`auth.rs` and its handlers) | `operators.jsonl`, its cache, the session table | login, logout, setup, create, set groups, change password, delete | checks are made under one lock and acted upon under a later one | acknowledged changes survive; seat cap; an admin remains |
| Licence (`computeza-license`, `lib.rs` 17350-17520) | licence file, memory | verify, status, activate, deactivate, boot | time boundaries; file and memory change in two steps | the kill-switch follows the dates; memory is what a boot would load |
| Request pipeline (`lib.rs` 273-650) | sessions, roles, licence status | four middlewares in order, and the handlers that change what they read | each looks something up when its turn comes while other requests change it | no mutation without session, permission, token and licence; no undue refusal |
| Install jobs (`lib.rs` 12600-14000, 15740-16310, `progress.rs`) | jobs map (memory), services, instance and config rows, vault entries | install all or one, rollback, uninstall, result page, credentials download | best-effort steps that fail one by one; two jobs at once; crashes; one-shot credentials | jobs whose calls return end; checklists tell the truth; credentials are shown once; a rollback leaves only what it says it left |
| Native drivers, bundles, releases (`fetch.rs`, `release.rs`, linux, macos, windows) | root directories, unit files, what the service manager runs | 16 install and 6 uninstall sequences | a step dies half-way; a re-install meets the leftovers | sentinels and `current` never lie; the version reported is the one running; leftovers are harmless |
| Ports and endpoints | forms, unit files, kept configuration files, instance rows | install, uninstall, host restart | a daemon that is not told its port, or keeps an old one; a wait that accepts any listener | rows lead to their own daemons, unless another program answers for them |
| Reconcilers (`computeza-reconciler-*`, tick in `main.rs` 480-800) | instance rows and their status; databases and specification | tick over twelve observers; postgres observe, plan, apply | slow and lost observations, servers that hang; a plan from a snapshot, applied statement by statement | badges come to tell the truth; a pass drops only what it may, and one that ends has brought about its specification |
| Lakehouse wiring (`lib.rs` 1600-2000, 11560-12130, `garage.rs`, `trino.rs`) | Lakekeeper's warehouses, cached identifiers, Trino and Sail catalogs, Garage's key | bootstrap, open, browse, wire Trino, reset | multi-step calls to four services, caches of identifiers, recovery, catalogs that two warehouses share | no warehouse is taken for another; pages heal; a bootstrap is queryable |
| Studio files (`sqlite.rs` 135-384, `lib.rs` handlers) | files, revisions | 15 handlers of the file browser, sweeper | no transactions: every statement commits on its own | an edit keeps what it replaces; a file goes only from the trash |
| Studio history (`lib.rs` 1436-1517) | a row of at most 20 entries per file | load, prepend, cut, save | concurrent queries | it holds the newest entries saved |
| Studio queries (`lib.rs` 6440-7140, 8160-8470) | executions, Trino's statements, Python children | split a buffer, post and poll, EXPLAIN, run a cell | lost requests and answers, 60 rounds, 120 s, hang-ups | statements run in order; a result is whole |
| Identity federation, tenancy, channel partner, i18n, rendering | none of their own | pure mappings, stubs | - | - |

How they interact: a request passes the pipeline, whose verdict rests on
accounts, sessions and the licence, and which those handlers change in turn
(`RequestPipeline` composes the three as the middlewares see them); handlers
call the store, the vault, the operator file and the audit log; a job calls a
driver (`InstallJobs` has it as one dispatch, `NativeDrivers` takes its steps),
then writes the row and the configuration (`Ports` follows the endpoint from
the form to the row) and the vault; an install of PostgreSQL observes once more
beside the tick (`Observations`); Studio records each query in a store row.

## 2. The modules

One module per component.  An MC module instantiates one or several for TLC.
Where it holds several that share no state (`MCRecords`, `MCStudio`,
`MCConsole`, `MCDrivers`, `MCReconcilers`, `MCPlatform`), a variable `part` is chosen at the
start and only that component moves: one run checks the sum, not the product,
of their state spaces, and no interaction is claimed between them.

The operators that `PROJECT.json` lists under `mutants` as `as`
(`SaveOverwrites`, `TearDownQuietly`, `PermissionMiddlewareLenient`, ...) are not
part of any behaviour: each is the definition that follows it with a plausible
bug.  Put in place of it, the property named there fails, which is how we know
that the property says something about the code.

Variables whose comment says "history" record what happened for the sake of a
property and guard nothing.

**`ResourceTable`, `StateStore`.**  `ResourceTable` is what the `Store` trait
promises: a table that changes by whole creates, revisions, observations and
removals.  `StateStore` is `SqliteStore` with its callers: `Load`,
`AssumeAbsent` (a handler that treats a failed load as "no such row"),
`BeginSave`, `BeginDelete`, the arms of `save` and `delete` inside a
transaction, `PutStatus`.  It refines `ResourceTable`.  SQLite's snapshot
isolation is external: a transaction that has read may write only while nobody
has committed since.

**`AuditLog`.**  The file is a sequence of lines, each the pieces written
between two newlines.  `Sign`, `WriteLine`, `WriteNewline`, `SyncAndAdvance` are
`append` between awaits; `Abandon` is an error or a dropped future at any of
them; `Crash` keeps what was synced and cuts the rest anywhere.  `Open` is
`recover_state`, `Verifies` is `verify_log`.

**`SecretVault`.**  The boot (`ResolvePassphrase`, `EnsureSalt`, `WriteSalt`,
`OpenStore`), the store (`Put`, `Drop`: change the cache, rewrite the file, which
may fail), and the requests that rotate, install and uninstall a credential, with
the component's own password in `live`.  `Apply` changes `live` for PostgreSQL
only (`Wired`): for kanidm and grafana the code says Ok and changes nothing, so
their entry is a password nobody accepts.  A psql that a dropped request, an error
or a crash leaves behind is in `psql` and may still end, either way, at any later
moment (`PsqlEnds`).  A ciphertext can be read under the key
it was made with only.  `Crash` is a process crash or a power loss: neither key
file is synced, so until the system wrote it back (`Settle`) a power loss may
leave it short or take it away.  Taken as given: the renames that replace the
JSONL files are durable once the write returns; a passphrase given in the
environment is not modelled.

**`ModelCards`.**  `Check`, `OpenFile`, `AppendLine`, `AppendNewline`, `Push` are
`create`; `Retain`, `Rename` are `delete`, which holds the lock; `Cut` and
`Restart` end requests anywhere.  `inode` tells whether an append still goes to
the file that has the name.  The file is the set of its ended lines and what
stands after the last newline: nothing the registry answers depends on the order
of its cards, and `delete` removes every copy of one.

**`OperatorAccounts`.**  A managing request is `Authorize` (the two
middlewares), a check (`CheckSeats`, `CheckDelete`), then the act (`Create`,
`Delete`, `SetRole`); `Persist` lets the file write fail after the cache changed.
Of the groups only `admins` matters here.

**`License`.**  An envelope is its chain length, anchor, signature validity, the
two post-quantum fields and its dates; `Verify` keeps the code's order of checks
and `Status` its arithmetic in whole days (`Day` ticks to a day).  `Activate` and
`Deactivate` change the file, `Remember` the memory, `Abandon` is a request
dropped between; `Restart` may bring a binary with another root, and after a power
loss any of the contents that were not yet synced away (`older`).

**`RequestPipeline`.**  `AuthMiddleware`, `PermissionMiddleware`,
`CsrfMiddleware`, `LicenseMiddleware` in this order for each client's request,
with any cookie a browser may still hold and any token a stale page may carry;
`Login`, `Logout`, `ManageOperators`, `ActivateLicense` are the handlers that
change what the middlewares read, `DatePasses` and `ServerRestart` do so too.
`Routes` has one of every kind the tables in the code treat alike.  `held` and
`failed` collect what held, or did not, at some moment of a request.  The
permission a request needs is that of the user its session stood for when it
came in (`Operator`): the code hands that user on and does not ask again.

**`InstallJobs`.**  A record per job: components in order, position, stage,
checklist, credentials of the page (`bag`) and of the download (`stash`).
Services, rows, configs and vault entries outlive a crash, jobs do not.  Every
step but the dispatch of an install may fail and the job goes on, as in the code.
`TearDown` is what the drivers do: what cannot be stopped or removed becomes a
warning of the summary, with success all the same (`warned`), and databend's driver
drops some warnings (`Silent`).  A component whose config could not be loaded is
looked for under the default names (`blind`).  lakekeeper shows credentials during
its dispatch, whether it succeeds or not (`Announced`).  `Stall` is a call outside
the server that does not return (a download without a time-out, a cargo build, psql,
apt-get), or a panic of the task: such a job stays "stuck".
A rollback's order is the done components of the job it undoes, last first:
`Teardown` says it as the decreasing enumeration of their positions.

**`DriverRecipes`, `NativeDrivers`.**  `DriverRecipes` gives each driver's
install and uninstall as a sequence of steps; `NativeDrivers` has one action per
step (`Check`, `Extract`, `Seal`, `Build`, `Copy`, `Probe`, `Swap`, `Prune`,
`InitDb`, `Provision`, `Unit`, `Enable`, `Wait`, ...) over the product's files and
what systemd, launchd or the Windows service manager knows and runs.  `Fail` lets
a step die half-way, in each of the states it can leave; an install then stops, an
uninstall goes on.  `Reboot`, `Respawn`, `EditConfig` and `RollBack` are the host
and the operator.  `Wait` takes whoever listens on the
port; `PortTaken` is another program, or product, that does.  Databend's removal
records the warnings of its main service only, as its driver does.  `tainted`
remembers what the drivers do not promise to survive: a stop that was refused
(until a stop succeeds; a reboot does not undo it), a removal that left part of the
root, a database that was not dropped, a port that another program has.

**`Ports`.**  Two products at a time: what the form says, what the driver tells
the daemon, what a kept file says, what the daemon binds, what the row says.
Ports wrap as `u16` in a release build.
Nothing keeps two products from one port: restate and openfga share their default.
A daemon whose ports are taken is restarted until they are free (`Bind`), and the
wait of its install takes the other's listener for its own.  `misled` remembers the
installs that did, also the ones answered by their own daemon on a port beside its
own: a garage whose `garage.toml` still says 3900 answers on 3902 too, so that a
form asking for 3902 is taken for installed, with a row for 3905, where nobody
listens.

**`Observations`.**  The tick goes round the kinds (`List`, which passes over a row
whose specification cannot be read), asks (`Request`, one request of a snapshot at a
time) and writes (`Persist`); the install of PostgreSQL observes on its own at the
same time.  A reconciler is the requests it makes, those whose failure makes the
snapshot fail, the one that may be absent (kanidm's 404), and those that give up on
a server which does not answer.  A server that hangs still takes connections, so
that sail and trino, which only connect, show it as observing; PostgreSQL's bound of
30 seconds is on the connection of the pool, and a statement waits for ever
(`Waits`).

**`PostgresReconciler`.**  `Observe`, `Plan`, then per statement `Commit` or
`Abort`, `Audit` of the change just committed, and the closing event in `Finish`;
other clients and the operator act between any two.  The caller is outside: today
only the integration test plans and applies, the console observes.  So nothing is
assumed of when a pass comes, and nothing is claimed of passes following one
another.  `Stored` is the name PostgreSQL keeps, its first 63 bytes.

**`Lakehouse`.**  Each request is a sequence of calls to Lakekeeper, the vault,
Trino, Sail's configuration or Garage; each call succeeds, fails, or succeeds and
loses its answer.  `Arrive` is what a handler does between two calls.
Catalogs, their properties files and Sail's keys have the name `Catalog` gives a
warehouse (`sanitize_sql_identifier`, any function of the name here), which two
warehouses may share; what stands under a catalog is what it asks Lakekeeper for, a
name or an identifier.  Trino and Sail are there or not, independently.  `hurt` says
that a call of the request failed or that something was taken from under it,
`alone` that no other request to the engines, and none already hurt, overlapped
it.  The second part of `alone` is needed: a request that looked an identifier up
before the warehouse was wiped may write it to the cache after a later bootstrap
has written the new one.  That takes three requests, which the run does not have;
the proof met it, and TLC confirms it with a third.

**`FileHistory`, `StudioFiles`.**  `StudioFiles` has the handlers as lists of
jobs, each job a statement or a few (`studio_files_update` is `ReadRow`,
`Snapshot`, `WriteRow`); it refines `FileHistory`, which says that an edit keeps
what it replaces unless it was made from an outdated copy, and that a file ceases
to exist only from the trash.

**`StudioHistory`, `SqlBuffer`, `StudioQueries`.**  Load, prepend, cut, save; the
splitter as a scanner against a declarative reading of the same buffer (its
lexemes, each the longest that starts where the last one ended; "x" stands for
every character without a role, a new line and a space for white space); executions
against a coordinator whose requests and answers get lost, and Python children.

`StateStore`, `AuditLog`, ... name their bounds in their CONSTANTS; those that
say "bound" stand only in guards that keep TLC finite.

## 3. The runs

| Run | Instance | States | Shows |
|---|---|---|---|
| `records` (`MCRecords`) | 2 keys, 2 specs, 5 commits; 5 events; 2 names, 3 values, 4 key halves; 2 cards, 4 requests; 2 requests at a time | 2,162,840 | store: a revision identifies the spec, no update is lost, `StateStore` refines `ResourceTable`; log: while the file verifies it has every acknowledged event, an unhurt log verifies, an accepted edit is a truncation; vault: acknowledged secrets are readable, or reported unreadable after a power loss, and an unraced rotation of a password that can be applied has vault and component agree; cards: answers hold |
| `records_rotation` | the same | - | refutes that a failed rotation leaves vault and component in agreement |
| `accounts` (`MCOperatorAccounts`) | 3 users, 2 passwords, 2 requests, 1 seat | 436,232 | acknowledged changes survive; the cap is overrun by concurrent creations only; checks hold for a request nothing overtook |
| `accounts_last_admin` | 2 users, 2 deletions | - | refutes that the last admin cannot be deleted |
| `install_fair` (`MCInstallJobs`) | 2 components, one movable, one with hidden warnings, 2 jobs in turn | 1,187,552 | every job ends whose calls return; of what a finished rollback calls done without warnings nothing runs |
| `studio` (`MCStudio`) | 2 requests, 2 files, 4 handlers, 3 contents; 4 queries, 2 buckets, cap 2; every buffer of at most 5 characters; 1 execution of at most 3 statements, 3 rounds | 685,655 | files refine `FileHistory`; the history keeps the newest; the splitter cuts as meant; statements run in order and results are whole |
| `studio_plan` | the same | - | refutes that EXPLAIN runs nothing |
| `console` (`MCConsole`) | 6 envelopes, 2 roots, 9 instants, 2 administrators; 2 clients, 1 user, 2 sessions, 6 routes | 2,579,110 | the kill-switch follows the dates to the instant; memory is what a boot loads; every verdict on a request is due |
| `drivers` (`MCDrivers`) | 16 drivers, 2 versions, 1 job, 2 faults, 3 releases kept to 2; the pairs that can meet on a port (`Pairs`), 1 typed port, 2 service names | 1,604,465 | sealed trees are whole, `current` is probed, what was installed runs, leftovers are harmless, a clean uninstall is gone, the database keeps its key; rows lead to their daemons |
| `reconcilers` (`MCReconcilers`) | postgres, kanidm, sail, 2 changes, 1 store fault; 5 names, one of them cut by PostgreSQL, 1 edit, 1 other client's change, 1 error | 1,606,537 | badges come to tell the truth; drops are meant and come last, the trail is true, a pass brings about its specification |
| `platform` (`MCPlatform`) | 2 components, 2 jobs at work; 3 warehouses of which 2 share a catalog, 2 requests, 1 fault, 1 wipe, from `Furnished` | 3,627,054 | one page and one download per job's credentials; the checklist is honest; other warehouses than "default" are never mixed, pages heal, a bootstrap is queryable |
| `platform_default` | the same | - | refutes that "default" is never given another warehouse |

Why the bounds are enough.  Two requests (jobs, handlers, clients) are what a
race takes: every check-then-act in this code involves one check and one other
act.  Five commits let a row be created, edited, deleted and created again under
a request that still holds the first copy.  Five events let an append be
abandoned after its newline, the log fork, a crash cut one branch, and the chain
go on.  Three secret values let two rotations race and a third follow; four key
halves let both be made twice.  Four card requests let a card be created, deleted
and created again while another request is overtaken.  Nine instants at two to
the day put every boundary of every envelope, and both sides of the warning
threshold, inside the run.  Five characters are one more than the longest
boundary the scanner has (an opened and closed block comment) and let a semicolon
meet each of them; three statements have a first, a middle and a last, three
rounds a last fetch whose body is not read.  Two versions make up- and
downgrades; two faults let the repair of one be interrupted; a third release,
with two kept, is pruned.  Two products are what a port conflict takes, and
`Pairs` has each way two can meet: on a typed port, on a default both have, and
beside a daemon that is not told its port.  Three warehouses are two of one
catalog and "default".  In `platform` a behaviour of the lakehouse begins with an
empty host, with either engine, both or none, or with both engines after the
bootstraps in `Histories`, so that two requests need not rebuild them; the
constraint `Mild` keeps failures to moments with one request at work, so what is
shown of two at once is about their order only.  Its jobs meet drivers that fail
or hang, but by `Calm` no failing store, of which its two properties do not speak;
`install_fair` has that.

`console` has one user, because two are beyond TLC at two sessions; that hid a
case, a request whose user is promoted after the session was signed out, which
the proof met and `Operator` now states.  `VerdictsAlwaysDue` covers any number
of users.  `studio` has one execution at a time, since executions share nothing,
and `drivers` one job at a time: two jobs of one product are possible in the code
and break the sentinel (section 5).

Symmetry is over interchangeable model values and not used in runs that check
liveness.

Fairness.  `InstallJobs!Fairness` is weak fairness of each job's steps: a spawned
task is polled as long as the runtime lives.  It does not say that a step's calls
return.  Downloads without a time-out (`garage.rs` 600), a cargo build (672), psql
(`lib.rs` 13419), apt-get, and a panic of the task (13750) leave a job for good, and
nothing supervises it: that is the action `Stall`, which any job may take
wherever it waits for another program, and `JobsFinish` promises nothing of a "stuck" job.
`Observations` assumes that the timer fires, that a request which is not to a hung
server is answered, and that a write returns; a request to a server that hangs,
made by a client without a time-out, has no fair step, and `TruthIsShown` speaks of
behaviours in which the tick is not left waiting for one.  `PostgresReconciler` has
no fairness: nothing in production schedules its passes.  Nothing is asked of
operators, other clients or faults, which the bounds make finite in number.

Deadlock is not checked in `reconcilers` (the passes end with the bounds, and a
tick may wait for ever) and in `platform` (requests end with `MaxStarts`), whose
behaviours stop when their bounds are used up; elsewhere it is.

### What the violated properties say

- `accounts_last_admin`: counting admins and deleting one happen under two locks,
  so two deletions leave none; `ChecksHoldUnlessOvertaken` says that the checks
  themselves are right.
- `records_rotation`: the component is given the new password before the vault; if
  the vault's put fails, the two differ (`lib.rs` 16070-16073 says that they agree).
- `studio_plan`: the Plan tab takes off trailing semicolons only; EXPLAIN stands
  before the first statement, and the others run.
- `platform_default`: a recovery of any warehouse writes the shared key that is
  read for "default".

## 4. What is proved

All theorems hold for every value of the constants that satisfies the ASSUMEs of
the component's module, which TLC also evaluates.  `*Proofs` modules hold them,
with the inductive invariant in named parts before the lemmas, one lemma per
group of actions.

`RecordsProofs`, the four records behind the console.  `StateStore`:
`StoreTypeCorrect`, `RevisionSound` (`RevisionIdentifiesSpec`), `NoUpdateIsLost`
(`NoLostUpdate`), `StoreImplementsTable` (`Spec => ImplementsTable`).  The property is
not inductive: `StoreInv` adds that uuids are fresh and unique, that a held copy
names a row of its key at an equal or later revision, and that an open
transaction's snapshot is the row while nobody has committed.
`SecretVault`: `VaultTypeCorrect`, `AcknowledgedAlwaysReadable`, `NeverWrong`,
`RotationAgrees`.  `VaultInv` says that a boot which has to make halves of the key
still can (`KeysSuffice`), that until a power loss every entry is encrypted under
what the two files hold (`KeysHold`), that the file agrees with what was
acknowledged (`FileAgrees`), that two requests for one name know of each other
(`RacesAreKnown`), that an unraced rotation on its way to the vault has already been
taken by the component (`AppliedBeforeStored`), that no psql left by an earlier
request is still to change what it set (`NoStrays`), and that nothing, a stray psql
included, touches the name of a finished one (`RotatedIsQuiet`).  `RotationAgrees`
is about the names in `Wired` only: for the others the code applies nothing.
`ModelCards`: `AnswersAlwaysHold`.  One delete rewrites at a time (`OneRewrites`);
an append that nothing disturbed goes to the file that has the name
(`AppendsToTheFile`); the file follows the cache but for what is on its way
(`FileFollows`).
`AuditLog`: `LogTypeCorrect`, `UnhurtAlwaysVerifies`, `NothingIsLostSilently`,
`EditsOnlyTruncate`.  Events stand in the file in the order in which they were
signed (`Ordered`, `Bounded`), an acknowledged one is on disk (`Durable`) and not
after what any later event names as its predecessor (`Linked`), so that a file
which verifies has them all; while nothing is hurt the lines verify and the writer
is at their end or one event behind it (`Unhurt`).

`OperatorAccountsProofs`: `TypeCorrect`, `ChangesPersist`, `OvershootBounded`,
`ChecksAreEnough`.  `StepKinds` sorts the steps into five kinds; the cap's
invariant counts accounts together with requests that passed the seat check.
`FiniteAssumption` (finitely many users and handlers) is needed for counting.

`ConsoleProofs`.  `License`: `LicenseTypeCorrect`, `MemoryMatchesBoot`
(`MemoryIsWhatBootLoads`), `SwitchAlwaysFollows` (`KillSwitchFollowsTheDates`).  A
request at work that nothing raced has already written to the file what it will
put in memory (`FileIsWritten`); that the switch follows the dates, for any length
of the day, rests on facts about rounding the division in `Status`.
`RequestPipeline`: `PipelineTypeCorrect`, `VerdictsAlwaysDue` (`VerdictsAreDue`).
One conjunct per middleware says what a request that has passed it has
established (`PastAuth`, `PastPermission`, `PastCsrf`, `PastLicense`), and `held`
never forgets it.

`StudioProofs`.  `StudioFiles`: `FilesTypeCorrect`, `FilesImplementHistory`
(`Spec => ImplementsHistory`): an update that has taken its snapshot holds a copy
that was the row when it was read, and each statement that changes a row or adds
a revision is one edit of `FileHistory`, every other a stutter.
`StudioQueries`: `QueriesTypeCorrect`, `InOrderAlways` (`StatementsRunInOrder`),
`WholeAlways` (`ResultsAreWhole`).  `InOrder` says that statements before the
position have finished and those after it are unsent; `UpToDate` that the answer
about to be read is the coordinator's last and, with the rows collected, all of
its pages.
`StudioHistory`: `KeepsTheNewestAlways` (`KeepsTheNewest`).
`SqlBuffer`: `SplitsAlwaysAsMeant` (`SplitsAsMeant`), for buffers of any length.  The
scanner's round is at a character, in a mode; `Follows` and `Within` say of each
mode that it stays until the lexeme it is in ends, strings by the parity of the
quotes so far (`Parity`).  So the scanner is in "code" exactly where a lexeme starts
(`OpenWhereStarts`).  A piece trimmed has the lexemes of the buffer it is cut from
(`StartsInPart`), so what the second scanner drops holds nothing else
(`PieceMatters`).  The induction that this takes is over sets of numbers
(`Induction`, from the well-founded order of finite sets), the rounds are
recursive functions, shown to exist (`Rounds`).

`InstallJobsProofs`: `DisclosedOnceAlways`: `Discreet` follows a job's credentials
from the bag to the page and the stash and to the download.
`ChecklistAlwaysHonest`: `Honest` places every component of a job against its
position, through every stage of the one it stands at; it asks nothing of how many
jobs run.  `RollbacksCleanUp`, for `MaxActive = 1` and finitely many jobs:
`CleansUp` says of a rollback at work what each component it has passed has left:
its service only where the summary has a warning, or the driver is one that hides
warnings.  The hypothesis is the property's own: two jobs at once undo each other's
work.
`JobsHaveAStep` and `JobsRunDown` are the part of `JobsFinish` that is not about
time: whatever failed and whoever interferes, a job at work that is not stuck stands at a
stage whose step has its guard, and each of its steps leaves one fewer of `StepsLeft`, which
nobody else's step changes.  So a task that is polled, and whose calls return, ends after six steps for each
component and one.  They need `Honest` and that a job at work stands at a component
of its order or at its end (`JobsUnderway`).  `JobsTypeCorrect` needs `Honest` too:
an order without a component twice is no longer than `INSTALL_ORDER`
(`OrdersFit`, by counting).

`DriversProofs`.  `Ports`: `RowsAlwaysReach`, for any typed ports and any two
products, also such as share one; `PortsAssumption` only types the constants.  What
is set aside is in the property, `misled`: an install whose wait another's listener
answered.  While an install waits, its daemon is down or binds what it is configured with
(`WaitsForItsOwn`), and a row follows the daemon (`RowsFollow`), through the restarts in which daemons race
for their ports.
`NativeDrivers`: `HostTypeCorrect` for any number of jobs; the others for one job
at a time (`Alone(w)`: `Workers = {w}`), since two of one product do break the
sentinel (section 5).  A job's recipe is unrolled once, into which step may follow
which and under what settings (`Flows`, from `JobsFlow`), and each invariant says
what holds at each step of it:
`SealedAlwaysWhole` from `Sentinels` (a sealed tree is whole except between the
steps that replace it); `DatabaseAlwaysKeepsItsKey` from `Keys`;
`CleanUninstallAlwaysGone` from `RemovalsFit` (what a removal has stopped stays
so, databend's meta service set aside, whose warnings the driver drops); `CurrentAlwaysProbed` from `ReleasesFit` (what is staged, probed and named);
`LeftoversAlwaysHarmless` from `Harmless` (whatever step a job stands before, what
it needs is there, or an earlier step of this job makes it);
`InstalledAlwaysRunning` from all of these and `Running`, which follows a release
from the tree over the unit to the daemon, through starts, stops and reboots;
where another program has the port, and so answers the wait, the install is
"tainted" and nothing is claimed.
The last one showed that a reboot does not heal a refused stop: on trino, a stop
refused, a runtime torn by a later install and a success reported by the old daemon
leave a service that a reboot cannot bring up, after four faults, where the run has
two.  `tainted` therefore keeps "running" until a stop succeeds.

`LakehouseProofs`.  `NeverMixed` (`OthersAreNeverMixed`) and `PagesAlwaysHeal`
(`PagesHealThemselves`) from `LakeInv`: what a request carries, and what vault,
Lakekeeper hold under a name, was made for that name (`Owned`), what the engines hold
under a catalog leads only to warehouses that have its name (`MayReach`, for any
function `Catalog`), and a
page that nothing hurt recovers at most once and then holds an identifier that
Lakekeeper knows (`Healing`).  `BootstrapsAlwaysQueryable`
(`BootstrappedIsQueryable`) from `BootInv` besides: one request is alone at the
engines (`Tame`), what the others write to the cache is what Lakekeeper has
(`Fresh`), and `Boot` tells, label by label, what a bootstrap has brought about.

`ReconcilersProofs`: `TypeCorrect`, `DropsAreMeant`
(`OnlySeenExtrasAreDropped`), `PartialPassesConverge` (`DropsComeLast`),
`TrailIsTrue` (`AuditTellsWhatHappened`).  `PlanUnderWay` ties what is left of a
plan to what was observed.  `PassesDoBringAbout` (`PassesBringAbout`): a pass that ends on a server
nobody else changed since it observed (`NotOvertaken`) has brought about what it
planned from, where PostgreSQL keeps the names as they are.  Around it,
`OnlyOthersOvertake`: no statement, crash, audit event or edit of the pass's own
makes it overtaken; `StatementsAreAccepted`: a pass that is not overtaken issues
only statements the server accepts; `PlansRunDown`: each is one less in its plan;
`ConvergedIsLeftAlone`: where the server has what is asked for, the plan is empty.
They are about one pass; nothing is claimed of how passes follow one another.
`TrailIsTrue` includes the closing event: a pass that says "Reconciled" has made
every change it found to make.  `OnCourse` says that what is done and what is left of a plan
are all of it and nothing twice.  The exception for the names in `System` and
`Unquotable` is the code's: it never observes the first and cannot drop the second.
`Observations`, for any of the twelve components in any order: `TicksTypeCorrect`,
`OnlyDetectorsFail` (only a reconciler with a request it cannot do without shows
"failed"; the eight of `TheDeadAreShownFailed` have none), and the steps
`TruthIsShown` is made of: `ObservationsTell` (an observation sees its server as it
is and writes that, unless the server changes, the row goes or the store fails),
`TruthStays` (a badge that tells the truth, with no stale observation under way,
tells it until the server changes) and `ObservationsRunDown` (every step an
observation takes leaves fewer; one that waits for a hung server takes none).
What a badge ought to say (`Due`) is what its reconciler can tell: a hung server
takes connections, and kanidm's 404 is not a failure.  `TickInv` says that an observation holds what the
requests it has made could have told it.

The larger invariants passed TLC on the instance of their component's run before
they were proved, those of `NativeDrivers` with every driver.  But for what is said
above, the theorems leave no bound of the runs standing: `MaxFaults`, `MaxStarts`,
`MaxCommits` and the like are any numbers.

Only model-checked: that `JobsFinish` and `TruthIsShown` come about.
They are liveness under fairness, which the provers cannot reach; what each of
their steps achieves, and that there are finitely many of them, is proved (above).

## 5. Where the code differs from what it says, and what else was met

Properties that state what a comment or document says, that the code does not
keep, and that no run lists are kept in the modules; naming one in the
configuration of its module gives the counterexample.

- `AuditLog!EditsBreakTheChain`: nothing binds the number of events; a log without
  its last ones verifies (`computeza-audit` `lib.rs` 18-19 says otherwise).
  `TornTailIsRecovered`: a partly written last line stops the server.
- `SecretVault!KeyIsStable`: a key file taken by a power loss is made anew without
  a look at the secrets that exist.  Rotating kanidm's or grafana's password says
  Ok and changes the vault only (`lib.rs` 13370-13379): the entry is a password
  nobody accepts.  A psql whose request was dropped is not killed and may still
  change the password later.
- `OperatorAccounts!SeatCapHolds`: two creations at once overrun the cap.
  The same two-lock pattern lets two first-boot forms both create an admin.
  Deleting an operator leaves their sessions in the table.  Handlers ignore the
  audit append's result.
- `StudioFiles!EveryContentIsKept`: of two overlapping updates one content is lost
  (`sqlite.rs` 54-58 says that it is kept).  An import also overwrites a trashed
  file; an update of a row purged meanwhile says "saved"; a rename writes back the
  content it read.
- `License`: a boot with an envelope that fails verification logs "falls back to
  Community mode" (`main.rs` 272-277) but is read-only; deactivation ignores that
  the file could not be removed; overlapping activations leave file and memory
  apart.
- `RequestPipeline`: permission is judged for the user the session stood for when
  the request came in; a GET whose session is signed out meanwhile still runs.
- `NativeDrivers!ReleasesHoldWhatTheyName`: garage builds whatever source tree it
  finds (`garage.rs` 590).  Two fetches of one bundle at once can leave a sentinel
  over a partial tree (`fetch.rs` 137).  `wait_for_port` (`service.rs` 583-602) takes
  any listener for the daemon it waits for.  Databend's uninstall throws away the
  warnings of its meta service (`databend.rs` 286-293), which may be left running by
  one that ends without a warning.  `bootstrap` on macOS takes exit 17 for
  success and keeps the old plist.  Leftovers that do block: a kanidm certificate
  without its key, an interrupted rustup-init, a partial source tree or JRE, a torn
  `garage.toml`, a torn initdb; these products are not in `Resumable`.  An uninstall
  of lakekeeper leaves the database when PostgreSQL is down.
- `Ports!RemovedIsSilent`: a second service name orphans the first unit.
  `StudioFindsS3`: right for the default admin port only.  Restate and openfga
  share the default port 8080, although the forms and the document on versions say
  8081 for restate: the install of the second reports success on the first's
  listener, with a row that leads to the other product; grafana, restate and lakekeeper are not told the form's port;
  garage keeps the old one in `garage.toml`.
- `Observations!TheDeadAreShownFailed`: the snapshots of eight REST reconcilers
  never fail, so a dead server stays "observing"; REST clients without a time-out
  let one hung server stop the tick, as does a PostgreSQL statement, which has no
  time-out (`reconciler.rs` 153-166).  Sail and trino that hang stay "observing",
  since they are only connected to.  A row whose specification cannot be read is
  never observed (`main.rs` 533-539) and its badge stays as it is.
- `PostgresReconciler`: a specification that names a system database, or extras
  under prune that cannot be quoted, fail every pass.  `validate_identifier` lets
  names of more than 63 bytes pass, which PostgreSQL cuts: such a database is missing
  at every pass and its creation refused, so the specification is never reached.
  `plan` does not ask whether the observation failed.  Nothing in production plans
  or applies; the console's tick observes only.
- `Lakehouse`: two warehouses whose names sanitize alike ("my-sales", "my_sales")
  share one catalog, one properties file and one key of Sail's configuration, and
  queries of one read the other; `OthersAreNeverMixed` says of a shared catalog
  only that it leads to a warehouse with its name.
- `Lakehouse!TheSecretIsInTheVault`: Garage tells a key's secret once; if the
  bucket fails, it is lost (`garage.rs` 283-285 says that it is in the vault).  A
  failed read of the catalog list counts as empty, and two bootstraps lose an
  update of it.
- `StudioQueries!CellsTellWhatHappened`: a cell that printed and then raised is
  answered as a success.  A Python child outlives time-out and hang-up; the body
  of the last fetch is never read.
- `SqlBuffer`: block comments do not nest, as the comment inside the function says
  and the one above it (`lib.rs` 8160) denies; a buffer of comments or semicolons
  alone has no statement, where the latter (8166-8167) promises at least one.
- `ModelCards`: two creates of one id both pass the duplicate check; overlapping
  creates can glue two lines, after which the registry is not attached at the next
  boot; a failed delete is reported as a success.
- `InstallJobs`: a POST does not look for running jobs, and what two at once leave
  of a component they share is undetermined; a finished rollback can be rolled back;
  vault entries of bootstrap hooks survive an uninstall.  What a driver could not
  stop or remove is a warning and the step is done all the same: a rollback may be
  finished with the service on the host, and its page says so in the warnings only.
  A job whose call never returns, or whose task panics, is never completed; its
  refusal to be rolled back advises a restart of the server and to "re-roll-back
  after restart" (16148-16149), but the restart forgets the job.

## 6. Not modelled, and why

- Stateless or pure parts: identity-federation claim mapping, tenancy types, i18n,
  rendering and themes, channel-partner stubs, completion and previews in Studio.
- Cryptography: a signature is valid or not, a digest names one event, a ciphertext
  is readable under its key only.
- Parsing of cookies and headers, URL encoding, log wording; archive formats (one
  step); progress messages, PATH symlinks and the wizard's detection in the drivers;
  SQL and DDL that forms compose and send as one statement.
- Trino's own lower-casing of unquoted catalog names.
- The retry form of a failed install; errors of fsync itself.
- `Model cards`: `update`, which no handler calls.
- The composition of an account change with its audit event: the append's result is
  ignored, so no relation between the two is promised.

To repeat a check: `tlc -config <cfg> <module>` and `tlapm <module>Proofs.tla` in
this directory, with the community modules on the library path.
