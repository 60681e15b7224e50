# A formal model of PRSwarm

PRSwarm applies one change to many GitHub repositories. It is one process: a
Fastify API with an in-memory SQLite database that is flushed to an encrypted
file, an in-process job queue, and a React client that takes the user through
the steps Select, Define, Preview, Confirm, Execute and Results.

This directory holds TLA+ modules for the parts of it that keep state and act
concurrently, TLC runs over small instances, and TLAPS proofs for all instances.
`PROJECT.json` lists the runs, the source lines behind every definition, the
hazards and the findings.

    tlc -config MCJobEngineWizard.cfg MCJobEngine.tla      # one run
    tlapm JobEngineProofs.tla                              # one proof module

## 1. Inventory

Paths are relative to `src/apps/api/src` unless they start with `web/`
(`src/apps/web/src`).

| component | state | operations | talks to | what makes it correct |
|---|---|---|---|---|
| Job engine: `routes/changesets.ts`, `routes/jobs.ts`, `jobQueue.ts` | `jobs`, `repo_runs`, `repo_run_files`; per run a snapshot of rows and a p-limit queue | create job and preview loop, execute, retry, run tasks, verdict | repository pipeline, event bus, database, Slack | reported commits exist; verdict fits the rows; rows done are left alone; every run ends |
| Wizard pages: `web/pages/ConfirmPage.tsx`, `ResultsPage.tsx`, `HistoryPage.tsx`, `web/components/Stepper.tsx` | cached job view, pending mutations (of a mounted page) | offer and send execute and retry | job engine | no second run of a running job is offered, and some way on always is |
| Job progress: `jobEventBus.ts`, `GET /jobs/:id/events`, `web/pages/ExecutePage.tsx` | emitters and listeners, streams, the page's copy of job and rows | publish, connect, snapshot, handle, reconnect, close | job engine | the page converges to what is saved; streams end |
| GitHub pipeline: `github/repoDiff.ts`, `github/repoExecute.ts` | preview results of files; commits, refs and pull requests on GitHub | preview, check, skip, commit, update or create ref, open pull request | GitHub | only what was reviewed is written; nobody's push is undone; SUCCESS is true |
| Auto-flush: `db.ts` (`wireAutoFlush`), `index.ts`, `cli/interactiveCli.ts` | dirty, first dirty time, timer, failing | write, timer, retry, close, signal | encrypted file | no write forgotten, bounded wait, spaced retries, nothing lost at a stop |
| Encrypted file: `encryptedStore.ts`, `databaseFormat.ts` | the database file, temp files, legacy sidecars | load, migrate, flush in steps, clean up | the OS | the file always opens and holds what was saved last |
| Encryption key: `crypto.ts`, `secrets.ts`, `keychain.ts` | key source, memoised key, keychain entry, key file | resolve, generate, refuse to boot | OS keychain | an existing database is never orphaned by a new key |
| Schema migrations: `db.ts` (`runMigrations`) | columns, connections and jobs of any version | run every step, at every opening | encrypted file | an opened database has what the code counts on; opening it again changes nothing |
| Command line and boot: `cli/*`, `index.ts` | port, menu, data directory | start, listen, change port, clear data, exit | all | no start is refused without a mishap; data is saved or removed as asked |
| Connections: `connectionsRepository.ts`, `routes/connections.ts`, `github/loadConnection.ts`, `github/appAuth.ts`, `web/pages/ConnectPage.tsx` | connections, the active one, installations; per run a cache of clients; per tab a list and a form | connect, activate, remove, list installations, resolve | GitHub | one connection per type, one active; a client covers the account it is used on |
| Sessions and users: `auth/*`, `routes/auth.ts`, `routes/users.ts`, `web/App.tsx` | users, cookies, login attempts, the status a page goes by | boot, sign up, log in and out, promote, change and reset passwords | all routes | unique names, an administrator, nobody's rows left behind, a limiter that bounds and opens |
| Client forms and selection: `web/state/*`, `web/pages/SelectPage.tsx`, `DefinePage.tsx`, `web/components/FileEntryEditor.tsx`; change sets: `routes/changesets.ts` | selected repositories, the form, a fetch, submissions under way | browse, select, edit, fetch, submit, confirm | job engine, catalogue | a job is of one complete state of the form; what is selected or typed is not lost |
| Catalogue: `routes/github.ts`, `routes/fetchContent.ts` | none | requests passed on | GitHub, a URL | any answer is taken (in the forms' model) |
| Settings, Slack, UI components | none, or one value | | | not modelled: no behaviour over time |

Hard behaviours: JavaScript runs to the next `await`, so the danger is what
changes between two awaits. Handlers check and then await (`getOctokitOr400`)
before they act; up to five tasks per run write rows of the same job; a preview
loop runs beside all this; a run works on a snapshot. GitHub requests fail with
or without effect. The process may die at any step, and the file is behind the
memory by up to five seconds. Streams drop and reconnect. Handlers verify at GitHub, or
hash a password, between reading a row and acting on it; several tabs hold lists
that others have changed; a page is left while its requests are under way. A
start may find what another version, another environment or an interrupted start
has left.

## 2. Modules

### Job engine

`JobEngine` is one job. `PreviewRow` is the loop of
`POST /changesets/:id/jobs` (the last row's insert and READY are one stretch
without an await, and one step); `CheckExecute`, `CheckRetry`, `Refuse`, `StartRun`
are the two routes, cut at their await; `StartTask`, `Commit`, `Succeed`,
`Skip`, `Fail`, `FinishRun` are `runJobExecution` and, of `executeRepoRun`, the
moment its commit lands; `TaskFault`, `RunFault`, `PreviewFault` are database
errors, and `MarkJobFailed` saves FAILED after one, or fails too and is only logged. A call `c` is one HTTP request with the run it starts. `Next` lets any
client of the API send anything at any time.

`JobEngineWizard` restricts the requests to those the pages offer: `WizardNext`
for the wizard's own path and `HistoryNext` for a job opened from History while
its preview goes on. The pages do not keep two requests apart: what is pending is
known to the mounted page only (`ConfirmPage.tsx:41,241`), and "Back to preview"
and Confirm again is a live button. `PatientNext` therefore adds an assumption on
the user, `Waited`: nobody clicks while the request of an earlier click is at its
check. Everything that is said here of the wizard's job (`JobEngineCrash`,
`JobProgress`, `JobEngineRefinement` and the invariant `WizardInv` included)
rests on it; `JobEngineDoubleExecute` shows what happens without it.

`JobEngineCrash` adds the database file: `Flush` copies what is in memory to
the disk, `Crash` is a death and a boot from the disk. That a flush is one step
is what `EncryptedStore` and `StoreRefinement` justify; power failures, which
may bring an older file back, are left to them.

`BulkUpdate` is what a bulk update promises: rows are prepared, a batch is
settled row by row, the verdict follows. `JobEngineRefinement` maps the engine
driven by the wizard to it.

### Progress

`JobProgress` extends `JobEngineWizard`: every engine step publishes what
`jobQueue.ts` publishes in it. `Connect` is the SSE handler, which has no await:
snapshot and subscription are one step. `wire` is the stream, in order.
`Handle` is `onmessage`, `Drop` the network, `Visit` and `Leave` the page's
effect and its clean-up. A listener whose connection is gone is removed at once
(its close event follows; until then it writes to nobody).

### Repository

`RepoWrite` is the request-by-request detail of a row that `JobEngine` has as
one commit: several rows on one repository, other people's pushes, any strategy
per row, requests failing before or after their effect. Contents of files are
opaque values. Blobs and trees are invisible until a ref names them, so they are
made together with the commit. Commits are immutable and refs move without
force, as the calls ask for.

### Persistence

`AutoFlush` is the timer logic over writes, with time as countdowns (500, 5000
and 2000 ms become constants). `EncryptedStore` is the file: boot, the legacy
migration with its VACUUM, and the steps of `flush`, each of which may be the
last before a kill (the page cache survives) or a power outage (unsynced
contents may be torn, a rename may be lost), and which may fail: a write may be
short (`WriteShort`), the sweep of a start may (`BootFails`), and so may the
removal of a temp file (`Unlink`), of which nobody hears. `DurableStore` is the abstract
store and `StoreRefinement` the mapping.

### Installation and migrations

`Installation` is one installation from start to start: `Start`,
`AssertKeyAvailable`, `ConfigureKey`, `OpenDatabase` and `Listen` are `main` in
its order, each a step because the process can be killed between any two
(`Stop`), and `KillTearingKey` in the middle of writing the key. `ChangePort`,
`ClearDataDir` (with `ClearHalf`, its interruption) and `DeleteKeychainKey` are
the menu. A keychain is reliable, absent (a headless machine) or flaky;
`mishaps` remembers what went wrong outside the program. A key is a number; that
writing the database is one step is `EncryptedStore`'s result.

`Migrations`, which it extends, is `runMigrations`: `LeftBy(v)` are the databases
version `v` could leave, one operator per schema step, `Usable` what the current
code counts on.

### Connections

`Connections` is one user's saved credentials. Each operator on the rows is one
transaction of `connectionsRepository.ts`; each of `PostConnection`,
`PostGithubApp`, `PostActivate`, `DeleteRoute` is a handler after its last await
(before it, a handler reads nothing that it uses later). A tab holds a list that
may be stale, and the installations it was shown; `Receive` is the answer with
the refetch it starts. `Preview` and `Execute` make the resolvers of a job, whose
accounts come to their turn in `ResolvePreview` and `ResolveRun`. A host is the
form it was typed in: `NormalizeGheHost` strips what the patterns strip, and
stored hosts are judged by the base URL that is built from them (`HostUsable`).

### Accounts

`Accounts` is the boot, the session gate, `routes/auth.ts` and `routes/users.ts`.
A request that awaits bcrypt is two steps (`PostLogin`, `LoginAnswered`): `req`
holds the row as it was read before. `db` and `disk` are memory and the file;
`GoDown` is a stop or a kill, `Boot` comes back with login on or off and with
the session secret kept or lost. `shown` is the session status a page goes by.

### Form and selection

`ChangeForm` is one tab from Select to Confirm. `page` is where the user is,
`selected` and `form` what outlives the pages, but not the session: a 401, a
failed refetch of the session or a logout (`LoseSession`, and a case of
`SubmitFails`) takes the providers off the screen, and `Remount` is the next
mounting, with `mount` its number. `asked` keeps what was on the screen at each
submission, apart from the requests, for `JobAsSubmitted` to compare with. A row of the form has an `id` that
the code does not have (rows are keyed by index): it tells whether a fetch came
back to the file it was asked for. `submits` are requests of Define and Confirm,
which go on when their page is left. `ConfirmAndRun` may be asked again when it
failed or its page was left. A job that is made is followed to the point
where its execution is accepted (`PostExecute`, `Confirmed`); the rest is `JobEngine`'s.

## 3. Runs

| run | question | bounds |
|---|---|---|
| JobEngineAnyClient | is what is reported true, and does everything end, whatever clients do? | 2 rows, 2 requests, 1 slot, 2 database errors: two runs overlap on the same rows, one of them waits for its slot or breaks off, and saving FAILED may fail as well |
| JobEngineWizard | do the pages' offers keep runs apart for a user who waits for each answer, and does the engine do what a bulk update promises? | 3 rows, 3 requests, 2 slots: execute and two retries, a row queued behind full slots |
| JobEngineCrash | what survives a crash? | 2 rows, 3 requests of a user who waits, 2 crashes: one may follow the recovery from another |
| RepoWrite | is what is written what was reviewed, and does nobody lose a push? | 2 rows, 2 executions each, 1 push, 2 contents, 2 paths: one row with one or two files of any modes and any strategy, beside one that pushes straight to one of the files |
| JobProgress | does the page show what is so? | 2 rows, 1 page, 2 requests, 1 drop: an execute and a retry are watched |
| AutoFlush | is every write saved in time? | delays 2, 5 and 3, 5 writes, 2 failures: writes can push the debounce past the cap |
| EncryptedStore | does the file always open, and is a flush one step? | 4 changes, 3 failures, 2 kills, 2 outages: each can hit an upgrade and the start after it, and a flush and the removal of its temp file can both fail, with a failure left for the next attempt |
| Connections | do the slots stay consistent under several tabs, and is a client only used where it is installed? | 2 tabs, 2 Apps, each installed on one account, 2 connections made, one host, typed with a scheme, the API path and two slashes, the form that is not stored bare (the theorems are for any forms, with any number of slashes): one tab's list is stale when the other replaces, and a job resolves in between |
| Accounts | what do overlapping logins and signups, and a server that dies, leave? | 2 browsers, 2 names, 3 accounts, 1 failure allowed, 2 stops: login on, off and on again |
| Installation | does the database keep its key, and does the program start? | 3 starts, 2 keys beside the environment's, 2 ports, any one version's database: a clearing, a port change and a start with another environment follow one another. Accounts beside "local" own no connection here: steps treat owners alike |
| ChangeForm | is a job what was submitted, and is nothing lost by moving about? | 2 orgs of a repository, 1 variable, 2 files, 4 edits, 1 submission, 1 request to run under way at a time, 1 session lost: files are filled, moved or removed under a fetch, repositories of another org deselected under a submission, and a run asked for before the session was lost is answered after it. Two files of which one has a variable, filled and given a value, take 5 edits: that job is left to the theorem |

Every run names at least one definition of the code whose mutation makes each of
its properties fail (`mutants` in PROJECT.json). Type invariants and the
inductive invariants of section 4 were checked in the same configurations; the
runs keep the properties that say something of the program.

Two contents, two or three rows and two or three requests are enough for every
conflict these modules have: guards relate two requests, two rows of which one
waits, or a content and another one. Symmetry is used only in runs without
liveness, over sets whose members are interchangeable. `CHECK_DEADLOCK FALSE`
stands in every run but `Connections` because requests, writes, executions and faults are bounded,
and a program whose clients have stopped asking rests.

### Where the code and its documents disagree

`JobEngineDoubleExecute` is kept for its counterexample. One tab, one row that
will be written, a job that is READY: the user clicks "Confirm & run", goes back
to the preview while the request is pending, returns and clicks again. Both
requests pass the check of `routes/jobs.ts:155-161` before either has saved
RUNNING, both runs take the row, and the second commits again to the row when it is
SUCCESS, though `routes/jobs.ts:9` calls the request safely re-callable
(`SuccessNotCommittedAgain`; PROJECT.json has the quotes).

More definitions state what a comment or a document says and do not hold. They
stay in their modules without a run; to see a counterexample, put one into the
module's configuration (the first three with `HistorySpec`, with `CrashSpec` and
with `FairSpec`).

- `NotOfferedWhileRunning` (`JobEngineWizard`): a job reached through History and
  executed while its preview goes on is set back to READY when the preview ends
  (`routes/changesets.ts:230`), and "Confirm & run" is offered beside the live run,
  against `ConfirmPage.tsx:97-102`.
- `NeverStranded` with crashes (`JobEngineCrash`): `website/docs/architecture.md:22-24`
  says a crashed job falls back to "retry failed only"; a job RUNNING in the file
  stays RUNNING, and the pages offer nothing.
- `RunningEnds` (`JobEngine`): a job is RUNNING for as long as a run is there to
  end it, unless saving the verdict fails and saving FAILED fails after it, which is
  only logged (`jobQueue.ts:53-55`): it stays RUNNING, and the pages offer nothing.
- `VerdictAsDocumented` under `Spec` (any client): `POST /jobs/:id/retry` has no
  guard like execute's, so a retry of a job whose rows are all still to do runs
  an empty batch and saves COMPLETED. The pages never send it.
- `CreateOnlyKept` (`RepoWrite`): a create-only file made after the preview is
  overwritten (`website/docs/quick-start.md:40-41` says such repositories are
  skipped).
- `NoEmptyCommits` (`RepoWrite`): when the answer to `updateRef` is lost the row
  is FAILED, and its retry commits the tree the branch already has.
- `SidecarsGone` (`EncryptedStore`): a process that dies between the first
  encrypted write and `finalizeLegacyMigration` leaves the plaintext sidecars for
  good, because the next start finds an encrypted file.
- `StreamCloses` (`JobProgress`): a stream opened on a finished job is sent a
  snapshot, but no verdict that would end it.
- `PreviewedCredential` (`Connections`): `loadConnection.ts` says a run uses the
  credential that previewed it; each resolver asks for the active connection when
  an account first comes up, so a switch in between changes it.
- `HostsStoredBare` (`Connections`): "the canonical STORED form is the bare
  hostname" (`github/host.ts:8-10`); of a host typed as `ghe/api/v3//` the pattern
  leaves the path, which commit links and the allow-list then contain. The base URL
  is right all the same, as it is stripped once more (`HostUsable`). The comment
  lists forms with at most one slash, of which it holds (`NormalizedIsBare`).
- `LoginFormMeansLoggedOut` (`Accounts`): `api/client.ts:7-8` takes any 401 for
  "not logged in"; a wrong current password (`routes/users.ts:100`) is one too,
  and the form and selection go with the page.
- `StartsFresh` (`Installation`): "App data cleared. Run the app again to start
  fresh." (`interactiveCli.ts:262`) is also said when DATABASE_PATH is outside the
  data directory: the database stays and its key is gone.
- `FetchedIntoItsFile` (`ChangeForm`): "The fetch-from-URL row is per-file too"
  (`FileEntryEditor.tsx:46-47`); editors are keyed by index, so a file moved while
  the request is under way leaves its row to another, which gets the content.
- `FormKeptForItsJob` (`ChangeForm`): the form is reset "once a job this form
  produced actually starts running" (`DefineFormContext.tsx:43-44`); the answer of
  any job's execution resets it.

Smaller disagreements met while reading, without a definition of their own:
turning login off and on again leaves rows made in between with "local", as the
bootstrap only runs without accounts; a page that was told no login is required
does not show the login form on a 401; a cookie holds the role it was given and
passes the gate when a kill has lost its account; a change of one's own password
that awaits bcrypt overwrites an administrator's reset; the limiter's window is
fixed and not rolling; two files of a change set may have the same path; leaving
Define while its submission is under way and returning allows another; and
`SelectPage` keeps a cached "no connection" that `ConnectPage` does not
invalidate, so that the first "Continue" leads back.

### Fairness

`JobEngine`: weak fairness of the preview loop and of each admitted request:
awaited requests are answered or time out, and the event loop runs what is
ready. No fairness of clients. `JobProgress` adds that a browser goes on
connecting and handles what arrives; drops are bounded. `AutoFlush`: time passes
and a timer that is due fires; failures are bounded, which stands for a disk that
works again in the end. `Accounts`: the clock goes on (`Tick`), and nothing else.

## 4. Proofs

All theorems hold for every value of the constants under the named assumptions
of their modules: finite sets of rows, positive concurrency and delays, a null
that is not an account, keychains that are reliable, absent or flaky. Every
safety property of a passing run is one of them. The inductive invariants were
checked by TLC in the runs' configurations before they were proved.

- `JobEngineProofs`, any client: `TypeCorrect`, `ReportedCommits`, `Verdict`.
  The verdict's invariant says that a run that has ended leaves no rows
  behind, so that the last one to finish reads all that was saved.
- `JobEngineProofs`, the wizard, for a user who waits: `WizardInv` is inductive for
  `PatientSpec`. The properties alone are not: that no row is run twice
  (`RunsApart`) needs that at most one request is under way (`OneAtATime`), which
  needs `Waited` until RUNNING is saved, and from then on that the job is RUNNING
  exactly while a run lives (`RunningIffLive`) and that what a request has checked before its
  await is still so after it (`CheckedStillSo`). `CountsKept` needs that a run's
  snapshot stays true of rows it has not settled (`SnapshotHolds`). The other
  theorems follow: `VerdictMeaning`, `Offered`, `SettledStay`.
  `Refinement` is shown step by step, from `WizardInv`.
- `JobEngineProofs`, crashes, driven by the wizard: `CrashInv` is weaker than
  `WizardInv`: a job may stay RUNNING without a run, or PREVIEWING. What stays
  inductive is that a live run is the only one and has its job RUNNING, that
  batches are eligible, and that what the file has settled is settled in the
  database (a restart loads that file). `CrashInvariant`, `DurableVerdict`,
  `DurableRows`.
- `JobEngineProofs`, progress: `WatchedEngine` shows that a job whose events are
  published and watched is a job driven by the wizard, so all of the above holds of
  it. `ProgressInv` speaks of what a page shows after each event still on the way
  (`Seen`): it fits its verdict, and after the last one a listener shows what is
  saved. Both are needed of every prefix, as `Handle` makes a later one the
  present, and nobody watches before the preview is over, which publishes nothing.
  `Seen` follows the stream recursively; that its values are what its equation
  says, and how they change when an event is appended or handled, is proved by
  induction on the position, in the form that a set of positions without a least
  member is empty. `Told`, `VerdictShownFits`.
- `AutoFlushProofs`: `FlushInv` adds to the properties that a timer is armed
  exactly while something is dirty and that clean means no age and no failure.
- `EncryptedStoreProofs`: `StoreInv` ties the temp file's form to the step the
  flush has reached, so that only synced files are renamed, and counts temp files
  against the removals that failed (`LitterStaysBounded`). `StoreRefines` maps
  what the file would be loaded as to the abstract copy, and what the disk is
  sure to have to the older one a power failure may bring back.
- `ConnectionsProofs`: `ConnInv` is the type, `SlotsInv`, `ContinueOffered` and
  `ClientsCoverTheirOrg` together. They are inductive as they stand because rows
  are replaced and never changed: what a resolver once found stays true of the
  client it handed out. That a stored host is usable rests on two lemmas about
  `NormalizeGheHost` for any number of slashes: twice is always enough
  (`NormalizedTwice`), once is for at most one slash (`NormalizedIsBare`).
  `SlotsHold`, `AlwaysContinues`, `ClientsCover`.
- `AccountsProofs`: `AccInv` says that a pending signup only runs on a server with
  accounts (`SignupsServed`), that memory and disk are both well formed, and that
  failures counted and requests awaiting bcrypt together stay below the bound, by
  counting the browsers with a pending login (`FailuresBounded`). `AccountsHold`,
  `RowsAdopted`, `FailuresLimited`.
- `RepoWriteProofs`: `WriteInv` says what a row's base and commit are at each
  request (`Executing`), that parents are commits, that no commit is made before
  its row's preview is over, and from these that a commit stays reviewed. For
  `Delivery`, that the default branch's history holds a delivered commit is first
  proved without recursion (`Delivered`): the commit is in every set that has the
  tip and the parents of its members; such a set of a longer history, cut to the
  commits there were, is one of the shorter history. That `History` is such a set
  is the same induction as for `Seen`, as a commit is made after its parent.
  `Review`, `BranchGrows`, `Delivery`.
- `InstallationProofs`, keys: `InstInv` says where a key is held at each stage
  between finding it and writing the database with it. `KeyKept`. `CalmInv` says
  that without a mishap the key a next start would find is the one of the database
  and of the process, and that no database outlives a clearing. `NotRefused`.
- `InstallationProofs`, data: each migration step is proved to lead from what a
  version can have left (`Sound`) to what the current one counts on (`UpToDate`),
  and to change nothing when it is. `DataInv` says which of the two the file is.
  `Migrated`.
- `ChangeFormProofs`: `FormInv` says that the answer of a fetch goes to a row there
  is, and while rows stay in place to the one that asked (`Aimed`), that a request
  under way to make a job holds what was on the screen at its submission, and that
  was complete (`Asked`, which also says that requests of a job's pages are about a
  job there is), that a job is what was asked for (`Made`), and that requests to run
  are told apart (`RunsApart`). That a file can
  be added needs an id no row has, of which there is one by counting (`FreshId`).
  `ArrivesComplete`, `OneState`, and of steps, `SelectionStays` and `TypingStays`.

Only model-checked: liveness (`RunsEnd`, `CarriesOutBulkUpdate`,
`EventuallySaved`, `VerdictShown`, `LimiterOpens`), because the prover has
neither fairness nor ENABLED.

## 5. Limits

- The wizard is one tab with fresh data: a page that shows a job from the query
  cache shows it as it is (the cache is refetched at once on mounting; a click
  before that is answered is not modelled, but has the effect of the second click
  of `JobEngineDoubleExecute`). Two tabs are the any-client runs.
- A user who waits for the answer to a click is an assumption of all that is said of
  the wizard's job (section 2); no guard of the code makes one.
- Timers are punctual; an event loop blocked for seconds is not modelled.
- A directory's rename can be lost in an outage (the code does not sync the
  directory), and one lost is all `journal` remembers.
- Encryption is a form of the file: a key opens what it wrote.
- Names of branches are taken to be unique: they contain the time in ms.
- Two processes on one database path are outside: `db.ts:21-38` excludes them.
- `Accounts` has all browsers at one address, as behind a proxy that is not
  trusted, and a browser has one login in flight at a time; `Connections` has one
  user, `ChangeForm` one tab.
- A job a page shows in `ChangeForm` is fresh, too; its two runs are
  `JobEngineDoubleExecute`'s.
- Not modelled at all: settings and Slack (one value, and a notification whose
  failure is swallowed) and presentation.

## 6. Left to do

- A mapping that shows `RepoWrite`'s requests to implement the one step `Commit`
  of a row in `JobEngine`; now each is proved correct on its own.
- Pure functions against references: status derivation, slugs, the hunks of a
  diff. They keep no state and no property here rests on them.
