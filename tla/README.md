# TLA+ specifications of nise and the applications it generates

nise-and-go is a Go framework in three layers: a command line (`internal/`,
`cmd/nise`) that generates, checks, upgrades, tests and runs projects; a small runtime
(`runtime/`) the projects import; and templates (`templates/new`) for the
application's own code — HTTP API, sign-in, uploads, notifications, jobs, all over
one PostgreSQL database. A reference application (`examples/reference/app`), a
workbench whose equipment people reserve, is what the generator's output looks like
with features in it. The code that is hard to get right by testing is the part where
several goroutines, processes, requests or transactions meet, or where a sequence of
writes stops halfway. This directory models that part.

Paths in this document are relative to `src/`; `P/` stands for
`templates/new/internal/platform/`, `F/` for `templates/new/internal/features/` and
`E/` for `examples/reference/app/internal/`.

## Inventory

### Modelled

| Component | State | Operations | What it meets |
|---|---|---|---|
| Idempotency executor `P/idempotency` | rows of `idempotency_keys`, advisory locks, open transactions | `Executor.Do`, `DeleteExpired` | PostgreSQL; concurrent duplicates; its sweep; clocks of several processes |
| Process lifecycle `runtime/lifecycle`, `runtime/health/gate.go`, `internal/app` | the readiness gate, each component's progress, `shutdownOnce`, timers | `Group.Run`, `Group.Shutdown`, `HTTPServer.Run/Shutdown`, `Worker.Run/Shutdown`, `app.Run` | signals, requests, jobs, failures of a component |
| Development loop `internal/dev`, `internal/cli/dev.go` | the container, the watcher's last scan, a change channel of one, supervisors, process groups | `runDev` from its checks on, `Postgres.Up/WaitReady`, `Watcher.Run`, `Supervisor.Run`, `Process.Stop` | an editor, Ctrl-C, children that fork and ignore signals, Docker |
| Uploads `F/uploads` over `P/storage` | the ledger's row, a quarantine key and a final key per upload | `Stage`, `Write`, presigned PUT, `Finalize`, `Sweep` | overlapping requests, clients that bypass the application, the sweep, two kinds of store, a scanner |
| Reservations `E/features/reservation` | rows, audit records, jobs, notifications, open transactions | `Create`, `CheckOut`, `Return`, `Cancel`, the confirmation, reminder and no-show workers | rival bookings, retries, crashes, permissions and organizations |
| Resources, listings, photos `E/features/resource`, `runtime/pagination` | rows, the key ring, a client's cursor, an upload's state | create, update, retire, paged and numbered listings, `AttachPhoto` | writers between two pages, key rotation, expiry, the upload sweep |
| Sessions, sign-in and second factor `F/auth`, `F/mfa`, `runtime/session`, `modules/totp` | the user's row, sessions, challenges, codes | `Login`, `Complete`, `Authenticate`, `ChangePassword`, `SetPassword`, `Rotate`, `Revoke`, `Disable`, sweeps | two requests on one account; failures between transactions |
| Health probes `runtime/health` | a goroutine and a result per check, the gate | the readiness probe and its report | two timeouts racing late answers |
| Project `internal/generator`, `internal/upgrade`, `internal/check`, `internal/cli` | the tree, git's head, the recipe | `nise new`, `agents`, `upgrade`, `check` | a developer's edits, failing writes, several releases |
| Slices `internal/generator/feature` | the files of a project | `nise generate feature`, `generate resource` | a second generator, people's files, failing writes |
| Test runner `internal/cli/test.go` | the suite that runs and its processes, the results | `nise test` | Ctrl-C, suites that fork |

What makes each correct:

- **Executor**: one effect per key and retention; answers that are true; no duplicate
  waits on another's transaction; locks are released whatever dies.
- **Lifecycle**: readiness is withdrawn a whole drain period before the listener
  closes; a signal or a failure ends the process; every component's `Run` is over when
  `app.Run` returns, and a request or a job is left only by a deadline or a listener that
  failed; callers are told the truth.
- **Development loop**: one server at a time, never without its database, none left
  behind; the server in the end runs what is in the tree; Ctrl-C always ends it.
- **Uploads**: an available row has its object, and it is the object that was
  verified; no verdict leaves bytes in quarantine; an answer is never taken back;
  abandoned uploads are swept.
- **Reservations**: no instant is promised twice; the audit trail, the jobs and the
  notifications say exactly what the rows went through; no booking stays open for ever.
- **Listings and photos**: a reader sees every row that stays exactly once; a resource
  shows only an upload that was accepted.
- **Accounts**: one working token per sign-in; a session that was ended stays ended; a
  code is spent once; every guess is charged. (A revocation ought to end every other
  session, and a chosen password ought to stay: the code does not keep these two, see
  the findings.)
- **Probes**: ready means that every check passed during this very request.
- **Project**: what a person wrote is not lost; after a success `nise check` finds
  nothing wrong with what nise wrote; an upgrade is complete or says that it failed.
- **Slices, test runner**: nothing is overwritten; success means that every suite ran
  and passed.

The rest is under "Not modelled" at the end. `PROJECT.json` gives the sources of every
component, and lists the hazards of the code at their lines with the properties that
cover them.

## Modules

| Module | What it is |
|---|---|
| `AtMostOnce` | the abstract promise of the executor: effects happen in one step |
| `Idempotency` | the executor, its table, locks, sweep and failures; implements `AtMostOnce` |
| `IdempotencyProofs`, `MCIdempotency` | proofs; instances for TLC |
| `Lifecycle`, `LifecycleProofs` | start, drain and stop of an application |
| `DevLoop`, `DevLoopProofs` | `nise dev` |
| `Uploads`, `UploadsProofs`, `MCUploads` | the upload lifecycle over either store |
| `Workbench`, `WorkbenchProofs`, `MCWorkbench` | reservations, their jobs and their permissions |
| `Project`, `ProjectProofs` | the commands that own a project's tree |
| `Slices`, `Suites`, `ToolProofs` | `nise generate`; `nise test`; proofs about both |
| `MCProgress` | `Lifecycle`, `DevLoop` and the sweep of `Uploads`, each in a scene of its own, with fairness |
| `MCLifecycle`, `MCDevLoop` | small instances of the two for the runs that end in a violation |
| `MCProject` | `Project`, `Slices`, `Suites` and `DevLoop`, each in a scene of its own |
| `Accounts` | one account: password, sessions, second factor |
| `Catalogue`, `Photos`, `Probes` | listings; photos of resources; the readiness probe |
| `ServingProofs` | proofs about `Accounts`, `Catalogue`, `Photos` and `Probes` |
| `MCServing` | `Accounts`, `Catalogue`, `Photos` and `Probes`, each in a scene of its own |

A scene is one of several small systems that share no state: the initial state picks
one, and the others stand still. It puts small modules into one run without
multiplying their state spaces.

Definitions called "Mutant of ..." are wrong versions of the definition that follows
them. They are not part of any specification: replacing the definition by its
mutant must make the property it is paired with in `PROJECT.json` fail, which shows
that the property is about the code.

### Idempotency

An attempt is one call of `Executor.Do`; `pc[a]` is the statement it has come to.
`Refuse` is the validation before the transaction, `Begin`, `TryLock`, `Stamp`
(`time.Now`, with an error of up to `Skew`), `Lookup` (expired rows are deleted, the
fingerprint is compared), `Command`, `Insert`, `Commit` (whose acknowledgement may be
lost), and on the error paths `Fail`, `Rollback`, `RollbackTimesOut`, `Crash` and
`ServerAborts`, which is PostgreSQL noticing that a connection is gone.
`SweepCalled` and `DeleteExpired` are the two moments of the sweep: its time is read
before its statement runs. What an attempt wrote is invisible until it commits;
`deleted[a]` and the step `recorded` are its uncommitted writes. Responses are
represented by the attempt that produced them. `LockKey` need not be injective,
as a 64-bit digest is not.

Abstracted: the response's bytes and headers, validation of the key's characters,
the limits on sizes (all of them refusals before anything happens).

### Lifecycle

`items` is the mode's choice of components (`web`, `worker` or both). `run[c]`,
`call[by][c]`, `group` and `main` are the program counters of a component's `Run`,
of each call of its `Shutdown` (by `app.Run` or by `Group.Run`), of `Group.Run` and
of `app.Run`. Time is a set of timers that count down; `Tick` is taken only when no
goroutine can go on, so that a deadline is never missed by a goroutine that was
merely slow. `Ready` says that one can: it is `ENABLED Runs` written out guard by guard,
since the prover does not reason about `ENABLED`. What the outside world does (`World`)
takes any time or never happens. `http.Server` is modelled from its use: `Shutdown` closes
the listener at once and returns nil when no request is active, whoever ended them; at the
deadline it returns an error, also when the last request has ended since it last looked
(`WebForced`). `cut` are the requests that a forced close, or the exit of the process,
ended; `abandoned` says that a job was still running at exit.

### DevLoop

`main` follows `runDev` through its preliminary checks (project, environment, ports,
frontend dependencies, scratch directory, the one-off frontend build), `detect` (the
container engine), `up`, `port` and `probe` (the database), the proxy, to `running`,
`waiting`, `teardown`; every one of them may refuse or fail. The tree is a version
number that `Save` advances; a build reads one version of the span in which it runs,
and versions in `Broken` do not compile. The watcher does not read files: it compares their
sizes and times (`stamp`) with those of its last scan, so that a save that leaves both as
they were is not seen. A change is offered to a channel of one; the app supervisor
debounces, builds, stops (`Terminate`, `KillGroup`, `Stopped`) and starts (`Spawn`).
`group[s]` is the process group of the current child: its leader and what it forked;
`strays[s]` are live processes that are no longer supervised. `Wait` returns when the leader
is dead and its pipes are closed, which `os/exec` forces after `waitDelay` (`Reaped`).
`spared` is history: the supervisors whose `Stop` returned without the kill, because
`Wait` had returned, although something the child forked was alive. Nothing is timed: each
period may end at any moment.

### Uploads

`state`, `claim`, `expires`, `checksum` are the row; `quarantine` and `final` the two
keys; `inflight` the bodies on their way. A body is its length, its sniffed type and
whether a scanner would accept it. `Finalize` is `BeginFinalize`, `Measure`, `Scan`,
`Move` (for S3 also `MoveDeletes`), `MarkAvailable`, and on refusal `RejectDeletes`
and `MarkRejected`; `Fail` ends a call between any two of them, by an error or by the
death of the process. `SweepLists`, `SweepDeletes`, `SweepMarks`, `SweepFails` are the
sweep, which is not excluded from running beside itself or a request. The history
variable `overtaken` records that a body arrived while a verdict on an earlier one
was being reached or after it: the store offers no conditional move, so that is the
case for which the code promises nothing, and the properties say so.

### Workbench

Each request and each worker is a process whose transaction runs statement by statement
at READ COMMITTED. `tx[p]` holds what it has written — row, audit records, jobs,
notifications — until it commits; a rollback drops it. Three mechanisms of PostgreSQL
are modelled because the application relies on exactly them: the lock of
`SELECT ... FOR UPDATE`, the exclusion constraint that waits for a rival insert and
then decides, and the `UPDATE` of the no-show sweep, which picks its rows in a snapshot
and checks them again after waiting. `Fail` ends a request anywhere; `Retry` ends a
worker's attempt anywhere and leaves the job, as River does. The permission catalogue,
what a set of role names grants and the ownership rules decide each command.

### Project, Slices, Suites

In `Project` a path stands for the files treated alike, a content for what the file says
and what a person wrote in it: nothing, something in its body, over its ownership marker, or a secret.
`nise.json` may be edited by hand so that it still loads, with any versions in it
(`RecipesByHand`), and `go.mod` may be pinned to any release or to a release candidate
(`PinsByHand`), which has the numbers of the release and another spelling: `upgrade` compares
numbers, `nise check` the text. A command reads the tree, plans and refuses in one step
(nobody else writes meanwhile) and then writes file by file (`Step`), in the order of
the paths, so that `nise.json` is the last of the files nise owns, then the codemods, the
pins and once more the recipe; `StepFails` leaves a file as it was or torn. `upgrade` asks
git whether the tree is clean and goes on when git cannot be asked; `cmd.looked` records
that it had an answer and obeyed it. `last` is how the last command ended. `checkRun` gives
the verdicts of the nine checks of `nise check`; of an environment file and of a secret only
the verdict is modelled, not the text it is read from. `Slices` is `generate`, where
two commands and people do write at once: `generateSlice` plans, `CheckPlan` looks at every
path, `Write` creates one file with `O_EXCL`. `Suites` is `nise test`: `RunSuite`, the
processes of the suite, `WaitReturns`, the escalation `Stop` and `Kill`, `Judge`, and
`Report`, with `Interrupt` between any two.

### Accounts

A use case is a sequence of transactions, and a transaction that reads and then writes is a
step for each. Two statements wait for a row somebody else holds, and they are modelled with
the wait: a rotation ends the old session (`RotateEnds`), holds its row (`Held`) and commits
its successor in another step (`RotateCommits`); and the revocation of an account's sessions
takes its snapshot (`revokeForUser`), waits for the rows of it that are held, and ends those
that are still live (`RevokeUserSessions`), as an UPDATE at READ COMMITTED does. Other
single statements are one step. `proc[p]` holds what the request has read. `sess[s].root`
names the sign-in a session goes back to through rotations; `ended` are the sign-ins of
which a revocation has ended a session, `claimed` those its snapshot held, `guesses` the wrong
codes looked at: these are history, which no action reads. Passwords are compared, never
hashed; `stale` says that the stored hash has old parameters, which is what makes a
sign-in rehash.

### Catalogue, Photos, Probes

`Catalogue` walks a listing page by page. The cursor is the record that its signature
covers (listing, filter, sort key, identifier, expiry, key), so that a cursor from another
listing, another filter, another organization or a dropped key is refused by what the code
compares. Its length is computed, since the limit on it is real. The key in it is what Go
makes of the row: `ToLower` of a name, which need not be PostgreSQL's `lower`, by which the rows
are sorted, and `UnixNano` of an instant, which wraps at 2^63 (`Half` in the model). `astray` says
that a walk was given a cursor whose key is not its row's; nothing is promised to it. `ORDER BY ... LIMIT` is
stated by rank: the n-th row is the one with n - 1 rows before it. `walk[c]` is what client
c holds (its cursor, or the number of the report page it asks for next) together with
history: how often each row was shown, and which rows have been `steady`, that is
in the listing at the same sort key, since the walk began. A report is a page by number
(`runtime/pagination`'s other contract); the handler that serves one is external, since no
application of the repository has one and only a test of the transport serves reports. `Photos` is
`AttachPhoto`'s three transactions over an upload of which it sees only the state;
`Uploads` is the detail. `Probes` has a goroutine and a buffered result per check; either
timeout may fire at any time, and what has not been received when it is taken counts as failed;
where a result and the timeout are both there, `select` takes either.

## Runs

| Run | Checks | Shows |
|---|---|---|
| `idempotency` | `AnswersAreHonest`, `NeverWaitsForADuplicate`, `KeepsPromise` | three attempts on one key, expiry, sweep and failures at every statement; refinement of `AtMostOnce` |
| `idempotency_skew` | `AtMostOncePerRetention`, `LockIsReleased` | two keys on one lock number, clocks that disagree; every lock is released |
| `progress` | `DrainBeforeClose`, `DrainedAtExit`, `ShutdownTellsTheTruth`, `FailureIsReported`, `SignalMeansExit`, `FailureMeansExit`, `ShutdownEnds`, `Fresh`, `AbandonedIsSwept` | every mode of an application, failures, a signal at any moment, requests that may never end; `nise dev` over two edits, the first broken; a backlog of uploads longer than the batch, and sweeps that fail |
| `lifecycle_nil` | `NilMeansFinished` (violated) | finding 1 |
| `devloop_left` | `NothingLeft` (violated) | finding 2 |
| `uploads` | `AvailableHasObject`, `ServedIsVerified`, `QuarantineIsEmptied`, `AnswerStands` | two `Finalize` calls, arriving bodies, a sweep, failures, either store, with and without scanner |
| `workbench` | `NoDoubleBooking`, `AuditTellsTheStory`, `EveryBookingHasItsCheck`, `NoShowIsUncollected`, `AnswersAreTrue`, `BookingIsClosed` | two requests and a worker at once, one failure anywhere |
| `project` | `SuccessPassesCheck`, `UpgradeIsComplete`, `ApplicationOwned`, `NothingIsLost`, `GenerateOverwritesNothing`, `SuccessMeansTested`, `ChildrenHaveDatabase`, `NoServerLeft`, `FailureReported` | a project through releases, edits and a failing write; two generators; `nise test` under signals; every path of `runDev` with an edit, a signal, failures, forking children |
| `upgrade_recipe` | `RecipeIsLast` (violated) | finding 3 |
| `serving` | `OneTokenPerSignIn`, `EndedForGood`, `CodesAreSpentOnce`, `BudgetIsCounted`, `WalkSeesEveryRowOnce`, `PhotoIsServable`, `ReadyIsEarned` | three requests on one account; a reader among writers; two editors; two probes |
| `accounts_revoke` | `EveryOtherIsEnded` (violated) | finding 4 |
| `login_rehash` | `PasswordIsTheChosenOne` (violated) | finding 5 |

Run one with `tlc -workers 2 -config MCUploads.cfg MCUploads`. Deadlock checking is
off throughout: every one of these systems may come to rest (all calls made, the
process exited, the bounds reached).

### Bounds

- `MCIdempotency`: three attempts are the fewest in which one holds the record, one
  replays or conflicts and one comes after expiry; `Retention` 1 and `MaxTime` 2 let
  a record be written, expire and be replaced. The second instance has a `Retention`
  larger than twice the `Skew`, so that the property is not vacuous.
- `MCProgress`: one request, which may end by itself, be cut or go on for ever; drain periods
  0 and 1, a shutdown of 4 and a worker drain of 2 keep the order of the defaults (5 s, 30 s,
  20 s). Two edits (an edit during the build of an edit), the first of which does not compile,
  for the embedded frontend and a database that is stopped at the end; three
  probes, so that a streak may be broken and begun again. Two uploads and a batch of one.
- `MCLifecycle`, `MCDevLoop`: the smallest instances in which the disagreement shows.
- `MCUploads`: one row is enough because no step relates two rows except the sweep's
  listing, for which `MCProgress` has two; two calls
  may overlap at every pair of steps; one body in flight at a time, but any number in
  a row; `MaxTime` 2 lets the window elapse during any step. Calls are symmetric
  (safety only).
- `MCWorkbench`: two requests and a worker are three transactions open at once, and two
  identifiers two rows that may collide; a member of one organization and an administrator
  of two, so that every permission is decided both ways; windows back to back, and one that
  is too long; the clock passes the end of both; one failure.
- `MCProject`: three releases with a migration between each two, of which the first, the
  last and a source build are installed, so that a chain of two migrations, a downgrade and
  a version that does not parse all happen; the second release drops a file; one edit
  (`MaxEdits`, of any file to anything a person may write), one change of the installed nise
  (`MaxInstalls`) and one failing write (`MaxFaults`). Two generators, two nouns that share a
  plural and a reserved one, three acts and one failure; every selection and plan of
  `nise test`; one edit under `nise dev`, with four sets of options and Vite as a child or not.
- `MCServing`: three requests on one account, two of them at once, four session rows (two
  sign-ins rotated once each), one challenge with a budget of two, a clock of one step that
  passes every short deadline, one failure; requests are symmetric. Three rows, page sizes 1
  and 2; three names, of which two differ only in case, one of the two is as long as a name may
  be and holds the cursor's separator, and the third has a lower case for Go and none for
  PostgreSQL; two instants of which the second is beyond what `UnixNano` holds; two
  organizations, two keys, a lifetime of one, two writes, reports of two rows a page; a row is
  counted as shown never, once or `Repeatedly`. Two editors and two uploads. Two checks and two probes.

The proofs remove these bounds for the properties they cover.

### Fairness

`MCProgress` states the fairness of each module for the steps of its scene.

- `Idempotency`: a goroutine that can take a step takes one, and PostgreSQL ends the
  transaction of a lost connection. Callers, sweeps and failures are not obliged.
- `Lifecycle`: goroutines are scheduled and time passes. No request, job or signal has
  to come or end; every wait in the code has a deadline, which is what makes
  `SignalMeansExit` hold.
- `DevLoop`: `runDev`, the watcher and each supervisor go on when they can; a build and a
  grace period end; the runtime fires timers and reaps dead children. Children need
  not obey SIGTERM, and PostgreSQL need not come up.
- `Uploads`: the sweep is a periodic job and keeps being run (weak fairness of the
  listing), and a store or database that fails does not fail every time (strong
  fairness of deleting and of marking each row). Requests may stop anywhere. The strong
  fairness is needed: the sweep stops at the first error and the next begins with the
  same oldest row, so that an object that can never be deleted blocks all the others.
- `Workbench`: the clock goes on, an open request is driven on, and a worker that can take
  a step takes one (River keeps fetching due jobs and keeps retrying: failures are bounded by
  `MaxFaults`, below the number of attempts after which River gives a job up). Nobody has
  to make a request.
- The other modules state safety only and need none.

## Proofs

All theorems are checked by TLAPS for every value of the constants that satisfies the
named assumptions (`LockKeyAssumption`, `TimeAssumption`, `PeriodsAssumption`,
`BoundsAssumption`, `UploadsAssumption`, `WorkbenchAssumption`, `AccountsAssumption`,
`ProjectAssumption`, `ContentsAssumption`, `CatalogueAssumption`). These say that periods,
limits and sets have their types, that a drain is shorter than the shutdown it is part of and
a presigned URL shorter-lived than the row it is for, that a declared migration goes forward
and a release has at most one, that the requests of an account and the rows of a listing are
finitely many, that names and instants are ordered as numbers are, and that the marks for
"nothing" and "torn" are not also values. TLC evaluates them in the runs of their modules. The inductive
invariants of the larger modules were checked with TLC on these instances before they were
proved.

**Executor** (`IdempotencyProofs`). `Invariant`, `OncePerRetention`, `Honest`, `NoWaiting`,
`Implements`. At-most-once is not inductive by itself: an attempt that has looked and
found nothing must know that nobody can insert before it commits. `IInv` therefore
says who holds which lock (`LockInv`), how an attempt's stamps relate to the clock
(`TimeInv`), that only expired rows are being deleted (`DeleteInv`), what effects and rows
stand for (`EffectInv`, `RowInv`), that the row of a live effect is still there
(`KeptInv`), and what an attempt knows at each step (`PathInv`). `Implements` maps each
commit to `Execute` or `Replay`, each other answer to `Refuse`, and the rest to
stutters, using the invariant.

**Lifecycle** (`LifecycleProofs`). `Invariant`, `DrainFirst`, `TruthfulShutdown`,
`FailureIsReportedHolds`, `ClockInvariant`, `DrainedAtExitHolds`. `DrainInv`
says that the part of the drain still to sleep and the part already spent with the
gate down add up to the drain period, and that only one caller sleeps; `CutInv` that a
request is cut, while the process runs, only by a forced close that was answered with an
error, and that a nil leaves none in flight, for two callers with deadlines of their own; `CallInv` that
nobody calls without reason. `GroupInv` follows an error to the exit status: the channel
holds each return once, `firstErr` is set exactly when an error has been received,
`Group.Run` returns only when it has received them all, and `app.Run` without a signal does nothing
but wait for it. An error that is still in the channel is the case that makes it needed.
That every `Run` is over when `app.Run` returns, and what may be left in flight then, is in part an
argument about time. `StageInv` says what has happened when a call of `Shutdown` is answered.
`AnsweredInv`: on each path to the exit the server's `Shutdown` has been answered or its
listener has failed, so that a request is left only by a deadline or a failure. `ClockInv` compares two timers: the clock
stands while a goroutine can go on, so that by the first tick after the signal every `Run` has
begun and the worker has been told to stop; its drain is then under way with at most
`WorkerDrain` left, which `PeriodsAssumption` makes less than `app.Run` has left, and the two count down
together. So `app.Run` never gives up on a worker that is still draining.

**Development loop** (`DevLoopProofs`). `Invariant`, `DatabaseFirstAndLast`,
`LeavesNoServer`, `FailureIsTold`. `ChildInv` ties a supervisor's step to what is left of its child's
group; `SparedInv`, that what a child forked outlives its supervision only where `Stop` was
spared the kill; `OneServer`, that no server runs beside the supervised one; `MainInv`, that
goroutines exist only while `runDev` waits for them and that the database accepted
connections when it went past the gate. `FailureInv`: whatever fails does so before the
last goroutine is joined, and what `runDev` returns is decided after that.

**Uploads** (`UploadsProofs`). `Invariant`, `AvailableIsThere`, `VerifiedIsServed`,
`VerdictEmptiesQuarantine`, `AnswersStand`. `CallInv`: a call in progress has a row;
`EmptiedInv`: whoever is about to write a verdict has emptied the quarantine key;
`MeasuredInv`: what a call has measured passed the checks and, unless overtaken, is what
it moves. Without `EmptiedInv` for the sweep as well as for calls, a verdict of one actor
could meet an object another had just stored.

**Reservations** (`WorkbenchProofs`). `Invariant`, `NoDoubleBookingHolds`,
`AuditTellsTheStoryHolds`, `EveryBookingHasItsCheckHolds`, `NoShowIsUncollectedHolds`,
`AnswersAreTrueHolds`, for any number of requests, workers, users, resources and windows.
The five properties are about committed data; what makes them inductive is what is not
committed yet. `RequestInv` and `WorkerInv` say, statement by statement, that a
transaction holds exactly the records that go with the row it has changed, and that what
it checked of a row is still true because it holds the row's lock; `LockInv`, that a row has
one writer; `RivalInv`, that two rows about to be inserted conflict neither with a
committed row nor with each other, which is the exclusion constraint's promise carried to the commit;
`JobInv`, that a job speaks of a row that is there. A worker about to complete a check
knows that the booking is closed, by itself or by somebody else: this is what lets the job be deleted.

**Accounts** (`ServingProofs`). `AccountsInvariant`, `OneTokenPerSignInHolds`,
`EndedForGoodHolds`, `CodesAreSpentOnceHolds`, `BudgetIsCountedHolds`, for any
number of requests, sessions, challenges and codes. `StepInv` says what a request carries at each step.
`SessionsInv`: a session's root was a root, a rotation under way copies a row that was
there into an identifier nobody uses and no other rotation has taken. `HeldInv`: the session whose row a
rotation holds is live, and no other rotation holds it. Without these two a
successor could bring an ended sign-in back, or give one sign-in two tokens. `CodesInv`: a code that has finished a sign-in,
or is about to, is behind what the factor stores and in nobody else's hands; one that is being
accepted is not behind yet, and of two requests accepting at once at least one has a recovery code.
The budget is a count: the guesses looked at are at most the attempts stored, the requests
that have looked and not yet stored, and the failures, so the proof is about the cardinality
of a finite set of requests that one step changes by one.

**Listings** (`ServingProofs`). `CatalogueInvariant`, `WalkSeesEveryRowOnceHolds`, for any rows,
filters, page sizes and readers. `WalkInv` is the account of one walk: every steady row still
belongs to the listing; under a cursor the walk has shown exactly the steady rows that are not
beyond it, each once; in a report it has shown those whose rank is below the offset of the
next page; and a walk with neither has shown them all. A walk that is `astray` is excepted: for the
others the key in the cursor is the key of the row, whatever `lower`, `ToLower` and `Half` are. Two groups of lemmas carry it. `RankFacts`:
`Before` is a strict total order on a finite set of rows, so that ranks are distinct and,
being an injection of a finite set into an interval of the same size, take every value; hence
`Ordered` lists the first rows, each once (`OrderedFacts`). A page cut at `size` shows the
rows of the remaining set with rank below `size`, and if there are more its cursor is that of the
last one shown, so that the rows beyond it are those not shown (`PageFacts`); a report page
shows the ranks from its offset to its offset plus `size` (`ReportFacts`), and when `Totals` says that
there is no next page no rank is left, which is where the division could be off by one
(`ReportStep`). Writers need no such argument: a row that keeps its key keeps its side of
the cursor, and a report's walk loses its steady rows at any write, since ranks shift.

**Photos, probes** (`ServingProofs`). `PhotoIsServableHolds`: an editor about to record a photo
has an upload that was accepted, and acceptance is never taken back. `ReadyIsEarnedHolds`:
every healthy result belongs to a check that passed during this very request, and the answer "ready" needs
them all and a gate that was open.

**Project** (`ProjectProofs`). `Invariant`, `TypeCorrect`, `SuccessPassesCheckHolds`,
`NothingIsLostHolds`, `ApplicationOwnedHolds`, `CompleteInvariant`, `UpgradeIsCompleteHolds`, for
every history of releases and migrations. The invariant is about the plan that a running command has
left. `IsPlan`: it consists of writes of the four kinds, each at a path it is meant for.
`SafeInv`: what a person wrote in a file still to be written git has, or the person passed
`--force`; and a file changed in place is written once, since afterwards git no longer has
what is there. `BuildInv`: every planned file that Nise owns says what it should or is
still to be written, and the pin of `go.mod` is not older by its numbers or is to be written. What
is left for `nise check` to fail is then the application's, check by check (`TheApplications`). `AgentsInv`: `nise agents` writes what the recipe
says, so it cannot spoil what an upgrade before it achieved. `OrderFacts` shows of the generator's order that it
leaves out no file of a plan.

`ApplicationOwned` and `UpgradeIsComplete` are about what a chain of migrations of any length makes
of a source. `path` and `applyCodemods` are recursive functions on an interval; that they exist, and
what they compute, is an induction along the chain. The library's induction rules take a predicate, which the
provers cannot instantiate; `IntervalInduction` states the rule for a *set* of numbers, proved from the
well-foundedness of `<` on the naturals, and each use names the set of numbers up to which its claim
holds (`TextFacts`, `WalkFacts`). From it: a chain's versions increase (`ChainFacts`), a text that
stands where the chain begins is moved to its end, and any other is moved forward or left alone
(`RewriteFacts`), and a chain that passes the release without a file removes it (`RemovalFacts`).
`CompleteInv` then says that the tree and git's head are consistent with the runtime their
recipe records, and that what a running upgrade has yet to write brings the source and the
removed file to the new one. The head has to be in it, because a person may restore it between two
upgrades. A failed upgrade is covered too: `ResumeInv` says that until the recipe is written
the tree is consistent with the old one (the removed file goes first, the source comes after),
and that from then on the removed file is gone, so that a failure before the recipe's write or after
the source's leaves a tree from which the next upgrade arrives; `RecipeEnds`, that `nise new`
writes the recipe last. The history variable `whole` excludes what the code does not keep: a gap in
the table, `--no-codemods`, a failure between recipe and source (finding 3) and a runtime version
written into the recipe by hand. `ApplicationOwned` holds of failing writes too: what a failure can
tear is the file that a rewrite or a bump was for. `NothingIsLost` excepts `--force`, no
repository, and an upgrade that could not ask git.

**Generate, test** (`ToolProofs`). `GenerateOverwritesNothingHolds` needs only that a create is
exclusive, which shows that the check before it is a courtesy.
`SuccessMeansTestedHolds` rests on `SuitesInv`: a suite with a command has yet to run, or has a verdict of
its own, or the run was interrupted; an exit status is known only of a process that is gone.

Only model-checked:

- every liveness property (`LockIsReleased`, `SignalMeansExit`, `FailureMeansExit`, `Fresh`,
  `ShutdownEnds`, `AbandonedIsSwept`, `BookingIsClosed`), since the prover does not handle
  fairness.

Every invariant and every action property that a passing run checks is stated by a theorem.
The properties of the five runs that end in a violation are not theorems: they are false.

## What the code does otherwise than the repository says

1. **A nil from `Shutdown` may follow a cut request** (`runtime/lifecycle/httpserver.go:155`, run
   `lifecycle_nil`). The worker fails, `Group.Run` shuts the server down, a signal makes `app.Run` do
   so too with a later deadline; the first deadline closes the connections by force, and the second
   caller is answered nil. `docs/operations-runtime.md:65` says "A `nil` return means every
   in-flight request finished on its own". What does hold is `ShutdownTellsTheTruth`: somebody was told.
2. **Something a child forked may be left behind** (`internal/dev/process.go:149`, run `devloop_left`).
   `Wait` returns one second after the child has died though a process it forked still holds its
   pipes, and `Stop` then skips the kill. `process.go:31` says "Every implementation must guarantee that
   Stop leaves nothing running", `docs/commands/dev.md:13` "Everything `nise dev` started is stopped with it".
3. **The recipe is not last** (`internal/upgrade/apply.go:99`, run `upgrade_recipe`). `nise.json`
   is itself among the Nise-owned files, written in path order before the codemods and the pins,
   so that a failure in a codemod or in the write of `go.mod` leaves a project whose recipe says the
   upgrade happened; a second upgrade then has no migrations to apply. The comment at line 36
   and `docs/commands/upgrade.md:169` say the opposite.
4. **A revocation misses the successor of a rotation in flight** (`F/auth/sessions.go.tmpl:403`, run
   `accounts_revoke`). The UPDATE that ends an account's sessions begins between a rotation's UPDATE and
   its COMMIT: it waits for the old row, finds it revoked and skips it, and does not see the
   successor. `sessions.go.tmpl:359` says `RevokeForAccount` "ends every session another account
   holds", `login.go.tmpl:503` the like of a change of the password.
5. **A sign-in undoes a change of password** (`F/auth/login.go.tmpl:252`, run `login_rehash`).
   `rehash` stores the hash of the password the sign-in verified without asking which hash it
   replaces. If the password was changed in between, the old one is stored again and works.

Observations made while modelling, without a run of their own:

- *Lifecycle.* `HTTPServer.Run` returns nil as soon as the listener is
  closed, while its comment says "until Shutdown is called and completes". The readiness handler reads the
  gate before it probes and may answer ready up to the overall timeout after the gate was
  withdrawn. A check that answers when its timeout has passed may be counted healthy, since `select`
  takes either of two that are ready (`check.go:145`, `:182`).
- *Development loop.* `--stop-db` does nothing when starting the database
  fails (`dev.go:206`). `docs/commands/dev.md` says the proxy stops first; the code imposes no
  order. `Fresh` excepts an edit between the start of the first build and the watcher's first
  scan, which nothing tells the supervisor of, and a save that changes neither size nor time.
- *Uploads.* The sweep looks at the quarantine key only and leaves an object that was already
  moved (`uploads.go.tmpl:481`). A store that fails while the scanner's copy is opened is taken
  for the scanner's refusal (`scan.go.tmpl:85`). The sweep's head-of-line blocking is described
  under Fairness.
- *Workbench.* A retired resource can be booked by a request that read it before
  (`reservation.go:119` and `:224`). The comment on the reminder claims a check of the state that
  is not made (`workers.go:150`). The no-show job closes every booking that ended earlier, not
  only its own (`workers.go:175`). The catalogue and the reauthentication matrix say that
  retiring cancels reservations and needs a fresh proof of identity; `RetireResource` does
  neither.
- *Listings.* A name of 156 bytes or more at the end of a page makes the listing answer 500
  (`cursor.go:41`, `workbench.go:143`). The comment at `resource/convert.go:31` says the cursor is
  split at the last separator, the code splits at the first; a name that contains it makes
  the next page a 400. A page and its total are two statements. A name that Go and PostgreSQL spell
  differently in lower case (`resource.go:354`), or a start after 2262, which `UnixNano` wraps
  (`reservation/convert.go:126`), at the end of a page makes the next one skip or repeat rows: without its
  exception for `astray`, TLC finds `WalkSeesEveryRowOnce` violated at once.
- *Accounts.* A sign-in that verified the old password before a change may issue its session after the
  others were ended. Two different valid codes at once finish one challenge twice, since the row count of the
  challenge's deletion is not looked at (`mfa.go.tmpl:563`). A challenge's budget may be
  exceeded by the requests in flight when it is spent. A late touch may move `last_seen` back.
  Enabling an account again revives its sessions that were not ended.
- *Project.* A gap in the declared migrations still records the target. A codemod whose new
  text contains the old is not idempotent on a retry. A `go.mod` pinned ahead makes `nise check`
  fail right after a successful upgrade, and one pinned to a release candidate is never moved to
  the release, whose numbers are the same. Setting `runtimeVersion` by hand, the remedy that
  `check/recipe.go:160` names, hides the migrations up to it from the next upgrade. Where git is
  there but could not run, `cli/upgrade.go:182` says "Either way there is no working tree to be dirty",
  and uncommitted edits of Nise-owned files are overwritten. A source build, whose version does not parse, lets a
  project go back from release 2 to 1.
- *Slices.* Two generators at once may take one migration number. A collision halfway
  through is answered "nothing was written" although files were. `generate feature` prints the
  insertions of a resource.
- *Test runner.* The comment at `test.go:262` says extra arguments go to the Go suite only; they
  are passed to every suite. A suite that exits zero but leaves a process holding its
  pipes is reported failed.

## Not modelled, and why

| Component | Why | What would make it correct |
|---|---|---|
| Organizations `F/organizations` | the one hard rule is a count and a delete in one READ COMMITTED transaction without a lock (`organizations.go.tmpl:263`), which two removals at once defeat; adding a member who exists may demote the last owner too (`:225`) | an organization keeps an owner |
| Invitations, roles `F/auth` | acceptance is one transaction under `FOR UPDATE` (`invitations.go.tmpl:337`); a grant is one row | one account per invitation |
| Notifications `F/notifications` | delivery is at least once by design (`deliver.go.tmpl:114`; a rescued job beside the attempt still delivering, `:73`); the stream only wakes clients that poll, and what is notified while it reconnects is lost until the next (`stream.go.tmpl:131`, `:259`) | a stream ends up showing the last count |
| Throttle `P/throttle` | one upsert per attempt; a reset beside other attempts (`throttle.go.tmpl:276`) is the one race | no more than the limit per window |
| Second factor: enrolment | an account has a confirmed factor from the start; `Confirm` verifies the secret it read while `Enrol` may replace it | only a secret that was shown is confirmed |
| Background jobs, transactions, object storage, authorization, reauthentication | modelled as the features use them; retry delays, row-level tenancy, reads of ranges, role lookup are left out | |
| Of a project: the recipe's profile and modules, pins of `package.json`, the rules by which the text of an environment file is refused and a secret recognised | a change of modules is a change of the plan; the pins are moved as those of `go.mod` are; the rules are text | unit tests reach these |
| Audit log, backup | single statements; a pipeline published by rename | nothing half-written is taken for a backup |
| Metrics, password hashing, cookies and CSRF, headers, forwarded address, logging, configuration, HTTP API, pool and migrations, mail, embedded frontend, development proxy, command line, doctor, release tools | stateless per call, or a library configured once, or text production | unit tests reach these |

What could come next, in order: organizations and invitations under READ COMMITTED (a
`Membership` module whose owner property the code does not keep); notification delivery and the stream with the listener's gaps;
enrolment of a second factor in `Accounts`.
