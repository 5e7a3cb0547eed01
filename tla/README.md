# lsstack in TLA+

lsstack is a server-rendered task application: a Litestar web process, a SAQ worker
process, one PostgreSQL database, and a set of development tools. This directory holds
TLA+ models of the parts where concurrency, failure and ordering decide whether it is
correct, TLC configurations that check them on small instances, and TLAPS proofs.

Paths below are relative to the repository root; the application is `src/app/`.

## 1. Inventory

| Component | State it keeps | Operations | What makes it hard | What makes it correct |
|---|---|---|---|---|
| **Outbox and relay** (`application/outbox.py`, `domain/outbox.py`, `adapters/queue/relay.py`, outbox repository) | `app.outbox_messages`: published_at, lease owner and expiry, last error; the batch an execution has in hand | `claim_messages`, `publish_message`, `acknowledge_message`, `fail_message`, `relay_once` | executions overlap, in one worker (same owner id) and in several; leases run out under a running execution; enqueue and acknowledge are separate; a commit may time out with an unknown outcome | published only after SAQ accepted; one live claim per message; an expired claim cannot write over a newer one; published is final; every committed message is published in the end |
| **SAQ queue and `process_task_created_job`** (`adapters/queue/worker.py`, `process_task_created`, `mark_background_processed`) | SAQ's job row per outbox UUID; `background_processed_at` | enqueue by key, start, retry, finish, sweep, expire; the job's transaction | a job runs twice (re-enqueued, swept while running); retries run out; the task is deleted first | stamped once, or again only if the stamp was undone; nothing published is lost without a trace; every task is processed or accounted for |
| **Credentials and sessions** (`application/auth.py`, `application/profiles.py`, `domain/users.py`, user repository, `handlers.py`, `security/sessions.py`) | `app.users`: password hash, session_version; the encrypted client-side cookie | login (with hash upgrade), change password, logout, revalidation on every request | row lock across verification; the row read before the lock; responses arrive in any order and each re-serializes the session it was sent with | no change lost, no old hash restored; a cookie only for who proved the password; revoked stays revoked |
| **Tasks** (`application/tasks.py`, `domain/tasks.py`, task repository) | `app.tasks` | create (with its message), edit, toggle, delete, list | read-modify-write without a lock; the worker stamps the same row | create is atomic with its message; a stamp and an edit do not undo each other |
| **Transaction runner** (`adapters/persistence/engine.py`) | one session per call; its transaction in PostgreSQL | `run`: operation, shielded commit, shielded rollback, close | cancellation at every await, the shields included; commit and rollback that time out | an outcome reported as success is committed; what was refused left nothing; every transaction settles |
| **Registration** (`register`, `register_action`) | `app.users` unique email | insert, flush, map the unique violation | two registrations of one email, the first of which may yet fail | one account per email; a cookie names the account it was issued for; "taken" is true |
| **Web adapter** (`adapters/web/`) | none of its own | routes, forms, templates, security headers, CSRF | - | - |
| **Process supervisor** (`tools/dev.py`: `up`, `down`, `status`, port allocation) | `.run/processes.json`, `.run/stack.env`, OS processes, Compose containers | choose ports, start, record, probe, signal, wait | two invocations at once, a kill between start and record or inside the writing of a file, PID reuse, ports taken after they were probed | never signals a foreign process, never loses one it recorded; everything runs on the ports of `stack.env` |
| **Worktree cleanup, database reset** (`tools/dev.py`: `clean_worktree`, `reset_database`) | git worktree and branch, containers, the record | check one thing after another, stop, remove | what was checked changes before it is removed | nothing runs in what was removed |
| **Seed** (`tools/seed.py`) | the demo account and its sample tasks | create or repair the account, add missing tasks | overlapping seeds, registrations of the same email, a commit of unknown outcome before a rerun | re-seeding doubles nothing; the demo password opens the account |
| **Hook policy** (`tools/hook_policy.py`) | none | pure predicate over commands | - | - |
| **Observability** (`adapters/observability/`) | exporters, loop-lag monitor | initialise, shut down, measure | late timers accumulate | - |
| **Configuration, assembly, public ids, password hashing, schema** | static | - | - | - |

How they interact. A handler runs one synchronous use case in one transaction
(`TransactionRunner.run`). `create_task` writes the task and its outbox row in that one
transaction. A SAQ cron job runs `relay_once` every two seconds: it claims a batch in one
transaction, then for each message calls `queue.enqueue` (another database pool, another
transaction) and acknowledges in a third. SAQ then runs `process_task_created_job`, whose
transaction stamps the task, which requests edit meanwhile without a lock. Login and
password change lock the user's row, and their handlers put the resulting session version
in the cookie after the transaction ended. Registration and the seed meet on the unique
email and on the row lock. The development tools share files, PIDs, ports and containers of
a worktree, and no lock: each command reads, decides and writes on its own.

## 2. Modules

| Module | Models | State | Actions |
|---|---|---|---|
| `Delivery` | abstract: at-least-once delivery | `stored`, `accepted`, `published` | `Store`, `Accept`, `Publish` |
| `Outbox` | outbox rows and relay executions | `rows`, `relay`, `accepted` | `CreateTask`; `ClaimMessages` (SELECT ... FOR UPDATE SKIP LOCKED), `CommitClaim`, `PublishMessage`, `PublishRaises`, `AcknowledgeMessage`, `AcknowledgeRaises`, `FailMessage`, `Interrupt` (cancellation, kill, exception); `Tick` |
| `Jobs` | SAQ's jobs (external) | `job` | `Enqueue`, `StartJob`, `CommitJob`, `JobRaises`, `FinishJob`, `WorkerDies`, `Sweep`, `ExpireResult` |
| `Tasks` | task rows, edits and toggles under way | `life`, `row`, `request`, and history: `stamps`, `undone` | `CreateTask`, `UpdateTask`, `ToggleTask`, `Reread`, `Flush`, `Abandon`, `DeleteTask`, `MarkBackgroundProcessed` |
| `TaskHistory` | `Tasks` with a history of who overtook whom | theirs, and `late` | `HistoryNext` (each step of `Tasks`, with what it overtakes) |
| `Pipeline` | `Outbox`, `Jobs` and `Tasks` composed | theirs, and `exhausted` | `CreateTask` (task and message), `PublishMessage` (relay and `enqueue`), `PublishRaises`, `Interrupt`, `ProcessTaskCreated` (job and stamp) are joint; every other step is a step of one |
| `Credentials` | one account, its requests and browsers | `user`, `lock`, `request`, `jar`, and history: `changes`, `set`, `won` | `Send`, `Revalidate`, `LockUser`, `Authenticate`, `ChangePassword`, `Fail`, `Lose`, `Arrive` |
| `Transactions` | `TransactionRunner.run`, and PostgreSQL's side of its transaction | `client`, `txn` | `Begin`, `Raise`, `SendCommit`, `Run` (`CommitAnswered`, `CommitGivesUp`, `Rollback`, `Close`); `Land`, `Abort`, `Reap` |
| `Accounts` | registrations and seeds of one email, each a call of `Transactions` | theirs, and `user`, `tasks`, `step`, `locked`, `draft` | `Start`, `LockUser`, `Insert`, `SeedTasks`, `Fail`, `Proceed`, `Commit`, `Settle`, `Lose`, `DeleteTask` |
| `AtomicAccounts` | abstract: registrations and seeds that take effect at one instant or never | `user`, `tasks`, `looked`, `missing`, `done`, `told` | `Register`, `Look`, `Seed`, `Tell`, `DeleteTask` |
| `Supervisor` | `up`, `down`, `db-reset` of one worktree (no next-state relation of its own) | `os`, `proc`, `file`, `stack`, `containers`, `command`, and history: `excused` | `Begin`, `LoadConfig`, `RecallConfig`, `AllocatePorts`, `WriteEnv`, `ComposeUp`, `LoadProcesses`, `CheckStart`, `Spawn`, `Sign`, `Write`, `Poll`, `WaitReady`, `CheckStop`, `Terminate`, `AwaitExit`, `ComposeDown`, `Interrupt`; `Exit`, `ForeignTakes`, `ForeignExits` |
| `Worktree` | `Supervisor` with `clean_worktree` | theirs, and `tree` | `FindMerged`, `CheckStatus`, `CheckRecord`, `CheckContainers`, `Remove`, `DeleteBranch` |
| `OutboxProofs`, `OutboxRefinement`, `LongLeaseProofs` | theorems about `Outbox` | | |
| `AccountsProofs` | theorems about `Accounts` and `Transactions` | | |
| `CredentialsProofs`, `TasksProofs`, `PipelineProofs` | theorems about `Credentials`, `Tasks`, `Pipeline` | | |
| `WorktreeProofs` | theorems about `Worktree` and `Supervisor` | | |
| `MCOutbox`, `MCTasks`, `MCPipeline`, `MCCredentials`, `MCAccounts`, `MCWorktree` | instances for TLC | | |

Reading `Outbox`. Time is a countdown: `rows[m].lease` is `lease_expires_at` minus the
clock, 0 when `lease_expires_at <= now`. A claim is two steps because its SELECT holds row
locks until its commit, and because the new expiry is computed from the clock read before
the SELECT (`claim_messages`), so a slow claim commits a lease that is already shorter. An
execution's `left` counts down the time until it is gone: SAQ's 30 s timeout plus the
shielded commit or rollback it may still be in (5 s each). Executions do overlap although
the cron job is `unique`: SAQ sweeps a job it believes stuck while its coroutine still
runs, and a worker that lost its connection keeps running. `OwnerOf` maps an execution to
its worker's id, the lease owner; two executions of one worker share it. When a
transaction's commit times out the caller sees an exception whether or not it landed;
`AcknowledgeRaises` and `Interrupt` take both.

Reading `Tasks`. An edit or a toggle is one READ COMMITTED transaction with three round
trips. `get_owned` reads the row and returns a detached `Task`; the new `Task` is computed
from it. The ORM object of that read is unreferenced at once, so the session's weak
identity map drops it and the SELECT of `update` loads the row afresh. `update` then
assigns *every* column from the `Task`, `background_processed_at` included, and the flush
sends those that differ from the second read (`Sent`). `ReadTask`, `Reread` and `Flush` are
these three; the last includes the commit, because the row lock the UPDATE takes keeps
other writers out from there on. `undone` remembers the tasks whose stamp a flush wrote
over. Title and description are one column (`text`): an edit writes both. `TaskHistory` adds
the set `late` of requests under way that somebody has overtaken: by any change of the row
between their two reads, or afterwards by a change of the column they are about. The pipeline
composes `Tasks` without it.

Reading `Credentials`. A hash is the password and whether the hash is obsolete; a cookie
is the session version in it. `Declined` and `Revalidate` send the browser its own cookie
back because Litestar's client-side backend serializes every non-empty session on every
response (`docs/plans/initial-bootstrap-review-actions-deviations.md`), and `Arrive`
delivers responses in any order.

Reading `Transactions`. `client` is where the coroutine stands, `txn` what PostgreSQL knows.
A native task cancellation reaches every await, those under anyio's shield included, and the
five seconds of the shield may run out: so each of commit, rollback and close may end without
its answer, while PostgreSQL still works on what it was sent. A call ends *returned*,
*refused* (it raised before COMMIT was sent) or *unknown*. What a rollback that failed left
open is reset with its connection (`Reap`); a COMMIT already sent is not called back.

Reading `Accounts`. A transaction's writes are its `draft`, visible to others with `Commit`.
The unique index makes an INSERT wait for a transaction that inserts the same email
(`Inserting`), and FOR UPDATE for one that locked the row (`LockedElse`). A failed
transaction takes its draft with it, so `draft` and `locked` are read only while it is
unsettled.

Reading `Supervisor` and `Worktree`. A start is a number; `os` says which start, or what
foreign process, a PID names now, so a reused PID is simply another value. The process
group of a start stands for its leader (`uv` waits for its child). `mine` is the record as a
command loaded it: each save writes that whole, in two steps because `write_text` truncates
the file first. `stack.env` is written in the same two steps (`AllocatePorts`, `WriteEnv`), and a
torn one is refused by every command that reads it; `docker compose` gets the ports the file names
by then, or its defaults (`Published`), since `stack_environment` reads it again. A process that exited keeps its PID while the
command that started it has not reaped it (`Unreaped`). Ports of other worktrees are the free
choice in `AllocatePorts`. `restart` is `down` then `up`; a wrong answer to `db-reset`'s
question is an `Interrupt`; `status`, `logs`, `urls`, `diagnose` and `observe` only read.
After the worktree was removed a command that was already running goes on where it needs no
file of the worktree, and makes `.run` again. Git may refuse `status`, `worktree remove` and
`branch -d` for reasons of its own; they are free choices, and which edits or commits they are
about is not followed. The history variable `excused` names the starts the
record promises nothing about: those whose `up` was not the only command until it had
recorded them, or was killed first. The properties that exempt them say what the tool does
guarantee, and there is no lock by which it could guarantee more.

Definitions named like another with a suffix and introduced by "Mutation" are faulty
variants that no action uses. Each shows that one property notices the fault:
`PROJECT.json` pairs them.

## 3. Runs

| Run | Config | Checks | Instance |
|---|---|---|---|
| `outbox` | `Outbox.cfg` | `TypeOK`, `PublishedWasAccepted`, `OneLiveClaim`, `OnlyHolderAcknowledges`, `PublishedIsFinal`, `EveryMessagePublished`, `DeliversAtLeastOnce` | 2 messages, 2 executions in 2 workers, batch 2, lease 2 < life 3 |
| `outbox_long_lease` | `OutboxLongLease.cfg` | `NoOverlap`, `FailureIsNotHot` | lease 3 > life 2, 1 worker id |
| `outbox_hot_failure` | `OutboxHotFailure.cfg` | `FailureIsNotHot`, violated | as `outbox` |
| `tasks` | `Tasks.cfg` | `AtomicUnlessLate`, `SettledStampStays` | 1 task, 2 texts, 2 requests, the worker at any time |
| `pipeline` | `Pipeline.cfg` | `EffectHasCause`, `NothingLost`, `CompleteMeansDone`, `EveryTaskProcessed` | 1 task, 2 executions of the relay, 2 tries, 2 concurrent executions of the job, no edits |
| `pipeline_edits` | `PipelineEdits.cfg` | `TypeOK`, `EffectOnce` | 1 task, 1 execution of the relay, jobs as above, 1 request |
| `pipeline_shown` | `PipelineShown.cfg` | `DoneIsShown`, violated | 2 executions of the relay, 1 request |
| `credentials` | `Credentials.cfg` | `TypeOK`, `VersionCountsChanges`, `PasswordIsLatest`, `CookieWasEarned`, `CookiesAreNeverAhead`, `RevokedStaysRevoked`, `LockIsGranted` | 2 passwords, 1 browser, 2 requests in flight, at most 2 changes |
| `credentials_same_start` | `CredentialsSameStart.cfg` | `SameStartOneWins`, violated | as `credentials` |
| `credentials_replacement` | `CredentialsReplacement.cfg` | `ReplacementIsKept`, violated | as `credentials` |
| `accounts` | `Accounts.cfg` | `TypeOK`, `OutcomeIsTrue`, `DuplicateIsTruthful`, `CookieNamesAccount`, `DemoOpensAccount`, `SeedTitlesOnce`, `TakesEffectAtOnce`, `EverySettles` | 1 registration, 2 seeds, 2 sample tasks |
| `worktree` | `Worktree.cfg` | `WorktreeTypeOK`, `RecordIsComplete`, `DownLeavesNothing`, `PortsPersist`, `NothingForeignIsSignalled`, `IdleWhenRemoved` | 2 commands at a time, 2 PIDs, 2 blocks of ports, 2 starts, any number of commands |

Bounds and why they are enough. Two messages make a batch whose second message waits while
the first is handled, and let `ORDER BY ... LIMIT` matter. Two executions are enough for
every pairwise race; the proofs cover any number. A lease shorter than an execution's
life makes it run out at every point of the loop, one longer never does; both
configurations are run. One task suffices in `Tasks` because
no operation touches two; two requests give every pairwise race, with each other and with
the stamp. The pipeline with edits and two relay executions at once (4.9 million states)
satisfies its invariants too; the two runs split it to stay short. What the runs without
edits lose is only the rewriting of the row, which `NothingLost` and `CompleteMeansDone`
do not read: they speak of the stamp having happened. In the pipeline runs the job may have two tries, so that the last one differs from the
others, and two executions at a time, so that a swept job runs beside its old execution.
Two changes let an A-B-A sequence of passwords happen. Two seeds and a registration meet at
every statement in every order, and a second seed is also the rerun of the first; two titles
let a seed find one sample task and lack the other. In the worktree two commands at a time
give every pairwise overlap (an `up` beside an `up`, a `down`, a reset or a clean); two starts
are one `up` or one process started twice, and two PIDs let the second start take the first's
PID or another. Commands follow one another without a bound. Symmetry over commands, PIDs and
blocks is sound there, as no liveness is checked. The only bounds on behaviours are
`MaxChanges` in `Credentials`, `MaxRuns` in `Jobs` (the worker has ten slots), `MaxStarts` in
`Supervisor` and the cap of the history variable `stamps` in `Tasks`, which counts to two;
`MaxRun`, `LeaseSeconds`, `BatchSize` and `MaxTries` are parameters the code has.

Fairness. `Outbox`: the cron job starts relays, SAQ cuts an execution off at its timeout,
time passes (weak fairness); and a claim, an enqueue or an acknowledgement attempted again
and again under a live lease succeeds some day (strong fairness, for each message: any
number of failures is allowed, an outage for ever is not; without it nothing could be
delivered). `Pipeline` adds that SAQ starts queued jobs, sweeps active ones and ends every
execution, well or not: whether jobs succeed is *not* assumed, so `EveryTaskProcessed` has
"or the job exhausted its tries". `Credentials`: a transaction holding the row lock ends
(its statements and hashing are finite, and a lost connection releases the lock), and
PostgreSQL's lock queue grants the lock to a request that keeps waiting. `Accounts`:
statements end, the runner's waits end by their timeout, an operation whose transaction
PostgreSQL aborted raises, and PostgreSQL settles what it was told to commit and what a closed
connection left (weak fairness; a lock is taken once its few possible holders have settled).
That operations succeed, and that commits land rather than abort, is not assumed.

What the runs show beyond the properties' own comments:

- `EveryMessagePublished` needs `LeaseSeconds` of at least one message's handling: with a
  lease that always runs out first nothing stops executions from taking messages from each
  other. The strong fairness is stated for live leases only.
- `HeldBy` would be safe without its test of `published_at`, because publication also
  clears the owner; it would not be safe without its test of the owner
  (`OnlyHolderAcknowledges`). Two executions of one worker do acknowledge for each other,
  which is harmless: both had the message accepted.
- `NothingLost` has four outcomes, and the fourth is real: a published message whose job
  exhausts its three tries is never enqueued again; the task stays unprocessed.

- `AtomicUnlessLate` and `SettledStampStays` say how far the missing lock of edits and toggles
  reaches. A request that nobody overtook acts as if it read and wrote at once: its toggle
  turns over the row that is there, and columns others wrote after its second read stay, because
  the flush sends only what differs. A request that was overtaken may act on what it read: two
  toggles at once may act as one, and nothing in the repository promises otherwise; the lost
  stamp below is the other case. A stamp older than every request under way is safe in any case.
- `EveryTaskProcessed` starts from the task, not from its message: a task committed without
  its outbox row would violate it.
- What a caller of `run` may conclude (`accounts`): a result means committed, a refusal means
  no effect ever, and everything else is unknown for good reasons: a commit that timed out
  may land after the caller was told. `SeedTitlesOnce` survives that because the row lock, not
  the caller's knowledge, orders the next seed behind the commit in flight; a seed that
  inserts the account is in turn waited for by the unique index.
- `TakesEffectAtOnce` says the whole of it in one specification (`AtomicAccounts`): a
  registration creates the account if there is none, a seed creates or repairs it and adds
  what it found missing, each at one instant as if alone; a caller told of success, a refusal
  or a taken email is told the truth for good, and one told nothing definite may see the
  effect later, once.
- An email reported as taken is never one that a failed registration gave back
  (`DuplicateIsTruthful`): the INSERT waits for the outcome.
- The supervisor keeps no lock, and `RecordIsComplete` is the exact extent of what that costs:
  two overlapping `up`s, or a kill before the record is saved, may leave a process that no
  command knows. What was recorded by an `up` that had the worktree to itself is lost by no
  later overlap: every save writes a payload that still names it. A kill inside a save leaves
  a torn record, and every later command refuses until it is removed by hand.
- `NothingForeignIsSignalled` holds up to the window between the ownership check and the
  signal. In ten seconds of waiting a PID may be reused and SIGKILL checks nothing again; the
  property excuses only PIDs taken inside that window.
- `PortsPersist` is about `stack.env` and the processes that run on it. That the block is still
  free when the services bind it is not promised: `_allocate_ports` closes its probes again, and
  then Compose, or the process, fails to start.
- `IdleWhenRemoved` holds for every clean as far as processes go: a process that the record
  accounts for was recorded by an `up` that had the worktree to itself, and so not while the
  clean was under way. For containers it needs the clean to have been alone: it asks docker once,
  and an `up` may start them before `git worktree remove`.
- After `branch -d` refused, a rerun of clean finds no worktree for the branch and refuses as
  well; the branch remains to be deleted by hand.

### Findings

- *Lost stamp* (`pipeline_shown`). `docs/plans/initial-bootstrap.md:700` says a created task
  "eventually shows the worker's persisted processed timestamp". An edit or a toggle that
  read the task before the worker's commit and again after it sees the stamp as a
  difference from the `Task` it is about to write, and writes NULL back
  (`repositories.py:174`). The job is complete, the message published: nothing stamps the
  task again. One execution of the relay and one of the job are enough, and neither has
  to fail: what matters is only when the request makes its two reads.

- *Hot failure* (`outbox_hot_failure`). `domain/outbox.py:46` and `relay.py:134` say the
  retained lease keeps a failure from being retried at once. `mark_failed` retains the
  lease but does not renew it. A failure recorded after the lease ran out (a slow enqueue,
  a late message of a batch, or a small `OUTBOX_LEASE_SECONDS`) leaves the row claimable
  immediately. The next line of the comment (`domain/outbox.py:47`) says that the row is eligible
  again when the lease expires; what the code lacks for the first line is that recording a
  failure starts the lease anew. With the defaults (a lease and a timeout of 30 s) it takes a
  failure at the very end of an execution, with a small `OUTBOX_LEASE_SECONDS` any slow
  one. With a lease longer than any execution the comment is right: that is
  proved (`LongLeaseCoolsFailures`).
- *Same start* (`credentials_same_start`). `docs/plans/initial-bootstrap-review-actions.md:116`
  says of two changes begun with one cookie and one current password only the first
  succeeds. Both succeed if the first sets the password it already was:
  `change_password` accepts an unchanged password and does not compare the locked row's
  version with the cookie's. The versions do not collapse (`VersionCountsChanges` holds).
- *Replacement* (`credentials_replacement`). `README.md:286` has a tester change the password in
  one of two sessions and confirm that "the initiating session remains signed in". The change
  does issue a replacement cookie (`README.md:174`), but a response that was under way carries
  the old cookie, which every response re-serializes, and, arriving later, replaces the
  replacement: the browser is signed out.

## 4. Proofs

The outbox proofs hold for any set of messages (numbered), executions, workers, lease, batch
and life, under the assumptions `MsgAssumption`, `OwnerAssumption`, `LeaseAssumption` and
`BatchAssumption` of `Outbox`: messages are ordered like numbers, an execution has a
worker, times and sizes are positive (`config.py` validates `ge=1`), NULL is no value. Those of
`Accounts` hold for any number of calls, registrations among them and sample tasks, under
`AccountsAssumption`: registrations are calls, and "no account" and the demo password are not.
Those of `Credentials` hold for any passwords, browsers and bound on changes, and for any finite
set of requests in flight (`SetAssumption`, `BoundAssumption`); those of `Tasks` for any tasks,
texts and requests (`NonEmptyAssumption`); those of `Pipeline` for any number of messages,
relays and requests, any number of tries and of executions of a job at once (`JobAssumption`,
`OutboxAssumption`, `TaskAssumption`, which together are what the outbox and the tasks assume).
Those of `Worktree` hold for any number of commands under way together, PIDs, blocks of ports
and starts, under `SupervisorAssumption`: a foreign process is neither a start nor a PID, "no
block" is no block, and a torn file is neither a record nor a block.

| Theorem | Module | States |
|---|---|---|
| `TypeCorrect` | `OutboxProofs` | `Spec => []TypeOK` |
| `PublishedAfterAccepted` | `OutboxProofs` | `Spec => []PublishedWasAccepted` |
| `LiveClaimsAreExclusive` | `OutboxProofs` | `Spec => []OneLiveClaim` |
| `OnlyTheHolderAcknowledges` | `OutboxProofs` | `Spec => []OnlyHolderAcknowledges` |
| `ImplementsDelivery` | `OutboxRefinement` | `Spec => Abstract!Safety` |
| `PublicationIsFinal` | `OutboxRefinement` | `Spec => PublishedIsFinal` |
| `LongLeaseNoOverlap` | `LongLeaseProofs` | `LeaseSeconds > MaxRun` gives `Spec => []NoOverlap` |
| `LongLeaseCoolsFailures` | `LongLeaseProofs` | `LeaseSeconds > MaxRun` gives `Spec => FailureIsNotHot` |
| `TypeCorrect` | `AccountsProofs` | `Spec => []TypeOK` |
| `OutcomesAreTrue` | `AccountsProofs` | `Spec => []OutcomeIsTrue` |
| `DuplicatesAreTrue` | `AccountsProofs` | `Spec => []DuplicateIsTruthful` |
| `CookiesNameTheirAccount` | `AccountsProofs` | `Spec => []CookieNamesAccount` |
| `DemoOpens` | `AccountsProofs` | `Spec => []DemoOpensAccount` |
| `SeedingIsIdempotent` | `AccountsProofs` | `Spec => []SeedTitlesOnce` |
| `ImplementsAtomicAccounts` | `AccountsProofs` | `Spec => TakesEffectAtOnce` |
| `TypeCorrect` | `CredentialsProofs` | `Spec => []TypeOK` |
| `NoChangeIsLost` | `CredentialsProofs` | `Spec => []VersionCountsChanges` |
| `LatestPasswordStays` | `CredentialsProofs` | `Spec => []PasswordIsLatest` |
| `CookiesAreEarned` | `CredentialsProofs` | `Spec => []CookieWasEarned` |
| `NoCookieIsAhead` | `CredentialsProofs` | `Spec => []CookiesAreNeverAhead` |
| `RevocationIsFinal` | `CredentialsProofs` | `Spec => RevokedStaysRevoked` |
| `RequestsAreAtomicUnlessLate` | `TasksProofs` | `HistorySpec => AtomicUnlessLate` |
| `SettledStampsStay` | `TasksProofs` | `Spec => SettledStampStays` |
| `ImplementsParts` | `PipelineProofs` | `Spec` implies the specifications of `Outbox` and `Tasks` |
| `TypeCorrect` | `PipelineProofs` | `Spec => []TypeOK` |
| `EffectHappensOnce` | `PipelineProofs` | `Spec => []EffectOnce` |
| `EffectsHaveCauses` | `PipelineProofs` | `Spec => []EffectHasCause` |
| `NothingIsLost` | `PipelineProofs` | `Spec => []NothingLost` |
| `CompleteIsDone` | `PipelineProofs` | `Spec => []CompleteMeansDone` |
| `TypeCorrect` | `WorktreeProofs` | `Spec => []WorktreeTypeOK` |
| `RecordComplete` | `WorktreeProofs` | `Spec => []RecordIsComplete` |
| `DownStopsAll` | `WorktreeProofs` | `Spec => []DownLeavesNothing` |
| `PortsStayTheSame` | `WorktreeProofs` | `Spec => []PortsPersist` |
| `SignalsAreMeant` | `WorktreeProofs` | `Spec => NothingForeignIsSignalled` |
| `RemovedIsIdle` | `WorktreeProofs` | `Spec => IdleWhenRemoved` |

The argument. Few of the properties are inductive. For the outbox four groups of invariants
are, each upon the one before:

1. `Acceptance`: an execution about to acknowledge a message had it accepted. That gives
   `PublishedWasAccepted`.
2. `Locking`: a locked row is unpublished and unleased until the claim commits, no row is
   locked twice, a batch holds committed messages, a published row has no lease. It is
   what SKIP LOCKED and the wait of the acknowledging UPDATEs for the row lock buy.
3. `Claims`: while an execution's own countdown of its lease runs and the row is
   unpublished, the row still names its owner and expiry; hence `OneLiveClaim`. Only a claim could
   change the row, and a claim needs an expired lease.
4. `WorkIsUnpublished`: with an owner id of its own, what an execution still works on under
   a live lease is unpublished, since another's acknowledgement fails the owner test.

The refinement maps every step to `Store`, `Accept`, `Publish` or a stutter; publishing
needs `Acceptance`, accepting needs that a batch is stored. `Aging` (`LongLeaseProofs`) says that lease and
life run down together, so with a longer lease a message in hand is always under a live
lease, and `Claims` then excludes any overlap.

The invariant of `AccountsProofs` is `Stages` (what `client`, `txn` and `step` may be
together: a COMMIT is sent only after the last statement, what returned was committed),
`Drafts` (a transaction that has come to the sample tasks holds the row's lock or its index
entry), `Holders` (at most one unsettled transaction does either) and `Rows` (what a draft
says of the rows, "no account yet", "these titles are missing", is still true while it may
commit). `Holders` is why `Rows` is kept: whatever a draft read can be changed only by another
holder, or by the owner, who only deletes. `QuietKeeps` covers every step of the runner and of
PostgreSQL that writes nothing, whatever the operation.

The refinement of `AtomicAccounts` follows from the same invariant. A call takes effect where
PostgreSQL commits it (`Commit` shows as `Register` or `Seed`), which may be after the runner
gave up; the statement that lists the sample tasks shows as `Look`, an answer to the caller as
`Tell`, and all else is hidden. `Rows` gives what `Register` and `Seed` ask of the rows at that
instant, `Stages` that no call takes effect after a refusal or succeeds before its effect.

In `CredentialsProofs` the four invariants and three more are one induction: `Locking` (a
request that verified under the row lock holds it, and what it read there is the row),
`SentNotAhead` (no response can bring back a version ahead of the row) and `Budget`. `Budget`
is about the model: changes made and under way stay within `MaxChanges`, so the version stays
in its type. `Locking` is what makes the change's increment the next version.

In `TasksProofs`, `Stamped` ties the history variables to the row (a processed task was
stamped; a stamped one is processed or undone) and `Wanted` says that an edit or a toggle wants
the stamp it saw, no other: that is why a stamp every request has seen cannot be taken back.
`AtomicUnlessLate` needs two more, proved inductive beside them: `Asked` (a request wants its first
read with either `done` turned over or another text) and `Covered` (of a request nobody has
overtaken, the row is still what it read first, or, after the second read, that read equals
the first and its own column of the row is unchanged). So the columns it sends are its own or
none, and what it sends is what it would make of the row now.

In `PipelineProofs` every step is a step of the outbox, and of the tasks, or none of theirs;
so the invariants of both carry over (`Parts`), cited from their modules. `JobInv` says a queued
job has a try left and a job no more executions than slots. `Crosses` follows one message: what
was enqueued, run or stamped was accepted, what was accepted is stored with its task; a job that
is complete, or an execution past its commit, left the task stamped or gone; a failed job is
remembered; and an accepted message whose task is neither has a job that will run or is
remembered to have failed. `NothingLost` is that last part with `PublishedWasAccepted` of the
outbox. A sweep, a crash or an expired result can break none of them because the stamp, not
SAQ's row, is what they are about.

In `WorktreeProofs` one induction carries all six theorems. A start is *known* when it lives
and is neither excused nor being watched by its `up`; the record owes an account of those only.

- `Solitude`: while a command is still `alone`, no other is under way. A start becomes known
  only when a command that is alone writes it down, so at that moment no other payload exists
  that could fail to name it.
- `Filed` and `InLoop`: the file, unless torn, names all that is known, and so does the payload of
  each command between its load and its last save. Neither is inductive without the other: a
  load copies one to the other, a save the other way round. A save may drop a name only when
  what the payload had there is gone, which `Stage` follows through the loop (what the payload
  says under the current name before a spawn, a signal, a save, and behind the last turn).
  Behind the last turn of `down` the payload is empty, so nothing is known: `DownLeavesNothing`.
- `Ported` and `OnPorts`: what is known runs on the block of `stack.env`. A command allocates
  ports only while nothing is known, because it found no `stack.env`, and an `up` that has been
  alone works with the block on disk.
- `Boxed` and `Checked`: containers of a present worktree come with a `stack.env`, and what a
  clean has established stays established. Nothing known stays nothing known for every clean
  (only a command that is alone makes a start known, and then no clean is under way); that the
  worktree is there and no container is left stays so for a clean that is alone.
- `Excusable`: if a foreign process has the PID a command is about to signal, it came after the
  check. A start never changes its PID once it has one, which `Onward` says of every step.

What is said of one command is an operator of that command's record and of the state it reads.
So a step of one command is proved once for that command and once, in `StepKeeps`, for all others:
they keep their invariants because processes only move `Onward` and what is known shrinks.
`WorktreeProofs` has no liveness to leave out: the commands are asked for none.

Only model-checked: liveness (`EveryMessagePublished`, the fairness half of
`DeliversAtLeastOnce`, `EveryTaskProcessed`, `LockIsGranted`, `EverySettles`), which is beyond
the prover. Every invariant and every action property that a passing run checks is proved.

## 5. Not modelled

- Code without state of its own: rendering, forms, headers, CSRF, configuration parsing,
  assembly, logging, tracing, migrations, deployment, the hook policy.
- Session expiry (no cookie expires in `Credentials`). `attempt_count` (telemetry only).
  Payload validation in the worker (the payload is one `create_task` wrote). Worker start-up
  and shutdown of its engine. Sqids and Argon2 themselves.
- Two transactions of one task request: the session's revalidation and the operation are
  one transaction, but the revalidation takes no lock, so a request may write once more after a
  password change that committed meanwhile. It is then ordered before the change; no property
  says more.
- In the seed, the rehash (it writes the same password) and the completed flag of sample tasks.
- In the tools, Docker, git, gh and uv themselves: their outcomes are free choices where the
  tool calls them. The lag monitor of the observability adapter measures and decides nothing.

## 6. Plan

Done: `Delivery`, `Outbox`, `Jobs`, `Tasks`, `Pipeline`, `Credentials`, `Transactions`,
`Accounts`, `AtomicAccounts`, `Supervisor`, `Worktree`, and the proofs about each of them.

Next: an abstract specification for `Credentials` (a password and a version that only
advances, and the cookies that are good for it), with the refinement proved step by step, as
`OutboxRefinement` does for the relay and `AccountsProofs` for the accounts.
