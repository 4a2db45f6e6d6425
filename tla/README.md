# A TLA+ model of gh-ghes-2-ghec

The program migrates repositories from GitHub Enterprise Server to GitHub
Enterprise Cloud. It is a server: HTTP requests and a dashboard ask for
migrations, a queue runs them in two phases, statuses are kept in memory and
saved in the background, and every call to GitHub passes a retry loop and a
circuit breaker. This directory models its core in TLA+, checks it with TLC and
proves its central invariants with TLAPS: the queue and queue mode, the process
around direct mode with its storage and scheduler, and one attempt to migrate a
repository, call by call.

`PROJECT.json` lists, for every definition that models code, the lines it
models; for every property, a mutant of the model that violates it; the hazards
of the code with the properties that cover them; and the findings.

## 1. Inventory

| Component | State | Operations | Modelled by |
|---|---|---|---|
| Queue manager (`internal/queue`) | heap, repository map, two counters, one-slot channel `jobAvailable`, channel `shutdown` | `Start`, `Stop`, `EnqueueArchiveJob`, `EnqueueMigrationJob`, workers with `processNextJob` | `QueueManager`, `JobHeap`, `JobPool` |
| Queue mode (`internal/migrator/queue.go`) | `qmi.mu`, the request in each job | `EnqueueMigration`, `validateRepositoryForQueue`, `handleArchiveJob`, `handleMigrationJob` | `QueuedMigrations` |
| Migrator (`migrator.go`, `repository.go`) | `migrations` (one status per repository) under `m.mu` | `StartMigration`, `RetryMigration`, `performMigration` and its steps, load and `Close` | queue mode in `QueuedMigrations`; direct mode, restart and saving in `DirectMigrations`; one attempt in `MigrationAttempt` |
| Status updates, progress (`status.go`, `progress.go`) | stage, state, progress of a status | `updateStatus`, `parseStageAndState`, `adjustStageAndStateForContext`, `calculateProgressData` | `StatusProgress`; what an update starts, in `DirectMigrations` |
| Webhooks (`webhook.go`) | none | a goroutine per change | `DirectMigrations` |
| Storage (`internal/storage`) | one row per repository, archived attempts | save, load, archive, maintenance, close | `MigrationStore` |
| Scheduler (`internal/scheduler`) | schedules, cancel functions, ticker | `ScheduleMigration`, `checkSchedules`, `Stop` | `Scheduler` |
| Server and commands (`internal/server`, `cmd/root.go`), writing handlers of the dashboard | none of their own | handlers, set-up, shutdown | `MigrationServer` |
| GitHub clients (`internal/github`) | two breakers per client | repository checks and deletion, export, upload, import, rate limits | `MigrationAttempt`; the answers alone, in `QueuedMigrations` |
| Retry (`internal/utils/retry.go`) | none beyond a call | `Retry`, backoff | `GitHubCalls` |
| Circuit breaker (`internal/utils/circuit.go`) | state, failure and success counters, `activeCalls`, `lastStateChange` | `Execute`, `Reset` | `CircuitBreaker`; its time limit on a call, in `GitHubCalls` |
| Rate-limit handling, schema migrations and database health, error texts, pages, configuration, logging, metrics, tracing | see "Not modelled" | | not modelled |

How they interact. A request's handler calls `StartMigration` in a goroutine and
`RetryMigration` inline. In queue mode both call `EnqueueMigration`, which
validates every repository (calls to GitHub, a possible deletion of the target)
and enqueues an archive job, all under `qmi.mu`. A worker of the queue manager
calls `handleArchiveJob`, which polls an export and enqueues the migration job;
another worker calls `handleMigrationJob`, which runs `performMigration`:
prepare, export again, import, poll. Everyone writes the repository's one status
under `m.mu`. Every call to GitHub is an `Execute` of a breaker.

What is hard here: workers that share counters, a map and a one-token channel;
two mutexes taken in both orders; several attempts writing one status; a queue
that can be full in the middle of an attempt; breakers whose verdicts arrive in
another state than the one that admitted the call; time-outs that abandon
functions which go on. What makes each component correct:

- queue manager: heap and map agree; limits hold with any number of workers;
  every accepted job runs once; nothing starves; `Stop` returns;
- heap: stays ordered under removals from its middle, loses nothing;
- queue mode: in progress means somebody is working on it; succeeded means the
  repository is there; every migration and every call comes to an end;
- breaker: the active count is right, counters belong to their state, open lasts
  until its time, and a recovered service is let through again;
- direct mode: one attempt per repository at a time, also around failures that
  are written twice and around restarts; a success stays one; what was recorded
  as failed is archived before it is overwritten; a webhook tells of a success or
  gives up trying;
- storage: what is saved last is what happened last;
- scheduler: a schedule is waiting, started or dropped, never lost; `Stop`
  cancels the calls under way; what can start does;
- one attempt: success and failure are reported only when they are true and
  final; nothing is deleted that the request does not name; nothing is exported
  or imported twice but by a retry; it ends.

## 2. Modules

| Module | What it is |
|---|---|
| `MigrationJobs` | jobs and limits, shared by the next three |
| `JobPool` | abstract specification: a bounded pool of jobs, one waiting per repository, limited concurrency, each job run once |
| `QueueManager` | the queue manager, one action per critical section of `qm.mu`; implements `JobPool` |
| `QueueManager_proofs` | its theorems |
| `JobHeap` | the heap array and the scan in `processNextJob`; refines the choice `QueueManager` leaves open |
| `JobHeap_proofs` | its theorems |
| `QueuedMigrations` | queue mode around a `JobPool` |
| `QueuedMigrations_proofs` | its theorems |
| `CircuitBreaker` | `Execute`, with calls in flight |
| `CircuitBreaker_proofs` | its theorems |
| `MigrationRequests` | what a request names, shared by the next four |
| `MigrationStore` | the three databases: rows, archived attempts, unordered saves |
| `DirectMigrations` | direct mode over `MigrationStore`: statuses, attempts, webhooks, load and `Close` |
| `DirectMigrations_proofs` | its theorems |
| `Scheduler` | schedules, the check of the ticker, cancel functions, `Stop` |
| `Scheduler_proofs` | its theorems |
| `MigrationServer` | composes `DirectMigrations` and `Scheduler`: handlers, shutdown, crash and restart |
| `MigrationServer_proofs` | its theorems, from those of the two parts |
| `StatusProgress` | from the message of an update to the stage, state and progress that users see |
| `GitHubCalls` | one call of the GitHub client: retries inside the time limit of a breaker, lost answers, abandoned calls that run on |
| `MigrationAttempt` | `performMigration` from the first call to the last poll, over `StatusProgress` and `GitHubCalls` |
| `MigrationAttempt_proofs` | its theorems |
| `MC*` | model values for the instances TLC checks |

`MigrationServer` takes an attempt as a few steps, because what it asks is who
writes which status when; `MigrationAttempt` takes one attempt alone, because
what it asks is what the attempt does at GitHub. They meet in the status: the
sequences of overall statuses that `MigrationAttempt` writes are those of an
attempt in `DirectMigrations`.

Operators whose comment begins with "Faulty variant" are not used by a
specification. They are the bugs the properties are tried against: each of them,
put in the place of the definition it varies, makes TLC report the property.

### Correspondence

*Queue manager.* `qm.queue` is a set in `QueueManager` and a sequence in
`JobHeap`, where a turn of the loops of `container/heap` is `Rise` or `Sink`;
`qm.jobMap` is the set of its keys; `activeArchiveGenerations` and
`activeMigrations` are `active[TRUE]` and `active[FALSE]`. A worker's `pc` names
the places between critical sections where others run: the `select`, the lock of
`processNextJob`, the handler, the signal after it. `Take`/`FindNothing` are the
first critical section with its early returns, `Finish` the second, `Signal` the
non-blocking send. Each call of `Start` adds a set of workers, as in the code,
where every request calls it. A rejected enqueue changes nothing and has no
action. `time.Now()` under the mutex is a counter that gives every job its own
instant.

*Queue mode.* `JobPool`'s `Accept`, `Begin` and `End` stand for the queue
manager, which implements them by theorem. `pc`, `todo` and `deletes` are the
calls of `StartMigration` and `RetryMigration`; `phase` is where the handler of
a job is, named for what it does next. `status` is the `Status` field only.
Statuses written in a row by one goroutine, with the same value and no other
effect in between, are one action: the values written and the places where a
handler can fail stay. `ClearTarget` is the check of the target and the deletion
that follows; it allows what the GitHub client allows, a check that fails and so
answers "no". A failure is reported twice, by the step and by its caller, and may
leave the target deleted (`MayHaveCleared`). A migration handler takes `qmi.mu` and
then `m.mu` in two steps (`LockForImportPhase`, `StartImportPhase`), as a call
may hold either. `stranded` and `overlapped`
are history variables that only properties read. Two simplifications narrow it:
an import GitHub still completes after its poll failed is not followed, and jobs
are always taken (workers exist, nobody has called `Stop`; `QueueManager` covers
both).

*Circuit breaker.* A call is running, then has its verdict and is leaving, in
three critical sections. `lingering` are the functions that outlive their
time-out. `expired` abstracts the clock: whether `ResetTimeout` has passed since
the last change of state; only an open breaker looks at it. `healthy` and
`mayFail` are the environment: before `Recover` calls may fail, after it only
those sent earlier. `TimeoutsShort` states that `RequestTimeout` (30 s) is below
`ResetTimeout` (1 min), as `internal/github/api.go` configures it; without it,
the default, any verdict can come after the breaker has opened half. A caller
whose timed-out function still runs makes no second call: with more callers
others do it for him. The zeroes of the configuration are the constants'
assumptions; `MaxConcurrentRequests = 0` means no limit, as in the code.

*Storage.* `rows` are the rows of `migration_status`, `history` the archived
attempts, `saves` the goroutines of `persistAndNotifyStatusUpdate` with the copy
each was given. A save may fail (`faults` bounds how often); SQLite's is tried
three times, with others in between. The databases differ in the columns they
write and read back; none gives the target organisation to a load
(`SQLiteStatus`, `MySQLStatus`, `PostgresStatus`), which is where a retry can find
none.

*Direct mode.* `migrations` is `m.migrations`; an attempt is the goroutine of
`StartMigration`, `RetryMigration` or the scheduler, with `pc` between the status
updates that others can see. `Exit` is the end of the process at any moment, with
`Close` before it or not: attempts, saves and webhooks are gone, rows stay.
`Restart` loads what the code loads, and when something fails what it can
(`Missable`: SQLite skips a row it cannot read and returns the rest). A webhook is a
goroutine that copies the status when it runs and then delivers the copy or, after
four tries, gives up (`CopyStatus`, `Deliver`, `GiveUpDelivery`). Time is counted
in attempts, all that the comparisons of `updated_at` and `started_at` need here.

*Scheduler.* A check sees any hour of any day, so windows over midnight and
windows that a check misses are covered without a clock. `starts` are the
goroutines of due schedules, each between the removal of its schedule and the
deletion of its cancel function. `Stop` marks those whose context it cancels
(`cancelled`); what comes of it is a failure of the attempt, which
`DirectMigrations` allows at any time. `CancelScheduledMigration`, which nothing
in the repository calls, is left out.

*One attempt.* `pc` is the call under way, and `call` the tries it has made. Every
call can be answered, refused, lose the answer of a request that took effect, or
be abandoned when the breaker's limit is reached while the loop of `Retry` goes
on: a `stray`, whose requests may still take effect until the context is done.
`InTime` computes from the backoff which tries a caller still sees. `export` and
`imports` are GitHub's, and move by themselves; `target` may be changed by
somebody else. Each import records whether it was given all of the archive. A
breaker never opens during one attempt: an attempt makes fewer failing calls than
the threshold, and has breakers of its own.

## 3. Runs

| Run | Asks | Instance and why it is enough |
|---|---|---|
| `queue_safety` | do map, heap, counters and workers agree, do limits hold, is it a `JobPool`? | 3 repositories, 3 enqueues, queue of 2, two calls of `Start` with one worker each: twice as many workers as slots, a full queue, a repository queued again while its job runs. 292,253 states up to symmetry of the repositories |
| `queue_progress` | is a waiting job taken, does `Stop` return? | 2 jobs competing for the workers and the token. No symmetry, as liveness needs |
| `heap` | is the array a heap holding the right jobs, and what does the scan serve? | 7 jobs, 6 at a time, 2 priorities: the smallest size at which a removal must let the moved job rise |
| `heap_urgent` | is the most urgent job of a kind taken? *violated* | 3 jobs |
| `queued` | see the properties of `QueuedMigrations` | 2 repositories, 2 requests of which one may be a retry, one waiting job, one slot of each kind: full queue, overlapping attempts, hand-over rejected. Four jobs are all that two requests can lead to. 84,620 states |
| `queued_retry` | does a retry return? *violated* | as `queued` |
| `queued_archives` | does the archive limit bound the exports? *violated* | as `queued` |
| `circuit` | are the counters right, does the breaker stay open, does it recover? | 4 calls for 3 places, thresholds of 2: the limit rejects, and calls of an earlier state are still active when the breaker is half-open. Deadlock is checked |
| `circuit_probe` | is at most one probe under way? *violated* | as `circuit`, with the time-outs of the program |
| `lifecycle` | does direct mode keep its promises over requests, schedules, unordered saves, a shutdown, a crash and a restart? | one repository, as statuses, rows, schedules and cancel functions are all kept per repository; 2 attempts, so that one can overtake the other; 2 schedules, so that one can replace or follow the other; one fault (a failed save, archive or start, or a crash); windows that span midnight and that do not; SQLite, whose saves can interleave most. 1,254,127 states |
| `lifecycle_stored` | is the stored status the last one? *violated* | one attempt, no fault |
| `attempt` | see the properties of `MigrationAttempt` | two retries after 1 and 2 seconds against a limit of 3, as five after 1 to 16 are against 30 in the code: the last try comes too late. Two chunks, so that a download can break off in, before and after the last; 2 answers lost or late effects, so that a retried call and a stray meet; one change of the target by somebody else, at any time; both options either way. 763,004 states |

Bounds are `MaxJobs` (enqueues in a behaviour), `MaxStarts`, and the sizes of the
sets of repositories and calls. Deadlock checking is off where the system comes
to rest: all jobs are done and the bound on enqueues is reached, or workers have
exited.

### What the properties say

Queue: `QueueMapAgrees` and `LimitsRespected` are the queue manager's promises
about its own state; `QueueInv` is the inductive invariant behind them;
`ImplementsJobPool` is the promise to the code that enqueues. `NoStarvation`
holds because of the 100 ms timer: without `Poll` TLC finds the behaviour in
which a worker of the wrong kind eats the token. `ChangesOneJob` ties `JobHeap`
to `QueueManager`: each step of the array is a step of the set.
`MostUrgentServed` is what the order does guarantee.

Queue mode: `InProgressHasWork` and `Settles` are stated with the exception the
code has, a repository stranded by a full queue (the call validated it, wrote
"in progress", and its enqueue was rejected) or by a retry that fails after its
reset. `SucceededHasTarget` excepts repositories requested again during an
attempt, because the second request may delete what the first has imported and
not yet reported. `CallsReturn` and `Settles` except the retry that blocks
everything, which `RetryReturns` exhibits: what they say of the two mutexes is
that calls, validations and handlers, which all take `qmi.mu` first, do not block
each other.

Direct mode: `AtMostOneAtWork` and `SucceededStays` look at the gap in which a
failure is visible and not yet written for the second time. A retry that comes in
that gap has its fresh status turned to failed while its goroutine runs, so that a
third request is let in beside it. `late` counts these second writes: there is
one attempt at work, and at most one more for each of them; without one, a success
stays. `InProgressHasAttempt` says what a crash leaves behind: repositories
that were in progress when the status was loaded, and those only.
`RecordedFailuresKept` says that a stored failure is in the archive before its
row tells of a later attempt, in whatever order the saves arrive, unless archiving
or loading failed. `EmptyTargetOnlyFromStorage` says where a retry can lose its
target organisation: only after a load. `SuccessAnnounced` says that, although
each webhook reads the status late and keeps its copy while it tries to deliver
it, once all of a repository have ended one that told of its success was
delivered or had given up. That it arrived is not promised: after the fourth try
the error is only logged.

Scheduler: `EveryScheduleAccounted` counts every schedule as waiting, replaced,
started or lost with the process, where a call that fails or skips the repository
counts as started; `StopReachesCalls` that `Stop` cancels every scheduled call
that is about to be made or has not returned, unless its repository has had two
goroutines at a time (section 4);
`StartsWhenPossible` that a schedule with a possible hour does not wait for ever.

One attempt: `SuccessIsReal` relates the report to the import of this attempt and
to the archive it was given, with the exception of a download that broke off:
`io.ReadFull` reports that as the end of the data, and the import then gets what
had come. `FailureIsFinal` lists every case in which the code reports a failure
while its import may still succeed: an unanswered start, a cancelled context and
a failed poll. `DeletedOnlyWhenAsked` covers three looks at a target that others
change, and deletions that come late. `StartedOnce` and `AtMostOneAfterEnd` say
what the retries inside an abandoned call can still do. `ShownForward` is about
what users see; its second half holds only from the creation of the import on
(section 4). `AttemptEnds` holds with every failure and with the cancellation of
the context, because every wait looks at it.

Breaker: `CountersInBounds` relates counters to states over late verdicts,
`StaysOpen` says late verdicts never open or close an open breaker, `Recovers`
that nothing but time and traffic is needed to close it.

### Fairness

`QueueManager`: the Go scheduler runs every worker and handlers return, so each
worker's step is weakly fair; a `select` with several ready cases chooses at
random, so taking the shutdown case is strongly fair. `QueuedMigrations`: each
call and each handler that can go on does, Go's mutexes do not starve, workers
take waiting jobs (`NoStarvation`), and GitHub ends every export and import, the
only assumption about the outside. There is no fairness on new requests.
`CircuitBreaker`: calls return (`RequestTimeout`, or the HTTP client's own),
time passes, and the service keeps calling GitHub; `Recover` and `Reset` need
not happen. `MigrationServer`: scheduled times come, and the ticker checks at
every hour of every day; nothing else is fair there, attempts may hang.
`MigrationAttempt`: the attempt's goroutine runs and its calls end (the breaker's
limit, and the HTTP client's own for those without one), and GitHub moves every
export and import to an end. Strays, cancellation and other people are not fair.

## 4. Findings

- `heap_urgent`: the scan of the heap's array takes a job while a more urgent or
  older one of its kind waits (`queue.go:356-363`).
- `queued_retry`: `RetryMigration` in queue mode locks `m.mu` twice
  (`migrator.go:520`, then `migrator/queue.go:208`) and blocks the whole service.
- `queued_archives`: the archive the first phase exports is not used; the second
  phase exports another one, outside the limit (`repository.go:260`).
- `circuit_probe`: a probe that times out goes on uncounted, and the next one is
  admitted beside it (`circuit.go:271-289`).
- `lifecycle_stored`: every status update is saved by a goroutine of its own and
  the upsert does not compare times (`migrator/status.go:248`), so the database
  can keep "in progress" of a migration that has ended, without any fault.

Seen while modelling, without a run of their own:

- Queue: `docs/queue.md` says jobs are rejected during shutdown, and no enqueue
  looks at `shutdown`; `MaxConcurrentRequests` does not count functions that
  outlived their time-out.
- Restart: `docs/storage.md:71` says interrupted migrations are marked as failed;
  the load leaves them in progress, and neither a start nor a retry takes them.
  `DeleteIfExists` is not saved, so the retry that "preserves" it does not.
- Scheduler: the comments speak of "cancel functions for migrations in progress"
  and of cancelling "any in-progress migrations" (`scheduler.go:25`, `:60`). A
  function is deleted as soon as `StartMigration` has returned, which in direct
  mode is at once: the migration goes on without one, and `Stop` cancels only the
  few calls that have not returned. If a repository is scheduled again and
  started before the first goroutine has ended, the two share one name: the first
  deletes the function of the second, and its own is overwritten (`crowded`).
- Webhooks: a success of which no webhook could be delivered in four tries is told
  to nobody (`webhook.go:150-155`).
- Progress: the first message of an attempt ("initiated") is parsed to the stage
  "migration", which then never falls back, so that earlier stages count as
  completed although they have not run; the percentage falls from 80 to 70 and to
  64 before the import starts, where `docs/api/reference.md:338-346` promises
  forward progress; the message of a target found late ("race condition
  detected") is parsed to the stage "unknown", and it stays there at 0 % until
  success.
- Polls: the interval reaches 139.7 s, ten times a quarter more than 15 s; the
  comment at `repository.go:629` says 2 minutes at most. `Slower` models it; as the
  sequence is fixed, no property is stated about it.
- Retries: the sixth try of a protected call comes after 31 s, the caller has
  left at 30 s; a repeated start of the import can fail the attempt while the
  first import succeeds; a truncated download is imported
  (`api_archive.go:318`); the error flag of `CheckCloudRepositoryExists` sticks,
  so a repository found on a second try is an error, and one it cannot look for
  is reported absent.
- Rate limits: the handling of status 429 is never reached (`retry.go:430`,
  `api_circuit.go:100`).
- Storage and dashboard: SQLite's maintenance never does its full work (a
  `select` whose `default` is always ready); the dashboard's retry writes its form
  into a copy, and its submission ignores the scheduled time.

## 5. Proofs

`QueueManager_proofs` proves for all constants satisfying the named assumptions
(finitely many repositories, positive limits and queue size, any number of starts
and jobs):

- `QueueConsistent`: `Spec => []QueueInv`. The limit on running handlers is not
  inductive by itself. It follows from counters that are below the limit and
  equal the number of running workers; that the count changes by one needs each
  worker to be in one place (`pc`) and workers to be finitely many
  (`WorkerFinite`). That the map agrees with the queue needs at most one waiting
  job per repository, and that jobs do not recur needs their instants to be at
  most `clock` (`JobsAccounted`).
- `TypeCorrect`, `MapAgreesWithQueue`, `LimitsHold` are its consequences.
- `QueueManagerImplementsJobPool`: refinement. `Enqueue` maps to `Accept`, `Take`
  to `Begin`, `Finish` to `End`, all other steps stutter. `QueueInv` supplies the
  guards: a new job is nowhere yet, and the counter is the number of running jobs
  because two workers never hold the same one.

`JobHeap_proofs` proves the heap, for any priorities, size and number of jobs:
`HeapConsistent` (the array is in heap order and its jobs are distinct) with
`TypeCorrect` and `AlwaysOrdered`, and for its steps `StepsChangeOneJob` and
`MostUrgentTaken`. The loops `up` and `down` of `container/heap` are recursive
functions that give array and place after each turn. Each has an invariant, in
order but for the job that moves, whose children fit its parent (`UpInv`,
`DownInv`); a turn keeps it (`RiseKeeps`, `SinkKeeps`), and an array is in order at
the end because each turn but a last one brings the job nearer to an end of the
array. `heap.Remove` needs both: when `down` has not moved the job, what holds is
what `up` needs. Two things are not taken from a library. That the functions
exist is `Iterated`, and that what holds after each turn holds after all is
`Turns`; both take the first turn after which it would not (`LeastNumber`, from the
well-foundedness of the natural numbers).

`CircuitBreaker_proofs` proves, for any finite set of calls, positive thresholds
and any limit, `BreakerConsistent` (`TypeOK`, `ActiveCallsAgree` and
`CountersInBounds` together are inductive: a step that would carry a counter to
its threshold changes the state, and the changes reset the counters; activeCalls
stays a natural number because it counts the calls that are not idle), the three
as theorems of their own, and the action property `OpenUntilExpired`.

`QueuedMigrations_proofs` proves, for any repositories, calls, requests and
limits, `WorkIsHandedOn`: `Spec => []MigrationsInv`, with `TypeOK`,
`InProgressHasWork` and `SucceededHasTarget` as theorems of their own. Neither
property is inductive as it stands:

- An archive job that has enqueued the second phase still runs until its handler
  returns, and a job whose handler has failed does, too. `HasJob` counts them;
  what keeps a repository's status justified are the jobs with something left to
  do (`ActiveJobs`, `ProgressHasWork`).
- A success is only real if no other job or call clears the target between the
  import and the report. `AttemptAlone` says so of every repository that was not
  requested again: it has one active job at most, none while a call validates or
  enqueues it, and exists from the moment its import has ended.
- A call that drops its repository must not be the only one working on it. For a
  retry this rests on `CallsBusy`: a call that holds `m.mu` has its repository
  still before it, and never validates it, because validation takes that mutex.
  The proof thus passes through the self-deadlock the run `queued_retry` shows.

`MigrationAttempt_proofs` proves, for any number of retries, intervals, time
limit, chunks, lost answers and changes by others, `AttemptConsistent`:
`Spec => []AttemptInv`. The properties need what the attempt's order of calls
implies, and what a stray may do after it:

- `Rounds`, `ExportsCounted` and `ImportsCounted` say what cannot have been
  started when a call is under way; `StartedOnce` follows, and a deletion always
  comes before an import.
- `UnderWay`, `StrayKnown` and `DeletionAsked`: a stray exists only once the
  attempt is over, it comes from a call that `lostAt` names, and what it deletes
  was asked for and not imported. `LastRequest` adds that a stray of an ended
  attempt, whose context is done, has one request out at most:
  `AtMostOneAfterEnd`.
- `ArchiveReady` and `Monitored` carry the state of the archive from the export
  over the upload into the import that is polled.
- `Outcome` ties what is shown to where the attempt is: one under way is in
  progress and shows at most 99 percent, in the stage "migration" (or "unknown"
  without any, after the message of a target found late), because the first
  message already reaches the last stage and no message of a step takes it back.
  With the two before it, it gives `SuccessReported`: `SuccessIsReal` with the
  progress that is shown.
- `FailureReported` and the action property `DeletionAskedFor` are
  consequences.
- `NeverFallsBack` is `ShownForward`. It needs `ProgressInv`: the state that is
  shown is not ahead of the import (`Reached`), and the import only moves on.
- `TypesCorrect` needs `UploadInv`: while a chunk is sent there is one left.

One lemma per action proves that it keeps `AttemptInv`; those that only lead from
a call to the next share `AdvanceInv`, those that end the attempt `EndInv`, those
of the outside `OutsideInv`. One lemma per message says what it shows.

The server in direct mode, over crashes and restarts, has one proof in three
modules, for any repositories, organisations, hours and terms, any number of
attempts, schedules and faults, and each of the three databases. The parts prove
what their steps keep; `MigrationServer_proofs` shows that every step of the server
is a step of the migrator (`StepOfMigrator`), of the scheduler (`StepOfScheduler`),
or of both, so that the two invariants hold side by side. All that the migrator's
needs of the scheduler is that its goroutines name an organisation. The theorems
are those of the server: its type invariant, its five other invariants and its three
action properties (`StepsKeepSuccess`, `StepsKeepFailures`, `StopCancelsCalls`).

`MigratorInv` of `DirectMigrations_proofs` adds to the invariants of the runs:

- `WorkCounted`: of a repository in progress at most 1 + `late` attempts are at
  work; of any other at most `late`, and so while the latest attempt has still to
  write its failure again. `AttemptsCounted` adds that they are finitely many. A
  request begins one only where the count leaves room, and a late report
  makes room when it marks as failed what is in progress. `AtMostOneAtWork` and
  `SucceededStays` follow.
- `SuccessNoticed`: of a success of this process a webhook has told or failed to
  tell, or there is one that has yet to copy the status or has copied the success.
  `SuccessAnnounced` follows.
- `FailuresFiled`, `AsLoaded` and `KnownInTime` speak of everything known of a
  repository: its entry, its row, and the copies on their way to it in any order.
  A failure older than the last attempt was archived when a later attempt reset
  it, and an entry that nothing has touched since it was loaded tells what its row
  tells. `RecordedFailuresKept` follows.
- `EmptyTargetLoaded`: an entry without a target organisation is of a repository
  that was loaded once.

`SchedulerInv` of `Scheduler_proofs`: the sum of `EveryScheduleAccounted` is not
inductive. It follows from numbers that are given once, so that waiting, calling,
started and dropped schedules are disjoint sets (`NumbersApart`). `StopReachesCalls`
follows from `FuncsKept`: the cancel function of a repository is that of its
goroutine, if it has had only one at a time.

Checked only: liveness (`NoStarvation`, `StopTerminates`, `Settles`,
`CallsReturn`, `Recovers`, `StartsWhenPossible`, `AttemptEnds`), which the prover
does not handle. Every invariant and action property of a passing run, and the
refinement of `JobPool`, is a theorem.

## 6. Not modelled, and what is left

Not modelled:

- Rate-limit handling: its decision reaches nobody (section 4).
- The HTTP rate limiter: it decides which request is answered 429, which is a
  handler that is not called; its unlocked map can abort the process, which is
  the crash of `MigrationServer`.
- Schema migrations and database health: they run alone, at start-up or by
  command, and each step is an SQL statement whose meaning is the database's.
- SQL text, vacuum and repair; the texts and categories of errors; request
  parsing, authentication, routing and pages; configuration, logging, metrics and
  tracing. They keep no state a migration depends on.
- Queue mode over crashes and restarts: `QueuedMigrations` has no storage. What a
  restart finds does not depend on the mode; queued jobs are lost with the
  process.

Left to do: the refinement that `MigrationServer` relies on, that an attempt of
`MigrationAttempt` writes the statuses of an attempt in `DirectMigrations`, is
stated in words only; and the heap and the queue manager meet in words, too
(`ChangesOneJob` is what `QueueManager` assumes of the array).
