# JustScan: formal models and proofs

JustScan accepts container images (from registries, uploads, Helm charts and
Git repositories), scans them with Trivy, Grype or Artifactory Xray, evaluates
organization policies and tells people and pipelines the result. The backend
(`services/backend`, Go) may run as several processes; they share one
PostgreSQL database and nothing else: no lock service, no message broker. What
can go wrong there is in the order of SQL statements of different goroutines
and processes, in what a process forgets when it dies, and in values read by
one statement and used by a later one. The frontend (`services/frontend`,
TypeScript and React) is the larger part of the code. Its pages poll, debounce,
abort and overlap their requests, keep copies of server state in closures and
in `localStorage`, and apply answers in the order they arrive. Those are the
behaviours the modules here model; parsing, rendering, HTTP and SQL syntax are
not.

## 1. Inventory

### Backend

| Component (source) | State | Operations | What is hard | What makes it correct |
|---|---|---|---|---|
| Background job queue (`backgroundjobs/jobs.go`) | rows of `background_jobs` | enqueue with a dedupe key, claim with `SKIP LOCKED`, progress, heartbeat, retry, final update | two enqueuers, lost commit answers, expired leases, dying processes | one active job per key, one owner, final verdicts, nothing lost |
| Scan worker, dispatch, recovery (`scanner/worker.go`, `dispatch.go`, `progress.go`, `handlers/scans/cancel.go`) | rows of `scans`; per process a bounded queue, reservations, cancel functions; uploaded archives on disk | dispatch, recover, claim, run, finish, cancel, watch | several processes queue the same row; cancellation between claim and registration; full queue; crash | one runner, one verdict, told once, every scan ends |
| Step log (`scanner/steps.go`) | `scan_step_logs`, `scans.current_step` | close the last entry, move the row, append the next | two writers of one scan, no unique position | the timeline shows one running step, none after the end |
| Compliance evaluation and verdict (`compliance/evaluate.go`, `pipelines/pipeline_scans.go`) | `compliance_results`, `org_policies` | evaluate a scan, create or delete a policy, compute the verdict | evaluations overlap and are not transactional | a pass is deserved, a verdict arrives |
| Pipeline callback (`pipelines/pipeline_scans.go`) | `pipeline_scan_requests` | queue, poll, lease, post, retry | two processes, expired leases, lost answers | one delivery at a time, settled is final, every end is announced |
| Process Center mirror (`scanner/background_jobs.go`) | passive rows of `background_jobs` | create, reconcile, delete with the scan | stale reads, one error ends a pass | an ended entry is right, none is starved |
| Scan group deletion (`handlers/scans/groups.go`, `get.go`) | a job's list of scans | list a group, delete it in batches, delete one | restarts between batches, a second request | what was accepted is deleted, nothing else, none skipped |
| Notification outbox (`notifications/queue.go`) | events, queue jobs, digests | publish, match, digest, lease, deliver, retry | two matchers and senders, lost leases | each match sent once, delivered or given up |
| Watchlist scheduler (`scheduler/scheduler.go`, `handlers/watchlist`) | cron entries per process, watchlist rows | load, reschedule, remove, fire | nobody tells the other processes; the mutex covers two of three steps | one scan per window, none of an item that is off |
| Xray (`scanner/xray.go`, `xray_workers.go`) | permits of two pools | prepare, wait, import | permits across long waits, every way out | capacity is respected and returned, imports are not starved |
| Git repository runs (`functions/gitrepositories`, `handlers/gitrepositories`) | rows of runs and their scans, a queue in memory | create, discover, dispatch, cancel, reconcile | restarts, cancellation in the middle of dispatch, dry runs | a completed run is done, a cancellation reaches the scans, a dry run scans nothing |
| Archive uploads (`handlers/scans/archive_uploads.go`) | upload sessions, files | chunks, complete, expire | completion against clean-up | an accepted archive stays |
| CVE sync, MCP, AI providers, Helm, registries, organizations, authentication, suppressions, status pages, CLI | rows of their own | CRUD and I/O | little or nothing interleaves | see PROJECT.json |

### Frontend

| Component (source) | State | Operations | What is hard | What makes it correct |
|---|---|---|---|---|
| Scan page: status and policies (`app/(app)/scans/[id]/page.tsx`) | the scan, compliance results, an interval | poll, settle after the end, cancel, assign, remove, re-evaluate | superseded and aborted loads, optimistic updates | the end and the results come to be shown, and do not go back |
| Scan page: findings | view settings, filters, page, rows | load, page on the server or in the browser, save the view, suppress, comment | stale closures, debounced inputs, a scan object replaced under the effect | the table is that of the controls and of the user's own changes |
| Scan page: compliance details | a loader and three flags | load, cancel, retry | a replaced scan cancels the loader | the flags agree with the loader |
| Process Center drawer (`components/background-process-center.tsx`) | jobs, recorded statuses, a live request | poll, merge, dismiss, switch workspace; the scan list waits for a deletion | a poll answered before and applied after a click | an end is announced once it is one, polling never stops |
| Assistant (`components/assistant/assistant-experience.tsx`) | conversations, the message on its way | send, open, create, delete, change scope | four requests of a send beside other handlers | no message is lost or stored elsewhere |
| Public scans (`lib/publicScanHistory.ts`, `app/public/scan`) | `localStorage`, a list, rounds of requests | scan, poll, list, clear, expire | rounds overlap, answers outlive the page | what was cleared stays cleared, an end is real |
| Repository page (`app/(app)/git-repositories/[id]/page.tsx`) | the list of runs | poll, scan, dry run, cancel | older polls arrive after newer ones | the page settles |
| New scan form (`app/(app)/scans/new/page.tsx`) | source, registry, repository | load, choose, submit | lists arrive after choices | the choices fit each other, a manual one is kept |
| Notification manager (`components/notifications/notification-manager.tsx`) | a paged history, suggestions | load, load more, look up | pages shift under new deliveries | the history has no gap |
| Printed report (`app/reports/print/page.tsx`) | one pass over all findings | filter, group, choose the representative | ties, several scans, any order | complete, worst occurrence, nothing lost |
| Dashboard, administration, status pages, image history, Helm, settings, documentation | | load once, save once | little | see PROJECT.json |

How they interact: a request inserts a scan row (and, for a pipeline, a
callback request), creates the mirror, and puts the scan on the queue of its
own process. A worker of any process claims the row; Xray scans wait for a
coordinator and its permits. Whoever ends the scan (worker, watchdog,
dispatcher, restart recovery, user) writes the row with one conditional update
and then, in separate steps, does what it has to do: the worker starts the
compliance evaluation, notifies, and queues the callback; the watchdog and
`setFailed` notify and queue the callback; the others do less or nothing. The
callback poller reads the verdict from the evaluation's rows, the notification
workers read the event from their outbox. The background job queue runs
everything else that must survive a restart. Watchlist firings, repository
runs and people create scans. The pages learn of all this by polling only.
PROJECT.json lists the hazards by line.

## 2. Modules

| Module | Models | Composition |
|---|---|---|
| `JobContract` | what the queue promises: a job is accepted, owned, taken over, ended once | abstract |
| `JobQueue` | `backgroundjobs/jobs.go`: Enqueue calls, worker pools, claims, leases, retries | refines `JobContract` (`ImplementsContract`) |
| `JobQueueProofs` | theorems about `JobQueue` | EXTENDS `JobQueue` |
| `ScanContract` | what the scanner promises: a scan is accepted, run once, ended once, told once | abstract |
| `ScanLifecycle` | dispatch, queue, recovery, workers, cancellation, watchdog, archives | refines `ScanContract` (`ImplementsScanContract`) |
| `ScanLifecycleProofs` | theorems about `ScanLifecycle` | EXTENDS `ScanLifecycle` |
| `PolicyVerdict` | evaluations, policies, `ComputeVerdict` | |
| `PipelineCallback` | callback delivery on top of the verdict | EXTENDS `PolicyVerdict`, interleaves its steps |
| `PipelineCallbackProofs` | theorems about `PolicyVerdict` and `PipelineCallback` | EXTENDS `PipelineCallback` |
| `ScanMirror` | Process Center entries and their reconcilers | |
| `ScanMirrorProofs` | theorems about `ScanMirror` | EXTENDS `ScanMirror` |
| `NotificationOutbox` | events, digests, queue jobs, matchers, schedulers, senders | |
| `NotificationOutboxProofs` | theorem about `NotificationOutbox` | EXTENDS `NotificationOutbox` |
| `ScanGroupDeletion` | group deletion on a queue reduced to what it sees of it | |
| `WatchlistScheduler` | cron entries of each process, requests, firings under the advisory lock | |
| `XrayPermits` | coordinators and the two pools of permits | |
| `StepTimeline` | the step log, its writers, and the timeline the page draws of it | |
| `ServiceProofs` | theorems about the four services above | EXTENDS `XrayPermits`, `StepTimeline`, `ScanGroupDeletion`, `WatchlistScheduler`; INSTANCE `JobContract` |
| `RepositoryRuns` | runs of a Git repository, worker, reconciliation, cancellation, restarts, failing statements | |
| `RepositoryRunsProofs` | theorems about `RepositoryRuns` | EXTENDS `RepositoryRuns` |
| `BrowserTab` | the route of the tab | extended by every page |
| `ScanPage`, `FindingsList`, `ComplianceTab` | the three asynchronous parts of the scan page | |
| `ProcessCenter`, `AssistantChat`, `PublicScans`, `RepositoryPage`, `NewScanForm`, `DeliveryHistory` | the page or component of that name, with the part of the server it talks to | |
| `ReportFindings` | `buildReportFindings` of the printed report, one vulnerability per step | |
| `FrontendPages` | the pages in one tab: one of them is mounted | EXTENDS all page modules, `ReportFindings` |
| `PageProofs` | theorems about the pages and the tab that composes them | EXTENDS `FrontendPages` |
| `MCJobQueue`, `MCScanLifecycle`, `MCPipelineCallback` | values and functions for TLC | one per specification |
| `MCServices` | `ScanMirror`, `NotificationOutbox`, `ScanGroupDeletion`, `WatchlistScheduler`, `XrayPermits`, `StepTimeline` | one service per behaviour |
| `MCPages` | `FrontendPages` and, as a route of its own, `RepositoryRuns` for TLC | one route per behaviour |

`MCServices`, `FrontendPages` and `MCPages` put modules side by side that share no state: a
behaviour picks one and the others stay as they start. They are one run each
because the parts are small, and nothing is lost by it, since the modules of
two services or of two routes never act on the same row: a page that is not
mounted has no timers and its late answers set no state (where they do write
to something that outlives the page, `localStorage`, the module keeps them
after the page has been left).

### Correspondence with the code

*Atomicity.* One action is one SQL statement or transaction, one operation on
an in-process structure guarded by its own lock, or a stretch of code that
touches nothing shared. A statement that fails, a commit whose answer is lost
and a process that dies are actions of their own (`Fault`, `Disturbance`),
bounded by a constant. After a failed statement the model does what the error
path of the code does.

*Pages.* JavaScript runs a handler to its next `await`. So one action is the
code from an event (click, timer, answer) to the next `await`. A request is
three actions: sent with the arguments of its closure, answered with what the
server knows at that moment, applied by the continuation; another click, tick
or answer may come between any two. An effect whose dependencies have changed
is due (a flag) and runs, after the clean-up of its last run, as a step of its
own; what a handler captured in an earlier render is part of its request
(`by`, `view`), which is how stale closures come in. A failed request is an
answer of its own.

*Time.* Leases, back-offs and stale windows are Booleans: a lease is expired
or not, a callback is due or not, a scan is fresh or not. Time passing for
something nobody works on is free; a lease that runs out under a live owner
(a paused process, a database outage) is a fault or a pause of the budget,
because heartbeats and timeouts make it abnormal. `PublicScans` compares times
and has a small clock.

*Job queue.* A row is a record (status, owner, lease, retries); a worker is a
program counter with the job and the retry count it read at claim time. `claim`
is two actions, selection under a row lock and commit, because the code
assigns its result inside the transaction and uses it even when the commit
fails. `process` ends in `MarkSucceeded`, `RequeueTransient` or `MarkFailed`,
whose WHERE clauses are `Guarded`.

*Scan life cycle.* `EnqueueScanContext` is `Reserve`, `SetQueued`, `Send` (the
reservation, the step, the non-blocking send); it is called by requests and by
recovery, which is `RecoverySelect` and one `RecoveryNext` per row.
`processScan` is `Take`, `Claim` or `Skip`, `Register`, `Confirm`, `Prepare`,
`Finalize`, `Complete` or `SetFailed`, `Finish`. `CancelScan` is read, signal,
persist in the order of the handler. `created_at` is the number `created`,
because recovery takes the oldest rows first (`Oldest`). `updateScanCurrentStep`
has branches for terminal steps (`MovableFrom`): by them a running row might
show a failed step, which the comment at `steps.go:170` expects of Xray policy
blocks. No caller asks it for a terminal step, so `RowIsConsistent` denies it.
Whoever ends a scan may lose the callback on the way (`Announce`): queueing it
is a statement after the notification, and an error of it is logged.

*Step log.* `setScanStepByID` is `ReadLatest`, `MoveAgain` (the same step
again), `CloseLatest`, `MoveCurrentStep`, `InsertEntry`;
`appendTerminalScanStepLog` is `ReadBeforeEnd`, `CloseLatest`, `InsertEntry`.
Entries of one position come in any order from the query and are drawn in the
order of the answer.

*Verdict.* A result remembers which evaluation wrote it, so that the table can
hold two results of one policy as the real one can. `Failing` is the set of
policies the completed evidence violates; an evaluation that saw no evidence
finds no violation. The count of policies and the query of the results are one
state function in `Verdict` (the status endpoint) and two actions in
`PipelineCallback`.

*Callback.* `last_attempt_at` is used by the code as the token of a claim; it
is modelled by `holder`, the process whose claim time it still is.

*Mirror.* `updated_at` is the sequence `order`.

*Outbox.* The key of a queue job is its `idempotency_key`. A claimed job is
leased, and the worker selects pending and failed rows only, so the model has
no step that takes a leased job over: the code has none.

*Group deletion.* `remaining` exists twice, in the row and in the memory of
the worker, as in the code: `requeueTransient` writes the one in memory.

*Scheduler.* `scheduleItem` is `RemoveEntry`, `AddEntry`, `StoreEntry`, since
only the first and the last hold the mutex. A request works with the copy of
the row it has read. A scan a user asks for takes no lock and moves
`last_scanned_at` (`TriggerScan`). The early return for an unreadable schedule
is left out: the handlers store none they cannot parse.

*Xray.* A permit is a pool and a flag; `Acquire` sends to a buffered channel
and may wait, `Release` receives from it.

*Repository runs.* A run's scans are a function from images and lives of the
process to their statuses. `processRun` looks at the run's status where the code
does (`SeenCancelled`, `SeenActive`), and its own writes of the status are
unconditional as in the code. Each statement may fail, and each error does what
its path does, which is mostly nothing: a run that cannot be read passes for one
that goes on (`runCancelled`), the cancellation of a new scan, `failRun` and the
update to scanning drop their errors, a commit may succeed and be answered with
an error, a refused dispatch is settled by two more statements that may fail,
and a run that cannot be taken is dropped. A cancellation that fails after the
row was written cannot be repeated (`CancelFails`), because the row is no longer
active. A dry run whose last transaction fails, or whose request is aborted,
stays discovering. `overlooked` remembers the scans whose own statement failed.

Each specification also contains mutants, operators named after what they
break (`ClaimUnlocked`, `SupersededShown`, ...). They are never used by the
specification; each shows that one property fails when the definition it
precedes is replaced by it (PROJECT.json, "mutants").

## 3. Runs

The runs marked with an asterisk end in a violation: the property states what
a comment or a document of the repository says and the code does not do.

| Run | Question | Instance |
|---|---|---|
| `job_queue_race` | Is the queue right under two enqueuers with one key and two processes that crash, stop and lose leases and answers? Does it keep `JobContract`? | 1,003,684 states |
| `job_queue_live` | Does every job end? | fair, 80,865 states |
| `scan_race` | Rows consistent, one runner, one announcement, one verdict for a scan that two processes queue, cancel, watch and recover? Does the scanner keep `ScanContract`? | 2 processes, 1 fault, 1,586,600 states up to the exchange of the processes |
| `scan_live` | Are reservations exact when the queue is full, does an archive outlive its reader, and does every accepted scan end? | fair, 2 scans (one of an archive, one that recovery cannot resolve), 2 workers, capacity 1, 1 fault, 577,647 states |
| `scan_cancel_fails`* | Does a cancelled scan never become failed? | 1 worker, no fault |
| `verdict_race` | Are a fail and a pass deserved, where the verdict is computed and where a delivery posts it, whatever evaluations overlap and policies go; does a completed scan get a verdict? | fair, 2 evaluations, 2 policies, 1 process, 1 fault, 261,640 states |
| `callback_race` | Is delivery exclusive, final, truthful, and does it settle? | fair, 2 processes, 1 policy that arrives late and may go, 1 fault, 1 pause, 594,761 states |
| `callback_failed`* | Is the end of a failed scan announced? | 1 policy |
| `services` | The services around the workers, one at a time: see the next table | fair, 146,254 states |
| `pages` | The pages, one at a time: do screen, storage and server agree as each page promises? And the service of repository runs: is a completed run done, and does an answered cancellation reach the scans? | 1,768,396 states; of the service: 1 run, 1 dry run, 1 image, 1 restart or failed statement |
| `pages_live` | Does each page that polls or waits come to show the end, and does a queued run end but for the named cases? | fair, 95,164 states; of the service: 1 run, 1 image, 1 restart and 1 failed statement |
| `dry_run_scans`* | Does a dry run queue no scan? | 1 dry run, 1 image, 1 restart |

| Part of `services` | Property | Instance |
|---|---|---|
| mirror | `EntriesMatchScans`: an entry that ended is right, and none is left of a deleted scan but one created after it; `MirrorEnds`: the entry of an ended scan ends, unless such an entry is in the way | 2 reconcilers, 2 scans, one entry per pass, 1 fault |
| outbox | `OutboxIsSound`: a channel gets a message once unless somebody asked again, and a matched event has its jobs; `JobsSettle`: a job is delivered or given up, unless its process died with it | 2 processes, 1 event, an immediate rule or a digest, 2 attempts, 1 disturbance |
| deletion | `DeletionIsExact`: no accepted scan is skipped by a retry or another worker, nothing else is deleted, progress is made when it is reported | 2 scans (one that is created late), 2 requests, 2 workers, batches of 1, 1 retry, 1 fault |
| watchlist | `WatchIsSound`: one scan per window, none by a firing that began after the item was off; one entry in a process where no two schedulings met | 1 process, 1 request of any kind, 2 firings, 1 restart |
| xray | `PermitsAreSound`: tokens are the permits held, none while polling; `ImportsGetCapacity` | 2 coordinators, 2 scans, capacity 1 |
| steps | `TimelineIsTrue`: one step shown as running, none after the end, the current step logged | worker, requeuer, user, watchdog, 2 steps, 1 fault |

| Route of `pages`, `pages_live` | Property |
|---|---|
| scan | `ResultsDoNotGoBack`; `PageCatchesUp` (the end and the results of policies come to be shown) |
| findings | `TableIsRight` (the table is that of the controls, and has the user's own changes); `TableIsFilled` |
| process center | `ClearedWhenEnded`; `ActiveRowEnds`; `OneLiveRequest` in `PagesTypeOK` |
| assistant | `MessagesAreKept` (nothing sent is lost, nothing is stored in another conversation) |
| public | `HistoryIsHonest` (what is cleared stays cleared, an end is one); `EndIsListed` |
| new scan | `ChoicesFit` |
| notifications | `HistoryIsWhole` |
| report | `ReportIsRight` |
| repository | `RunsSettle`, its part `PageSettles` (an ended run is not shown as active for good, so the page polls only for runs that are active) |
| repository runs | `RunsAreHonest` (completed is done, a cancellation reaches the scans); `RunsSettle`, its part `RunEnds` (a queued run ends, but for the named cases) |
| all | `PagesTypeOK` |

*Bounds and why they are enough.* Two processes with a worker each are the
smallest system with every race between processes; two workers of one process
add the races on its queue, its reservations and its files. A property about
one row needs one row; a second and a third row are there where rows compete
(queue capacity 1, one entry per pass, the order of recovery, batches of one
scan, one permit). Faults are bounded by 1 to 3: each known failure needs one,
and a second one hits its handling. Two attempts stand for five, as the code
only compares with the limit. On the pages, two requests of a kind can overlap
in every order; a third adds no new order between two. `MaxTicks = 3` stands
for 10 ticks of the settling wait (the code compares with 2 and 10);
`JobLimit = 2` is never exceeded by the two jobs there are, so what falls out
of a long list is not part of the run. Histories are bounded by 1 entry and 2
scans, so that the limit is reached. `Vulnerabilities` of the report are six
with every kind of tie. Each bound is a constant of its module (`MaxEdits`,
`MaxChoices`, `MaxLosses`, ...). The state spaces are exhausted. The runs do
not check for deadlock: a system whose scans are over may stop.

*Fairness.* In the backend a goroutine that has started goes on (weak fairness
of its steps), tickers tick, timers pass, providers end their work (each is
run with a timeout), dead processes are restarted, and when a scan or a job
has no live owner its lease or its heartbeat gets old. The loops of the outbox
and the mirror tick. A sender that waits at a Go channel is served in turn,
hence strong fairness of `AcquireImport`; an import ends, but a download and
the provider may hang for ever, which is the point of `ImportsGetCapacity`. In
`ScanMirror` scans may run for ever: the reconciler must not depend on them. In
`RepositoryRuns` the worker and the loop go on, scans end and a dry run's request
ends; statements fail at any time. `RepositoryPage` assumes only that the page
polls and answers arrive: the runs it shows need not end.
On the pages timers tick, due effects run and requests are answered or fail;
failures are bounded (`MaxLosses`, `MaxFaults`), for a page whose every request
fails shows nothing. Nothing is assumed of users, of requests that have not
arrived, of heartbeats, and faults are not fair.

## 4. Findings

PROJECT.json quotes the text and the line for each of the three violations:

- `scan_cancel_fails`: `CancelScan` signals the worker before it writes the
  row, so a cancellation may end as a failure and be answered with a conflict.
- `callback_failed`: a failed scan is not evaluated, so for an organization
  with policies its verdict and its callback stay pending for ever.
- `dry_run_scans`: a restart in the middle of a dry run puts it on the queue of
  scanning runs, and its images are scanned.

Properties that some document suggests and the models show not to hold are
kept beside the others, marked "Does not hold". No run checks them:

- `ScanMirror!DeletedWithScan` (`troubleshooting.mdx:18`, "its linked Process
  Center entry is deleted with it"): a scan deleted while its request is still
  dispatching it gets its entry afterwards, and nothing deletes that entry.
- `ComplianceTab!DetailsLoad`: a scan object that is replaced while the details
  load leaves the loading flag up, and no later effect loads them.
- `ProcessCenter!DeletionIsNoticed`: a poll sent before the deletion was queued
  replaces the recorded statuses; the end is then no change, and the scan list
  waits for ever.
- `NotificationOutbox!DigestTellsAll`: an event matched after its window, or
  appended at the same time as another, is missing from the digest.
- `ScanGroupDeletion!AnswerCoversRequest`: a request is answered with an active
  job whose list is older.
- `WatchlistScheduler!EntriesFollowItem`: two schedulings that meet leave an
  entry nobody removes; other processes keep the old schedule; an update of a
  row that was deleted schedules an entry for it.
- `StepTimeline!EndIsLast`: a worker that read the log before the end appends
  its step after, or with the position of, the terminal one.

With other constants than those of the runs, or without a condition of a
property, the models also reach:

- *Verdict.* Two evaluations that come to one policy at once leave two results
  of it, which count as those of two policies: a pass before the violated policy
  has its result. An evaluation started while the scan runs stores passes
  without evidence, which count until the worker's own has replaced them. These
  two are what `PassIsDeserved` excludes (`contested`, `seen`), and all it
  excludes: evaluations may overlap otherwise. A policy created between the
  count and the query of the results stands in for a missing one, which
  `PostedPassIsDeserved` excludes besides.
- *Callback.* Nobody queues the callback of a cancelled scan, nor of one whose
  process dies between the terminal update and the queueing.
- *Recovery.* With as many unresolvable old scans as the batch limit, newer
  pending scans are never recovered. Recovery of a row read as pending sets the
  step of a running scan back to queued. Restart recovery fails scans without
  appending a step.
- *Mirror.* Every pass of the reconcilers stops at an entry without a scan
  (`DeletedWithScan`), so the entries behind it are not reconciled any more.
  `MirrorEnds` holds while there is none (`LeftBehind`).
- *Outbox.* The job of a process that dies while sending stays leased (`Lost`).
  A match whose insertion fails is logged and the event counts as matched. A
  manual retry asks for no status: a job that is being sent or was delivered is
  sent again.
- *Group deletion.* After a failed save the reported progress is less than what
  was deleted.
- *Repository runs.* A cancelled run may be written back to scanning or
  completed. A scan of the run that is cancelled or deleted by itself leaves the
  run scanning for ever (`Stuck`), a dry run whose last transaction fails or
  whose request is aborted stays discovering, and the page polls on for both.
  One failed statement can leave the scan it was about waiting in a cancelled
  run (`overlooked`) or a run that nobody works on (`Dropped`). A cancellation
  that fails half-way is not repeatable. Two requests that check together start two runs. A
  restart dispatches the scans of a run again.
- *Scan page.* The optimistic status of a cancellation is overwritten by an
  older poll. Removing an organization and re-evaluating do not supersede a
  load under way, which brings the old results back. A failed re-evaluation
  shows no results. The settling wait ends at the first results; those of a
  second organization are missing until the page is loaded again.
- *Findings.* Loads of handlers use the closure of an earlier render; the
  answer of saving a view sets the controls back to the saved settings.
- *Process Center.* A poll answered before a dismissal brings the job back; a
  list asked for with an older workspace is merged with new rows.
- *Assistant.* Opening two conversations shows the one that answers last; a
  message whose answer is lost is put back and may be stored twice, over a
  draft typed meanwhile.
- *Public pages.* A cancelled scan is polled for ever, the first failed poll
  ends the polling of a result, and a re-scan is not in the history.
- *Repository page.* An older poll drops a run that was just started.
- *New scan form.* After a change of the workspace a registry of the one before
  may be submitted.
- *Notifications.* Overlapping loads leave gaps, and more than a page of new
  deliveries is appended behind older ones. Deliveries of a channel that somebody
  deletes vanish from the list (it is an inner join), which shifts the pages the
  other way; `HistoryIsWhole` is about a list that only grows.

Reading the code outside the modules showed four more of this kind: a failing
list of organizations resets the workspace to personal (`app-shell.tsx`), the
pages of the printed report drift while findings change, an answer of the
details dialog may belong to another vulnerability, and the refresh of a
status page is not armed again after a failure.

## 5. Proofs

`JobQueueProofs` proves for every value of the constants (any number of
workers, processes, calls, jobs, faults):

- `TypeCorrect`, `ClaimsAreExclusive`, `ActiveKeysAreUnique`,
  `AcceptedWorkIsDurable`, `OwnershipHolds`, `OwnerCountIsCurrent`: the
  invariants of `job_queue_race` and their parts;
- `FinishedStaysFinished`, `FinishedByItsOwner`, `RetriesOnlyGrow`: action
  properties that follow from the contract too;
- `QueueKeepsContract`: `JobQueue` implements `JobContract`.

The argument: the row lock is what carries the claim. A row selected by a claim
stays as selected and locked by that claim alone until it commits, aborts or
dies (`ClaimIsExclusive`), so a commit gives a row to one worker only, with the
retry count it holds. From then on every write to the row is guarded by the
owner (`Guarded`, `Owns`), so a worker whose row was taken over changes
nothing. `TypeOK` alone is not enough for that, because a worker's own record
of its job (number, retry count) must agree with the row; the strengthening
says so for owners only. The partial unique index (`Conflict`) keeps keys
unique. The refinement maps a row to accepted, owned or ended, each step to a
step of the contract or to a stutter. The only assumptions are those named in
`JobQueue` about its constants.

`ScanLifecycleProofs` proves the safety properties of `scan_race` and
`scan_live` for any number of processes, workers, scans and faults and any
capacity:

- `TypesHold`: the types, with two facts they need: a recovery pass that is
  queueing a row still has it in its batch (`PassHasRow`, so that `Oldest`
  chooses a scan; a least creation time exists because the naturals are well
  founded), and a dead process has no workers (`StoppedWorkers`).
- `EndIsFinal`, `RowsStayConsistent`: each step moves each row along its life
  only (`RowMoves`), and writes status and step together.
- `OneRunHolds`: `OneRunner` is not inductive, since two processes may hold the
  same pending scan. What keeps them apart is `RunnersClaimed`: a scan with a
  runner is not pending, so the conditional update of a second claim does not
  match. Announcements rest on `TellersOwe` (a worker in `finishing` and a
  watchdog between its two steps hold a scan that has ended and was not
  announced) and `OneTeller` (only one of them holds it). Together: `LifeInv`.
- `ArchivesAreKept`: `ArchiveInv` adds that a pending upload has its archive.
- `QueueHolds`: a reservation is that of one entry or of one call, never of
  both (`ReservedInv`). It needs that a call stays a call for one scan in one
  process (`CallsPlaced`), although recovery computes its scan anew from a
  batch whose rows others create around it.
- `ScannerKeepsContract`: `ScanLifecycle` implements `ScanContract`, where a
  scan's runners are the workers between their claim and their last statement.

*Xray permits* (`ServiceProofs`). `PermitsStaySound`: the tokens in a pool are the
permits the coordinators hold, nobody holds one while it polls the provider,
and no pool gives more than its capacity. The invariant relates a counter to
the cardinality of a set, so the number of coordinators is assumed finite; a
send to the channel is only possible below its capacity (`TokensBounded`), and
the fit of permits and steps (`PermitsFitSteps`) makes every way out of
`processXrayScan` give back exactly what it holds.

`PipelineCallbackProofs` proves `FailsAreDeserved` and `PassesDeserved` for any
evaluations and policies. A fail rests on the truth of every row
(`RowsAreTrue`). A pass needs more, because `ComputeVerdict` compares two
numbers: as many rows as policies are a row for each only when no policy has
two. `OneRow` says when that is so, however evaluations overlap: a policy that
was never `contested` has at most one row, and none while the one evaluation
that has come to it is between its delete and its insert (`CurrentInLoop`).
`contested` is set where two evaluations are at one policy at once, or where a
delete has failed and the insert follows; the property speaks of the other
policies, and of rows whose evaluations had seen the evidence. A cardinality
argument then gives each existing policy its row (`EnoughRows`).

The callback builds on that. `CallbackIsFinal` follows from the
conditions of the updates alone. `DeliveriesAreSound` needs that, until a
delivery outlives its lease, a process that delivers is the one the row names
and the row is not due (`LeaseHolds`). `PostedPassesAreDeserved` is about a
delivery that counts the policies and reads the results after some were
deleted, while any number of evaluations go on. The property is about scans no
policy arrived for since they started, and then what was counted is at least
what exists (`CountsEnough`), so a pass that is read is deserved and stays so
(`PassesAre`, `PoliciesOnlyGo`). Because a posted pass cannot be recalled, the
property excludes a contested policy or a blind evaluation at any time
(`EvaluationsAreSound`), not only among the rows that are left.

`ScanMirrorProofs` proves `EntriesAgree`, with deletions at any time. A scan
deleted before its request has created the entry (`early`) leaves one that no
reconciler touches (`LeftAlone`); all others go together with their scan
(`GoneTogether`). The invariant says what a
reconciler's stale reading may still be used for: a scan read as ended has
ended that way, or its entry is gone (`ReadIsTheEnd`), and what is in a batch
has its entry or had it (`BatchHasEntries`); the conditional write does the
rest.

`NotificationOutboxProofs` proves `OutboxStaysSound` for any number of
processes, events, rules, failures and retries. `SentOnce` is not inductive: it
says nothing about a job that two senders hold. The strengthening counts:
messages accepted, processes that have claimed the job and not settled it, and
the chance that it is claimed once more are together at most one more than the
times it was asked for again (`SendsAreAsked`). The claim moves one from the
last to the second, an answer from the second to the first; a user's retry or a
lost answer is what adds one. The number of processes is assumed finite. That
an event counts as matched rests on `DoneIsQueued`, which says it target by
target while a matcher is at work.

The other services, in `ServiceProofs`:

- `TimelineStaysTrue`. That at most one step is drawn as running holds for any
  log, since the page asks for an end anywhere in it. The work is in
  `StepIsLogged`: a writer that was overtaken writes by the position and the
  entry it read, and `WriterFits` says that the entry is still there and that
  one that takes its step again has an entry of that step.
- `DeletionStaysExact`. The list exists in the row and in the worker. `RowIsExact`
  says that what the row's list leaves out is deleted and was counted at most
  once, `DeleterIsExact` the same of the worker's list between the deletion
  and the save (`ListOf`); only an owner's list agrees with the row; that
  of a worker that lost its lease may be late, and still leaves out only what
  is deleted. No second active row (`OneActive`) keeps the lists apart. The scans
  of the start are assumed finite, as progress is a cardinality.
- `DeletionUsesTheQueue`: the queue as the deletion sees it, with fewer columns
  and actions than `JobQueue`, still implements `JobContract`; so what is left
  out of it there is not what the deletion relies on. Here `HoldersCount` is
  needed: a row that names a worker is running and that worker counts its tries
  as the row does.
- `WatchStaysSound`. `FiringInv` ties the advisory lock to the firing that is
  past it, and what that firing has seen to the row as it is now. `CronInv`:
  ids of entries are handed out in order (`IdsAreGiven`), and in a process
  where no two schedulings met the entries are those its task takes away or
  has just added (`TasksFitEntries`).

`RepositoryRunsProofs` proves `RunsStayHonest`, whichever and however many
statements fail. `CompletedIsDone` and
`CancelReachesScans` depend on each other's actors: the worker, the loop that
reconciles, requests and restarts write one status unconditionally. The
invariant says what each may rely on: a fresh run has no scans and nobody
works on it (`FreshIsAlone`), the worker creates scans only for a run that is
discovered or was cancelled under it (`WorkFitsRun`), a run whose end was found
gets no scan any more (`FoundIsFinal`), and what waits in a cancelled run is
the one scan the worker is about to look at, or one whose own check or
cancellation has failed (`OnlyInsertedWaits`, `overlooked`). For that the
worker's record holds the image it has come to. `CancelReachesScans` is
restricted to scans the living process created (`CreatedHere`): a process that
dies between the insert and its next look leaves the scan waiting.

`PageProofs` proves, for any users, orders of answers and failures:

- `ResultsNeverGoBack`: as long as nothing was edited, what is shown, what an
  answer holds and what the server has are each contained in the next
  (`ResultsGrow`); a superseded answer is discarded, which is what keeps it.
- `TableShowsTheChoice`: `TableIsRight` speaks of a table at rest, so the
  invariant speaks of the load that will fill it (`LoadIsCurrent`): one of the
  effect is for what is chosen now, and one that goes on when the page knows
  all its changes to be stored has read all of them.
- `SentMessagesAreKept`: while a message is on its way its conversation is one
  it may be stored in, and once stored it stays there (`SendingIsAtHome`).
- `ChoicesAlwaysFit`: a registry is one of the kind the source asks for even
  when the workspace changed (`SourceHasRegistry`), and the repository is one
  of the registry once the effect has run (`EffectHasRun`).
- `DeletionsClearWhenEnded` and `OneRequestAtATime`: an end that a poll has
  read is never taken back (`AnswerIsTrue`), and a request that was aborted
  does not touch the flag of its successor.
- `HistoryStaysHonest`: each record of the storage and of the list is honest
  (`Honest`), as is what each round of requests has read (`AnswersAreTrue`);
  each operation on the history maps honest records to honest records.
- `ReportIsComplete`, `ReportShowsWorst`, `ReportLosesNothing`, together
  `ReportIsAlwaysRight`: for all vulnerabilities, filters and orders the report
  has a finding for each key that passes, shows the worst occurrence and loses
  no image, package, watch, policy or comment; `OrderDoesNotMatter`: nor does
  the order of the scans change it. The invariant of the loop is `TableInv`;
  besides it the proofs rest on `WorseThan` being a strict order that is total
  on different vulnerabilities, because ties fall to the identifier.
  `ReportAssumption` says that ranks and scores are integers and identifiers
  are different.
- `HistoryStaysWhole`: the pages of the delivery history. While no loads
  overlapped and at most a page of deliveries is newer than the list, the list
  runs without a gap from its newest entry, the offset has not passed the
  deliveries it leaves out (`ListContinues`), and a page under way was asked
  for at that offset (`PageContinues`). A page is appended without the entries
  that are listed already; this filter (`Without`) is defined by the rank of an
  entry among those that stay, not by a recursion over the page, so that its
  length and order follow from cardinalities.
- The types of the pages: `ScanTypes`, `ComplianceTypes`, `CenterTypes`,
  `PublicTypes`, `RunPageTypes`. They are not all obvious. In `ScanTypes` the
  ticks are bounded because, while the page waits for the policies, no poll of
  a running scan is left and the load of the last tick, which ends the wait, is
  under way (`WaitIsBounded`); in `PublicTypes` the history never exceeds its
  maximum because fewer records than that are newer than the oldest one kept;
  in `RunPageTypes` no run is shown more than twice because only a start that
  has not been answered yet can put a second one in front (`ShownInv`).
- `PagesInvariant`, `PagesAreWellFormed`, `PagesStayRight`, `ShownResultsStay`:
  a step of the tab is for each page a step of that page or leaves it alone, so
  each page's invariant and action property also hold in the tab.

The types that these invariants need are conjuncts of them (`FindingsTypeOK`,
`ChatTypeOK`, `RepositoryTypeOK`, `StepTypeOK`, `DeletionTypeOK`).

*Assumptions.* The theorems have no hypotheses of their own. They rest on the
assumptions on constants named in the modules, which TLC evaluates in every run.
These say that markers such as `NoRequest` or `NoRun` are none of the values they
stand beside, that bounds are numbers, that sets that are counted are finite, and
that sets of configured things fit together (the registries of a workspace are
registries, the steps of a worker are not terminal).

*Only model-checked.* Liveness under fairness, since ENABLED is out of the
prover's reach: `EveryJobEnds`, `EveryScanEnds`, `VerdictReached`,
`CallbackSettles`, `PageCatchesUp`, `TableIsFilled`, `ActiveRowEnds`,
`EndIsListed`, `RunsSettle`, `MirrorEnds`, `JobsSettle`, `ImportsGetCapacity`.
Every other property of the passing runs is stated by a theorem above. The
violations of section 4 are shown by TLC's counterexamples.

## 6. Not modelled

The contents of findings and SBOMs; policy rules and the conditions of
notification rules; edits of a policy (a deletion and a creation are
modelled); scans shared with several organizations (each has its own verdict;
they share the evaluation); the HTTP and URL checks of a callback, the
transports of notifications and the conversation with Artifactory; the output
of steps. Of the pages: layout, texts, toasts, tags, sharing, comparison,
re-scan, the dialogs, plain forms that load once and save once. Two tabs of
one browser meet only in `localStorage`. Whole components that are not
modelled are listed with their reasons in PROJECT.json.

The map covers the part of the code that decides the order of things; the rest
of the frontend is markup, forms and formatting, which no property here is
about, so the share of mapped lines stays small by design.

## 7. Plan

1. `ArchiveUpload`: completion against clean-up of expired sessions.
2. The remaining asynchronous pages: image history (its poll is not cancelled),
   status pages (refresh), the details dialog, the CVE synchronisation panel,
   the dashboard.
3. Pure functions (retry delay, back-off, rate limiter) against reference
   definitions; CVE synchronisation with its cursor; MCP confirmations.
4. Proofs: action properties of the pages (an ended row is kept, suggestions go
   forward); contracts for the outbox and for the runs of a repository, of the
   kind that the queue and the scans have.
