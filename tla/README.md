# Formal models of VistaPlatform Core

TLA+ specifications of the parts of VistaPlatform Core whose correctness lies in
the order of things: several replicas, crashes, lost heartbeats, cancels and
retries over the rows of one database, or over one process's memory. The models are translated from the
Go sources (paths below are under `src/`); `PROJECT.json` names the source lines
of every definition. TLC checks small instances, TLAPS proves the main
invariants for every value of the constants.

## 1. The system

VistaPlatform discovers hosts and their cryptography, keeps an inventory of them
and judges it against compliance frameworks. It is a set of Go services over one
PostgreSQL database and NATS JetStream, with collectors (sensor, device agent)
in the tenants' networks.

| Part | State it keeps | Operations | What is hard |
|---|---|---|---|
| Discovery jobs (`cluster-sensor-service`: `discovery_service.go`, `job_lifecycle.go`, `job_processor.go`) | `discovery_jobs`, `discovery_targets`; per process: `runningJobRegistry`, `stopping`, jobs in flight | create, claim, run, complete, fail, hand back, cancel, retry, stop | duplicate deliveries, a cancel on another replica, ended runs that write late |
| Scan-plan executor (`work_unit_executor.go`, `work_units.go`, `shared/jobunits/commit.go`) | `discovery_job_units`, `discovery_findings`, `sensor_discoveries`; per run: workers and their attempts | expand, sweep, claim a unit, scan, commit, fail, release, settle targets, verify completion | an owner presumed dead that is alive; a stop at any point; partial expansion |
| Heartbeat and reaper (`job_reaper.go`) | `updated_at`, `auto_resumes` | beat, reap (resume or fail), republish | the lease against a live owner, liveness |
| Unit scheduler (`unit_scheduler.go`) | `used` and the `changed` channel of a pool per tenant and one per replica | acquire, release | lost wakeups, leaked slots, one tenant starving the others |
| Rate limiter (`rate_limiter.go`) | counts of running jobs and of jobs this hour | check, check and reserve | check then act |
| Dispatch to tenant sensors (`sensor_dispatcher.go`, `sensor_plan_dispatch.go`, `shared/sensordispatch`) | `awaiting_sensor` jobs, `sensor_commands` | dispatch, sweep of stale dispatches, withdraw, busy refusal | late reports against the sweep and a re-dispatch |
| A sensor's run of a plan (`sensor/cmd/plan_job.go`, `shared/sensordispatch/planrun`) | queue of planned jobs, cancelled ids, unsent reports | collect, scan, report, ping, complete, acknowledge, stop | calls lost or answered late; a process that dies |
| Sensor reports (`shared/jobunits/sensor_batch.go`, `sensor-manager`) | the same units, fenced on the dispatch's attempt | record a batch, complete, fail | re-sent and stale reports, a job that ends between two hosts |
| Discovery processor (`processor/discovery_processor.go`, `claim.go`, `batch_processor.go`, `row_failures.go`, `tls_pair_fold.go`) | `claimed_at`, `processed_at`, failure counts of `sensor_discoveries` | claim a batch, renew, stamp, retry, quarantine | claims that expire on live workers |
| JetStream subscriber (`shared/events/subscriber.go`) | consumers | deliver, ack, nack, repair | redelivery |
| Notification delivery (`delivery_retry.go`, `delivery_history.go`) | `notification_delivery_queue`, `notification_history` | enqueue, claim, send, reschedule, reclaim, recompute the history | crash between sending and recording, two replicas writing one history row |
| Compliance evaluation (`asset_eval_coalescer.go`, `reconcile_worker.go`) | pending batches | coalesce, evaluate | joining an evaluation that has started |
| Others: maintenance runs, device-job claims, desired configuration of collectors, tenant cap, last-admin guard, atomic files, sign-in throttling | rows, files, counters of their own | | check-then-act, crashes between two writes |

How they interact: a REST handler inserts a job (`queued`) and publishes its id;
JetStream delivers the id to one replica or, after a redelivery or a republish,
to several; `processDiscoveryJobByID` claims the job by one conditional UPDATE
and runs it in a goroutine of its own; the goroutine draws slots from the
replica's unit scheduler, writes units, targets, findings and the rows of
`sensor_discoveries` from which the discovery processor feeds the inventory.
Cancel and Retry are REST handlers on any replica and meet the run only through
the rows and, on the same replica, through the registry. Every replica polls for
stalled and queued jobs. A job of the sensors mode is not scanned there: its
units are prepared and written, with a command, for a sensor, which collects the
command at a heartbeat, scans, and reports host by host to sensor-manager; the
same tables and the same fenced insert feed the inventory. The discovery
processor's replicas drain `sensor_discoveries` into inventory-service, whose
commits are announced on NATS and judged by compliance-engine, which joins
requests that arrive together. Notifications of the outcome go through
notification-service and its retry queue.

What makes each part correct: at most one run scans a job; each host's findings
are queued once, with its `done`; an ended job is not moved except by Retry; no
job stays running for ever; a completed job has an outcome for every host;
outcomes already shown to a person stay; slots neither leak nor are hoarded; a
row of the queue has one fate, and the one it deserves; a notification is not
sent after it succeeded, nor read as sent before it has; an answer that an
evaluation covers a change is true.
`PROJECT.json` lists the hazards with their lines, those no property covers yet
included.

## 2. Modules

| Module | What it is |
|---|---|
| `PlanJob` | one scan-plan job on the Platform Sensor: its targets and units, its runs on the replicas, reaper, cancel, retry, stop, crash |
| `SensorPlan` | one scan-plan job on a tenant sensor: dispatch, the sensor's run, its reports and completion, sweep, cancel, retry |
| `ScanLedger` | what such a job promises to the readers of its rows; `PlanJob` and `SensorPlan` both implement it |
| `UnitScheduler` | the slot pools of a replica and the requests on them |
| `BatchClaim` | the discovery processor's queue: claims, chunks, stamps, failures and retries |
| `DeliveryRetry` | the retries of one notification and its history row |
| `EvalCoalescers` | the two coalescers in front of compliance evaluations |
| `MC...` | instances for TLC: functions over model values that a configuration cannot write |
| `PlanJobProofs` | theorems of `PlanJob` that hold whatever happens |
| `PlanJobOwnerProofs` | theorems of `PlanJob` while heartbeats are reliable |
| `SensorPlanTypes`, `SensorPlanProofs` | theorems of `SensorPlan` |
| `UnitSchedulerProofs`, `BatchClaimProofs`, `DeliveryRetryProofs`, `EvalCoalescersProofs` | theorems of the module each is named for |

How they compose. `PlanJob` and `SensorPlan` each compose several components
(life cycle, executor and reaper; dispatcher, sensor, sensor-manager and sweep),
since every interesting behaviour needs all of them. The two implement one
abstract specification, so what the discovery processor and the inventory may
rely on is said once. `mirror` of both modules, how often a host's findings were
queued, is where `BatchClaim` begins: it takes the rows as they come. `Survivor`
in `BatchClaim` is the pairing of a TLS enrichment row with the passive row it
belongs to. `UnitScheduler` bounds how many workers of `PlanJob` are at work; the
latter allows any number.

In each module a variant of an operator ("Variant of ...") stands before the
operator it varies. They are plausible bugs, used to confirm that the
properties would notice them, and are not part of any specification.

### PlanJob and the code

`PlanJob` composes the job life cycle, the executor and the reaper, since every
interesting behaviour needs the three of them. One SQL transaction of the code
is one action; statements the code does not put in one transaction are separate
actions, and everything else may happen between them.

| Variable | Code |
|---|---|
| `job` | `status`, `metadata.auto_resumes` and `updated_at` of `discovery_jobs`; `fresh` is "`updated_at` is within `jobHeartbeatLease`" |
| `target`, `unit` | `discovery_targets.status`; `status`, `attempts` and the sweep's `liveness_state` of `discovery_job_units`; `absent` is a row not inserted yet |
| `mirror` | how often a unit's findings were inserted in `sensor_discoveries` |
| `run` | one delivery's `processDiscoveryJobByID`/`runClaimedJob`: where it is, the cause its context ended with, the targets left to expand, `mirrorFailed` |
| `work` | what the run's sweep or workers do with each unit, and the attempt the worker claimed |
| `registry` | `runningJobRegistry` of each replica |
| `node` | replica up, stopping (`Stop`), down |
| `canceller` | the `CancelJob` handler between its statements |

The stages of `run[r].pc`, in order: `taken` (delivery read the job), `refused`
(rate limit), `claimed`, `started` (registered), `expanding` (`ensureUnits`,
`resetOrphanedUnits`), `listing` and `sweeping` (`livenessPhase`), `porting`
(`portPhase`), `settling` (`settleStoppedJob`), `handback`, `verifying`
(`ensurePlanUnitsTerminal`), `completing`/`failing`, `closing` (the targets after
the job's verdict), `final` (alerts; the deferred release is still due), `over`.

`Events` names what may go wrong or be done from outside in an instance: `cancel`
(once), `retry`, `stop`, `crash` (and a `Stop` whose grace runs out), `lapse` (the
heartbeats of a live owner do not arrive for a lease), `db` (a statement fails),
`mirror` (the sensor to queue under is not registered), `scan` (the engine or the
commit of one host fails). An owner that is gone or not in the registry lapses
without `lapse`.

What is abstracted: addresses, ports and findings (a scan ends, fails or is cut
short); the verdict of `authorizeUnit` and of the rate limiter (nondeterministic);
NATS (a queued job may be delivered at any time); time (`fresh`); the number of
workers (any: the slots are `UnitScheduler`'s); `Commit` overwriting
`liveness_state` (read again only of pending units, and a done unit never is one);
target rows that share an input. Left out: `sensors` jobs (they are
`SensorPlan`) and `cloud` jobs, the
`active_scanning=false` and paused endings, republish marks, alerts and notes.

### UnitScheduler and the code

`used` is `slotPool.used`, `waiting` the requests blocked on a channel that has
not been closed, `at` where a call of `unitScheduler.acquire` is. `Take` and
`Block` are the two outcomes of the critical section of `slotPool.acquire`,
`ReleaseSecond` and `ReleaseFirst` the two of the release function, `GiveUp` the
end of the context of a waiting request. A request is made once; `Slots` is
`grant` of what it wants, which the callers use (one slot a unit, `sweepSlots` a
sweep).

### SensorPlan and the code

| Variable | Code |
|---|---|
| `job` | `status` of `discovery_jobs`; `fresh` is "`updated_at` is within the progress lease", renewed by the pickup, a report or a ping |
| `target`, `unit`, `mirror` | as in `PlanJob` |
| `delivery` | one delivery's `dispatchToSensor`: `taken`, `prepared` (units expanded and re-authorized), over; `failing` and `closing` are `failDispatch` |
| `command` | the `sensor_commands` row of each dispatch, with the attempt and the hosts of its plan; `expired` is "`expires_at` is past" |
| `run` | the sensor's run of the command: refused, queued, scanning, finishing, acknowledging; `stop` is the end of its context, `verdict` what it will complete the job with |
| `work` | how far the run is with the report of each host, and the attempts at sending it |
| `request` | unit reports on the way to sensor-manager or between the two transactions of `RecordSensorBatch` (`leased`) |
| `sweep` | `failStaleSensorDispatches` of each replica, with the dispatch it found |
| `canceller` | the `CancelJob` handler between its statements |
| `told` | the `cancel_discovery_job` command, and `planJobs.cancelled` on the sensor |

Dispatches are numbered in the order of their commands; the attempt of a command
is the highest attempt of the job's units plus one (`NextAttempt`), stamped on the
open units in the transaction that writes the command. A report may be lost,
served late, or served and its answer lost, and is then sent again; every order
of those is a behaviour.

`Events`: `cancel`, `retry`, `crash` (of the sensor's process), `timeout` (a call
of the sensor is not answered), `scan` (the engine ends with an error), `completion
lost`. `Refusable` and `Silent` name the hosts that the guard may refuse and
those on which nothing is found.

### BatchClaim and the code

| Variable | Code |
|---|---|
| `row[r].status` | `processed_at` and `approval_status` of a row of `sensor_discoveries`; `absent` is a row not inserted yet |
| `row[r].claim` | `claimed_at`: which worker holds that stamp; `Free` for NULL or for the end of a backoff, `Lost` for a stamp nobody holds |
| `row[r].ripe` | the claim has timed out, or the backoff is over |
| `row[r].attempts` | the attempts counted by `RecordBatchFailure`; `plain` is a history variable: how many of them were failures of the row itself |
| `worker` | `processNextBatch` of a drain loop: where it is, its batch, and a verdict for each row it read |
| `imported` | rows that inventory-service has accepted, whatever the worker heard |
| `faults` | crashes, failing statements and slow claims so far |

`claimNextBatch`, each renewal, each chunk, the stamp of the landed rows and the
settlement of the failed ones are actions of their own, because they are
transactions or HTTP calls of their own. A claim's stamp is only ever compared
for equality with the one its worker holds, which is why it can be the worker's
name. What inventory-service decides of a row is nondeterministic among
`Failures` and acceptance.

### DeliveryRetry and the code

| Variable | Code |
|---|---|
| `first` | what `SendNotification` heard from each channel |
| `sender` | the rest of `SendNotification`: the history row, then a queue row for each failure |
| `row` | `status`, `attempt_count` and "`next_retry_at` is past" of each row of `notification_delivery_queue` |
| `worker` | `RetryDueDeliveries` of a replica: the rows it claimed, with the attempt counts it read, the one in hand, and what the channel said |
| `history` | the `notification_history` row: status, channels used, result of each |
| `arrived`, `tries` | history variables: channels the message reached, sends of each row |
| `faults`, `lost` | faults so far; a write of the history was lost |

`DeliveryEvents`: `crash` of a worker at any point, `record lost`, `sync lost`,
`history lost`, `enqueue lost` (the statement fails), `slow` (a worker outlives
its claim). A send whose answer is a failure may have reached the channel.

### EvalCoalescers and the code

| Variable | Code |
|---|---|
| `stored` | commits of inventory-service so far; an evaluation reads the count it starts from |
| `pending` | `assetEvalCoalescer.pending`: the request whose batch accepts joiners |
| `req` | `Do` of each request: its batch, the commits it must see, those its evaluation has read, its verdict |
| `inFlight`, `dirty` | the two maps of `tenantCoalescer`, for one key |
| `call` | `Run` of each caller, with its passes and the message it holds |
| `covered`, `promised` | history variables: commits that completed passes have read, commits that acknowledged requests were about |

`settleMessage` of the subscriber is part of a caller's and a request's last
action: success and a panic end the message, an error has it delivered again
(`owed`). One asset and one tenant stand for all, since keys share nothing.

### ScanLedger

Status moves only along queued -> running -> queued or an end, from any status
that has not ended to an end, and from failed to queued (Retry); resumes without
a person are counted and bounded; hosts that are done stay done, and what each
has queued for the inventory grows at most once, in the step that made it done.
The refinement mappings read the four variables off the rows, so `KeepsLedger`
says this of every write of every action, at any interleaving. `SensorPlan` reads
`awaiting_sensor` as running and has no resumes: nobody takes its job up again
without a person.

## 3. Runs

| Run | Instance | Shows |
|---|---|---|
| `faults` (911k states) | 2 runs, 2 replicas, 1 host, every event | `TypeOK`, `StoredOnce`, `NoSupersededStore`, `CancelledByItsHolder`, `KeepsLedger` hold whatever happens |
| `orderly` (3.5M states) | 2 runs, 2 replicas, 1 target with a swept and an unswept host; cancel, retry, stop, crash, db, scan | `OneScanner`, `CompletedMeansScanned`, `CompletedTargetHasDoneUnit`, `CompletedTargetsKeepOutcome` |
| `live` (11k states) | 2 runs, 2 replicas, 1 swept host that may be refused; crash, stop, scan | `RunningEnds` under fairness |
| `scheduler` (6.7k states) | 3 tenants, 5 requests, replica 4 slots, tenant 2 | `TypeOK`, `SlotsAccounted`, `NoLostWakeup`, `OthersProceed` |
| `sensor_plan` (1.2M states) | 2 deliveries, 1 sweeper, 1 host that may be refused, 2 attempts at each report, every event | `TypeOK`, `StoredOnce`, `StoredByLatestDispatch`, `NothingStoredAfterEnd`, `KeepsLedger` |
| `sensor_live` (334k states) | 2 deliveries, 1 sweeper, 2 hosts, one of them silent; retry, timeout, crash | `AwaitedHostsWereHanded`, `CompletedMeansAnswered`, and `AwaitingEnds` under fairness |
| `batch_claim` (111k states) | 2 workers, a batch of a row and a late one folded into it, 1 fault; budgets 1 and 2 | `TypeOK`, `LandedWereImported`, `OutageRejectsNothing`, `FateIsFinal`, `ChargedByItsClaim`, `FoldedGoTogether`, and `RowsSettle` under fairness |
| `delivery_retry` (136k states) | 2 workers, 2 channels, 2 attempts, 2 faults among crash and lost writes of a record, a sync or the history | `TypeOK`, `SentMeansDelivered`, `HistoryTellsOutcome`, `GivenUpAfterAllAttempts`, `NotResent`, and `RowsSettle` under fairness |
| `eval_coalescers` (162k states) | 2 requests, 2 callers, 1 commit, 1 follow-up pass; error, timeout, panic | `TypeOK`, `SuccessIsCovered`, `JoinableMeansWaiting`, `CleanRunCoversAll`, and `RequestsAnswered` under fairness |

Bounds. A run (delivery) is one delivery of the message, so `Run` and `Delivery`
bound how often a job is taken up: two suffice for an owner presumed dead and its
successor, for a dispatch and the one after a Retry, and any pair of deliveries in
any order. `AutoResumeLimit` is 1 (the code's 3), so both sides of the reaper's
choice happen. One host shows every race on a unit; two hosts of one target show
settlement, sweep and a plan that is half answered. `UnitInsertBatch` is 2, so a
target of the instances is one batch, and some address of it is not refused; each
run has a replica of its own; `Cancel` happens once. Two attempts at a report are the least with which an answer is lost
and the report sent again.
In `scheduler` a sweep wants 5 slots and is granted 2, three tenants want more
than the replica has, and one tenant (`Stuck`) need never release.
In `batch_claim` the row budget is 1 and the transient budget 2, so one counter
meets both; `ImportChunkSize` is 1, so the two rows travel apart unless folded;
the second row arrives at any time, into a batch that may be in work. `FaultLimit`
bounds faults only: claims, backoffs and verdicts are unbounded but for the
budgets. Two workers and one fault show a claim that is taken over and its late
owner.
In `delivery_retry` two channels are what two retries of one notification need;
`slow` is left out (it breaks `NotResent`, see below) and so is `enqueue lost`
(it breaks `SentMeansDelivered`: with one failed channel lost and another's retry
delivered, the history is recomputed from a queue that does not know the first).
In `eval_coalescers` one commit splits the evaluations into those that have
read it and those that have not. The counter-example of `reconcile_lost` needs
two, since its second caller is about a commit of its own.
`CHECK_DEADLOCK FALSE` stands in every configuration: runs, deliveries, requests
and rows are one-shot or settle, so the system may come to rest.

`OneScanner`, `CompletedMeansScanned` and `CompletedTargetHasDoneUnit` are claimed
with reliable heartbeats only (no `lapse` in `Events`): the code accepts that an
owner whose beats are lost is presumed dead, and bounds the damage by the attempt
fence, which is what `faults` checks.

Fairness, always weak.
- `live`: each run that has started goes on (goroutines, no lock held between
  statements), a replica that is down is restarted (a Kubernetes deployment), time
  passes without a heartbeat when nobody beats (`Lapse`) and the stuck-job poll runs
  on a replica that is up. Nothing forces a delivery, a cancel, a retry or a scan
  to succeed. `RunningEnds` further assumes that some replica is up for good in
  the end.
- `scheduler`: goroutines go on, scans of tenants outside `Stuck` end; nothing
  forces a request to be made or given up.
- `sensor_live`: the sensor's worker goes on while its process lives
  (`SensorStep`), commands expire and leases lapse (time), the sweep runs on every
  replica. A sensor need never collect a command nor a report ever arrive, and
  nobody need retry. A ping does not hold the lease for ever because a run ends.
- `batch_claim`: the drain loops poll and go on; backoffs end and lost claims time
  out. No import need succeed.
- `delivery_retry`: the rest of `SendNotification` and the ticker of every replica
  go on, and time passes (`BecomeDue`). No send need succeed.
- `eval_coalescers`: the window's timer fires, evaluations and passes end in some
  way, and a message that was not acknowledged is delivered again.

### Where code and comments part

Each of these runs checks one sentence of a comment and finds a behaviour of
the code that contradicts it; `PROJECT.json` "findings" quotes them.

| Run | Sentence | Behaviour |
|---|---|---|
| `sensor_stuck` | "The platform's lease fails the job on its own" (`plan_job.go:201`) | a sensor whose completion call fails acknowledges its command all the same; a command that reads completed is none the sweep looks for, so the job awaits the sensor for good |
| `delivery_slow` | "two workers cannot both pick up the same row and double-send it" (`delivery_retry.go:209`) | a batch slower than its claim is reclaimed and both workers send; one of them after the row reads sent |
| `reconcile_lost` | "a request that landed mid-pass is never dropped" (`reconcile_worker.go:150`) | a caller between the runner's last look at `dirty` and its deferred delete of the key is acknowledged, and no pass follows |

Six more were met in `PlanJob` and are listed as hazards without a property,
since the property each contradicts cannot hold: an ended run's deferred release
deletes the registry entry of the next run of the same job (`job_lifecycle.go:324`);
a cancel from another replica between a worker's check and its claim leaves a
target `running` (`job_lifecycle.go:118`); a reaped live owner takes `failed` for a
cancel (`job_processor.go:814`); a reap and a Retry between the completion check
and the UPDATE complete a job whose units were reopened
(`work_unit_executor.go:112`); after a crash between two insert batches the resume
skips the rest of the target, and after one between the last batch and the
statement that settles a target refused whole, that target reads completed with no
host of it scanned (`work_units.go:366`); `failUnit` is not fenced on the attempt
(`work_units.go:426`). The module follows the code in each.

Also, the comments at `job_processor.go` lines 208-209, 246-248 and 302-306
still say that a reaped job is failed and resumes only on a person's Retry; since
`job_reaper.go` resumes plan jobs itself (lines 150-165) they are out of date.

## 4. Proofs

All theorems hold for every value of the constants, faults and events
included, from the named assumptions on the constants alone (each module's
`ASSUME`s), but for those that name one more hypothesis: the three of
`PlanJobOwnerProofs` and five of `DeliveryRetryProofs`. Every such hypothesis is
met by an instance of a run, and for each TLC finds a behaviour of the model that
violates the conclusion once it is dropped, so none is there for convenience.

`PlanJob`:
- `TypeCorrect`: `TypeOK` is inductive by itself; one lemma per group of actions
  and per shared helper (`SetUnits`, `SettleTargets`, `MoveJob`, ...).
- `FindingsStoredOnce`: `StoredOnce` alone is not inductive, since a unit swept
  down must not become pending with that verdict and be committed after all;
  `StoreInv` adds `DownIsDone`. Every step does one of four things to each unit
  (`UnitMove`: nothing, a move that keeps done and not done, a fenced commit, a
  sweep's verdict), shown once in `UnitStep` and used by several theorems.
- `SupersededNotStored`: `HeldInv` adds that a held attempt is never above the
  unit's and that two runs never hold the same attempt of a unit; only then does
  a commit under the latest attempt come from its only holder.
- `InFlightCancelledByHolder`: from `UnitStep` and `HeldInv`.
- `TargetsKeepOutcome`: every UPDATE of targets excludes completed ones.
- `ImplementsLedger`: the initial states map to initial states, and each step to
  a step of `ScanLedger` or a stutter (`JobStep` for the job, `FinishStep` for the
  hosts), using `StoreInv`.
- `VerdictIsFinal`: the same `JobStep`; completed and cancelled are left by no move.

`PlanJobOwnerProofs`, with four hypotheses: `ReliableLease` (no `lapse` among
`Events`), `OwnReplicas` (no two deliveries of the job go to one replica),
`OneBatch` (the addresses of a target fit in one insert batch) and `SomeAllowed`
(each target has an address that is not refused). All other events and faults may
happen, in any number.

| Theorem | Assumes | Without it |
|---|---|---|
| `ScannedByOne` (`OneScanner`) | `ReliableLease` | a job whose beats are lost is requeued under its live owner |
| | `OwnReplicas` | the deferred release of an ended run deletes the entry of the next one on its replica, which goes on without beats (`job_lifecycle.go:324`); three runs and a Retry show it, and two what it means for the theorems below |
| `CompletedIsScanned` (`CompletedMeansScanned`) | also `OneBatch` | a crash between two insert batches (`work_units.go:366`) |
| `CompletedTargetIsDone` (`CompletedTargetHasDoneUnit`) | also `SomeAllowed` | a crash between the last batch of a target refused whole and its settlement (`work_units.go:371`) |

None of the three conclusions is inductive; the invariants are:
- `OwnerInv`: at most one run is active (between its claim and the statement that
  ends or hands back the job); while it is, the job is running with a lease that has
  not passed, or was cancelled under it, and from its registration on the registry
  of its replica names it. The reaper therefore finds no job with an active run, and no claim succeeds
  beside one. `OneScanner` follows, since whoever scans is active.
- `CancelInv`: only a cancel tells a run to stop for one and leaves units and targets
  cancelled; where one is, the job is cancelled. So an owner whose job still runs has
  skipped nothing for a cancel.
- `ListedInv`: a target has all its units or none; a run that expands knows the
  targets that have none, and past that stage there are none.
- `ScannedInv`: every unit is done or failed when an owner is about to complete a
  running job, and when the job is completed. Nobody reopens a unit in between: the
  reaper and Retry need a job that no active run owns.
- `OpenInv`: an open target of a job that is not cancelled has a unit that has not
  failed, and a run that closes the targets of a completed job finds it completed;
  with `ScannedInv` that unit is then done.

`SensorPlan`:
- `TypeCorrect`: `TypeInv` adds to `TypeOK` that commands past the latest are
  absent (`Bounded`), without which the next command might have no number, and that
  a host still to be reported has an attempt left (`TryLeft`).
- `FindingsStoredOnce`, `EndedStoresNothing`: each step leaves the done units and
  their mirror as they were, or is the storing half of one report (`StoreStep`).
- `HostsWereHanded`, `LatestDispatchStores`: `CommandInv` is the inductive
  invariant. Commands are numbered without a gap and their attempts rise
  (`Numbered`); no unit's attempt is above the latest command's (`Stamped`); what a run
  works on and what travels belongs to a collected command and to its plan
  (`Collected`, `Planned`); a job awaits only once all its targets are expanded
  (`Expanded`) and a command exists (`Awaited`). A report that matches a pending
  unit's attempt while the job awaits is then the latest command's.
- `CompletedAnswersAll`: a job is completed only from `awaiting_sensor`, when every
  address has a unit (`Expanded`) and none is cancelled (`CancelIsFinal`: only the
  job's own cancellation cancels units), and its open units are failed in the same
  transaction; nothing reopens units of a completed job.
- `ImplementsLedger`: as for `PlanJob`, from `JobStep`, `FinishStep` and
  `MoveStoresNothing` (no step both moves the job and stores a host).
- `VerdictIsFinal`: from `JobStep`.

`BatchClaim`: `BatchInv` adds to `TypeOK` that a claimed row is pending, that an open
row has an attempt left and a rejected one without a failure of its own has
none (`RowInv`), and that a row a worker found landed was accepted (`VerdictInv`).
Every step moves each row in one of five ways (`RowMove`, shown in `RowStep`), from
which `SettledStaysSettled`, `ChargesAreFenced`, `LandedWereAccepted` and
`OutagesAreRetried` follow. `FoldedRowsFollow` needs in addition that a row that
others fold into folds into none (`FoldAssumption`: passive rows are survivors,
enrichment rows are folded; `tls_pair_fold.go`).

`DeliveryRetry`: `TypeCorrect` needs that an open row has an attempt left (`CountInv`).
`NotSentAgain` and `GivenUpInTime` assume that `slow` is not among
`DeliveryEvents`; then a row in a worker's hands is pending, its claim runs, and no
other worker has it (`HeldInv`). `GivenUpInTime` adds that nobody counts attempts
that were not made (`TriesInv`). `SentIsDelivered` assumes that `enqueue lost` is not
among the events; then, once there is a history row, every channel whose first
send failed has a queue row or is still to get one (`QueuedInv`, on top of
`OrderInv`: the history is saved before anything is queued, and all is queued before a
worker acts). `HistoryCatchesUp` proves `HistoryTellsOutcome` from both. It follows
the history while it is behind the rows: `SyncInv` says that a row in sync holds
its worker's outcome and is in no other worker's sync, `ToldInv` that the channels
used are those of the rows that read sent but for the ones in sync, that each other
settled channel's result is that of its row, and that the status is right unless a
row that reads sent is still in sync. A worker's sync repairs the status whoever
recorded last, since it recounts the queue under the lock of the history row; when
nothing is in sync, nothing is behind. `SentIsFinal`, with the first assumption only:
a history that reads sent has no unresolved row and nothing left to queue
(`NothingLeftInv`), and no settled row is written again (`SettledStays`), so a later
sync counts the same.

`EvalCoalescers`: `SuccessCovered` and `JoinableWaits` are proved together with
`BatchInv`: no request needs a commit to come, an evaluation reads all that its
batch asked for, and a joined request has a leader that will tell it.
`CleanRunCovers` rests on `RunInv`: one run at a time, the one in flight, and
whatever was promised since its pass began has set `dirty`.

`UnitScheduler`: `CapsHold`; `NoWakeupLost`: a pool's `used` falls only in a step that
wakes all its waiters, and a request waits only at a pool it does not fit.
`NoSlotLeaks` proves `SlotsAccounted` by `LeaseInv`: each step leaves a pool as it
was, or one request becomes or ceases to be a holder and `used` changes by its slots
(`PoolStep`). The slots that are out are counted as a set of pairs of a holder and a
number, with `Cardinality`: the facts on sums take an operator as a parameter, which
the provers cannot instantiate. `NoDeadlock` follows from the two: a pool
that does not fit a request has a holder, and the pools are taken in one order, so
who waits for the replica's slots waits for a request that waits for nothing. It is
the safety half of `OthersProceed`.

Model-checked only: the liveness properties `RunningEnds`, `OthersProceed`,
`AwaitingEnds`, both `RowsSettle` and `RequestsAnswered` (liveness under fairness is out
of the prover's reach). Every safety property that a passing run checks is a theorem.

Run `tlapm PlanJobProofs.tla` and so on for each of the eight proof modules;
`tlc -config PlanJobFaults.cfg MCPlanJob` and so on for each configuration.

## 5. Plan

In this order:

1. `RateLimit`: reservation at creation and the check at the claim, with several
   jobs; republish marks, delivery and the repair of consumers, so that "a queued
   job is eventually taken up" can be stated.
2. Theorems of the components to come, and of `PlanJob` between what holds always
   and what holds with reliable heartbeats: what a completed job still says when an
   owner was presumed dead.
3. `AtomicFiles`, `TenantCap` and `LastAdmin`: each small and self-contained.

## 6. Not modelled

- The tenant rate limiter: its verdict is nondeterministic in `PlanJob` and
  `SensorPlan`, which is all that a single job sees of it. Its own hazard, a check
  at the claim that reserves nothing, needs several jobs.
- JetStream: messages are delivered at any time, again, or not at all. Republish
  marks, delays between redeliveries, the limit of deliveries and the repair of a
  consumer are left out, and with them whether a queued job is ever taken up.
- In the discovery-job life cycle: `cloud` jobs, the no-active-scanning and paused
  endings, alerts and notes, and creation beyond the rows it leaves.
- On the sensor path: the legacy payload of protocols and ports, jobs without a
  plan, other commands, registration; insert batches (they are in `PlanJob`).
- In the discovery processor: what an import decides (rules, approval, routing,
  identity of assets). In notification-service: digests, templates, the choice of
  channels. In compliance-engine: what an evaluation computes, and `fanOut`.
- Maintenance runs, device-job claims, desired configuration of collectors,
  tenant cap and entitlements, last-admin guard, atomic files, sign-in throttling
  and SSO state: protocols of their own that share no state with the
  discovery path. They are candidates, listed in `PROJECT.json`.
- The packet-level scan engine, parsers and classifiers (I/O and pure functions
  over wire formats), CRUD handlers, user interfaces, charts. They are most of
  the repository's lines and have no protocol to check.
