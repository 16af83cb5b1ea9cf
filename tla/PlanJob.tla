------------------------------ MODULE PlanJob ------------------------------
(***************************************************************************)
(* One scan-plan discovery job of cluster-sensor-service: its row in       *)
(* discovery_jobs, its targets and work units, the runs of it that         *)
(* JetStream deliveries start on the service's replicas, and everything    *)
(* that moves the job while a run is under way: the stuck-job reaper, a    *)
(* person's Cancel and Retry, a replica's graceful Stop and its crash.     *)
(*                                                                         *)
(* A run is one execution of processDiscoveryJobByID for one delivery.     *)
(* Every SQL transaction of the code is one action; two statements that    *)
(* the code does not put in one transaction are two actions.               *)
(*                                                                         *)
(* Time is abstracted to job.fresh: whether updated_at is within the       *)
(* heartbeat lease.  What may go wrong is the parameter Events.            *)
(***************************************************************************)
EXTENDS Naturals, FiniteSets

CONSTANTS
  Run,              \* deliveries of the job's message, each run at most once
  Replica,          \* cluster-sensor-service pods
  Home,             \* Home[r]: the replica the delivery r goes to
  Target, Unit,     \* discovery_targets rows and the addresses they expand to
  TargetOf,         \* TargetOf[u]: the target the address u belongs to
  Swept,            \* units of range targets: swept for liveness first
  Refusable,        \* units whose address the dispatch guard may refuse
  AutoResumeLimit,  \* planAutoResumeLimit
  UnitInsertBatch,  \* unitInsertBatch
  Events,           \* which of EventNames can happen
  None

EventNames == {"cancel", "retry", "stop", "crash", "lapse", "db", "mirror", "scan"}

ASSUME HomeAssumption   == Home \in [Run -> Replica]
ASSUME TargetAssumption == TargetOf \in [Unit -> Target]
ASSUME UnitAssumption   == Swept \subseteq Unit /\ Refusable \subseteq Unit
ASSUME LimitAssumption  == AutoResumeLimit \in Nat /\ UnitInsertBatch \in Nat \ {0}
ASSUME EventAssumption  == Events \subseteq EventNames
ASSUME NoneAssumption   == None \notin Run \cup Replica

VARIABLES
  job,        \* the discovery_jobs row
  target,     \* status of each discovery_targets row
  unit,       \* the discovery_job_units rows; "absent" = not inserted yet;
              \* liveness is the verdict of the sweep
  mirror,     \* how often each unit's findings were queued in sensor_discoveries
  run,        \* where each run is, why it must stop, what it has counted
  work,       \* what each run's sweep or workers are doing with each unit
  registry,   \* runningJobRegistry of each replica: the run registered there
  node,       \* each replica: up, stopping (Stop was called) or down
  canceller   \* the CancelJob handler

vars == <<job, target, unit, mirror, run, work, registry, node, canceller>>

-----------------------------------------------------------------------------
(* Statuses and types *)

Terminal   == {"completed", "failed", "cancelled"}       \* terminalJobStatuses
JobStatus  == {"queued", "running"} \cup Terminal
TargetStatus == {"pending", "running", "completed", "failed", "cancelled"}
UnitStatus == {"absent", "pending", "running", "done", "failed", "cancelled"}
Stage == {"off", "taken", "refused", "claimed", "started", "expanding", "listing",
          "sweeping", "porting", "settling", "handback", "verifying", "completing",
          "failing", "closing", "final", "over"}
WorkStage == {"none", "sweep", "cleared", "todo", "checked", "held", "unstored"}
StopCause == {"none", "cancel", "shutdown"}

JobType  == [status: JobStatus, resumes: 0..AutoResumeLimit, fresh: BOOLEAN]
UnitType == [Unit -> [status: UnitStatus, attempts: Nat, liveness: {"none", "up", "down"}]]
RunRow   == [pc: Stage, stop: StopCause, verdict: {"completed", "failed"},
             mirrorFailed: BOOLEAN, expand: SUBSET Target]
RunType  == [Run -> RunRow]
WorkType == [Run -> [Unit -> [at: WorkStage, attempt: Nat]]]
CancelType == [at: {"idle", "signal", "targets", "units", "done", "lost"},
               by: Replica \cup {None}]

TypeOK ==
  /\ job \in JobType
  /\ target \in [Target -> TargetStatus]
  /\ unit \in UnitType
  /\ mirror \in [Unit -> Nat]
  /\ run \in RunType
  /\ work \in WorkType
  /\ registry \in [Replica -> Run \cup {None}]
  /\ node \in [Replica -> {"up", "stopping", "down"}]
  /\ canceller \in CancelType

Idle == [at |-> "none", attempt |-> 0]
NotStarted == [pc |-> "off", stop |-> "none", verdict |-> "failed",
               mirrorFailed |-> FALSE, expand |-> {}]
Over == [NotStarted EXCEPT !.pc = "over"]   \* its locals are gone with it

Init ==
  /\ job = [status |-> "queued", resumes |-> 0, fresh |-> TRUE]
  /\ target = [t \in Target |-> "pending"]
  /\ unit = [u \in Unit |-> [status |-> "absent", attempts |-> 0, liveness |-> "none"]]
  /\ mirror = [u \in Unit |-> 0]
  /\ run = [r \in Run |-> NotStarted]
  /\ work = [r \in Run |-> [u \in Unit |-> Idle]]
  /\ registry = [p \in Replica |-> None]
  /\ node = [p \in Replica |-> "up"]
  /\ canceller = [at |-> "idle", by |-> None]

-----------------------------------------------------------------------------
(* The SQL statements the handlers share *)

UnitsOf(t) == {u \in Unit : TargetOf[u] = t}

\* UPDATE discovery_job_units SET status = to WHERE status IN from
SetUnits(from, to) ==
  [u \in Unit |-> IF unit[u].status \in from THEN [unit[u] EXCEPT !.status = to]
                                             ELSE unit[u]]

\* UPDATE discovery_targets SET status = to WHERE status IN from
SetTargets(from, to) ==
  [t \in Target |-> IF target[t] \in from THEN to ELSE target[t]]

\* Variant of SettleTargets: it forgets that every host may have failed.
SettleTargetsCompleted(us, ts) ==
  [t \in Target |->
     IF t \notin ts \/ target[t] \notin {"pending", "running"}
          \/ \E u \in UnitsOf(t) : us[u].status \in {"pending", "running"}
     THEN target[t]
     ELSE IF \E u \in UnitsOf(t) : us[u].status = "cancelled" THEN "cancelled"
     ELSE "completed"]

\* jobunits.SettleTarget after the units have become us: a target none of whose
\* units is open is cancelled, completed or failed, by what its units came to.
SettleTargets(us, ts) ==
  [t \in Target |->
     LET has(s) == \E u \in UnitsOf(t) : us[u].status = s
     IN IF t \notin ts \/ target[t] \notin {"pending", "running"}
             \/ has("pending") \/ has("running")
        THEN target[t]
        ELSE IF has("cancelled") THEN "cancelled"
        ELSE IF has("done") THEN "completed" ELSE "failed"]

\* UpdateJobStatusFrom: one guarded UPDATE, which also touches updated_at.
CanMoveJob(from) == job.status \in from
MoveJob(to) == job' = [job EXCEPT !.status = to, !.fresh = TRUE]
NotTerminal == JobStatus \ Terminal

-----------------------------------------------------------------------------
(* Runs *)

Live(r) == run[r].pc \notin {"off", "over"}
Goto(r, pc) == run' = [run EXCEPT ![r].pc = pc]
Return(r) == run' = [run EXCEPT ![r] = Over]
SetWork(r, us, w) ==
  work' = [work EXCEPT ![r] = [u \in Unit |-> IF u \in us THEN w ELSE work[r][u]]]
At(r, stages) == {u \in Unit : work[r][u].at \in stages}

\* processDiscoveryJobByID up to the claim.  A delivery that finds the job not
\* queued is acked and does nothing (a stuttering step); so does the loser of
\* the claim.
Deliver(r) ==
  /\ run[r].pc = "off"
  /\ node[Home[r]] = "up"
  /\ job.status = "queued"
  /\ Goto(r, "taken")
  /\ UNCHANGED <<job, target, unit, mirror, work, registry, node, canceller>>

LoseClaim(r) ==
  /\ run[r].pc = "taken"
  /\ ~CanMoveJob({"queued"})
  /\ Return(r)
  /\ UNCHANGED <<job, target, unit, mirror, work, registry, node, canceller>>

\* The tenant is over its rate limit: queued -> failed, then the targets.
RateLimited(r) ==
  /\ run[r].pc = "taken"
  /\ CanMoveJob({"queued"})
  /\ MoveJob("failed")
  /\ Goto(r, "refused")
  /\ UNCHANGED <<target, unit, mirror, work, registry, node, canceller>>

SettleRefused(r) ==
  /\ run[r].pc = "refused"
  /\ target' = SetTargets(TargetStatus \ {"completed", "failed"}, "failed")
  /\ Return(r)
  /\ UNCHANGED <<job, unit, mirror, work, registry, node, canceller>>

\* Variant of ClaimJob: the guard is "has not ended" instead of "is queued".
ClaimJobUnended(r) ==
  /\ run[r].pc = "taken"
  /\ CanMoveJob(NotTerminal)
  /\ MoveJob("running")
  /\ Goto(r, "claimed")
  /\ UNCHANGED <<target, unit, mirror, work, registry, node, canceller>>

ClaimJob(r) ==
  /\ run[r].pc = "taken"
  /\ CanMoveJob({"queued"})
  /\ MoveJob("running")
  /\ Goto(r, "claimed")
  /\ UNCHANGED <<target, unit, mirror, work, registry, node, canceller>>

\* runningJobRegistry.start: overwrites the entry of an earlier run still there.
Register(r) ==
  /\ run[r].pc = "claimed"
  /\ registry' = [registry EXCEPT ![Home[r]] = r]
  /\ run' = [run EXCEPT ![r].pc = "started",
               ![r].stop = IF node[Home[r]] = "stopping" THEN "shutdown" ELSE "none"]
  /\ UNCHANGED <<job, target, unit, mirror, work, node, canceller>>

\* checkStillRunning lets the run go on: the row is running (and is touched),
\* or is not terminal, or could not be read.
StillRunning(r) ==
  /\ run[r].stop = "none"
  /\ \/ job.status = "running" /\ job' = [job EXCEPT !.fresh = TRUE]
     \/ (job.status = "queued" \/ "db" \in Events) /\ UNCHANGED job

\* checkStillRunning stops the run for this cause.
StopSeen(r, cause) ==
  \/ run[r].stop = cause /\ cause # "none"
  \/ run[r].stop = "none" /\ job.status \in Terminal /\ cause = "cancel"

\* processPlanJob: the first check, and which targets have no units yet.
Begin(r) ==
  /\ run[r].pc = "started"
  /\ StillRunning(r)
  /\ run' = [run EXCEPT ![r].pc = "expanding",
               ![r].expand = {t \in Target :
                                \A u \in UnitsOf(t) : unit[u].status = "absent"}]
  /\ UNCHANGED <<target, unit, mirror, work, registry, node, canceller>>

BeginStopped(r) ==
  /\ run[r].pc = "started"
  /\ \E cause \in {"cancel", "shutdown"} :
       /\ StopSeen(r, cause)
       /\ Goto(r, IF cause = "shutdown" THEN "handback" ELSE "final")
  /\ UNCHANGED <<job, target, unit, mirror, work, registry, node, canceller>>

\* ensureUnits inserts the units of one target a batch at a time, each batch a
\* transaction of its own; a refused address is inserted as failed.
ExpandBatch(r, t) ==
  /\ run[r].pc = "expanding"
  /\ t \in run[r].expand
  /\ LET absent == {u \in UnitsOf(t) : unit[u].status = "absent"}
     IN \E B \in SUBSET absent : \E refused \in SUBSET (B \cap Refusable) :
          /\ B # {}
          /\ Cardinality(B) = UnitInsertBatch \/ (B = absent /\ Cardinality(B) < UnitInsertBatch)
          /\ unit' = [u \in Unit |->
                        IF u \in refused THEN [unit[u] EXCEPT !.status = "failed"]
                        ELSE IF u \in B THEN [unit[u] EXCEPT !.status = "pending"]
                        ELSE unit[u]]
  /\ UNCHANGED <<job, target, mirror, run, work, registry, node, canceller>>

SettleExpanded(r, t) ==
  /\ run[r].pc = "expanding"
  /\ t \in run[r].expand
  /\ \A u \in UnitsOf(t) : unit[u].status # "absent"
  /\ target' = SettleTargets(unit, {t})
  /\ run' = [run EXCEPT ![r].expand = @ \ {t}]
  /\ UNCHANGED <<job, unit, mirror, work, registry, node, canceller>>

ResetOrphanedUnits(r) ==
  /\ run[r].pc = "expanding"
  /\ run[r].expand = {}
  /\ unit' = SetUnits({"running"}, "pending")
  /\ Goto(r, "listing")
  /\ UNCHANGED <<job, target, mirror, work, registry, node, canceller>>

-----------------------------------------------------------------------------
(* The liveness sweep: pending units of range targets without a verdict *)

ListSweep(r) ==
  /\ run[r].pc = "listing"
  /\ SetWork(r, {u \in Swept : unit[u].status = "pending" /\ unit[u].liveness = "none"},
             [at |-> "sweep", attempt |-> 0])
  /\ Goto(r, "sweeping")
  /\ UNCHANGED <<job, target, unit, mirror, registry, node, canceller>>

\* checkStillRunning at a chunk boundary; the next chunk is C.
SweepChunk(r, C) ==
  /\ run[r].pc = "sweeping"
  /\ At(r, {"cleared"}) = {}
  /\ C # {} /\ C \subseteq At(r, {"sweep"})
  /\ StillRunning(r)
  /\ SetWork(r, C, [at |-> "cleared", attempt |-> 0])
  /\ UNCHANGED <<target, unit, mirror, run, registry, node, canceller>>

\* failUnit: the unit fails if it is still in status from, and its target is
\* settled either way.
FailUnit(u, from) ==
  LET us == IF unit[u].status = from THEN [unit EXCEPT ![u].status = "failed"] ELSE unit
  IN unit' = us /\ target' = SettleTargets(us, {TargetOf[u]})

RefuseSwept(r, u) ==
  /\ run[r].pc = "sweeping"
  /\ work[r][u].at = "cleared" /\ u \in Refusable
  /\ FailUnit(u, "pending")
  /\ SetWork(r, {u}, Idle)
  /\ UNCHANGED <<job, mirror, run, registry, node, canceller>>

\* recordLiveness, one transaction: a unit that answered stays pending with its
\* verdict; one that did not is done, unless it is no longer pending.
RecordLiveness(r) ==
  /\ run[r].pc = "sweeping"
  /\ At(r, {"cleared"}) # {}
  /\ \E up \in SUBSET At(r, {"cleared"}) : \E down \in SUBSET (At(r, {"cleared"}) \ up) :
       LET us == [u \in Unit |->
                    IF unit[u].status # "pending" THEN unit[u]
                    ELSE IF u \in up THEN [unit[u] EXCEPT !.liveness = "up"]
                    ELSE IF u \in down
                      THEN [status |-> "done", attempts |-> unit[u].attempts + 1,
                            liveness |-> "down"]
                    ELSE unit[u]]
       IN unit' = us /\ target' = SettleTargets(us, {TargetOf[u] : u \in down})
  /\ SetWork(r, At(r, {"cleared"}), Idle)
  /\ UNCHANGED <<job, mirror, run, registry, node, canceller>>

\* A stop seen at a chunk boundary or after a probe: verdicts cut short are dropped.
SweepStopped(r) ==
  /\ run[r].pc = "sweeping"
  /\ \E cause \in {"cancel", "shutdown"} :
       /\ \/ StopSeen(r, cause) /\ At(r, {"cleared"}) = {} /\ At(r, {"sweep"}) # {}
          \/ run[r].stop = cause /\ At(r, {"cleared"}) # {}
       /\ run' = [run EXCEPT ![r].pc = "settling", ![r].stop = cause]
  /\ SetWork(r, Unit, Idle)
  /\ UNCHANGED <<job, target, unit, mirror, registry, node, canceller>>

-----------------------------------------------------------------------------
(* The port phase: workers take the listed units one by one *)

\* With nothing pending the phase is over before it looks for a stop.
ListUnits(r) ==
  /\ run[r].pc = "sweeping"
  /\ At(r, {"sweep", "cleared"}) = {}
  /\ LET pending == {u \in Unit : unit[u].status = "pending"}
     IN /\ SetWork(r, pending, [at |-> "todo", attempt |-> 0])
        /\ Goto(r, IF pending = {} THEN "verifying" ELSE "porting")
  /\ UNCHANGED <<job, target, unit, mirror, registry, node, canceller>>

CheckUnit(r, u) ==
  /\ run[r].pc = "porting"
  /\ work[r][u].at = "todo"
  /\ StillRunning(r)
  /\ SetWork(r, {u}, [at |-> "checked", attempt |-> 0])
  /\ UNCHANGED <<target, unit, mirror, run, registry, node, canceller>>

\* A worker's check finds the row ended: it stops the whole pool.
StopPool(r) ==
  /\ run[r].pc = "porting"
  /\ At(r, {"todo"}) # {}
  /\ run[r].stop = "none" /\ job.status \in Terminal
  /\ run' = [run EXCEPT ![r].stop = "cancel"]
  /\ UNCHANGED <<job, target, unit, mirror, work, registry, node, canceller>>

RefuseUnit(r, u) ==
  /\ run[r].pc = "porting"
  /\ work[r][u].at = "checked" /\ u \in Refusable
  /\ FailUnit(u, "pending")
  /\ SetWork(r, {u}, Idle)
  /\ UNCHANGED <<job, mirror, run, registry, node, canceller>>

ClaimUnit(r, u) ==
  /\ run[r].pc = "porting"
  /\ work[r][u].at = "checked"
  /\ unit[u].status = "pending"
  /\ unit' = [unit EXCEPT ![u].status = "running", ![u].attempts = @ + 1]
  /\ target' = [t \in Target |-> IF t = TargetOf[u] /\ target[t] = "pending"
                                   THEN "running" ELSE target[t]]
  /\ SetWork(r, {u}, [at |-> "held", attempt |-> unit[u].attempts + 1])
  /\ UNCHANGED <<job, mirror, run, registry, node, canceller>>

\* The claim finds the unit not pending any more.
SkipUnit(r, u) ==
  /\ run[r].pc = "porting"
  /\ work[r][u].at = "checked"
  /\ unit[u].status # "pending"
  /\ SetWork(r, {u}, Idle)
  /\ UNCHANGED <<job, target, unit, mirror, run, registry, node, canceller>>

\* Variant of Unfenced: the attempt is not compared.
UnfencedByStatus(r, u) == unit[u].status = "running"

\* The fence of jobunits.Commit: status and attempt are the ones claimed.
Unfenced(r, u) ==
  unit[u].status = "running" /\ unit[u].attempts = work[r][u].attempt

\* Variant of CommitUnit: the row count of the fenced UPDATE is not looked at.
CommitUnitUnfenced(r, u) ==
  /\ run[r].pc = "porting"
  /\ work[r][u].at = "held"
  /\ LET us == IF Unfenced(r, u) THEN [unit EXCEPT ![u].status = "done"] ELSE unit
     IN unit' = us /\ target' = SettleTargets(us, {TargetOf[u]})
  /\ mirror' = [mirror EXCEPT ![u] = @ + 1]
  /\ SetWork(r, {u}, Idle)
  /\ UNCHANGED <<job, run, registry, node, canceller>>

\* jobunits.Commit.  A stop that arrives after runUnit looked for one does not
\* hold the commit back, so run[r].stop is not in the guard.
CommitUnit(r, u) ==
  /\ run[r].pc = "porting"
  /\ work[r][u].at = "held"
  /\ Unfenced(r, u)
  /\ LET us == [unit EXCEPT ![u].status = "done"]
     IN unit' = us /\ target' = SettleTargets(us, {TargetOf[u]})
  /\ mirror' = [mirror EXCEPT ![u] = @ + 1]
  /\ SetWork(r, {u}, Idle)
  /\ UNCHANGED <<job, run, registry, node, canceller>>

\* errUnitFenced: the results are discarded.
DiscardUnit(r, u) ==
  /\ run[r].pc = "porting"
  /\ work[r][u].at = "held"
  /\ ~Unfenced(r, u)
  /\ SetWork(r, {u}, Idle)
  /\ UNCHANGED <<job, target, unit, mirror, run, registry, node, canceller>>

\* The commit gets past the fence but the sensor its mirror rows are queued
\* under is not registered: everything is rolled back.
CommitRefused(r, u) ==
  /\ run[r].pc = "porting"
  /\ "mirror" \in Events
  /\ work[r][u].at = "held"
  /\ Unfenced(r, u)
  /\ SetWork(r, {u}, [at |-> "unstored", attempt |-> work[r][u].attempt])
  /\ UNCHANGED <<job, target, unit, mirror, run, registry, node, canceller>>

\* The engine or a statement of the commit failed, or the commit was refused, which
\* the run counts.  failUnit looks at the status of the unit only, not at the attempt.
FailScannedUnit(r, u) ==
  /\ run[r].pc = "porting"
  /\ \/ work[r][u].at = "held" /\ "scan" \in Events /\ UNCHANGED run
     \/ work[r][u].at = "unstored" /\ run' = [run EXCEPT ![r].mirrorFailed = TRUE]
  /\ FailUnit(u, "running")
  /\ SetWork(r, {u}, Idle)
  /\ UNCHANGED <<job, mirror, registry, node, canceller>>

\* Variant of ReleaseUnit: it looks at the status of the unit only.
ReleaseUnitByStatus(r, u) ==
  /\ run[r].pc = "porting"
  /\ work[r][u].at = "held"
  /\ run[r].stop # "none"
  /\ unit' = IF unit[u].status = "running"
             THEN [unit EXCEPT ![u].status =
                     IF run[r].stop = "cancel" THEN "cancelled" ELSE "pending"]
             ELSE unit
  /\ SetWork(r, {u}, Idle)
  /\ UNCHANGED <<job, target, mirror, run, registry, node, canceller>>

\* The scan was cut short by a stop: the unit is handed back.
ReleaseUnit(r, u) ==
  /\ run[r].pc = "porting"
  /\ work[r][u].at = "held"
  /\ run[r].stop # "none"
  /\ unit' = IF Unfenced(r, u)
             THEN [unit EXCEPT ![u].status =
                     IF run[r].stop = "cancel" THEN "cancelled" ELSE "pending"]
             ELSE unit
  /\ SetWork(r, {u}, Idle)
  /\ UNCHANGED <<job, target, mirror, run, registry, node, canceller>>

\* A statement about one unit fails: it is logged and the worker goes on.
UnitWriteLost(r, u) ==
  /\ "db" \in Events
  /\ work[r][u].at \in {"checked", "held"}
  /\ SetWork(r, {u}, Idle)
  /\ UNCHANGED <<job, target, unit, mirror, run, registry, node, canceller>>

EndPortPhase(r) ==
  /\ run[r].pc = "porting"
  /\ At(r, {"checked", "held", "unstored"}) = {}
  /\ \/ run[r].stop = "none" /\ At(r, {"todo"}) = {} /\ Goto(r, "verifying")
     \/ run[r].stop # "none" /\ Goto(r, "settling")
  /\ SetWork(r, Unit, Idle)
  /\ UNCHANGED <<job, target, unit, mirror, registry, node, canceller>>

-----------------------------------------------------------------------------
(* The end of a run *)

\* Variant of SettleStopped: a shutdown settles the units as a cancel does.
SettleStoppedAsCancelled(r) ==
  /\ run[r].pc = "settling"
  /\ unit' = SetUnits({"pending"}, "cancelled")
  /\ target' = SetTargets({"pending", "running"}, "cancelled")
  /\ Goto(r, IF run[r].stop = "cancel" THEN "final" ELSE "handback")
  /\ UNCHANGED <<job, mirror, work, registry, node, canceller>>

\* settleStoppedJob
SettleStopped(r) ==
  /\ run[r].pc = "settling"
  /\ IF run[r].stop = "cancel"
     THEN /\ unit' = SetUnits({"pending"}, "cancelled")
          /\ target' = SetTargets({"pending", "running"}, "cancelled")
          /\ Goto(r, "final")
     ELSE /\ target' = SetTargets({"running"}, "pending")
          /\ Goto(r, "handback")
          /\ UNCHANGED unit
  /\ UNCHANGED <<job, mirror, work, registry, node, canceller>>

\* Shutdown: back to the queue, from running only.
HandBack(r) ==
  /\ run[r].pc = "handback"
  /\ IF CanMoveJob({"running"}) THEN MoveJob("queued") ELSE UNCHANGED job
  /\ Goto(r, "final")
  /\ UNCHANGED <<target, unit, mirror, work, registry, node, canceller>>

\* ensurePlanUnitsTerminal, then the units whose findings could not be queued.
VerifyUnits(r) ==
  /\ run[r].pc = "verifying"
  /\ Goto(r, IF (\E u \in Unit : unit[u].status \in {"pending", "running"})
                  \/ run[r].mirrorFailed
             THEN "failing" ELSE "completing")
  /\ UNCHANGED <<job, target, unit, mirror, work, registry, node, canceller>>

\* Variant of EndJob: the verdict is written without a guard.
EndJobUnguarded(r, from, verdict) ==
  /\ run[r].pc = from
  /\ MoveJob(verdict)
  /\ run' = [run EXCEPT ![r].pc = "closing", ![r].verdict = verdict]
  /\ UNCHANGED <<target, unit, mirror, work, registry, node, canceller>>

\* runClaimedJob: UpdateJobStatus from any status that has not ended.
EndJob(r, from, verdict) ==
  /\ run[r].pc = from
  /\ IF CanMoveJob(NotTerminal)
     THEN /\ MoveJob(verdict)
          /\ run' = [run EXCEPT ![r].pc = "closing", ![r].verdict = verdict]
     ELSE UNCHANGED job /\ Goto(r, "final")
  /\ UNCHANGED <<target, unit, mirror, work, registry, node, canceller>>

CompleteJob(r) == EndJob(r, "completing", "completed")
FailJob(r)     == EndJob(r, "failing", "failed")

\* The second statement of UpdateJobStatusFrom: the ended job's other targets.
CloseTargets(r) ==
  /\ run[r].pc = "closing"
  /\ target' = SetTargets(TargetStatus \ {"completed", "failed"}, run[r].verdict)
  /\ Goto(r, "final")
  /\ UNCHANGED <<job, unit, mirror, work, registry, node, canceller>>

\* The deferred release, after the alerts are sent: it deletes the entry of the
\* job, whichever run put it there.
Unregister(r) ==
  /\ run[r].pc = "final"
  /\ registry' = [registry EXCEPT ![Home[r]] = None]
  /\ Return(r)
  /\ UNCHANGED <<job, target, unit, mirror, work, node, canceller>>

\* A read or write of the run itself fails: the run fails the job ...
RunError(r) ==
  /\ "db" \in Events
  /\ run[r].pc \in {"started", "expanding", "listing", "sweeping", "verifying"}
  /\ Goto(r, "failing")
  /\ SetWork(r, Unit, Idle)
  /\ UNCHANGED <<job, target, unit, mirror, registry, node, canceller>>

\* ... or, at the end, leaves the row as it is and says so in the log.
EndWriteLost(r) ==
  /\ "db" \in Events
  /\ \/ run[r].pc \in {"handback", "completing", "failing", "closing"} /\ Goto(r, "final")
     \/ run[r].pc = "settling"
          /\ Goto(r, IF run[r].stop = "cancel" THEN "final" ELSE "handback")
     \/ run[r].pc \in {"taken", "refused"} /\ Return(r)
  /\ UNCHANGED <<job, target, unit, mirror, work, registry, node, canceller>>

-----------------------------------------------------------------------------
(* The heartbeat and the reaper *)

\* keepLeaseAlive: the ticker of a run beats while the registry of its replica
\* has the job.
Ticking(p) ==
  /\ registry[p] # None
  /\ \E r \in Run : Home[r] = p /\ Live(r)

Beat(p) ==
  /\ Ticking(p)
  /\ job.status = "running"
  /\ job' = [job EXCEPT !.fresh = TRUE]
  /\ UNCHANGED <<target, unit, mirror, run, work, registry, node, canceller>>

\* The lease passes with no heartbeat: nobody beats, or beats are lost.  A claim
\* has just touched the row, and its run registers at once.  Nothing reads how
\* old updated_at is of a job that is not running.
Lapse ==
  /\ job.status = "running"
  /\ \/ "lapse" \in Events
     \/ /\ \A p \in Replica : ~Ticking(p)
        /\ \A r \in Run : run[r].pc # "claimed"
  /\ job' = [job EXCEPT !.fresh = FALSE]
  /\ UNCHANGED <<target, unit, mirror, run, work, registry, node, canceller>>

\* Variants of ReapStalledJob: one resume too many; no end to the resumes but the
\* limit, at which the job is left alone.
ReapStalledJobOnceMore ==
  /\ \E p \in Replica : node[p] = "up"
  /\ job.status = "running" /\ ~job.fresh /\ job.resumes <= AutoResumeLimit
  /\ job' = [job EXCEPT !.status = "queued", !.resumes = @ + 1]
  /\ unit' = SetUnits({"running"}, "pending")
  /\ target' = SetTargets({"running"}, "pending")
  /\ UNCHANGED <<mirror, run, work, registry, node, canceller>>
ReapStalledJobResumeOnly == job.resumes < AutoResumeLimit /\ ReapStalledJobOnceMore

\* reapStalledJob, one transaction, on whichever replica polls first.
ReapStalledJob ==
  /\ \E p \in Replica : node[p] = "up"
  /\ job.status = "running" /\ ~job.fresh
  /\ IF job.resumes < AutoResumeLimit
     THEN /\ job' = [job EXCEPT !.status = "queued", !.resumes = @ + 1]
          /\ unit' = SetUnits({"running"}, "pending")
          /\ target' = SetTargets({"running"}, "pending")
     ELSE /\ job' = [job EXCEPT !.status = "failed"]
          /\ unit' = SetUnits({"running"}, "failed")
          /\ target' = SetTargets(TargetStatus \ {"completed", "failed"}, "failed")
  /\ UNCHANGED <<mirror, run, work, registry, node, canceller>>

-----------------------------------------------------------------------------
(* What a person does *)

\* CancelJob, handled on replica p: the row, then the signal to the run that
\* p has registered, then the targets and the units never reached.
CancelJob(p) ==
  /\ "cancel" \in Events
  /\ node[p] = "up" /\ canceller.at = "idle"
  /\ CanMoveJob(NotTerminal)
  /\ MoveJob("cancelled")
  /\ canceller' = [at |-> "signal", by |-> p]
  /\ UNCHANGED <<target, unit, mirror, run, work, registry, node>>

CancelSignal ==
  /\ canceller.at = "signal"
  /\ run' = [r \in Run |->
               IF registry[canceller.by] = r /\ run[r].stop = "none"
               THEN [run[r] EXCEPT !.stop = "cancel"] ELSE run[r]]
  /\ canceller' = [canceller EXCEPT !.at = "targets"]
  /\ UNCHANGED <<job, target, unit, mirror, work, registry, node>>

CancelTargets ==
  /\ canceller.at = "targets"
  /\ target' = SetTargets({"pending"}, "cancelled")
  /\ canceller' = [canceller EXCEPT !.at = "units"]
  /\ UNCHANGED <<job, unit, mirror, run, work, registry, node>>

CancelUnits ==
  /\ canceller.at = "units"
  /\ unit' = SetUnits({"pending"}, "cancelled")
  /\ canceller' = [canceller EXCEPT !.at = "done"]
  /\ UNCHANGED <<job, target, mirror, run, work, registry, node>>

\* The first failing statement ends the handler; the job stays cancelled.
CancelWriteLost ==
  /\ "db" \in Events
  /\ canceller.at \in {"targets", "units"}
  /\ canceller' = [canceller EXCEPT !.at = "lost"]
  /\ UNCHANGED <<job, target, unit, mirror, run, work, registry, node>>

\* Variant of RequeueJobForRetry: every target starts again.
RequeueJobForRetryAll ==
  /\ "retry" \in Events
  /\ CanMoveJob({"queued", "failed"})
  /\ MoveJob("queued")
  /\ target' = SetTargets(TargetStatus, "pending")
  /\ unit' = SetUnits(UnitStatus \ {"absent", "done"}, "pending")
  /\ UNCHANGED <<mirror, run, work, registry, node, canceller>>

\* RequeueJobForRetry, one transaction.
RequeueJobForRetry ==
  /\ "retry" \in Events
  /\ CanMoveJob({"queued", "failed"})
  /\ MoveJob("queued")
  /\ target' = SetTargets(TargetStatus \ {"completed"}, "pending")
  /\ unit' = SetUnits(UnitStatus \ {"absent", "done"}, "pending")
  /\ UNCHANGED <<mirror, run, work, registry, node, canceller>>

-----------------------------------------------------------------------------
(* Replicas *)

\* Stop: no delivery starts any more, and every registered run is told.
Stop(p) ==
  /\ "stop" \in Events
  /\ node[p] = "up"
  /\ node' = [node EXCEPT ![p] = "stopping"]
  /\ run' = [r \in Run |->
               IF Home[r] = p /\ run[r].stop = "none"
                    /\ run[r].pc \notin {"off", "taken", "refused", "claimed", "over"}
               THEN [run[r] EXCEPT !.stop = "shutdown"] ELSE run[r]]
  /\ UNCHANGED <<job, target, unit, mirror, work, registry, canceller>>

\* The process is gone, and with it its runs and its registry.
Gone(p) ==
  /\ node' = [node EXCEPT ![p] = "down"]
  /\ registry' = [registry EXCEPT ![p] = None]
  /\ run' = [r \in Run |-> IF Home[r] = p /\ Live(r)
                             THEN Over ELSE run[r]]
  /\ work' = [r \in Run |-> IF Home[r] = p THEN [u \in Unit |-> Idle] ELSE work[r]]
  /\ canceller' = IF canceller.by = p /\ canceller.at # "done"
                  THEN [canceller EXCEPT !.at = "lost"] ELSE canceller
  /\ UNCHANGED <<job, target, unit, mirror>>

\* Stop waits for the runs in flight, and for at most stopGrace.
Exit(p) ==
  /\ node[p] = "stopping"
  /\ "crash" \in Events \/ \A r \in Run : Home[r] = p => ~Live(r)
  /\ Gone(p)

Crash(p) ==
  /\ "crash" \in Events
  /\ node[p] = "up"
  /\ Gone(p)

Restart(p) ==
  /\ node[p] = "down"
  /\ node' = [node EXCEPT ![p] = "up"]
  /\ UNCHANGED <<job, target, unit, mirror, run, work, registry, canceller>>

-----------------------------------------------------------------------------
RunUnit(r, u) ==
  \/ RefuseSwept(r, u) \/ CheckUnit(r, u) \/ RefuseUnit(r, u) \/ ClaimUnit(r, u)
  \/ SkipUnit(r, u) \/ CommitUnit(r, u) \/ DiscardUnit(r, u) \/ CommitRefused(r, u)
  \/ FailScannedUnit(r, u) \/ ReleaseUnit(r, u) \/ UnitWriteLost(r, u)

RunStep(r) ==
  \/ LoseClaim(r) \/ RateLimited(r) \/ SettleRefused(r) \/ ClaimJob(r)
  \/ Register(r) \/ Begin(r) \/ BeginStopped(r)
  \/ \E t \in Target : ExpandBatch(r, t) \/ SettleExpanded(r, t)
  \/ ResetOrphanedUnits(r)
  \/ ListSweep(r) \/ \E C \in SUBSET Unit : SweepChunk(r, C)
  \/ RecordLiveness(r) \/ SweepStopped(r)
  \/ ListUnits(r) \/ StopPool(r) \/ EndPortPhase(r)
  \/ \E u \in Unit : RunUnit(r, u)
  \/ SettleStopped(r) \/ HandBack(r) \/ VerifyUnits(r)
  \/ CompleteJob(r) \/ FailJob(r) \/ CloseTargets(r) \/ Unregister(r)
  \/ RunError(r) \/ EndWriteLost(r)

CancelStep == CancelSignal \/ CancelTargets \/ CancelUnits \/ CancelWriteLost

ReplicaStep(p) ==
  Beat(p) \/ CancelJob(p) \/ Stop(p) \/ Exit(p) \/ Crash(p) \/ Restart(p)

Next ==
  \/ \E r \in Run : Deliver(r) \/ RunStep(r)
  \/ \E p \in Replica : ReplicaStep(p)
  \/ CancelStep \/ Lapse \/ ReapStalledJob \/ RequeueJobForRetry

Spec == Init /\ [][Next]_vars
-----------------------------------------------------------------------------
(* Safety, whatever happens *)

\* A host's findings enter the ingestion queue exactly once, with the `done` of
\* its unit, however many runs scan it (jobunits.Commit: fence, delete-and-insert,
\* one transaction); a host the sweep found down is done with nothing queued.
StoredOnce ==
  \A u \in Unit :
    mirror[u] = IF unit[u].status = "done" /\ unit[u].liveness # "down" THEN 1 ELSE 0

\* Results stored are those of the last run that claimed the unit: while a run
\* still holds the unit's latest attempt, nobody has made it done (the attempt in
\* the fence of jobunits.Commit).
NoSupersededStore ==
  \A r \in Run, u \in Unit :
    work[r][u].at \in {"held", "unstored"} /\ work[r][u].attempt = unit[u].attempts
      => unit[u].status # "done"

\* A unit in flight is cancelled by nobody but the worker that holds its latest
\* attempt: releaseUnit "never touches a unit a later owner has since claimed".
CancelledByItsHolder ==
  [][\A u \in Unit :
       unit[u].status = "running" /\ unit'[u].status = "cancelled"
         => \E r \in Run : /\ work[r][u] = [at |-> "held", attempt |-> unit[u].attempts]
                           /\ work'[r][u] = Idle]_vars

\* A target that is completed keeps that outcome through cancels, retries, stops
\* and reaps (every UPDATE of discovery_targets excludes it).
CompletedTargetsKeepOutcome ==
  [][\A t \in Target : target[t] = "completed" => target'[t] = "completed"]_vars

\* The rows of the job implement what ScanLedger promises.
Ledger == INSTANCE ScanLedger WITH
            Host    <- Unit,
            status  <- job.status,
            resumes <- job.resumes,
            done    <- {u \in Unit : unit[u].status = "done"},
            queued  <- mirror
KeepsLedger == Ledger!LedgerSpec

-----------------------------------------------------------------------------
(* Safety while heartbeats are reliable (no "lapse" in Events) *)

Scanning(r) == run[r].pc \in {"expanding", "listing", "sweeping", "porting"}

\* "Only one processor runs a job": the claim, the reaper's lease and the guards
\* on every hand-back together leave no time at which two runs scan it.
OneScanner == \A r, q \in Run : Scanning(r) /\ Scanning(q) => r = q

\* A completed job has scanned, or refused with a reason, every address its
\* targets expand to (ensureUnits, ensurePlanUnitsTerminal).
CompletedMeansScanned ==
  job.status = "completed" => \A u \in Unit : unit[u].status \in {"done", "failed"}

\* A target reads completed only if some host of it was scanned or swept
\* (SettleTarget and the closing statement of UpdateJobStatusFrom agree).
CompletedTargetHasDoneUnit ==
  \A t \in Target : target[t] = "completed" => \E u \in UnitsOf(t) : unit[u].status = "done"

-----------------------------------------------------------------------------
(* Liveness *)

\* A started run keeps going unless its replica goes away; a replica that is
\* down comes back; time passes; the stuck-job poll runs on every replica up.
Fairness ==
  /\ \A r \in Run : WF_vars(RunStep(r))
  /\ \A p \in Replica : WF_vars(Restart(p))
  /\ WF_vars(Lapse) /\ WF_vars(ReapStalledJob)

FairSpec == Spec /\ Fairness

\* A job does not stay running for ever, whoever died: its run ends it or hands
\* it back, or the reaper does, provided some replica stays up in the end.
RunningEnds ==
  <>[](\E p \in Replica : node[p] = "up")
    => (job.status = "running" ~> job.status # "running")
=============================================================================
