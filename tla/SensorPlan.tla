----------------------------- MODULE SensorPlan -----------------------------
(***************************************************************************)
(* One scan-plan discovery job that runs on a tenant sensor.               *)
(* cluster-sensor-service prepares the job's units and writes the command; *)
(* the sensor collects it on a heartbeat, runs it, reports host by host    *)
(* and completes it through sensor-manager; a sweep gives up on dispatches *)
(* that went wrong; a person may cancel the job or retry it.               *)
(*                                                                         *)
(* Every SQL transaction is one action.  The sensor's calls travel over    *)
(* HTTP: a request may be lost, served late, or served and its answer      *)
(* lost.  Time is abstracted to job.fresh (a report or the pickup within   *)
(* the progress lease) and to a command's expired flag.                    *)
(*                                                                         *)
(* A target's addresses fit in one insert batch here; PlanJob has the      *)
(* batches of ensureUnits, and the runs of the Platform Sensor.            *)
(***************************************************************************)
EXTENDS Naturals, FiniteSets

CONSTANTS
  Delivery,         \* deliveries of the job's message, on any replica
  Sweeper,          \* replicas that run the sweep of stale dispatches
  Target, Unit,     \* discovery_targets rows and the addresses they expand to
  TargetOf,         \* TargetOf[u]: the target the address u belongs to
  Refusable,        \* addresses the dispatch guard may refuse
  Silent,           \* addresses of which the scan finds nothing to queue
  ReportAttempts,   \* Config.ReportAttempts
  Events            \* which of SensorEvents can happen

SensorEvents == {"cancel", "retry", "crash", "timeout", "scan", "completion lost"}

ASSUME SensorTargetAssumption == TargetOf \in [Unit -> Target]
ASSUME SensorUnitAssumption   == Refusable \subseteq Unit /\ Silent \subseteq Unit
ASSUME SensorLimitAssumption  == /\ ReportAttempts \in Nat \ {0}
                                 /\ IsFiniteSet(Delivery) /\ Events \subseteq SensorEvents

\* Each delivery dispatches the job at most once; dispatches are numbered.
Dispatch == 1..Cardinality(Delivery)

VARIABLES
  job,        \* the discovery_jobs row
  target,     \* status of each discovery_targets row
  unit,       \* the discovery_job_units rows
  mirror,     \* how often each unit's findings were queued in sensor_discoveries
  delivery,   \* where each delivery is in dispatchToSensor
  command,    \* the sensor_commands row of each dispatch, with its plan
  run,        \* the sensor's run of each command: queue, worker and outcome
  work,       \* how far the run is with the report of each host
  request,    \* unit reports on their way to, or being served by, sensor-manager
  sweep,      \* where each sweeper is with the stale dispatch it found
  canceller,  \* the CancelJob handler
  told        \* the cancel_discovery_job command, and planJobs.cancelled

sensorVars == <<job, target, unit, mirror, delivery, command, run, work, request,
                sweep, canceller, told>>
rows == <<job, target, unit, mirror>>
sensor == <<run, work>>

-----------------------------------------------------------------------------
Terminal     == {"completed", "failed", "cancelled"}
JobStatus    == {"queued", "awaiting_sensor"} \cup Terminal
NotTerminal  == JobStatus \ Terminal
TargetStatus == {"pending", "completed", "failed", "cancelled"}
UnitStatus   == {"absent", "pending", "done", "failed", "cancelled"}

NoCommand  == [status |-> "none", attempt |-> 0, expired |-> FALSE, plan |-> {}]
NoWork     == [at |-> "none", tries |-> 0]
NotRunning == [at |-> "none", stop |-> FALSE, verdict |-> "completed"]
Over       == [NotRunning EXCEPT !.at = "over"]

TypeOK ==
  /\ job \in [status: JobStatus, fresh: BOOLEAN]
  /\ target \in [Target -> TargetStatus]
  /\ unit \in [Unit -> [status: UnitStatus, attempts: Nat]]
  /\ mirror \in [Unit -> Nat]
  /\ delivery \in [Delivery -> {"off", "taken", "prepared", "failing", "closing", "over"}]
  /\ command \in [Dispatch -> [status: {"none", "pending", "delivered", "completed", "failed"},
                               attempt: Nat, expired: BOOLEAN, plan: SUBSET Unit]]
  /\ run \in [Dispatch -> [at: {"none", "refused", "queued", "scanning", "finishing",
                                "acking", "over"},
                           stop: BOOLEAN, verdict: {"completed", "failed"}]]
  /\ work \in [Dispatch -> [Unit -> [at: {"none", "todo", "sent", "answered", "unreported"},
                                     tries: 0..ReportAttempts]]]
  /\ request \subseteq [by: Dispatch, unit: Unit, try: 1..ReportAttempts, leased: BOOLEAN]
  /\ sweep \in [Sweeper -> [at: {"idle", "expire", "fail", "close", "targets"},
                            command: {0} \cup Dispatch]]
  /\ canceller \in {"idle", "targets", "units", "revoke", "tell", "over"}
  /\ told \in [pending: BOOLEAN, remembered: BOOLEAN]

Init ==
  /\ job = [status |-> "queued", fresh |-> TRUE]
  /\ target = [t \in Target |-> "pending"]
  /\ unit = [u \in Unit |-> [status |-> "absent", attempts |-> 0]]
  /\ mirror = [u \in Unit |-> 0]
  /\ delivery = [m \in Delivery |-> "off"]
  /\ command = [d \in Dispatch |-> NoCommand]
  /\ run = [d \in Dispatch |-> NotRunning]
  /\ work = [d \in Dispatch |-> [u \in Unit |-> NoWork]]
  /\ request = {}
  /\ sweep = [s \in Sweeper |-> [at |-> "idle", command |-> 0]]
  /\ canceller = "idle"
  /\ told = [pending |-> FALSE, remembered |-> FALSE]

-----------------------------------------------------------------------------
(* The SQL statements the handlers share *)

UnitsOf(t) == {u \in Unit : TargetOf[u] = t}
SetUnits(from, to) ==
  [u \in Unit |-> IF unit[u].status \in from THEN [unit[u] EXCEPT !.status = to] ELSE unit[u]]
SetTargets(from, to) == [t \in Target |-> IF target[t] \in from THEN to ELSE target[t]]

\* jobunits.SettleTarget of the targets ts after the units have become us.
SettleTargets(us, ts) ==
  [t \in Target |->
     LET has(s) == \E u \in UnitsOf(t) : us[u].status = s
     IN IF t \notin ts \/ target[t] # "pending" \/ has("pending") THEN target[t]
        ELSE IF has("cancelled") THEN "cancelled"
        ELSE IF has("done") THEN "completed" ELSE "failed"]

\* UpdateJobStatus: a new status, and a new updated_at.
MoveJob(to) == job' = [status |-> to, fresh |-> TRUE]
CloseTargets == target' = SetTargets({"pending", "cancelled"}, "failed")

Latest == Cardinality({d \in Dispatch : command[d].status # "none"})

-----------------------------------------------------------------------------
(* dispatchToSensor *)

TakeDelivery(m) ==
  /\ delivery[m] = "off" /\ job.status = "queued"
  /\ delivery' = [delivery EXCEPT ![m] = "taken"]
  /\ UNCHANGED <<rows, command, sensor, request, sweep, canceller, told>>

\* The tenant is over its rate limit: a job still queued is failed.
RateLimited(m) ==
  /\ delivery[m] = "off" /\ job.status = "queued"
  /\ MoveJob("failed")
  /\ delivery' = [delivery EXCEPT ![m] = "closing"]
  /\ UNCHANGED <<target, unit, mirror, command, sensor, request, sweep, canceller, told>>

\* ensureUnits: the units of a target that has none, each address authorized.
ExpandTarget(m, t) ==
  /\ delivery[m] = "taken"
  /\ \A u \in UnitsOf(t) : unit[u].status = "absent"
  /\ \E refused \in SUBSET (UnitsOf(t) \cap Refusable) :
       LET us == [u \in Unit |-> IF TargetOf[u] # t THEN unit[u]
                                 ELSE [unit[u] EXCEPT !.status =
                                         IF u \in refused THEN "failed" ELSE "pending"]]
       IN unit' = us /\ target' = SettleTargets(us, {t})
  /\ UNCHANGED <<job, mirror, delivery, command, sensor, request, sweep, canceller, told>>

\* preparePlanDispatch then authorizes every pending unit again.
Reauthorize(m) ==
  /\ delivery[m] = "taken"
  /\ \A u \in Unit : unit[u].status # "absent"
  /\ \E refused \in SUBSET {u \in Refusable : unit[u].status = "pending"} :
       LET us == [u \in Unit |-> IF u \in refused THEN [unit[u] EXCEPT !.status = "failed"]
                                                  ELSE unit[u]]
       IN unit' = us /\ target' = SettleTargets(us, {TargetOf[u] : u \in refused})
  /\ delivery' = [delivery EXCEPT ![m] = "prepared"]
  /\ UNCHANGED <<job, mirror, command, sensor, request, sweep, canceller, told>>

NextAttempt ==
  LET attempts == {0} \cup {unit[u].attempts : u \in Unit}
  IN 1 + CHOOSE n \in attempts : \A k \in attempts : k <= n

Pending == {u \in Unit : unit[u].status = "pending"}

\* Variant of DispatchCommand: only units never handed over are stamped.
DispatchCommandStampNew(m) ==
  /\ delivery[m] = "prepared" /\ job.status = "queued"
  /\ unit' = [u \in Unit |-> IF u \in Pending /\ unit[u].attempts = 0
                             THEN [unit[u] EXCEPT !.attempts = NextAttempt] ELSE unit[u]]
  /\ command' = [command EXCEPT ![Latest + 1] =
                   [status |-> "pending", attempt |-> NextAttempt, expired |-> FALSE,
                    plan |-> Pending]]
  /\ MoveJob("awaiting_sensor")
  /\ delivery' = [delivery EXCEPT ![m] = "over"]
  /\ UNCHANGED <<target, mirror, sensor, request, sweep, canceller, told>>

\* The dispatch transaction: stamp the pending units, write the command, and
\* move the job, which must still be queued.
DispatchCommand(m) ==
  /\ delivery[m] = "prepared" /\ job.status = "queued"
  /\ unit' = [u \in Unit |-> IF u \in Pending THEN [unit[u] EXCEPT !.attempts = NextAttempt]
                                              ELSE unit[u]]
  /\ command' = [command EXCEPT ![Latest + 1] =
                   [status |-> "pending", attempt |-> NextAttempt, expired |-> FALSE,
                    plan |-> Pending]]
  /\ MoveJob("awaiting_sensor")
  /\ delivery' = [delivery EXCEPT ![m] = "over"]
  /\ UNCHANGED <<target, mirror, sensor, request, sweep, canceller, told>>

\* The policy is paused, or another delivery dispatched the job first.
LeaveDispatch(m) ==
  /\ delivery[m] = "prepared"
  /\ delivery' = [delivery EXCEPT ![m] = "over"]
  /\ UNCHANGED <<rows, command, sensor, request, sweep, canceller, told>>

\* The sensor is not live or cannot run plans, the units could not be prepared, or
\* the transaction failed and the job still reads queued.
CannotDispatch(m) ==
  /\ \/ delivery[m] = "taken"
     \/ delivery[m] = "prepared" /\ job.status = "queued"
  /\ delivery' = [delivery EXCEPT ![m] = "failing"]
  /\ UNCHANGED <<rows, command, sensor, request, sweep, canceller, told>>

FailDispatch(m) ==
  /\ delivery[m] = "failing"
  /\ IF job.status \in NotTerminal
     THEN MoveJob("failed") /\ delivery' = [delivery EXCEPT ![m] = "closing"]
     ELSE UNCHANGED job /\ delivery' = [delivery EXCEPT ![m] = "over"]
  /\ UNCHANGED <<target, unit, mirror, command, sensor, request, sweep, canceller, told>>

CloseFailedDispatch(m) ==
  /\ delivery[m] = "closing"
  /\ CloseTargets
  /\ delivery' = [delivery EXCEPT ![m] = "over"]
  /\ UNCHANGED <<job, unit, mirror, command, sensor, request, sweep, canceller, told>>

-----------------------------------------------------------------------------
(* The sensor: one worker, which runs the commands it queued in order *)

Working(d) == run[d].at \in {"scanning", "finishing", "acking"}
SetWork(d, us, w) ==
  work' = [work EXCEPT ![d] = [u \in Unit |-> IF u \in us THEN w ELSE work[d][u]]]

\* GetPendingCommands: the command is delivered; the answer may be lost, or the
\* sensor's queue be full.
CollectCommand(d) ==
  /\ command[d].status = "pending" /\ ~command[d].expired
  /\ command' = [command EXCEPT ![d].status = "delivered"]
  /\ job' = [job EXCEPT !.fresh = TRUE]
  /\ \E at \in {"queued", "refused", "over"} : run' = [run EXCEPT ![d].at = at]
  /\ UNCHANGED <<target, unit, mirror, delivery, work, request, sweep, canceller, told>>

\* startPlanJob: a job cancelled while it waited is dropped.
StartRun(d) ==
  /\ run[d].at = "queued"
  /\ \A e \in Dispatch : ~Working(e) /\ (run[e].at = "queued" => d <= e)
  /\ IF told.remembered
     THEN /\ run' = [run EXCEPT ![d].at = "acking", ![d].verdict = "failed"]
          /\ told' = [told EXCEPT !.remembered = FALSE]
          /\ UNCHANGED work
     ELSE /\ run' = [run EXCEPT ![d].at = "scanning"]
          /\ SetWork(d, command[d].plan, [at |-> "todo", tries |-> 0])
          /\ UNCHANGED told
  /\ UNCHANGED <<rows, delivery, command, request, sweep, canceller>>

\* A host is scanned, or refused by the sensor's own rules, and its report sent.
Report(d, u) ==
  /\ run[d].at = "scanning" /\ ~run[d].stop
  /\ work[d][u].at = "todo"
  /\ LET try == work[d][u].tries + 1
     IN /\ SetWork(d, {u}, [at |-> "sent", tries |-> try])
        /\ request' = request \cup {[by |-> d, unit |-> u, try |-> try, leased |-> FALSE]}
  /\ UNCHANGED <<rows, delivery, command, run, sweep, canceller, told>>

\* Variant of ReportFails: one attempt too many.
ReportFailsOnceMore(d, u) ==
  /\ "timeout" \in Events
  /\ run[d].at = "scanning" /\ work[d][u].at = "sent"
  /\ SetWork(d, {u}, [work[d][u] EXCEPT !.at =
                        IF work[d][u].tries <= ReportAttempts THEN "todo" ELSE "unreported"])
  /\ UNCHANGED <<rows, delivery, command, run, request, sweep, canceller, told>>

\* The call fails for the sensor, whatever becomes of the request: it is sent
\* again, and given up after ReportAttempts.
ReportFails(d, u) ==
  /\ "timeout" \in Events
  /\ run[d].at = "scanning" /\ work[d][u].at = "sent"
  /\ SetWork(d, {u}, [work[d][u] EXCEPT !.at =
                        IF work[d][u].tries < ReportAttempts THEN "todo" ELSE "unreported"])
  /\ UNCHANGED <<rows, delivery, command, run, request, sweep, canceller, told>>

\* A ping renews the lease of a job that awaits the sensor, and stops the run of one
\* that does not.
Ping(d) ==
  /\ run[d].at = "scanning"
  /\ IF job.status = "awaiting_sensor"
     THEN job' = [job EXCEPT !.fresh = TRUE] /\ UNCHANGED run
     ELSE run' = [run EXCEPT ![d].stop = TRUE] /\ UNCHANGED job
  /\ UNCHANGED <<target, unit, mirror, delivery, command, work, request, sweep, canceller, told>>

\* ErrJobStopped or a cancel: the hosts in flight are abandoned.
StopRun(d) ==
  /\ run[d].at = "scanning" /\ run[d].stop
  /\ run' = [run EXCEPT ![d] = [at |-> "acking", stop |-> FALSE, verdict |-> "failed"]]
  /\ SetWork(d, Unit, NoWork)
  /\ UNCHANGED <<rows, delivery, command, request, sweep, canceller, told>>

\* Every host is answered for; or the engine failed.
FinishRun(d) ==
  /\ run[d].at = "scanning" /\ ~run[d].stop
  /\ \/ /\ \A u \in Unit : work[d][u].at \in {"none", "answered", "unreported"}
        /\ run' = [run EXCEPT ![d].at = "finishing"]
     \/ /\ "scan" \in Events /\ \A u \in Unit : work[d][u].at # "sent"
        /\ run' = [run EXCEPT ![d].at = "finishing", ![d].verdict = "failed"]
  /\ SetWork(d, Unit, NoWork)
  /\ UNCHANGED <<rows, delivery, command, request, sweep, canceller, told>>

\* The acknowledgement of a command that was run or refused; it may be lost.
Acknowledge(d) ==
  /\ run[d].at \in {"acking", "refused"}
  /\ \/ command' = [command EXCEPT ![d].status =
                      IF run[d].at = "acking" /\ run[d].verdict = "completed"
                      THEN "completed" ELSE "failed"]
     \/ UNCHANGED command
  /\ run' = [run EXCEPT ![d] = Over]
  /\ UNCHANGED <<rows, delivery, work, request, sweep, canceller, told>>

\* cancel_discovery_job reaches the sensor: it stops the run at work, or is
\* remembered for one that waits.
CollectCancel ==
  /\ told.pending
  /\ IF \E d \in Dispatch : Working(d)
     THEN /\ run' = [d \in Dispatch |-> IF run[d].at = "scanning"
                                        THEN [run[d] EXCEPT !.stop = TRUE] ELSE run[d]]
          /\ told' = [told EXCEPT !.pending = FALSE]
     ELSE UNCHANGED run /\ told' = [pending |-> FALSE, remembered |-> TRUE]
  /\ UNCHANGED <<rows, delivery, command, work, request, sweep, canceller>>

\* The sensor's process dies and starts again: queue, run and memory are gone.
SensorCrash ==
  /\ "crash" \in Events
  /\ \E d \in Dispatch : run[d].at \notin {"none", "over"}
  /\ run' = [d \in Dispatch |-> IF run[d].at = "none" THEN run[d]
                                ELSE Over]
  /\ work' = [d \in Dispatch |-> [u \in Unit |-> NoWork]]
  /\ told' = [told EXCEPT !.remembered = FALSE]
  /\ UNCHANGED <<rows, delivery, command, request, sweep, canceller>>

-----------------------------------------------------------------------------
(* sensor-manager: RecordSensorBatch and CompleteSensorJob *)

\* The call that sent q still waits for the answer.
Waiting(q) == /\ run[q.by].at = "scanning"
              /\ work[q.by][q.unit] = [at |-> "sent", tries |-> q.try]

\* The answer to q reaches the call, or nobody.
AnswerStop(q) ==
  /\ \/ Waiting(q) /\ run' = [run EXCEPT ![q.by].stop = TRUE]
     \/ (~Waiting(q) \/ "timeout" \in Events) /\ UNCHANGED run
  /\ UNCHANGED work
AnswerStored(q) ==
  /\ \/ Waiting(q) /\ SetWork(q.by, {q.unit}, [at |-> "answered", tries |-> 0])
     \/ (~Waiting(q) \/ "timeout" \in Events) /\ UNCHANGED work
  /\ UNCHANGED run

\* The first transaction: the lease is renewed, or the sensor told to stop.
RenewLease(q) ==
  /\ ~q.leased
  /\ IF job.status = "awaiting_sensor"
     THEN /\ job' = [job EXCEPT !.fresh = TRUE]
          /\ request' = (request \ {q}) \cup {[q EXCEPT !.leased = TRUE]}
          /\ UNCHANGED sensor
     ELSE /\ request' = request \ {q}
          /\ AnswerStop(q)
          /\ UNCHANGED job
  /\ UNCHANGED <<target, unit, mirror, delivery, command, sweep, canceller, told>>

\* What is stored of a host's result: done with its findings queued, or failed.
Store(u, status) ==
  LET us == [unit EXCEPT ![u].status = status]
  IN /\ unit' = us
     /\ target' = SettleTargets(us, {TargetOf[u]})
     /\ mirror' = IF status = "done" /\ u \notin Silent
                  THEN [mirror EXCEPT ![u] = @ + 1] ELSE mirror

\* Variants of RecordUnit: the job is not read again; the attempt is not compared;
\* a unit already answered for is stored again.
RecordUnitJobUnread(q) ==
  /\ q.leased
  /\ request' = request \ {q}
  /\ IF unit[q.unit] = [status |-> "pending", attempts |-> command[q.by].attempt]
     THEN \E status \in {"done", "failed"} : Store(q.unit, status)
     ELSE UNCHANGED <<target, unit, mirror>>
  /\ AnswerStored(q)
  /\ UNCHANGED <<job, delivery, command, sweep, canceller, told>>
RecordUnitAnyAttempt(q) ==
  /\ q.leased
  /\ request' = request \ {q}
  /\ IF job.status # "awaiting_sensor"
     THEN AnswerStop(q) /\ UNCHANGED <<target, unit, mirror>>
     ELSE /\ IF unit[q.unit].status = "pending"
             THEN \E status \in {"done", "failed"} : Store(q.unit, status)
             ELSE UNCHANGED <<target, unit, mirror>>
          /\ AnswerStored(q)
  /\ UNCHANGED <<job, delivery, command, sweep, canceller, told>>
RecordUnitAgain(q) ==
  /\ q.leased
  /\ request' = request \ {q}
  /\ IF job.status # "awaiting_sensor"
     THEN AnswerStop(q) /\ UNCHANGED <<target, unit, mirror>>
     ELSE /\ IF unit[q.unit].attempts = command[q.by].attempt
             THEN \E status \in {"done", "failed"} : Store(q.unit, status)
             ELSE UNCHANGED <<target, unit, mirror>>
          /\ AnswerStored(q)
  /\ UNCHANGED <<job, delivery, command, sweep, canceller, told>>

\* recordSensorUnit, one transaction: stored if the job still awaits the sensor and
\* the unit is pending under the attempt of the report; else stale or a duplicate.
RecordUnit(q) ==
  /\ q.leased
  /\ request' = request \ {q}
  /\ IF job.status # "awaiting_sensor"
     THEN AnswerStop(q) /\ UNCHANGED <<target, unit, mirror>>
     ELSE /\ IF unit[q.unit] = [status |-> "pending", attempts |-> command[q.by].attempt]
             THEN \E status \in {"done", "failed"} : Store(q.unit, status)
             ELSE UNCHANGED <<target, unit, mirror>>
          /\ AnswerStored(q)
  /\ UNCHANGED <<job, delivery, command, sweep, canceller, told>>

\* A request that never arrives, or whose service fails.
LoseRequest(q) ==
  /\ "timeout" \in Events
  /\ request' = request \ {q}
  /\ UNCHANGED <<rows, delivery, command, sensor, sweep, canceller, told>>

\* Variant of CompleteJob: the units nobody reported are left as they are.
CompleteJobUnsettled(d) ==
  /\ run[d].at = "finishing"
  /\ run' = [run EXCEPT ![d].at = "acking"]
  /\ IF job.status # "awaiting_sensor" THEN UNCHANGED <<job, target>>
     ELSE MoveJob(run[d].verdict) /\ target' = SetTargets({"pending"}, run[d].verdict)
  /\ UNCHANGED <<unit, mirror, delivery, command, work, request, sweep, canceller, told>>

\* Variant of CompleteJob: the status of the job is not read.
CompleteJobUnread(d) ==
  /\ run[d].at = "finishing"
  /\ run' = [run EXCEPT ![d].at = "acking"]
  /\ MoveJob(run[d].verdict)
  /\ unit' = SetUnits({"pending"}, "failed")
  /\ target' = SetTargets({"pending"}, run[d].verdict)
  /\ UNCHANGED <<mirror, delivery, command, work, request, sweep, canceller, told>>

\* CompleteSensorJob: the job ends with the sensor's verdict unless it has left
\* awaiting_sensor; units nobody reported are failed (FinishSensorPlanUnits).
CompleteJob(d) ==
  /\ run[d].at = "finishing"
  /\ run' = [run EXCEPT ![d].at = "acking"]
  /\ IF job.status # "awaiting_sensor" THEN UNCHANGED <<job, target, unit>>
     ELSE LET us == SetUnits({"pending"}, "failed")
              settled == SettleTargets(us, {TargetOf[u] : u \in Pending})
          IN /\ MoveJob(run[d].verdict)
             /\ unit' = us
             /\ target' = [t \in Target |-> IF settled[t] = "pending" THEN run[d].verdict
                                                                      ELSE settled[t]]
  /\ UNCHANGED <<mirror, delivery, command, work, request, sweep, canceller, told>>

\* CompleteDiscoveryJob fails: it is logged and the command acknowledged all the same.
CompletionLost(d) ==
  /\ "completion lost" \in Events
  /\ run[d].at = "finishing"
  /\ run' = [run EXCEPT ![d].at = "acking"]
  /\ UNCHANGED <<rows, delivery, command, work, request, sweep, canceller, told>>

-----------------------------------------------------------------------------
(* The sweep of stale dispatches *)

\* A command nobody collected in time; the lease passes without a report.
ExpireCommand(d) ==
  /\ command[d].status = "pending" /\ ~command[d].expired
  /\ command' = [command EXCEPT ![d].expired = TRUE]
  /\ UNCHANGED <<rows, delivery, sensor, request, sweep, canceller, told>>

LapseProgress ==
  /\ job.status = "awaiting_sensor" /\ command[Latest].status = "delivered"
  /\ job' = [job EXCEPT !.fresh = FALSE]
  /\ UNCHANGED <<target, unit, mirror, delivery, command, sensor, request, sweep, canceller, told>>

\* Variant of Stale: a command the sensor failed is not looked for.
StaleSilent ==
  /\ job.status = "awaiting_sensor"
  /\ \/ command[Latest].status = "pending" /\ command[Latest].expired
     \/ command[Latest].status = "delivered" /\ ~job.fresh

\* findStaleDispatches, of the job's latest command.
Stale ==
  /\ job.status = "awaiting_sensor"
  /\ \/ command[Latest].status = "pending" /\ command[Latest].expired
     \/ command[Latest].status = "failed"
     \/ command[Latest].status = "delivered" /\ ~job.fresh

FindStale(s) ==
  /\ sweep[s].at = "idle" /\ Stale
  /\ sweep' = [sweep EXCEPT ![s] =
                 [at |-> IF command[Latest].status = "pending" THEN "expire" ELSE "fail",
                  command |-> Latest]]
  /\ UNCHANGED <<rows, delivery, command, sensor, request, canceller, told>>

WithdrawStale(s) ==
  /\ sweep[s].at = "expire"
  /\ LET c == sweep[s].command
     IN command' = IF command[c].status = "pending"
                   THEN [command EXCEPT ![c].status = "failed", ![c].expired = FALSE] ELSE command
  /\ sweep' = [sweep EXCEPT ![s].at = "fail"]
  /\ UNCHANGED <<rows, delivery, sensor, request, canceller, told>>

FailStale(s) ==
  /\ sweep[s].at = "fail"
  /\ IF job.status \in NotTerminal
     THEN MoveJob("failed") /\ sweep' = [sweep EXCEPT ![s].at = "close"]
     ELSE UNCHANGED job /\ sweep' = [sweep EXCEPT ![s].at = "targets"]
  /\ UNCHANGED <<target, unit, mirror, delivery, command, sensor, request, canceller, told>>

CloseStale(s) ==
  /\ sweep[s].at = "close"
  /\ CloseTargets
  /\ sweep' = [sweep EXCEPT ![s].at = "targets"]
  /\ UNCHANGED <<job, unit, mirror, delivery, command, sensor, request, canceller, told>>

SettleStale(s) ==
  /\ sweep[s].at = "targets"
  /\ target' = SetTargets({"pending"}, "failed")
  /\ sweep' = [sweep EXCEPT ![s] = [at |-> "idle", command |-> 0]]
  /\ UNCHANGED <<job, unit, mirror, delivery, command, sensor, request, canceller, told>>

-----------------------------------------------------------------------------
(* What a person does *)

RequeueJobForRetry ==
  /\ "retry" \in Events
  /\ job.status \in {"queued", "failed"}
  /\ MoveJob("queued")
  /\ target' = SetTargets(TargetStatus \ {"completed"}, "pending")
  /\ unit' = SetUnits(UnitStatus \ {"absent", "done"}, "pending")
  /\ UNCHANGED <<mirror, delivery, command, sensor, request, sweep, canceller, told>>

CancelJob ==
  /\ "cancel" \in Events
  /\ canceller = "idle" /\ job.status \in NotTerminal
  /\ MoveJob("cancelled")
  /\ canceller' = "targets"
  /\ UNCHANGED <<target, unit, mirror, delivery, command, sensor, request, sweep, told>>

CancelTargets ==
  /\ canceller = "targets" /\ canceller' = "units"
  /\ target' = SetTargets({"pending"}, "cancelled")
  /\ UNCHANGED <<job, unit, mirror, delivery, command, sensor, request, sweep, told>>

CancelUnits ==
  /\ canceller = "units" /\ canceller' = "revoke"
  /\ unit' = SetUnits({"pending"}, "cancelled")
  /\ UNCHANGED <<job, target, mirror, delivery, command, sensor, request, sweep, told>>

\* revokeSensorDispatch: a command not collected is withdrawn ...
RevokeDispatch ==
  /\ canceller = "revoke" /\ canceller' = "tell"
  /\ command' = [d \in Dispatch |-> IF command[d].status = "pending"
                                    THEN [command[d] EXCEPT !.status = "failed"] ELSE command[d]]
  /\ UNCHANGED <<rows, delivery, sensor, request, sweep, told>>

\* ... and the sensor of one that was collected is sent a cancel command.
TellSensor ==
  /\ canceller = "tell" /\ canceller' = "over"
  /\ told' = IF \E d \in Dispatch : command[d].status = "delivered"
             THEN [told EXCEPT !.pending = TRUE] ELSE told
  /\ UNCHANGED <<rows, delivery, command, sensor, request, sweep>>

\* The first failing statement, or a crash of the replica, ends the handler.
CancelLost ==
  /\ canceller \in {"targets", "units", "revoke", "tell"} /\ canceller' = "over"
  /\ UNCHANGED <<rows, delivery, command, sensor, request, sweep, told>>

-----------------------------------------------------------------------------
DeliveryStep(m) ==
  \/ TakeDelivery(m) \/ RateLimited(m) \/ \E t \in Target : ExpandTarget(m, t)
  \/ Reauthorize(m) \/ DispatchCommand(m) \/ LeaveDispatch(m)
  \/ CannotDispatch(m) \/ FailDispatch(m) \/ CloseFailedDispatch(m)

SensorStep(d) ==
  \/ StartRun(d) \/ \E u \in Unit : Report(d, u) \/ ReportFails(d, u)
  \/ StopRun(d) \/ FinishRun(d) \/ CompleteJob(d) \/ CompletionLost(d) \/ Acknowledge(d)

ServeRequest == \E q \in request : RenewLease(q) \/ RecordUnit(q) \/ LoseRequest(q)

SweepStep(s) ==
  FindStale(s) \/ WithdrawStale(s) \/ FailStale(s) \/ CloseStale(s) \/ SettleStale(s)

CancelStep ==
  CancelJob \/ CancelTargets \/ CancelUnits \/ RevokeDispatch \/ TellSensor \/ CancelLost

Next ==
  \/ \E m \in Delivery : DeliveryStep(m)
  \/ \E d \in Dispatch : CollectCommand(d) \/ SensorStep(d) \/ Ping(d) \/ ExpireCommand(d)
  \/ ServeRequest \/ CollectCancel \/ SensorCrash
  \/ LapseProgress \/ \E s \in Sweeper : SweepStep(s)
  \/ RequeueJobForRetry \/ CancelStep

Spec == Init /\ [][Next]_sensorVars

-----------------------------------------------------------------------------
(* Safety *)

\* A host's findings enter the ingestion queue exactly once, with the `done` of its
\* unit, however often its report is sent, served or repeated by a later dispatch
\* (recordSensorUnit: pending and the attempt, in the transaction that stores).
StoredOnce ==
  \A u \in Unit :
    mirror[u] = IF unit[u].status = "done" /\ u \notin Silent THEN 1 ELSE 0

\* Only a report of the job's latest dispatch is stored: "a sensor that outlived
\* its lease cannot overwrite a Retry" (the attempt stamped by the dispatch).
StoredByLatestDispatch ==
  [][\A u \in Unit : unit[u].status # "done" /\ unit'[u].status = "done"
       => \E q \in request \ request' : q.unit = u /\ q.by = Latest]_sensorVars

\* Nothing is stored once the job has ended, or is queued again, between the two
\* transactions of a report (the share lock of recordSensorUnit).
NothingStoredAfterEnd ==
  [][job.status # "awaiting_sensor"
       => \A u \in Unit : unit'[u].status = "done" => unit[u].status = "done"]_sensorVars

\* While the job awaits the sensor, every host it waits for is in the plan of the
\* latest command, under that command's attempt: no host is waited for in vain.
AwaitedHostsWereHanded ==
  job.status = "awaiting_sensor" =>
    \A u \in Pending : u \in command[Latest].plan /\ unit[u].attempts = command[Latest].attempt

\* A completed job has an answer for every address of its targets, the hosts the
\* sensor never reported included (FinishSensorPlanUnits).
CompletedMeansAnswered ==
  job.status = "completed" => \A u \in Unit : unit[u].status \in {"done", "failed"}

\* The rows of the job implement what ScanLedger promises.
Ledger == INSTANCE ScanLedger WITH
            Host            <- Unit,
            AutoResumeLimit <- 0,
            status  <- IF job.status = "awaiting_sensor" THEN "running" ELSE job.status,
            resumes <- 0,
            done    <- {u \in Unit : unit[u].status = "done"},
            queued  <- mirror
KeepsLedger == Ledger!LedgerSpec

-----------------------------------------------------------------------------
(* Liveness *)

\* Time passes and the sweep runs on every replica; the sensor's worker goes on
\* while its process lives.  Neither pickups nor people are fair.
Fairness ==
  /\ \A d \in Dispatch : WF_sensorVars(SensorStep(d)) /\ WF_sensorVars(ExpireCommand(d))
  /\ WF_sensorVars(LapseProgress)
  /\ \A s \in Sweeper : WF_sensorVars(SweepStep(s))

FairSpec == Spec /\ Fairness

\* A job does not await its sensor for ever: the sensor completes it, or the sweep
\* fails it ("The platform's lease fails the job on its own", plan_job.go:201).
AwaitingEnds == job.status = "awaiting_sensor" ~> job.status # "awaiting_sensor"
=============================================================================
